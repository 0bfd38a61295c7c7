------------------------ MODULE ProcessRuntimeProofs ------------------------
(***************************************************************************)
(* Proofs about ProcessRuntime: what a terminal says about the process     *)
(* group, the output and the cause holds for every number of descendants   *)
(* and streams and every limit.                                            *)
(***************************************************************************)
EXTENDS ProcessRuntime, TLAPS

ReaderMessage ==
    [kind : {"chunk", "eof", "error"}, stream : Stream, bytes : Nat]

RuntimePoint ==
    {"accepted", "spawn", "identity", "unbound", "setup", "poll", "probe",
     "grace", "reaping", "check", "recollect", "join", "final", "emit",
     "guard", "reap", "returned"}

RuntimeTypes ==
    /\ pc \in RuntimePoint
    /\ forced \in {None, "Cancelled", "TimedOut", "OutputLimitExceeded", "IoError"}
    /\ terminal \in TerminalKind \cup {None}
    /\ eof \in SUBSET Stream
    /\ delivered \in 0..MaxOutput
    /\ cut \in BOOLEAN
    /\ queue \in Seq(ReaderMessage)
    /\ reader \in [Stream -> {"off", "read", "send", "done"}]
    /\ hand \in [Stream -> ReaderMessage \cup {None}]
    /\ life \in [Proc -> {"none", "live", "zombie", "gone"}]
    /\ pending \in [Proc -> {"none", "term", "kill", "refused"}]
    /\ escaped \in SUBSET Proc
    /\ holds \in [Stream -> SUBSET Proc]
    /\ pipe \in [Stream -> Nat]
    /\ asked \in {None, "TimedOut", "Cancelled"}

\* Before the workers are started nothing has been read, and before the spawn
\* there is no process.
BeforeWorkers ==
    /\ pc \in {"accepted", "spawn", "identity", "setup"} =>
         /\ queue = <<>>
         /\ eof = {}
         /\ reader = [s \in Stream |-> "off"]
         /\ hand = [s \in Stream |-> None]
         /\ pending = [p \in Proc |-> "none"]
         /\ forced = None
         /\ ~cut
    /\ pc \in {"accepted", "spawn"} => life = [p \in Proc |-> "none"]

\* Nothing more can come out of stream s.
Dry(s) == pipe[s] = 0 /\ holds[s] = {}

Finished(s) == Dry(s) /\ reader[s] = "done" /\ hand[s] = None

\* The end of a stream is the last message about it, wherever it is: in its
\* reader's hand, in the queue or received.
EndIsLast ==
    /\ \A s \in Stream : reader[s] = "send" =>
         /\ hand[s] \in ReaderMessage
         /\ hand[s].stream = s
         /\ hand[s].kind = "eof" => Dry(s)
    /\ \A i \in 1..Len(queue) : queue[i].kind = "eof" =>
         /\ Finished(queue[i].stream)
         /\ \A j \in 1..Len(queue) : i < j => queue[j].stream # queue[i].stream
    /\ forced = None => \A s \in eof :
         /\ Finished(s)
         /\ \A i \in 1..Len(queue) : queue[i].stream # s

\* What forced the end did happen, and a cut output always forces it.
ForcedIsTrue ==
    /\ forced = "Cancelled" => asked = "Cancelled"
    /\ forced = "TimedOut" => asked # None
    /\ forced = "OutputLimitExceeded" => cut
    /\ cut => forced # None

Terminating == {"probe", "grace", "reaping"}

\* The loop only signals once it is forced to end.
SignalsAreForced ==
    /\ pc \in Terminating =>
         /\ caller \in {"loop", "setup", "guard"}
         /\ caller = "loop" => forced # None
    /\ pc = "recollect" => forced # None
    /\ pc \in {"poll", "check", "join", "final"} /\ forced = None =>
         \A p \in Proc : pending[p] = "none"

\* The loop is left with the child reaped, and unforced only with every stream
\* at its end.
LoopIsOver ==
    pc \in {"join", "final"} =>
        Reaped(life) /\ (forced = None => eof = Stream)

\* Anything but an IoError is the last thing the call says.
TerminalIsLast == terminal \notin {None, "IoError"} => pc = "returned"

RuntimeInv ==
    /\ RuntimeTypes
    /\ BeforeWorkers
    /\ EndIsLast
    /\ ForcedIsTrue
    /\ SignalsAreForced
    /\ LoopIsOver
    /\ TerminalIsLast
    /\ NothingSurvives
    /\ TerminalIsTrue

-----------------------------------------------------------------------------

LEMMA InitRuntimeInv == RuntimeInit => RuntimeInv
<1> SUFFICES ASSUME RuntimeInit PROVE RuntimeInv
  OBVIOUS
<1> USE DEF RuntimeInit
<1>1. RuntimeTypes
  <2>1. queue \in Seq(ReaderMessage) /\ delivered \in 0..MaxOutput
    BY RuntimeAssumption
  <2> QED BY <2>1 DEF RuntimeTypes, RuntimePoint
<1>2. BeforeWorkers /\ EndIsLast /\ ForcedIsTrue
  BY RuntimeAssumption DEF BeforeWorkers, EndIsLast, ForcedIsTrue, TerminalKind
<1>3. SignalsAreForced /\ LoopIsOver /\ TerminalIsLast
  BY DEF SignalsAreForced, LoopIsOver, TerminalIsLast, Terminating
<1>4. NothingSurvives /\ TerminalIsTrue
  BY RuntimeAssumption DEF NothingSurvives, TerminalIsTrue, TerminalKind
<1> QED
  BY <1>1, <1>2, <1>3, <1>4 DEF RuntimeInv

\* A call that has said nothing yet, or an IoError, has promised nothing.
LEMMA Unpromising ==
    ASSUME terminal' \in {None, "IoError"}, delivered' \in 0..MaxOutput
    PROVE  TerminalIsLast' /\ NothingSurvives' /\ TerminalIsTrue'
  BY RuntimeAssumption DEF TerminalIsLast, NothingSurvives, TerminalIsTrue, TerminalKind

LEMMA StillOpen ==
    ASSUME RuntimeInv, pc # "returned"
    PROVE  terminal \in {None, "IoError"}
  BY DEF RuntimeInv, TerminalIsLast

LEMMA QueueTypes ==
    ASSUME RuntimeTypes
    PROVE  \A i \in 1..Len(queue) :
             /\ queue[i] \in ReaderMessage
             /\ queue[i].stream \in Stream
             /\ queue[i].bytes \in Nat
<1>1. \A i \in 1..Len(queue) : queue[i] \in ReaderMessage
  BY DEF RuntimeTypes
<1> QED BY <1>1 DEF ReaderMessage

(***************************************************************************)
(* The processes.  They leave the threads alone, a reaped leader stays     *)
(* reaped and a stream without writers gets none.                          *)
(***************************************************************************)
LEMMA ProcessesKeepInv ==
    ASSUME RuntimeInv, pc # "returned",
           UNCHANGED <<mainVars, workerVars, pending, asked>>,
           life' \in [Proc -> {"none", "live", "zombie", "gone"}],
           escaped' \in SUBSET Proc,
           holds' \in [Stream -> SUBSET Proc],
           pipe' \in [Stream -> Nat],
           life = [p \in Proc |-> "none"] => life' = life,
           life[Leader] = "gone" => life'[Leader] = "gone",
           \A s \in Stream : Dry(s) => Dry(s)'
    PROVE  RuntimeInv'
<1> USE DEF mainVars, loopVars, workerVars
<1>1. RuntimeTypes'
  BY DEF RuntimeInv, RuntimeTypes
<1>2. BeforeWorkers'
  BY DEF RuntimeInv, BeforeWorkers
<1>3. EndIsLast'
  <2>1. \A s \in Stream : Finished(s) => Finished(s)'
    BY DEF Finished
  <2>2. \A i \in 1..Len(queue) : queue[i].stream \in Stream
    BY QueueTypes DEF RuntimeInv
  <2>3. eof \subseteq Stream
    BY DEF RuntimeInv, RuntimeTypes
  <2> QED BY <2>1, <2>2, <2>3 DEF RuntimeInv, EndIsLast
<1>4. ForcedIsTrue' /\ SignalsAreForced' /\ LoopIsOver'
  BY DEF RuntimeInv, ForcedIsTrue, SignalsAreForced, LoopIsOver, Reaped
<1>5. TerminalIsLast' /\ NothingSurvives' /\ TerminalIsTrue'
  BY <1>1, StillOpen, Unpromising DEF RuntimeTypes
<1> QED
  BY <1>1, <1>2, <1>3, <1>4, <1>5 DEF RuntimeInv

LEMMA SystemKeepsInv ==
    ASSUME RuntimeInv, pc # "returned",
           \/ \E p \in Proc : Exit(p) \/ Escape(p)
           \/ \E d \in Descendant : Reap(d)
           \/ \E p \in Proc, d \in Descendant : Fork(p, d)
           \/ \E p \in Proc, s \in Stream : Write(p, s) \/ CloseStream(p, s)
    PROVE  RuntimeInv'
<1> USE DEF RuntimeInv, RuntimeTypes, Dry
<1>1. Leader \in Proc /\ \A d \in Descendant : d \in Proc /\ d # Leader
  BY RuntimeAssumption DEF Proc
<1>2. ASSUME NEW p \in Proc, Exit(p) PROVE RuntimeInv'
  BY <1>1, <1>2, ProcessesKeepInv DEF Exit
<1>3. ASSUME NEW p \in Proc, Escape(p) PROVE RuntimeInv'
  BY <1>1, <1>3, ProcessesKeepInv DEF Escape
<1>4. ASSUME NEW d \in Descendant, Reap(d) PROVE RuntimeInv'
  BY <1>1, <1>4, ProcessesKeepInv DEF Reap
<1>5. ASSUME NEW p \in Proc, NEW d \in Descendant, Fork(p, d) PROVE RuntimeInv'
  BY <1>1, <1>5, ProcessesKeepInv DEF Fork
<1>6. ASSUME NEW p \in Proc, NEW s \in Stream, Write(p, s) PROVE RuntimeInv'
  BY <1>6, ProcessesKeepInv DEF Write
<1>7. ASSUME NEW p \in Proc, NEW s \in Stream, CloseStream(p, s) PROVE RuntimeInv'
  BY <1>7, ProcessesKeepInv DEF CloseStream
<1> QED
  BY <1>2, <1>3, <1>4, <1>5, <1>6, <1>7

(***************************************************************************)
(* The clock and the owner.                                                *)
(***************************************************************************)
LEMMA AskingKeepsInv ==
    ASSUME RuntimeInv, pc # "returned", Cancel \/ DeadlinePasses
    PROVE  RuntimeInv'
<1>1. /\ UNCHANGED <<mainVars, workerVars, procVars>>
      /\ asked' \in {"TimedOut", "Cancelled"}
      /\ asked = "Cancelled" => asked' = "Cancelled"
  BY RuntimeAssumption DEF Cancel, DeadlinePasses, TerminalKind
<1> USE <1>1 DEF mainVars, loopVars, workerVars, procVars
<1>2. RuntimeTypes'
  BY DEF RuntimeInv, RuntimeTypes
<1>3. BeforeWorkers' /\ SignalsAreForced' /\ LoopIsOver'
  BY DEF RuntimeInv, BeforeWorkers, SignalsAreForced, LoopIsOver, Reaped
<1>4. EndIsLast'
  BY DEF RuntimeInv, EndIsLast, Finished, Dry
<1>5. ForcedIsTrue'
  BY RuntimeAssumption DEF RuntimeInv, ForcedIsTrue, TerminalKind
<1>6. TerminalIsLast' /\ NothingSurvives' /\ TerminalIsTrue'
  BY <1>2, StillOpen, Unpromising DEF RuntimeTypes
<1> QED
  BY <1>2, <1>3, <1>4, <1>5, <1>6 DEF RuntimeInv

LEMMA PostExitKeepsInv ==
    ASSUME RuntimeInv, pc # "returned", PostExitPasses
    PROVE  RuntimeInv'
<1> USE DEF PostExitPasses, workerVars, procVars
<1>1. RuntimeTypes'
  BY DEF RuntimeInv, RuntimeTypes
<1>2. BeforeWorkers' /\ SignalsAreForced' /\ LoopIsOver' /\ ForcedIsTrue'
  BY DEF RuntimeInv, BeforeWorkers, SignalsAreForced, LoopIsOver, Reaped, ForcedIsTrue
<1>3. EndIsLast'
  BY DEF RuntimeInv, EndIsLast, Finished, Dry
<1>4. TerminalIsLast' /\ NothingSurvives' /\ TerminalIsTrue'
  BY <1>1, StillOpen, Unpromising DEF RuntimeTypes
<1> QED
  BY <1>1, <1>2, <1>3, <1>4 DEF RuntimeInv

(***************************************************************************)
(* The readers.                                                            *)
(***************************************************************************)

\* A reader fills its hand.  Streams that are finished are others'.
LEMMA FillHandKeepsInv ==
    ASSUME RuntimeInv, pc # "returned", NEW s \in Stream,
           UNCHANGED <<mainVars, queue, life, pending, escaped, holds, asked>>,
           reader[s] = "read",
           reader' = [reader EXCEPT ![s] = "send"],
           NEW m \in ReaderMessage, m.stream = s,
           hand' = [hand EXCEPT ![s] = m],
           pipe' \in [Stream -> Nat],
           \A t \in Stream \ {s} : pipe'[t] = pipe[t],
           m.kind = "eof" => Dry(s)'
    PROVE  RuntimeInv'
<1> USE DEF mainVars, loopVars
<1>1. RuntimeTypes'
  BY DEF RuntimeInv, RuntimeTypes
<1>2. BeforeWorkers'
  BY DEF RuntimeInv, BeforeWorkers
<1>3. ForcedIsTrue' /\ SignalsAreForced' /\ LoopIsOver'
  BY DEF RuntimeInv, ForcedIsTrue, SignalsAreForced, LoopIsOver, Reaped
<1>4. EndIsLast'
  <2>1. /\ reader'[s] = "send" /\ hand'[s] = m
        /\ \A t \in Stream \ {s} : reader'[t] = reader[t] /\ hand'[t] = hand[t]
    BY DEF RuntimeInv, RuntimeTypes
  <2>2. \A t \in Stream \ {s} : Dry(t) => Dry(t)'
    BY DEF Dry
  <2>3. \A t \in Stream : Finished(t) => Finished(t)'
    BY <2>1, <2>2 DEF Finished
  <2>4. \A t \in Stream : reader'[t] = "send" =>
          /\ hand'[t] \in ReaderMessage
          /\ hand'[t].stream = t
          /\ hand'[t].kind = "eof" => Dry(t)'
    BY <2>1, <2>2 DEF RuntimeInv, EndIsLast
  <2>5. \A i \in 1..Len(queue) : queue[i].stream \in Stream
    BY QueueTypes DEF RuntimeInv
  <2>6. eof \subseteq Stream
    BY DEF RuntimeInv, RuntimeTypes
  <2> QED BY <2>3, <2>4, <2>5, <2>6 DEF RuntimeInv, EndIsLast
<1>5. TerminalIsLast' /\ NothingSurvives' /\ TerminalIsTrue'
  BY <1>1, StillOpen, Unpromising DEF RuntimeTypes
<1> QED
  BY <1>1, <1>2, <1>3, <1>4, <1>5 DEF RuntimeInv

LEMMA ReadKeepsInv ==
    ASSUME RuntimeInv, pc # "returned", NEW s \in Stream,
           ReadStream(s) \/ ReadFails(s)
    PROVE  RuntimeInv'
<1>1. pipe \in [Stream -> Nat]
  BY DEF RuntimeInv, RuntimeTypes
<1>2. \A n \in Nat : /\ Message("chunk", s, n) \in ReaderMessage
                     /\ Message("chunk", s, n).stream = s
                     /\ Message("chunk", s, n).kind # "eof"
  BY DEF Message, ReaderMessage
<1>3. \A kind \in {"eof", "error"} :
        /\ Message(kind, s, 0) \in ReaderMessage
        /\ Message(kind, s, 0).stream = s
        /\ Message(kind, s, 0).kind = kind
  BY DEF Message, ReaderMessage
<1>4. ASSUME NEW n \in 1..Lesser(MaxChunk, pipe[s]), ReadStream(s),
             hand' = [hand EXCEPT ![s] = Message("chunk", s, n)],
             pipe' = [pipe EXCEPT ![s] = @ - n]
      PROVE  RuntimeInv'
  <2>1. n \in Nat /\ pipe[s] - n \in Nat
    BY <1>1, RuntimeAssumption DEF Lesser
  <2>2. pipe' \in [Stream -> Nat] /\ \A t \in Stream \ {s} : pipe'[t] = pipe[t]
    BY <1>1, <1>4, <2>1
  <2> QED
    BY <1>2, <1>4, <2>1, <2>2, FillHandKeepsInv DEF ReadStream
<1>5. CASE /\ ReadStream(s) /\ EndOfStream(s) /\ UNCHANGED pipe
           /\ hand' = [hand EXCEPT ![s] = Message("eof", s, 0)]
  <2>1. Dry(s)'
    BY <1>5 DEF EndOfStream, Dry, ReadStream
  <2> QED
    BY <1>1, <1>3, <1>5, <2>1, FillHandKeepsInv DEF ReadStream
<1>6. CASE ReadFails(s)
  BY <1>1, <1>3, <1>6, FillHandKeepsInv DEF ReadFails, procVars
<1> QED
  BY <1>4, <1>5, <1>6 DEF ReadStream

LEMMA SendKeepsInv ==
    ASSUME RuntimeInv, pc # "returned", NEW s \in Stream, SendMessage(s)
    PROVE  RuntimeInv'
<1> DEFINE m == hand[s]
<1>1. /\ reader[s] = "send"
      /\ queue' = Append(queue, m)
      /\ reader' = [reader EXCEPT ![s] = IF m.kind = "chunk" THEN "read" ELSE "done"]
      /\ hand' = [hand EXCEPT ![s] = None]
      /\ UNCHANGED <<mainVars, procVars, asked>>
  BY DEF SendMessage
<1>2. /\ m \in ReaderMessage
      /\ m.stream = s
      /\ m.kind = "eof" => Dry(s)
  BY <1>1 DEF RuntimeInv, EndIsLast
<1> HIDE DEF m
<1> USE DEF mainVars, loopVars, procVars
<1>3. RuntimeTypes'
  <2>1. queue' \in Seq(ReaderMessage)
    BY <1>1, <1>2 DEF RuntimeInv, RuntimeTypes
  <2> QED BY <1>1, <2>1 DEF RuntimeInv, RuntimeTypes
<1>4. BeforeWorkers'
  BY <1>1 DEF RuntimeInv, BeforeWorkers
<1>5. ForcedIsTrue' /\ SignalsAreForced' /\ LoopIsOver'
  BY <1>1 DEF RuntimeInv, ForcedIsTrue, SignalsAreForced, LoopIsOver, Reaped
<1>6. EndIsLast'
  <2>1. /\ reader'[s] = IF m.kind = "chunk" THEN "read" ELSE "done"
        /\ hand'[s] = None
        /\ \A t \in Stream \ {s} : reader'[t] = reader[t] /\ hand'[t] = hand[t]
    BY <1>1 DEF RuntimeInv, RuntimeTypes
  <2>2. \A t \in Stream : Dry(t) => Dry(t)'
    BY <1>1 DEF Dry
  <2>3. \A t \in Stream : Finished(t) => t # s /\ Finished(t)'
    BY <1>1, <2>1, <2>2 DEF Finished
  <2>4. m.kind = "eof" => Finished(s)'
    BY <1>2, <2>1, <2>2 DEF Finished
  <2>5. \A i \in 1..Len(queue) : queue[i].stream \in Stream
    BY QueueTypes DEF RuntimeInv
  <2>6. /\ Len(queue') = Len(queue) + 1
        /\ Len(queue) \in Nat
        /\ \A i \in 1..Len(queue) : queue'[i] = queue[i]
        /\ queue'[Len(queue) + 1] = m
    BY <1>1, <1>2 DEF RuntimeInv, RuntimeTypes
  <2>7. \A t \in Stream : reader'[t] = "send" =>
          /\ hand'[t] \in ReaderMessage
          /\ hand'[t].stream = t
          /\ hand'[t].kind = "eof" => Dry(t)'
    BY <2>1, <2>2 DEF RuntimeInv, EndIsLast
  <2>8. ASSUME NEW i \in 1..Len(queue'), queue'[i].kind = "eof"
        PROVE  /\ Finished(queue[i].stream)'
               /\ \A j \in 1..Len(queue') : i < j => queue'[j].stream # queue'[i].stream
    <3>1. CASE i \in 1..Len(queue)
      <4>1. PICK t \in Stream : t = queue[i].stream
        BY <2>5, <3>1
      <4>2. Finished(t) /\ \A j \in 1..Len(queue) : i < j => queue[j].stream # t
        BY <2>6, <2>8, <3>1, <4>1 DEF RuntimeInv, EndIsLast
      <4>3. t # s /\ Finished(t)' /\ queue'[i].stream = t
        BY <2>3, <2>6, <3>1, <4>1, <4>2
      <4>4. Finished(queue[i].stream)'
        BY <4>3 DEF Finished, Dry
      <4> QED BY <1>2, <2>6, <3>1, <4>2, <4>3, <4>4
    <3>2. CASE i = Len(queue) + 1
      <4>1. Finished(s)' /\ queue'[i].stream = s
        BY <1>2, <2>4, <2>6, <2>8, <3>2
      <4>2. Finished(queue[i].stream)'
        BY <4>1 DEF Finished, Dry
      <4> QED BY <2>6, <3>2, <4>2
    <3> QED BY <2>6, <3>1, <3>2
  <2>9. ASSUME forced = None, NEW t \in eof
        PROVE  /\ Finished(t)'
               /\ \A i \in 1..Len(queue') : queue'[i].stream # t
    <3>1. t \in Stream /\ Finished(t) /\ \A i \in 1..Len(queue) : queue[i].stream # t
      BY <2>9 DEF RuntimeInv, RuntimeTypes, EndIsLast
    <3> QED BY <1>2, <2>3, <2>6, <3>1
  <2> QED
    BY <1>1, <2>7, <2>8, <2>9 DEF EndIsLast
<1>7. TerminalIsLast' /\ NothingSurvives' /\ TerminalIsTrue'
  BY <1>1, <1>3, StillOpen, Unpromising DEF RuntimeTypes
<1> QED
  BY <1>3, <1>4, <1>5, <1>6, <1>7 DEF RuntimeInv

LEMMA StopKeepsInv ==
    ASSUME RuntimeInv, pc # "returned", NEW s \in Stream, StopReader(s)
    PROVE  RuntimeInv'
<1>1. /\ pc = "join"
      /\ reader[s] \in {"read", "send"}
      /\ reader' = [reader EXCEPT ![s] = "done"]
      /\ UNCHANGED <<mainVars, queue, hand, procVars, asked>>
  BY DEF StopReader
<1> USE DEF mainVars, loopVars, procVars
<1>2. RuntimeTypes'
  BY <1>1 DEF RuntimeInv, RuntimeTypes
<1>3. BeforeWorkers' /\ ForcedIsTrue' /\ SignalsAreForced' /\ LoopIsOver'
  BY <1>1 DEF RuntimeInv, BeforeWorkers, ForcedIsTrue, SignalsAreForced, LoopIsOver, Reaped
<1>4. EndIsLast'
  <2>1. /\ reader'[s] = "done"
        /\ \A t \in Stream \ {s} : reader'[t] = reader[t]
    BY <1>1 DEF RuntimeInv, RuntimeTypes
  <2>2. \A t \in Stream : (Dry(t) => Dry(t)') /\ (Finished(t) => Finished(t)')
    BY <1>1, <2>1 DEF Dry, Finished
  <2>3. \A i \in 1..Len(queue) : queue[i].stream \in Stream
    BY QueueTypes DEF RuntimeInv
  <2>4. eof \subseteq Stream
    BY DEF RuntimeInv, RuntimeTypes
  <2> QED BY <1>1, <2>1, <2>2, <2>3, <2>4 DEF RuntimeInv, EndIsLast
<1>5. TerminalIsLast' /\ NothingSurvives' /\ TerminalIsTrue'
  BY <1>1, <1>2, StillOpen, Unpromising DEF RuntimeTypes
<1> QED
  BY <1>2, <1>3, <1>4, <1>5 DEF RuntimeInv

(***************************************************************************)
(* The calling thread, where it touches neither the queue nor the output.  *)
(***************************************************************************)
LEMMA MoveKeepsInv ==
    ASSUME RuntimeInv, pc # "returned", pc' \in RuntimePoint,
           UNCHANGED <<eof, delivered, cut, workerVars, escaped, holds, pipe, asked>>,
           terminal' \in {None, "IoError"},
           \/ forced' \in {forced, "IoError"}
           \/ forced = None /\ forced' = asked,
           life' \in [Proc -> {"none", "live", "zombie", "gone"}],
           pending' \in [Proc -> {"none", "term", "kill", "refused"}],
           pc' \in {"accepted", "spawn", "identity", "setup"} =>
             /\ pc \in {"accepted", "spawn", "identity", "setup"}
             /\ UNCHANGED <<forced, pending>>,
           pc' \in {"accepted", "spawn"} =>
             pc \in {"accepted", "spawn"} /\ UNCHANGED life,
           SignalsAreForced', LoopIsOver'
    PROVE  RuntimeInv'
<1> USE DEF workerVars
<1>0. forced # None => forced' # None
  BY RuntimeAssumption DEF TerminalKind
<1>1. RuntimeTypes'
  <2>1. forced' \in {None, "Cancelled", "TimedOut", "OutputLimitExceeded", "IoError"}
    BY DEF RuntimeInv, RuntimeTypes
  <2>2. terminal' \in TerminalKind \cup {None}
    BY DEF TerminalKind
  <2> QED BY <2>1, <2>2 DEF RuntimeInv, RuntimeTypes
<1>2. BeforeWorkers'
  BY DEF RuntimeInv, BeforeWorkers
<1>3. EndIsLast'
  BY <1>0 DEF RuntimeInv, EndIsLast, Finished, Dry
<1>4. ForcedIsTrue'
  BY <1>0, RuntimeAssumption DEF RuntimeInv, RuntimeTypes, ForcedIsTrue, TerminalKind
<1>5. TerminalIsLast' /\ NothingSurvives' /\ TerminalIsTrue'
  BY <1>1, Unpromising DEF RuntimeTypes
<1> QED
  BY <1>1, <1>2, <1>3, <1>4, <1>5 DEF RuntimeInv

LEMMA EarlyKeepsInv ==
    ASSUME RuntimeInv, pc # "returned",
           \/ asked = None /\ Goto("accepted", "spawn")
                /\ UNCHANGED <<loopVars, workerVars, procVars, asked>>
           \/ CaptureIdentity \/ IdentityUnknown \/ SetupFails
           \/ EmitSetupFailure \/ DropGuard \/ DropUnbound \/ ReapChild
    PROVE  RuntimeInv'
<1> USE DEF loopVars, procVars, Goto
<1>1. /\ UNCHANGED <<eof, delivered, cut, workerVars, escaped, holds, pipe, asked, forced>>
      /\ terminal' \in {terminal, "IoError"}
      /\ pc' \in {"spawn", "setup", "unbound", "probe", "guard", "reap", "returned"}
      /\ pc' = "spawn" => pc = "accepted"
      /\ pc' = "setup" => pc = "identity"
      /\ pc' = "probe" => caller' \in {"setup", "guard"}
      /\ pc' \in {"spawn", "setup"} => UNCHANGED <<life, pending>>
  BY DEF CaptureIdentity, IdentityUnknown, SetupFails, EmitSetupFailure, DropGuard,
         DropUnbound, ReapChild
<1>2. terminal' \in {None, "IoError"}
  BY <1>1, StillOpen
<1>3. life' \in [Proc -> {"none", "live", "zombie", "gone"}]
  <2>1. UNCHANGED life \/ TryWait
    BY DEF CaptureIdentity, IdentityUnknown, SetupFails, EmitSetupFailure, DropGuard,
           DropUnbound, ReapChild
  <2> QED BY <2>1 DEF TryWait, RuntimeInv, RuntimeTypes, Proc
<1>4. pending' \in [Proc -> {"none", "term", "kill", "refused"}]
  <2>1. UNCHANGED pending \/ \E ok \in BOOLEAN : KillLeader(pending, ok)
    BY DEF CaptureIdentity, IdentityUnknown, SetupFails, EmitSetupFailure, DropGuard,
           DropUnbound, ReapChild
  <2> QED BY <2>1 DEF KillLeader, RuntimeInv, RuntimeTypes, Proc
<1>5. SignalsAreForced' /\ LoopIsOver'
  BY <1>1 DEF SignalsAreForced, LoopIsOver, Terminating
<1>6. pc' \in RuntimePoint
  BY <1>1 DEF RuntimePoint
<1> QED
  BY <1>1, <1>2, <1>3, <1>4, <1>5, <1>6, MoveKeepsInv

(***************************************************************************)
(* terminate_process_group.                                                *)
(***************************************************************************)

\* All that its steps can do, whatever the probes and the signals answer.
LEMMA TerminationForm ==
    ASSUME RuntimeInv, TermProbe \/ TermPoll \/ GraceOver \/ ReapingOver
    PROVE  /\ pc \in Terminating
           /\ UNCHANGED termFrame
           /\ TryWait \/ UNCHANGED life
           /\ pending' \in [Proc -> {"none", "term", "kill", "refused"}]
           /\ \/ \E ok \in BOOLEAN : Terminated(ok)
              \/ \E at \in Terminating : Stay(at)
<1>1. pending \in [Proc -> {"none", "term", "kill", "refused"}]
  BY DEF RuntimeInv, RuntimeTypes
<1>2. \A signal \in {"term", "kill"} :
        Signalled(signal) \in [Proc -> {"none", "term", "kill", "refused"}]
  BY <1>1 DEF Signalled
<1>3. ASSUME NEW signals \in [Proc -> {"none", "term", "kill", "refused"}],
             NEW ok \in BOOLEAN, KillLeader(signals, ok)
      PROVE  pending' \in [Proc -> {"none", "term", "kill", "refused"}]
  BY <1>3 DEF KillLeader
<1>4. ASSUME NEW signals \in [Proc -> {"none", "term", "kill", "refused"}],
             KillDirect(signals)
      PROVE  /\ pending' \in [Proc -> {"none", "term", "kill", "refused"}]
             /\ (\E ok \in BOOLEAN : Terminated(ok)) \/ Stay("reaping")
  BY <1>3, <1>4 DEF KillDirect
<1>5. ASSUME Fallback
      PROVE  /\ pending' \in [Proc -> {"none", "term", "kill", "refused"}]
             /\ \E ok \in BOOLEAN : Terminated(ok)
  BY <1>1, <1>3, <1>5 DEF Fallback
<1>6. CASE TermProbe
  BY <1>1, <1>2, <1>4, <1>5, <1>6 DEF TermProbe, Terminating
<1>7. CASE TermPoll
  BY <1>1, <1>5, <1>7 DEF TermPoll, Terminating
<1>8. CASE GraceOver
  BY <1>1, <1>2, <1>4, <1>5, <1>8 DEF GraceOver, Terminating
<1>9. CASE ReapingOver
  BY <1>1, <1>5, <1>9 DEF ReapingOver, Terminating
<1> QED BY <1>6, <1>7, <1>8, <1>9

LEMMA TerminationKeepsInv ==
    ASSUME RuntimeInv, pc # "returned",
           TermProbe \/ TermPoll \/ GraceOver \/ ReapingOver
    PROVE  RuntimeInv'
<1>1. /\ pc \in Terminating
      /\ UNCHANGED termFrame
      /\ TryWait \/ UNCHANGED life
      /\ pending' \in [Proc -> {"none", "term", "kill", "refused"}]
      /\ \/ \E ok \in BOOLEAN : Terminated(ok)
         \/ \E at \in Terminating : Stay(at)
  BY TerminationForm
<1>2. /\ caller \in {"loop", "setup", "guard"}
      /\ caller = "loop" => forced # None
  BY <1>1 DEF RuntimeInv, SignalsAreForced
<1>3. UNCHANGED <<caller, eof, delivered, cut, terminal, workerVars, escaped, holds, pipe, asked>>
  BY <1>1 DEF termFrame
<1>4. life' \in [Proc -> {"none", "live", "zombie", "gone"}]
  BY <1>1 DEF TryWait, RuntimeInv, RuntimeTypes, Proc
<1>5. terminal' \in {None, "IoError"}
  BY <1>3, StillOpen
<1>6. /\ pc' \in Terminating \cup {"check", "recollect", "emit", "reap"}
      /\ pc' \in {"check", "recollect"} => caller = "loop"
      /\ forced' \in {forced, "IoError"}
      /\ forced # None => forced' # None
  <2>1. CASE \E at \in Terminating : Stay(at)
    BY <2>1 DEF Stay, Terminating
  <2>2. CASE \E ok \in BOOLEAN : Terminated(ok)
    BY <1>2, <2>2, RuntimeAssumption DEF Terminated, TerminalKind
  <2> QED BY <1>1, <2>1, <2>2
<1>7. SignalsAreForced' /\ LoopIsOver'
  BY <1>2, <1>3, <1>6 DEF SignalsAreForced, LoopIsOver, Terminating
<1>8. pc' \in RuntimePoint \ {"accepted", "spawn", "identity", "setup"}
  BY <1>6 DEF RuntimePoint, Terminating
<1> QED
  BY <1>3, <1>4, <1>5, <1>6, <1>7, <1>8, <1>1, MoveKeepsInv

(***************************************************************************)
(* The loop.                                                               *)
(***************************************************************************)
LEMMA PollKeepsInv ==
    ASSUME RuntimeInv, pc # "returned", Poll
    PROVE  RuntimeInv'
<1>1. /\ pc = "poll"
      /\ UNCHANGED <<eof, delivered, cut, terminal, workerVars, pending, escaped, holds,
                     pipe, written, asked>>
      /\ \/ pc' = "probe" /\ caller' = "loop" /\ forced' # None
         \/ pc' = "check"
  BY DEF Poll
<1>2. life' \in [Proc -> {"none", "live", "zombie", "gone"}]
  BY DEF Poll, TryWait, RuntimeInv, RuntimeTypes, Proc
<1>3. \/ forced' \in {forced, "IoError"}
      \/ forced = None /\ forced' = asked
  <2>1. PICK waited \in ForcedByWait :
          forced' = IF waited = None /\ ~Reaped(life') THEN asked ELSE waited
    BY DEF Poll
  <2>2. ForcedByWait \subseteq {forced, OrForced("IoError")}
    BY DEF ForcedByWait
  <2> QED BY <2>1, <2>2 DEF OrForced
<1>4. forced # None => forced' # None
  BY <1>3, RuntimeAssumption DEF TerminalKind
<1>5. terminal' \in {None, "IoError"}
  BY <1>1, StillOpen
<1>6. SignalsAreForced' /\ LoopIsOver'
  BY <1>1, <1>4 DEF RuntimeInv, SignalsAreForced, LoopIsOver, Terminating
<1>7. pc' \in RuntimePoint \ {"accepted", "spawn", "identity", "setup"}
  BY <1>1 DEF RuntimePoint
<1>8. pending' \in [Proc -> {"none", "term", "kill", "refused"}]
  BY <1>1 DEF RuntimeInv, RuntimeTypes
<1> QED
  BY <1>1, <1>2, <1>3, <1>5, <1>6, <1>7, <1>8, MoveKeepsInv

LEMMA LeavingKeepsInv ==
    ASSUME RuntimeInv, pc # "returned", Recollect \/ LeaveLoop \/ Join
    PROVE  RuntimeInv'
<1>1. /\ UNCHANGED <<caller, eof, delivered, cut, terminal, workerVars, pending, escaped,
                     holds, pipe, asked>>
      /\ TryWait \/ UNCHANGED life
      /\ \/ pc = "recollect" /\ pc' = "check" /\ UNCHANGED forced
         \/ /\ pc = "check" /\ pc' = "join" /\ UNCHANGED life
            /\ forced' \in LoopEnds
         \/ /\ pc = "join" /\ pc' = "final" /\ UNCHANGED life
            /\ forced' \in {forced, "IoError"}
  BY DEF Recollect, LeaveLoop, Join, Goto, loopVars, procVars
<1>2. pc = "check" => Reaped(life) /\ (forced' = "IoError" \/ (forced' = forced /\ eof = Stream))
  BY <1>1 DEF LoopEnds
<1>3. forced' \in {forced, "IoError"} /\ (forced # None => forced' # None)
  BY <1>1, <1>2, RuntimeAssumption DEF TerminalKind
<1>4. life' \in [Proc -> {"none", "live", "zombie", "gone"}]
  BY <1>1 DEF TryWait, RuntimeInv, RuntimeTypes, Proc
<1>5. terminal' \in {None, "IoError"}
  BY <1>1, StillOpen
<1>6. SignalsAreForced'
  BY <1>1, <1>3 DEF RuntimeInv, SignalsAreForced, Terminating
<1>7. LoopIsOver'
  BY <1>1, <1>2, <1>3, RuntimeAssumption DEF RuntimeInv, LoopIsOver, Reaped, TerminalKind
<1>8. pc' \in RuntimePoint \ {"accepted", "spawn", "identity", "setup"}
  BY <1>1 DEF RuntimePoint
<1>9. pending' \in [Proc -> {"none", "term", "kill", "refused"}]
  BY <1>1 DEF RuntimeInv, RuntimeTypes
<1> QED
  BY <1>1, <1>3, <1>4, <1>5, <1>6, <1>7, <1>8, <1>9, MoveKeepsInv

\* A received message is the end of its stream only if nothing of it is left.
LEMMA ReceiveKeepsInv ==
    ASSUME RuntimeInv, pc # "returned", Receive
    PROVE  RuntimeInv'
<1>1. /\ pc = "check" /\ pc' = "poll"
      /\ UNCHANGED <<caller, attempted, postExit, terminal, reader, hand, procVars, asked>>
  BY DEF Receive, Goto
<1> USE DEF procVars
<1>2. terminal' \in {None, "IoError"}
  BY <1>1, StillOpen
<1>3. CASE queue = <<>>
  <2>1. UNCHANGED <<forced, eof, delivered, cut, queue>>
    BY <1>3 DEF Receive
  <2>2. SignalsAreForced' /\ LoopIsOver'
    BY <1>1, <2>1 DEF RuntimeInv, SignalsAreForced, LoopIsOver, Terminating
  <2>3. "poll" \in RuntimePoint
    BY DEF RuntimePoint
  <2>4. /\ life' \in [Proc -> {"none", "live", "zombie", "gone"}]
        /\ pending' \in [Proc -> {"none", "term", "kill", "refused"}]
    BY <1>1 DEF RuntimeInv, RuntimeTypes
  <2> QED
    BY <1>1, <1>2, <2>1, <2>2, <2>3, <2>4, MoveKeepsInv DEF workerVars
<1>4. CASE queue # <<>>
  <2> DEFINE m == Head(queue)
             taken == Lesser(m.bytes, MaxOutput - delivered)
  <2>1. /\ delivered' = delivered + taken
        /\ cut' = (cut \/ taken < m.bytes)
        /\ eof' = IF m.kind = "chunk" THEN eof ELSE eof \cup {m.stream}
        /\ forced' = IF m.kind = "error" THEN OrForced("IoError")
                     ELSE IF taken < m.bytes THEN OrForced("OutputLimitExceeded") ELSE forced
        /\ queue' = Tail(queue)
    BY <1>4 DEF Receive, Take
  <2>2. /\ queue \in Seq(ReaderMessage) /\ Len(queue) \in Nat \ {0}
        /\ m = queue[1] /\ m \in ReaderMessage
        /\ Len(queue') = Len(queue) - 1
        /\ \A i \in 1..Len(queue') : i + 1 \in 1..Len(queue) /\ queue'[i] = queue[i + 1]
        /\ queue' \in Seq(ReaderMessage)
    BY <1>4, <2>1 DEF RuntimeInv, RuntimeTypes
  <2> HIDE DEF m
  <2>3. m.kind \in {"chunk", "eof", "error"} /\ m.stream \in Stream /\ m.bytes \in Nat
    BY <2>2 DEF ReaderMessage
  <2>4. delivered \in 0..MaxOutput /\ MaxOutput \in Nat
    BY RuntimeAssumption DEF RuntimeInv, RuntimeTypes
  <2>5. taken \in Nat /\ delivered + taken \in 0..MaxOutput
    BY <2>3, <2>4 DEF Lesser
  <2> HIDE DEF taken
  <2>6. /\ forced # None => forced' = forced
        /\ forced = None => forced' \in {None, "IoError", "OutputLimitExceeded"}
        /\ forced' = None => m.kind # "error" /\ forced = None /\ ~(taken < m.bytes)
        /\ forced' = "OutputLimitExceeded" => forced = forced' \/ cut'
    BY <2>1, RuntimeAssumption DEF OrForced, TerminalKind
  <2>7. RuntimeTypes'
    BY <1>1, <2>1, <2>2, <2>3, <2>5, <2>6 DEF RuntimeInv, RuntimeTypes, RuntimePoint
  <2>8. BeforeWorkers' /\ LoopIsOver'
    BY <1>1 DEF BeforeWorkers, LoopIsOver
  <2>9. SignalsAreForced'
    BY <1>1, <2>6 DEF RuntimeInv, SignalsAreForced, Terminating
  <2>10. ForcedIsTrue'
    BY <1>1, <2>1, <2>6, RuntimeAssumption DEF RuntimeInv, ForcedIsTrue, TerminalKind
  <2>11. EndIsLast'
    <3>1. \A s \in Stream : (Dry(s)' <=> Dry(s)) /\ (Finished(s)' <=> Finished(s))
      BY <1>1 DEF Dry, Finished
    <3>2. \A s \in Stream : reader'[s] = "send" =>
            /\ hand'[s] \in ReaderMessage
            /\ hand'[s].stream = s
            /\ hand'[s].kind = "eof" => Dry(s)'
      BY <1>1, <3>1 DEF RuntimeInv, EndIsLast
    <3>3. ASSUME NEW i \in 1..Len(queue'), queue'[i].kind = "eof"
          PROVE  /\ Finished(queue[i].stream)'
                 /\ \A j \in 1..Len(queue') : i < j => queue'[j].stream # queue'[i].stream
      <4>1. PICK s \in Stream : s = queue'[i].stream
        <5>1. queue'[i] \in ReaderMessage
          BY <2>2, <3>3
        <5> QED BY <5>1 DEF ReaderMessage
      <4>2. /\ i + 1 \in 1..Len(queue) /\ queue[i + 1].kind = "eof"
            /\ queue[i + 1].stream = s
        BY <2>2, <3>3, <4>1
      <4>3. /\ Finished(s)
            /\ \A j \in 1..Len(queue) : i + 1 < j => queue[j].stream # s
        BY <4>2 DEF RuntimeInv, EndIsLast
      <4>4. Finished(queue[i].stream)'
        <5>1. Finished(s)'
          BY <3>1, <4>3
        <5> QED BY <4>1, <5>1 DEF Finished, Dry
      <4>5. \A j \in 1..Len(queue') : i < j => i + 1 < j + 1 /\ j + 1 \in 1..Len(queue)
        BY <2>2
      <4> QED BY <2>2, <4>1, <4>3, <4>4, <4>5
    <3>4. ASSUME forced' = None, NEW s \in eof'
          PROVE  /\ Finished(s)'
                 /\ \A i \in 1..Len(queue') : queue'[i].stream # s
      <4>1. m.kind # "error" /\ forced = None
        BY <2>6, <3>4
      <4>2. CASE s \in eof
        <5>1. /\ s \in Stream /\ Finished(s)
              /\ \A i \in 1..Len(queue) : queue[i].stream # s
          BY <4>1, <4>2 DEF RuntimeInv, RuntimeTypes, EndIsLast
        <5> QED BY <2>2, <3>1, <5>1
      <4>3. CASE s \notin eof
        <5>1. m.kind = "eof" /\ s = m.stream
          BY <2>1, <2>3, <3>4, <4>1, <4>3
        <5>2. 1 \in 1..Len(queue) /\ queue[1].kind = "eof" /\ queue[1].stream = s
          BY <2>2, <5>1
        <5>3. /\ Finished(s)
              /\ \A j \in 1..Len(queue) : 1 < j => queue[j].stream # s
          BY <5>2 DEF RuntimeInv, EndIsLast
        <5>4. \A i \in 1..Len(queue') : 1 < i + 1
          BY <2>2
        <5> QED BY <2>2, <2>3, <3>1, <5>1, <5>3, <5>4
      <4> QED BY <4>2, <4>3
    <3> QED
      BY <3>2, <3>3, <3>4 DEF EndIsLast
  <2>12. TerminalIsLast' /\ NothingSurvives' /\ TerminalIsTrue'
    BY <1>2, <2>7, Unpromising DEF RuntimeTypes
  <2> QED
    BY <2>7, <2>8, <2>9, <2>10, <2>11, <2>12 DEF RuntimeInv
<1> QED BY <1>3, <1>4

(***************************************************************************)
(* The beginning and the end of the call.                                  *)
(***************************************************************************)
LEMMA SpawnKeepsInv ==
    ASSUME RuntimeInv, pc # "returned", Spawn \/ StartWorkers
    PROVE  RuntimeInv'
<1>1. CASE Spawn
  <2>1. /\ pc = "spawn" /\ pc' = "identity"
        /\ life' = [life EXCEPT ![Leader] = "live"]
        /\ holds' = [s \in Stream |-> {Leader}]
        /\ UNCHANGED <<loopVars, workerVars, pending, escaped, pipe, written, asked>>
    BY <1>1 DEF Spawn, Goto
  <2> USE DEF loopVars, workerVars
  <2>2. RuntimeTypes'
    BY <2>1 DEF RuntimeInv, RuntimeTypes, RuntimePoint, Proc
  <2>3. BeforeWorkers'
    BY <2>1 DEF RuntimeInv, BeforeWorkers
  <2>4. EndIsLast'
    BY <2>3, <2>1 DEF EndIsLast, BeforeWorkers
  <2>5. ForcedIsTrue' /\ SignalsAreForced' /\ LoopIsOver'
    BY <2>1 DEF RuntimeInv, ForcedIsTrue, SignalsAreForced, LoopIsOver, Terminating
  <2>6. TerminalIsLast' /\ NothingSurvives' /\ TerminalIsTrue'
    BY <2>1, <2>2, StillOpen, Unpromising DEF RuntimeTypes
  <2> QED
    BY <2>2, <2>3, <2>4, <2>5, <2>6 DEF RuntimeInv
<1>2. CASE StartWorkers
  <2>1. /\ pc = "setup" /\ pc' = "poll"
        /\ reader' = [s \in Stream |-> "read"]
        /\ UNCHANGED <<loopVars, queue, hand, procVars, asked>>
    BY <1>2 DEF StartWorkers, Goto
  <2> USE DEF loopVars, procVars
  <2>2. queue = <<>> /\ eof = {} /\ pending = [p \in Proc |-> "none"]
    BY <2>1 DEF RuntimeInv, BeforeWorkers
  <2>3. RuntimeTypes'
    BY <2>1 DEF RuntimeInv, RuntimeTypes, RuntimePoint
  <2>4. BeforeWorkers' /\ LoopIsOver'
    BY <2>1 DEF BeforeWorkers, LoopIsOver
  <2>5. EndIsLast'
    BY <2>1, <2>2 DEF EndIsLast
  <2>6. ForcedIsTrue' /\ SignalsAreForced'
    BY <2>1, <2>2 DEF RuntimeInv, ForcedIsTrue, SignalsAreForced, Terminating
  <2>7. TerminalIsLast' /\ NothingSurvives' /\ TerminalIsTrue'
    BY <2>1, <2>3, StillOpen, Unpromising DEF RuntimeTypes
  <2> QED
    BY <2>3, <2>4, <2>5, <2>6, <2>7 DEF RuntimeInv
<1> QED BY <1>1, <1>2

\* A call that ends without a child.
LEMMA RefuseKeepsInv ==
    ASSUME RuntimeInv, NEW from \in {"accepted", "spawn"},
           NEW kind \in {"TransportUnavailable", "IoError", "SpawnFailed",
                         "TimedOut", "Cancelled"},
           kind \in {"TimedOut", "Cancelled"} => asked = kind,
           Refuse(from, kind)
    PROVE  RuntimeInv'
<1>1. /\ pc = from /\ pc' = "returned"
      /\ terminal' = kind
      /\ UNCHANGED <<caller, forced, attempted, eof, delivered, cut, postExit, workerVars,
                     procVars, asked>>
  BY DEF Refuse, Goto
<1> USE DEF workerVars, procVars
<1>2. life = [p \in Proc |-> "none"]
  BY <1>1 DEF RuntimeInv, BeforeWorkers
<1>3. RuntimeTypes'
  BY <1>1 DEF RuntimeInv, RuntimeTypes, RuntimePoint, TerminalKind
<1>4. BeforeWorkers' /\ LoopIsOver' /\ SignalsAreForced' /\ TerminalIsLast'
  BY <1>1 DEF BeforeWorkers, LoopIsOver, SignalsAreForced, TerminalIsLast, Terminating
<1>5. EndIsLast' /\ ForcedIsTrue'
  BY <1>1 DEF RuntimeInv, EndIsLast, Finished, Dry, ForcedIsTrue
<1>6. NothingSurvives'
  BY <1>1, <1>2 DEF NothingSurvives
<1>7. TerminalIsTrue'
  BY <1>1, <1>3, RuntimeAssumption DEF TerminalIsTrue, RuntimeTypes, TerminalKind
<1> QED
  BY <1>3, <1>4, <1>5, <1>6, <1>7 DEF RuntimeInv

LEMMA RefusalsKeepInv ==
    ASSUME RuntimeInv, pc # "returned", Unavailable \/ SpawnFails \/ PreSpawn
    PROVE  RuntimeInv'
<1>1. asked \in {None, "TimedOut", "Cancelled"}
  BY DEF RuntimeInv, RuntimeTypes
<1>2. CASE Unavailable
  BY <1>2, RefuseKeepsInv DEF Unavailable
<1>3. CASE SpawnFails
  <2>1. PICK kind \in IF asked # None THEN {asked} ELSE {"SpawnFailed", "TransportUnavailable"} :
          Refuse("spawn", kind)
    BY <1>3 DEF SpawnFails
  <2>2. /\ kind \in {"TransportUnavailable", "IoError", "SpawnFailed", "TimedOut", "Cancelled"}
        /\ kind \in {"TimedOut", "Cancelled"} => asked = kind
    BY <1>1, <2>1
  <2> QED BY <2>1, <2>2, RefuseKeepsInv
<1>4. CASE asked # None /\ Refuse("accepted", asked)
  BY <1>1, <1>4, RefuseKeepsInv
<1>5. CASE /\ asked = None /\ Goto("accepted", "spawn")
           /\ UNCHANGED <<loopVars, workerVars, procVars, asked>>
  BY <1>5, EarlyKeepsInv
<1> QED BY <1>2, <1>3, <1>4, <1>5 DEF PreSpawn

\* The last look at the group.  An unforced end was reached with every stream
\* at its end and without a signal of the runtime.
LEMMA ConcludeKeepsInv ==
    ASSUME RuntimeInv, Conclude
    PROVE  RuntimeInv'
<1>1. PICK probe \in Probes(life) :
        /\ pc' = IF probe = "gone" THEN "returned" ELSE "guard"
        /\ forced' = IF probe = "gone" THEN forced ELSE "IoError"
  BY DEF Conclude
<1>2. /\ pc = "final"
      /\ terminal' \in IF forced' = None THEN {"Exited", "Signaled"} ELSE {forced'}
      /\ UNCHANGED <<caller, attempted, eof, delivered, cut, postExit, workerVars, procVars,
                     asked>>
  BY DEF Conclude
<1> USE DEF workerVars, procVars
<1>3. CASE probe # "gone"
  <2>1. pc' = "guard" /\ forced' = "IoError" /\ terminal' = "IoError"
    BY <1>1, <1>2, <1>3, RuntimeAssumption DEF TerminalKind
  <2>2. SignalsAreForced' /\ LoopIsOver'
    BY <2>1 DEF SignalsAreForced, LoopIsOver, Terminating
  <2>3. pc # "returned" /\ "guard" \in RuntimePoint
    BY <1>2 DEF RuntimePoint
  <2>4. /\ life' \in [Proc -> {"none", "live", "zombie", "gone"}]
        /\ pending' \in [Proc -> {"none", "term", "kill", "refused"}]
    BY <1>2 DEF RuntimeInv, RuntimeTypes
  <2> QED
    BY <1>2, <2>1, <2>2, <2>3, <2>4, MoveKeepsInv
<1>4. CASE probe = "gone"
  <2>1. pc' = "returned" /\ forced' = forced
    BY <1>1, <1>4
  <2>2. ~GroupAlive(life)
    BY <1>1, <1>4 DEF Probes
  <2>3. Reaped(life) /\ (forced = None => eof = Stream)
    BY <1>2 DEF RuntimeInv, LoopIsOver
  <2>4. RuntimeTypes'
    BY <1>2, <2>1 DEF RuntimeInv, RuntimeTypes, RuntimePoint, TerminalKind
  <2>5. BeforeWorkers' /\ LoopIsOver' /\ SignalsAreForced' /\ TerminalIsLast'
    BY <2>1 DEF BeforeWorkers, LoopIsOver, SignalsAreForced, TerminalIsLast, Terminating
  <2>6. EndIsLast' /\ ForcedIsTrue'
    BY <1>2, <2>1 DEF RuntimeInv, EndIsLast, Finished, Dry, ForcedIsTrue
  <2>7. NothingSurvives'
    <3>1. \A p \in Proc : p = Leader \/ p \notin escaped => life[p] \in {"none", "gone"}
      BY <2>2, <2>3 DEF RuntimeInv, RuntimeTypes, GroupAlive, Reaped
    <3> QED BY <1>2, <3>1 DEF NothingSurvives
  <2>8. TerminalIsTrue'
    <3>1. CASE forced # None
      <4>1. terminal' = forced
        BY <1>2, <2>1, <3>1
      <4> QED
        BY <1>2, <2>4, <3>1, <4>1, RuntimeAssumption
           DEF TerminalIsTrue, RuntimeInv, RuntimeTypes, ForcedIsTrue, TerminalKind
    <3>2. CASE forced = None
      <4>1. terminal' \in {"Exited", "Signaled"} /\ delivered' <= MaxOutput
        BY <1>2, <2>1, <2>4, <3>2, RuntimeAssumption DEF RuntimeTypes
      <4>2. ~cut /\ \A p \in Proc : pending[p] = "none"
        BY <1>2, <3>2 DEF RuntimeInv, ForcedIsTrue, SignalsAreForced
      <4>3. \A s \in Stream : pipe[s] = 0 /\ holds[s] = {} /\ hand[s] = None
        BY <2>3, <3>2 DEF RuntimeInv, EndIsLast, Finished, Dry
      <4>4. queue = <<>>
        <5>1. \A i \in 1..Len(queue) : queue[i].stream \in eof
          BY <2>3, <3>2, QueueTypes DEF RuntimeInv
        <5>2. 1 \notin 1..Len(queue)
          BY <3>2, <5>1 DEF RuntimeInv, EndIsLast
        <5>3. queue \in Seq(ReaderMessage)
          BY DEF RuntimeInv, RuntimeTypes
        <5> QED BY <5>2, <5>3
      <4> QED
        BY <1>2, <4>1, <4>2, <4>3, <4>4 DEF TerminalIsTrue
    <3> QED BY <3>1, <3>2
  <2> QED
    BY <2>4, <2>5, <2>6, <2>7, <2>8 DEF RuntimeInv
<1> QED BY <1>3, <1>4

LEMMA NextKeepsRuntimeInv ==
    ASSUME RuntimeInv, [RuntimeNext]_vars
    PROVE  RuntimeInv'
<1>1. CASE UNCHANGED vars
  <2> USE <1>1 DEF vars, mainVars, loopVars, workerVars, procVars
  <2>1. RuntimeTypes' /\ BeforeWorkers' /\ ForcedIsTrue' /\ SignalsAreForced' /\ LoopIsOver'
    BY DEF RuntimeInv, RuntimeTypes, BeforeWorkers, ForcedIsTrue, SignalsAreForced,
           LoopIsOver, Reaped
  <2>2. EndIsLast'
    BY DEF RuntimeInv, EndIsLast, Finished, Dry
  <2>3. TerminalIsLast' /\ NothingSurvives' /\ TerminalIsTrue'
    BY DEF RuntimeInv, TerminalIsLast, NothingSurvives, TerminalIsTrue
  <2> QED BY <2>1, <2>2, <2>3 DEF RuntimeInv
<1>2. CASE RuntimeNext
  <2>1. pc # "returned"
    BY <1>2 DEF RuntimeNext
  <2>2. CASE MainStep
    <3>1. CASE Unavailable \/ SpawnFails \/ PreSpawn
      BY <2>1, <3>1, RefusalsKeepInv
    <3>2. CASE Spawn \/ StartWorkers
      BY <2>1, <3>2, SpawnKeepsInv
    <3>3. CASE \/ CaptureIdentity \/ IdentityUnknown \/ SetupFails
               \/ EmitSetupFailure \/ DropGuard \/ DropUnbound \/ ReapChild
      BY <2>1, <3>3, EarlyKeepsInv
    <3>4. CASE TermProbe \/ TermPoll \/ GraceOver \/ ReapingOver
      BY <2>1, <3>4, TerminationKeepsInv
    <3>5. CASE Poll
      BY <2>1, <3>5, PollKeepsInv
    <3>6. CASE Recollect \/ LeaveLoop \/ Join
      BY <2>1, <3>6, LeavingKeepsInv
    <3>7. CASE Receive
      BY <2>1, <3>7, ReceiveKeepsInv
    <3>8. CASE Conclude
      BY <3>8, ConcludeKeepsInv
    <3> QED
      BY <2>2, <3>1, <3>2, <3>3, <3>4, <3>5, <3>6, <3>7, <3>8 DEF MainStep
  <2>3. ASSUME NEW s \in Stream, ReaderStep(s) \/ ReadFails(s)
        PROVE  RuntimeInv'
    BY <2>1, <2>3, ReadKeepsInv, SendKeepsInv, StopKeepsInv DEF ReaderStep
  <2>4. CASE SystemStep
    BY <2>1, <2>3, <2>4, SystemKeepsInv, AskingKeepsInv DEF SystemStep
  <2>5. CASE DeadlinePasses
    BY <2>1, <2>5, AskingKeepsInv
  <2>6. CASE PostExitPasses
    BY <2>1, <2>6, PostExitKeepsInv
  <2> QED
    BY <1>2, <2>2, <2>3, <2>4, <2>5, <2>6 DEF RuntimeNext
<1> QED BY <1>1, <1>2

\* The inductive invariant of one execute_process call holds in every
\* reachable state.
THEOREM RuntimeInvariance == RuntimeSpec => []RuntimeInv
<1>1. RuntimeInv /\ [RuntimeNext]_vars => RuntimeInv'
  BY NextKeepsRuntimeInv
<1> QED
  BY InitRuntimeInv, <1>1, PTL DEF RuntimeSpec

\* Whatever the child and its descendants do, a terminal other than an IoError
\* leaves no unreaped child and no live member of its process group.
THEOREM GroupIsEmptied == RuntimeSpec => []NothingSurvives
<1>1. RuntimeInv => NothingSurvives
  BY DEF RuntimeInv
<1> QED
  BY RuntimeInvariance, <1>1, PTL

\* The terminal names what happened, and an exit is only reported with all of
\* the output delivered and none of the runtime's signals sent.
THEOREM TerminalsAreTrue == RuntimeSpec => []TerminalIsTrue
<1>1. RuntimeInv => TerminalIsTrue
  BY DEF RuntimeInv
<1> QED
  BY RuntimeInvariance, <1>1, PTL
=============================================================================
