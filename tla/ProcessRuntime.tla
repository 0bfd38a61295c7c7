--------------------------- MODULE ProcessRuntime ---------------------------
(***************************************************************************)
(* One call of execute_process,                                            *)
(* crates/trillionnium-owner-open-runtime/src/process.rs: the calling      *)
(* thread, its reader threads, the bounded queue between them, and the     *)
(* child with the processes it forks.                                      *)
(*                                                                         *)
(* Time is what it does to the code: the request's deadline passes, the    *)
(* post-exit deadline passes some time after it is armed, and each waiting *)
(* loop of terminate_process_group may end at any turn.  Output is a       *)
(* number of bytes per stream.  A probe of the process group answers or    *)
(* fails (/proc unreadable, a scan over its budget, a leader that changed  *)
(* its group).  The call ends the model when it returns.                   *)
(***************************************************************************)
EXTENDS Integers, Sequences, FiniteSets

CONSTANTS
    Leader, Descendant,
    Stream,      \* {"stdout", "stderr"}, or {"pty"}
    None,
    MaxOutput,   \* limits.max_output_bytes
    MaxChunk,    \* limits.stream_chunk_bytes
    QueueDepth,  \* limits.reader_queue_depth
    MaxWritten   \* bound: bytes the processes write

Proc == {Leader} \cup Descendant

TerminalKind ==
    {"Exited", "Signaled", "TimedOut", "Cancelled", "OutputLimitExceeded",
     "TransportUnavailable", "SpawnFailed", "IoError"}

ASSUME RuntimeAssumption ==
    /\ Leader \notin Descendant
    /\ None \notin TerminalKind
    /\ MaxOutput \in Nat \ {0}
    /\ MaxChunk \in 1..MaxOutput
    /\ QueueDepth \in Nat \ {0}
    /\ MaxWritten \in Nat

VARIABLES
    pc,
    caller,     \* of terminate_process_group: "loop", "setup" or "guard"
    forced,     \* forced_kind
    attempted,  \* termination_attempted
    eof,        \* streams whose end was received
    delivered,  \* stdout_bytes + stderr_bytes
    cut,        \* a byte above the limit was received
    postExit,   \* post_exit_deadline: "unset", "armed" or "passed"
    terminal,   \* the kind of the Terminal event
    queue,      \* the channel
    reader,     \* reader[s]: "off", "read", "send" or "done"
    hand,       \* hand[s]: the message reader s is sending
    life,       \* life[p]: "none", "live", "zombie" or "gone" (reaped)
    pending,    \* pending[p]: "none", "term", "kill", or "refused"
    escaped,    \* processes that left the group
    holds,      \* holds[s]: processes with the write end open
    pipe,       \* pipe[s]: bytes written and not yet read
    written,
    asked       \* None, "TimedOut" (the deadline has passed) or "Cancelled"

loopVars == <<caller, forced, attempted, eof, delivered, cut, postExit, terminal>>
mainVars == <<pc, loopVars>>
workerVars == <<queue, reader, hand>>
procVars == <<life, pending, escaped, holds, pipe, written>>
vars == <<mainVars, workerVars, procVars, asked>>

RuntimeInit ==
    /\ pc = "accepted"
    /\ caller = None
    /\ forced = None
    /\ attempted = FALSE
    /\ eof = {}
    /\ delivered = 0
    /\ cut = FALSE
    /\ postExit = "unset"
    /\ terminal = None
    /\ queue = <<>>
    /\ reader = [s \in Stream |-> "off"]
    /\ hand = [s \in Stream |-> None]
    /\ life = [p \in Proc |-> "none"]
    /\ pending = [p \in Proc |-> "none"]
    /\ escaped = {}
    /\ holds = [s \in Stream |-> {}]
    /\ pipe = [s \in Stream |-> 0]
    /\ written = 0
    /\ asked = None

Goto(from, to) == pc = from /\ pc' = to

(***************************************************************************)
(* Before the loop                                                         *)
(***************************************************************************)

\* The terminal event of a call without a child.
Refuse(from, kind) ==
    /\ Goto(from, "returned")
    /\ terminal' = kind
    /\ UNCHANGED <<caller, forced, attempted, eof, delivered, cut, postExit, workerVars,
                   procVars, asked>>

\* No adb executable, or no pseudo-terminal.
Unavailable == \E kind \in {"TransportUnavailable", "IoError"} : Refuse("accepted", kind)

PreSpawn ==
    \/ asked # None /\ Refuse("accepted", asked)
    \/ /\ asked = None
       /\ Goto("accepted", "spawn")
       /\ UNCHANGED <<loopVars, workerVars, procVars, asked>>

\* pre_exec looks at the token and the clock again, in the child.
SpawnFails ==
    \E kind \in IF asked # None THEN {asked} ELSE {"SpawnFailed", "TransportUnavailable"} :
        Refuse("spawn", kind)

Spawn ==
    /\ asked = None
    /\ Goto("spawn", "identity")
    /\ life' = [life EXCEPT ![Leader] = "live"]
    /\ holds' = [s \in Stream |-> {Leader}]
    /\ UNCHANGED <<loopVars, workerVars, pending, escaped, pipe, written, asked>>

\* capture_process_identity, bind_identity and the Started event.
CaptureIdentity ==
    /\ Goto("identity", "setup")
    /\ UNCHANGED <<loopVars, workerVars, procVars, asked>>

\* Without an identity the guard has the child alone.
IdentityUnknown ==
    /\ Goto("identity", "unbound")
    /\ terminal' = "IoError"
    /\ UNCHANGED <<caller, forced, attempted, eof, delivered, cut, postExit, workerVars,
                   procVars, asked>>

StartWorkers ==
    /\ Goto("setup", "poll")
    /\ reader' = [s \in Stream |-> "read"]
    /\ UNCHANGED <<loopVars, queue, hand, procVars, asked>>

\* The workers already started are joined by their guards.
SetupFails ==
    /\ Goto("setup", "probe")
    /\ caller' = "setup"
    /\ UNCHANGED <<forced, attempted, eof, delivered, cut, postExit, terminal, workerVars,
                   procVars, asked>>

(***************************************************************************)
(* terminate_process_group, called at "probe"                              *)
(***************************************************************************)

\* child.try_wait() collects a zombie; the Child keeps its status.
TryWait == life' = [life EXCEPT ![Leader] = IF @ = "zombie" THEN "gone" ELSE @]

Reaped(l) == l[Leader] = "gone"

\* Mutant: the leader stands for its group.
LeaderAlive(l) == l[Leader] \in {"live", "zombie"}

GroupAlive(l) == \E p \in Proc \ escaped : l[p] \in {"live", "zombie"}

\* bound_process_group_exists
Probes(l) == {"failed", IF GroupAlive(l) THEN "alive" ELSE "gone"}

Signalled(signal) ==
    [p \in Proc |->
        IF p \notin escaped /\ life'[p] = "live" /\ pending[p] # "kill" THEN signal ELSE pending[p]]

\* What the caller makes of the answer.
Terminated(ok) ==
    /\ pc' = CASE caller = "loop"  -> IF ok THEN "check" ELSE "recollect"
               [] caller = "setup" -> "emit"
               [] caller = "guard" -> "reap"
    /\ forced' = IF caller = "loop" /\ ~ok THEN "IoError" ELSE forced
    /\ postExit' = IF caller = "loop" THEN "armed" ELSE postExit

Stay(at) == pc' = at /\ UNCHANGED <<forced, postExit>>

\* kill_direct_child: nothing to do for a leader that has ended.
KillLeader(signals, ok) ==
    pending' = [signals EXCEPT ![Leader] =
                   IF life'[Leader] # "live" \/ @ = "kill" THEN @
                   ELSE IF ok THEN "kill" ELSE "refused"]

\* with_direct_fallback
Fallback == Terminated(FALSE) /\ \E ok \in BOOLEAN : KillLeader(pending, ok)

\* The leader may have left the group: unless it is reaped it is killed itself.
KillDirect(signals) ==
    IF Reaped(life') THEN pending' = signals /\ Stay("reaping")
    ELSE \/ KillLeader(signals, TRUE) /\ Stay("reaping")
         \/ life'[Leader] = "live" /\ KillLeader(signals, FALSE) /\ Terminated(FALSE)

termFrame == <<caller, attempted, eof, delivered, cut, terminal, workerVars, escaped, holds,
               pipe, written, asked>>

TermProbe ==
    /\ pc = "probe"
    /\ TryWait
    /\ \E probe \in Probes(life') :
          \/ probe = "alive" /\ pending' = Signalled("term") /\ Stay("grace")
          \/ probe = "gone" /\ KillDirect(pending)
          \/ probe # "gone" /\ Fallback
    /\ UNCHANGED termFrame

\* One turn of either waiting loop.
TermPoll ==
    /\ pc \in {"grace", "reaping"}
    /\ TryWait
    /\ \E probe \in Probes(life') :
          \/ Reaped(life') /\ probe = "gone" /\ Terminated(TRUE) /\ UNCHANGED pending
          \/ (Reaped(life') => probe = "alive") /\ Stay(pc) /\ UNCHANGED pending
          \/ probe = "failed" /\ Fallback
    /\ UNCHANGED termFrame

GraceOver ==
    /\ pc = "grace"
    /\ UNCHANGED life
    /\ \E probe \in Probes(life) :
          \/ probe = "alive" /\ KillDirect(Signalled("kill"))
          \/ probe = "gone" /\ KillDirect(pending)
          \/ probe # "gone" /\ Fallback
    /\ UNCHANGED termFrame

\* process_cleanup_deadline_exceeded
ReapingOver ==
    /\ pc = "reaping"
    /\ UNCHANGED life
    /\ Fallback \/ (Terminated(FALSE) /\ UNCHANGED pending)
    /\ UNCHANGED termFrame

(***************************************************************************)
(* The loop                                                                *)
(***************************************************************************)
OrForced(kind) == IF forced = None THEN kind ELSE forced

\* try_wait finds the child running or fails; on its first success descendants
\* are looked for.
ForcedByWait ==
    CASE Reaped(life)   -> {forced}
      [] ~Reaped(life') -> {forced, OrForced("IoError")}
      [] OTHER          -> {IF probe = "gone" THEN forced ELSE OrForced("IoError") :
                               probe \in Probes(life')}

\* Cancellation and deadline count while the child runs; whatever forces the end,
\* the group is terminated, once.
Poll ==
    /\ pc = "poll"
    /\ TryWait
    /\ \E waited \in ForcedByWait :
          forced' = IF waited = None /\ ~Reaped(life') THEN asked ELSE waited
    /\ postExit' = IF Reaped(life') /\ ~Reaped(life) THEN "armed" ELSE postExit
    /\ IF forced' # None /\ ~attempted
       THEN pc' = "probe" /\ attempted' = TRUE /\ caller' = "loop"
       ELSE pc' = "check" /\ UNCHANGED <<attempted, caller>>
    /\ UNCHANGED <<eof, delivered, cut, terminal, workerVars, pending, escaped, holds, pipe,
                   written, asked>>

\* After a failed cleanup the child is asked once more.
Recollect ==
    /\ Goto("recollect", "check")
    /\ TryWait
    /\ UNCHANGED <<loopVars, workerVars, pending, escaped, holds, pipe, written, asked>>

\* Mutant: the exit of the leader ends the loop.
LoopEndsAtExit == IF Reaped(life) THEN {forced} ELSE {}

\* The kind the loop ends with, if it does.
LoopEnds ==
    IF Reaped(life) /\ eof = Stream THEN {forced}
    ELSE IF Reaped(life) /\ postExit = "passed" THEN {"IoError"} ELSE {}

\* The workers are told to stop.
LeaveLoop ==
    /\ Goto("check", "join")
    /\ forced' \in LoopEnds
    /\ UNCHANGED <<caller, attempted, eof, delivered, cut, postExit, terminal, workerVars,
                   procVars, asked>>

Lesser(a, b) == IF a < b THEN a ELSE b

\* A chunk is cut at the limit; an error ends its stream too.
Take(m) ==
    LET taken == Lesser(m.bytes, MaxOutput - delivered) IN
    /\ delivered' = delivered + taken
    /\ cut' = (cut \/ taken < m.bytes)
    /\ eof' = IF m.kind = "chunk" THEN eof ELSE eof \cup {m.stream}
    /\ forced' = IF m.kind = "error" THEN OrForced("IoError")
                 ELSE IF taken < m.bytes THEN OrForced("OutputLimitExceeded") ELSE forced

Receive ==
    /\ Goto("check", "poll")
    /\ LoopEnds = {}
    /\ IF queue = <<>>
       THEN UNCHANGED <<forced, eof, delivered, cut, queue>>
       ELSE Take(Head(queue)) /\ queue' = Tail(queue)
    /\ UNCHANGED <<caller, attempted, postExit, terminal, reader, hand, procVars, asked>>

(***************************************************************************)
(* The end                                                                 *)
(***************************************************************************)

\* A worker that panicked makes the outcome an IoError.
Join ==
    /\ \A s \in Stream : reader[s] = "done"
    /\ Goto("join", "final")
    /\ forced' \in {forced, "IoError"}
    /\ UNCHANGED <<caller, attempted, eof, delivered, cut, postExit, terminal, workerVars,
                   procVars, asked>>

\* The last look at the group decides whether the guard may rest; the terminal
\* event is emitted either way.
Conclude ==
    /\ pc = "final"
    /\ \E probe \in Probes(life) :
          /\ pc' = IF probe = "gone" THEN "returned" ELSE "guard"
          /\ forced' = IF probe = "gone" THEN forced ELSE "IoError"
    /\ terminal' \in IF forced' = None THEN {"Exited", "Signaled"} ELSE {forced'}
    /\ UNCHANGED <<caller, attempted, eof, delivered, cut, postExit, workerVars, procVars, asked>>

EmitSetupFailure ==
    /\ Goto("emit", "guard")
    /\ terminal' = "IoError"
    /\ UNCHANGED <<caller, forced, attempted, eof, delivered, cut, postExit, workerVars,
                   procVars, asked>>

\* ProcessChildGuard::drop, armed.
DropGuard ==
    /\ Goto("guard", "probe")
    /\ caller' = "guard"
    /\ UNCHANGED <<forced, attempted, eof, delivered, cut, postExit, terminal, workerVars,
                   procVars, asked>>

DropUnbound ==
    /\ Goto("unbound", "reap")
    /\ UNCHANGED life
    /\ \E ok \in BOOLEAN : KillLeader(pending, ok)
    /\ UNCHANGED <<loopVars, workerVars, escaped, holds, pipe, written, asked>>

\* reap_child_bounded; a leader that takes longer is left to a thread.
ReapChild ==
    /\ Goto("reap", "returned")
    /\ TryWait
    /\ UNCHANGED <<loopVars, workerVars, pending, escaped, holds, pipe, written, asked>>

(***************************************************************************)
(* The readers.  The stdin thread reaches the rest only through Join, which *)
(* it never delays: wait_io looks at the stop flag.                        *)
(***************************************************************************)
Message(kind, s, n) == [kind |-> kind, stream |-> s, bytes |-> n]

EndOfStream(s) == pipe[s] = 0 /\ holds[s] = {}

\* wait_io and read.
ReadStream(s) ==
    /\ reader[s] = "read"
    /\ \/ \E n \in 1..Lesser(MaxChunk, pipe[s]) :
             /\ hand' = [hand EXCEPT ![s] = Message("chunk", s, n)]
             /\ pipe' = [pipe EXCEPT ![s] = @ - n]
       \/ /\ EndOfStream(s)
          /\ hand' = [hand EXCEPT ![s] = Message("eof", s, 0)]
          /\ UNCHANGED pipe
    /\ reader' = [reader EXCEPT ![s] = "send"]
    /\ UNCHANGED <<mainVars, queue, life, pending, escaped, holds, written, asked>>

ReadFails(s) ==
    /\ reader[s] = "read"
    /\ hand' = [hand EXCEPT ![s] = Message("error", s, 0)]
    /\ reader' = [reader EXCEPT ![s] = "send"]
    /\ UNCHANGED <<mainVars, queue, procVars, asked>>

\* send_reader_message
SendMessage(s) ==
    /\ reader[s] = "send"
    /\ Len(queue) < QueueDepth
    /\ queue' = Append(queue, hand[s])
    /\ reader' = [reader EXCEPT ![s] = IF hand[s].kind = "chunk" THEN "read" ELSE "done"]
    /\ hand' = [hand EXCEPT ![s] = None]
    /\ UNCHANGED <<mainVars, procVars, asked>>

\* Mutant: a reader with a message in hand waits for room whatever it is told.
StopReaderBlocked(s) ==
    /\ pc = "join"
    /\ reader[s] = "read"
    /\ reader' = [reader EXCEPT ![s] = "done"]
    /\ UNCHANGED <<mainVars, queue, hand, procVars, asked>>

StopReader(s) ==
    /\ pc = "join"
    /\ reader[s] \in {"read", "send"}
    /\ reader' = [reader EXCEPT ![s] = "done"]
    /\ UNCHANGED <<mainVars, queue, hand, procVars, asked>>

(***************************************************************************)
(* The processes, the owner and the clock                                  *)
(***************************************************************************)
Fork(p, d) ==
    /\ life[p] = "live"
    /\ life[d] = "none"
    /\ life' = [life EXCEPT ![d] = "live"]
    /\ escaped' = IF p \in escaped THEN escaped \cup {d} ELSE escaped
    /\ holds' = [s \in Stream |-> IF p \in holds[s] THEN holds[s] \cup {d} ELSE holds[s]]
    /\ UNCHANGED <<mainVars, workerVars, pending, pipe, written, asked>>

\* setpgid or setsid.
Escape(p) ==
    /\ life[p] = "live"
    /\ p \notin escaped
    /\ escaped' = escaped \cup {p}
    /\ UNCHANGED <<mainVars, workerVars, life, pending, holds, pipe, written, asked>>

Write(p, s) ==
    /\ p \in holds[s]
    /\ written < MaxWritten
    /\ written' = written + 1
    /\ pipe' = [pipe EXCEPT ![s] = @ + 1]
    /\ UNCHANGED <<mainVars, workerVars, life, pending, escaped, holds, asked>>

CloseStream(p, s) ==
    /\ p \in holds[s]
    /\ holds' = [holds EXCEPT ![s] = @ \ {p}]
    /\ UNCHANGED <<mainVars, workerVars, life, pending, escaped, pipe, written, asked>>

\* A process ends by itself or by a signal; its files are closed.
Exit(p) ==
    /\ life[p] = "live"
    /\ life' = [life EXCEPT ![p] = "zombie"]
    /\ holds' = [s \in Stream |-> holds[s] \ {p}]
    /\ UNCHANGED <<mainVars, workerVars, pending, escaped, pipe, written, asked>>

\* A descendant is reaped by its parent or by init.
Reap(d) ==
    /\ life[d] = "zombie"
    /\ life' = [life EXCEPT ![d] = "gone"]
    /\ UNCHANGED <<mainVars, workerVars, pending, escaped, holds, pipe, written, asked>>

\* A cancellation is seen before a deadline that has passed.
Cancel ==
    /\ asked # "Cancelled"
    /\ asked' = "Cancelled"
    /\ UNCHANGED <<mainVars, workerVars, procVars>>

DeadlinePasses ==
    /\ asked = None
    /\ asked' = "TimedOut"
    /\ UNCHANGED <<mainVars, workerVars, procVars>>

PostExitPasses ==
    /\ postExit = "armed"
    /\ postExit' = "passed"
    /\ UNCHANGED <<pc, caller, forced, attempted, eof, delivered, cut, terminal, workerVars,
                   procVars, asked>>

-----------------------------------------------------------------------------

MainStep ==
    \/ Unavailable \/ PreSpawn \/ SpawnFails \/ Spawn \/ CaptureIdentity \/ IdentityUnknown
    \/ StartWorkers \/ SetupFails
    \/ TermProbe \/ TermPoll \/ GraceOver \/ ReapingOver
    \/ Poll \/ Recollect \/ LeaveLoop \/ Receive
    \/ Join \/ Conclude \/ EmitSetupFailure \/ DropGuard \/ DropUnbound \/ ReapChild

ReaderStep(s) == ReadStream(s) \/ SendMessage(s) \/ StopReader(s)

SystemStep ==
    \/ \E p \in Proc : Exit(p) \/ Escape(p)
    \/ \E d \in Descendant : Reap(d)
    \/ \E p \in Proc, d \in Descendant : Fork(p, d)
    \/ \E p \in Proc, s \in Stream : Write(p, s) \/ CloseStream(p, s)
    \/ \E s \in Stream : ReadFails(s)
    \/ Cancel

RuntimeNext ==
    /\ pc # "returned"
    /\ \/ MainStep
       \/ \E s \in Stream : ReaderStep(s)
       \/ SystemStep
       \/ DeadlinePasses
       \/ PostExitPasses

\* The threads run (a turn of a waiting loop that finds nothing new is a stutter, so
\* every wait ends), time passes and a SIGKILL kills.  No process
\* has to exit, close a stream or obey SIGTERM, and nobody has to cancel.
RuntimeSpec ==
    /\ RuntimeInit
    /\ [][RuntimeNext]_vars
    /\ WF_vars(MainStep)
    /\ \A s \in Stream : WF_vars(ReaderStep(s))
    /\ WF_vars(DeadlinePasses)
    /\ WF_vars(PostExitPasses)
    /\ \A p \in Proc : WF_vars(pending[p] = "kill" /\ Exit(p))

-----------------------------------------------------------------------------

\* Any terminal but an IoError proves that the child is reaped and its process
\* group empty: exit, cancellation, timeout and the output limit never leave a
\* descendant that stayed in the group, whatever its streams and its signals.
NothingSurvives ==
    terminal \notin {None, "IoError"} =>
        \A p \in Proc : p = Leader \/ p \notin escaped => life[p] \in {"none", "gone"}

\* The terminal tells the truth.  Cancelled, late or above the limit only if it
\* was, and the runtime's own signals are never taken for the child's own end.  A
\* child that ended by itself is reported with all its output: nothing was cut, or
\* is still in a pipe, in a reader's hand or in the queue, or can yet be written.
\* No terminal is reached with more delivered than max_output_bytes.
TerminalIsTrue ==
    /\ delivered <= MaxOutput
    /\ terminal \in {"Cancelled", "TimedOut"} => asked # None
    /\ terminal = "Cancelled" => asked = "Cancelled"
    /\ terminal = "OutputLimitExceeded" => cut
    /\ terminal \in {"Exited", "Signaled"} =>
         /\ \A p \in Proc : pending[p] = "none"
         /\ ~cut
         /\ queue = <<>>
         /\ \A s \in Stream : pipe[s] = 0 /\ holds[s] = {} /\ hand[s] = None

\* execute_process returns, whatever the child does with its streams, its
\* descendants and its signals, and however full the queue is when the readers
\* are told to stop - unless the operating system refuses to kill the leader.
ExecutionReturns == <>(pc = "returned" \/ pending[Leader] = "refused")
=============================================================================
