------------------------ MODULE StreamDeliveryProofs ------------------------
(***************************************************************************)
(* Proofs about StreamWindow and StreamDelivery.                           *)
(*                                                                         *)
(* WindowInv is inductive of the window alone: the bounds, the shape of    *)
(* the history, the credit equation and the drained close need each other  *)
(* only where ClosedIsDrained turns the credit of a second Close into      *)
(* zero.  DeliveryInv joins it (the delivery only reaches the window       *)
(* through apply_control and try_reserve, and starts a new one each time)  *)
(* with what relates the buffer, the gap and the frames of the turn.       *)
(***************************************************************************)
EXTENDS StreamDelivery, FiniteSetTheorems, TLAPS

(***************************************************************************)
(* The window                                                              *)
(***************************************************************************)

\* What pushing on the bounded history does: it stays a sequence of records no
\* longer than the bound, the new record is last, and every other retained one
\* moves by one place exactly when the history was full.
LEMMA PushFacts ==
    ASSUME NEW h \in Seq(ControlRecord), Len(h) <= MaxHistory,
           NEW r \in ControlRecord
    PROVE  /\ Push(h, r) \in Seq(ControlRecord)
           /\ Len(h) < MaxHistory =>
                /\ Len(Push(h, r)) = Len(h) + 1
                /\ \A i \in 1..Len(h) : Push(h, r)[i] = h[i]
           /\ Len(h) = MaxHistory =>
                /\ Len(Push(h, r)) = Len(h)
                /\ \A i \in 1..(Len(h) - 1) : Push(h, r)[i] = h[i + 1]
           /\ Push(h, r)[Len(Push(h, r))] = r
<1> USE ConfigAssumption
<1>1. CASE Len(h) < MaxHistory
  <2>1. Push(h, r) = Append(h, r)
    BY <1>1 DEF Push
  <2> QED
    BY <1>1, <2>1
<1>2. CASE Len(h) = MaxHistory
  <2>1. Push(h, r) = Append(Tail(h), r)
    BY <1>2 DEF Push
  <2>2. h # <<>> /\ Tail(h) \in Seq(ControlRecord) /\ Len(Tail(h)) = Len(h) - 1
    BY <1>2
  <2>3. \A i \in 1..(Len(h) - 1) : Tail(h)[i] = h[i + 1]
    BY <1>2, <2>2
  <2> QED
    BY <1>2, <2>1, <2>2, <2>3
<1> QED
  BY <1>1, <1>2

\* An applied control preserves the bounds.
LEMMA ApplyKeepsType ==
    ASSUME WindowInv, NEW seq \in 0..SeqMax, NEW c \in Command, ApplyControl(seq, c)
    PROVE  WindowTypeOK'
<1> USE ConfigAssumption DEF WindowInv, WindowTypeOK
<1>1. c.credit \in 0..MaxCredit
  BY DEF Command
<1>2. [seq |-> seq, command |-> c] \in ControlRecord
  BY DEF ControlRecord
<1>3. history' \in Seq(ControlRecord) /\ Len(history') <= MaxHistory
  <2> DEFINE r == [seq |-> seq, command |-> c]
  <2>1. history' = Push(history, r)
    BY DEF ApplyControl
  <2>2. r \in ControlRecord /\ Len(history) \in Nat
    BY <1>2
  <2> HIDE DEF r
  <2>3. /\ Push(history, r) \in Seq(ControlRecord)
        /\ Len(history) < MaxHistory => Len(Push(history, r)) = Len(history) + 1
        /\ Len(history) = MaxHistory => Len(Push(history, r)) = Len(history)
    BY <2>2, PushFacts
  <2> QED
    BY <2>1, <2>2, <2>3
<1>4. available' \in 0..MaxCredit
  BY <1>1 DEF ApplyControl, Applies, CreditAfter, Command
<1>5. nextSeq' \in 0..SeqMax /\ counted' = 0..(nextSeq' - 1)
  BY DEF ApplyControl, Applies
<1>6. extended' \in Nat /\ forfeited' \in Nat
  BY <1>1 DEF ApplyControl
<1>7. paused' \in BOOLEAN /\ closed' \in BOOLEAN /\ granted' \in 0..GrantedMax
  BY DEF ApplyControl
<1> QED
  BY <1>3, <1>4, <1>5, <1>6, <1>7

\* The number of an applied control is the next one, so the history stays the
\* gapless tail of all controls.
LEMMA ApplyKeepsHistory ==
    ASSUME WindowInv, NEW seq \in 0..SeqMax, NEW c \in Command, ApplyControl(seq, c)
    PROVE  HistoryContiguous'
<1> USE ConfigAssumption
<1> DEFINE r == [seq |-> seq, command |-> c]
<1>1. r \in ControlRecord
  BY DEF ControlRecord
<1>2. /\ history' = Push(history, r) /\ nextSeq' = nextSeq + 1 /\ r.seq = nextSeq
  BY DEF ApplyControl, Applies
<1>3. history \in Seq(ControlRecord) /\ Len(history) <= MaxHistory /\ nextSeq \in Nat
  BY DEF WindowInv, WindowTypeOK
<1> HIDE DEF r
<1> DEFINE n == Len(history)
           m == Len(history')
<1>4. n \in Nat /\ n <= MaxHistory /\ MaxHistory \in Nat \ {0}
  BY <1>3
<1>5. /\ \A i \in 1..n : history[i].seq = nextSeq - n + i - 1
      /\ n = IF nextSeq < MaxHistory THEN nextSeq ELSE MaxHistory
  BY DEF WindowInv, HistoryContiguous
<1>6. /\ n < MaxHistory => m = n + 1 /\ \A i \in 1..n : history'[i] = history[i]
      /\ n = MaxHistory => m = n /\ \A i \in 1..(n - 1) : history'[i] = history[i + 1]
      /\ history'[m].seq = nextSeq
  <2>1. /\ n < MaxHistory =>
             /\ Len(Push(history, r)) = n + 1
             /\ \A i \in 1..n : Push(history, r)[i] = history[i]
        /\ n = MaxHistory =>
             /\ Len(Push(history, r)) = n
             /\ \A i \in 1..(n - 1) : Push(history, r)[i] = history[i + 1]
        /\ Push(history, r)[Len(Push(history, r))] = r
    BY <1>1, <1>3, PushFacts, Zenon
  <2> QED BY <1>2, <2>1, Zenon
<1> SUFFICES /\ \A i \in 1..m : history'[i].seq = nextSeq' - m + i - 1
             /\ m = IF nextSeq' < MaxHistory THEN nextSeq' ELSE MaxHistory
  BY DEF HistoryContiguous
<1> HIDE DEF n, m
<1>7. m = IF nextSeq' < MaxHistory THEN nextSeq' ELSE MaxHistory
  BY <1>2, <1>3, <1>4, <1>5, <1>6
<1>8. ASSUME NEW i \in 1..m PROVE history'[i].seq = nextSeq' - m + i - 1
  <2>1. CASE i = m
    BY <2>1, <1>2, <1>3, <1>4, <1>6
  <2>2. CASE i # m /\ n < MaxHistory
    <3>1. i \in 1..n /\ m = n + 1
      BY <2>2, <1>4, <1>6
    <3> QED
      BY <2>2, <3>1, <1>2, <1>3, <1>4, <1>5, <1>6
  <2>3. CASE i # m /\ n = MaxHistory
    <3>1. i \in 1..(n - 1) /\ i + 1 \in 1..n /\ m = n
      BY <2>3, <1>4, <1>6
    <3>2. history'[i].seq = history[i + 1].seq
      BY <2>3, <3>1, <1>6
    <3>3. history[i + 1].seq = nextSeq - n + (i + 1) - 1
      BY <3>1, <1>5
    <3> QED
      BY <3>1, <3>2, <3>3, <1>2, <1>3, <1>4
  <2> QED
    BY <1>4, <2>1, <2>2, <2>3
<1> QED
  BY <1>7, <1>8

\* Credit moves from the applied controls to `available' and from there to
\* `granted' or, at a Close, to `forfeited'.  The number of an applied control
\* is past all that were counted, so its credit is new.
LEMMA ApplyKeepsCredit ==
    ASSUME WindowInv, NEW seq \in 0..SeqMax, NEW c \in Command, ApplyControl(seq, c)
    PROVE  CreditConserved' /\ ClosedIsDrained'
<1> USE ConfigAssumption
<1>1. c.kind = "window_update" \/ c.credit = 0
  BY DEF Command
<1>2. c.credit \in Nat
  BY DEF Command
<1>3. CreditConserved'
  <2>1. /\ available \in Nat /\ granted \in Nat /\ InitialCredit \in Nat
        /\ forfeited \in Nat /\ extended \in Nat
        /\ available + granted + forfeited = InitialCredit + extended
    BY DEF WindowInv, WindowTypeOK, CreditConserved
  <2>2. granted' = granted /\ extended' = extended + c.credit
    <3>1. seq = nextSeq /\ nextSeq \notin counted
      BY DEF WindowInv, WindowTypeOK, ApplyControl, Applies
    <3> QED
      BY <3>1 DEF ApplyControl
  <2>3. CASE c.kind = "close"
    <3>1. available' = 0 /\ forfeited' = forfeited + available /\ c.credit = 0
      BY <2>3, <1>1 DEF ApplyControl, CreditAfter
    <3> QED
      BY <2>1, <2>2, <3>1 DEF CreditConserved
  <2>4. CASE c.kind # "close"
    <3>1. available' = available + c.credit /\ forfeited' = forfeited
      BY <2>4 DEF ApplyControl, CreditAfter
    <3> QED
      BY <2>1, <2>2, <3>1, <1>2 DEF CreditConserved
  <2> QED
    BY <2>3, <2>4
<1>4. ClosedIsDrained'
  BY <1>1 DEF WindowInv, WindowTypeOK, ClosedIsDrained, ApplyControl, Applies, CreditAfter
<1> QED
  BY <1>3, <1>4

\* A reservation only moves credit.
LEMMA ReserveKeepsInv ==
    ASSUME WindowInv, NEW bytes \in 1..MaxChunk, TryReserve(bytes)
    PROVE  WindowInv'
<1> USE ConfigAssumption
<1>1. WindowTypeOK'
  BY DEF WindowInv, WindowTypeOK, TryReserve, Reserves, ghostVars, readerVars
<1>2. HistoryContiguous'
  BY DEF WindowInv, HistoryContiguous, TryReserve
<1>3. CreditConserved'
  BY DEF WindowInv, WindowTypeOK, CreditConserved, TryReserve, ghostVars
<1>4. ClosedIsDrained'
  BY DEF WindowInv, ClosedIsDrained, TryReserve, Reserves
<1> QED
  BY <1>1, <1>2, <1>3, <1>4 DEF WindowInv

\* Reading the history, and stuttering, leave the window alone.
LEMMA ReadKeepsInv ==
    ASSUME WindowInv, UNCHANGED <<stateVars, ghostVars>>
    PROVE  WindowInv'
  BY DEF WindowInv, WindowTypeOK, HistoryContiguous, CreditConserved, ClosedIsDrained,
         stateVars, ghostVars

\* Every step of the window, a stuttering one included, keeps WindowInv.
LEMMA WindowStep == WindowInv /\ [WindowNext]_windowVars => WindowInv'
<1> SUFFICES ASSUME WindowInv, [WindowNext]_windowVars PROVE WindowInv'
  OBVIOUS
<1>1. ASSUME NEW seq \in 0..SeqMax, NEW c \in Command, ApplyControl(seq, c)
      PROVE  WindowInv'
  BY <1>1, ApplyKeepsType, ApplyKeepsHistory, ApplyKeepsCredit DEF WindowInv
<1>2. ASSUME NEW bytes \in 1..MaxChunk, TryReserve(bytes) PROVE WindowInv'
  BY <1>2, ReserveKeepsInv
<1>3. ASSUME NEW limit \in 1..MaxHistory, ReadHistory(limit) PROVE WindowInv'
  BY <1>3, ReadKeepsInv DEF ReadHistory
<1>4. CASE ResyncReader
  BY <1>4, ReadKeepsInv DEF ResyncReader
<1>5. CASE UNCHANGED windowVars
  BY <1>5, ReadKeepsInv DEF windowVars
<1> QED
  BY <1>1, <1>2, <1>3, <1>4, <1>5 DEF WindowNext

\* A new window satisfies WindowInv.
LEMMA WindowStart == WindowInit => WindowInv
<1> USE ConfigAssumption
<1> SUFFICES ASSUME WindowInit PROVE WindowInv
  OBVIOUS
<1>1. history = <<>> /\ history \in Seq(ControlRecord) /\ Len(history) = 0
  BY DEF WindowInit
<1>2. WindowTypeOK
  <2>1. available \in 0..MaxCredit /\ granted \in 0..GrantedMax /\ nextSeq \in 0..SeqMax
    BY DEF WindowInit
  <2>2. /\ Len(history) <= MaxHistory /\ extended \in Nat /\ forfeited \in Nat
        /\ counted = 0..(nextSeq - 1)
    BY <1>1 DEF WindowInit
  <2>3. paused \in BOOLEAN /\ closed \in BOOLEAN
    BY DEF WindowInit
  <2> QED
    BY <1>1, <2>1, <2>2, <2>3 DEF WindowTypeOK
<1>3. HistoryContiguous
  BY <1>1 DEF WindowInit, HistoryContiguous
<1>4. CreditConserved /\ ClosedIsDrained
  BY DEF WindowInit, CreditConserved, ClosedIsDrained
<1> QED
  BY <1>2, <1>3, <1>4 DEF WindowInv

\* Every reachable state of apply_control and try_reserve satisfies the bounds,
\* keeps a gapless history, conserves credit and drains a closed stream, for
\* every configuration that validate accepts.
THEOREM WindowInvariance == WindowSpec => []WindowInv
  BY WindowStart, WindowStep, PTL DEF WindowSpec

\* try_reserve never hands out a byte that no window update or the initial
\* credit covered, and apply_control takes the credit of a number at most once,
\* in whatever order, and however often, controls are delivered.
THEOREM CreditIsConserved == WindowSpec => []CreditConserved
<1>1. WindowInv => CreditConserved
  BY DEF WindowInv
<1> QED
  BY <1>1, WindowInvariance, PTL

\* The retained controls are the latest ones without a hole, so a duplicate of
\* a retained control is always recognised by its number.
THEOREM HistoryIsContiguous == WindowSpec => []HistoryContiguous
<1>1. WindowInv => HistoryContiguous
  BY DEF WindowInv
<1> QED
  BY <1>1, WindowInvariance, PTL

\* One step of NoGrantWhileHeld: only try_reserve grants, and it tests both
\* flags; nothing reopens a closed stream.
LEMMA HeldStep ==
    ASSUME WindowInv, [WindowNext]_windowVars
    PROVE  [/\ granted' # granted => ~paused /\ ~closed
            /\ closed => closed' /\ paused' /\ available' = 0]_windowVars
<1> SUFFICES /\ granted' # granted => ~paused /\ ~closed
             /\ closed => closed' /\ paused' /\ available' = 0
  OBVIOUS
<1>1. ClosedIsDrained /\ ClosedIsDrained'
  BY WindowStep DEF WindowInv
<1>2. ASSUME NEW seq \in 0..SeqMax, NEW c \in Command, ApplyControl(seq, c)
      PROVE  granted' = granted /\ (closed => closed')
  BY <1>2 DEF ApplyControl
<1>3. ASSUME NEW bytes \in 1..MaxChunk, TryReserve(bytes)
      PROVE  ~paused /\ ~closed
  BY <1>3 DEF TryReserve, Reserves
<1>4. ASSUME UNCHANGED stateVars
      PROVE  granted' = granted /\ closed' = closed
  BY <1>4 DEF stateVars
<1>5. CASE \E seq \in 0..SeqMax, c \in Command : ApplyControl(seq, c)
  BY <1>1, <1>2, <1>5 DEF ClosedIsDrained
<1>6. CASE \E bytes \in 1..MaxChunk : TryReserve(bytes)
  BY <1>3, <1>6
<1>7. CASE \/ \E limit \in 1..MaxHistory : ReadHistory(limit)
           \/ ResyncReader
           \/ UNCHANGED windowVars
  BY <1>1, <1>4, <1>7 DEF ClosedIsDrained, ReadHistory, ResyncReader, windowVars
<1> QED
  BY <1>5, <1>6, <1>7 DEF WindowNext

\* No byte is granted while the stream is paused or closed, and closing is
\* final.
THEOREM HeldStreamsGrantNothing == WindowSpec => NoGrantWhileHeld
  BY WindowInvariance, HeldStep, PTL DEF WindowSpec, NoGrantWhileHeld

(***************************************************************************)
(* The inductive invariant                                                 *)
(***************************************************************************)

\* A frame of the core: a cursor is its number, and has a source.
Frames ==
    {f \in [n : Nat \ {0}, size : 1..MaxFrame, source : Sources \cup {None},
            domain : Domains \cup {None}, cursor : Nat \cup {None}] :
        f.cursor # None => f.cursor = f.n /\ f.source \in Sources /\ f.domain = DomainOf[f.source]}

DeliveryTypes ==
    /\ active \in BOOLEAN
    /\ durable \in BOOLEAN
    /\ queue \in Seq(Frames)
    /\ queuedBytes \in 0..MaxBuffer
    /\ gap \in Gaps \cup {None}
    /\ terminal \in Gaps \cup {None}
    /\ phase \in {"open", "ended"}
    /\ pc \in {"idle", "drain"}
    /\ arrived \in Nat
    /\ sent \in Seq(Nat)
    /\ lost \in SUBSET Frames /\ IsFiniteSet(lost)
    /\ recovered \in SUBSET Nat /\ IsFiniteSet(recovered)
    /\ rejected \in SUBSET Nat /\ IsFiniteSet(rejected)

\* The window the delivery uses is never closed, so none of its credit is
\* thrown away.
WindowOpen == WindowInv /\ ~closed /\ forfeited = 0

\* Frames wait only in an open turn, with a window and without a gap, and each
\* of them fits into a chunk.
QueueIsOpen ==
    /\ queue # <<>> => active /\ gap = None /\ phase = "open"
    /\ \A i \in 1..Len(queue) : queue[i].size <= MaxChunk
    /\ phase = "ended" => gap = None /\ pc = "idle"

\* sum lists the bytes of every prefix of the queue.
RunningSum(q, sum, total) ==
    /\ sum \in [0..Len(q) -> 0..total]
    /\ sum[0] = 0
    /\ \A i \in 1..Len(q) : sum[i] = sum[i - 1] + q[i].size
    /\ \A i, j \in 0..Len(q) : i <= j => sum[i] <= sum[j]
    /\ sum[Len(q)] = total

BytesCounted == \E sum \in [0..Len(queue) -> 0..queuedBytes] : RunningSum(queue, sum, queuedBytes)

NumbersIn(frames) == {f.n : f \in frames}

\* The frames of the turn, wherever they are.
Everything ==
    Range(sent) \cup NumbersIn(Range(queue)) \cup NumbersIn(lost) \cup recovered \cup rejected

NumbersUsed == Everything = 1..arrived

\* No frame waits twice, and none is at once in the buffer, in the present gap
\* and in an earlier one.
KeptApart ==
    /\ \A i, j \in 1..Len(queue) : i # j => queue[i].n # queue[j].n
    /\ \A f, g \in lost : f.n = g.n => f = g
    /\ \A f \in Range(queue), g \in lost : f.n # g.n
    /\ \A f \in Range(queue) \cup lost : f.n \notin recovered

Counted ==
    Len(sent) + Len(queue) + Cardinality(lost) + Cardinality(recovered)
        + Cardinality(rejected) = arrived

\* The gap the client is told of counts the frames it swallowed.
GapCounts ==
    LET reported == IF phase = "open" THEN gap ELSE terminal
    IN  (IF reported = None THEN 0 ELSE reported.count) = Cardinality(lost)

\* A gap is complete when it has an end.  Then every frame it swallowed has a
\* cursor, its end and its domain are those of the last one, and only frames
\* inside the buffer it gave up can be of another domain.
GapCovers ==
    gap # None =>
        /\ gap.complete <=> gap.last # None
        /\ gap.last # None =>
             /\ \A f \in lost : f.cursor # None /\ f.n <= gap.last
             /\ \E f \in lost : f.n = gap.last /\ f.domain = gap.domain
             /\ \A f \in lost : f \in inside \/ f.domain = gap.domain

AccountInv ==
    /\ DeliveryTypes
    /\ QueueIsOpen
    /\ NumbersUsed
    /\ KeptApart
    /\ Counted
    /\ GapCounts

DeliveryInv == WindowOpen /\ AccountInv /\ BytesCounted /\ QueueWaitsForCredit

(***************************************************************************)
(* Sequences                                                               *)
(***************************************************************************)

\* Enqueue and the writes to the client add exactly the frame.
LEMMA RangeOfAppend ==
    ASSUME NEW S, NEW s \in Seq(S), NEW x \in S
    PROVE  Range(Append(s, x)) = Range(s) \cup {x}
<1>1. DOMAIN Append(s, x) = 1..(Len(s) + 1) /\ DOMAIN s = 1..Len(s) /\ Len(s) \in Nat
  OBVIOUS
<1>2. Append(s, x)[Len(s) + 1] = x /\ \A i \in 1..Len(s) : Append(s, x)[i] = s[i]
  OBVIOUS
<1>3. ASSUME NEW y \in Range(Append(s, x)) PROVE y \in Range(s) \cup {x}
  <2>1. PICK i \in 1..(Len(s) + 1) : y = Append(s, x)[i]
    BY <1>1, <1>3 DEF Range
  <2>2. i \in 1..Len(s) \/ i = Len(s) + 1
    BY <1>1
  <2> QED
    BY <1>1, <1>2, <2>1, <2>2 DEF Range
<1>4. ASSUME NEW y \in Range(s) PROVE y \in Range(Append(s, x))
  <2>1. PICK i \in 1..Len(s) : y = s[i]
    BY <1>1, <1>4 DEF Range
  <2>2. i \in 1..(Len(s) + 1) /\ y = Append(s, x)[i]
    BY <1>1, <1>2, <2>1
  <2> QED
    BY <1>1, <2>2 DEF Range
<1>5. x \in Range(Append(s, x))
  <2>1. Len(s) + 1 \in 1..(Len(s) + 1)
    BY <1>1
  <2> QED
    BY <1>1, <1>2, <2>1 DEF Range
<1> QED
  BY <1>3, <1>4, <1>5

\* disable_and_release writes the whole buffer after what was written before.
LEMMA RangeOfConcat ==
    ASSUME NEW S, NEW s \in Seq(S), NEW t \in Seq(S)
    PROVE  Range(s \o t) = Range(s) \cup Range(t)
<1>1. /\ DOMAIN (s \o t) = 1..(Len(s) + Len(t))
      /\ DOMAIN s = 1..Len(s) /\ DOMAIN t = 1..Len(t) /\ Len(s) \in Nat /\ Len(t) \in Nat
  OBVIOUS
<1>2. /\ \A i \in 1..Len(s) : (s \o t)[i] = s[i]
      /\ \A i \in 1..Len(t) : (s \o t)[Len(s) + i] = t[i]
  OBVIOUS
<1>3. ASSUME NEW y \in Range(s \o t) PROVE y \in Range(s) \cup Range(t)
  <2>1. PICK i \in 1..(Len(s) + Len(t)) : y = (s \o t)[i]
    BY <1>1, <1>3 DEF Range
  <2>2. CASE i \in 1..Len(s)
    BY <1>1, <1>2, <2>1, <2>2 DEF Range
  <2>3. CASE i \notin 1..Len(s)
    <3>1. PICK j \in 1..Len(t) : i = Len(s) + j
      <4>1. i - Len(s) \in 1..Len(t) /\ i = Len(s) + (i - Len(s))
        BY <1>1, <2>3
      <4> QED
        BY <4>1
    <3>2. y = t[j]
      BY <1>2, <2>1, <3>1
    <3> QED
      BY <1>1, <3>2 DEF Range
  <2> QED
    BY <2>2, <2>3
<1>4. ASSUME NEW y \in Range(s) PROVE y \in Range(s \o t)
  <2>1. PICK i \in 1..Len(s) : y = s[i]
    BY <1>1, <1>4 DEF Range
  <2>2. i \in 1..(Len(s) + Len(t)) /\ y = (s \o t)[i]
    BY <1>1, <1>2, <2>1
  <2> QED
    BY <1>1, <2>2 DEF Range
<1>5. ASSUME NEW y \in Range(t) PROVE y \in Range(s \o t)
  <2>1. PICK i \in 1..Len(t) : y = t[i]
    BY <1>1, <1>5 DEF Range
  <2>2. Len(s) + i \in 1..(Len(s) + Len(t)) /\ y = (s \o t)[Len(s) + i]
    BY <1>1, <1>2, <2>1
  <2> QED
    BY <1>1, <2>2 DEF Range
<1> QED
  BY <1>3, <1>4, <1>5

\* drain takes the oldest frame.
LEMMA RangeOfTail ==
    ASSUME NEW S, NEW s \in Seq(S), s # <<>>
    PROVE  Range(s) = {s[1]} \cup Range(Tail(s))
<1>1. /\ Tail(s) \in Seq(S) /\ Len(s) \in Nat \ {0} /\ Len(Tail(s)) = Len(s) - 1
      /\ \A i \in 1..(Len(s) - 1) : Tail(s)[i] = s[i + 1]
  OBVIOUS
<1>2. DOMAIN s = 1..Len(s) /\ DOMAIN Tail(s) = 1..(Len(s) - 1)
  BY <1>1
<1>3. ASSUME NEW y \in Range(s) PROVE y \in {s[1]} \cup Range(Tail(s))
  <2>1. PICK i \in 1..Len(s) : y = s[i]
    BY <1>2, <1>3 DEF Range
  <2>2. CASE i = 1
    BY <2>1, <2>2
  <2>3. CASE i # 1
    <3>1. i - 1 \in 1..(Len(s) - 1) /\ (i - 1) + 1 = i
      BY <1>1, <2>3
    <3>2. y = Tail(s)[i - 1]
      BY <1>1, <2>1, <3>1
    <3> QED
      BY <1>2, <3>1, <3>2 DEF Range
  <2> QED
    BY <2>2, <2>3
<1>4. ASSUME NEW y \in Range(Tail(s)) PROVE y \in Range(s)
  <2>1. PICK i \in 1..(Len(s) - 1) : y = Tail(s)[i]
    BY <1>2, <1>4 DEF Range
  <2>2. i + 1 \in 1..Len(s) /\ y = s[i + 1]
    BY <1>1, <2>1
  <2> QED
    BY <1>2, <2>2 DEF Range
<1>5. s[1] \in Range(s)
  <2>1. 1 \in DOMAIN s
    BY <1>1, <1>2
  <2> QED
    BY <2>1 DEF Range
<1> QED
  BY <1>3, <1>4, <1>5

LEMMA RangeOfEmpty == Range(<<>>) = {}
  BY DEF Range

\* A buffer that holds no frame twice holds as many frames as it is long.
LEMMA RangeIsCounted ==
    ASSUME NEW S, NEW s \in Seq(S), \A i, j \in 1..Len(s) : i # j => s[i] # s[j]
    PROVE  IsFiniteSet(Range(s)) /\ Cardinality(Range(s)) = Len(s)
<1>1. Len(s) \in Nat /\ DOMAIN s = 1..Len(s) /\ s = [i \in 1..Len(s) |-> s[i]]
  OBVIOUS
<1>2. s \in Bijection(1..Len(s), Range(s))
  <2>1. \A i \in 1..Len(s) : s[i] \in Range(s)
    BY <1>1 DEF Range
  <2>2. s \in [1..Len(s) -> Range(s)]
    BY <1>1, <2>1
  <2>3. \A y \in Range(s) : \E i \in 1..Len(s) : s[i] = y
    BY <1>1 DEF Range
  <2>4. \A i, j \in 1..Len(s) : s[i] = s[j] => i = j
    OBVIOUS
  <2> HIDE DEF Range
  <2> QED
    BY <2>2, <2>3, <2>4 DEF Bijection, Injection, Surjection, IsInjective
<1>3. IsFiniteSet(1..Len(s)) /\ Cardinality(1..Len(s)) = Len(s)
  <2>1. 1 \in Int /\ Len(s) \in Int
    BY <1>1
  <2>2. IsFiniteSet(1..Len(s)) /\ Cardinality(1..Len(s)) = IF 1 > Len(s) THEN 0 ELSE Len(s) - 1 + 1
    BY <2>1, FS_Interval
  <2> QED
    BY <1>1, <2>2
<1>4. ExistsBijection(1..Len(s), Range(s))
  BY <1>2 DEF ExistsBijection
<1> QED
  BY <1>3, <1>4, FS_Bijection

(***************************************************************************)
(* Frames and gaps                                                         *)
(***************************************************************************)

\* submit gets a frame of the core.
FrameArrives ==
    \E size \in 1..MaxFrame :
        \/ \E s \in Sources : SubmitFrame(Numbered(arrived + 1, size, s))
        \/ \E domain \in Domains \cup {None} : SubmitFrame(Unnumbered(arrived + 1, size, domain))

\* The frames DeliveryNext submits are Frames numbered by their arrival.
LEMMA NextFrame ==
    ASSUME AccountInv, FrameArrives
    PROVE  \E f \in Frames : f.n = arrived + 1 /\ SubmitFrame(f)
<1>1. arrived + 1 \in Nat \ {0}
  BY DEF AccountInv, DeliveryTypes
<1>2. PICK size \in 1..MaxFrame :
        \/ \E s \in Sources : SubmitFrame(Numbered(arrived + 1, size, s))
        \/ \E domain \in Domains \cup {None} : SubmitFrame(Unnumbered(arrived + 1, size, domain))
  BY DEF FrameArrives
<1>3. ASSUME NEW s \in Sources, SubmitFrame(Numbered(arrived + 1, size, s))
      PROVE  \E f \in Frames : f.n = arrived + 1 /\ SubmitFrame(f)
  <2> DEFINE f == Numbered(arrived + 1, size, s)
  <2>1. f \in Frames /\ f.n = arrived + 1
    BY <1>1, DeliveryAssumption DEF Numbered, Frames
  <2> HIDE DEF f
  <2>2. SubmitFrame(f)
    BY <1>3 DEF f
  <2> QED
    BY <2>1, <2>2
<1>4. ASSUME NEW domain \in Domains \cup {None},
             SubmitFrame(Unnumbered(arrived + 1, size, domain))
      PROVE  \E f \in Frames : f.n = arrived + 1 /\ SubmitFrame(f)
  <2> DEFINE f == Unnumbered(arrived + 1, size, domain)
  <2>1. f \in Frames /\ f.n = arrived + 1
    BY <1>1 DEF Unnumbered, Frames
  <2> HIDE DEF f
  <2>2. SubmitFrame(f)
    BY <1>4 DEF f
  <2> QED
    BY <2>1, <2>2
<1> QED
  BY <1>2, <1>3, <1>4

\* What arrives is none of the frames that arrived before.
LEMMA NewIsNew ==
    ASSUME AccountInv
    PROVE  /\ arrived + 1 \notin Range(sent) \cup recovered \cup rejected
           /\ \A g \in Range(queue) \cup lost : g.n # arrived + 1 /\ g.n \in 1..arrived
<1>1. arrived \in Nat /\ Everything = 1..arrived
  BY DEF AccountInv, DeliveryTypes, NumbersUsed
<1>2. arrived + 1 \notin 1..arrived
  BY <1>1
<1>3. \A g \in Range(queue) \cup lost : g.n \in Everything
  BY DEF Everything, NumbersIn
<1> QED
  BY <1>1, <1>2, <1>3 DEF Everything

LEMMA NumbersKept ==
    ASSUME NumbersUsed, arrived' = arrived, Everything' = Everything
    PROVE  NumbersUsed'
  BY DEF NumbersUsed

LEMMA NumbersGrow ==
    ASSUME NumbersUsed, arrived \in Nat, arrived' = arrived + 1,
           Everything' = Everything \cup {arrived + 1}
    PROVE  NumbersUsed'
<1>1. 1..(arrived + 1) = 1..arrived \cup {arrived + 1}
  OBVIOUS
<1> QED
  BY <1>1 DEF NumbersUsed

\* The numbers of a set that grows, or of two sets.
LEMMA NumbersOfUnion ==
    ASSUME NEW S, NEW T
    PROVE  NumbersIn(S \cup T) = NumbersIn(S) \cup NumbersIn(T)
  BY DEF NumbersIn

LEMMA NumbersOfMore ==
    ASSUME NEW S, NEW f
    PROVE  NumbersIn(S \cup {f}) = NumbersIn(S) \cup {f.n}
  BY DEF NumbersIn

LEMMA NumbersOfNone == NumbersIn({}) = {}
  BY DEF NumbersIn

\* What disable_and_release writes: the numbers of the queue, in its order.
LEMMA NumbersOfQueue ==
    ASSUME NEW q \in Seq(Frames)
    PROVE  /\ Numbers(q) \in Seq(Nat)
           /\ Len(Numbers(q)) = Len(q)
           /\ Range(Numbers(q)) = NumbersIn(Range(q))
<1>1. Len(q) \in Nat /\ DOMAIN q = 1..Len(q) /\ \A i \in 1..Len(q) : q[i].n \in Nat
  BY DEF Frames
<1>2. Numbers(q) \in [1..Len(q) -> Nat]
  BY <1>1 DEF Numbers
<1>3. Numbers(q) \in Seq(Nat) /\ Len(Numbers(q)) = Len(q) /\ DOMAIN Numbers(q) = 1..Len(q)
  BY <1>1, <1>2
<1>4. \A i \in 1..Len(q) : Numbers(q)[i] = q[i].n
  BY DEF Numbers
<1>5. \A x : x \in Range(Numbers(q)) <=> \E i \in 1..Len(q) : x = q[i].n
  BY <1>3, <1>4 DEF Range
<1>6. \A x : x \in NumbersIn(Range(q)) <=> \E i \in 1..Len(q) : x = q[i].n
  BY <1>1 DEF Range, NumbersIn
<1> QED
  BY <1>3, <1>5, <1>6

\* Frames with different numbers are as many as their numbers.
LEMMA NumbersAreCounted ==
    ASSUME NEW S, IsFiniteSet(S), \A f, g \in S : f.n = g.n => f = g
    PROVE  IsFiniteSet(NumbersIn(S)) /\ Cardinality(NumbersIn(S)) = Cardinality(S)
<1> DEFINE number == [f \in S |-> f.n]
<1>1. number \in [S -> NumbersIn(S)]
  BY DEF NumbersIn
<1>2. \A f, g \in S : number[f] = number[g] => f = g
  OBVIOUS
<1>3. \A k \in NumbersIn(S) : \E f \in S : number[f] = k
  BY DEF NumbersIn
<1> HIDE DEF number
<1>4. number \in Bijection(S, NumbersIn(S))
  BY <1>1, <1>2, <1>3 DEF Bijection, Injection, Surjection, IsInjective
<1>5. ExistsBijection(S, NumbersIn(S))
  BY <1>4 DEF ExistsBijection
<1> QED
  BY <1>5, FS_Bijection

LEMMA MakeGap ==
    ASSUME NEW d \in Domains \cup {None}, NEW a \in Nat \cup {None}, NEW b \in Nat \cup {None},
           NEW c \in BOOLEAN, NEW m \in BOOLEAN, NEW k \in Nat,
           NEW g, g = [domain |-> d, first |-> a, last |-> b, complete |-> c, mixed |-> m,
                       count |-> k]
    PROVE  g \in Gaps /\ g # None /\ g.count = k
<1>1. g \in Gaps
  BY DEF Gaps
<1> QED
  BY <1>1, DeliveryAssumption

\* from_buffer makes a gap that counts the buffer and the frame.
LEMMA GapOfFacts ==
    ASSUME NEW q \in Seq(Frames), NEW f \in Frames
    PROVE  /\ GapOf(q, f) \in Gaps
           /\ GapOf(q, f) # None
           /\ GapOf(q, f).count = Len(q) + 1
<1> DEFINE first == IF q = <<>> THEN f ELSE q[1]
           same == first.domain = f.domain
           complete == same /\ \A g \in Range(q) \cup {f} : g.cursor # None
<1>1. first \in Frames /\ Len(q) + 1 \in Nat
  OBVIOUS
<1>2. complete \in BOOLEAN /\ same \in BOOLEAN
  OBVIOUS
<1>3. GapOf(q, f) = [domain |-> IF same THEN first.domain ELSE None,
         first |-> IF complete THEN first.cursor ELSE None,
         last |-> IF complete THEN f.cursor ELSE None,
         complete |-> complete, mixed |-> ~same, count |-> Len(q) + 1]
  BY DEF GapOf
<1> HIDE DEF complete, same, first
<1>4. /\ first.domain \in Domains \cup {None} /\ first.cursor \in Nat \cup {None}
      /\ f.cursor \in Nat \cup {None}
  BY <1>1 DEF Frames
<1> DEFINE d == IF same THEN first.domain ELSE None
           a == IF complete THEN first.cursor ELSE None
           b == IF complete THEN f.cursor ELSE None
           m == ~same
<1>5. d \in Domains \cup {None} /\ a \in Nat \cup {None} /\ b \in Nat \cup {None}
  BY <1>4
<1>6. m \in BOOLEAN
  BY <1>2
<1>7. GapOf(q, f) = [domain |-> d, first |-> a, last |-> b, complete |-> complete, mixed |-> m,
                     count |-> Len(q) + 1]
  BY <1>3
<1> HIDE DEF d, a, b, m
<1> QED
  BY <1>1, <1>2, <1>5, <1>6, <1>7, MakeGap

\* extend counts one frame more.
LEMMA ExtendedFacts ==
    ASSUME NEW g \in Gaps, NEW f \in Frames
    PROVE  /\ Extended(g, f) \in Gaps
           /\ Extended(g, f) # None
           /\ Extended(g, f).count = g.count + 1
<1> DEFINE mixed == g.mixed \/ g.domain # f.domain
           complete == g.complete /\ ~mixed /\ f.cursor # None
<1>1. mixed \in BOOLEAN /\ complete \in BOOLEAN
  BY DEF Gaps
<1>2. Extended(g, f) = [domain |-> IF mixed THEN None ELSE g.domain,
         first |-> IF complete THEN g.first ELSE None,
         last |-> IF complete THEN f.cursor ELSE None,
         complete |-> complete, mixed |-> mixed, count |-> g.count + 1]
  BY DEF Extended
<1> HIDE DEF complete, mixed
<1>3. /\ f.cursor \in Nat \cup {None} /\ g.domain \in Domains \cup {None}
      /\ g.first \in Nat \cup {None} /\ g.count + 1 \in Nat
  BY DEF Frames, Gaps
<1> QED
  BY <1>1, <1>2, <1>3, DeliveryAssumption DEF Gaps

\* terminal_gap counts what is still queued.
LEMMA TerminalGapFacts ==
    ASSUME DeliveryTypes
    PROVE  /\ TerminalGap \in Gaps \cup {None}
           /\ gap # None => TerminalGap = gap
           /\ gap = None /\ queue = <<>> => TerminalGap = None
           /\ gap = None /\ queue # <<>> =>
                TerminalGap # None /\ TerminalGap.count = Len(queue)
<1>1. CASE gap # None \/ queue = <<>>
  <2>1. TerminalGap = gap
    BY <1>1 DEF TerminalGap
  <2> QED
    BY <1>1, <2>1 DEF DeliveryTypes
<1>2. CASE gap = None /\ queue # <<>>
  <2> DEFINE same == \A f \in Range(queue) : f.domain = queue[1].domain
             complete == same /\ \A f \in Range(queue) : f.cursor # None
  <2>1. queue[1] \in Frames /\ queue[Len(queue)] \in Frames /\ Len(queue) \in Nat
    BY <1>2 DEF DeliveryTypes
  <2>2. same \in BOOLEAN /\ complete \in BOOLEAN
    OBVIOUS
  <2>3. TerminalGap = [domain |-> IF same THEN queue[1].domain ELSE None,
              first |-> IF complete THEN queue[1].cursor ELSE None,
              last |-> IF complete THEN queue[Len(queue)].cursor ELSE None,
              complete |-> complete, mixed |-> ~same, count |-> Len(queue)]
    BY <1>2 DEF TerminalGap
  <2> HIDE DEF same, complete
  <2>4. /\ queue[1].domain \in Domains \cup {None} /\ queue[1].cursor \in Nat \cup {None}
        /\ queue[Len(queue)].cursor \in Nat \cup {None}
    BY <2>1 DEF Frames
  <2> DEFINE d == IF same THEN queue[1].domain ELSE None
             a == IF complete THEN queue[1].cursor ELSE None
             b == IF complete THEN queue[Len(queue)].cursor ELSE None
             m == ~same
  <2>5. d \in Domains \cup {None} /\ a \in Nat \cup {None} /\ b \in Nat \cup {None}
    BY <2>4
  <2>6. m \in BOOLEAN
    BY <2>2
  <2>8. TerminalGap = [domain |-> d, first |-> a, last |-> b, complete |-> complete, mixed |-> m,
                       count |-> Len(queue)]
    BY <2>3
  <2> HIDE DEF d, a, b, m
  <2>7. TerminalGap \in Gaps /\ TerminalGap # None /\ TerminalGap.count = Len(queue)
    <3>1. Len(queue) \in Nat /\ complete \in BOOLEAN
      BY <2>1, <2>2
    <3> HIDE DEF TerminalGap
    <3>2. TerminalGap \in Gaps
      BY <3>1, <2>5, <2>6, <2>8 DEF Gaps
    <3> QED
      BY <2>8, <3>2, DeliveryAssumption
  <2> QED
    BY <1>2, <2>7
<1> QED
  BY <1>1, <1>2

(***************************************************************************)
(* Every action keeps AccountInv                                           *)
(***************************************************************************)

\* A frame is written: it was new, and only the writes grow.
LEMMA WriteKeeps ==
    ASSUME AccountInv, NEW f \in Frames, f.n = arrived + 1, Submits(f),
           sent' = Append(sent, f.n), UNCHANGED <<active, queue, queuedBytes, gap, lost>>
    PROVE  AccountInv'
<1> USE DEF Submits, tallyVars, Ready
<1>0. f.n \in Nat
  BY DEF Frames
<1>1. DeliveryTypes'
  BY <1>0 DEF AccountInv, DeliveryTypes
<1>2. QueueIsOpen'
  BY DEF AccountInv, QueueIsOpen
<1>3. NumbersUsed'
  <2>1. Range(sent') = Range(sent) \cup {arrived + 1}
    BY <1>0, RangeOfAppend DEF AccountInv, DeliveryTypes
  <2>2. Everything' = Everything \cup {arrived + 1}
    BY <2>1 DEF Everything
  <2> QED
    BY <2>2, NumbersGrow DEF AccountInv, DeliveryTypes
<1>4. KeptApart'
  BY DEF AccountInv, KeptApart
<1>5. Counted'
  <2>1. Len(sent') = Len(sent) + 1
    BY DEF AccountInv, DeliveryTypes
  <2>2. /\ Len(sent) \in Nat /\ Len(queue) \in Nat /\ Cardinality(lost) \in Nat
        /\ Cardinality(recovered) \in Nat /\ Cardinality(rejected) \in Nat
    BY FS_CardinalityType DEF AccountInv, DeliveryTypes
  <2> QED
    BY <2>1, <2>2 DEF AccountInv, Counted
<1>6. GapCounts'
  BY DEF AccountInv, GapCounts
<1> QED
  BY <1>1, <1>2, <1>3, <1>4, <1>5, <1>6 DEF AccountInv

\* The numbers Counted adds up are numbers.
LEMMA CountTypes ==
    ASSUME DeliveryTypes
    PROVE  /\ Len(sent) \in Nat /\ Len(queue) \in Nat /\ Cardinality(lost) \in Nat
           /\ Cardinality(recovered) \in Nat /\ Cardinality(rejected) \in Nat
  BY FS_CardinalityType DEF DeliveryTypes

\* Without a gap nothing is lost in the open turn.
LEMMA NoGapNoLoss ==
    ASSUME AccountInv, phase = "open", gap = None
    PROVE  lost = {}
<1>1. Cardinality(lost) = 0 /\ IsFiniteSet(lost)
  BY DEF AccountInv, GapCounts, DeliveryTypes
<1> QED
  BY <1>1, FS_EmptySet

LEMMA SuppressKeeps ==
    ASSUME AccountInv, NEW f \in Frames, f.n = arrived + 1, Suppress(f)
    PROVE  AccountInv'
<1> USE DEF Submits, tallyVars, Ready, Suppress
<1>1. /\ arrived + 1 \notin Range(sent) \cup recovered \cup rejected
      /\ \A g \in Range(queue) \cup lost : g.n # arrived + 1 /\ g.n \in 1..arrived
  BY NewIsNew
<1>2. gap \in Gaps /\ gap' \in Gaps /\ gap' # None /\ gap'.count = gap.count + 1
  BY ExtendedFacts DEF AccountInv, DeliveryTypes
<1>3. IsFiniteSet(lost') /\ Cardinality(lost') = Cardinality(lost) + 1
  <2>1. IsFiniteSet(lost) /\ f \notin lost
    BY <1>1 DEF AccountInv, DeliveryTypes
  <2> QED
    BY <2>1, FS_AddElement
<1>4. DeliveryTypes'
  BY <1>2, <1>3 DEF AccountInv, DeliveryTypes
<1>5. queue = <<>> /\ queue' = <<>>
  BY DEF AccountInv, QueueIsOpen
<1>6. QueueIsOpen'
  BY <1>5 DEF AccountInv, QueueIsOpen
<1>7. NumbersUsed'
  <2>0. NumbersIn(lost') = NumbersIn(lost) \cup {arrived + 1}
    <3>1. lost' = lost \cup {f} /\ f.n = arrived + 1
      OBVIOUS
    <3> QED
      BY <3>1, NumbersOfMore, ZenonT(40)
  <2>1. Everything' = Everything \cup {arrived + 1}
    BY <2>0 DEF Everything
  <2> QED
    BY <2>1, NumbersGrow DEF AccountInv, DeliveryTypes
<1>8. KeptApart'
  BY <1>1, <1>5, RangeOfEmpty DEF AccountInv, KeptApart
<1>9. Counted'
  BY <1>3, CountTypes DEF AccountInv, Counted
<1>10. GapCounts'
  BY <1>2, <1>3 DEF AccountInv, GapCounts
<1> QED
  BY <1>4, <1>6, <1>7, <1>8, <1>9, <1>10 DEF AccountInv

LEMMA StartGapKeeps ==
    ASSUME AccountInv, NEW f \in Frames, f.n = arrived + 1, StartGap(f)
    PROVE  AccountInv'
<1> USE DEF Submits, tallyVars, Ready, StartGap, ClearQueue
<1>1. /\ arrived + 1 \notin Range(sent) \cup recovered \cup rejected
      /\ \A g \in Range(queue) \cup lost : g.n # arrived + 1 /\ g.n \in 1..arrived
  BY NewIsNew
<1>2. gap' \in Gaps /\ gap' # None /\ gap'.count = Len(queue) + 1
  BY GapOfFacts DEF AccountInv, DeliveryTypes
<1>3. lost = {} /\ queue' = <<>> /\ Range(queue') = {}
  BY NoGapNoLoss, RangeOfEmpty
<1>4. IsFiniteSet(lost') /\ Cardinality(lost') = Len(queue) + 1
  <2>1. IsFiniteSet(Range(queue)) /\ Cardinality(Range(queue)) = Len(queue)
    BY RangeIsCounted DEF AccountInv, DeliveryTypes, KeptApart
  <2>2. f \notin Range(queue)
    BY <1>1
  <2> QED
    BY <2>1, <2>2, FS_AddElement
<1>5. lost' \in SUBSET Frames
  <2>1. Range(queue) \subseteq Frames
    BY DEF AccountInv, DeliveryTypes, Range
  <2> QED
    BY <2>1
<1>6. DeliveryTypes'
  BY <1>2, <1>3, <1>4, <1>5, DeliveryAssumption DEF AccountInv, DeliveryTypes
<1>7. QueueIsOpen'
  BY <1>3 DEF AccountInv, QueueIsOpen
<1>8. NumbersUsed'
  <2>0. /\ NumbersIn(lost') = NumbersIn(Range(queue)) \cup {arrived + 1}
        /\ NumbersIn(lost) = {} /\ NumbersIn(Range(queue')) = {}
    <3>1. lost' = Range(queue) \cup {f} /\ f.n = arrived + 1
      OBVIOUS
    <3> QED
      BY <1>3, <3>1, NumbersOfMore, NumbersOfNone, ZenonT(40)
  <2>1. Everything' = Everything \cup {arrived + 1}
    BY <2>0 DEF Everything
  <2> QED
    BY <2>1, NumbersGrow DEF AccountInv, DeliveryTypes
<1>9. KeptApart'
  <2>1. \A i, j \in 1..Len(queue') : i # j => queue'[i].n # queue'[j].n
    BY <1>3
  <2>2. \A g \in lost' : g.n \notin recovered'
    BY <1>1 DEF AccountInv, KeptApart
  <2>3. \A g, h \in Range(queue) : g.n = h.n => g = h
    BY DEF AccountInv, KeptApart, DeliveryTypes, Range
  <2>4. \A g, h \in lost' : g.n = h.n => g = h
    BY <1>1, <2>3
  <2> QED
    BY <1>3, <2>1, <2>2, <2>4 DEF KeptApart
<1>10. Counted'
  <2>1. Cardinality(lost) = 0 /\ Len(queue') = 0
    BY <1>3, FS_EmptySet
  <2> QED
    BY <1>4, <2>1, CountTypes DEF AccountInv, Counted
<1>11. GapCounts'
  BY <1>2, <1>4 DEF GapCounts
<1> QED
  BY <1>6, <1>7, <1>8, <1>9, <1>10, <1>11 DEF AccountInv

LEMMA EnqueueKeeps ==
    ASSUME AccountInv, NEW f \in Frames, f.n = arrived + 1, Enqueue(f)
    PROVE  AccountInv'
<1> USE DEF Submits, tallyVars, Ready, Enqueue
<1>1. /\ arrived + 1 \notin Range(sent) \cup recovered \cup rejected
      /\ \A g \in Range(queue) \cup lost : g.n # arrived + 1 /\ g.n \in 1..arrived
  BY NewIsNew
<1>2. /\ queue' \in Seq(Frames) /\ Len(queue') = Len(queue) + 1 /\ queue'[Len(queue) + 1] = f
      /\ \A i \in 1..Len(queue) : queue'[i] = queue[i] /\ queue[i] \in Range(queue)
      /\ Len(queue) \in Nat
  BY DEF AccountInv, DeliveryTypes, Range
<1>3. Range(queue') = Range(queue) \cup {f}
  BY RangeOfAppend DEF AccountInv, DeliveryTypes
<1>4. queuedBytes' \in 0..MaxBuffer
  BY DeliveryAssumption DEF AccountInv, DeliveryTypes, Overflows, Frames
<1>5. DeliveryTypes'
  BY <1>2, <1>4 DEF AccountInv, DeliveryTypes
<1>6. QueueIsOpen'
  <2>1. \A i \in 1..Len(queue') : queue'[i].size <= MaxChunk
    <3>1. \A i \in 1..Len(queue') : i \in 1..Len(queue) \/ i = Len(queue) + 1
      BY <1>2
    <3> QED
      BY <1>2, <3>1 DEF AccountInv, QueueIsOpen
  <2> QED
    BY <2>1 DEF AccountInv, QueueIsOpen
<1>7. NumbersUsed'
  <2>0. NumbersIn(Range(queue')) = NumbersIn(Range(queue)) \cup {arrived + 1}
    <3>1. f.n = arrived + 1
      OBVIOUS
    <3> QED
      BY <1>3, <3>1, NumbersOfMore, ZenonT(40)
  <2>1. Everything' = Everything \cup {arrived + 1}
    BY <2>0 DEF Everything
  <2> QED
    BY <2>1, NumbersGrow DEF AccountInv, DeliveryTypes
<1>8. KeptApart'
  <2>1. \A i \in 1..Len(queue) : queue'[i].n # f.n
    BY <1>1, <1>2
  <2>2. ASSUME NEW i \in 1..Len(queue'), NEW j \in 1..Len(queue'), i # j
        PROVE  queue'[i].n # queue'[j].n
    <3>1. (i \in 1..Len(queue) \/ i = Len(queue) + 1) /\ (j \in 1..Len(queue) \/ j = Len(queue) + 1)
      BY <1>2
    <3> QED
      BY <1>2, <2>1, <2>2, <3>1 DEF AccountInv, KeptApart
  <2> QED
    BY <1>1, <1>3, <2>2 DEF AccountInv, KeptApart
<1>9. Counted'
  BY <1>2, CountTypes DEF AccountInv, Counted
<1>10. GapCounts'
  BY DEF AccountInv, GapCounts
<1> QED
  BY <1>5, <1>6, <1>7, <1>8, <1>9, <1>10 DEF AccountInv

\* The parts of AccountInv an empty buffer leaves to show after it was
\* released: its frames are written now.
LEMMA ReleaseFacts ==
    ASSUME AccountInv, DisableAndRelease
    PROVE  /\ sent' \in Seq(Nat) /\ Len(sent') = Len(sent) + Len(queue)
           /\ Range(sent') = Range(sent) \cup NumbersIn(Range(queue)) /\ NumbersIn(Range(queue')) = {}
           /\ queue' = <<>> /\ Range(queue') = {} /\ Len(queue') = 0 /\ queue' \in Seq(Frames)
           /\ queuedBytes' \in 0..MaxBuffer
           /\ active' = FALSE /\ gap' = gap /\ lost' = lost
           /\ \A i \in 1..Len(queue') : FALSE
<1> USE DEF DisableAndRelease, ClearQueue, DropWindow
<1>1. queue' = <<>> /\ queuedBytes' = 0 /\ sent' = sent \o Numbers(queue)
  OBVIOUS
<1>0. /\ Numbers(queue) \in Seq(Nat) /\ Len(Numbers(queue)) = Len(queue)
      /\ Range(Numbers(queue)) = NumbersIn(Range(queue))
      /\ sent \in Seq(Nat)
  BY NumbersOfQueue DEF AccountInv, DeliveryTypes
<1>2. sent' \in Seq(Nat) /\ Len(sent') = Len(sent) + Len(queue)
  <2>1. \A s, t \in Seq(Nat) : s \o t \in Seq(Nat) /\ Len(s \o t) = Len(s) + Len(t)
    OBVIOUS
  <2> QED
    BY <1>0, <1>1, <2>1, Zenon
<1>3. Range(sent') = Range(sent) \cup NumbersIn(Range(queue))
  BY <1>0, <1>1, RangeOfConcat
<1>4. 0 \in 0..MaxBuffer
  BY DeliveryAssumption
<1> QED
  <2>1. /\ queue' \in Seq(Frames) /\ Len(queue') = 0 /\ queuedBytes' \in 0..MaxBuffer
        /\ active' = FALSE /\ gap' = gap /\ lost' = lost /\ \A i \in 1..Len(queue') : FALSE
    BY <1>1, <1>4
  <2>2. Range(queue') = {} /\ NumbersIn(Range(queue')) = {}
    BY <1>1, RangeOfEmpty, NumbersOfNone, ZenonT(40)
  <2> QED
    BY <1>1, <1>2, <1>3, <2>1, <2>2, Zenon

LEMMA RejectKeeps ==
    ASSUME AccountInv, RejectMalformed
    PROVE  AccountInv'
<1> USE DEF Ready, RejectMalformed
<1>0. /\ sent' \in Seq(Nat) /\ Len(sent') = Len(sent) + Len(queue)
      /\ Range(sent') = Range(sent) \cup NumbersIn(Range(queue)) /\ NumbersIn(Range(queue')) = {}
      /\ queue' = <<>> /\ Range(queue') = {} /\ Len(queue') = 0 /\ queue' \in Seq(Frames)
      /\ queuedBytes' \in 0..MaxBuffer
      /\ active' = FALSE /\ gap' = gap /\ lost' = lost
      /\ \A i \in 1..Len(queue') : FALSE
  BY ReleaseFacts
<1>1. arrived + 1 \notin rejected
  BY NewIsNew
<1>2. IsFiniteSet(rejected') /\ Cardinality(rejected') = Cardinality(rejected) + 1
  <2>1. IsFiniteSet(rejected) /\ arrived + 1 \notin rejected
    BY <1>1 DEF AccountInv, DeliveryTypes
  <2> QED
    BY <2>1, FS_AddElement
<1>3. DeliveryTypes'
  <2>1. rejected' \in SUBSET Nat
    BY DEF AccountInv, DeliveryTypes
  <2>2. /\ arrived' \in Nat /\ phase' = phase /\ pc' = pc /\ terminal' = terminal
        /\ durable' = durable /\ recovered' = recovered
    BY DEF AccountInv, DeliveryTypes
  <2> QED
    BY <1>0, <1>2, <2>1, <2>2 DEF AccountInv, DeliveryTypes
<1>4. QueueIsOpen'
  BY <1>0 DEF AccountInv, QueueIsOpen
<1>5. NumbersUsed'
  <2>1. Everything' = Everything \cup {arrived + 1}
    BY <1>0 DEF Everything
  <2> QED
    BY <2>1, NumbersGrow DEF AccountInv, DeliveryTypes
<1>6. KeptApart'
  BY <1>0 DEF AccountInv, KeptApart
<1>7. Counted'
  BY <1>2, <1>0, CountTypes DEF AccountInv, Counted
<1>8. GapCounts'
  BY <1>0 DEF AccountInv, GapCounts
<1> QED
  BY <1>3, <1>4, <1>5, <1>6, <1>7, <1>8 DEF AccountInv

LEMMA StoreLostKeeps ==
    ASSUME AccountInv, StoreLost
    PROVE  AccountInv'
<1> USE DEF Ready, StoreLost, tallyVars
<1>1. CASE active
  <2>0. /\ sent' \in Seq(Nat) /\ Len(sent') = Len(sent) + Len(queue)
        /\ Range(sent') = Range(sent) \cup NumbersIn(Range(queue)) /\ NumbersIn(Range(queue')) = {}
        /\ queue' = <<>> /\ Range(queue') = {} /\ Len(queue') = 0 /\ queue' \in Seq(Frames)
        /\ queuedBytes' \in 0..MaxBuffer
        /\ active' = FALSE /\ gap' = gap /\ lost' = lost
        /\ \A i \in 1..Len(queue') : FALSE
    BY <1>1, ReleaseFacts
  <2>1. DeliveryTypes'
    BY <2>0 DEF AccountInv, DeliveryTypes
  <2>2. QueueIsOpen'
    BY <2>0 DEF AccountInv, QueueIsOpen
  <2>3. NumbersUsed'
    <3>1. Everything' = Everything
      BY <2>0 DEF Everything
    <3> QED
      BY <3>1, NumbersKept DEF AccountInv
  <2>4. KeptApart'
    BY <2>0 DEF AccountInv, KeptApart
  <2>5. Counted'
    BY <2>0, CountTypes DEF AccountInv, Counted
  <2>6. GapCounts'
    BY <2>0 DEF AccountInv, GapCounts
  <2> QED
    BY <2>1, <2>2, <2>3, <2>4, <2>5, <2>6 DEF AccountInv
<1>2. CASE ~active
  BY <1>2 DEF bufferVars, AccountInv, DeliveryTypes, QueueIsOpen, NumbersUsed, KeptApart, Counted,
              GapCounts, Everything
<1> QED
  BY <1>1, <1>2 DEF AccountInv, DeliveryTypes

LEMMA TurnEndKeeps ==
    ASSUME AccountInv, TurnEnd
    PROVE  AccountInv'
<1> USE DEF Ready, TurnEnd, tallyVars, ClearQueue, DropWindow
<1>1. /\ queue' = <<>> /\ Range(queue') = {} /\ Len(queue') = 0 /\ queue' \in Seq(Frames)
      /\ queuedBytes' \in 0..MaxBuffer /\ \A i \in 1..Len(queue') : FALSE
  BY RangeOfEmpty, DeliveryAssumption
<1>2. Range(queue) \subseteq Frames
  BY DEF AccountInv, DeliveryTypes, Range
<1>3. IsFiniteSet(Range(queue)) /\ Cardinality(Range(queue)) = Len(queue)
  BY RangeIsCounted DEF AccountInv, DeliveryTypes, KeptApart
<1>4. /\ terminal' \in Gaps \cup {None}
      /\ gap # None => terminal' = gap
      /\ gap = None /\ queue = <<>> => terminal' = None
      /\ gap = None /\ queue # <<>> => terminal' # None /\ terminal'.count = Len(queue)
  BY TerminalGapFacts DEF AccountInv
<1>5. gap # None => queue = <<>> /\ Range(queue) = {} /\ lost' = lost
  BY RangeOfEmpty DEF AccountInv, QueueIsOpen
<1>6. gap = None => lost = {} /\ lost' = Range(queue)
  BY NoGapNoLoss
<1>7. lost' \in SUBSET Frames /\ IsFiniteSet(lost')
  BY <1>2, <1>3, <1>5, <1>6 DEF AccountInv, DeliveryTypes
<1>15. NumbersIn(lost \cup Range(queue)) = NumbersIn(lost) \cup NumbersIn(Range(queue))
  BY NumbersOfUnion
<1>16. NumbersIn(Range(queue')) = {}
  BY <1>1, NumbersOfNone
<1>8. lost' = lost \cup Range(queue) /\ Cardinality(lost') = Cardinality(lost) + Len(queue)
  <2>1. CASE gap # None
    <3>1. Len(queue) = 0
      BY <1>5, <2>1
    <3> QED
      BY <1>5, <2>1, <3>1, CountTypes DEF AccountInv
  <2>2. CASE gap = None
    <3>1. Cardinality(lost) = 0
      BY <1>6, <2>2, FS_EmptySet
    <3> QED
      BY <1>3, <1>6, <2>2, <3>1, CountTypes DEF AccountInv
  <2> QED
    BY <2>1, <2>2
<1>9. DeliveryTypes'
  BY <1>1, <1>4, <1>7 DEF AccountInv, DeliveryTypes
<1>10. QueueIsOpen'
  BY <1>1 DEF QueueIsOpen
<1>11. NumbersUsed'
  <2>1. Everything' = Everything
    BY <1>1, <1>8, <1>15, <1>16 DEF Everything
  <2> QED
    BY <2>1, NumbersKept DEF AccountInv
<1>12. KeptApart'
  <2>1. \A g, h \in Range(queue) : g.n = h.n => g = h
    BY DEF AccountInv, KeptApart, DeliveryTypes, Range
  <2>2. \A g, h \in lost' : g.n = h.n => g = h
    BY <1>8, <2>1 DEF AccountInv, KeptApart
  <2> QED
    BY <1>1, <1>8, <2>2 DEF AccountInv, KeptApart
<1>13. Counted'
  BY <1>1, <1>8, CountTypes DEF AccountInv, Counted
<1>14. GapCounts'
  <2>1. (IF terminal' = None THEN 0 ELSE terminal'.count) = Cardinality(lost')
    <3>1. CASE gap # None
      BY <1>4, <1>5, <3>1 DEF AccountInv, GapCounts
    <3>2. CASE gap = None /\ queue = <<>>
      BY <1>3, <1>4, <1>6, <3>2
    <3>3. CASE gap = None /\ queue # <<>>
      BY <1>3, <1>4, <1>6, <3>3
    <3> QED
      BY <3>1, <3>2, <3>3
  <2> QED
    BY <2>1 DEF GapCounts
<1> QED
  BY <1>9, <1>10, <1>11, <1>12, <1>13, <1>14 DEF AccountInv

\* A turn starts with nothing: the initial state and the next turn alike.
FreshTurn ==
    /\ active \in BOOLEAN /\ durable \in BOOLEAN
    /\ queue = <<>> /\ queuedBytes = 0 /\ gap = None /\ phase = "open" /\ pc = "idle"
    /\ terminal = None /\ arrived = 0 /\ sent = <<>>
    /\ lost = {} /\ recovered = {} /\ rejected = {}

LEMMA FreshAccount == FreshTurn => AccountInv
<1> SUFFICES ASSUME FreshTurn PROVE AccountInv
  OBVIOUS
<1> USE DEF FreshTurn
<1>1. /\ Range(queue) = {} /\ Range(sent) = {} /\ Len(queue) = 0 /\ Len(sent) = 0
      /\ queue \in Seq(Frames) /\ sent \in Seq(Nat) /\ 0 \in 0..MaxBuffer
      /\ Cardinality({}) = 0 /\ IsFiniteSet({}) /\ \A i \in 1..Len(queue) : FALSE
  BY RangeOfEmpty, FS_EmptySet, DeliveryAssumption
<1>2. DeliveryTypes
  BY <1>1 DEF DeliveryTypes
<1>3. QueueIsOpen
  BY <1>1 DEF QueueIsOpen
<1>4. NumbersUsed
  <2>1. Everything = {} /\ 1..arrived = {}
    BY <1>1, NumbersOfNone DEF Everything
  <2> QED
    BY <2>1 DEF NumbersUsed
<1>5. KeptApart
  BY <1>1 DEF KeptApart
<1>6. Counted
  BY <1>1 DEF Counted
<1>7. GapCounts
  BY <1>1 DEF GapCounts
<1> QED
  BY <1>2, <1>3, <1>4, <1>5, <1>6, <1>7 DEF AccountInv

LEMMA BeginTurnKeeps ==
    ASSUME AccountInv, BeginTurn
    PROVE  AccountInv'
<1>1. FreshTurn'
  BY DEF BeginTurn, ClearQueue, DropWindow, AccountInv, DeliveryTypes, QueueIsOpen,
         FreshTurn
<1> QED
  BY <1>1, FreshAccount, PTL

\* A resume moves the frames of the gap to those the client has been told of.
LEMMA ControlKeeps ==
    ASSUME AccountInv, NEW seq \in 0..SeqMax, NEW c \in ClientCommand, NEW through \in Cursors,
           ControlApplied(seq, c, through)
    PROVE  AccountInv'
<1> USE DEF Ready, ControlApplied, AfterAck
<1>1. CASE ResumesGap(c)
  <2> DEFINE known == NumbersIn(lost)
  <2>1. gap' = None /\ lost' = {} /\ recovered' = recovered \cup known
    BY <1>1 DEF NumbersIn
  <2>10. IsFiniteSet(known) /\ Cardinality(known) = Cardinality(lost)
    BY NumbersAreCounted DEF AccountInv, KeptApart, DeliveryTypes
  <2>11. recovered \cap known = {} /\ known \in SUBSET Nat
    BY DEF AccountInv, KeptApart, DeliveryTypes, NumbersIn, Frames
  <2>12. NumbersIn(lost') = {}
    BY <2>1, NumbersOfNone
  <2>13. Everything = Range(sent) \cup NumbersIn(Range(queue)) \cup known \cup recovered \cup rejected
    BY DEF Everything
  <2>14. \A k \in recovered' : k \in recovered \/ \E g \in lost : k = g.n
    BY <2>1 DEF NumbersIn
  <2> HIDE DEF known
  <2>2. Cardinality(recovered') = Cardinality(recovered) + Cardinality(lost) /\ IsFiniteSet(recovered')
    <3>1. recovered \cap known = {} /\ IsFiniteSet(recovered) /\ IsFiniteSet(known)
      BY <2>10, <2>11 DEF AccountInv, DeliveryTypes
    <3>2. Cardinality(recovered \cap known) = 0
      BY <3>1, FS_EmptySet
    <3>3. /\ IsFiniteSet(recovered \cup known)
          /\ Cardinality(recovered \cup known) = Cardinality(recovered) + Cardinality(known)
                                                  - Cardinality(recovered \cap known)
      BY <3>1, FS_Union
    <3>4. Cardinality(recovered) \in Nat /\ Cardinality(lost) \in Nat
      BY CountTypes DEF AccountInv
    <3> QED
      BY <2>1, <2>10, <3>2, <3>3, <3>4
  <2>3. Cardinality(lost') = 0 /\ IsFiniteSet(lost')
    BY <2>1, FS_EmptySet
  <2>4. DeliveryTypes'
    BY <2>1, <2>2, <2>3, <2>11 DEF AccountInv, DeliveryTypes
  <2>5. QueueIsOpen'
    BY <2>1 DEF AccountInv, QueueIsOpen
  <2>6. NumbersUsed'
    <3>1. Everything' = Everything
      BY <2>1, <2>12, <2>13 DEF Everything
    <3> QED
      BY <3>1, NumbersKept DEF AccountInv
  <2>7. KeptApart'
    BY <2>1, <2>14 DEF AccountInv, KeptApart
  <2>8. Counted'
    BY <2>1, <2>2, <2>3, CountTypes DEF AccountInv, Counted
  <2>9. GapCounts'
    BY <2>1, <2>3 DEF GapCounts
  <2> QED
    BY <2>4, <2>5, <2>6, <2>7, <2>8, <2>9 DEF AccountInv
<1>2. CASE ~ResumesGap(c)
  <2>1. UNCHANGED <<gap, lost, recovered>>
    BY <1>2
  <2>2. DeliveryTypes'
    BY <2>1 DEF AccountInv, DeliveryTypes
  <2>3. QueueIsOpen'
    BY <2>1 DEF AccountInv, QueueIsOpen
  <2>4. NumbersUsed' /\ KeptApart' /\ Counted' /\ GapCounts'
    BY <2>1 DEF AccountInv, NumbersUsed, KeptApart, Counted, GapCounts, Everything
  <2> QED
    BY <2>2, <2>3, <2>4 DEF AccountInv
<1> QED
  BY <1>1, <1>2

LEMMA DrainKeeps ==
    ASSUME AccountInv, WindowOpen, BytesCounted, DrainOne
    PROVE  AccountInv'
<1> USE DEF DrainOne, FrontGranted, tallyVars
<1>1. /\ queue # <<>> /\ queue \in Seq(Frames) /\ queue[1] \in Frames
      /\ queue' \in Seq(Frames) /\ Len(queue') = Len(queue) - 1 /\ Len(queue) \in Nat \ {0}
      /\ \A i \in 1..Len(queue') : i + 1 \in 1..Len(queue) /\ queue'[i] = queue[i + 1]
  BY DEF AccountInv, DeliveryTypes
<1>2. /\ sent' \in Seq(Nat) /\ Len(sent') = Len(sent) + 1
      /\ Range(sent') = Range(sent) \cup {queue[1].n}
  <2>1. queue[1].n \in Nat
    BY <1>1 DEF Frames
  <2> QED
    BY <2>1, RangeOfAppend DEF AccountInv, DeliveryTypes
<1>3. Range(queue) = {queue[1]} \cup Range(queue')
  BY <1>1, RangeOfTail
<1>4. queuedBytes' \in 0..MaxBuffer
  <2>1. PICK sum \in [0..Len(queue) -> 0..queuedBytes] : RunningSum(queue, sum, queuedBytes)
    BY DEF BytesCounted
  <2>2. sum[0] = 0 /\ sum[1] = sum[0] + queue[1].size /\ sum[1] \in 0..queuedBytes
    <3>1. 1 \in 1..Len(queue) /\ 1 \in 0..Len(queue) /\ 1 - 1 = 0
      BY <1>1
    <3>2. sum[0] = 0 /\ \A i \in 1..Len(queue) : sum[i] = sum[i - 1] + queue[i].size
      BY <2>1 DEF RunningSum
    <3> QED
      BY <3>1, <3>2
  <2>3. queue[1].size \in 0..queuedBytes
    BY <1>1, <2>2 DEF Frames
  <2>4. queuedBytes \in 0..MaxBuffer /\ MaxBuffer \in Nat
    BY DeliveryAssumption DEF AccountInv, DeliveryTypes
  <2>5. queuedBytes' = queuedBytes - queue[1].size
    OBVIOUS
  <2> QED
    BY <2>3, <2>4, <2>5
<1>5. DeliveryTypes'
  BY <1>1, <1>2, <1>4 DEF AccountInv, DeliveryTypes
<1>6. QueueIsOpen'
  BY <1>1 DEF AccountInv, QueueIsOpen
<1>7. NumbersUsed'
  <2>0. NumbersIn(Range(queue)) = {queue[1].n} \cup NumbersIn(Range(queue'))
    BY <1>3 DEF NumbersIn
  <2>1. Everything' = Everything
    BY <1>2, <2>0 DEF Everything
  <2>2. arrived' = arrived
    OBVIOUS
  <2> QED
    BY <2>1, <2>2, NumbersKept DEF AccountInv
<1>8. KeptApart'
  <2>1. ASSUME NEW i \in 1..Len(queue'), NEW j \in 1..Len(queue'), i # j
        PROVE  queue'[i].n # queue'[j].n
    <3>1. i + 1 \in 1..Len(queue) /\ j + 1 \in 1..Len(queue) /\ i + 1 # j + 1
      BY <1>1, <2>1
    <3> QED
      BY <1>1, <3>1 DEF AccountInv, KeptApart
  <2> QED
    BY <1>3, <2>1 DEF AccountInv, KeptApart
<1>9. Counted'
  BY <1>1, <1>2, CountTypes DEF AccountInv, Counted
<1>10. GapCounts'
  BY DEF AccountInv, GapCounts
<1> QED
  BY <1>5, <1>6, <1>7, <1>8, <1>9, <1>10 DEF AccountInv

\* Nothing of the account changes: its frames, gap and numbers stay.
LEMMA IdleKeepsAccount ==
    ASSUME AccountInv, active' \in BOOLEAN, durable' \in BOOLEAN, pc' \in {"idle", "drain"},
           phase = "ended" => pc' = "idle",
           queue # <<>> => active',
           UNCHANGED <<bufferVars, phase, terminal, arrived, sent, lost, tallyVars>>
    PROVE  AccountInv'
<1> USE DEF bufferVars, tallyVars
<1>1. DeliveryTypes'
  BY DEF AccountInv, DeliveryTypes
<1>2. QueueIsOpen'
  BY DEF AccountInv, QueueIsOpen
<1>3. NumbersUsed' /\ KeptApart' /\ Counted' /\ GapCounts'
  BY DEF AccountInv, NumbersUsed, KeptApart, Counted, GapCounts, Everything
<1> QED
  BY <1>1, <1>2, <1>3 DEF AccountInv

\* Every step of the delivery keeps AccountInv.
LEMMA AccountStep ==
    ASSUME DeliveryInv, [DeliveryNext]_deliveryVars
    PROVE  AccountInv'
<1>0. AccountInv /\ WindowOpen /\ BytesCounted
  BY DEF DeliveryInv
<1>1. CASE FrameArrives
  <2>1. PICK f \in Frames : f.n = arrived + 1 /\ SubmitFrame(f)
    BY <1>0, <1>1, NextFrame
  <2>2. CASE PassThrough(f)
    BY <1>0, <2>1, <2>2, WriteKeeps DEF PassThrough, bufferVars
  <2>3. CASE Suppress(f)
    BY <1>0, <2>1, <2>3, SuppressKeeps
  <2>4. CASE StartGap(f)
    BY <1>0, <2>1, <2>4, StartGapKeeps
  <2>5. CASE DeliverGranted(f)
    BY <1>0, <2>1, <2>5, WriteKeeps DEF DeliverGranted, bufferVars
  <2>6. CASE Enqueue(f)
    BY <1>0, <2>1, <2>6, EnqueueKeeps
  <2>7. SubmitFrame(f)
    BY <2>1
  <2> QED
    BY <2>2, <2>3, <2>4, <2>5, <2>6, <2>7 DEF SubmitFrame
<1>2. CASE RejectMalformed
  BY <1>0, <1>2, RejectKeeps
<1>3. CASE StoreReady
  BY <1>0, <1>3, IdleKeepsAccount DEF StoreReady, Ready, AccountInv, DeliveryTypes, QueueIsOpen
<1>4. CASE StoreLost
  BY <1>0, <1>4, StoreLostKeeps
<1>5. CASE TurnEnd
  BY <1>0, <1>5, TurnEndKeeps
<1>6. CASE BeginTurn
  BY <1>0, <1>6, BeginTurnKeeps
<1>7. ASSUME NEW seq \in 0..SeqMax, NEW c \in ClientCommand, NEW through \in Cursors,
             ControlApplied(seq, c, through)
      PROVE  AccountInv'
  BY <1>0, <1>7, ControlKeeps
<1>8. CASE ControlRepeated
  BY <1>0, <1>8, IdleKeepsAccount DEF ControlRepeated, Ready, AccountInv, DeliveryTypes, QueueIsOpen
<1>9. CASE ControlRefused
  BY <1>0, <1>9, IdleKeepsAccount DEF ControlRefused, Ready, AccountInv, DeliveryTypes, QueueIsOpen
<1>10. CASE DrainOne
  BY <1>0, <1>10, DrainKeeps
<1>11. CASE DrainStops
  BY <1>0, <1>11, IdleKeepsAccount DEF DrainStops, Ready, AccountInv, DeliveryTypes, QueueIsOpen
<1>12. CASE UNCHANGED deliveryVars
  BY <1>0, <1>12, IdleKeepsAccount DEF deliveryVars, hostVars, AccountInv, DeliveryTypes, QueueIsOpen
<1> QED
  BY <1>1, <1>2, <1>3, <1>4, <1>5, <1>6, <1>7, <1>8, <1>9, <1>10, <1>11, <1>12 DEF DeliveryNext, FrameArrives

(***************************************************************************)
(* The window                                                              *)
(***************************************************************************)

\* The next window starts as a new one.
LEMMA DropKeepsWindow ==
    ASSUME WindowOpen, DropWindow
    PROVE  WindowOpen'
<1> USE ConfigAssumption DEF DropWindow
<1>1. history' = <<>> /\ history' \in Seq(ControlRecord) /\ Len(history') = 0
  OBVIOUS
<1>2. closed' = FALSE /\ forfeited' = 0
  BY DEF WindowOpen, WindowInv, WindowTypeOK
<1>3. WindowTypeOK'
  <2>1. available' \in 0..MaxCredit /\ granted' \in 0..GrantedMax /\ nextSeq' \in 0..SeqMax
    OBVIOUS
  <2>2. /\ Len(history') <= MaxHistory /\ extended' \in Nat /\ forfeited' \in Nat
        /\ counted' = 0..(nextSeq' - 1)
    BY <1>1, <1>2
  <2> QED
    BY <1>1, <1>2, <2>1, <2>2 DEF WindowTypeOK
<1>4. HistoryContiguous'
  BY <1>1 DEF HistoryContiguous
<1>5. CreditConserved' /\ ClosedIsDrained'
  BY <1>2 DEF CreditConserved, ClosedIsDrained
<1> QED
  BY <1>2, <1>3, <1>4, <1>5 DEF WindowOpen, WindowInv

LEMMA SameWindow ==
    ASSUME WindowOpen, UNCHANGED windowVars
    PROVE  WindowOpen'
  BY ReadKeepsInv DEF WindowOpen, windowVars, stateVars, ghostVars

LEMMA ReserveKeepsWindow ==
    ASSUME WindowOpen, NEW bytes \in 1..MaxChunk, TryReserve(bytes)
    PROVE  WindowOpen'
<1>1. WindowInv'
  BY ReserveKeepsInv DEF WindowOpen
<1> QED
  BY <1>1 DEF WindowOpen, TryReserve, ghostVars

LEMMA ControlKeepsWindow ==
    ASSUME WindowOpen, NEW seq \in 0..SeqMax, NEW c \in ClientCommand, ApplyControl(seq, c)
    PROVE  WindowOpen'
<1>1. c \in Command /\ c.kind # "close" /\ WindowInv
  BY DEF ClientCommand, WindowOpen
<1>2. WindowInv'
  BY <1>1, ApplyKeepsType, ApplyKeepsHistory, ApplyKeepsCredit DEF WindowInv
<1> QED
  BY <1>1, <1>2 DEF WindowOpen, ApplyControl

\* The delivery reaches the window only in ways that keep its invariant.
LEMMA WindowOpenStep ==
    ASSUME DeliveryInv, [DeliveryNext]_deliveryVars
    PROVE  WindowOpen'
<1>0. AccountInv /\ WindowOpen
  BY DEF DeliveryInv
<1>1. CASE FrameArrives
  <2>1. PICK f \in Frames : f.n = arrived + 1 /\ SubmitFrame(f)
    BY <1>0, <1>1, NextFrame
  <2>2. SubmitFrame(f)
    BY <2>1
  <2>3. CASE DeliverGranted(f)
    <3>1. f.size \in 1..MaxChunk /\ TryReserve(f.size)
      BY <2>1, <2>3, ConfigAssumption DEF DeliverGranted, Frames
    <3> QED
      BY <1>0, <3>1, ReserveKeepsWindow
  <2>4. CASE PassThrough(f) \/ Suppress(f) \/ StartGap(f) \/ Enqueue(f)
    BY <1>0, <2>4, SameWindow DEF PassThrough, Suppress, StartGap, Enqueue
  <2> QED
    BY <2>2, <2>3, <2>4 DEF SubmitFrame
<1>2. CASE RejectMalformed
  BY <1>0, <1>2, DropKeepsWindow DEF RejectMalformed, DisableAndRelease
<1>3. CASE StoreLost
  BY <1>0, <1>3, DropKeepsWindow, SameWindow DEF StoreLost, DisableAndRelease
<1>4. CASE TurnEnd \/ BeginTurn
  BY <1>0, <1>4, DropKeepsWindow DEF TurnEnd, BeginTurn
<1>5. ASSUME NEW seq \in 0..SeqMax, NEW c \in ClientCommand, NEW through \in Cursors,
             ControlApplied(seq, c, through)
      PROVE  WindowOpen'
  BY <1>0, <1>5, ControlKeepsWindow DEF ControlApplied
<1>6. CASE DrainOne
  <2>1. queue # <<>> /\ queue \in Seq(Frames) /\ queue[1].size <= MaxChunk /\ 1 \in 1..Len(queue)
    BY <1>0, <1>6 DEF DrainOne, FrontGranted, AccountInv, QueueIsOpen, DeliveryTypes
  <2>2. queue[1].size \in 1..MaxChunk
    BY <2>1, ConfigAssumption DEF Frames
  <2> QED
    BY <1>0, <1>6, <2>2, ReserveKeepsWindow DEF DrainOne
<1>7. CASE StoreReady \/ ControlRepeated \/ ControlRefused \/ DrainStops \/ UNCHANGED deliveryVars
  BY <1>0, <1>7, SameWindow DEF StoreReady, ControlRepeated, ControlRefused, DrainStops, deliveryVars
<1> QED
  BY <1>1, <1>2, <1>3, <1>4, <1>5, <1>6, <1>7 DEF DeliveryNext, FrameArrives

(***************************************************************************)
(* The bytes of the buffer                                                 *)
(***************************************************************************)

LEMMA EmptySum ==
    ASSUME NEW q, NEW total, q = <<>>, total = 0
    PROVE  \E sum \in [0..Len(q) -> 0..total] : RunningSum(q, sum, total)
<1> DEFINE zero == [i \in 0..0 |-> 0]
<1>1. Len(q) = 0 /\ 1..Len(q) = {} /\ 0..Len(q) = {0} /\ 0..total = {0}
  OBVIOUS
<1>2. zero \in [0..Len(q) -> 0..total] /\ zero[0] = 0
  BY <1>1
<1>3. RunningSum(q, zero, total)
  BY <1>1, <1>2 DEF RunningSum
<1> QED
  BY <1>2, <1>3

\* Enqueue adds the size of the frame at the end.
LEMMA AppendSum ==
    ASSUME NEW q \in Seq(Frames), NEW f \in Frames, NEW total \in Nat,
           NEW sum \in [0..Len(q) -> 0..total], RunningSum(q, sum, total)
    PROVE  \E s \in [0..Len(Append(q, f)) -> 0..(total + f.size)] :
                RunningSum(Append(q, f), s, total + f.size)
<1> DEFINE n == Len(q)
           r == Append(q, f)
           s == [i \in 0..(n + 1) |-> IF i <= n THEN sum[i] ELSE total + f.size]
<1>1. n \in Nat /\ Len(r) = n + 1 /\ r[n + 1] = f /\ \A i \in 1..n : r[i] = q[i]
  OBVIOUS
<1>2. f.size \in Nat
  BY DEF Frames
<1>3. \A i \in 0..n : s[i] = sum[i] /\ sum[i] \in 0..total
  BY <1>1
<1>4. s[n + 1] = total + f.size
  BY <1>1
<1>5. sum[n] = total /\ sum[0] = 0
  BY DEF RunningSum
<1>6. \A i \in 0..(n + 1) : i \in 0..n \/ i = n + 1
  BY <1>1
<1>7. s \in [0..Len(r) -> 0..(total + f.size)]
  <2>1. \A i \in 0..(n + 1) : s[i] \in 0..(total + f.size)
    BY <1>2, <1>3, <1>4, <1>6
  <2> QED
    BY <1>1, <2>1
<1>8. s[0] = 0 /\ s[Len(r)] = total + f.size
  BY <1>1, <1>3, <1>4, <1>5
<1>9. \A i \in 1..Len(r) : s[i] = s[i - 1] + r[i].size
  <2>1. ASSUME NEW i \in 1..n PROVE s[i] = s[i - 1] + r[i].size
    <3>1. i \in 0..n /\ i - 1 \in 0..n
      BY <1>1
    <3> QED
      BY <1>1, <1>3, <3>1 DEF RunningSum
  <2>2. s[n + 1] = s[n] + r[n + 1].size
    BY <1>1, <1>3, <1>4, <1>5
  <2>3. \A i \in 1..Len(r) : i \in 1..n \/ i = n + 1
    BY <1>1
  <2>4. (n + 1) - 1 = n
    BY <1>1
  <2> QED
    BY <2>1, <2>2, <2>3, <2>4
<1>10. \A i, j \in 0..Len(r) : i <= j => s[i] <= s[j]
  <2>1. ASSUME NEW i \in 0..(n + 1), NEW j \in 0..(n + 1), i <= j PROVE s[i] <= s[j]
    <3>1. CASE j \in 0..n
      <4>1. i \in 0..n
        BY <1>1, <2>1, <3>1
      <4> QED
        BY <1>3, <2>1, <3>1, <4>1 DEF RunningSum
    <3>2. CASE j = n + 1
      <4>1. s[i] \in 0..(total + f.size)
        BY <1>1, <1>7
      <4> QED
        BY <1>2, <1>4, <3>2, <4>1
    <3> QED
      BY <1>6, <3>1, <3>2
  <2> QED
    BY <1>1, <2>1
<1> HIDE DEF s, r, n
<1>11. RunningSum(r, s, total + f.size)
  BY <1>7, <1>8, <1>9, <1>10 DEF RunningSum
<1> QED
  BY <1>7, <1>11 DEF r

\* drain takes off the size of the oldest one.
LEMMA TailSum ==
    ASSUME NEW q \in Seq(Frames), q # <<>>, NEW total \in Nat,
           NEW sum \in [0..Len(q) -> 0..total], RunningSum(q, sum, total)
    PROVE  \E s \in [0..Len(Tail(q)) -> 0..(total - q[1].size)] :
                RunningSum(Tail(q), s, total - q[1].size)
<1> DEFINE n == Len(q) - 1
           r == Tail(q)
           d == q[1].size
           s == [i \in 0..n |-> sum[i + 1] - d]
<1>1. /\ n \in Nat /\ Len(q) = n + 1 /\ Len(r) = n
      /\ \A i \in 1..n : r[i] = q[i + 1] /\ i + 1 \in 1..Len(q)
  OBVIOUS
<1>2. d \in Nat
  BY DEF Frames
<1>3. sum[0] = 0 /\ sum[1] = d /\ sum[n + 1] = total
  <2>1. 1 \in 1..Len(q) /\ 1 - 1 = 0
    BY <1>1
  <2>2. sum[1] = sum[0] + q[1].size
    BY <2>1 DEF RunningSum
  <2> QED
    BY <1>1, <1>2, <2>2 DEF RunningSum
<1>4. \A i \in 0..n : i + 1 \in 0..Len(q) /\ sum[i + 1] \in 0..total /\ sum[1] <= sum[i + 1]
  <2>1. \A i \in 0..n : i + 1 \in 0..Len(q) /\ 1 <= i + 1 /\ 1 \in 0..Len(q)
    BY <1>1
  <2> QED
    BY <2>1 DEF RunningSum
<1>5. \A i, j \in 0..n : i <= j => sum[i + 1] <= sum[j + 1]
  <2>1. \A i, j \in 0..n : i <= j => i + 1 <= j + 1
    BY <1>1
  <2> QED
    BY <1>4, <2>1 DEF RunningSum
<1>6. \A i \in 0..n : s[i] = sum[i + 1] - d
  OBVIOUS
<1>7. s \in [0..Len(r) -> 0..(total - d)]
  <2>1. \A i \in 0..n : sum[i + 1] <= total
    BY <1>4
  <2>2. \A i \in 0..n : s[i] \in 0..(total - d)
    BY <1>2, <1>3, <1>4, <1>6, <2>1
  <2> QED
    BY <1>1, <2>2
<1>8. s[0] = 0 /\ s[Len(r)] = total - d
  BY <1>1, <1>2, <1>3, <1>6
<1>9. \A i \in 1..Len(r) : s[i] = s[i - 1] + r[i].size
  <2>1. ASSUME NEW i \in 1..n PROVE s[i] = s[i - 1] + r[i].size
    <3>1. i \in 0..n /\ i - 1 \in 0..n /\ (i - 1) + 1 = i /\ (i + 1) - 1 = i /\ i + 1 \in 1..Len(q)
      BY <1>1
    <3>2. sum[i + 1] = sum[i] + r[i].size
      BY <1>1, <3>1 DEF RunningSum
    <3>3. r[i].size \in Nat /\ sum[i] \in Nat
      <4>1. q[i + 1] \in Frames /\ i \in 0..Len(q)
        BY <1>1, <3>1
      <4>2. r[i] = q[i + 1] /\ sum[i] \in Nat
        BY <1>1, <4>1
      <4>3. q[i + 1].size \in Nat
        BY <4>1 DEF Frames
      <4> QED
        BY <4>2, <4>3
    <3>4. s[i] = sum[i + 1] - d /\ s[i - 1] = sum[i] - d
      BY <1>6, <3>1
    <3> QED
      BY <1>2, <3>2, <3>3, <3>4
  <2> QED
    BY <1>1, <2>1
<1>10. \A i, j \in 0..Len(r) : i <= j => s[i] <= s[j]
  <2>1. ASSUME NEW i \in 0..n, NEW j \in 0..n, i <= j PROVE s[i] <= s[j]
    <3>1. sum[i + 1] <= sum[j + 1]
      BY <1>5, <2>1
    <3>2. sum[i + 1] \in Int /\ sum[j + 1] \in Int /\ d \in Int
      BY <1>2, <1>4
    <3>3. s[i] = sum[i + 1] - d /\ s[j] = sum[j + 1] - d
      BY <1>6
    <3> QED
      BY <3>1, <3>2, <3>3
  <2> QED
    BY <1>1, <2>1
<1> HIDE DEF s, r, n, d
<1>11. RunningSum(r, s, total - d)
  BY <1>7, <1>8, <1>9, <1>10 DEF RunningSum
<1> QED
  BY <1>7, <1>11 DEF r, d

\* queued_bytes follows the queue through every step.
LEMMA BytesStep ==
    ASSUME DeliveryInv, [DeliveryNext]_deliveryVars
    PROVE  BytesCounted'
<1>0. AccountInv /\ BytesCounted /\ queue \in Seq(Frames) /\ queuedBytes \in Nat
  BY DEF DeliveryInv, AccountInv, DeliveryTypes
<1>1. CASE UNCHANGED <<queue, queuedBytes>>
  BY <1>0, <1>1 DEF BytesCounted
<1>2. CASE ClearQueue
  BY <1>2, EmptySum DEF ClearQueue, BytesCounted
<1>3. PICK sum \in [0..Len(queue) -> 0..queuedBytes] : RunningSum(queue, sum, queuedBytes)
  BY <1>0 DEF BytesCounted
<1>4. ASSUME NEW f \in Frames, queue' = Append(queue, f), queuedBytes' = queuedBytes + f.size
      PROVE  BytesCounted'
  BY <1>0, <1>3, <1>4, AppendSum DEF BytesCounted
<1>5. CASE DrainOne
  <2>1. queue # <<>> /\ queue' = Tail(queue) /\ queuedBytes' = queuedBytes - queue[1].size
    BY <1>5 DEF DrainOne, FrontGranted
  <2> QED
    BY <1>0, <1>3, <2>1, TailSum DEF BytesCounted
<1>6. CASE FrameArrives
  <2>1. PICK f \in Frames : f.n = arrived + 1 /\ SubmitFrame(f)
    BY <1>0, <1>6, NextFrame
  <2>2. SubmitFrame(f)
    BY <2>1
  <2>3. CASE Enqueue(f)
    BY <1>4, <2>1, <2>3 DEF Enqueue
  <2>4. CASE StartGap(f)
    BY <1>2, <2>4 DEF StartGap
  <2>5. CASE PassThrough(f) \/ Suppress(f) \/ DeliverGranted(f)
    BY <1>1, <2>5 DEF PassThrough, Suppress, DeliverGranted, bufferVars
  <2> QED
    BY <2>2, <2>3, <2>4, <2>5 DEF SubmitFrame
<1>7. CASE RejectMalformed
  BY <1>2, <1>7 DEF RejectMalformed, DisableAndRelease
<1>8. CASE StoreLost
  BY <1>1, <1>2, <1>8 DEF StoreLost, DisableAndRelease, bufferVars
<1>9. CASE TurnEnd \/ BeginTurn
  BY <1>2, <1>9 DEF TurnEnd, BeginTurn
<1>10. ASSUME NEW seq \in 0..SeqMax, NEW c \in ClientCommand, NEW through \in Cursors,
             ControlApplied(seq, c, through)
       PROVE  BytesCounted'
  BY <1>1, <1>10 DEF ControlApplied
<1>11. CASE StoreReady \/ ControlRepeated \/ ControlRefused \/ DrainStops \/ UNCHANGED deliveryVars
  BY <1>1, <1>11 DEF StoreReady, ControlRepeated, ControlRefused, DrainStops, deliveryVars, hostVars,
     bufferVars
<1> QED
  BY <1>5, <1>6, <1>7, <1>8, <1>9, <1>10, <1>11 DEF DeliveryNext, FrameArrives

(***************************************************************************)
(* Waiting for credit                                                      *)
(***************************************************************************)

\* Whatever lets a waiting frame go is a control, and a control is followed by
\* a drain before the host looks at its next message.
LEMMA WaitsStep ==
    ASSUME DeliveryInv, [DeliveryNext]_deliveryVars
    PROVE  QueueWaitsForCredit'
<1>0. /\ AccountInv /\ WindowOpen /\ QueueWaitsForCredit /\ queue \in Seq(Frames)
      /\ available \in Nat /\ granted \in Nat /\ GrantedMax \in Nat
  BY ConfigAssumption DEF DeliveryInv, AccountInv, DeliveryTypes, WindowOpen, WindowInv, WindowTypeOK
<1>1. CASE queue' = <<>>
  BY <1>1 DEF QueueWaitsForCredit
<1>2. CASE UNCHANGED <<windowVars, active, bufferVars, pc>>
  BY <1>0, <1>2 DEF QueueWaitsForCredit, FrontGranted, Reserves, windowVars, stateVars, bufferVars
<1>3. CASE pc' = "drain"
  BY <1>3 DEF QueueWaitsForCredit
<1>4. CASE FrameArrives
  <2>1. PICK f \in Frames : f.n = arrived + 1 /\ SubmitFrame(f)
    BY <1>0, <1>4, NextFrame
  <2>2. SubmitFrame(f)
    BY <2>1
  <2>3. CASE Enqueue(f)
    <3>1. /\ pc = "idle" /\ pc' = "idle" /\ active' /\ gap' = None /\ queue' = Append(queue, f)
          /\ ~Reserves(f.size) /\ UNCHANGED windowVars
      BY <2>3 DEF Enqueue, Submits, Ready
    <3>2. queue'[1] = IF queue = <<>> THEN f ELSE queue[1]
      BY <1>0, <2>1, <3>1
    <3>3. ~Reserves(queue'[1].size)
      BY <1>0, <3>1, <3>2 DEF QueueWaitsForCredit, FrontGranted, Enqueue
    <3>4. ~FrontGranted'
      BY <3>1, <3>3 DEF FrontGranted, Reserves, windowVars, stateVars
    <3> QED
      BY <3>1, <3>4 DEF QueueWaitsForCredit
  <2>4. CASE DeliverGranted(f)
    <3>1. /\ pc = "idle" /\ active' = active /\ gap' = gap /\ queue' = queue
          /\ paused' = paused /\ closed' = closed
          /\ available' = available - f.size /\ granted' = granted + f.size
      BY <2>4 DEF DeliverGranted, Submits, Ready, TryReserve, bufferVars
    <3>2. f.size \in Nat /\ (queue # <<>> => queue[1].size \in Nat)
      BY <1>0, <2>1 DEF Frames
    <3>3. queue # <<>> => (Reserves(queue[1].size)' => Reserves(queue[1].size))
      <4>1. available \in Nat /\ granted \in Nat /\ GrantedMax \in Nat
        BY <1>0
      <4>2. ASSUME queue # <<>>, Reserves(queue[1].size)'
            PROVE  Reserves(queue[1].size)
        <5>1. /\ ~closed /\ ~paused /\ available - f.size >= queue[1].size
              /\ granted + f.size + queue[1].size <= GrantedMax
          BY <3>1, <4>2 DEF Reserves
        <5>2. available >= queue[1].size /\ granted + queue[1].size <= GrantedMax
          BY <3>2, <4>1, <4>2, <5>1
        <5> QED
          BY <5>1, <5>2 DEF Reserves
      <4> QED
        BY <4>2
    <3> QED
      BY <1>0, <3>1, <3>3 DEF QueueWaitsForCredit, FrontGranted
  <2>5. CASE StartGap(f)
    BY <1>1, <2>5 DEF StartGap, ClearQueue
  <2>6. CASE PassThrough(f)
    BY <1>2, <2>6 DEF PassThrough, Submits
  <2>7. CASE Suppress(f)
    <3>1. queue = <<>> /\ queue' = queue
      BY <1>0, <2>7 DEF Suppress, AccountInv, QueueIsOpen
    <3> QED
      BY <1>1, <3>1
  <2> QED
    BY <2>2, <2>3, <2>4, <2>5, <2>6, <2>7 DEF SubmitFrame
<1>5. CASE RejectMalformed
  BY <1>1, <1>5 DEF RejectMalformed, DisableAndRelease, ClearQueue
<1>6. CASE StoreLost
  BY <1>1, <1>2, <1>6 DEF StoreLost, DisableAndRelease, ClearQueue
<1>7. CASE TurnEnd \/ BeginTurn
  BY <1>1, <1>7 DEF TurnEnd, BeginTurn, ClearQueue
<1>8. ASSUME NEW seq \in 0..SeqMax, NEW c \in ClientCommand, NEW through \in Cursors,
             ControlApplied(seq, c, through)
      PROVE  QueueWaitsForCredit'
  BY <1>3, <1>8 DEF ControlApplied, AfterAck
<1>9. CASE ControlRepeated
  BY <1>3, <1>9 DEF ControlRepeated
<1>10. CASE ControlRefused
  <2>1. queue = <<>> /\ queue' = queue
    BY <1>0, <1>10 DEF ControlRefused, bufferVars, AccountInv, QueueIsOpen
  <2> QED
    BY <1>1, <2>1
<1>11. CASE DrainOne
  BY <1>3, <1>11 DEF DrainOne
<1>12. CASE DrainStops
  BY <1>0, <1>12 DEF DrainStops, QueueWaitsForCredit, FrontGranted, Reserves, AccountInv, QueueIsOpen,
     windowVars, stateVars, bufferVars
<1>13. CASE StoreReady \/ UNCHANGED deliveryVars
  BY <1>2, <1>13 DEF StoreReady, deliveryVars, hostVars
<1> QED
  BY <1>4, <1>5, <1>6, <1>7, <1>8, <1>9, <1>10, <1>11, <1>12, <1>13 DEF DeliveryNext, FrameArrives

(***************************************************************************)
(* The theorems                                                            *)
(***************************************************************************)

LEMMA DeliveryStart == DeliveryInit => DeliveryInv
<1> SUFFICES ASSUME DeliveryInit PROVE DeliveryInv
  OBVIOUS
<1>1. WindowOpen
  BY WindowStart DEF DeliveryInit, WindowOpen, WindowInit
<1>2. AccountInv
  BY FreshAccount DEF DeliveryInit, FreshTurn
<1>3. BytesCounted
  BY EmptySum DEF DeliveryInit, BytesCounted
<1>4. QueueWaitsForCredit
  BY DEF DeliveryInit, QueueWaitsForCredit
<1> QED
  BY <1>1, <1>2, <1>3, <1>4 DEF DeliveryInv

\* The delivery's invariant holds for every size of credit, chunk, buffer and
\* frame, every number of frames and every set of sources and domains.
THEOREM DeliveryInvariance == DeliverySpec => []DeliveryInv
<1>1. DeliveryInv /\ [DeliveryNext]_deliveryVars => DeliveryInv'
  BY AccountStep, WindowOpenStep, BytesStep, WaitsStep DEF DeliveryInv
<1> QED
  BY <1>1, DeliveryStart, PTL DEF DeliverySpec

\* The account DeliveryInv keeps is EveryFrameAccounted.
LEMMA AccountIsKept == DeliveryInv => EveryFrameAccounted
<1> SUFFICES ASSUME DeliveryInv PROVE EveryFrameAccounted
  OBVIOUS
<1> DEFINE reported == IF phase = "open" THEN gap ELSE terminal
<1>1. Range(sent) \cup {f.n : f \in Range(queue) \cup lost} \cup recovered \cup rejected = 1..arrived
  <2>1. {f.n : f \in Range(queue) \cup lost} = NumbersIn(Range(queue)) \cup NumbersIn(lost)
    BY DEF NumbersIn
  <2> QED
    BY <2>1 DEF DeliveryInv, AccountInv, NumbersUsed, Everything
<1>2. Len(sent) + Len(queue) + Cardinality(lost) + Cardinality(recovered)
             + Cardinality(rejected) = arrived
  BY DEF DeliveryInv, AccountInv, Counted
<1>3. (IF reported = None THEN 0 ELSE reported.count) = Cardinality(lost)
  BY DEF DeliveryInv, AccountInv, GapCounts
<1>4. SumsTo(queue, queuedBytes)
  BY DEF DeliveryInv, BytesCounted, RunningSum, SumsTo
<1>5. queuedBytes <= MaxBuffer
  BY DEF DeliveryInv, AccountInv, DeliveryTypes
<1> QED
  BY <1>1, <1>2, <1>3, <1>4, <1>5 DEF EveryFrameAccounted

\* Bounded delivery never becomes silent loss: submit, drain, disable_and_release
\* and the resume of a gap account for every frame of the turn exactly once, and
\* queued_bytes is exact and within buffer_bytes.
THEOREM FramesAreAccounted == DeliverySpec => []EveryFrameAccounted
  BY DeliveryInvariance, AccountIsKept, PTL

\* No frame waits in the buffer while try_reserve would grant it.
THEOREM NoIdleCredit == DeliverySpec => []QueueWaitsForCredit
<1>1. DeliveryInv => QueueWaitsForCredit
  BY DEF DeliveryInv
<1> QED
  BY <1>1, DeliveryInvariance, PTL

\* The credit of the window is conserved as the transport host uses it, over the
\* windows it drops and creates again.
THEOREM DeliveryConservesCredit == DeliverySpec => []CreditConserved
<1>1. DeliveryInv => CreditConserved
  BY DEF DeliveryInv, WindowOpen, WindowInv
<1> QED
  BY <1>1, DeliveryInvariance, PTL

\* What a resume closes covers what the gap swallowed.
CoverInv == GapCovers /\ ResumeCoversGap

\* The cursor of a frame is its number, and frames are lost after they arrived.
LEMMA LostIsEarlier ==
    ASSUME AccountInv, NEW g \in Range(queue) \cup lost
    PROVE  g \in Frames /\ g.n \in 1..arrived /\ (g.cursor # None => g.cursor = g.n)
<1>1. g \in Frames
  BY DEF AccountInv, DeliveryTypes, Range
<1>2. g.n \in 1..arrived
  BY NewIsNew
<1> QED
  BY <1>1, <1>2 DEF Frames

\* extend: a frame of another domain, or without a cursor, takes the end away.
LEMMA SuppressCovers ==
    ASSUME AccountInv, GapCovers, NEW f \in Frames, f.n = arrived + 1, Suppress(f)
    PROVE  GapCovers'
<1> DEFINE mixed == gap.mixed \/ gap.domain # f.domain
           complete == gap.complete /\ ~mixed /\ f.cursor # None
<1>1. /\ gap \in Gaps /\ gap # None /\ lost' = lost \cup {f} /\ inside' = inside
      /\ arrived \in Nat
  BY DEF Suppress, AccountInv, DeliveryTypes
<1>2. gap' = [domain |-> IF mixed THEN None ELSE gap.domain,
              first |-> IF complete THEN gap.first ELSE None,
              last |-> IF complete THEN f.cursor ELSE None,
              complete |-> complete, mixed |-> mixed, count |-> gap.count + 1]
  BY DEF Suppress, Extended
<1>3. gap'.complete = complete /\ gap'.last = IF complete THEN f.cursor ELSE None
  BY <1>2
<1>4. complete => gap.complete /\ f.cursor # None /\ gap'.domain = gap.domain /\ gap.domain = f.domain
  BY <1>2
<1> HIDE DEF complete, mixed
<1>5. gap'.complete <=> gap'.last # None
  BY <1>3, <1>4
<1>6. ASSUME complete
      PROVE  /\ \A g \in lost' : g.cursor # None /\ g.n <= gap'.last
             /\ \E g \in lost' : g.n = gap'.last /\ g.domain = gap'.domain
             /\ \A g \in lost' : g \in inside' \/ g.domain = gap'.domain
  <2>1. f.cursor = f.n /\ gap'.last = arrived + 1
    BY <1>3, <1>4, <1>6 DEF Frames
  <2>2. \A g \in lost : g.cursor # None /\ (g \in inside \/ g.domain = gap.domain)
    BY <1>1, <1>4, <1>6 DEF GapCovers
  <2>3. \A g \in lost : g.n <= arrived + 1
    BY <1>1, LostIsEarlier
  <2>4. \A g \in lost' : g = f \/ g \in lost
    BY <1>1
  <2>5. f \in lost' /\ f.n <= gap'.last /\ f.n = gap'.last /\ f.domain = gap'.domain
    BY <1>1, <1>4, <1>6, <2>1
  <2>6. \A g \in lost' : g.cursor # None /\ g.n <= gap'.last
    BY <1>4, <1>6, <2>1, <2>2, <2>3, <2>4, <2>5
  <2>7. \A g \in lost' : g \in inside' \/ g.domain = gap'.domain
    BY <1>1, <1>4, <1>6, <2>2, <2>4, <2>5
  <2> QED
    BY <2>5, <2>6, <2>7
<1> QED
  BY <1>3, <1>5, <1>6 DEF GapCovers

\* from_buffer: the first frame of the buffer and the one that does not fit are
\* of one domain, or the gap has no end.
LEMMA StartGapCovers ==
    ASSUME AccountInv, NEW f \in Frames, f.n = arrived + 1, StartGap(f)
    PROVE  GapCovers'
<1> DEFINE first == IF queue = <<>> THEN f ELSE queue[1]
           same == first.domain = f.domain
           complete == same /\ \A g \in Range(queue) \cup {f} : g.cursor # None
<1>1. /\ lost' = Range(queue) \cup {f} /\ arrived \in Nat
      /\ inside' = {queue[i] : i \in 2..Len(queue)}
  BY DEF StartGap, AccountInv, DeliveryTypes
<1>2. gap' = [domain |-> IF same THEN first.domain ELSE None,
              first |-> IF complete THEN first.cursor ELSE None,
              last |-> IF complete THEN f.cursor ELSE None,
              complete |-> complete, mixed |-> ~same, count |-> Len(queue) + 1]
  BY DEF StartGap, GapOf
<1>3. gap'.complete = complete /\ gap'.last = IF complete THEN f.cursor ELSE None
  BY <1>2
<1>4. complete => /\ gap'.domain = f.domain
                  /\ first.domain = f.domain
                  /\ \A g \in Range(queue) \cup {f} : g.cursor # None
  BY <1>2
<1>5. \A g \in lost' : g \in inside' \/ g = f \/ g = first
  <2>1. ASSUME NEW g \in Range(queue) PROVE g \in inside' \/ g = first
    <3>1. PICK i \in 1..Len(queue) : g = queue[i]
      BY <2>1 DEF Range, AccountInv, DeliveryTypes
    <3>2. queue # <<>> /\ Len(queue) \in Nat
      BY <3>1 DEF AccountInv, DeliveryTypes
    <3>3. i = 1 \/ i \in 2..Len(queue)
      BY <3>2
    <3> QED
      BY <1>1, <3>1, <3>2, <3>3
  <2> QED
    BY <1>1, <2>1
<1> HIDE DEF complete, same, first
<1>6. gap'.complete <=> gap'.last # None
  BY <1>3, <1>4
<1>7. ASSUME complete
      PROVE  /\ \A g \in lost' : g.cursor # None /\ g.n <= gap'.last
             /\ \E g \in lost' : g.n = gap'.last /\ g.domain = gap'.domain
             /\ \A g \in lost' : g \in inside' \/ g.domain = gap'.domain
  <2>1. f.cursor = f.n /\ gap'.last = arrived + 1
    BY <1>3, <1>4, <1>7 DEF Frames
  <2>2. \A g \in Range(queue) : g.n <= arrived + 1
    BY <1>1, LostIsEarlier
  <2>3. f \in lost' /\ f.n <= gap'.last /\ f.n = gap'.last /\ f.domain = gap'.domain
    BY <1>1, <1>4, <1>7, <2>1
  <2>4. \A g \in lost' : g.cursor # None /\ g.n <= gap'.last
    BY <1>1, <1>4, <1>7, <2>1, <2>2, <2>3
  <2>5. \A g \in lost' : g \in inside' \/ g.domain = gap'.domain
    BY <1>4, <1>5, <1>7
  <2> QED
    BY <2>3, <2>4, <2>5
<1> QED
  BY <1>3, <1>6, <1>7 DEF GapCovers

\* A resume past the end of the gap leaves out no frame of the source of that
\* end, and of its domain's other sources and the inside of the buffer only.
LEMMA ResumeCovers ==
    ASSUME AccountInv, CoverInv,
           NEW seq \in 0..SeqMax, NEW c \in ClientCommand, NEW through \in Cursors,
           ControlApplied(seq, c, through), ResumesGap(c)
    PROVE  CoverInv'
<1>1. gap # None /\ gap.last # None /\ through # None /\ through >= gap.last + 1
  BY DEF ControlApplied, CursorAccepted, ResumesGap
<1>2. through \in Nat /\ gap.last \in Nat
  BY <1>1, DeliveryAssumption DEF Cursors, AccountInv, DeliveryTypes, Gaps
<1>3. /\ \A f \in lost : f.cursor # None /\ f.n <= gap.last
      /\ \A f \in lost : f \in inside \/ f.domain = gap.domain
  BY <1>1 DEF CoverInv, GapCovers
<1>4. \A f \in lost : f.cursor = f.n /\ f.n \in Nat
  BY <1>3, LostIsEarlier
<1>5. \A f \in lost : f.cursor < through
  BY <1>1, <1>2, <1>3, <1>4
<1>6. LastLost \in lost /\ LastLost.domain = gap.domain
  <2>1. PICK l \in lost : l.n = gap.last /\ l.domain = gap.domain
    BY <1>1 DEF CoverInv, GapCovers
  <2>2. \A g \in lost : g.n <= l.n
    BY <1>3, <2>1
  <2>3. LastLost \in lost /\ \A g \in lost : g.n <= LastLost.n
    BY <2>2 DEF LastLost
  <2>4. l.n = LastLost.n
    BY <1>4, <2>2, <2>3
  <2>5. \A f, g \in lost : f.n = g.n => f = g
    BY DEF AccountInv, KeptApart
  <2>6. l = LastLost
    BY <2>3, <2>4, <2>5
  <2> QED
    BY <2>1, <2>6
<1> DEFINE note(f) == [source |-> f.source = LastLost.source,
                       domain |-> f.domain = LastLost.domain,
                       inside |-> f \in inside]
<1>7. /\ gap' = None
      /\ forgotten' = forgotten \cup {note(f) : f \in {g \in lost : ~ResumedPast(g, through)}}
  BY DEF ControlApplied
<1>8. ASSUME NEW f \in lost, ~ResumedPast(f, through)
      PROVE  ~note(f).source /\ (note(f).domain \/ note(f).inside)
  <2>1. f.source # LastLost.source
    BY <1>3, <1>5, <1>8 DEF ResumedPast
  <2>2. f.domain = LastLost.domain \/ f \in inside
    BY <1>3, <1>6
  <2>3. /\ note(f).source = (f.source = LastLost.source)
        /\ note(f).domain = (f.domain = LastLost.domain)
        /\ note(f).inside = (f \in inside)
    OBVIOUS
  <2> HIDE DEF note
  <2> QED
    BY <2>1, <2>2, <2>3
<1> HIDE DEF note
<1>9. ASSUME NEW r \in forgotten' PROVE ~r.source /\ (r.domain \/ r.inside)
  BY <1>7, <1>8, <1>9 DEF CoverInv, ResumeCoversGap
<1> QED
  BY <1>7, <1>9 DEF CoverInv, GapCovers, ResumeCoversGap

LEMMA CoverStep == DeliveryInv /\ CoverInv /\ [DeliveryNext]_deliveryVars => CoverInv'
<1> SUFFICES ASSUME DeliveryInv, CoverInv, [DeliveryNext]_deliveryVars PROVE CoverInv'
  OBVIOUS
<1>0. AccountInv
  BY DEF DeliveryInv
<1>1. CASE UNCHANGED <<gap, lost, inside, forgotten>>
  BY <1>1 DEF CoverInv, GapCovers, ResumeCoversGap
<1>2. CASE gap' = None /\ (forgotten' = {} \/ forgotten' = forgotten)
  BY <1>2 DEF CoverInv, GapCovers, ResumeCoversGap
<1>3. CASE FrameArrives
  <2>1. PICK f \in Frames : f.n = arrived + 1 /\ SubmitFrame(f)
    BY <1>0, <1>3, NextFrame
  <2>2. SubmitFrame(f)
    BY <2>1
  <2>3. forgotten' = forgotten
    BY <2>2 DEF SubmitFrame, PassThrough, Suppress, StartGap, DeliverGranted, Enqueue, Submits,
       tallyVars
  <2>4. ResumeCoversGap'
    BY <2>3 DEF CoverInv, ResumeCoversGap
  <2>5. CASE Suppress(f)
    BY <1>0, <2>1, <2>4, <2>5, SuppressCovers DEF CoverInv
  <2>6. CASE StartGap(f)
    BY <1>0, <2>1, <2>4, <2>6, StartGapCovers DEF CoverInv
  <2>7. CASE PassThrough(f) \/ DeliverGranted(f) \/ Enqueue(f)
    BY <1>1, <2>7 DEF PassThrough, DeliverGranted, Enqueue, Submits, tallyVars, bufferVars
  <2> QED
    BY <2>2, <2>5, <2>6, <2>7 DEF SubmitFrame
<1>4. CASE RejectMalformed
  BY <1>1, <1>4 DEF RejectMalformed, DisableAndRelease
<1>5. CASE StoreLost
  BY <1>1, <1>5 DEF StoreLost, DisableAndRelease, bufferVars, tallyVars
<1>6. CASE TurnEnd \/ BeginTurn
  BY <1>2, <1>6 DEF TurnEnd, BeginTurn, tallyVars
<1>7. ASSUME NEW seq \in 0..SeqMax, NEW c \in ClientCommand, NEW through \in Cursors,
             ControlApplied(seq, c, through)
      PROVE  CoverInv'
  <2>1. CASE ~ResumesGap(c)
    BY <1>1, <1>7, <2>1 DEF ControlApplied
  <2>2. CASE ResumesGap(c)
    BY <1>0, <1>7, <2>2, ResumeCovers
  <2> QED
    BY <2>1, <2>2
<1>8. CASE StoreReady \/ ControlRepeated \/ ControlRefused \/ DrainOne \/ DrainStops
           \/ UNCHANGED deliveryVars
  BY <1>1, <1>8 DEF StoreReady, ControlRepeated, ControlRefused, DrainOne, DrainStops, deliveryVars,
     hostVars, bufferVars, tallyVars
<1> QED
  BY <1>3, <1>4, <1>5, <1>6, <1>7, <1>8 DEF DeliveryNext, FrameArrives

\* For every set of sources and domains: a resume the host accepts has told the
\* client of every frame its gap swallowed that is of the source of the gap's
\* end.  What it can leave out is of another source, and shares the domain or
\* lay inside the buffer from_buffer gave up.
THEOREM ResumeIsComplete == DeliverySpec => []ResumeCoversGap
<1>1. DeliveryInit => CoverInv
  BY DEF DeliveryInit, CoverInv, GapCovers, ResumeCoversGap
<1>2. CoverInv => ResumeCoversGap
  BY DEF CoverInv
<1> QED
  BY <1>1, <1>2, CoverStep, DeliveryInvariance, PTL DEF DeliverySpec
=============================================================================
