--------------------------- MODULE JobHostProofs ---------------------------
(***************************************************************************)
(* Proofs about JobHost, for any scripts and any limits: no job effect     *)
(* overtakes a handshake, each job request is in one place or answered,    *)
(* and the loop returns to an attached client only when all was told.      *)
(*                                                                         *)
(* The invariant is built in layers, each proved with the ones below it:   *)
(* types, the shape of the loop's control, the ids already received, then  *)
(* one layer per property.                                                 *)
(***************************************************************************)
EXTENDS JobHost, Integers, TLAPS

-----------------------------------------------------------------------------
(* Types *)

Word == {"none", "frame", "eof", "done", "complete", "hello", "turn", "start", "act", "wait",
         "control", "ack", "accepted", "end", "other", "forward", "effect", "refuse", "waited",
         "error", "summary", "suppressed", "core failed"}
Line == [k : Word, id : Nat]
Said == [k : Word, id : Nat \cup SUBSET Nat]
Letter == [t : {"frame", "line", "eof", "complete"}, k : Word, id : Nat]
Action == [t : {"job", "error"}, id : Nat, how : {"dispatch", "refuse"}]
Barrier == [failed : BOOLEAN, seen : BOOLEAN, started : BOOLEAN, ack : BOOLEAN,
            accept : BOOLEAN, active : BOOLEAN, deferred : Seq(Action),
            dispatch : Nat, refuse : Nat, errors : Nat,
            droppedJobs : SUBSET Nat, droppedErrors : SUBSET Nat]
Held == [failed : BOOLEAN, actions : Seq(Action), jobs : SUBSET Nat, errors : SUBSET Nat]
CoreState == [pc : {"run", "returned", "done"}, active : Nat, input : BOOLEAN,
              lines : Seq(Line), stop : {"no", "error", "detached"}]
JobState == [st : {"none", "live", "ending", "done"}, events : Nat, oldest : Nat,
             cursor : Nat, gap : Seq(Nat), told : Int, down : BOOLEAN]

TypeOK ==
    /\ script \in Seq(FrameKind) /\ sent \in Seq(FrameKind)
    /\ reader \in {"reading", "closed"}
    /\ outer \in Seq(Letter) /\ inner \in Seq(Line)
    /\ core \in CoreState /\ worker \in BOOLEAN
    /\ barrier \in Barrier /\ release \in Held
    /\ pc \in {"recv", "send", "flush", "sample", "poll", "exit"} /\ hand \in Line
    /\ inputOpen \in BOOLEAN /\ coreOpen \in BOOLEAN /\ attached \in BOOLEAN
    /\ jobs \in [Frame -> JobState]
    /\ waits \in Seq(Nat) /\ remaining \in Seq(Nat) /\ due \subseteq Nat
    /\ live \in BOOLEAN /\ more \in BOOLEAN /\ poll \subseteq Frame
    /\ log \in Seq(Said) /\ faults \in Nat

-----------------------------------------------------------------------------
(* The shape of the loop's control *)

Shape ==
    /\ barrier.failed => ~pending(barrier)
    /\ ~pending(barrier) => barrier.deferred = <<>> /\ barrier.droppedJobs = {}
    /\ pc # "flush" => release = NoRelease
    /\ pc = "flush" => ~pending(barrier) /\ release.failed = barrier.failed
    /\ pc # "poll" \/ poll # {} \/ pending(barrier) => remaining = <<>>

\* What is held back: the queue and the count of the barrier or, while it is
\* flushed, of its release.
Queue == IF pc = "flush" THEN release.actions ELSE barrier.deferred
Counted == IF pc = "flush" THEN release.jobs ELSE barrier.droppedJobs

-----------------------------------------------------------------------------
(* What has been received: ids below those of the frames still to come *)

InOuter(n, t) == n \in DOMAIN outer /\ outer[n].t = t

Known(i) ==
    /\ i \in DOMAIN sent
    /\ \A n \in DOMAIN outer : outer[n].t = "frame" => i < outer[n].id

\* Frames come in the order in which they were read.
InOrder ==
    /\ \A n \in DOMAIN outer : outer[n].t = "frame" =>
            outer[n].id \in DOMAIN sent /\ outer[n].k = sent[outer[n].id]
    /\ \A n, m \in DOMAIN outer :
            n < m /\ outer[n].t = "frame" /\ outer[m].t = "frame" => outer[n].id < outer[m].id

Answer == {"ack", "accepted"}
CoreWord == Answer \cup {"end", "other"}
OwnId == {"forward", "effect", "refuse", "waited"} \cup Answer

LogKnown ==
    /\ \A p \in DOMAIN log : log[p].k \in OwnId => Known(log[p].id)
    /\ \A p \in DOMAIN log : log[p].k = "summary" => \A i \in log[p].id : Known(i)

HeldKnown ==
    /\ \A n \in DOMAIN Queue : Known(Queue[n].id)
    /\ \A i \in Counted : Known(i)
    /\ \A n \in DOMAIN waits : Known(waits[n])
    /\ \A n \in DOMAIN remaining : Known(remaining[n])

WayKnown ==
    /\ pc = "send" /\ hand.k = "frame" => Known(hand.id)
    /\ \A n \in DOMAIN inner : inner[n].k = "frame" => Known(inner[n].id)
    /\ \A n \in DOMAIN core.lines : core.lines[n].k \in Answer => Known(core.lines[n].id)
    /\ \A n \in DOMAIN outer : outer[n].t = "line" /\ outer[n].k \in Answer => Known(outer[n].id)
    /\ \A n \in DOMAIN core.lines : core.lines[n].k \in CoreWord
    /\ \A n \in DOMAIN outer : outer[n].t = "line" => outer[n].k \in CoreWord

KnownIds == LogKnown /\ HeldKnown /\ WayKnown

-----------------------------------------------------------------------------
(* The way of a boundary to the core and of its answer back *)

Forwarded(i) == \E f \in DOMAIN log : log[f].k = "forward" /\ log[f].id = i

\* An answer is of the kind of its frame, and its frame was forwarded.
Fits(k, i) ==
    /\ k = "ack" => sent[i] = "hello" /\ Forwarded(i)
    /\ k = "accepted" => sent[i] = "turn" /\ Forwarded(i)

Boundary(i) == sent[i] \in {"hello", "turn"} => Forwarded(i)

Answering ==
    /\ \A p \in DOMAIN log : log[p].k = "forward" => sent[log[p].id] \in {"hello", "turn"}
    /\ \A p \in DOMAIN log : Fits(log[p].k, log[p].id)
    /\ pc = "send" /\ hand.k = "frame" => Boundary(hand.id)
    /\ \A n \in DOMAIN inner : inner[n].k = "frame" => Boundary(inner[n].id)
    /\ \A n \in DOMAIN core.lines : Fits(core.lines[n].k, core.lines[n].id)
    /\ \A n \in DOMAIN outer : outer[n].t = "line" => Fits(outer[n].k, outer[n].id)

LogBelow(j) == \A p \in DOMAIN log : log[p].k = "accepted" => log[p].id < j
OuterBelow(j) == \A n \in DOMAIN outer :
                    outer[n].t = "line" /\ outer[n].k = "accepted" => outer[n].id < j
LinesBelow(j) == \A n \in DOMAIN core.lines :
                    core.lines[n].k = "accepted" => core.lines[n].id < j
InnerBelow(j) == \A n \in DOMAIN inner : inner[n].k = "frame" => inner[n].id < j

\* Frames keep their order on the way to the core, and so do its acceptances
\* on the way back: no turn is accepted twice.
Pipeline ==
    /\ \A n \in DOMAIN outer : outer[n].t = "line" /\ outer[n].k = "accepted" => LogBelow(outer[n].id)
    /\ \A n, m \in DOMAIN outer :
            /\ n < m
            /\ outer[n].t = "line" /\ outer[n].k = "accepted"
            /\ outer[m].t = "line" /\ outer[m].k = "accepted"
            => outer[n].id < outer[m].id
    /\ \A n \in DOMAIN core.lines : core.lines[n].k = "accepted" =>
            n = 1 /\ LogBelow(core.lines[n].id) /\ OuterBelow(core.lines[n].id)
    /\ \A n \in DOMAIN inner : inner[n].k = "frame" =>
            LogBelow(inner[n].id) /\ OuterBelow(inner[n].id) /\ LinesBelow(inner[n].id)
    /\ \A n, m \in DOMAIN inner :
            n < m /\ inner[n].k = "frame" /\ inner[m].k = "frame" => inner[n].id < inner[m].id
    /\ pc = "send" /\ hand.k = "frame" =>
            LogBelow(hand.id) /\ OuterBelow(hand.id) /\ LinesBelow(hand.id) /\ InnerBelow(hand.id)

Answered(f) == \E q \in DOMAIN log : f < q /\ log[q].k \in Answer /\ log[q].id = log[f].id
Asked(f, kind) == f \in DOMAIN log /\ log[f].k = "forward" /\ sent[log[f].id] = kind

\* While nothing has failed, what was forwarded and not answered is what the
\* gates wait for, one hello and one turn at most.
Gates ==
    /\ \A f, g \in DOMAIN log : Asked(f, "hello") /\ Asked(g, "hello") => f = g
    /\ \A f \in DOMAIN log : Asked(f, "hello") => barrier.seen
    /\ ~barrier.failed =>
        /\ \A f \in DOMAIN log : Asked(f, "hello") => Answered(f) \/ barrier.ack
        /\ \A f \in DOMAIN log : Asked(f, "turn") => Answered(f) \/ barrier.accept
        /\ \A f, g \in DOMAIN log :
                Asked(f, "turn") /\ Asked(g, "turn") => f = g \/ Answered(f) \/ Answered(g)

EffectsBelow(j) == \A p \in DOMAIN log : log[p].k = "effect" => log[p].id < j

\* What is deferred will take effect after all that has.
EffectsInOrder ==
    /\ \A n \in DOMAIN Queue : EffectsBelow(Queue[n].id)
    /\ \A n, m \in DOMAIN Queue : n < m => Queue[n].id < Queue[m].id

-----------------------------------------------------------------------------
(* The places of a job frame *)

AnsweredIn(L, i) == \E p \in DOMAIN L : Answers(L[p], i)
AnsweredAtMostOnce(L, i) == \A p, q \in DOMAIN L : Answers(L[p], i) /\ Answers(L[q], i) => p = q
QueuedIn(Q, i) == \E n \in DOMAIN Q : Holds(Q[n], i)
QueuedAtMostOnce(Q, i) == \A p, q \in DOMAIN Q : Holds(Q[p], i) /\ Holds(Q[q], i) => p = q
InSeq(W, i) == \E n \in DOMAIN W : W[n] = i
AtMostOnceInSeq(W, i) == \A p, q \in DOMAIN W : W[p] = i /\ W[q] = i => p = q

\* Frame i is in one place only, of the log, the queue, the count, and the
\* waits looked at and not looked at.
Single(L, Q, C, W, M, i) ==
    /\ AnsweredAtMostOnce(L, i) /\ QueuedAtMostOnce(Q, i)
    /\ AtMostOnceInSeq(W, i) /\ AtMostOnceInSeq(M, i)
    /\ AnsweredIn(L, i) => ~QueuedIn(Q, i) /\ i \notin C /\ ~InSeq(W, i) /\ ~InSeq(M, i)
    /\ QueuedIn(Q, i) => i \notin C /\ ~InSeq(W, i) /\ ~InSeq(M, i)
    /\ i \in C => ~InSeq(W, i) /\ ~InSeq(M, i)
    /\ InSeq(W, i) => ~InSeq(M, i)

Present(L, Q, C, W, M, i) ==
    AnsweredIn(L, i) \/ QueuedIn(Q, i) \/ i \in C \/ InSeq(W, i) \/ InSeq(M, i)

SingleInv == \A i \in Nat : Single(log, Queue, Counted, waits, remaining, i)

PresentInv == attached => \A i \in JobFrame \cap Received :
                              Present(log, Queue, Counted, waits, remaining, i)

-----------------------------------------------------------------------------
(* What must have been told before the return *)

\* A job's announced events are the ones its cursor has passed.
JobTold(j) ==
    /\ j.told = j.cursor /\ j.cursor <= j.events /\ j.oldest <= j.events
    /\ j.gap = <<>> \/ (Len(j.gap) = 2 /\ j.gap[1] < j.cursor)
    /\ j.st = "none" => j.events = 0

Told == \A i \in Frame : JobTold(jobs[i])

Caught(i) == jobs[i].st = "none" \/ jobs[i].told = jobs[i].events \/ jobs[i].down

\* With no job live at the sample, what was polled since is told.
Round ==
    pc = "poll" /\ ~live =>
        /\ \A i \in Frame : jobs[i].st \in {"none", "done"}
        /\ ~pending(barrier) /\ ~more => \A i \in Frame \ poll : Caught(i)

\* A core that is closed has returned, and holds no frame back.
Closed ==
    /\ core.pc # "run" => core.lines = <<>>
    /\ ~coreOpen => core.pc # "run"
    /\ ~coreOpen /\ pc # "send" => ~pending(barrier)

\* The end of the input passes as the last message of the reader.
EofSent == ~core.input \/ \E n \in DOMAIN inner : inner[n].k = "eof"
Ending ==
    /\ (\E n \in DOMAIN outer : outer[n].t = "eof") => reader = "closed"
    /\ \A n, m \in DOMAIN outer : outer[n].t = "eof" /\ n < m => outer[m].t \notin {"frame", "eof"}
    /\ (pc = "send" /\ hand.k = "eof") \/ EofSent =>
            reader = "closed" /\ \A n \in DOMAIN outer : outer[n].t \notin {"frame", "eof"}
    /\ EofSent => pc # "send"
    /\ core.pc # "run" /\ core.stop = "no" => ~core.input

\* CoreComplete is the core's last message.
LinesFirst ==
    /\ (\E n \in DOMAIN outer : outer[n].t = "complete") => core.pc = "done"
    /\ \A n, m \in DOMAIN outer : outer[n].t = "complete" /\ n < m => outer[m].t # "line"
    /\ ~coreOpen /\ core.stop = "no" =>
            core.pc = "done" /\ \A n \in DOMAIN outer : outer[n].t # "line"

Returned ==
    pc = "exit" /\ attached =>
        ~coreOpen /\ waits = <<>> /\ \A i \in Frame : jobs[i].st \in {"none", "done"} /\ Caught(i)


-----------------------------------------------------------------------------
(* Sequences *)

\* Append adds one element at the end.
LEMMA Grows ==
    ASSUME NEW S, NEW s \in Seq(S), NEW e \in S
    PROVE  /\ Append(s, e) \in Seq(S)
           /\ Len(s) \in Nat
           /\ Len(Append(s, e)) = Len(s) + 1
           /\ DOMAIN s = 1..Len(s)
           /\ DOMAIN Append(s, e) = 1..(Len(s) + 1)
           /\ \A n \in 1..Len(s) : Append(s, e)[n] = s[n]
           /\ Append(s, e)[Len(s) + 1] = e
           /\ \A n \in 1..Len(s) : s[n] \in S
  OBVIOUS

\* Tail drops the first element and moves the others up.
LEMMA Shrinks ==
    ASSUME NEW S, NEW s \in Seq(S), s # <<>>
    PROVE  /\ Tail(s) \in Seq(S)
           /\ Head(s) \in S
           /\ Head(s) = s[1]
           /\ Len(s) \in Nat /\ Len(s) >= 1
           /\ DOMAIN s = 1..Len(s)
           /\ DOMAIN Tail(s) = 1..(Len(s) - 1)
           /\ \A n \in 1..(Len(s) - 1) : Tail(s)[n] = s[n + 1]
           /\ \A n \in 1..Len(s) : s[n] \in S
  OBVIOUS

\* The empty sequence has no element.
LEMMA NoElement ==
    ASSUME NEW S
    PROVE  /\ <<>> \in Seq(S) /\ DOMAIN <<>> = {} /\ Len(<<>>) = 0
  OBVIOUS

\* A sequence of one element, and of two.
LEMMA Few ==
    ASSUME NEW S, NEW a \in S, NEW b \in S
    PROVE  /\ <<a>> \in Seq(S) /\ DOMAIN <<a>> = {1} /\ <<a>>[1] = a
           /\ <<a, b>> \in Seq(S) /\ DOMAIN <<a, b>> = {1, 2}
           /\ <<a, b>>[1] = a /\ <<a, b>>[2] = b
  OBVIOUS

\* Every element of an extended sequence is an old one or the new one, and
\* every element of a shortened one is an old one.
LEMMA Elements ==
    ASSUME NEW S, NEW s \in Seq(S), NEW e \in S
    PROVE  \A n \in DOMAIN Append(s, e) :
                \/ n \in DOMAIN s /\ Append(s, e)[n] = s[n]
                \/ n = Len(s) + 1 /\ Append(s, e)[n] = e
  <1>1. /\ Len(s) \in Nat /\ DOMAIN s = 1..Len(s) /\ DOMAIN Append(s, e) = 1..(Len(s) + 1)
        /\ \A n \in 1..Len(s) : Append(s, e)[n] = s[n]
        /\ Append(s, e)[Len(s) + 1] = e
    BY Grows
  <1>2. \A n \in 1..(Len(s) + 1) : n \in 1..Len(s) \/ n = Len(s) + 1
    BY <1>1
  <1> QED  BY <1>1, <1>2

LEMMA Rest ==
    ASSUME NEW S, NEW s \in Seq(S), s # <<>>
    PROVE  /\ 1 \in DOMAIN s
           /\ \A n \in DOMAIN Tail(s) : n + 1 \in DOMAIN s /\ Tail(s)[n] = s[n + 1]
  <1>1. /\ Len(s) \in Nat /\ Len(s) >= 1 /\ DOMAIN s = 1..Len(s)
        /\ DOMAIN Tail(s) = 1..(Len(s) - 1)
        /\ \A n \in 1..(Len(s) - 1) : Tail(s)[n] = s[n + 1]
    BY Shrinks
  <1>2. 1 \in 1..Len(s) /\ \A n \in 1..(Len(s) - 1) : n + 1 \in 1..Len(s)
    BY <1>1
  <1> QED  BY <1>1, <1>2

-----------------------------------------------------------------------------
(* Type correctness *)

\* A field of the barrier may be set to any value of its type.
LEMMA BarrierFields ==
    ASSUME NEW b \in Barrier
    PROVE  /\ [b EXCEPT !.failed = TRUE] \in Barrier /\ [b EXCEPT !.seen = TRUE] \in Barrier
           /\ [b EXCEPT !.started = TRUE] \in Barrier
           /\ \A v \in BOOLEAN : /\ [b EXCEPT !.ack = v] \in Barrier
                                 /\ [b EXCEPT !.accept = v] \in Barrier
                                 /\ [b EXCEPT !.active = v] \in Barrier
           /\ \A q \in Seq(Action) : [b EXCEPT !.deferred = q] \in Barrier
           /\ \A n \in Nat : /\ [b EXCEPT !.dispatch = n] \in Barrier
                             /\ [b EXCEPT !.refuse = n] \in Barrier
                             /\ [b EXCEPT !.errors = n] \in Barrier
           /\ \A A \in SUBSET Nat : /\ [b EXCEPT !.droppedJobs = A] \in Barrier
                                    /\ [b EXCEPT !.droppedErrors = A] \in Barrier
  BY DEF Barrier

\* The barrier's operations keep its type.
LEMMA BarrierTypes ==
    ASSUME NEW b \in Barrier, NEW i \in Nat
    PROVE  /\ observe_hello(b, i) \in Barrier
           /\ observe_turn_start(b, i) \in Barrier
           /\ observe_turn_end(b) \in Barrier
           /\ \A fits : defer(b, i, fits) \in Barrier
           /\ fail(b) \in Barrier
           /\ acknowledge_hello(b) \in Barrier
           /\ mark_turn_accepted(b) \in Barrier
  <1>1. /\ Job(i, "dispatch") \in Action /\ Job(i, "refuse") \in Action
        /\ ProtocolError(i) \in Action
    BY DEF Job, ProtocolError, Action
  <1>2. /\ Append(b.deferred, Job(i, "dispatch")) \in Seq(Action)
        /\ Append(b.deferred, Job(i, "refuse")) \in Seq(Action)
        /\ Append(b.deferred, ProtocolError(i)) \in Seq(Action)
    BY <1>1 DEF Barrier
  <1>3. /\ b.dispatch + 1 \in Nat /\ b.refuse + 1 \in Nat /\ b.errors + 1 \in Nat
        /\ b.droppedJobs \cup {i} \in SUBSET Nat /\ b.droppedErrors \cup {i} \in SUBSET Nat
    BY DEF Barrier
  <1>4. defer_protocol_error(b, i) \in Barrier
    <2> DEFINE c == [b EXCEPT !.errors = b.errors + 1]
    <2>1. c \in Barrier
      BY <1>3, BarrierFields
    <2>2. [c EXCEPT !.deferred = Append(b.deferred, ProtocolError(i))] \in Barrier
      <3> HIDE DEF c
      <3> QED  BY <1>2, <2>1, BarrierFields
    <2>3. c.deferred = b.deferred
      BY DEF Barrier
    <2>4. [b EXCEPT !.droppedErrors = @ \cup {i}] \in Barrier
      BY <1>3, BarrierFields
    <2>5. CASE b.errors < ErrorLimit
      <3>1. defer_protocol_error(b, i) = [c EXCEPT !.deferred = Append(@, ProtocolError(i))]
        BY <2>5 DEF defer_protocol_error
      <3> QED  BY <2>2, <2>3, <3>1
    <2> QED  BY <2>4, <2>5 DEF defer_protocol_error
  <1>5. observe_hello(b, i) \in Barrier
    <2> DEFINE c == [b EXCEPT !.seen = TRUE]
    <2>1. c \in Barrier
      BY BarrierFields
    <2>2. [c EXCEPT !.ack = TRUE] \in Barrier
      <3> HIDE DEF c
      <3> QED  BY <2>1, BarrierFields
    <2> QED  BY <1>4, <2>2 DEF observe_hello
  <1>6. observe_turn_start(b, i) \in Barrier
    <2> DEFINE c == [b EXCEPT !.started = TRUE]
    <2>1. c \in Barrier
      BY BarrierFields
    <2>2. [c EXCEPT !.accept = TRUE] \in Barrier
      <3> HIDE DEF c
      <3> QED  BY <2>1, BarrierFields
    <2> QED  BY <1>4, <2>2 DEF observe_turn_start
  <1>7. \A fits : defer(b, i, fits) \in Barrier
    <2> SUFFICES ASSUME NEW fits PROVE defer(b, i, fits) \in Barrier
      OBVIOUS
    <2> DEFINE d == b.dispatch < DispatchLimit /\ (b.dispatch = 0 \/ "dispatch" \in fits)
               r == /\ Len(b.deferred) < DispatchLimit + RefuseLimit
                    /\ b.refuse < RefuseLimit /\ "refuse" \in fits
               x == [b EXCEPT !.dispatch = b.dispatch + 1]
               y == [b EXCEPT !.refuse = b.refuse + 1]
    <2>1. x \in Barrier /\ y \in Barrier
      BY <1>3, BarrierFields
    <2>2. [x EXCEPT !.deferred = Append(b.deferred, Job(i, "dispatch"))] \in Barrier
      <3> HIDE DEF x
      <3> QED  BY <1>2, <2>1, BarrierFields
    <2>3. [y EXCEPT !.deferred = Append(b.deferred, Job(i, "refuse"))] \in Barrier
      <3> HIDE DEF y
      <3> QED  BY <1>2, <2>1, BarrierFields
    <2>4. x.deferred = b.deferred /\ y.deferred = b.deferred
      BY DEF Barrier
    <2>5. CASE d
      <3>1. defer(b, i, fits) = [x EXCEPT !.deferred = Append(@, Job(i, "dispatch"))]
        BY <2>5 DEF defer
      <3> QED  BY <2>2, <2>4, <3>1
    <2>6. CASE ~d /\ r
      <3>1. defer(b, i, fits) = [y EXCEPT !.deferred = Append(@, Job(i, "refuse"))]
        BY <2>6 DEF defer
      <3> QED  BY <2>3, <2>4, <3>1
    <2>7. CASE ~d /\ ~r
      <3>1. defer(b, i, fits) = [b EXCEPT !.droppedJobs = b.droppedJobs \cup {i}]
        BY <2>7 DEF defer
      <3> QED  BY <1>3, <3>1, BarrierFields
    <2> QED  BY <2>5, <2>6, <2>7
  <1>8. fail(b) \in Barrier
    <2> DEFINE c == [b EXCEPT !.failed = TRUE]
               d == [c EXCEPT !.ack = FALSE]
    <2>1. c \in Barrier
      BY BarrierFields
    <2>2. d \in Barrier
      <3> HIDE DEF c
      <3> QED  BY <2>1, BarrierFields
    <2>3. [d EXCEPT !.accept = FALSE] \in Barrier
      <3> HIDE DEF d
      <3> QED  BY <2>2, BarrierFields
    <2> QED  BY <2>3 DEF fail
  <1>9. mark_turn_accepted(b) \in Barrier
    <2> DEFINE c == [b EXCEPT !.accept = FALSE]
    <2>1. c \in Barrier
      BY BarrierFields
    <2>2. [c EXCEPT !.active = TRUE] \in Barrier
      <3> HIDE DEF c
      <3> QED  BY <2>1, BarrierFields
    <2> QED  BY <2>2 DEF mark_turn_accepted
  <1>10. observe_turn_end(b) \in Barrier /\ acknowledge_hello(b) \in Barrier
    BY BarrierFields DEF observe_turn_end, acknowledge_hello
  <1> QED  BY <1>5, <1>6, <1>7, <1>8, <1>9, <1>10

\* Draining the barrier keeps types.
LEMMA DrainTypes ==
    ASSUME NEW b \in Barrier
    PROVE  drain_release(b) \in Barrier /\ Release(b) \in Held
  <1> DEFINE b1 == [b EXCEPT !.deferred = <<>>]
             b2 == [b1 EXCEPT !.dispatch = 0]
             b3 == [b2 EXCEPT !.refuse = 0]
             b4 == [b3 EXCEPT !.errors = 0]
             b5 == [b4 EXCEPT !.droppedJobs = {}]
             b6 == [b5 EXCEPT !.droppedErrors = {}]
  <1>1. b1 \in Barrier
    BY NoElement, BarrierFields
  <1>2. b2 \in Barrier
    <2> HIDE DEF b1
    <2> QED  BY <1>1, BarrierFields
  <1>3. b3 \in Barrier
    <2> HIDE DEF b2
    <2> QED  BY <1>2, BarrierFields
  <1>4. b4 \in Barrier
    <2> HIDE DEF b3
    <2> QED  BY <1>3, BarrierFields
  <1>5. b5 \in Barrier
    <2> HIDE DEF b4
    <2> QED  BY <1>4, BarrierFields
  <1>6. b6 \in Barrier
    <2> HIDE DEF b5
    <2> QED  BY <1>5, BarrierFields
  <1>7. drain_release(b) = b6
    BY DEF drain_release
  <1>8. Release(b) \in Held
    BY DEF Release, Held, Barrier
  <1> QED  BY <1>6, <1>7, <1>8

\* Settle keeps types.
LEMMA SettleTypes ==
    ASSUME release \in Held, NEW b \in Barrier, Settle(b)
    PROVE  /\ barrier' \in Barrier /\ release' \in Held /\ hand' \in Line
           /\ pc' \in {"recv", "send", "flush", "sample", "poll", "exit"}
  <1>1. drain_release(b) \in Barrier /\ Release(b) \in Held
    BY DrainTypes
  <1>2. hand' \in Line
    BY DEF Settle, Entry, Line, Word
  <1> QED  BY <1>1, <1>2 DEF Settle

\* Deliver keeps types.
LEMMA DeliverTypes ==
    ASSUME log \in Seq(Said), attached \in BOOLEAN, faults \in Nat, NEW e \in Said, Deliver(e)
    PROVE  log' \in Seq(Said) /\ attached' \in BOOLEAN /\ faults' \in Nat
  <1>1. Append(log, e) \in Seq(Said)
    BY Grows
  <1>2. log' \in Seq(Said)
    BY <1>1 DEF Deliver
  <1>3. faults' \in Nat
    BY DEF Deliver
  <1>4. attached' \in BOOLEAN
    BY DEF Deliver
  <1> QED  BY <1>2, <1>3, <1>4

\* dispatch_job_frame keeps types.
LEMMA DispatchTypes ==
    ASSUME TypeOK, NEW i \in Nat, dispatch_job_frame(i)
    PROVE  /\ log' \in Seq(Said) /\ attached' \in BOOLEAN /\ faults' \in Nat
           /\ jobs' \in [Frame -> JobState]
           /\ waits' \in Seq(Nat) /\ remaining' \in Seq(Nat) /\ due' \subseteq Nat
  <1>1. Entry("effect", i) \in Said /\ Entry("refuse", i) \in Said
    BY DEF Entry, Said, Word
  <1>2. CASE /\ sent[i] = "start" /\ Cardinality(Registered(jobs)) < MaxJobs
             /\ jobs' = [jobs EXCEPT ![i].st = "live"]
             /\ Deliver(Entry("effect", i)) /\ UNCHANGED waitVars
    <2>1. jobs' \in [Frame -> JobState]
      BY <1>2, ZenonT(40) DEF TypeOK, JobState
    <2> QED  BY <1>1, <1>2, <2>1, DeliverTypes DEF TypeOK, waitVars
  <1>3. CASE /\ sent[i] = "act" /\ Registered(jobs) # {}
             /\ Deliver(Entry("effect", i)) /\ UNCHANGED jobVars
    BY <1>1, <1>3, DeliverTypes DEF TypeOK, waitVars, jobVars
  <1>4. CASE /\ sent[i] = "wait" /\ Registered(jobs) # {} /\ Len(waits) < MaxWaits
             /\ waits' = Append(waits, i)
             /\ UNCHANGED <<jobs, remaining, due, writeVars>>
    BY <1>4 DEF TypeOK, writeVars
  <1>5. CASE /\ Deliver(Entry("refuse", i)) /\ UNCHANGED jobVars
    BY <1>1, <1>5, DeliverTypes DEF TypeOK, waitVars, jobVars
  <1> QED  BY <1>2, <1>3, <1>4, <1>5 DEF dispatch_job_frame, handle_job_frame

\* The reader's steps keep types.
LEMMA ReaderTypes ==
    ASSUME TypeOK, Reader
    PROVE  TypeOK'
  <1>1. CASE ReadFrame
    <2> DEFINE k == script[Len(sent) + 1]
               e == Message("frame", Entry(k, Len(sent) + 1))
    <2>1. Len(sent) + 1 \in 1..Len(script) /\ Len(sent) + 1 \in Nat
      BY <1>1 DEF ReadFrame, TypeOK
    <2>2. k \in FrameKind
      BY <2>1 DEF TypeOK
    <2>3. sent' = Append(sent, k) /\ sent' \in Seq(FrameKind) /\ sent'[Len(sent) + 1] = k
      BY <1>1, <2>2 DEF ReadFrame, TypeOK
    <2>4. e \in Letter
      BY <2>1, <2>2 DEF Message, Entry, Letter, FrameKind, Word
    <2>5. outer' = Append(outer, e)
      BY <1>1, <2>3 DEF ReadFrame
    <2>6. outer' \in Seq(Letter)
      <3> HIDE DEF e
      <3> QED  BY <2>4, <2>5 DEF TypeOK
    <2> QED  BY <1>1, <2>3, <2>6 DEF ReadFrame, TypeOK, coreVars, barrierVars, loopVars, pollVars,
                                     jobVars, waitVars, writeVars
  <1>2. CASE ReadEof
    <2> DEFINE e == Message("eof", Entry("eof", 0))
    <2>1. e \in Letter
      BY DEF Message, Entry, Letter, Word
    <2>2. outer' = Append(outer, e)
      BY <1>2 DEF ReadEof
    <2>3. outer' \in Seq(Letter)
      <3> HIDE DEF e
      <3> QED  BY <2>1, <2>2 DEF TypeOK
    <2> QED  BY <1>2, <2>3 DEF ReadEof, TypeOK, coreVars, barrierVars, loopVars, pollVars,
                               jobVars, waitVars, writeVars
  <1> QED  BY <1>1, <1>2 DEF Reader

\* What a step of the core, or of its worker, leaves alone keeps its type.
LEMMA CoreKeeps ==
    ASSUME TypeOK, CoreUnchanged, core' \in CoreState, worker' \in BOOLEAN, inner' \in Seq(Line),
           faults' \in Nat
    PROVE  TypeOK'
  BY DEF CoreUnchanged, TypeOK, readerVars, barrierVars, loopVars, pollVars, jobVars, waitVars

\* A field of the core may be set to any value of its type.
LEMMA CoreFields ==
    ASSUME NEW c \in CoreState
    PROVE  /\ \A l \in Seq(Line) : [c EXCEPT !.lines = l] \in CoreState
           /\ \A n \in Nat : [c EXCEPT !.active = n] \in CoreState
           /\ \A s \in {"no", "error", "detached"} : [c EXCEPT !.stop = s] \in CoreState
           /\ [c EXCEPT !.input = FALSE] \in CoreState
           /\ \A p \in {"run", "returned", "done"} : [c EXCEPT !.pc = p] \in CoreState
  BY DEF CoreState

\* What the core says is a sequence of lines.
LEMMA LinesTypes ==
    ASSUME TypeOK, NEW i \in Nat, NEW k \in Word, NEW m \in Word
    PROVE  /\ Lines(<<Entry(k, i)>>) \in Seq(Line)
           /\ Lines(<<Entry(k, i), Entry(m, i)>>) \in Seq(Line)
  <1>1. Entry(k, i) \in Line /\ Entry(m, i) \in Line
    BY DEF Entry, Line
  <1>2. <<Entry(k, i)>> \in Seq(Line) /\ <<Entry(k, i), Entry(m, i)>> \in Seq(Line)
    BY <1>1, Few
  <1>3. <<>> \in Seq(Line)
    BY NoElement
  <1> QED  BY <1>2, <1>3 DEF Lines

\* The core's answer to a frame, by the lines it says: an acknowledgement, an
\* acceptance with or without the end of its turn, another line or none.
LEMMA CoreFrameCases ==
    ASSUME TypeOK, CoreFrame
    PROVE  LET i == Head(inner).id IN
           /\ inner # <<>> /\ Head(inner) \in Line /\ inner' = Tail(inner) /\ core.pc = "run"
           /\ Head(inner).k = "frame" /\ core.lines = <<>> /\ core' \in CoreState
           /\ faults' \in Nat /\ worker' \in BOOLEAN
           /\ core'.pc = core.pc /\ core'.input = core.input
           /\ core.stop # "no" => core'.stop # "no"
           /\ \/ core'.lines = <<>>
              \/ sent[i] = "hello" /\ core'.lines = <<Entry("ack", i)>>
              \/ sent[i] = "turn" /\ core'.lines = <<Entry("accepted", i)>>
              \/ sent[i] = "turn" /\ core'.lines = <<Entry("accepted", i), Entry("end", i)>>
              \/ core'.lines = <<Entry("other", i)>>
           /\ CoreUnchanged
  <1> DEFINE i == Head(inner).id
  <1>1. /\ inner # <<>> /\ Head(inner) \in Line /\ inner' = Tail(inner) /\ core.pc = "run"
        /\ Head(inner).k = "frame" /\ core.lines = <<>> /\ CoreUnchanged /\ core \in CoreState
        /\ i \in Nat
    <2>1. inner # <<>> /\ inner \in Seq(Line)
      BY DEF CoreFrame, TypeOK
    <2>2. Head(inner) \in Line
      BY <2>1, Shrinks
    <2>3. i \in Nat
      BY <2>2 DEF Line
    <2> QED  BY <2>1, <2>2, <2>3 DEF CoreFrame, CoreIdle, TypeOK
  <1>2. PICK a \in CoreState : a = core
    BY <1>1
  <1> DEFINE said(ls) == [a EXCEPT !.lines = Lines(ls)]
  <1>3. /\ \A k \in Word : Lines(<<Entry(k, i)>>) \in Seq(Line)
        /\ \A k \in Word : \A m \in Word : Lines(<<Entry(k, i), Entry(m, i)>>) \in Seq(Line)
    BY <1>1, LinesTypes
  <1>4. /\ "ack" \in Word /\ "accepted" \in Word /\ "end" \in Word /\ "other" \in Word
    BY DEF Word
  <1>5. \A l \in Seq(Line) : /\ [a EXCEPT !.lines = l] \in CoreState
                             /\ [a EXCEPT !.lines = l].lines = l
                             /\ [a EXCEPT !.lines = l].pc = a.pc
                             /\ [a EXCEPT !.lines = l].stop = a.stop
                             /\ [a EXCEPT !.lines = l].input = a.input
    BY CoreFields, ZenonT(40) DEF CoreState
  <1>6. \A c \in CoreState : \A n \in Nat :
            /\ [c EXCEPT !.active = n] \in CoreState /\ [c EXCEPT !.active = n].lines = c.lines
            /\ [c EXCEPT !.active = n].pc = c.pc /\ [c EXCEPT !.active = n].stop = c.stop
            /\ [c EXCEPT !.active = n].input = c.input
    BY CoreFields, ZenonT(40) DEF CoreState
  <1>7. \A c \in CoreState : \A n \in {"error", "detached"} :
            /\ [c EXCEPT !.stop = n] \in CoreState /\ [c EXCEPT !.stop = n].lines = c.lines
            /\ [c EXCEPT !.stop = n].pc = c.pc /\ [c EXCEPT !.stop = n].stop = n
            /\ [c EXCEPT !.stop = n].input = c.input
    BY CoreFields, ZenonT(40) DEF CoreState
  <1>8. \/ /\ sent[i] = "hello" /\ core' = said(<<Entry("ack", i)>>)
           /\ UNCHANGED <<worker, faults>>
        \/ /\ sent[i] = "turn" /\ core' = said(<<Entry("accepted", i), Entry("end", i)>>)
           /\ UNCHANGED <<worker, faults>>
        \/ /\ sent[i] = "turn"
           /\ core' = [said(<<Entry("accepted", i)>>) EXCEPT !.active = i]
           /\ worker' = TRUE /\ UNCHANGED faults
        \/ /\ sent[i] = "turn"
           /\ core' = [said(<<Entry("accepted", i)>>) EXCEPT !.stop = "error"]
           /\ faults' = faults + 1 /\ UNCHANGED worker
        \/ core' = said(<<Entry("other", i)>>) /\ UNCHANGED <<worker, faults>>
        \/ core' = [a EXCEPT !.stop = "detached"] /\ faults' = faults + 1 /\ UNCHANGED worker
    BY <1>2 DEF CoreFrame
  <1>9. worker' \in BOOLEAN /\ faults' \in Nat
    <2>1. worker' \in BOOLEAN
      BY <1>8 DEF TypeOK
    <2>2. faults' \in Nat
      BY <1>8 DEF TypeOK
    <2> QED  BY <2>1, <2>2
  <1> DEFINE Good(c) == /\ c \in CoreState /\ c.pc = a.pc /\ c.input = a.input
                        /\ a.stop # "no" => c.stop # "no"
             Says(c, l) == c.lines = <<>> \/ c.lines = l
  <1>10. \A l : Lines(l) = <<>> \/ Lines(l) = l
    BY DEF Lines
  <1>11. \A l : Lines(l) \in Seq(Line) => Good(said(l)) /\ Says(said(l), l)
    BY <1>5, <1>10
  <1>12. CASE core' = [a EXCEPT !.stop = "detached"]
    BY <1>1, <1>2, <1>7, <1>9, <1>12, ZenonT(40)
  <1>13. \A k \in Word : Good(said(<<Entry(k, i)>>)) /\ Says(said(<<Entry(k, i)>>), <<Entry(k, i)>>)
    BY <1>3, <1>11
  <1>14. LET l == <<Entry("accepted", i), Entry("end", i)>>
         IN  Good(said(l)) /\ Says(said(l), l)
    BY <1>3, <1>4, <1>11
  <1> HIDE DEF said
  <1>15. CASE sent[i] = "hello" /\ core' = said(<<Entry("ack", i)>>)
    BY <1>1, <1>2, <1>4, <1>9, <1>13, <1>15
  <1>16. CASE sent[i] = "turn" /\ core' = said(<<Entry("accepted", i), Entry("end", i)>>)
    BY <1>1, <1>2, <1>9, <1>14, <1>16
  <1>17. CASE sent[i] = "turn" /\ core' = [said(<<Entry("accepted", i)>>) EXCEPT !.active = i]
    <2>1. Good(said(<<Entry("accepted", i)>>)) /\ Says(said(<<Entry("accepted", i)>>), <<Entry("accepted", i)>>)
      BY <1>4, <1>13
    <2>2. Good(core') /\ Says(core', <<Entry("accepted", i)>>)
      BY <1>1, <1>6, <1>17, <2>1
    <2> QED  BY <1>1, <1>2, <1>9, <1>17, <2>2
  <1>18. CASE sent[i] = "turn" /\ core' = [said(<<Entry("accepted", i)>>) EXCEPT !.stop = "error"]
    <2>1. Good(said(<<Entry("accepted", i)>>)) /\ Says(said(<<Entry("accepted", i)>>), <<Entry("accepted", i)>>)
      BY <1>4, <1>13
    <2>2. Good(core') /\ Says(core', <<Entry("accepted", i)>>)
      BY <1>1, <1>7, <1>18, <2>1
    <2> QED  BY <1>1, <1>2, <1>9, <1>18, <2>2
  <1>19. CASE core' = said(<<Entry("other", i)>>)
    BY <1>1, <1>2, <1>4, <1>9, <1>13, <1>19
  <1> QED  BY <1>8, <1>12, <1>15, <1>16, <1>17, <1>18, <1>19

\* The steps of the core and of its worker keep types.
LEMMA CoreTypes ==
    ASSUME TypeOK, Core \/ Worker
    PROVE  TypeOK'
  <1>0. /\ core \in CoreState /\ worker \in BOOLEAN /\ faults \in Nat
        /\ inner \in Seq(Line) /\ outer \in Seq(Letter) /\ core.active \in Nat
        /\ core.lines \in Seq(Line)
    BY DEF TypeOK, CoreState
  <1>1. CASE CoreFrame
    <2>1. /\ core' \in CoreState /\ worker' \in BOOLEAN /\ faults' \in Nat /\ CoreUnchanged
          /\ inner' = Tail(inner) /\ inner # <<>>
      BY <1>1, CoreFrameCases
    <2>2. inner' \in Seq(Line)
      BY <1>0, <2>1, Shrinks
    <2> QED  BY <2>1, <2>2, CoreKeeps
  <1>2. CASE CoreEof
    <2>1. inner' \in Seq(Line)
      BY <1>0, <1>2, Shrinks DEF CoreEof
    <2>2. core' \in CoreState
      BY <1>0, <1>2, CoreFields DEF CoreEof
    <2> QED  BY <1>0, <1>2, <2>1, <2>2, CoreKeeps DEF CoreEof
  <1>3. CASE CoreTurnEnd
    <2>1. inner' \in Seq(Line)
      BY <1>0, <1>3, Shrinks DEF CoreTurnEnd
    <2>2. Lines(<<Entry("end", core.active)>>) \in Seq(Line)
      <3>1. "end" \in Word
        BY DEF Word
      <3> QED  BY <1>0, <3>1, LinesTypes
    <2> DEFINE c == [core EXCEPT !.lines = Lines(<<Entry("end", core.active)>>)]
    <2>3. c \in CoreState
      BY <1>0, <2>2, CoreFields
    <2>4. [c EXCEPT !.active = 0] \in CoreState
      <3> HIDE DEF c
      <3> QED  BY <2>3, CoreFields
    <2>5. core' \in CoreState
      BY <1>3, <2>4 DEF CoreTurnEnd
    <2> QED  BY <1>0, <1>3, <2>1, <2>5, CoreKeeps DEF CoreTurnEnd
  <1>4. CASE CoreReturn
    <2>1. core' \in CoreState
      BY <1>0, <1>4, CoreFields DEF CoreReturn
    <2>2. inner' \in Seq(Line)
      BY <1>4, NoElement DEF CoreReturn
    <2> QED  BY <1>0, <1>4, <2>1, <2>2, CoreKeeps DEF CoreReturn
  <1>5. CASE Worker
    <2>1. Entry("done", core.active) \in Line
      BY <1>0 DEF Entry, Line, Word
    <2>2. inner' \in Seq(Line)
      BY <1>0, <1>5, <2>1, Grows DEF Worker
    <2> QED  BY <1>0, <1>5, <2>2, CoreKeeps DEF Worker
  <1>6. CASE CoreWrite
    <2>1. Head(core.lines) \in Line /\ Tail(core.lines) \in Seq(Line)
      BY <1>0, <1>6, Shrinks DEF CoreWrite
    <2>2. Message("line", Head(core.lines)) \in Letter
      BY <2>1 DEF Message, Letter, Line
    <2>3. outer' \in Seq(Letter)
      BY <1>0, <1>6, <2>2, Grows DEF CoreWrite
    <2>4. core' \in CoreState
      BY <1>0, <1>6, <2>1, CoreFields DEF CoreWrite
    <2> QED  BY <1>6, <2>3, <2>4 DEF CoreWrite, TypeOK, readerVars, barrierVars, loopVars, pollVars,
                                     jobVars, waitVars, writeVars
  <1>7. CASE CoreComplete
    <2>1. Message("complete", Entry("complete", 0)) \in Letter
      BY DEF Message, Entry, Letter, Word
    <2>2. outer' \in Seq(Letter)
      BY <1>0, <1>7, <2>1, Grows DEF CoreComplete
    <2>3. core' \in CoreState
      BY <1>0, <1>7, CoreFields DEF CoreComplete
    <2> QED  BY <1>7, <2>2, <2>3 DEF CoreComplete, TypeOK, readerVars, barrierVars, loopVars,
                                     pollVars, jobVars, waitVars, writeVars
  <1> QED  BY <1>1, <1>2, <1>3, <1>4, <1>5, <1>6, <1>7 DEF Core

\* What the loop receives.
LEMMA ReceivesTypes ==
    ASSUME TypeOK, NEW t, Receives(t)
    PROVE  /\ outer # <<>> /\ Head(outer) \in Letter /\ outer' = Tail(outer)
           /\ outer' \in Seq(Letter) /\ Head(outer).t = t /\ pc = "recv"
           /\ Head(outer).id \in Nat /\ Head(outer).k \in Word
           /\ \A k \in Word : Entry(k, Head(outer).id) \in Line /\ Entry(k, Head(outer).id) \in Said
  <1>1. outer # <<>> /\ outer \in Seq(Letter) /\ outer' = Tail(outer) /\ Head(outer).t = t /\ pc = "recv"
    BY DEF TypeOK, Receives
  <1>2. Head(outer) \in Letter /\ outer' \in Seq(Letter)
    BY <1>1, Shrinks
  <1>3. Head(outer).id \in Nat /\ Head(outer).k \in Word
    BY <1>2 DEF Letter
  <1>4. \A k \in Word : Entry(k, Head(outer).id) \in Line /\ Entry(k, Head(outer).id) \in Said
    BY <1>3 DEF Entry, Line, Said
  <1> QED  BY <1>1, <1>2, <1>3, <1>4

\* What a step of the loop leaves alone keeps its type.
LEMMA LoopKeeps ==
    ASSUME TypeOK, LoopUnchanged,
           outer' \in Seq(Letter), barrier' \in Barrier, release' \in Held, hand' \in Line,
           pc' \in {"recv", "send", "flush", "sample", "poll", "exit"},
           inputOpen' \in BOOLEAN, coreOpen' \in BOOLEAN,
           jobs' \in [Frame -> JobState],
           waits' \in Seq(Nat), remaining' \in Seq(Nat), due' \subseteq Nat,
           log' \in Seq(Said), attached' \in BOOLEAN, faults' \in Nat
    PROVE  TypeOK'
  BY DEF LoopUnchanged, TypeOK, readerVars, coreVars, pollVars

\* The types the loop's steps start from.
LEMMA LoopStart ==
    ASSUME TypeOK
    PROVE  /\ outer \in Seq(Letter) /\ inner \in Seq(Line) /\ barrier \in Barrier /\ release \in Held
           /\ hand \in Line /\ pc \in {"recv", "send", "flush", "sample", "poll", "exit"}
           /\ inputOpen \in BOOLEAN /\ coreOpen \in BOOLEAN
           /\ jobs \in [Frame -> JobState]
           /\ waits \in Seq(Nat) /\ remaining \in Seq(Nat) /\ due \subseteq Nat
           /\ log \in Seq(Said) /\ attached \in BOOLEAN /\ faults \in Nat
           /\ Entry("none", 0) \in Line /\ Entry("eof", 0) \in Line
           /\ Entry("core failed", 0) \in Said
           /\ "frame" \in Word /\ "forward" \in Word /\ "refuse" \in Word
           /\ FALSE \in BOOLEAN
  BY DEF TypeOK, Entry, Line, Said, Word

\* A frame goes to the core, its boundary into the log.
LEMMA ForwardTypes ==
    ASSUME TypeOK, NEW i \in Nat, NEW b \in Barrier,
           \/ /\ barrier' = b /\ log' = Append(log, Entry("forward", i))
              /\ Forward(Entry("frame", i)) /\ UNCHANGED release
           \/ Settle(b) /\ UNCHANGED log
    PROVE  /\ barrier' \in Barrier /\ release' \in Held /\ hand' \in Line /\ log' \in Seq(Said)
           /\ pc' \in {"recv", "send", "flush", "sample", "poll", "exit"}
  <1>1. CASE /\ barrier' = b /\ log' = Append(log, Entry("forward", i))
             /\ Forward(Entry("frame", i)) /\ UNCHANGED release
    <2>1. Entry("forward", i) \in Said /\ Entry("frame", i) \in Line
      BY DEF Entry, Said, Line, Word
    <2>2. log' \in Seq(Said)
      BY <1>1, <2>1, LoopStart, Grows
    <2> QED  BY <1>1, <2>1, <2>2, LoopStart DEF Forward
  <1>2. CASE Settle(b) /\ UNCHANGED log
    BY <1>2, SettleTypes, LoopStart
  <1> QED  BY <1>1, <1>2

\* What the loop does with a frame keeps types.
LEMMA FrameTypes ==
    ASSUME TypeOK, RecvHello \/ RecvTurn \/ RecvJobFrame \/ RecvControl \/ RecvEof
    PROVE  TypeOK'
  <1> DEFINE i == Head(outer).id
  <1>1. CASE RecvHello
    <2>1. outer' \in Seq(Letter) /\ i \in Nat
      BY <1>1, ReceivesTypes DEF RecvHello
    <2>2. observe_hello(barrier, i) \in Barrier
      BY <2>1, BarrierTypes, LoopStart
    <2>3. /\ barrier' \in Barrier /\ release' \in Held /\ hand' \in Line /\ log' \in Seq(Said)
          /\ pc' \in {"recv", "send", "flush", "sample", "poll", "exit"}
      BY <1>1, <2>1, <2>2, ForwardTypes DEF RecvHello
    <2> QED  BY <1>1, <2>1, <2>3, LoopKeeps, LoopStart DEF RecvHello, jobVars, waitVars
  <1>2. CASE RecvTurn
    <2>1. outer' \in Seq(Letter) /\ i \in Nat
      BY <1>2, ReceivesTypes DEF RecvTurn
    <2>2. observe_turn_start(barrier, i) \in Barrier
      BY <2>1, BarrierTypes, LoopStart
    <2>3. /\ barrier' \in Barrier /\ release' \in Held /\ hand' \in Line /\ log' \in Seq(Said)
          /\ pc' \in {"recv", "send", "flush", "sample", "poll", "exit"}
      BY <1>2, <2>1, <2>2, ForwardTypes DEF RecvTurn
    <2> QED  BY <1>2, <2>1, <2>3, LoopKeeps, LoopStart DEF RecvTurn, jobVars, waitVars
  <1>3. CASE RecvJobFrame
    <2>1. outer' \in Seq(Letter) /\ i \in Nat
      BY <1>3, ReceivesTypes DEF RecvJobFrame
    <2>2. /\ hand' \in Line /\ pc' \in {"recv", "send", "flush", "sample", "poll", "exit"}
          /\ release' \in Held /\ inputOpen' \in BOOLEAN /\ coreOpen' \in BOOLEAN /\ LoopUnchanged
      BY <1>3, LoopStart DEF RecvJobFrame, Handled
    <2>3. CASE /\ pending(barrier)
               /\ \E fits \in SUBSET {"dispatch", "refuse"} : barrier' = defer(barrier, i, fits)
               /\ UNCHANGED <<jobVars, writeVars>>
      <3>1. barrier' \in Barrier
        BY <2>1, <2>3, BarrierTypes, LoopStart
      <3> QED  BY <2>1, <2>2, <2>3, <3>1, LoopKeeps, LoopStart DEF jobVars, waitVars, writeVars
    <2>4. CASE Deliver(Entry("refuse", i)) /\ UNCHANGED <<barrier, jobVars>>
      <3>1. Entry("refuse", i) \in Said
        BY <2>1 DEF Entry, Said, Word
      <3>2. log' \in Seq(Said) /\ attached' \in BOOLEAN /\ faults' \in Nat
        BY <2>4, <3>1, DeliverTypes, LoopStart
      <3> QED  BY <2>1, <2>2, <2>4, <3>2, LoopKeeps, LoopStart DEF jobVars, waitVars
    <2>5. CASE dispatch_job_frame(i) /\ UNCHANGED barrier
      BY <2>1, <2>2, <2>5, DispatchTypes, LoopKeeps, LoopStart
    <2> QED  BY <1>3, <2>3, <2>4, <2>5 DEF RecvJobFrame
  <1>4. CASE RecvControl
    <2>1. outer' \in Seq(Letter) /\ Entry("frame", i) \in Line
      BY <1>4, ReceivesTypes, LoopStart DEF RecvControl
    <2> QED  BY <1>4, <2>1, LoopKeeps, LoopStart
             DEF RecvControl, Forward, barrierVars, jobVars, waitVars, writeVars
  <1>5. CASE RecvEof
    <2>1. outer' \in Seq(Letter)
      BY <1>5, ReceivesTypes DEF RecvEof
    <2> QED  BY <1>5, <2>1, LoopKeeps, LoopStart
             DEF RecvEof, Forward, barrierVars, jobVars, waitVars, writeVars
  <1> QED  BY <1>1, <1>2, <1>3, <1>4, <1>5

\* What the loop does with the core's channel and the core's lines keeps types.
LEMMA AnswerTypes ==
    ASSUME TypeOK, SendToCore \/ SendFails \/ RecvCoreLine \/ RecvCoreComplete \/ RecvTimeout
    PROVE  TypeOK'
  <1>1. CASE SendToCore
    <2>1. inner' \in Seq(Line)
      BY <1>1, Grows, LoopStart DEF SendToCore
    <2> QED  BY <1>1, <2>1, LoopStart
             DEF SendToCore, Handled, TypeOK, readerVars, coreVars, pollVars, barrierVars, jobVars,
                 waitVars, writeVars
  <1>2. CASE SendFails
    <2>1. fail(barrier) \in Barrier
      BY BarrierTypes, LoopStart
    <2>2. /\ barrier' \in Barrier /\ release' \in Held /\ hand' \in Line
          /\ pc' \in {"recv", "send", "flush", "sample", "poll", "exit"}
      BY <1>2, <2>1, SettleTypes, LoopStart DEF SendFails, Handled, barrierVars
    <2> QED  BY <1>2, <2>2, LoopKeeps, LoopStart DEF SendFails, jobVars, waitVars, writeVars
  <1>3. CASE RecvCoreLine
    <2> DEFINE line == Entry(Head(outer).k, Head(outer).id)
    <2>1. outer' \in Seq(Letter) /\ line \in Said
      BY <1>3, ReceivesTypes DEF RecvCoreLine
    <2>2. Deliver(line)
      BY <1>3 DEF RecvCoreLine
    <2>3. log' \in Seq(Said) /\ attached' \in BOOLEAN /\ faults' \in Nat
      BY <2>1, <2>2, DeliverTypes, LoopStart
    <2>4. /\ fail(barrier) \in Barrier /\ acknowledge_hello(barrier) \in Barrier
          /\ mark_turn_accepted(barrier) \in Barrier /\ observe_turn_end(barrier) \in Barrier
      BY BarrierTypes, LoopStart
    <2>5. \/ Settle(acknowledge_hello(barrier)) \/ Settle(mark_turn_accepted(barrier))
          \/ Settle(fail(barrier))
          \/ Handled /\ barrier' \in {observe_turn_end(barrier), barrier} /\ UNCHANGED release
      BY <1>3 DEF RecvCoreLine
    <2>6. /\ barrier' \in Barrier /\ release' \in Held /\ hand' \in Line
          /\ pc' \in {"recv", "send", "flush", "sample", "poll", "exit"}
      BY <2>4, <2>5, SettleTypes, LoopStart DEF Handled
    <2> QED  BY <1>3, <2>1, <2>3, <2>6, LoopKeeps, LoopStart DEF RecvCoreLine, jobVars, waitVars
  <1>4. CASE RecvCoreComplete
    <2>1. outer' \in Seq(Letter) /\ coreOpen' \in BOOLEAN
      BY <1>4, ReceivesTypes DEF RecvCoreComplete
    <2>2. fail(barrier) \in Barrier
      BY BarrierTypes, LoopStart
    <2>3. /\ barrier' \in Barrier /\ release' \in Held /\ hand' \in Line
          /\ pc' \in {"recv", "send", "flush", "sample", "poll", "exit"}
      BY <1>4, <2>2, SettleTypes, LoopStart DEF RecvCoreComplete, Handled, barrierVars
    <2>4. Deliver(Entry("core failed", 0)) \/ UNCHANGED writeVars
      BY <1>4 DEF RecvCoreComplete
    <2>5. log' \in Seq(Said) /\ attached' \in BOOLEAN /\ faults' \in Nat
      BY <2>4, DeliverTypes, LoopStart DEF writeVars
    <2> QED  BY <1>4, <2>1, <2>3, <2>5, LoopKeeps, LoopStart DEF RecvCoreComplete, jobVars, waitVars
  <1>5. CASE RecvTimeout
    BY <1>5, LoopKeeps, LoopStart
    DEF RecvTimeout, Handled, barrierVars, jobVars, waitVars, writeVars
  <1> QED  BY <1>1, <1>2, <1>3, <1>4, <1>5

\* The flush keeps types.
LEMMA FlushTypes ==
    ASSUME TypeOK, FlushAction \/ FlushSummary \/ FlushSuppressed \/ FlushDone
    PROVE  TypeOK'
  <1>0. /\ release.actions \in Seq(Action) /\ release.jobs \in SUBSET Nat
        /\ release.errors \in SUBSET Nat
    BY DEF TypeOK, Held
  <1>1. CASE FlushAction
    <2> DEFINE a == Head(release.actions)
    <2>1. a \in Action /\ Tail(release.actions) \in Seq(Action)
      BY <1>0, <1>1, Shrinks DEF FlushAction
    <2>2. a.id \in Nat
      BY <2>1 DEF Action
    <2>3. Entry("error", a.id) \in Said /\ Entry("refuse", a.id) \in Said
      BY <2>2 DEF Entry, Said, Word
    <2>4. release' \in Held
      BY <1>1, <2>1, LoopStart DEF FlushAction, Held
    <2>5. \/ (Deliver(Entry("error", a.id)) \/ Deliver(Entry("refuse", a.id))) /\ UNCHANGED jobVars
          \/ dispatch_job_frame(a.id)
      BY <1>1 DEF FlushAction
    <2>6. /\ log' \in Seq(Said) /\ attached' \in BOOLEAN /\ faults' \in Nat
          /\ jobs' \in [Frame -> JobState]
          /\ waits' \in Seq(Nat) /\ remaining' \in Seq(Nat) /\ due' \subseteq Nat
      <3>1. CASE (Deliver(Entry("error", a.id)) \/ Deliver(Entry("refuse", a.id))) /\ UNCHANGED jobVars
        BY <2>3, <3>1, DeliverTypes, LoopStart DEF jobVars, waitVars
      <3>2. CASE dispatch_job_frame(a.id)
        BY <2>2, <3>2, DispatchTypes
      <3> QED  BY <2>5, <3>1, <3>2
    <2> QED  BY <1>1, <2>4, <2>6, LoopKeeps, LoopStart DEF FlushAction, FlushUnchanged
  <1>2. CASE FlushSummary
    <2>1. Entry("summary", release.jobs) \in Said
      BY <1>0 DEF Entry, Said, Word
    <2>2. log' \in Seq(Said) /\ attached' \in BOOLEAN /\ faults' \in Nat
      BY <1>2, <2>1, DeliverTypes, LoopStart DEF FlushSummary
    <2>3. release' \in Held
      BY <1>2, LoopStart DEF FlushSummary, Held
    <2> QED  BY <1>2, <2>2, <2>3, LoopKeeps, LoopStart DEF FlushSummary, FlushUnchanged, jobVars, waitVars
  <1>3. CASE FlushSuppressed
    <2>1. Entry("suppressed", release.errors) \in Said
      BY <1>0 DEF Entry, Said, Word
    <2>2. log' \in Seq(Said) /\ attached' \in BOOLEAN /\ faults' \in Nat
      BY <1>3, <2>1, DeliverTypes, LoopStart DEF FlushSuppressed
    <2>3. release' \in Held
      BY <1>3, LoopStart DEF FlushSuppressed, Held
    <2> QED  BY <1>3, <2>2, <2>3, LoopKeeps, LoopStart
             DEF FlushSuppressed, FlushUnchanged, jobVars, waitVars
  <1>4. CASE FlushDone
    <2>1. release' \in Held
      BY <1>4, NoElement DEF FlushDone, NoRelease, Held
    <2> QED  BY <1>4, <2>1, LoopKeeps, LoopStart
             DEF FlushDone, FlushUnchanged, Handled, jobVars, waitVars, writeVars
  <1> QED  BY <1>1, <1>2, <1>3, <1>4

\* A polled job, in the three outcomes of its poll.
Unreadable(j) == [j EXCEPT !.down = TRUE]
Skipped(j) == [j EXCEPT !.cursor = j.oldest, !.gap = <<j.cursor, j.oldest>>, !.down = FALSE,
                        !.told = IF j.gap = <<j.cursor, j.oldest>> THEN @
                                 ELSE @ + (j.oldest - j.cursor)]
PageEnd(j) == IF j.cursor + Page < j.events THEN j.cursor + Page ELSE j.events
Paged(j) == [j EXCEPT !.cursor = PageEnd(j), !.gap = <<>>, !.down = FALSE,
                      !.told = @ + (PageEnd(j) - j.cursor)]

\* The fields of a polled job, and of one that publishes.
LEMMA JobFields ==
    ASSUME NEW j \in JobState
    PROVE  /\ LET r == Unreadable(j) IN
              /\ r.st = j.st /\ r.events = j.events /\ r.oldest = j.oldest /\ r.cursor = j.cursor
              /\ r.gap = j.gap /\ r.told = j.told /\ r.down
           /\ LET r == Skipped(j) IN
              /\ r.st = j.st /\ r.events = j.events /\ r.oldest = j.oldest /\ r.cursor = j.oldest
              /\ r.gap = <<j.cursor, j.oldest>>
              /\ r.told = IF j.gap = <<j.cursor, j.oldest>> THEN j.told
                          ELSE j.told + (j.oldest - j.cursor)
           /\ LET r == Paged(j) IN
              /\ r.st = j.st /\ r.events = j.events /\ r.oldest = j.oldest
              /\ r.cursor = PageEnd(j) /\ r.gap = <<>>
              /\ r.told = j.told + (PageEnd(j) - j.cursor)
           /\ LET r == Published(j) IN
              /\ r.st = j.st /\ r.events = j.events + 1
              /\ r.oldest = IF j.events + 1 > Retained THEN j.events + 1 - Retained ELSE j.oldest
              /\ r.cursor = j.cursor /\ r.gap = j.gap /\ r.told = j.told /\ r.down = j.down
  <1>1. LET r == Unreadable(j) IN
        /\ r.st = j.st /\ r.events = j.events /\ r.oldest = j.oldest /\ r.cursor = j.cursor
        /\ r.gap = j.gap /\ r.told = j.told /\ r.down
    BY DEF JobState, Unreadable
  <1>2. LET r == Skipped(j) IN
        /\ r.st = j.st /\ r.events = j.events /\ r.oldest = j.oldest /\ r.cursor = j.oldest
        /\ r.gap = <<j.cursor, j.oldest>>
    BY DEF JobState, Skipped
  <1>3. Skipped(j).told = IF j.gap = <<j.cursor, j.oldest>> THEN j.told
                          ELSE j.told + (j.oldest - j.cursor)
    BY DEF JobState, Skipped
  <1>4. LET r == Paged(j) IN
        /\ r.st = j.st /\ r.events = j.events /\ r.oldest = j.oldest
        /\ r.cursor = PageEnd(j) /\ r.gap = <<>>
        /\ r.told = j.told + (PageEnd(j) - j.cursor)
    BY DEF JobState, Paged
  <1>5. LET r == Published(j) IN
        /\ r.st = j.st /\ r.events = j.events + 1
        /\ r.oldest = IF j.events + 1 > Retained THEN j.events + 1 - Retained ELSE j.oldest
        /\ r.cursor = j.cursor /\ r.gap = j.gap /\ r.told = j.told /\ r.down = j.down
    BY DEF JobState, Published
  <1> QED  BY <1>1, <1>2, <1>3, <1>4, <1>5

\* A field of a job may be set to any value of its type.
LEMMA JobField ==
    ASSUME NEW j \in JobState
    PROVE  /\ \A n \in Nat : /\ [j EXCEPT !.cursor = n] \in JobState
                             /\ [j EXCEPT !.events = n] \in JobState
                             /\ [j EXCEPT !.oldest = n] \in JobState
           /\ \A n \in Int : [j EXCEPT !.told = n] \in JobState
           /\ \A g \in Seq(Nat) : [j EXCEPT !.gap = g] \in JobState
           /\ \A d \in BOOLEAN : [j EXCEPT !.down = d] \in JobState
           /\ \A s \in {"none", "live", "ending", "done"} : [j EXCEPT !.st = s] \in JobState
  BY DEF JobState

\* A polled job, and one that publishes, is a job.
LEMMA JobTypes ==
    ASSUME NEW j \in JobState
    PROVE  /\ Unreadable(j) \in JobState /\ Skipped(j) \in JobState /\ Paged(j) \in JobState
           /\ Published(j) \in JobState
           /\ [Published(j) EXCEPT !.st = "ending"] \in JobState
  <1>0. /\ j.cursor \in Nat /\ j.oldest \in Nat /\ j.events \in Nat /\ j.told \in Int
        /\ Page \in Nat /\ Retained \in Nat /\ PageEnd(j) \in Nat
    BY JobHostAssumption, SMTT(30) DEF JobState, PageEnd
  <1>1. Unreadable(j) \in JobState
    BY JobField DEF Unreadable
  <1>2. Skipped(j) \in JobState
    <2> DEFINE t == IF j.gap = <<j.cursor, j.oldest>> THEN j.told
                    ELSE j.told + (j.oldest - j.cursor)
               a == [j EXCEPT !.cursor = j.oldest]
               b == [a EXCEPT !.gap = <<j.cursor, j.oldest>>]
               c == [b EXCEPT !.down = FALSE]
    <2>1. a \in JobState
      BY <1>0, JobField
    <2>2. b \in JobState
      <3>1. <<j.cursor, j.oldest>> \in Seq(Nat)
        BY <1>0, Few
      <3> HIDE DEF a
      <3> QED  BY <2>1, <3>1, JobField
    <2>3. c \in JobState
      <3> HIDE DEF b
      <3> QED  BY <2>2, JobField
    <2>4. [c EXCEPT !.told = t] \in JobState
      <3>1. t \in Int
        BY <1>0
      <3> HIDE DEF c, t
      <3> QED  BY <2>3, <3>1, JobField
    <2>5. c.told = j.told
      BY DEF JobState
    <2>6. Skipped(j) = [c EXCEPT !.told = t]
      BY <2>5 DEF Skipped
    <2> QED  BY <2>4, <2>6
  <1>3. Paged(j) \in JobState
    <2> DEFINE t == j.told + (PageEnd(j) - j.cursor)
               a == [j EXCEPT !.cursor = PageEnd(j)]
               b == [a EXCEPT !.gap = <<>>]
               c == [b EXCEPT !.down = FALSE]
    <2>1. a \in JobState
      <3>1. PageEnd(j) \in Nat
        BY <1>0
      <3> QED  BY <3>1, JobField
    <2>2. b \in JobState
      <3> HIDE DEF a
      <3> QED  BY <2>1, NoElement, JobField
    <2>3. c \in JobState
      <3> HIDE DEF b
      <3> QED  BY <2>2, JobField
    <2>4. [c EXCEPT !.told = t] \in JobState
      <3>1. t \in Int
        BY <1>0
      <3> HIDE DEF c, t
      <3> QED  BY <2>3, <3>1, JobField
    <2>5. c.told = j.told
      BY DEF JobState
    <2>6. Paged(j) = [c EXCEPT !.told = t]
      BY <2>5 DEF Paged
    <2> QED  BY <2>4, <2>6
  <1>4. Published(j) \in JobState
    <2> DEFINE o == IF j.events + 1 > Retained THEN j.events + 1 - Retained ELSE j.oldest
               a == [j EXCEPT !.events = j.events + 1]
    <2>1. a \in JobState
      <3>1. j.events + 1 \in Nat
        BY <1>0
      <3> QED  BY <3>1, JobField
    <2>2. [a EXCEPT !.oldest = o] \in JobState
      <3>1. o \in Nat
        BY <1>0
      <3> HIDE DEF a, o
      <3> QED  BY <2>1, <3>1, JobField
    <2>3. a.oldest = j.oldest
      BY DEF JobState
    <2>4. Published(j) = [a EXCEPT !.oldest = o]
      BY <2>3 DEF Published
    <2> QED  BY <2>2, <2>4
  <1>5. [Published(j) EXCEPT !.st = "ending"] \in JobState
    BY <1>4, JobField
  <1> QED  BY <1>1, <1>2, <1>3, <1>4, <1>5

\* What the poll of a job does, by its outcome.
LEMMA PollCases ==
    ASSUME NEW i, poll_job_events(i)
    PROVE  /\ pc = "poll" /\ i \in poll /\ poll' = poll \ {i} /\ UNCHANGED log
           /\ UNCHANGED <<readerVars, outer, inner, coreVars, barrierVars, loopVars, live, waitVars>>
           /\ \/ jobs' = [jobs EXCEPT ![i] = Unreadable(@)] /\ UNCHANGED more
              \/ /\ jobs[i].cursor < jobs[i].oldest
                 /\ jobs' = [jobs EXCEPT ![i] = Skipped(@)] /\ more' = TRUE
              \/ /\ jobs[i].cursor >= jobs[i].oldest
                 /\ jobs' = [jobs EXCEPT ![i] = Paged(@)]
                 /\ more' = (more \/ PageEnd(jobs[i]) < jobs[i].events)
           /\ \/ UNCHANGED <<attached, faults>>
              \/ UNCHANGED attached /\ faults' = faults + 1
              \/ attached' = FALSE /\ faults' = faults + 1
  BY DEF poll_job_events, Writes, Unreadable, Skipped, Paged, PageEnd

\* The rest of the loop's body, the jobs and the clock keep types.
LEMMA RoundTypes ==
    ASSUME TypeOK,
           Sample \/ (\E i \in Frame : poll_job_events(i)) \/ poll_job_waits \/ FinishRound
    PROVE  TypeOK'
  <1>1. CASE Sample
    <2>1. live' \in BOOLEAN /\ more' \in BOOLEAN /\ poll' \subseteq Frame
      BY <1>1 DEF Sample, Registered
    <2> QED  BY <1>1, <2>1 DEF Sample, TypeOK, readerVars, coreVars, barrierVars, jobVars, waitVars, writeVars
  <1>2. ASSUME NEW i \in Frame, poll_job_events(i)
        PROVE  TypeOK'
    <2>1. jobs[i] \in JobState
      BY DEF TypeOK
    <2>2. /\ Unreadable(jobs[i]) \in JobState /\ Skipped(jobs[i]) \in JobState
          /\ Paged(jobs[i]) \in JobState
      BY <2>1, JobTypes
    <2>3. \E j \in JobState : jobs' = [jobs EXCEPT ![i] = j]
      BY <1>2, <2>2, PollCases
    <2>4. jobs' \in [Frame -> JobState]
      BY <2>3 DEF TypeOK
    <2>5. more' \in BOOLEAN
      <3>1. \/ more' = more \/ more' = TRUE
            \/ more' = (more \/ PageEnd(jobs[i]) < jobs[i].events)
        BY <1>2, PollCases
      <3>2. (more \/ PageEnd(jobs[i]) < jobs[i].events) \in BOOLEAN
        OBVIOUS
      <3>3. more \in BOOLEAN
        BY DEF TypeOK
      <3> QED  BY <3>1, <3>2, <3>3, Zenon
    <2>6. attached' \in BOOLEAN
      <3>1. attached' = attached \/ attached' = FALSE
        BY <1>2, PollCases
      <3>2. attached \in BOOLEAN
        BY DEF TypeOK
      <3> QED  BY <3>1, <3>2
    <2>7. faults' \in Nat
      <3>1. faults' = faults \/ faults' = faults + 1
        BY <1>2, PollCases
      <3>2. faults \in Nat
        BY DEF TypeOK
      <3> QED  BY <3>1, <3>2
    <2>8. poll' \subseteq Frame /\ UNCHANGED log
      BY <1>2, PollCases DEF TypeOK
    <2>9. UNCHANGED <<readerVars, outer, inner, coreVars, barrierVars, loopVars, live, waitVars>>
      BY <1>2, PollCases
    <2> QED  BY <2>4, <2>5, <2>6, <2>7, <2>8, <2>9
             DEF TypeOK, readerVars, coreVars, barrierVars, loopVars, waitVars
  <1>3. CASE poll_job_waits
    <2>1. Head(waits) \in Nat /\ waits' \in Seq(Nat)
      BY <1>3, LoopStart, Shrinks DEF poll_job_waits
    <2>2. Entry("waited", Head(waits)) \in Said
      BY <2>1 DEF Entry, Said, Word
    <2>3. CASE Deliver(Entry("waited", Head(waits))) /\ UNCHANGED remaining
      <3>1. log' \in Seq(Said) /\ attached' \in BOOLEAN /\ faults' \in Nat
        BY <2>2, <2>3, DeliverTypes, LoopStart
      <3> QED  BY <1>3, <2>1, <2>3, <3>1
               DEF poll_job_waits, TypeOK, readerVars, coreVars, barrierVars, loopVars, pollVars
    <2>4. CASE remaining' = Append(remaining, Head(waits)) /\ UNCHANGED writeVars
      <3>1. remaining' \in Seq(Nat)
        BY <2>1, <2>4, LoopStart, Grows
      <3> QED  BY <1>3, <2>1, <2>4, <3>1
               DEF poll_job_waits, TypeOK, readerVars, coreVars, barrierVars, loopVars, pollVars,
                   writeVars
    <2> QED  BY <1>3, <2>3, <2>4 DEF poll_job_waits
  <1>4. CASE FinishRound
    <2>1. waits' \in Seq(Nat) /\ remaining' \in Seq(Nat) /\ due' \subseteq Nat
      BY <1>4, NoElement, LoopStart DEF FinishRound
    <2> QED  BY <1>4, <2>1
             DEF FinishRound, TypeOK, readerVars, coreVars, barrierVars, writeVars
  <1> QED  BY <1>1, <1>2, <1>3, <1>4

\* A step of a job, by what it does to it.
JobStep(i) ==
    /\ i \in Frame /\ JobUnchanged /\ UNCHANGED waitVars /\ Alive
    /\ \/ jobs[i].st = "live" /\ jobs' = [jobs EXCEPT ![i] = Published(@)]
       \/ jobs[i].st = "live" /\ jobs' = [jobs EXCEPT ![i] = [Published(@) EXCEPT !.st = "ending"]]
       \/ jobs[i].st = "ending" /\ jobs' = [jobs EXCEPT ![i].st = "done"]

LEMMA JobSteps ==
    ASSUME NEW i \in Frame, JobOutput(i) \/ Jobs(i)
    PROVE  JobStep(i)
  BY DEF JobOutput, Jobs, JobTerminal, JobReleased, JobStep

\* The jobs and the clock keep types.
LEMMA JobStepTypes ==
    ASSUME TypeOK, NEW i \in Frame, JobStep(i) \/ Deadline(i)
    PROVE  TypeOK'
  <1>1. CASE JobStep(i)
    <2>1. jobs[i] \in JobState
      BY DEF TypeOK
    <2>2. /\ Published(jobs[i]) \in JobState /\ [Published(jobs[i]) EXCEPT !.st = "ending"] \in JobState
          /\ [jobs[i] EXCEPT !.st = "done"] \in JobState
      BY <2>1, JobTypes, JobField
    <2>3. \E j \in JobState : jobs' = [jobs EXCEPT ![i] = j]
      BY <1>1, <2>2 DEF JobStep
    <2>4. jobs' \in [Frame -> JobState]
      BY <2>3 DEF TypeOK
    <2> QED  BY <1>1, <2>4 DEF JobStep, JobUnchanged, TypeOK, readerVars, coreVars, barrierVars,
                               loopVars, pollVars, writeVars, waitVars
  <1>2. CASE Deadline(i)
    <2>1. i \in Nat
      <3>1. \/ \E n \in DOMAIN waits : i = waits[n]
            \/ \E n \in DOMAIN remaining : i = remaining[n]
        BY <1>2 DEF Deadline, ToSet
      <3>2. waits \in Seq(Nat) /\ remaining \in Seq(Nat)
        BY LoopStart
      <3> QED  BY <3>1, <3>2
    <2> QED  BY <1>2, <2>1 DEF Deadline, JobUnchanged, TypeOK, readerVars, coreVars, barrierVars,
                               loopVars, pollVars, writeVars
  <1> QED  BY <1>1, <1>2

\* Initially everything has its type.
LEMMA InitTypes == Init => TypeOK
  <1> SUFFICES ASSUME Init PROVE TypeOK
    OBVIOUS
  <1>1. script \in Seq(FrameKind)
    BY JobHostAssumption DEF Init
  <1>2. /\ \A S : <<>> \in Seq(S)
    BY NoElement
  <1>3. core \in CoreState
    BY <1>2 DEF Init, CoreState
  <1>4. barrier \in Barrier
    BY <1>2 DEF Init, OpenBarrier, Barrier
  <1>5. release \in Held
    BY <1>2 DEF Init, NoRelease, Held
  <1>6. NoJob \in JobState
    BY <1>2 DEF NoJob, JobState
  <1>7. jobs \in [Frame -> JobState]
    BY <1>6 DEF Init
  <1>8. hand \in Line
    BY DEF Init, Entry, Line, Word
  <1> QED  BY <1>1, <1>2, <1>3, <1>4, <1>5, <1>7, <1>8 DEF Init, TypeOK

\* Every step keeps types.
LEMMA StepTypes == TypeOK /\ [Next]_vars => TypeOK'
  <1> SUFFICES ASSUME TypeOK, [Next]_vars PROVE TypeOK'
    OBVIOUS
  <1>1. CASE Loop
    BY <1>1, FrameTypes, AnswerTypes, FlushTypes, RoundTypes DEF Loop
  <1>2. CASE Core \/ Worker
    BY <1>2, CoreTypes
  <1>3. CASE Reader
    BY <1>3, ReaderTypes
  <1>4. CASE \E i \in Frame : JobOutput(i) \/ Jobs(i) \/ Deadline(i)
    BY <1>4, JobSteps, JobStepTypes
  <1>5. CASE UNCHANGED vars
    BY <1>5 DEF vars, TypeOK, readerVars, coreVars, barrierVars, loopVars, pollVars, jobVars, waitVars,
                writeVars
  <1> QED  BY <1>1, <1>2, <1>3, <1>4, <1>5 DEF Next, Halted

-----------------------------------------------------------------------------
(* What the barrier's operations change *)

Flags(b, c) ==
    /\ b.failed = c.failed /\ b.seen = c.seen /\ b.started = c.started
    /\ b.ack = c.ack /\ b.accept = c.accept /\ b.active = c.active

\* A refused boundary changes nothing but the queue.
LEMMA DeferErrorFacts ==
    ASSUME NEW b \in Barrier, NEW i \in Nat
    PROVE  LET c == defer_protocol_error(b, i) IN
           /\ Flags(c, b) /\ c.droppedJobs = b.droppedJobs
           /\ c.deferred = b.deferred \/ c.deferred = Append(b.deferred, ProtocolError(i))
  <1>1. CASE b.errors < ErrorLimit
    BY <1>1 DEF defer_protocol_error, Flags, Barrier
  <1>2. CASE ~(b.errors < ErrorLimit)
    BY <1>2 DEF defer_protocol_error, Flags, Barrier
  <1> QED  BY <1>1, <1>2

\* An admitted boundary closes its gate.
LEMMA ObserveFacts ==
    ASSUME NEW b \in Barrier, NEW i \in Nat
    PROVE  /\ HelloAdmitted(b) =>
                LET c == observe_hello(b, i) IN
                /\ ~b.failed /\ ~b.seen /\ c.failed = b.failed /\ c.seen = TRUE
                /\ c.started = b.started /\ c.ack = TRUE /\ c.accept = b.accept
                /\ c.active = b.active /\ c.deferred = b.deferred /\ c.droppedJobs = b.droppedJobs
           /\ TurnAdmitted(b) =>
                LET c == observe_turn_start(b, i) IN
                /\ ~b.failed /\ ~b.accept /\ c.failed = b.failed /\ c.seen = b.seen
                /\ c.ack = b.ack /\ c.accept = TRUE
                /\ c.active = b.active /\ c.deferred = b.deferred /\ c.droppedJobs = b.droppedJobs
           /\ ~HelloAdmitted(b) => observe_hello(b, i) = defer_protocol_error(b, i)
           /\ ~TurnAdmitted(b) => observe_turn_start(b, i) = defer_protocol_error(b, i)
  <1>1. HelloAdmitted(b) =>
            LET c == observe_hello(b, i) IN
            /\ ~b.failed /\ ~b.seen /\ c.failed = b.failed /\ c.seen = TRUE
            /\ c.started = b.started /\ c.ack = TRUE /\ c.accept = b.accept
            /\ c.active = b.active /\ c.deferred = b.deferred /\ c.droppedJobs = b.droppedJobs
    BY DEF HelloAdmitted, observe_hello, Barrier
  <1>2. TurnAdmitted(b) =>
            LET c == observe_turn_start(b, i) IN
            /\ ~b.failed /\ ~b.accept /\ c.failed = b.failed /\ c.seen = b.seen
            /\ c.ack = b.ack /\ c.accept = TRUE
            /\ c.active = b.active /\ c.deferred = b.deferred /\ c.droppedJobs = b.droppedJobs
    BY DEF TurnAdmitted, observe_turn_start, Barrier
  <1> QED  BY <1>1, <1>2 DEF observe_hello, observe_turn_start

\* A deferred job frame is queued or counted.
LEMMA DeferFacts ==
    ASSUME NEW b \in Barrier, NEW i \in Nat, NEW fits
    PROVE  LET c == defer(b, i, fits) IN
           /\ Flags(c, b)
           /\ \/ /\ \E how \in {"dispatch", "refuse"} : c.deferred = Append(b.deferred, Job(i, how))
                 /\ c.droppedJobs = b.droppedJobs
              \/ c.deferred = b.deferred /\ c.droppedJobs = b.droppedJobs \cup {i}
  <1> DEFINE d == b.dispatch < DispatchLimit /\ (b.dispatch = 0 \/ "dispatch" \in fits)
             r == /\ Len(b.deferred) < DispatchLimit + RefuseLimit
                  /\ b.refuse < RefuseLimit /\ "refuse" \in fits
             c == defer(b, i, fits)
  <1>1. CASE d
    <2>1. c = [b EXCEPT !.dispatch = @ + 1, !.deferred = Append(@, Job(i, "dispatch"))]
      BY <1>1 DEF defer
    <2> HIDE DEF c
    <2>2. Flags(c, b) /\ c.droppedJobs = b.droppedJobs /\ c.deferred = Append(b.deferred, Job(i, "dispatch"))
      BY <2>1 DEF Flags, Barrier
    <2> QED  BY <2>2 DEF c
  <1>2. CASE ~d /\ r
    <2>1. c = [b EXCEPT !.refuse = @ + 1, !.deferred = Append(@, Job(i, "refuse"))]
      BY <1>2 DEF defer
    <2> HIDE DEF c
    <2>2. Flags(c, b) /\ c.droppedJobs = b.droppedJobs /\ c.deferred = Append(b.deferred, Job(i, "refuse"))
      BY <2>1 DEF Flags, Barrier
    <2> QED  BY <2>2 DEF c
  <1>3. CASE ~d /\ ~r
    <2>1. c = [b EXCEPT !.droppedJobs = @ \cup {i}]
      BY <1>3 DEF defer
    <2> HIDE DEF c
    <2>2. Flags(c, b) /\ c.deferred = b.deferred /\ c.droppedJobs = b.droppedJobs \cup {i}
      BY <2>1 DEF Flags, Barrier
    <2> QED  BY <2>2 DEF c
  <1> QED  BY <1>1, <1>2, <1>3

\* What resolves a gate.
LEMMA ResolveFacts ==
    ASSUME NEW b \in Barrier
    PROVE  /\ LET c == fail(b) IN
              /\ c.failed = TRUE /\ c.ack = FALSE /\ c.accept = FALSE /\ c.seen = b.seen
              /\ c.deferred = b.deferred /\ c.droppedJobs = b.droppedJobs
           /\ LET c == acknowledge_hello(b) IN
              /\ c.failed = b.failed /\ c.ack = FALSE /\ c.accept = b.accept /\ c.seen = b.seen
              /\ c.deferred = b.deferred /\ c.droppedJobs = b.droppedJobs
           /\ LET c == mark_turn_accepted(b) IN
              /\ c.failed = b.failed /\ c.ack = b.ack /\ c.accept = FALSE /\ c.seen = b.seen
              /\ c.deferred = b.deferred /\ c.droppedJobs = b.droppedJobs
           /\ LET c == observe_turn_end(b) IN
              /\ c.failed = b.failed /\ c.ack = b.ack /\ c.accept = b.accept /\ c.seen = b.seen
              /\ c.deferred = b.deferred /\ c.droppedJobs = b.droppedJobs
  BY DEF fail, acknowledge_hello, mark_turn_accepted, observe_turn_end, Barrier

\* Settling makes b the barrier, and what b holds is held still.
LEMMA SettleFacts ==
    ASSUME TypeOK, Shape, pc # "flush", NEW b \in Barrier, b.failed => ~pending(b), Settle(b),
           waits' = waits, remaining' = remaining
    PROVE  /\ pc' \in {"sample", "flush"} /\ hand' = Entry("none", 0)
           /\ barrier'.failed = b.failed /\ barrier'.seen = b.seen
           /\ barrier'.ack = b.ack /\ barrier'.accept = b.accept
           /\ Queue' = b.deferred /\ Counted' = b.droppedJobs
           /\ ~pending(b) => pc' = "flush"
           /\ pc # "poll" => Shape'
  <1>1. CASE pending(b)
    <2>1. /\ pc' = "sample" /\ hand' = Entry("none", 0) /\ barrier' = b /\ release' = release
      BY <1>1 DEF Settle
    <2>2. release' = NoRelease
      BY <2>1 DEF Shape
    <2>3. Queue' = b.deferred /\ Counted' = b.droppedJobs
      BY <2>1 DEF Queue, Counted
    <2>4. pc # "poll" => Shape'
      BY <1>1, <2>1, <2>2 DEF Shape, pending
    <2> QED  BY <1>1, <2>1, <2>3, <2>4
  <1>2. CASE ~pending(b)
    <2>1. /\ pc' = "flush" /\ hand' = Entry("none", 0) /\ barrier' = drain_release(b)
          /\ release' = Release(b)
      BY <1>2 DEF Settle
    <2>2. /\ barrier'.failed = b.failed /\ barrier'.seen = b.seen
          /\ barrier'.ack = b.ack /\ barrier'.accept = b.accept
          /\ barrier'.deferred = <<>> /\ barrier'.droppedJobs = {}
      BY <2>1 DEF drain_release, Barrier
    <2>3. /\ release'.actions = b.deferred /\ release'.jobs = b.droppedJobs
          /\ release'.failed = b.failed
      BY <2>1 DEF Release
    <2>4. Queue' = b.deferred /\ Counted' = b.droppedJobs
      BY <2>1, <2>3 DEF Queue, Counted
    <2>5. pc # "poll" => Shape'
      BY <1>2, <2>1, <2>2, <2>3 DEF Shape, pending
    <2> QED  BY <2>1, <2>2, <2>4, <2>5
  <1> QED  BY <1>1, <1>2

-----------------------------------------------------------------------------
(* The loop's steps, by what they change of the gates, of what is held     *)
(* back, and of the log; each keeps the shape of the control               *)

GatesKept == /\ barrier'.failed = barrier.failed /\ barrier'.seen = barrier.seen
             /\ barrier'.ack = barrier.ack /\ barrier'.accept = barrier.accept
GatesFail == /\ barrier'.failed = TRUE /\ barrier'.seen = barrier.seen
             /\ barrier'.ack = FALSE /\ barrier'.accept = FALSE
HeldKept == Queue' = Queue /\ Counted' = Counted
Takes(t) == /\ pc = "recv" /\ outer # <<>> /\ outer' = Tail(outer)
            /\ outer[1].t = t /\ outer[1].id \in Nat /\ outer[1].k \in Word

\* The frame goes on to the core.
Admits(i) == /\ log' = Append(log, Entry("forward", i))
             /\ pc' = "send" /\ hand' = Entry("frame", i)
             /\ ~barrier.failed /\ ~barrier'.failed /\ HeldKept
\* The boundary is refused.
Refuses(i) == /\ log' = log /\ pc' \in {"sample", "flush"} /\ hand' = Entry("none", 0) /\ GatesKept
              /\ Counted' = Counted
              /\ Queue' = Queue \/ Queue' = Append(Queue, ProtocolError(i))

\* A message the loop takes is the first of its channel.
LEMMA TakesFacts ==
    ASSUME TypeOK, NEW t, Receives(t)
    PROVE  Takes(t) /\ Head(outer) = outer[1]
  <1>1. outer # <<>> /\ outer \in Seq(Letter)
    BY DEF TypeOK, Receives
  <1>2. Head(outer) = outer[1]
    BY <1>1, Shrinks
  <1> QED  BY <1>2, ReceivesTypes DEF Takes

\* A hello.
LEMMA HelloFacts ==
    ASSUME TypeOK, Shape, RecvHello
    PROVE  /\ Takes("frame") /\ outer[1].k = "hello" /\ Shape' /\ LoopUnchanged
           /\ UNCHANGED <<inputOpen, coreOpen, jobs, waits, remaining, attached>>
           /\ \/ /\ Admits(outer[1].id) /\ ~barrier.seen
                 /\ barrier'.seen = TRUE /\ barrier'.ack = TRUE /\ barrier'.accept = barrier.accept
              \/ Refuses(outer[1].id)
  <1> DEFINE i == outer[1].id
             b == observe_hello(barrier, i)
  <1>1. Takes("frame") /\ Head(outer) = outer[1]
    BY TakesFacts DEF RecvHello
  <1>2. /\ pc = "recv" /\ outer[1].k = "hello" /\ LoopUnchanged
        /\ UNCHANGED <<inputOpen, coreOpen, jobs, waits, remaining, attached>>
    BY <1>1 DEF RecvHello, Takes, jobVars, waitVars
  <1>3. b \in Barrier /\ barrier \in Barrier /\ i \in Nat
    BY <1>1, BarrierTypes, LoopStart DEF Takes
  <1>4. CASE /\ HelloAdmitted(barrier) /\ barrier' = b /\ log' = Append(log, Entry("forward", i))
             /\ Forward(Entry("frame", i)) /\ UNCHANGED release
    <2>1. /\ ~barrier.failed /\ ~barrier.seen /\ b.failed = barrier.failed /\ b.seen = TRUE
          /\ b.ack = TRUE /\ b.accept = barrier.accept
          /\ b.deferred = barrier.deferred /\ b.droppedJobs = barrier.droppedJobs
      <3>1. HelloAdmitted(barrier)
        BY <1>4
      <3> QED  BY <1>3, <3>1 DEF HelloAdmitted, observe_hello, Barrier
    <2>2. pc' = "send" /\ hand' = Entry("frame", i)
      BY <1>4 DEF Forward
    <2> HIDE DEF b
    <2>3. HeldKept
      BY <1>2, <1>4, <2>1, <2>2 DEF HeldKept, Queue, Counted
    <2>4. Shape'
      BY <1>2, <1>4, <2>1, <2>2 DEF Shape, pending
    <2> QED  BY <1>1, <1>2, <1>4, <2>1, <2>2, <2>3, <2>4 DEF Admits
  <1>5. CASE ~HelloAdmitted(barrier) /\ Settle(b) /\ UNCHANGED log
    <2>1. b = defer_protocol_error(barrier, i)
      BY <1>3, <1>5, ObserveFacts
    <2>2. /\ Flags(b, barrier) /\ b.droppedJobs = barrier.droppedJobs
          /\ b.deferred = barrier.deferred \/ b.deferred = Append(barrier.deferred, ProtocolError(i))
      BY <1>3, <2>1, DeferErrorFacts
    <2> HIDE DEF b
    <2>3. b.failed => ~pending(b)
      BY <2>2 DEF Shape, Flags, pending
    <2>4. /\ pc' \in {"sample", "flush"} /\ hand' = Entry("none", 0)
          /\ barrier'.failed = b.failed /\ barrier'.seen = b.seen
          /\ barrier'.ack = b.ack /\ barrier'.accept = b.accept
          /\ Queue' = b.deferred /\ Counted' = b.droppedJobs /\ Shape'
      BY <1>2, <1>3, <1>5, <2>3, SettleFacts
    <2>5. Queue = barrier.deferred /\ Counted = barrier.droppedJobs
      BY <1>2 DEF Queue, Counted
    <2> QED  BY <1>1, <1>2, <1>5, <2>2, <2>4, <2>5 DEF Refuses, GatesKept, Flags
  <1> QED  BY <1>1, <1>4, <1>5 DEF RecvHello

\* A turn.start.
LEMMA TurnFacts ==
    ASSUME TypeOK, Shape, RecvTurn
    PROVE  /\ Takes("frame") /\ outer[1].k = "turn" /\ Shape' /\ LoopUnchanged
           /\ UNCHANGED <<inputOpen, coreOpen, jobs, waits, remaining, attached>>
           /\ \/ /\ Admits(outer[1].id) /\ ~barrier.accept
                 /\ barrier'.seen = barrier.seen /\ barrier'.ack = barrier.ack
                 /\ barrier'.accept = TRUE
              \/ Refuses(outer[1].id)
  <1> DEFINE i == outer[1].id
             b == observe_turn_start(barrier, i)
  <1>1. Takes("frame") /\ Head(outer) = outer[1]
    BY TakesFacts DEF RecvTurn
  <1>2. /\ pc = "recv" /\ outer[1].k = "turn" /\ LoopUnchanged
        /\ UNCHANGED <<inputOpen, coreOpen, jobs, waits, remaining, attached>>
    BY <1>1 DEF RecvTurn, Takes, jobVars, waitVars
  <1>3. b \in Barrier /\ barrier \in Barrier /\ i \in Nat
    BY <1>1, BarrierTypes, LoopStart DEF Takes
  <1>4. CASE /\ TurnAdmitted(barrier) /\ barrier' = b /\ log' = Append(log, Entry("forward", i))
             /\ Forward(Entry("frame", i)) /\ UNCHANGED release
    <2>1. /\ ~barrier.failed /\ ~barrier.accept /\ b.failed = barrier.failed /\ b.seen = barrier.seen
          /\ b.ack = barrier.ack /\ b.accept = TRUE
          /\ b.deferred = barrier.deferred /\ b.droppedJobs = barrier.droppedJobs
      <3>1. TurnAdmitted(barrier)
        BY <1>4
      <3> QED  BY <1>3, <3>1, ObserveFacts, ZenonT(40)
    <2>2. pc' = "send" /\ hand' = Entry("frame", i)
      BY <1>4 DEF Forward
    <2> HIDE DEF b
    <2>3. HeldKept
      BY <1>2, <1>4, <2>1, <2>2 DEF HeldKept, Queue, Counted
    <2>4. Shape'
      BY <1>2, <1>4, <2>1, <2>2 DEF Shape, pending
    <2> QED  BY <1>1, <1>2, <1>4, <2>1, <2>2, <2>3, <2>4 DEF Admits
  <1>5. CASE ~TurnAdmitted(barrier) /\ Settle(b) /\ UNCHANGED log
    <2>1. b = defer_protocol_error(barrier, i)
      BY <1>3, <1>5, ObserveFacts, ZenonT(40)
    <2>2. /\ Flags(b, barrier) /\ b.droppedJobs = barrier.droppedJobs
          /\ b.deferred = barrier.deferred \/ b.deferred = Append(barrier.deferred, ProtocolError(i))
      BY <1>3, <2>1, DeferErrorFacts
    <2> HIDE DEF b
    <2>3. b.failed => ~pending(b)
      BY <2>2 DEF Shape, Flags, pending
    <2>4. /\ pc' \in {"sample", "flush"} /\ hand' = Entry("none", 0)
          /\ barrier'.failed = b.failed /\ barrier'.seen = b.seen
          /\ barrier'.ack = b.ack /\ barrier'.accept = b.accept
          /\ Queue' = b.deferred /\ Counted' = b.droppedJobs /\ Shape'
      BY <1>2, <1>3, <1>5, <2>3, SettleFacts
    <2>5. Queue = barrier.deferred /\ Counted = barrier.droppedJobs
      BY <1>2 DEF Queue, Counted
    <2> QED  BY <1>1, <1>2, <1>5, <2>2, <2>4, <2>5 DEF Refuses, GatesKept, Flags
  <1> QED  BY <1>1, <1>4, <1>5 DEF RecvTurn

\* A job frame is dispatched: its effect, its refusal, or a wait.
Dispatched(i) ==
    \/ log' = Append(log, Entry("effect", i)) /\ UNCHANGED <<waits, remaining>>
    \/ log' = Append(log, Entry("refuse", i)) /\ UNCHANGED <<waits, remaining>>
    \/ log' = log /\ waits' = Append(waits, i) /\ UNCHANGED remaining

JobsMayStart(i) == jobs' = jobs \/ jobs' = [jobs EXCEPT ![i].st = "live"]

LEMMA DispatchFacts ==
    ASSUME NEW i, dispatch_job_frame(i)
    PROVE  Dispatched(i) /\ JobsMayStart(i) /\ (attached' => attached)
  BY DEF dispatch_job_frame, handle_job_frame, Dispatched, JobsMayStart, Deliver, waitVars, jobVars, writeVars

\* A job frame is queued, counted, refused or dispatched.
JobHandled(i) ==
    \/ /\ pending(barrier) /\ log' = log /\ UNCHANGED <<jobs, waits, remaining, attached>>
       /\ \/ /\ \E how \in {"dispatch", "refuse"} : Queue' = Append(Queue, Job(i, how))
             /\ Counted' = Counted
          \/ Queue' = Queue /\ Counted' = Counted \cup {i}
    \/ /\ ~pending(barrier) /\ log' = Append(log, Entry("refuse", i)) /\ HeldKept
       /\ UNCHANGED <<jobs, waits, remaining>>
    \/ ~pending(barrier) /\ ~barrier.failed /\ Dispatched(i) /\ JobsMayStart(i) /\ HeldKept

LEMMA JobFrameFacts ==
    ASSUME TypeOK, Shape, RecvJobFrame
    PROVE  /\ Takes("frame") /\ outer[1].k \in JobKind /\ Shape' /\ LoopUnchanged
           /\ UNCHANGED <<inputOpen, coreOpen>> /\ (attached' => attached)
           /\ pc' = "sample" /\ hand' = Entry("none", 0) /\ GatesKept
           /\ JobHandled(outer[1].id)
  <1> DEFINE i == outer[1].id
  <1>1. Takes("frame") /\ Head(outer) = outer[1]
    BY TakesFacts DEF RecvJobFrame
  <1>2. /\ pc = "recv" /\ outer[1].k \in JobKind /\ LoopUnchanged /\ pc' = "sample"
        /\ UNCHANGED <<inputOpen, coreOpen, release>> /\ hand' = Entry("none", 0)
    BY <1>1 DEF RecvJobFrame, Takes, Handled
  <1>3. barrier \in Barrier /\ i \in Nat
    BY <1>1, LoopStart DEF Takes
  <1>4. /\ Queue = barrier.deferred /\ Counted = barrier.droppedJobs
        /\ Queue' = barrier'.deferred /\ Counted' = barrier'.droppedJobs
    BY <1>2 DEF Queue, Counted
  <1>5. remaining = <<>> /\ release = NoRelease
    BY <1>2 DEF Shape
  <1>6. CASE /\ pending(barrier)
             /\ \E fits \in SUBSET {"dispatch", "refuse"} : barrier' = defer(barrier, i, fits)
             /\ UNCHANGED <<jobVars, writeVars>>
    <2>1. /\ Flags(barrier', barrier)
          /\ \/ /\ \E how \in {"dispatch", "refuse"} : barrier'.deferred = Append(barrier.deferred, Job(i, how))
                /\ barrier'.droppedJobs = barrier.droppedJobs
             \/ barrier'.deferred = barrier.deferred /\ barrier'.droppedJobs = barrier.droppedJobs \cup {i}
      BY <1>3, <1>6, DeferFacts
    <2>2. GatesKept
      BY <2>1 DEF GatesKept, Flags
    <2>3. Shape'
      BY <1>2, <1>5, <1>6, <2>1 DEF Shape, Flags, pending, jobVars, waitVars
    <2>4. JobHandled(i)
      BY <1>4, <1>6, <2>1 DEF JobHandled, jobVars, waitVars, writeVars
    <2> QED  BY <1>1, <1>2, <1>6, <2>2, <2>3, <2>4 DEF writeVars
  <1>7. CASE /\ ~pending(barrier) /\ barrier.failed /\ Deliver(Entry("refuse", i))
             /\ UNCHANGED <<barrier, jobVars>>
    <2>1. GatesKept /\ HeldKept
      BY <1>4, <1>7 DEF GatesKept, HeldKept
    <2>2. Shape'
      BY <1>2, <1>5, <1>7 DEF Shape, jobVars, waitVars, pending
    <2>3. JobHandled(i) /\ (attached' => attached)
      BY <1>7, <2>1 DEF JobHandled, Deliver, jobVars, waitVars
    <2> QED  BY <1>1, <1>2, <2>1, <2>2, <2>3
  <1>8. CASE ~pending(barrier) /\ ~barrier.failed /\ dispatch_job_frame(i) /\ UNCHANGED barrier
    <2>1. GatesKept /\ HeldKept
      BY <1>4, <1>8 DEF GatesKept, HeldKept
    <2>2. Dispatched(i) /\ JobsMayStart(i) /\ (attached' => attached)
      BY <1>8, DispatchFacts
    <2>3. remaining' = <<>>
      BY <1>5, <2>2 DEF Dispatched
    <2>4. Shape'
      BY <1>2, <1>5, <1>8, <2>3 DEF Shape, pending
    <2> QED  BY <1>1, <1>2, <1>8, <2>1, <2>2, <2>4 DEF JobHandled
  <1> QED  BY <1>1, <1>6, <1>7, <1>8 DEF RecvJobFrame

\* A control, and the end of the input, go to the core.
LEMMA ControlFacts ==
    ASSUME TypeOK, Shape, RecvControl \/ RecvEof
    PROVE  /\ Shape' /\ LoopUnchanged /\ GatesKept /\ HeldKept /\ pc' = "send"
           /\ UNCHANGED <<coreOpen, jobs, waits, remaining, attached, log>>
           /\ \/ /\ Takes("frame") /\ outer[1].k = "control" /\ hand' = Entry("frame", outer[1].id)
                 /\ UNCHANGED inputOpen
              \/ Takes("eof") /\ hand' = Entry("eof", 0)
  <1>1. CASE RecvControl
    <2>1. Takes("frame") /\ Head(outer) = outer[1]
      BY <1>1, TakesFacts DEF RecvControl
    <2>2. /\ pc = "recv" /\ pc' = "send" /\ UNCHANGED <<barrier, release>>
      BY <1>1, <2>1 DEF RecvControl, Takes, Forward, barrierVars
    <2>3. GatesKept /\ HeldKept
      BY <2>2 DEF GatesKept, HeldKept, Queue, Counted
    <2>4. Shape'
      BY <1>1, <2>2 DEF Shape, RecvControl, jobVars, waitVars, pending
    <2> QED  BY <1>1, <2>1, <2>2, <2>3, <2>4 DEF RecvControl, Forward, jobVars, waitVars, writeVars
  <1>2. CASE RecvEof
    <2>1. Takes("eof") /\ Head(outer) = outer[1]
      BY <1>2, TakesFacts DEF RecvEof
    <2>2. /\ pc = "recv" /\ pc' = "send" /\ UNCHANGED <<barrier, release>>
      BY <1>2, <2>1 DEF RecvEof, Takes, Forward, barrierVars
    <2>3. GatesKept /\ HeldKept
      BY <2>2 DEF GatesKept, HeldKept, Queue, Counted
    <2>4. Shape'
      BY <1>2, <2>2 DEF Shape, RecvEof, jobVars, waitVars, pending
    <2> QED  BY <1>2, <2>1, <2>2, <2>3, <2>4 DEF RecvEof, Forward, jobVars, waitVars, writeVars
  <1> QED  BY <1>1, <1>2

\* The message in hand reaches the core.
LEMMA SendFacts ==
    ASSUME TypeOK, Shape, SendToCore
    PROVE  /\ Shape' /\ GatesKept /\ HeldKept /\ pc = "send" /\ pc' = "sample" /\ core.pc = "run"
           /\ inner' = Append(inner, hand) /\ hand' = Entry("none", 0)
           /\ UNCHANGED <<readerVars, outer, coreVars, pollVars, inputOpen, coreOpen, jobs, waits,
                          remaining, attached, log>>
  <1>1. pc = "send" /\ pc' = "sample" /\ UNCHANGED <<barrier, release>>
    BY DEF SendToCore, Handled, barrierVars
  <1>2. GatesKept /\ HeldKept
    BY <1>1 DEF GatesKept, HeldKept, Queue, Counted
  <1>3. Shape'
    BY <1>1 DEF Shape, SendToCore, jobVars, waitVars, pending
  <1> QED  BY <1>1, <1>2, <1>3 DEF SendToCore, Handled, jobVars, waitVars, writeVars

\* The core has returned: what waits for it fails.
LEMMA SendFailsFacts ==
    ASSUME TypeOK, Shape, SendFails
    PROVE  /\ Shape' /\ HeldKept /\ pc = "send" /\ pc' \in {"sample", "flush"}
           /\ hand' = Entry("none", 0) /\ core.pc # "run" /\ coreOpen' = FALSE
           /\ LoopUnchanged /\ UNCHANGED <<outer, inputOpen, jobs, waits, remaining, attached, log>>
           /\ ~pending(barrier') /\ (GatesFail \/ GatesKept)
  <1>1. /\ pc = "send" /\ core.pc # "run" /\ coreOpen' = FALSE /\ LoopUnchanged
        /\ UNCHANGED <<outer, inputOpen, jobs, waits, remaining, attached, log>>
    BY DEF SendFails, jobVars, waitVars, writeVars
  <1>2. Queue = barrier.deferred /\ Counted = barrier.droppedJobs
    BY <1>1 DEF Queue, Counted
  <1>3. CASE Settle(fail(barrier))
    <2> DEFINE b == fail(barrier)
    <2>1. b \in Barrier /\ barrier \in Barrier
      BY BarrierTypes, LoopStart
    <2>2. /\ b.failed = TRUE /\ b.ack = FALSE /\ b.accept = FALSE /\ b.seen = barrier.seen
          /\ b.deferred = barrier.deferred /\ b.droppedJobs = barrier.droppedJobs
      BY <2>1, ResolveFacts
    <2>3. Settle(b)
      BY <1>3
    <2> HIDE DEF b
    <2>4. ~pending(b)
      BY <2>2 DEF pending
    <2>5. /\ pc' \in {"sample", "flush"} /\ hand' = Entry("none", 0)
          /\ barrier'.failed = b.failed /\ barrier'.seen = b.seen
          /\ barrier'.ack = b.ack /\ barrier'.accept = b.accept
          /\ Queue' = b.deferred /\ Counted' = b.droppedJobs /\ Shape'
      BY <1>1, <2>1, <2>3, <2>4, SettleFacts
    <2>6. GatesFail /\ HeldKept /\ ~pending(barrier')
      BY <1>2, <2>2, <2>5 DEF GatesFail, HeldKept, pending
    <2> QED  BY <1>1, <2>5, <2>6
  <1>4. CASE ~pending(barrier) /\ Handled /\ UNCHANGED barrierVars
    <2>1. GatesKept /\ HeldKept /\ pc' = "sample" /\ hand' = Entry("none", 0) /\ ~pending(barrier')
      BY <1>1, <1>4 DEF GatesKept, HeldKept, Queue, Counted, Handled, barrierVars, pending
    <2>2. Shape'
      BY <1>1, <1>4, <2>1 DEF Shape, barrierVars, pending
    <2> QED  BY <1>1, <2>1, <2>2
  <1> QED  BY <1>3, <1>4 DEF SendFails

\* A line of the core is delivered, and opens its gate, fails both, or has
\* no meaning for them.
LineHandled(k) ==
    \/ /\ k = "ack" /\ barrier'.failed = barrier.failed /\ barrier'.seen = barrier.seen
       /\ barrier'.ack = FALSE /\ barrier'.accept = barrier.accept
    \/ /\ k = "accepted" /\ barrier'.failed = barrier.failed /\ barrier'.seen = barrier.seen
       /\ barrier'.ack = barrier.ack /\ barrier'.accept = FALSE
    \/ GatesFail
    \/ GatesKept /\ ~pending(barrier)

\* Settling a resolution of a gate.
LEMMA ResolveSettles ==
    ASSUME TypeOK, Shape, pc = "recv", NEW b \in Barrier, Settle(b), b.failed => ~pending(b),
           b.deferred = barrier.deferred, b.droppedJobs = barrier.droppedJobs,
           waits' = waits, remaining' = remaining
    PROVE  /\ Shape' /\ HeldKept /\ pc' \in {"sample", "flush"} /\ hand' = Entry("none", 0)
           /\ barrier'.failed = b.failed /\ barrier'.seen = b.seen
           /\ barrier'.ack = b.ack /\ barrier'.accept = b.accept
  <1>1. Queue = barrier.deferred /\ Counted = barrier.droppedJobs
    BY DEF Queue, Counted
  <1>2. /\ pc' \in {"sample", "flush"} /\ hand' = Entry("none", 0)
        /\ barrier'.failed = b.failed /\ barrier'.seen = b.seen
        /\ barrier'.ack = b.ack /\ barrier'.accept = b.accept
        /\ Queue' = b.deferred /\ Counted' = b.droppedJobs /\ Shape'
    BY SettleFacts
  <1> QED  BY <1>1, <1>2 DEF HeldKept

LEMMA LineFacts ==
    ASSUME TypeOK, Shape, RecvCoreLine
    PROVE  /\ Takes("line") /\ Shape' /\ HeldKept /\ LoopUnchanged /\ (attached' => attached)
           /\ UNCHANGED <<inputOpen, coreOpen, jobs, waits, remaining>>
           /\ pc' \in {"sample", "flush"} /\ hand' = Entry("none", 0)
           /\ log' = Append(log, Entry(outer[1].k, outer[1].id))
           /\ LineHandled(outer[1].k)
  <1> DEFINE k == outer[1].k
             line == Entry(k, outer[1].id)
  <1>1. Takes("line") /\ Head(outer) = outer[1]
    BY TakesFacts DEF RecvCoreLine
  <1>2. /\ pc = "recv" /\ LoopUnchanged /\ UNCHANGED <<inputOpen, coreOpen, jobs, waits, remaining>>
        /\ log' = Append(log, line) /\ (attached' => attached) /\ line.k = k
    BY <1>1 DEF RecvCoreLine, Takes, Deliver, jobVars, waitVars, Entry
  <1>3. \/ k = "ack" /\ barrier.ack /\ Settle(acknowledge_hello(barrier))
        \/ k = "accepted" /\ barrier.accept /\ Settle(mark_turn_accepted(barrier))
        \/ pending(barrier) /\ Settle(fail(barrier))
        \/ /\ ~pending(barrier) /\ Handled
           /\ barrier' \in {observe_turn_end(barrier), barrier} /\ UNCHANGED release
    BY <1>1 DEF RecvCoreLine, Entry
  <1>4. barrier \in Barrier
    BY LoopStart
  <1>5. CASE k = "ack" /\ barrier.ack /\ Settle(acknowledge_hello(barrier))
    <2> DEFINE b == acknowledge_hello(barrier)
    <2>1. b \in Barrier /\ Settle(b)
      BY <1>4, <1>5, BarrierTypes
    <2>2. /\ b.failed = barrier.failed /\ b.ack = FALSE /\ b.accept = barrier.accept
          /\ b.seen = barrier.seen
          /\ b.deferred = barrier.deferred /\ b.droppedJobs = barrier.droppedJobs
      BY <1>4, ResolveFacts
    <2> HIDE DEF b
    <2>3. b.failed => ~pending(b)
      BY <2>2 DEF Shape, pending
    <2>4. /\ Shape' /\ HeldKept /\ pc' \in {"sample", "flush"} /\ hand' = Entry("none", 0)
          /\ barrier'.failed = b.failed /\ barrier'.seen = b.seen
          /\ barrier'.ack = b.ack /\ barrier'.accept = b.accept
      BY <1>2, <2>1, <2>2, <2>3, ResolveSettles
    <2> QED  BY <1>1, <1>2, <1>5, <2>2, <2>4 DEF LineHandled
  <1>6. CASE k = "accepted" /\ barrier.accept /\ Settle(mark_turn_accepted(barrier))
    <2> DEFINE b == mark_turn_accepted(barrier)
    <2>1. b \in Barrier /\ Settle(b)
      BY <1>4, <1>6, BarrierTypes
    <2>2. /\ b.failed = barrier.failed /\ b.ack = barrier.ack /\ b.accept = FALSE
          /\ b.seen = barrier.seen
          /\ b.deferred = barrier.deferred /\ b.droppedJobs = barrier.droppedJobs
      BY <1>4, ResolveFacts
    <2> HIDE DEF b
    <2>3. b.failed => ~pending(b)
      BY <2>2 DEF Shape, pending
    <2>4. /\ Shape' /\ HeldKept /\ pc' \in {"sample", "flush"} /\ hand' = Entry("none", 0)
          /\ barrier'.failed = b.failed /\ barrier'.seen = b.seen
          /\ barrier'.ack = b.ack /\ barrier'.accept = b.accept
      BY <1>2, <2>1, <2>2, <2>3, ResolveSettles
    <2> QED  BY <1>1, <1>2, <1>6, <2>2, <2>4 DEF LineHandled
  <1>7. CASE pending(barrier) /\ Settle(fail(barrier))
    <2> DEFINE b == fail(barrier)
    <2>1. b \in Barrier /\ Settle(b)
      BY <1>4, <1>7, BarrierTypes
    <2>2. /\ b.failed = TRUE /\ b.ack = FALSE /\ b.accept = FALSE /\ b.seen = barrier.seen
          /\ b.deferred = barrier.deferred /\ b.droppedJobs = barrier.droppedJobs
      BY <1>4, ResolveFacts
    <2> HIDE DEF b
    <2>3. b.failed => ~pending(b)
      BY <2>2 DEF pending
    <2>4. /\ Shape' /\ HeldKept /\ pc' \in {"sample", "flush"} /\ hand' = Entry("none", 0)
          /\ barrier'.failed = b.failed /\ barrier'.seen = b.seen
          /\ barrier'.ack = b.ack /\ barrier'.accept = b.accept
      BY <1>2, <2>1, <2>2, <2>3, ResolveSettles
    <2> QED  BY <1>1, <1>2, <2>2, <2>4 DEF LineHandled, GatesFail
  <1>8. CASE /\ ~pending(barrier) /\ Handled
             /\ barrier' \in {observe_turn_end(barrier), barrier} /\ UNCHANGED release
    <2>1. /\ GatesKept /\ barrier'.deferred = barrier.deferred
          /\ barrier'.droppedJobs = barrier.droppedJobs
      <3>1. CASE barrier' = observe_turn_end(barrier)
        <4> DEFINE c == observe_turn_end(barrier)
        <4>1. /\ c.failed = barrier.failed /\ c.ack = barrier.ack /\ c.accept = barrier.accept
              /\ c.seen = barrier.seen
              /\ c.deferred = barrier.deferred /\ c.droppedJobs = barrier.droppedJobs
          BY <1>4, ResolveFacts
        <4>2. barrier' = c
          BY <3>1
        <4> HIDE DEF c
        <4> QED  BY <4>1, <4>2 DEF GatesKept
      <3>2. CASE barrier' = barrier
        BY <3>2 DEF GatesKept
      <3> QED  BY <1>8, <3>1, <3>2
    <2>2. pc' = "sample" /\ hand' = Entry("none", 0)
      BY <1>8 DEF Handled
    <2>3. HeldKept
      BY <1>2, <1>8, <2>1, <2>2 DEF HeldKept, Queue, Counted
    <2>4. Shape'
      BY <1>2, <1>8, <2>1, <2>2 DEF Shape, GatesKept, pending
    <2> QED  BY <1>1, <1>2, <1>8, <2>1, <2>2, <2>3, <2>4 DEF LineHandled
  <1> QED  BY <1>3, <1>5, <1>6, <1>7, <1>8

\* The core is complete: what waits for it fails.
LEMMA CompleteFacts ==
    ASSUME TypeOK, Shape, RecvCoreComplete
    PROVE  /\ Takes("complete") /\ Shape' /\ HeldKept /\ LoopUnchanged /\ (attached' => attached)
           /\ UNCHANGED <<inputOpen, jobs, waits, remaining>> /\ coreOpen' = FALSE
           /\ pc' \in {"sample", "flush"} /\ hand' = Entry("none", 0)
           /\ log' = log \/ log' = Append(log, Entry("core failed", 0))
           /\ ~pending(barrier') /\ (GatesFail \/ GatesKept)
  <1>1. Takes("complete") /\ Head(outer) = outer[1]
    BY TakesFacts DEF RecvCoreComplete
  <1>2. /\ pc = "recv" /\ LoopUnchanged /\ UNCHANGED <<inputOpen, jobs, waits, remaining>>
        /\ coreOpen' = FALSE
    BY <1>1 DEF RecvCoreComplete, Takes, jobVars, waitVars
  <1>3. (attached' => attached) /\ (log' = log \/ log' = Append(log, Entry("core failed", 0)))
    BY DEF RecvCoreComplete, Deliver, writeVars
  <1>4. barrier \in Barrier
    BY LoopStart
  <1>5. CASE Settle(fail(barrier))
    <2> DEFINE b == fail(barrier)
    <2>1. b \in Barrier /\ Settle(b)
      BY <1>4, <1>5, BarrierTypes
    <2>2. /\ b.failed = TRUE /\ b.ack = FALSE /\ b.accept = FALSE /\ b.seen = barrier.seen
          /\ b.deferred = barrier.deferred /\ b.droppedJobs = barrier.droppedJobs
      BY <1>4, ResolveFacts
    <2> HIDE DEF b
    <2>3. b.failed => ~pending(b)
      BY <2>2 DEF pending
    <2>4. /\ Shape' /\ HeldKept /\ pc' \in {"sample", "flush"} /\ hand' = Entry("none", 0)
          /\ barrier'.failed = b.failed /\ barrier'.seen = b.seen
          /\ barrier'.ack = b.ack /\ barrier'.accept = b.accept
      BY <1>2, <2>1, <2>2, <2>3, ResolveSettles
    <2>5. GatesFail /\ ~pending(barrier')
      BY <2>2, <2>4 DEF GatesFail, pending
    <2> QED  BY <1>1, <1>2, <1>3, <2>4, <2>5
  <1>6. CASE ~pending(barrier) /\ Handled /\ UNCHANGED barrierVars
    <2>1. GatesKept /\ HeldKept /\ pc' = "sample" /\ hand' = Entry("none", 0) /\ ~pending(barrier')
      BY <1>2, <1>6 DEF GatesKept, HeldKept, Queue, Counted, Handled, barrierVars, pending
    <2>2. Shape'
      BY <1>2, <1>6, <2>1 DEF Shape, barrierVars, pending
    <2> QED  BY <1>1, <1>2, <1>3, <2>1, <2>2
  <1> QED  BY <1>5, <1>6 DEF RecvCoreComplete

\* Nothing to receive.
LEMMA TimeoutFacts ==
    ASSUME TypeOK, Shape, RecvTimeout \/ Sample
    PROVE  /\ Shape' /\ HeldKept /\ GatesKept /\ pc \in {"recv", "sample"} /\ pc' \in {"sample", "poll"}
           /\ pc = "recv" <=> pc' = "sample"
           /\ UNCHANGED <<barrier, readerVars, outer, inner, coreVars, inputOpen, coreOpen, jobs, waits,
                          remaining, attached, log>>
  <1>1. /\ pc \in {"recv", "sample"} /\ pc' \in {"sample", "poll"} /\ (pc = "recv" <=> pc' = "sample")
        /\ UNCHANGED <<barrier, release>>
        /\ UNCHANGED <<readerVars, outer, inner, coreVars, inputOpen, coreOpen, jobs, waits,
                       remaining, attached, log>>
    BY DEF RecvTimeout, Sample, Handled, LoopUnchanged, barrierVars, jobVars, waitVars, writeVars
  <1>2. GatesKept /\ HeldKept
    BY <1>1 DEF GatesKept, HeldKept, Queue, Counted
  <1>3. Shape'
    BY <1>1 DEF Shape, pending
  <1> QED  BY <1>1, <1>2, <1>3

\* One deferred action: an error line, a refusal or a dispatch.
LEMMA FlushActionFacts ==
    ASSUME TypeOK, Shape, FlushAction
    PROVE  LET a == Queue[1] IN
           /\ pc = "flush" /\ pc' = "flush" /\ Shape' /\ GatesKept /\ ~pending(barrier)
           /\ Queue # <<>> /\ Queue \in Seq(Action) /\ Queue' = Tail(Queue) /\ Counted' = Counted
           /\ LoopUnchanged /\ UNCHANGED <<barrier, hand, outer, inputOpen, coreOpen>>
           /\ (attached' => attached)
           /\ \/ /\ a.t = "error" /\ log' = Append(log, Entry("error", a.id))
                 /\ UNCHANGED <<jobs, waits, remaining>>
              \/ /\ a.t = "job" /\ log' = Append(log, Entry("refuse", a.id))
                 /\ UNCHANGED <<jobs, waits, remaining>>
              \/ /\ a.t = "job" /\ ~barrier.failed /\ Dispatched(a.id) /\ JobsMayStart(a.id)
  <1> DEFINE a == Head(release.actions)
  <1>1. /\ pc = "flush" /\ pc' = "flush" /\ UNCHANGED barrier /\ LoopUnchanged
        /\ UNCHANGED <<hand, outer, inputOpen, coreOpen>> /\ release.actions # <<>>
        /\ release' = [release EXCEPT !.actions = Tail(@)]
    BY DEF FlushAction, FlushUnchanged
  <1>2. Queue = release.actions /\ Counted = release.jobs /\ Queue \in Seq(Action)
    BY <1>1 DEF Queue, Counted, TypeOK, Held
  <1>3. a = Queue[1]
    BY <1>1, <1>2, Shrinks
  <1>4. /\ release'.actions = Tail(release.actions) /\ release'.jobs = release.jobs
        /\ release'.failed = release.failed
    BY <1>1 DEF TypeOK, Held
  <1>5. Queue' = Tail(Queue) /\ Counted' = Counted
    BY <1>1, <1>2, <1>4 DEF Queue, Counted
  <1>6. ~pending(barrier) /\ release.failed = barrier.failed /\ remaining = <<>>
    BY <1>1 DEF Shape
  <1>7. \/ a.t = "error" /\ Deliver(Entry("error", a.id)) /\ UNCHANGED jobVars
        \/ a.t = "job" /\ Deliver(Entry("refuse", a.id)) /\ UNCHANGED jobVars
        \/ a.t = "job" /\ ~release.failed /\ dispatch_job_frame(a.id)
    BY DEF FlushAction
  <1>8. /\ (attached' => attached)
        /\ \/ /\ a.t = "error" /\ log' = Append(log, Entry("error", a.id))
              /\ UNCHANGED <<jobs, waits, remaining>>
           \/ /\ a.t = "job" /\ log' = Append(log, Entry("refuse", a.id))
              /\ UNCHANGED <<jobs, waits, remaining>>
           \/ /\ a.t = "job" /\ ~barrier.failed /\ Dispatched(a.id) /\ JobsMayStart(a.id)
    <2>1. CASE a.t = "error" /\ Deliver(Entry("error", a.id)) /\ UNCHANGED jobVars
      BY <2>1 DEF Deliver, jobVars, waitVars
    <2>2. CASE a.t = "job" /\ Deliver(Entry("refuse", a.id)) /\ UNCHANGED jobVars
      BY <2>2 DEF Deliver, jobVars, waitVars
    <2>3. CASE a.t = "job" /\ ~release.failed /\ dispatch_job_frame(a.id)
      BY <1>6, <2>3, DispatchFacts
    <2> QED  BY <1>7, <2>1, <2>2, <2>3
  <1>9. remaining' = <<>>
    BY <1>6, <1>8 DEF Dispatched
  <1>10. Shape'
    BY <1>1, <1>4, <1>6, <1>9 DEF Shape, pending
  <1> QED  BY <1>1, <1>2, <1>3, <1>5, <1>6, <1>8, <1>10 DEF GatesKept

\* The counts of what found no room, and the end of the flush.
LEMMA FlushEndFacts ==
    ASSUME TypeOK, Shape, FlushSummary \/ FlushSuppressed \/ FlushDone
    PROVE  /\ pc = "flush" /\ pc' \in {"flush", "sample"} /\ Shape' /\ GatesKept
           /\ LoopUnchanged /\ (attached' => attached) /\ hand' \in {hand, Entry("none", 0)}
           /\ UNCHANGED <<barrier, outer, inputOpen, coreOpen, jobs, waits, remaining>>
           /\ Queue' = Queue
           /\ \/ log' = Append(log, Entry("summary", Counted)) /\ Counted' = {}
              \/ /\ log' = Append(log, Entry("suppressed", release.errors)) /\ Counted' = Counted
              \/ log' = log /\ Counted' = Counted
  <1>1. /\ pc = "flush" /\ pc' \in {"flush", "sample"} /\ UNCHANGED barrier /\ LoopUnchanged
        /\ UNCHANGED <<outer, inputOpen, coreOpen, jobs, waits, remaining>>
        /\ hand' \in {hand, Entry("none", 0)}
    BY DEF FlushSummary, FlushSuppressed, FlushDone, FlushUnchanged, Handled, jobVars, waitVars
  <1>2. Queue = release.actions /\ Counted = release.jobs
    BY <1>1 DEF Queue, Counted
  <1>3. ~pending(barrier) /\ release.failed = barrier.failed /\ remaining = <<>>
    BY <1>1 DEF Shape
  <1>4. GatesKept
    BY <1>1 DEF GatesKept
  <1>5. CASE FlushSummary
    <2>1. release'.actions = release.actions /\ release'.jobs = {} /\ release'.failed = release.failed
      BY <1>5 DEF FlushSummary, TypeOK, Held
    <2>2. pc' = "flush" /\ log' = Append(log, Entry("summary", Counted)) /\ (attached' => attached)
      BY <1>2, <1>5 DEF FlushSummary, Deliver
    <2>3. Queue' = Queue /\ Counted' = {}
      BY <1>2, <2>1, <2>2 DEF Queue, Counted
    <2>4. Shape'
      BY <1>1, <1>3, <2>1, <2>2 DEF Shape, pending
    <2> QED  BY <1>1, <1>4, <2>2, <2>3, <2>4
  <1>6. CASE FlushSuppressed
    <2>1. /\ release'.actions = release.actions /\ release'.jobs = release.jobs
          /\ release'.failed = release.failed
      BY <1>6 DEF FlushSuppressed, TypeOK, Held
    <2>2. /\ pc' = "flush" /\ log' = Append(log, Entry("suppressed", release.errors))
          /\ (attached' => attached)
      BY <1>6 DEF FlushSuppressed, Deliver
    <2>3. Queue' = Queue /\ Counted' = Counted
      BY <1>2, <2>1, <2>2 DEF Queue, Counted
    <2>4. Shape'
      BY <1>1, <1>3, <2>1, <2>2 DEF Shape, pending
    <2> QED  BY <1>1, <1>4, <2>2, <2>3, <2>4
  <1>7. CASE FlushDone
    <2>1. /\ release.actions = <<>> /\ release.jobs = {} /\ release' = NoRelease /\ pc' = "sample"
          /\ log' = log /\ attached' = attached
      BY <1>7 DEF FlushDone, Handled, writeVars
    <2>2. barrier.deferred = <<>> /\ barrier.droppedJobs = {}
      BY <1>3 DEF Shape
    <2>3. Queue' = Queue /\ Counted' = Counted
      BY <1>1, <1>2, <2>1, <2>2 DEF Queue, Counted
    <2>4. Shape'
      BY <1>1, <1>3, <2>1, <2>2 DEF Shape, pending
    <2> QED  BY <1>1, <1>4, <2>1, <2>3, <2>4
  <1> QED  BY <1>5, <1>6, <1>7

\* The poll of a job.
LEMMA PollFacts ==
    ASSUME TypeOK, Shape, NEW i \in Frame, poll_job_events(i)
    PROVE  /\ pc = "poll" /\ pc' = "poll" /\ Shape' /\ GatesKept /\ HeldKept
           /\ UNCHANGED <<barrier, readerVars, outer, inner, coreVars, hand, inputOpen, coreOpen, waits,
                          remaining, log>>
           /\ (attached' => attached)
  <1>1. /\ pc = "poll" /\ i \in poll /\ poll' = poll \ {i} /\ UNCHANGED log
        /\ UNCHANGED <<readerVars, outer, inner, coreVars, barrierVars, loopVars, live, waitVars>>
        /\ attached' = attached \/ attached' = FALSE
    BY PollCases
  <1>2. pc' = "poll" /\ UNCHANGED <<barrier, release, hand, inputOpen, coreOpen, waits, remaining>>
    BY <1>1 DEF loopVars, barrierVars, waitVars
  <1>3. GatesKept /\ HeldKept
    BY <1>1, <1>2 DEF GatesKept, HeldKept, Queue, Counted
  <1>4. remaining = <<>>
    BY <1>1 DEF Shape
  <1>5. Shape'
    BY <1>1, <1>2, <1>4 DEF Shape, pending
  <1> QED  BY <1>1, <1>2, <1>3, <1>5

\* One wait is answered or kept.
LEMMA WaitFacts ==
    ASSUME TypeOK, Shape, poll_job_waits
    PROVE  /\ pc = "poll" /\ pc' = "poll" /\ Shape' /\ GatesKept /\ HeldKept
           /\ UNCHANGED <<barrier, readerVars, outer, inner, coreVars, hand, inputOpen, coreOpen, jobs,
                          poll, live, more>>
           /\ (attached' => attached) /\ waits # <<>> /\ waits' = Tail(waits)
           /\ \/ log' = Append(log, Entry("waited", waits[1])) /\ UNCHANGED remaining
              \/ log' = log /\ remaining' = Append(remaining, waits[1])
  <1>1. /\ pc = "poll" /\ poll = {} /\ ~pending(barrier) /\ waits # <<>> /\ waits' = Tail(waits)
        /\ UNCHANGED <<pc, poll, barrier, release, readerVars, outer, inner, coreVars, hand, inputOpen,
                       coreOpen, jobs, live, more>>
    BY DEF poll_job_waits, loopVars, barrierVars, pollVars
  <1>2. Head(waits) = waits[1]
    BY <1>1, LoopStart, Shrinks
  <1>3. /\ (attached' => attached)
        /\ \/ log' = Append(log, Entry("waited", waits[1])) /\ UNCHANGED remaining
           \/ log' = log /\ remaining' = Append(remaining, waits[1])
    BY <1>2 DEF poll_job_waits, Deliver, writeVars
  <1>4. GatesKept /\ HeldKept
    BY <1>1 DEF GatesKept, HeldKept, Queue, Counted
  <1>5. Shape'
    BY <1>1 DEF Shape, pending
  <1> QED  BY <1>1, <1>3, <1>4, <1>5

\* The end of a round.
LEMMA FinishFacts ==
    ASSUME TypeOK, Shape, FinishRound
    PROVE  /\ pc = "poll" /\ poll = {} /\ pc' \in {"recv", "exit"} /\ Shape' /\ GatesKept /\ HeldKept
           /\ UNCHANGED <<barrier, readerVars, outer, inner, coreVars, hand, inputOpen, coreOpen, jobs,
                          log, attached>>
           /\ remaining' = <<>>
           /\ \/ ~attached /\ waits' = <<>>
              \/ pending(barrier) /\ remaining = <<>> /\ waits' = waits
              \/ ~pending(barrier) /\ waits = <<>> /\ waits' = remaining
           /\ pc' = "exit" => ~coreOpen /\ ~live /\ waits' = <<>> /\ (attached => ~more)
  <1>1. /\ pc = "poll" /\ poll = {} /\ pc' \in {"recv", "exit"}
        /\ UNCHANGED <<barrier, release>> /\ remaining' = <<>>
        /\ UNCHANGED <<readerVars, outer, inner, coreVars, hand, inputOpen, coreOpen, jobs, log, attached>>
    BY DEF FinishRound, barrierVars, writeVars
  <1>2. GatesKept /\ HeldKept
    BY <1>1 DEF GatesKept, HeldKept, Queue, Counted
  <1>3. \/ ~attached /\ waits' = <<>>
        \/ pending(barrier) /\ remaining = <<>> /\ waits' = waits
        \/ ~pending(barrier) /\ waits = <<>> /\ waits' = remaining
    BY DEF FinishRound, Shape
  <1>4. pc' = "exit" => ~coreOpen /\ ~live /\ waits' = <<>> /\ (attached => ~more)
    BY DEF FinishRound, MayReturn
  <1>5. Shape'
    BY <1>1 DEF Shape, pending
  <1> QED  BY <1>1, <1>2, <1>3, <1>4, <1>5

\* The steps of the other threads, of the jobs and of the clock.
Outside == Reader \/ Core \/ Worker \/ \E i \in Frame : JobStep(i) \/ Deadline(i)

LEMMA OutsideFacts ==
    ASSUME TypeOK, Shape, Outside
    PROVE  /\ UNCHANGED <<barrier, release, pc, hand, inputOpen, coreOpen, waits, remaining, poll, live,
                          more, attached, log>>
           /\ Shape' /\ GatesKept /\ HeldKept
  <1>1. UNCHANGED <<barrier, release, pc, hand, inputOpen, coreOpen, waits, remaining, poll, live,
                    more, attached, log>>
    <2>1. CASE Reader
      BY <2>1 DEF Reader, ReadFrame, ReadEof, barrierVars, loopVars, pollVars, jobVars, waitVars, writeVars
    <2>2. CASE CoreFrame \/ CoreEof \/ CoreTurnEnd \/ CoreReturn \/ Worker
      <3>1. CoreUnchanged
        BY <2>2 DEF CoreFrame, CoreEof, CoreTurnEnd, CoreReturn, Worker
      <3> QED  BY <3>1 DEF CoreUnchanged, barrierVars, loopVars, pollVars, jobVars, waitVars
    <2>3. CASE CoreWrite \/ CoreComplete
      BY <2>3 DEF CoreWrite, CoreComplete, barrierVars, loopVars, pollVars, jobVars, waitVars, writeVars
    <2>4. CASE \E i \in Frame : JobStep(i) \/ Deadline(i)
      BY <2>4 DEF JobStep, Deadline, JobUnchanged, barrierVars, loopVars, pollVars, waitVars, writeVars
    <2> QED  BY <2>1, <2>2, <2>3, <2>4 DEF Outside, Core
  <1>2. GatesKept /\ HeldKept
    BY <1>1 DEF GatesKept, HeldKept, Queue, Counted
  <1>3. Shape'
    BY <1>1 DEF Shape, pending
  <1> QED  BY <1>1, <1>2, <1>3

\* Every step is a step of the loop, one outside of it, or none.
LEMMA StepKinds ==
    ASSUME [Next]_vars
    PROVE  \/ RecvHello \/ RecvTurn \/ RecvJobFrame \/ RecvControl \/ RecvEof
           \/ SendToCore \/ SendFails \/ RecvCoreLine \/ RecvCoreComplete
           \/ RecvTimeout \/ Sample
           \/ FlushAction \/ FlushSummary \/ FlushSuppressed \/ FlushDone
           \/ (\E i \in Frame : poll_job_events(i)) \/ poll_job_waits \/ FinishRound
           \/ Outside \/ UNCHANGED vars
  BY JobSteps DEF Next, Loop, Halted, Outside

\* The control keeps its shape.
LEMMA ShapeSteps == TypeOK /\ Shape /\ [Next]_vars => Shape'
  <1> SUFFICES ASSUME TypeOK, Shape, [Next]_vars PROVE Shape'
    OBVIOUS
  <1>1. CASE UNCHANGED vars
    BY <1>1 DEF vars, Shape, pending, barrierVars, loopVars, pollVars, jobVars, waitVars
  <1> QED  BY <1>1, StepKinds, HelloFacts, TurnFacts, JobFrameFacts, ControlFacts, SendFacts,
              SendFailsFacts, LineFacts, CompleteFacts, TimeoutFacts, FlushActionFacts, FlushEndFacts,
              PollFacts, WaitFacts, FinishFacts, OutsideFacts

-----------------------------------------------------------------------------
(* Frames come in order, and ids once received stay below them *)

OuterKept == outer' = outer /\ sent' = sent
OuterPopped == pc = "recv" /\ outer # <<>> /\ outer' = Tail(outer) /\ sent' = sent
OuterRead(k) == /\ sent' = Append(sent, k)
                /\ outer' = Append(outer, Message("frame", Entry(k, Len(sent) + 1)))
OuterPosted(e) == e.t # "frame" /\ outer' = Append(outer, e) /\ sent' = sent

\* A frame is read into the channel.
LEMMA ReadFrameReads ==
    ASSUME TypeOK, ReadFrame
    PROVE  \E k \in FrameKind : OuterRead(k)
  <1> DEFINE k == script[Len(sent) + 1]
  <1>1. Len(sent) + 1 \in 1..Len(script)
    BY DEF ReadFrame, TypeOK
  <1>2. k \in FrameKind
    BY <1>1 DEF TypeOK
  <1>3. sent' = Append(sent, k) /\ sent'[Len(sent) + 1] = k
    BY <1>2 DEF ReadFrame, TypeOK
  <1>4. outer' = Append(outer, Message("frame", Entry(k, Len(sent) + 1)))
    BY <1>3 DEF ReadFrame
  <1> QED  BY <1>2, <1>3, <1>4 DEF OuterRead

LEMMA ReadMessage ==
    ASSUME TypeOK, NEW k \in FrameKind
    PROVE  LET e == Message("frame", Entry(k, Len(sent) + 1)) IN
           e \in Letter /\ e.t = "frame" /\ e.t # "line" /\ e.k = k /\ e.id = Len(sent) + 1
  <1> DEFINE e == Message("frame", Entry(k, Len(sent) + 1))
  <1>1. e = [t |-> "frame", k |-> k, id |-> Len(sent) + 1]
    BY DEF Message, Entry
  <1>2. Len(sent) + 1 \in Nat
    BY DEF TypeOK
  <1>3. k \in Word
    BY DEF FrameKind, Word
  <1> HIDE DEF e
  <1>4. e \in Letter /\ e.t = "frame" /\ e.t # "line" /\ e.k = k /\ e.id = Len(sent) + 1
    BY <1>1, <1>2, <1>3 DEF Letter
  <1> QED  BY <1>4 DEF e

\* What the steps outside the loop do with the channel to the loop.
LEMMA OutsideOuter ==
    ASSUME TypeOK, Outside
    PROVE  OuterKept \/ (\E k \in FrameKind : OuterRead(k)) \/ \E e \in Letter : OuterPosted(e)
  <1>1. CASE ReadFrame
    BY <1>1, ReadFrameReads
  <1>2. CASE ReadEof
    <2>1. Message("eof", Entry("eof", 0)) \in Letter
      BY DEF Message, Entry, Letter, Word
    <2>2. OuterPosted(Message("eof", Entry("eof", 0)))
      BY <1>2 DEF ReadEof, OuterPosted, Message
    <2> QED  BY <2>1, <2>2
  <1>3. CASE CoreWrite
    <2>1. Head(core.lines) \in Line
      BY <1>3, Shrinks DEF CoreWrite, TypeOK, CoreState
    <2>2. Message("line", Head(core.lines)) \in Letter
      BY <2>1 DEF Message, Letter, Line
    <2>3. OuterPosted(Message("line", Head(core.lines)))
      BY <1>3 DEF CoreWrite, OuterPosted, Message, readerVars
    <2> QED  BY <2>2, <2>3
  <1>4. CASE CoreComplete
    <2>1. Message("complete", Entry("complete", 0)) \in Letter
      BY DEF Message, Entry, Letter, Word
    <2>2. OuterPosted(Message("complete", Entry("complete", 0)))
      BY <1>4 DEF CoreComplete, OuterPosted, Message, readerVars
    <2> QED  BY <2>1, <2>2
  <1>5. CASE CoreFrame \/ CoreEof \/ CoreTurnEnd \/ CoreReturn \/ Worker
    <2>1. CoreUnchanged
      BY <1>5 DEF CoreFrame, CoreEof, CoreTurnEnd, CoreReturn, Worker
    <2> QED  BY <2>1 DEF CoreUnchanged, readerVars, OuterKept
  <1>6. CASE \E i \in Frame : JobStep(i) \/ Deadline(i)
    BY <1>6 DEF JobStep, Deadline, JobUnchanged, readerVars, OuterKept
  <1> QED  BY <1>1, <1>2, <1>3, <1>4, <1>5, <1>6 DEF Outside, Reader, Core

\* What a step does with the channel to the loop.
LEMMA OuterSteps ==
    ASSUME TypeOK, Shape, [Next]_vars
    PROVE  \/ OuterKept
           \/ OuterPopped
           \/ \E k \in FrameKind : OuterRead(k)
           \/ \E e \in Letter : OuterPosted(e)
  <1>1. CASE UNCHANGED vars
    BY <1>1 DEF vars, readerVars, OuterKept
  <1>2. CASE RecvHello \/ RecvTurn \/ RecvJobFrame \/ RecvControl \/ RecvEof \/ RecvCoreLine \/ RecvCoreComplete
    <2>1. (\E t : Takes(t)) /\ LoopUnchanged
      BY <1>2, HelloFacts, TurnFacts, JobFrameFacts, ControlFacts, LineFacts, CompleteFacts
    <2> QED  BY <2>1 DEF Takes, LoopUnchanged, readerVars, OuterPopped
  <1>3. CASE SendToCore \/ SendFails \/ RecvTimeout \/ Sample
    <2>1. UNCHANGED <<outer, readerVars>>
      BY <1>3, SendFacts, SendFailsFacts, TimeoutFacts DEF LoopUnchanged
    <2> QED  BY <2>1 DEF readerVars, OuterKept
  <1>4. CASE FlushAction \/ FlushSummary \/ FlushSuppressed \/ FlushDone
    <2>1. UNCHANGED <<outer, readerVars>>
      BY <1>4, FlushActionFacts, FlushEndFacts DEF LoopUnchanged
    <2> QED  BY <2>1 DEF readerVars, OuterKept
  <1>5. CASE (\E i \in Frame : poll_job_events(i)) \/ poll_job_waits \/ FinishRound
    <2>1. UNCHANGED <<outer, readerVars>>
      BY <1>5, PollFacts, WaitFacts, FinishFacts
    <2> QED  BY <2>1 DEF readerVars, OuterKept
  <1>6. CASE Outside
    BY <1>6, OutsideOuter
  <1> QED  BY <1>1, <1>2, <1>3, <1>4, <1>5, <1>6, StepKinds

\* Frames keep their order, and what was received stays received.
LEMMA KnownStays ==
    ASSUME TypeOK, Shape, InOrder, [Next]_vars
    PROVE  /\ InOrder'
           /\ \A i : Known(i) => Known(i)' /\ sent'[i] = sent[i]
  <1>0. outer \in Seq(Letter) /\ sent \in Seq(FrameKind)
    BY DEF TypeOK
  <1>1. CASE OuterKept
    BY <1>1 DEF OuterKept, InOrder, Known
  <1>2. CASE OuterPopped
    <2>1. /\ DOMAIN outer = 1..Len(outer) /\ Len(outer) \in Nat
          /\ DOMAIN outer' = 1..(Len(outer) - 1)
          /\ \A n \in 1..(Len(outer) - 1) : outer'[n] = outer[n + 1]
      BY <1>0, <1>2, Shrinks DEF OuterPopped
    <2>2. InOrder'
      BY <1>2, <2>1 DEF OuterPopped, InOrder
    <2>3. \A i : Known(i) => Known(i)'
      BY <1>2, <2>1 DEF OuterPopped, Known
    <2> QED  BY <1>2, <2>2, <2>3 DEF OuterPopped
  <1>3. ASSUME NEW k \in FrameKind, OuterRead(k)
        PROVE  InOrder' /\ \A i : Known(i) => Known(i)' /\ sent'[i] = sent[i]
    <2> DEFINE e == Message("frame", Entry(k, Len(sent) + 1))
    <2>1. /\ DOMAIN sent = 1..Len(sent) /\ Len(sent) \in Nat
          /\ DOMAIN sent' = 1..(Len(sent) + 1)
          /\ \A n \in 1..Len(sent) : sent'[n] = sent[n]
          /\ sent'[Len(sent) + 1] = k
      BY <1>0, <1>3, Grows DEF OuterRead
    <2>2. e \in Letter /\ e.t = "frame" /\ e.k = k /\ e.id = Len(sent) + 1
      BY ReadMessage
    <2>3. outer' = Append(outer, e)
      BY <1>3 DEF OuterRead
    <2> HIDE DEF e
    <2>4. /\ DOMAIN outer = 1..Len(outer) /\ Len(outer) \in Nat
          /\ DOMAIN outer' = 1..(Len(outer) + 1)
          /\ \A n \in 1..Len(outer) : outer'[n] = outer[n]
          /\ outer'[Len(outer) + 1] = e
      BY <1>0, <2>2, <2>3, Grows
    <2>5. InOrder'
      <3>1. \A n \in DOMAIN outer' : outer'[n].t = "frame" =>
                outer'[n].id \in DOMAIN sent' /\ outer'[n].k = sent'[outer'[n].id]
        BY <2>1, <2>2, <2>4 DEF InOrder
      <3>2. \A n, m \in DOMAIN outer' :
                n < m /\ outer'[n].t = "frame" /\ outer'[m].t = "frame" => outer'[n].id < outer'[m].id
        BY <2>1, <2>2, <2>4 DEF InOrder
      <3> QED  BY <3>1, <3>2 DEF InOrder
    <2>6. \A i : Known(i) => Known(i)'
      BY <2>1, <2>2, <2>4 DEF Known
    <2>7. \A i : Known(i) => sent'[i] = sent[i]
      BY <2>1 DEF Known
    <2> QED  BY <2>5, <2>6, <2>7
  <1>4. ASSUME NEW e \in Letter, OuterPosted(e)
        PROVE  InOrder' /\ \A i : Known(i) => Known(i)' /\ sent'[i] = sent[i]
    <2>1. /\ DOMAIN outer = 1..Len(outer) /\ Len(outer) \in Nat
          /\ DOMAIN outer' = 1..(Len(outer) + 1)
          /\ \A n \in 1..Len(outer) : outer'[n] = outer[n]
          /\ outer'[Len(outer) + 1] = e
      BY <1>0, <1>4, Grows DEF OuterPosted
    <2>2. InOrder'
      BY <1>4, <2>1 DEF OuterPosted, InOrder
    <2>3. \A i : Known(i) => Known(i)'
      BY <1>4, <2>1 DEF OuterPosted, Known
    <2> QED  BY <1>4, <2>2, <2>3 DEF OuterPosted
  <1> QED  BY <1>1, <1>2, <1>3, <1>4, OuterSteps

\* A frame just taken is new, and known from then on.
LEMMA FreshFrame ==
    ASSUME TypeOK, InOrder, Takes("frame"), sent' = sent
    PROVE  /\ \A i : i = outer[1].id => Known(i)'
           /\ outer[1].id \in Nat /\ sent[outer[1].id] = outer[1].k
           /\ \A i : Known(i) => i \in Nat /\ i < outer[1].id
  <1>0. outer \in Seq(Letter) /\ outer # <<>> /\ outer' = Tail(outer) /\ sent \in Seq(FrameKind)
    BY DEF TypeOK, Takes
  <1>1. /\ DOMAIN outer = 1..Len(outer) /\ Len(outer) \in Nat /\ Len(outer) >= 1
        /\ DOMAIN outer' = 1..(Len(outer) - 1)
        /\ \A n \in 1..(Len(outer) - 1) : outer'[n] = outer[n + 1]
    BY <1>0, Shrinks
  <1>2. 1 \in DOMAIN outer /\ outer[1].t = "frame" /\ outer[1].id \in Nat
    BY <1>1 DEF Takes
  <1>3. outer[1].id \in DOMAIN sent /\ sent[outer[1].id] = outer[1].k
    BY <1>2 DEF InOrder
  <1>4. ASSUME NEW i, i = outer[1].id
        PROVE  Known(i)'
    <2>1. i \in DOMAIN sent'
      BY <1>3, <1>4
    <2>2. \A n \in DOMAIN outer' : outer'[n].t = "frame" => i < outer'[n].id
      BY <1>1, <1>2, <1>4 DEF InOrder
    <2> QED  BY <2>1, <2>2 DEF Known
  <1>5. \A i : Known(i) => i \in Nat /\ i < outer[1].id
    BY <1>0, <1>2 DEF Known
  <1> QED  BY <1>2, <1>3, <1>4, <1>5

\* What holds before each step of the layers above.
ReceivedInv == TypeOK /\ Shape /\ InOrder /\ KnownIds

\* What is logged about a known frame leaves only known frames in the log.
LEMMA LogKnownGrows ==
    ASSUME TypeOK, LogKnown, \A i : Known(i) => Known(i)', NEW e \in Said, log' = Append(log, e),
           e.k \in OwnId => \A i : i = e.id => Known(i)',
           e.k = "summary" => \A i \in e.id : Known(i)'
    PROVE  LogKnown'
  <1>1. /\ DOMAIN log = 1..Len(log) /\ Len(log) \in Nat /\ DOMAIN log' = 1..(Len(log) + 1)
        /\ \A n \in 1..Len(log) : log'[n] = log[n]
        /\ log'[Len(log) + 1] = e
    BY Grows DEF TypeOK
  <1>2. \A p \in DOMAIN log' : log'[p].k \in OwnId => \A i : i = log'[p].id => Known(i)'
    BY <1>1 DEF LogKnown
  <1>3. \A p \in DOMAIN log' : log'[p].k = "summary" => \A i \in log'[p].id : Known(i)'
    BY <1>1 DEF LogKnown
  <1> QED  BY <1>2, <1>3 DEF LogKnown

\* An entry of the log.
LEMMA EntryFields ==
    ASSUME NEW k \in Word, NEW i \in Nat \cup SUBSET Nat
    PROVE  Entry(k, i) \in Said /\ Entry(k, i).k = k /\ Entry(k, i).id = i
  BY DEF Entry, Said

\* The words the loop logs, and whether they carry the id of a frame.
LEMMA Words ==
    /\ "forward" \in OwnId /\ "effect" \in OwnId /\ "refuse" \in OwnId /\ "waited" \in OwnId
    /\ "ack" \in OwnId /\ "accepted" \in OwnId
    /\ "error" \notin OwnId /\ "summary" \notin OwnId /\ "suppressed" \notin OwnId
    /\ "core failed" \notin OwnId
    /\ {"forward", "effect", "refuse", "waited", "ack", "accepted", "error", "summary", "suppressed",
        "core failed", "end", "other"} \subseteq Word
    /\ \A k \in OwnId : k \in Word /\ k # "summary"
  BY DEF OwnId, Answer, Word

\* An entry with the id of a known frame.
LEMMA LogsKnown ==
    ASSUME TypeOK, LogKnown, \A i : Known(i) => Known(i)', NEW k \in Word, k # "summary",
           NEW h \in Nat, log' = Append(log, Entry(k, h)), k \in OwnId => Known(h)'
    PROVE  LogKnown'
  <1>1. Entry(k, h) \in Said /\ Entry(k, h).k = k /\ Entry(k, h).id = h
    BY EntryFields
  <1> QED  BY <1>1, LogKnownGrows

\* A dispatched frame is known in the log or among the waits.
LEMMA DispatchKnown ==
    ASSUME TypeOK, LogKnown, \A i : Known(i) => Known(i)', NEW h \in Nat, Known(h)', Dispatched(h)
    PROVE  LogKnown'
  <1>1. CASE log' = Append(log, Entry("effect", h))
    <2>1. "effect" \in Word /\ "effect" # "summary"
      BY Words
    <2> QED  BY <1>1, <2>1, LogsKnown
  <1>2. CASE log' = Append(log, Entry("refuse", h))
    <2>1. "refuse" \in Word /\ "refuse" # "summary"
      BY Words
    <2> QED  BY <1>2, <2>1, LogsKnown
  <1>3. CASE log' = log
    BY <1>3 DEF LogKnown
  <1> QED  BY <1>1, <1>2, <1>3 DEF Dispatched

\* The log stays known.
LEMMA LogKnownSteps ==
    ASSUME ReceivedInv, [Next]_vars
    PROVE  LogKnown'
  <1>0. TypeOK /\ Shape /\ InOrder /\ LogKnown /\ HeldKnown /\ WayKnown
    BY DEF ReceivedInv, KnownIds
  <1>1. \A i : Known(i) => Known(i)'
    BY <1>0, KnownStays
  <1>2. log' = log => LogKnown'
    BY <1>0, <1>1 DEF LogKnown
  <1>3. CASE RecvHello \/ RecvTurn
    <2>1. /\ Takes("frame") /\ LoopUnchanged
          /\ log' = log \/ log' = Append(log, Entry("forward", outer[1].id))
      BY <1>0, <1>3, HelloFacts, TurnFacts DEF Admits, Refuses
    <2>2. sent' = sent
      BY <2>1 DEF LoopUnchanged, readerVars
    <2>3. PICK h \in Nat : h = outer[1].id /\ Known(h)'
      BY <1>0, <2>1, <2>2, FreshFrame
    <2>4. "forward" \in Word /\ "forward" # "summary"
      BY Words
    <2> QED  BY <1>0, <1>1, <1>2, <2>1, <2>3, <2>4, LogsKnown
  <1>4. CASE RecvJobFrame
    <2>1. /\ Takes("frame") /\ LoopUnchanged /\ JobHandled(outer[1].id)
      BY <1>0, <1>4, JobFrameFacts
    <2>2. sent' = sent
      BY <2>1 DEF LoopUnchanged, readerVars
    <2>3. PICK h \in Nat : h = outer[1].id /\ Known(h)'
      BY <1>0, <2>1, <2>2, FreshFrame
    <2>4. log' = log \/ log' = Append(log, Entry("refuse", h)) \/ Dispatched(h)
      BY <2>1, <2>3 DEF JobHandled
    <2>5. "refuse" \in Word /\ "refuse" # "summary"
      BY Words
    <2> QED  BY <1>0, <1>1, <1>2, <2>3, <2>4, <2>5, LogsKnown, DispatchKnown
  <1>5. CASE RecvCoreLine
    <2>1. Takes("line") /\ log' = Append(log, Entry(outer[1].k, outer[1].id))
      BY <1>0, <1>5, LineFacts
    <2>2. 1 \in DOMAIN outer
      BY <1>0, <2>1, Shrinks DEF Takes, TypeOK
    <2>3. PICK h \in Nat : h = outer[1].id
      BY <2>1 DEF Takes
    <2>4. PICK k \in Word : k = outer[1].k
      BY <2>1 DEF Takes
    <2>5. k \in Answer => Known(h)'
      BY <1>0, <1>1, <2>1, <2>2, <2>3, <2>4 DEF WayKnown, Takes
    <2>6. k \in CoreWord
      BY <1>0, <2>1, <2>2, <2>4 DEF WayKnown, Takes
    <2>7. k # "summary" /\ (k \in OwnId => k \in Answer)
      BY <2>6 DEF CoreWord, Answer, OwnId
    <2> QED  BY <1>0, <1>1, <2>1, <2>3, <2>4, <2>5, <2>7, LogsKnown
  <1>6. CASE RecvCoreComplete
    <2>1. log' = log \/ log' = Append(log, Entry("core failed", 0))
      BY <1>0, <1>6, CompleteFacts
    <2>2. "core failed" \in Word /\ "core failed" # "summary" /\ "core failed" \notin OwnId
      BY Words
    <2> QED  BY <1>0, <1>1, <1>2, <2>1, <2>2, LogsKnown
  <1>7. CASE FlushAction
    <2>1. /\ Queue # <<>> /\ Queue \in Seq(Action)
          /\ \/ log' = Append(log, Entry("error", Queue[1].id))
             \/ log' = Append(log, Entry("refuse", Queue[1].id))
             \/ Dispatched(Queue[1].id)
      BY <1>0, <1>7, FlushActionFacts
    <2>2. 1 \in DOMAIN Queue /\ Queue[1] \in Action
      BY <2>1, Shrinks
    <2>3. PICK h \in Nat : h = Queue[1].id
      BY <2>2 DEF Action
    <2>4. Known(h)'
      BY <1>0, <1>1, <2>2, <2>3 DEF HeldKnown
    <2>5. /\ "refuse" \in Word /\ "refuse" # "summary" /\ "error" \in Word /\ "error" # "summary"
          /\ "error" \notin OwnId
      BY Words
    <2> QED  BY <1>0, <1>1, <2>1, <2>3, <2>4, <2>5, LogsKnown, DispatchKnown
  <1>8. CASE FlushSummary \/ FlushSuppressed \/ FlushDone
    <2>1. \/ log' = Append(log, Entry("summary", Counted))
          \/ log' = Append(log, Entry("suppressed", release.errors))
          \/ log' = log
      BY <1>0, <1>8, FlushEndFacts
    <2>2. Counted \in SUBSET Nat /\ release.errors \in SUBSET Nat
      BY <1>0 DEF TypeOK, Counted, Barrier, Held
    <2>3. CASE log' = Append(log, Entry("summary", Counted))
      <3>0. "summary" \in Word
        BY Words
      <3>1. PICK e \in Said : e = Entry("summary", Counted) /\ e.k = "summary" /\ e.id = Counted
        BY <2>2, <3>0, EntryFields
      <3>2. \A i \in e.id : Known(i)'
        BY <1>0, <1>1, <3>1 DEF HeldKnown
      <3>3. e.k \notin OwnId
        BY <3>1, Words
      <3> QED  BY <1>0, <1>1, <2>3, <3>1, <3>2, <3>3, LogKnownGrows
    <2>4. CASE log' = Append(log, Entry("suppressed", release.errors))
      <3>0. "suppressed" \in Word
        BY Words
      <3>1. PICK e \in Said : e = Entry("suppressed", release.errors) /\ e.k = "suppressed"
        BY <2>2, <3>0, EntryFields
      <3>2. e.k \notin OwnId /\ e.k # "summary"
        BY <3>1, Words
      <3> QED  BY <1>0, <1>1, <2>4, <3>1, <3>2, LogKnownGrows
    <2> QED  BY <1>2, <2>1, <2>3, <2>4
  <1>9. CASE poll_job_waits
    <2>1. waits # <<>> /\ (log' = log \/ log' = Append(log, Entry("waited", waits[1])))
      BY <1>0, <1>9, WaitFacts
    <2>2. 1 \in DOMAIN waits /\ waits[1] \in Nat
      BY <1>0, <2>1, Shrinks DEF TypeOK
    <2>3. PICK h \in Nat : h = waits[1] /\ Known(h)'
      BY <1>0, <1>1, <2>2 DEF HeldKnown
    <2>4. "waited" \in Word /\ "waited" # "summary"
      BY Words
    <2> QED  BY <1>0, <1>1, <1>2, <2>1, <2>3, <2>4, LogsKnown
  <1>10. CASE \/ RecvControl \/ RecvEof \/ SendToCore \/ SendFails \/ RecvTimeout \/ Sample
              \/ (\E i \in Frame : poll_job_events(i)) \/ FinishRound \/ Outside
    <2>1. log' = log
      BY <1>0, <1>10, ControlFacts, SendFacts, SendFailsFacts, TimeoutFacts, PollFacts, FinishFacts,
         OutsideFacts
    <2> QED  BY <1>2, <2>1
  <1>11. CASE UNCHANGED vars
    BY <1>2, <1>11 DEF vars, writeVars
  <1> QED  BY <1>3, <1>4, <1>5, <1>6, <1>7, <1>8, <1>9, <1>10, <1>11, StepKinds

-----------------------------------------------------------------------------
(* The way of a frame to the core and of its lines back: what a step does  *)
(* with the hand, the core's channel, its lines, and the log               *)

HandStays == pc' = "send" /\ hand'.k = "frame" => pc = "send" /\ hand' = hand
LogQuiet == log' = log \/ \E e \in Said : log' = Append(log, e) /\ e.k \notin {"forward"} \cup Answer
OuterQuiet ==
    \/ outer' = outer
    \/ outer # <<>> /\ outer' = Tail(outer)
    \/ \E e \in Letter : e.t # "line" /\ outer' = Append(outer, e)

WayQuiet == HandStays /\ LogQuiet /\ OuterQuiet /\ inner' = inner /\ core'.lines = core.lines
WayTakes(h) ==
    /\ Takes("frame") /\ h = outer[1].id /\ sent' = sent
    /\ pc' = "send" /\ hand' = Entry("frame", h) /\ inner' = inner /\ core'.lines = core.lines
    /\ \/ sent[h] \in {"hello", "turn"} /\ log' = Append(log, Entry("forward", h))
       \/ sent[h] = "control" /\ log' = log
WaySends ==
    /\ pc = "send" /\ pc' = "sample" /\ inner' = Append(inner, hand) /\ core'.lines = core.lines
    /\ UNCHANGED <<outer, sent, log>>
WayAsks ==
    LET i == inner[1].id IN
    /\ inner # <<>> /\ inner' = Tail(inner) /\ inner[1].k = "frame" /\ core.lines = <<>>
    /\ UNCHANGED <<outer, sent, log, pc, hand>>
    /\ \/ core'.lines = <<>>
       \/ sent[i] = "hello" /\ core'.lines = <<Entry("ack", i)>>
       \/ sent[i] = "turn" /\ core'.lines = <<Entry("accepted", i)>>
       \/ sent[i] = "turn" /\ core'.lines = <<Entry("accepted", i), Entry("end", i)>>
       \/ core'.lines = <<Entry("other", i)>>
WayDrains ==
    /\ UNCHANGED <<outer, sent, log, pc, hand>>
    /\ \/ inner # <<>> /\ inner' = Tail(inner)
       \/ inner' = <<>>
       \/ \E e \in Line : inner' = Append(inner, e) /\ e.k # "frame"
    /\ core'.lines = core.lines \/ \E n \in Nat : core'.lines = <<Entry("end", n)>>
WayWrites ==
    /\ core.lines # <<>> /\ core'.lines = Tail(core.lines)
    /\ outer' = Append(outer, Message("line", core.lines[1]))
    /\ UNCHANGED <<inner, sent, log, pc, hand>>
WayHears ==
    /\ Takes("line") /\ log' = Append(log, Entry(outer[1].k, outer[1].id)) /\ pc' # "send"
    /\ inner' = inner /\ core'.lines = core.lines /\ sent' = sent

\* The loop logs other words without consequence for the way.
LEMMA QuietWords ==
    ASSUME TypeOK
    PROVE  /\ \A i \in Nat :
                \/ log' = Append(log, Entry("effect", i)) \/ log' = Append(log, Entry("refuse", i))
                \/ log' = Append(log, Entry("error", i)) \/ log' = Append(log, Entry("waited", i))
                \/ log' = Append(log, Entry("core failed", i))
                => LogQuiet
           /\ \A C \in SUBSET Nat :
                \/ log' = Append(log, Entry("summary", C)) \/ log' = Append(log, Entry("suppressed", C))
                => LogQuiet
  <1> DEFINE W == {"effect", "refuse", "error", "waited", "core failed", "summary", "suppressed"}
  <1>1. \A k \in W : k \in Word /\ k \notin {"forward"} \cup Answer
    BY DEF Word, Answer
  <1>2. ASSUME NEW k \in W, NEW i \in Nat \cup SUBSET Nat, log' = Append(log, Entry(k, i))
        PROVE  LogQuiet
    <2>1. k \in Word /\ k \notin {"forward"} \cup Answer
      BY <1>1
    <2>2. Entry(k, i) \in Said /\ Entry(k, i).k = k
      BY <2>1, EntryFields
    <2>3. Entry(k, i).k \notin {"forward"} \cup Answer
      BY <2>1, <2>2, Zenon
    <2> QED  BY <1>2, <2>2, <2>3 DEF LogQuiet
  <1> QED  BY <1>2

\* A dispatch is without consequence for the way.
LEMMA QuietDispatch ==
    ASSUME TypeOK, NEW i \in Nat, Dispatched(i)
    PROVE  LogQuiet
  <1>1. log' = log => LogQuiet
    BY DEF LogQuiet
  <1> QED  BY <1>1, QuietWords DEF Dispatched

LEMMA WaySteps ==
    ASSUME TypeOK, Shape, InOrder, [Next]_vars
    PROVE  \/ WayQuiet \/ (\E h \in Nat : WayTakes(h)) \/ WaySends \/ WayAsks
           \/ WayDrains \/ WayWrites \/ WayHears
  <1>0. Entry("none", 0).k # "frame" /\ Entry("eof", 0).k # "frame"
    BY DEF Entry
  <1>1. log' = log => LogQuiet
    BY DEF LogQuiet
  <1>2. CASE RecvHello \/ RecvTurn
    <2>1. /\ Takes("frame") /\ LoopUnchanged /\ outer[1].k \in {"hello", "turn"}
          /\ Admits(outer[1].id) \/ Refuses(outer[1].id)
      BY <1>2, HelloFacts, TurnFacts
    <2>2. sent' = sent /\ inner' = inner /\ core' = core
      BY <2>1 DEF LoopUnchanged, readerVars, coreVars
    <2>3. PICK h \in Nat : h = outer[1].id /\ sent[h] = outer[1].k
      BY <2>1, <2>2, FreshFrame
    <2>4. CASE Admits(outer[1].id)
      BY <2>1, <2>2, <2>3, <2>4 DEF Admits, WayTakes
    <2>5. CASE Refuses(outer[1].id)
      BY <1>0, <1>1, <2>1, <2>2, <2>5 DEF Refuses, WayQuiet, HandStays, OuterQuiet, Takes
    <2> QED  BY <2>1, <2>4, <2>5
  <1>3. CASE RecvJobFrame
    <2>1. /\ Takes("frame") /\ LoopUnchanged /\ JobHandled(outer[1].id) /\ pc' = "sample"
          /\ outer[1].id \in Nat
      BY <1>3, JobFrameFacts DEF Takes
    <2>2. LogQuiet
      BY <1>1, <2>1, QuietWords, QuietDispatch DEF JobHandled
    <2> QED  BY <2>1, <2>2 DEF WayQuiet, HandStays, OuterQuiet, Takes, LoopUnchanged, coreVars
  <1>4. CASE RecvControl \/ RecvEof
    <2>1. /\ LoopUnchanged /\ pc' = "send" /\ log' = log
          /\ \/ Takes("frame") /\ outer[1].k = "control" /\ hand' = Entry("frame", outer[1].id)
             \/ Takes("eof") /\ hand' = Entry("eof", 0)
      BY <1>4, ControlFacts
    <2>2. sent' = sent /\ inner' = inner /\ core' = core
      BY <2>1 DEF LoopUnchanged, readerVars, coreVars
    <2>3. CASE Takes("frame") /\ outer[1].k = "control" /\ hand' = Entry("frame", outer[1].id)
      <3>1. PICK h \in Nat : h = outer[1].id /\ sent[h] = outer[1].k
        BY <2>2, <2>3, FreshFrame
      <3> QED  BY <2>1, <2>2, <2>3, <3>1 DEF WayTakes
    <2>4. CASE Takes("eof") /\ hand' = Entry("eof", 0)
      BY <1>0, <1>1, <2>1, <2>2, <2>4 DEF WayQuiet, HandStays, OuterQuiet, Takes
    <2> QED  BY <2>1, <2>3, <2>4
  <1>5. CASE SendToCore
    BY <1>5, SendFacts DEF WaySends, readerVars, coreVars
  <1>6. CASE SendFails
    <2>1. LoopUnchanged /\ outer' = outer /\ log' = log /\ pc' # "send"
      BY <1>6, SendFailsFacts
    <2> QED  BY <1>1, <2>1 DEF WayQuiet, HandStays, OuterQuiet, LoopUnchanged, coreVars
  <1>7. CASE RecvCoreLine
    <2>1. /\ Takes("line") /\ LoopUnchanged /\ pc' # "send"
          /\ log' = Append(log, Entry(outer[1].k, outer[1].id))
      BY <1>7, LineFacts
    <2> QED  BY <2>1 DEF WayHears, LoopUnchanged, readerVars, coreVars
  <1>8. CASE RecvCoreComplete
    <2>1. /\ Takes("complete") /\ LoopUnchanged /\ pc' # "send"
          /\ log' = log \/ log' = Append(log, Entry("core failed", 0))
      BY <1>8, CompleteFacts
    <2>2. LogQuiet
      BY <1>1, <2>1, QuietWords
    <2> QED  BY <2>1, <2>2 DEF WayQuiet, HandStays, OuterQuiet, Takes, LoopUnchanged, coreVars
  <1>9. CASE FlushAction
    <2>1. /\ Queue # <<>> /\ Queue \in Seq(Action) /\ LoopUnchanged /\ outer' = outer /\ pc' = "flush"
          /\ \/ log' = Append(log, Entry("error", Queue[1].id))
             \/ log' = Append(log, Entry("refuse", Queue[1].id))
             \/ Dispatched(Queue[1].id)
      BY <1>9, FlushActionFacts
    <2>2. Queue[1] \in Action
      BY <2>1, Shrinks
    <2>3. Queue[1].id \in Nat
      BY <2>2 DEF Action
    <2>4. LogQuiet
      BY <2>1, <2>3, QuietWords, QuietDispatch
    <2> QED  BY <2>1, <2>4 DEF WayQuiet, HandStays, OuterQuiet, LoopUnchanged, coreVars
  <1>10. CASE FlushSummary \/ FlushSuppressed \/ FlushDone
    <2>1. /\ LoopUnchanged /\ outer' = outer /\ pc' # "send"
          /\ \/ log' = Append(log, Entry("summary", Counted))
             \/ log' = Append(log, Entry("suppressed", release.errors))
             \/ log' = log
      BY <1>10, FlushEndFacts
    <2>2. Counted \in SUBSET Nat /\ release.errors \in SUBSET Nat
      BY DEF TypeOK, Counted, Barrier, Held
    <2>3. LogQuiet
      BY <1>1, <2>1, <2>2, QuietWords
    <2> QED  BY <2>1, <2>3 DEF WayQuiet, HandStays, OuterQuiet, LoopUnchanged, coreVars
  <1>11. CASE poll_job_waits
    <2>1. /\ waits # <<>> /\ (log' = log \/ log' = Append(log, Entry("waited", waits[1])))
          /\ UNCHANGED <<outer, inner, coreVars>> /\ pc' = "poll"
      BY <1>11, WaitFacts
    <2>2. waits[1] \in Nat
      BY <2>1, Shrinks DEF TypeOK
    <2>3. LogQuiet
      BY <1>1, <2>1, <2>2, QuietWords
    <2> QED  BY <2>1, <2>3 DEF WayQuiet, HandStays, OuterQuiet, coreVars
  <1>12. CASE RecvTimeout \/ Sample \/ (\E i \in Frame : poll_job_events(i)) \/ FinishRound
    <2>1. UNCHANGED <<outer, inner, coreVars, log>> /\ pc' # "send"
      BY <1>12, TimeoutFacts, PollFacts, FinishFacts
    <2> QED  BY <1>1, <2>1 DEF WayQuiet, HandStays, OuterQuiet, coreVars
  <1>13. CASE Outside
    <2>0. UNCHANGED <<pc, hand, log>>
      BY <1>13, OutsideFacts
    <2>1. CASE Reader \/ CoreComplete
      <3>1. inner' = inner /\ core'.lines = core.lines
        BY <2>1 DEF Reader, ReadFrame, ReadEof, CoreComplete, coreVars, TypeOK, CoreState
      <3>2. OuterQuiet
        <4>1. CASE ReadFrame
          <5>1. \E k \in FrameKind : OuterRead(k)
            BY <4>1, ReadFrameReads
          <5> QED  BY <5>1, ReadMessage DEF OuterQuiet, OuterRead
        <4>2. CASE ReadEof
          <5>1. Message("eof", Entry("eof", 0)) \in Letter /\ Message("eof", Entry("eof", 0)).t # "line"
            BY DEF Message, Entry, Letter, Word
          <5> QED  BY <4>2, <5>1 DEF ReadEof, OuterQuiet
        <4>3. CASE CoreComplete
          <5>1. /\ Message("complete", Entry("complete", 0)) \in Letter
                /\ Message("complete", Entry("complete", 0)).t # "line"
            BY DEF Message, Entry, Letter, Word
          <5> QED  BY <4>3, <5>1 DEF CoreComplete, OuterQuiet
        <4> QED  BY <2>1, <4>1, <4>2, <4>3 DEF Reader
      <3> QED  BY <1>1, <2>0, <3>1, <3>2 DEF WayQuiet, HandStays
    <2>2. CASE \E i \in Frame : JobStep(i) \/ Deadline(i)
      BY <1>1, <2>0, <2>2 DEF JobStep, Deadline, JobUnchanged, coreVars, WayQuiet, HandStays, OuterQuiet
    <2>3. CASE CoreFrame
      <3>1. Head(inner) = inner[1]
        BY <2>3, CoreFrameCases, Shrinks DEF TypeOK
      <3> QED  BY <2>0, <2>3, <3>1, CoreFrameCases DEF WayAsks, CoreUnchanged, readerVars
    <2>4. CASE CoreEof \/ CoreTurnEnd \/ Worker \/ CoreReturn
      <3>0. UNCHANGED <<outer, sent>> /\ core \in CoreState
        BY <2>4 DEF CoreEof, CoreTurnEnd, Worker, CoreReturn, CoreUnchanged, readerVars, TypeOK
      <3>1. CASE CoreEof \/ CoreReturn
        <4>1. core'.lines = core.lines
          BY <3>0, <3>1 DEF CoreEof, CoreReturn, CoreState
        <4>2. (inner # <<>> /\ inner' = Tail(inner)) \/ inner' = <<>>
          BY <3>1 DEF CoreEof, CoreReturn
        <4> QED  BY <2>0, <3>0, <4>1, <4>2 DEF WayDrains
      <3>2. CASE CoreTurnEnd
        <4>1. core'.lines = Lines(<<Entry("end", core.active)>>) /\ core.lines = <<>>
          BY <3>0, <3>2 DEF CoreTurnEnd, CoreIdle, CoreState
        <4>2. core'.lines = core.lines \/ core'.lines = <<Entry("end", core.active)>>
          BY <4>1 DEF Lines
        <4>3. core.active \in Nat
          BY <3>0 DEF CoreState
        <4> QED  BY <2>0, <3>0, <3>2, <4>2, <4>3 DEF WayDrains, CoreTurnEnd
      <3>3. CASE Worker
        <4>1. Entry("done", core.active) \in Line /\ Entry("done", core.active).k # "frame"
          BY <3>0 DEF Entry, Line, Word, CoreState
        <4>2. core' = core /\ inner' = Append(inner, Entry("done", core.active))
          BY <3>3 DEF Worker
        <4> QED  BY <2>0, <3>0, <4>1, <4>2 DEF WayDrains
      <3> QED  BY <2>4, <3>1, <3>2, <3>3
    <2>5. CASE CoreWrite
      <3>0. core \in CoreState /\ core.lines \in Seq(Line)
        BY DEF TypeOK, CoreState
      <3>1. core.lines # <<>> /\ Head(core.lines) = core.lines[1]
        BY <2>5, <3>0, Shrinks DEF CoreWrite
      <3>2. core'.lines = Tail(core.lines)
        BY <2>5, <3>0 DEF CoreWrite, CoreState
      <3> QED  BY <2>0, <2>5, <3>1, <3>2 DEF CoreWrite, WayWrites, readerVars
    <2> QED  BY <1>13, <2>1, <2>2, <2>3, <2>4, <2>5 DEF Outside, Core
  <1>14. CASE UNCHANGED vars
    BY <1>1, <1>14 DEF vars, coreVars, loopVars, writeVars, WayQuiet, HandStays, OuterQuiet
  <1> QED  BY <1>2, <1>3, <1>4, <1>5, <1>6, <1>7, <1>8, <1>9, <1>10, <1>11, <1>12, <1>13, <1>14, StepKinds

-----------------------------------------------------------------------------
(* What is held back and what is on the way is known *)

\* A known frame may join a queue of known frames.
LEMMA HeldKnownSteps ==
    ASSUME ReceivedInv, [Next]_vars
    PROVE  HeldKnown'
  <1>0. TypeOK /\ Shape /\ InOrder /\ HeldKnown /\ waits \in Seq(Nat) /\ remaining \in Seq(Nat)
    BY DEF ReceivedInv, KnownIds, TypeOK
  <1>q. Queue \in Seq(Action)
    BY <1>0 DEF TypeOK, Queue, Barrier, Held
  <1>1. \A i : Known(i) => Known(i)'
    BY <1>0, KnownStays
  <1>k. /\ \A n \in DOMAIN Queue : \A i : i = Queue[n].id => Known(i)'
        /\ \A n \in DOMAIN waits : \A i : i = waits[n] => Known(i)'
    BY <1>0, <1>1 DEF HeldKnown
  <1>2. Queue' = Queue => \A n \in DOMAIN Queue' : \A i : i = Queue'[n].id => Known(i)'
    BY <1>0, <1>1 DEF HeldKnown
  <1>3. Counted' = Counted => \A i \in Counted' : Known(i)'
    BY <1>0, <1>1 DEF HeldKnown
  <1>4. waits' = waits => \A n \in DOMAIN waits' : \A i : i = waits'[n] => Known(i)'
    BY <1>0, <1>1 DEF HeldKnown
  <1>5. remaining' = remaining => \A n \in DOMAIN remaining' : \A i : i = remaining'[n] => Known(i)'
    BY <1>0, <1>1 DEF HeldKnown
  <1>6. ASSUME NEW h \in Nat, Known(h)', Dispatched(h)
        PROVE  /\ \A n \in DOMAIN waits' : \A i : i = waits'[n] => Known(i)'
               /\ \A n \in DOMAIN remaining' : \A i : i = remaining'[n] => Known(i)'
    <2>1. CASE waits' = waits /\ remaining' = remaining
      BY <1>4, <1>5, <2>1
    <2>2. CASE waits' = Append(waits, h) /\ remaining' = remaining
      <3>1. /\ DOMAIN waits = 1..Len(waits) /\ Len(waits) \in Nat
            /\ DOMAIN waits' = 1..(Len(waits) + 1)
            /\ \A n \in 1..Len(waits) : waits'[n] = waits[n]
            /\ waits'[Len(waits) + 1] = h
        BY <1>0, <2>2, Grows
      <3>2. \A n \in DOMAIN waits' : \A i : i = waits'[n] => Known(i)'
        BY <1>0, <1>1, <1>6, <3>1 DEF HeldKnown
      <3> QED  BY <1>5, <2>2, <3>2
    <2> QED  BY <1>6, <2>1, <2>2 DEF Dispatched
  <1>7. ASSUME NEW e \in Action, Known(e.id)', Queue' = Append(Queue, e)
        PROVE  \A n \in DOMAIN Queue' : \A i : i = Queue'[n].id => Known(i)'
    <2>1. /\ DOMAIN Queue = 1..Len(Queue) /\ Len(Queue) \in Nat
          /\ DOMAIN Queue' = 1..(Len(Queue) + 1)
          /\ \A n \in 1..Len(Queue) : Queue'[n] = Queue[n]
          /\ Queue'[Len(Queue) + 1] = e
      BY <1>q, <1>7, Grows
    <2> QED  BY <1>k, <1>7, <2>1
  <1>8. CASE /\ HeldKept /\ UNCHANGED <<waits, remaining>>
    BY <1>2, <1>3, <1>4, <1>5, <1>8 DEF HeldKept, HeldKnown
  <1>9. CASE RecvHello \/ RecvTurn
    <2>1. /\ Takes("frame") /\ LoopUnchanged /\ UNCHANGED <<waits, remaining>> /\ Counted' = Counted
          /\ Queue' = Queue \/ Queue' = Append(Queue, ProtocolError(outer[1].id))
      BY <1>0, <1>9, HelloFacts, TurnFacts DEF Admits, Refuses, HeldKept
    <2>2. sent' = sent
      BY <2>1 DEF LoopUnchanged, readerVars
    <2>3. PICK h \in Nat : h = outer[1].id /\ Known(h)'
      BY <1>0, <2>1, <2>2, FreshFrame
    <2>4. PICK e \in Action : e = ProtocolError(h) /\ e.id = h
      <3>1. ProtocolError(h) \in Action /\ ProtocolError(h).id = h
        BY DEF ProtocolError, Action
      <3> QED  BY <3>1
    <2>5. \A n \in DOMAIN Queue' : \A i : i = Queue'[n].id => Known(i)'
      BY <1>2, <1>7, <2>1, <2>3, <2>4
    <2> QED  BY <1>3, <1>4, <1>5, <2>1, <2>5 DEF HeldKnown
  <1>10. CASE RecvJobFrame
    <2>1. /\ Takes("frame") /\ LoopUnchanged /\ JobHandled(outer[1].id)
      BY <1>0, <1>10, JobFrameFacts
    <2>2. sent' = sent
      BY <2>1 DEF LoopUnchanged, readerVars
    <2>3. PICK h \in Nat : h = outer[1].id /\ Known(h)'
      BY <1>0, <2>1, <2>2, FreshFrame
    <2>4. JobHandled(h)
      BY <2>1, <2>3
    <2>5. CASE /\ UNCHANGED <<waits, remaining>> /\ Counted' = Counted
               /\ \E how \in {"dispatch", "refuse"} : Queue' = Append(Queue, Job(h, how))
      <3>1. PICK how \in {"dispatch", "refuse"} : Queue' = Append(Queue, Job(h, how))
        BY <2>5
      <3>2. PICK e \in Action : e = Job(h, how) /\ e.id = h
        <4>1. Job(h, how) \in Action /\ Job(h, how).id = h
          BY DEF Job, Action
        <4> QED  BY <4>1
      <3>3. \A n \in DOMAIN Queue' : \A i : i = Queue'[n].id => Known(i)'
        BY <1>7, <2>3, <3>1, <3>2
      <3> QED  BY <1>3, <1>4, <1>5, <2>5, <3>3 DEF HeldKnown
    <2>6. CASE UNCHANGED <<waits, remaining>> /\ Queue' = Queue /\ Counted' = Counted \cup {h}
      <3>1. \A i \in Counted' : Known(i)'
        BY <1>0, <1>1, <2>3, <2>6 DEF HeldKnown
      <3> QED  BY <1>2, <1>4, <1>5, <2>6, <3>1 DEF HeldKnown
    <2>7. CASE Dispatched(h) /\ HeldKept
      BY <1>2, <1>3, <1>6, <2>3, <2>7 DEF HeldKnown, HeldKept
    <2> QED  BY <1>8, <2>4, <2>5, <2>6, <2>7 DEF JobHandled
  <1>11. CASE FlushAction
    <2>1. /\ Queue # <<>> /\ Queue' = Tail(Queue) /\ Counted' = Counted
          /\ UNCHANGED <<waits, remaining>> \/ Dispatched(Queue[1].id)
      BY <1>0, <1>11, FlushActionFacts
    <2>2. /\ DOMAIN Queue = 1..Len(Queue) /\ Len(Queue) \in Nat /\ Len(Queue) >= 1
          /\ DOMAIN Queue' = 1..(Len(Queue) - 1)
          /\ \A n \in 1..(Len(Queue) - 1) : Queue'[n] = Queue[n + 1]
          /\ Queue[1] \in Action
      BY <1>q, <2>1, Shrinks
    <2>3. PICK h \in Nat : h = Queue[1].id
      BY <2>2 DEF Action
    <2>4. Known(h)'
      BY <1>0, <1>1, <2>2, <2>3 DEF HeldKnown
    <2>5. \A n \in DOMAIN Queue' : \A i : i = Queue'[n].id => Known(i)'
      <3>1. \A n \in DOMAIN Queue' : n + 1 \in DOMAIN Queue /\ Queue'[n] = Queue[n + 1]
        BY <1>q, <2>1, Rest
      <3> QED  BY <1>0, <1>1, <3>1 DEF HeldKnown
    <2>6. /\ \A n \in DOMAIN waits' : \A i : i = waits'[n] => Known(i)'
          /\ \A n \in DOMAIN remaining' : \A i : i = remaining'[n] => Known(i)'
      BY <1>4, <1>5, <1>6, <2>1, <2>3, <2>4
    <2> QED  BY <1>3, <2>1, <2>5, <2>6 DEF HeldKnown
  <1>12. CASE FlushSummary \/ FlushSuppressed \/ FlushDone
    <2>1. UNCHANGED <<waits, remaining>> /\ Queue' = Queue /\ (Counted' = Counted \/ Counted' = {})
      BY <1>0, <1>12, FlushEndFacts
    <2> QED  BY <1>2, <1>3, <1>4, <1>5, <2>1 DEF HeldKnown
  <1>13. CASE poll_job_waits
    <2>1. /\ waits # <<>> /\ waits' = Tail(waits) /\ HeldKept
          /\ remaining' = remaining \/ remaining' = Append(remaining, waits[1])
      BY <1>0, <1>13, WaitFacts
    <2>2. /\ DOMAIN waits = 1..Len(waits) /\ Len(waits) \in Nat /\ Len(waits) >= 1
          /\ DOMAIN waits' = 1..(Len(waits) - 1)
          /\ \A n \in 1..(Len(waits) - 1) : waits'[n] = waits[n + 1]
          /\ waits[1] \in Nat
      BY <1>0, <2>1, Shrinks
    <2>3. \A i : i = waits[1] => Known(i)'
      BY <1>k, <2>2
    <2>4. \A n \in DOMAIN waits' : \A i : i = waits'[n] => Known(i)'
      <3>1. \A n \in DOMAIN waits' : n + 1 \in DOMAIN waits /\ waits'[n] = waits[n + 1]
        BY <1>0, <2>1, Rest
      <3> QED  BY <1>0, <1>1, <3>1 DEF HeldKnown
    <2>5. CASE remaining' = Append(remaining, waits[1])
      <3>1. /\ DOMAIN remaining = 1..Len(remaining) /\ Len(remaining) \in Nat
            /\ DOMAIN remaining' = 1..(Len(remaining) + 1)
            /\ \A n \in 1..Len(remaining) : remaining'[n] = remaining[n]
            /\ remaining'[Len(remaining) + 1] = waits[1]
        BY <1>0, <2>2, <2>5, Grows
      <3>2. \A n \in DOMAIN remaining' : \A i : i = remaining'[n] => Known(i)'
        BY <1>0, <1>1, <2>3, <3>1 DEF HeldKnown
      <3> QED  BY <1>2, <1>3, <2>1, <2>4, <3>2 DEF HeldKnown, HeldKept
    <2> QED  BY <1>2, <1>3, <1>5, <2>1, <2>4, <2>5 DEF HeldKnown, HeldKept
  <1>14. CASE FinishRound
    <2>1. /\ HeldKept /\ remaining' = <<>> /\ (waits' = waits \/ waits' = remaining \/ waits' = <<>>)
      BY <1>0, <1>14, FinishFacts
    <2>2. \A n \in DOMAIN waits' : \A i : i = waits'[n] => Known(i)'
      BY <1>0, <1>1, <2>1, NoElement DEF HeldKnown
    <2>3. \A n \in DOMAIN remaining' : \A i : i = remaining'[n] => Known(i)'
      BY <2>1, NoElement
    <2> QED  BY <1>2, <1>3, <2>1, <2>2, <2>3 DEF HeldKnown, HeldKept
  <1>15. CASE \/ RecvControl \/ RecvEof \/ SendToCore \/ SendFails \/ RecvCoreLine \/ RecvCoreComplete
              \/ RecvTimeout \/ Sample \/ (\E i \in Frame : poll_job_events(i)) \/ Outside
    <2>1. HeldKept /\ UNCHANGED <<waits, remaining>>
      BY <1>0, <1>15, ControlFacts, SendFacts, SendFailsFacts, LineFacts, CompleteFacts, TimeoutFacts,
         PollFacts, OutsideFacts
    <2> QED  BY <1>8, <2>1
  <1>16. CASE UNCHANGED vars
    <2>1. HeldKept /\ UNCHANGED <<waits, remaining>>
      BY <1>16 DEF vars, barrierVars, loopVars, jobVars, waitVars, HeldKept, Queue, Counted
    <2> QED  BY <1>8, <2>1
  <1> QED  BY <1>9, <1>10, <1>11, <1>12, <1>13, <1>14, <1>15, <1>16, StepKinds


\* What is on the way is known.
LEMMA WayKnownSteps ==
    ASSUME ReceivedInv, [Next]_vars
    PROVE  WayKnown'
  <1>0. /\ TypeOK /\ Shape /\ InOrder /\ WayKnown /\ outer \in Seq(Letter) /\ inner \in Seq(Line)
        /\ core.lines \in Seq(Line)
    BY DEF ReceivedInv, KnownIds, TypeOK, CoreState
  <1>1. \A i : Known(i) => Known(i)'
    BY <1>0, KnownStays
  <1> DEFINE Hand == pc' = "send" /\ hand'.k = "frame" => \A i : i = hand'.id => Known(i)'
             Inner == \A n \in DOMAIN inner' : inner'[n].k = "frame" => \A i : i = inner'[n].id => Known(i)'
             Says == \A n \in DOMAIN core'.lines :
                        /\ core'.lines[n].k \in Answer => \A i : i = core'.lines[n].id => Known(i)'
                        /\ core'.lines[n].k \in CoreWord
             Said0 == \A n \in DOMAIN outer' : outer'[n].t = "line" =>
                        /\ outer'[n].k \in Answer => \A i : i = outer'[n].id => Known(i)'
                        /\ outer'[n].k \in CoreWord
  <1>2. Hand /\ Inner /\ Says /\ Said0 => WayKnown'
    BY DEF WayKnown
  <1>3. HandStays => Hand
    BY <1>0, <1>1 DEF HandStays, WayKnown
  <1>4. inner' = inner => Inner
    BY <1>0, <1>1 DEF WayKnown
  <1>5. inner # <<>> /\ inner' = Tail(inner) => Inner
    <2> SUFFICES ASSUME inner # <<>>, inner' = Tail(inner) PROVE Inner
      OBVIOUS
    <2>1. \A n \in DOMAIN inner' : n + 1 \in DOMAIN inner /\ inner'[n] = inner[n + 1]
      BY <1>0, Rest
    <2> QED  BY <1>0, <1>1, <2>1 DEF WayKnown
  <1>6. ASSUME NEW e \in Line, inner' = Append(inner, e), e.k = "frame" => Known(e.id)'
        PROVE  Inner
    <2>1. \A n \in DOMAIN inner' : (n \in DOMAIN inner /\ inner'[n] = inner[n]) \/ inner'[n] = e
      BY <1>0, <1>6, Elements
    <2> QED  BY <1>0, <1>1, <1>6, <2>1 DEF WayKnown
  <1>7. core'.lines = core.lines => Says
    BY <1>0, <1>1 DEF WayKnown
  <1>8. core'.lines = <<>> => Says
    BY NoElement
  <1>9. outer' = outer => Said0
    BY <1>0, <1>1 DEF WayKnown
  <1>10. outer # <<>> /\ outer' = Tail(outer) => Said0
    <2> SUFFICES ASSUME outer # <<>>, outer' = Tail(outer) PROVE Said0
      OBVIOUS
    <2>1. \A n \in DOMAIN outer' : n + 1 \in DOMAIN outer /\ outer'[n] = outer[n + 1]
      BY <1>0, Rest
    <2> QED  BY <1>0, <1>1, <2>1 DEF WayKnown
  <1>11. ASSUME NEW e \in Letter, outer' = Append(outer, e),
                e.t = "line" => (e.k \in Answer => Known(e.id)') /\ e.k \in CoreWord
         PROVE  Said0
    <2>1. \A n \in DOMAIN outer' : (n \in DOMAIN outer /\ outer'[n] = outer[n]) \/ outer'[n] = e
      BY <1>0, <1>11, Elements
    <2> QED  BY <1>0, <1>1, <1>11, <2>1 DEF WayKnown
  <1> HIDE DEF Hand, Inner, Says, Said0
  <1>12. CASE WayQuiet
    <2>1. Said0
      BY <1>9, <1>10, <1>11, <1>12 DEF WayQuiet, OuterQuiet
    <2> QED  BY <1>2, <1>3, <1>4, <1>7, <1>12, <2>1 DEF WayQuiet
  <1>13. ASSUME NEW h \in Nat, WayTakes(h)
         PROVE  WayKnown'
    <2>1. Known(h)'
      BY <1>0, <1>13, FreshFrame DEF WayTakes
    <2>2. Hand
      <3>1. hand' = Entry("frame", h) /\ hand'.id = h
        BY <1>13 DEF WayTakes, Entry
      <3> QED  BY <2>1, <3>1 DEF Hand
    <2>3. outer # <<>> /\ outer' = Tail(outer) /\ inner' = inner /\ core'.lines = core.lines
      BY <1>13 DEF WayTakes, Takes
    <2> QED  BY <1>2, <1>4, <1>7, <1>10, <2>2, <2>3
  <1>14. CASE WaySends
    <2>1. hand \in Line /\ inner' = Append(inner, hand) /\ pc = "send" /\ pc' = "sample"
      BY <1>0, <1>14 DEF WaySends, TypeOK
    <2>2. PICK e \in Line : e = hand
      BY <2>1
    <2>3. e.k = "frame" => Known(e.id)'
      BY <1>0, <1>1, <2>1, <2>2 DEF WayKnown
    <2>4. Inner
      BY <1>6, <2>1, <2>2, <2>3
    <2>5. Hand
      BY <2>1 DEF Hand
    <2> QED  BY <1>2, <1>7, <1>9, <1>14, <2>4, <2>5 DEF WaySends
  <1>15. CASE WayAsks
    <2>1. /\ inner # <<>> /\ inner' = Tail(inner) /\ inner[1].k = "frame"
          /\ UNCHANGED <<outer, pc, hand>>
      BY <1>15 DEF WayAsks
    <2>2. 1 \in DOMAIN inner /\ inner[1] \in Line
      BY <1>0, <2>1, Rest
    <2>3. PICK h \in Nat : h = inner[1].id /\ Known(h)'
      BY <1>0, <1>1, <2>1, <2>2 DEF WayKnown, Line
    <2>4. \/ core'.lines = <<>>
          \/ core'.lines = <<Entry("ack", h)>>
          \/ core'.lines = <<Entry("accepted", h)>>
          \/ core'.lines = <<Entry("accepted", h), Entry("end", h)>>
          \/ core'.lines = <<Entry("other", h)>>
      BY <1>15, <2>3 DEF WayAsks
    <2>5. \A k \in {"ack", "accepted", "end", "other"} :
            Entry(k, h) \in Line /\ Entry(k, h).k = k /\ Entry(k, h).id = h /\ k \in CoreWord
      BY DEF Entry, Line, Word, CoreWord, Answer
    <2>6. \A n \in DOMAIN core'.lines : \E k \in {"ack", "accepted", "end", "other"} :
              core'.lines[n] = Entry(k, h)
      BY <2>4, <2>5, Few, NoElement
    <2>7. Says
      BY <2>3, <2>5, <2>6 DEF Says
    <2>8. HandStays
      BY <2>1 DEF HandStays
    <2> QED  BY <1>2, <1>3, <1>5, <1>9, <2>1, <2>7, <2>8
  <1>16. CASE WayDrains
    <2>1. Says
      <3>1. ASSUME NEW n \in Nat, core'.lines = <<Entry("end", n)>>
            PROVE  Says
        <4>1. DOMAIN core'.lines = {1} /\ core'.lines[1].k = "end"
          BY <3>1 DEF Entry
        <4> QED  BY <4>1 DEF Says, CoreWord, Answer
      <3> QED  BY <1>7, <1>16, <3>1 DEF WayDrains
    <2>2. Inner
      <3>1. inner' = <<>> => Inner
        BY NoElement DEF Inner
      <3> QED  BY <1>5, <1>6, <1>16, <3>1 DEF WayDrains
    <2>3. HandStays
      BY <1>16 DEF WayDrains, HandStays
    <2> QED  BY <1>2, <1>3, <1>9, <1>16, <2>1, <2>2, <2>3 DEF WayDrains
  <1>17. CASE WayWrites
    <2>1. core.lines # <<>> /\ core'.lines = Tail(core.lines)
          /\ outer' = Append(outer, Message("line", core.lines[1]))
      BY <1>17 DEF WayWrites
    <2>2. 1 \in DOMAIN core.lines /\ core.lines[1] \in Line
      BY <1>0, <2>1, Rest
    <2>3. \A n \in DOMAIN core'.lines : n + 1 \in DOMAIN core.lines /\ core'.lines[n] = core.lines[n + 1]
      BY <1>0, <2>1, Rest
    <2>4. Says
      BY <1>0, <1>1, <2>3 DEF WayKnown, Says
    <2>5. PICK l \in Line : l = core.lines[1]
      BY <2>2
    <2>6. (l.k \in Answer => Known(l.id)') /\ l.k \in CoreWord
      BY <1>0, <1>1, <2>2, <2>5 DEF WayKnown
    <2>7. PICK e \in Letter : e = Message("line", l) /\ e.k = l.k /\ e.id = l.id
      <3>1. Message("line", l) \in Letter /\ Message("line", l).k = l.k /\ Message("line", l).id = l.id
        BY DEF Message, Letter, Line
      <3> QED  BY <3>1
    <2>8. Said0
      BY <1>11, <2>1, <2>5, <2>6, <2>7
    <2>9. HandStays /\ inner' = inner
      BY <1>17 DEF WayWrites, HandStays
    <2> QED  BY <1>2, <1>3, <1>4, <2>4, <2>8, <2>9
  <1>18. CASE WayHears
    <2>1. outer # <<>> /\ outer' = Tail(outer) /\ pc' # "send" /\ inner' = inner /\ core'.lines = core.lines
      BY <1>18 DEF WayHears, Takes
    <2>2. HandStays
      BY <2>1 DEF HandStays
    <2> QED  BY <1>2, <1>3, <1>4, <1>7, <1>10, <2>1, <2>2
  <1> QED  BY <1>0, <1>12, <1>13, <1>14, <1>15, <1>16, <1>17, <1>18, WaySteps

\* The base of the layers above is an invariant.
LEMMA ReceivedInit == Init => ReceivedInv
  <1> SUFFICES ASSUME Init PROVE ReceivedInv
    OBVIOUS
  <1>1. TypeOK
    BY InitTypes
  <1>2. /\ outer = <<>> /\ inner = <<>> /\ core.lines = <<>> /\ log = <<>> /\ waits = <<>> /\ remaining = <<>>
        /\ pc = "recv" /\ release = NoRelease /\ barrier = OpenBarrier
    BY DEF Init
  <1>3. Shape
    BY <1>2 DEF Shape, pending, OpenBarrier
  <1>4. Queue = <<>> /\ Counted = {}
    BY <1>2 DEF Queue, Counted, OpenBarrier
  <1>5. InOrder
    BY <1>2, NoElement DEF InOrder
  <1>6. LogKnown /\ HeldKnown /\ WayKnown
    BY <1>2, <1>4, NoElement DEF LogKnown, HeldKnown, WayKnown
  <1> QED  BY <1>1, <1>3, <1>5, <1>6 DEF ReceivedInv, KnownIds

LEMMA ReceivedSteps == ReceivedInv /\ [Next]_vars => ReceivedInv'
  <1> SUFFICES ASSUME ReceivedInv, [Next]_vars PROVE ReceivedInv'
    OBVIOUS
  <1>1. TypeOK' /\ Shape' /\ InOrder'
    BY StepTypes, ShapeSteps, KnownStays DEF ReceivedInv
  <1>2. KnownIds'
    BY LogKnownSteps, HeldKnownSteps, WayKnownSteps DEF KnownIds
  <1> QED  BY <1>1, <1>2 DEF ReceivedInv

-----------------------------------------------------------------------------
(* Answers fit their frames, and come in the order of the frames *)

\* The log grows by one entry at most.
LEMMA LogGrows ==
    ASSUME TypeOK, InOrder, Shape, [Next]_vars
    PROVE  log' = log \/ \E e \in Said : log' = Append(log, e)
  <1>1. ASSUME NEW h \in Nat PROVE Entry("forward", h) \in Said
    BY DEF Entry, Said, Word
  <1>2. WayHears => \E e \in Said : log' = Append(log, e)
    BY EntryFields DEF WayHears, Takes
  <1> QED  BY <1>1, <1>2, WaySteps DEF WayQuiet, LogQuiet, WayTakes, WaySends, WayAsks, WayDrains, WayWrites

\* What was forwarded stays so, and facts about known frames stay true.
LEMMA FitsStays ==
    ASSUME ReceivedInv, [Next]_vars
    PROVE  /\ \A i : Forwarded(i) => Forwarded(i)'
           /\ \A k, i : (k \in Answer => Known(i)) /\ Fits(k, i) => Fits(k, i)'
           /\ \A i : Known(i) /\ Boundary(i) => Boundary(i)'
  <1>0. TypeOK /\ InOrder /\ Shape /\ log \in Seq(Said)
    BY DEF ReceivedInv, TypeOK
  <1>1. \A i : Known(i) => sent'[i] = sent[i]
    BY <1>0, KnownStays
  <1>2. \A p \in DOMAIN log : p \in DOMAIN log' /\ log'[p] = log[p]
    <2>1. ASSUME NEW e \in Said, log' = Append(log, e)
          PROVE  \A p \in DOMAIN log : p \in DOMAIN log' /\ log'[p] = log[p]
      <3>1. /\ Len(log) \in Nat /\ DOMAIN log = 1..Len(log) /\ DOMAIN log' = 1..(Len(log) + 1)
            /\ \A n \in 1..Len(log) : log'[n] = log[n]
        BY <1>0, <2>1, Grows
      <3> QED  BY <3>1
    <2> QED  BY <1>0, <2>1, LogGrows
  <1>3. \A i : Forwarded(i) => Forwarded(i)'
    BY <1>2 DEF Forwarded
  <1>4. \A k, i : (k \in Answer => Known(i)) /\ Fits(k, i) => Fits(k, i)'
    BY <1>1, <1>3 DEF Fits, Answer
  <1>5. \A i : Known(i) /\ Boundary(i) => Boundary(i)'
    BY <1>1, <1>3 DEF Boundary
  <1> QED  BY <1>3, <1>4, <1>5

LEMMA AnsweringSteps ==
    ASSUME ReceivedInv, Answering, [Next]_vars
    PROVE  Answering'
  <1>0. /\ TypeOK /\ Shape /\ InOrder /\ WayKnown /\ LogKnown
        /\ outer \in Seq(Letter) /\ inner \in Seq(Line) /\ core.lines \in Seq(Line) /\ log \in Seq(Said)
    BY DEF ReceivedInv, KnownIds, TypeOK, CoreState
  <1>1. /\ \A k, i : (k \in Answer => Known(i)) /\ Fits(k, i) => Fits(k, i)'
        /\ \A i : Known(i) /\ Boundary(i) => Boundary(i)'
    BY FitsStays
  <1>s. \A i : Known(i) => sent'[i] = sent[i]
    BY <1>0, KnownStays
  <1> DEFINE Logs == \A p \in DOMAIN log' :
                        /\ log'[p].k = "forward" => sent'[log'[p].id] \in {"hello", "turn"}
                        /\ \A i : i = log'[p].id => \A k : k = log'[p].k => Fits(k, i)'
             Hand == pc' = "send" /\ hand'.k = "frame" => \A i : i = hand'.id => Boundary(i)'
             Inner == \A n \in DOMAIN inner' : inner'[n].k = "frame" => \A i : i = inner'[n].id => Boundary(i)'
             Says == \A n \in DOMAIN core'.lines :
                        \A i, k : i = core'.lines[n].id /\ k = core'.lines[n].k => Fits(k, i)'
             Heard == \A n \in DOMAIN outer' : outer'[n].t = "line" =>
                        \A i, k : i = outer'[n].id /\ k = outer'[n].k => Fits(k, i)'
  <1>2. Logs /\ Hand /\ Inner /\ Says /\ Heard => Answering'
    BY DEF Answering
  <1>3. log' = log => Logs
    <2>1. \A p \in DOMAIN log : log[p].k = "forward" => Known(log[p].id)
      BY <1>0, Words DEF LogKnown
    <2>2. \A p \in DOMAIN log : log[p].k \in Answer => Known(log[p].id)
      BY <1>0, Words DEF LogKnown, OwnId
    <2> QED  BY <1>1, <1>s, <2>1, <2>2 DEF Answering
  <1>4. ASSUME NEW e \in Said, log' = Append(log, e),
               e.k = "forward" => sent'[e.id] \in {"hello", "turn"}, Fits(e.k, e.id)'
        PROVE  Logs
    <2>1. \A p \in DOMAIN log : log[p].k = "forward" => Known(log[p].id)
      BY <1>0, Words DEF LogKnown
    <2>2. \A p \in DOMAIN log : log[p].k \in Answer => Known(log[p].id)
      BY <1>0, Words DEF LogKnown, OwnId
    <2>3. \A n \in DOMAIN log' : (n \in DOMAIN log /\ log'[n] = log[n]) \/ log'[n] = e
      BY <1>0, <1>4, Elements
    <2> QED  BY <1>1, <1>s, <1>4, <2>1, <2>2, <2>3 DEF Answering
  <1>5. LogQuiet => Logs
    <2>1. ASSUME NEW e \in Said, log' = Append(log, e), e.k \notin {"forward"} \cup Answer
          PROVE  Logs
      <3>1. Fits(e.k, e.id)' /\ e.k # "forward"
        BY <2>1 DEF Fits, Answer
      <3> HIDE DEF Logs
      <3> QED  BY <1>4, <2>1, <3>1
    <2> HIDE DEF Logs
    <2> QED  BY <1>3, <2>1 DEF LogQuiet
  <1>6. HandStays => Hand
    BY <1>0, <1>1 DEF HandStays, WayKnown, Answering
  <1>7. inner' = inner => Inner
    BY <1>0, <1>1 DEF WayKnown, Answering
  <1>8. inner # <<>> /\ inner' = Tail(inner) => Inner
    <2> SUFFICES ASSUME inner # <<>>, inner' = Tail(inner) PROVE Inner
      OBVIOUS
    <2>1. \A n \in DOMAIN inner' : n + 1 \in DOMAIN inner /\ inner'[n] = inner[n + 1]
      BY <1>0, Rest
    <2> QED  BY <1>0, <1>1, <2>1 DEF WayKnown, Answering
  <1>9. ASSUME NEW e \in Line, inner' = Append(inner, e), e.k = "frame" => Boundary(e.id)'
        PROVE  Inner
    <2>1. \A n \in DOMAIN inner' : (n \in DOMAIN inner /\ inner'[n] = inner[n]) \/ inner'[n] = e
      BY <1>0, <1>9, Elements
    <2> QED  BY <1>0, <1>1, <1>9, <2>1 DEF WayKnown, Answering
  <1>10. core'.lines = core.lines => Says
    BY <1>0, <1>1 DEF WayKnown, Answering
  <1>11. outer' = outer => Heard
    BY <1>0, <1>1 DEF WayKnown, Answering
  <1>12. outer # <<>> /\ outer' = Tail(outer) => Heard
    <2> SUFFICES ASSUME outer # <<>>, outer' = Tail(outer) PROVE Heard
      OBVIOUS
    <2>1. \A n \in DOMAIN outer' : n + 1 \in DOMAIN outer /\ outer'[n] = outer[n + 1]
      BY <1>0, Rest
    <2> QED  BY <1>0, <1>1, <2>1 DEF WayKnown, Answering
  <1>13. ASSUME NEW e \in Letter, outer' = Append(outer, e), e.t = "line" => Fits(e.k, e.id)'
         PROVE  Heard
    <2>1. \A n \in DOMAIN outer' : (n \in DOMAIN outer /\ outer'[n] = outer[n]) \/ outer'[n] = e
      BY <1>0, <1>13, Elements
    <2> QED  BY <1>0, <1>1, <1>13, <2>1 DEF WayKnown, Answering
  <1> HIDE DEF Logs, Hand, Inner, Says, Heard
  <1>14. CASE WayQuiet
    <2>1. Heard
      BY <1>11, <1>12, <1>13, <1>14 DEF WayQuiet, OuterQuiet
    <2> QED  BY <1>2, <1>5, <1>6, <1>7, <1>10, <1>14, <2>1 DEF WayQuiet
  <1>15. ASSUME NEW h \in Nat, WayTakes(h)
         PROVE  Answering'
    <2>1. hand' = Entry("frame", h) /\ hand'.id = h /\ sent' = sent
      BY <1>15 DEF WayTakes, Entry
    <2>2. outer # <<>> /\ outer' = Tail(outer) /\ inner' = inner /\ core'.lines = core.lines
      BY <1>15 DEF WayTakes, Takes
    <2>3. CASE sent[h] \in {"hello", "turn"} /\ log' = Append(log, Entry("forward", h))
      <3>1. PICK e \in Said : e = Entry("forward", h) /\ e.k = "forward" /\ e.id = h
        <4>1. "forward" \in Word
          BY Words
        <4>2. Entry("forward", h) \in Said /\ Entry("forward", h).k = "forward" /\ Entry("forward", h).id = h
          BY <4>1, EntryFields
        <4> QED  BY <4>2
      <3>2. Fits(e.k, e.id)'
        BY <3>1 DEF Fits
      <3>3. Logs
        BY <1>4, <2>1, <2>3, <3>1, <3>2
      <3>4. Forwarded(h)'
        <4>1. /\ Len(log) \in Nat /\ DOMAIN log' = 1..(Len(log) + 1) /\ log'[Len(log) + 1] = e
          BY <1>0, <2>3, <3>1, Grows
        <4>2. Len(log) + 1 \in DOMAIN log'
          BY <4>1
        <4> QED  BY <3>1, <4>1, <4>2 DEF Forwarded
      <3>5. Hand
        BY <2>1, <3>4 DEF Hand, Boundary
      <3> QED  BY <1>2, <1>7, <1>10, <1>12, <2>2, <3>3, <3>5
    <2>4. CASE sent[h] = "control" /\ log' = log
      <3>1. Hand
        BY <2>1, <2>4 DEF Hand, Boundary
      <3> QED  BY <1>2, <1>3, <1>7, <1>10, <1>12, <2>2, <2>4, <3>1
    <2> QED  BY <1>15, <2>3, <2>4 DEF WayTakes
  <1>16. CASE WaySends
    <2>1. hand \in Line /\ inner' = Append(inner, hand) /\ pc = "send" /\ pc' = "sample"
      BY <1>0, <1>16 DEF WaySends, TypeOK
    <2>2. PICK e \in Line : e = hand
      BY <2>1
    <2>3. e.k = "frame" => Boundary(e.id)'
      BY <1>0, <1>1, <2>1, <2>2 DEF WayKnown, Answering
    <2>4. Inner
      BY <1>9, <2>1, <2>2, <2>3
    <2>5. Hand
      BY <2>1 DEF Hand
    <2> QED  BY <1>2, <1>3, <1>10, <1>11, <1>16, <2>4, <2>5 DEF WaySends
  <1>17. CASE WayAsks
    <2>1. /\ inner # <<>> /\ inner' = Tail(inner) /\ inner[1].k = "frame"
          /\ UNCHANGED <<outer, pc, hand, log, sent>>
      BY <1>17 DEF WayAsks
    <2>2. 1 \in DOMAIN inner /\ inner[1] \in Line
      BY <1>0, <2>1, Rest
    <2>3. PICK h \in Nat : h = inner[1].id /\ Boundary(h)'
      BY <1>0, <1>1, <2>1, <2>2 DEF WayKnown, Answering, Line
    <2>4. \/ core'.lines = <<>>
          \/ sent'[h] = "hello" /\ core'.lines = <<Entry("ack", h)>>
          \/ sent'[h] = "turn" /\ core'.lines = <<Entry("accepted", h)>>
          \/ sent'[h] = "turn" /\ core'.lines = <<Entry("accepted", h), Entry("end", h)>>
          \/ core'.lines = <<Entry("other", h)>>
      BY <1>17, <2>1, <2>3 DEF WayAsks
    <2>5. \A k \in {"ack", "accepted", "end", "other"} :
            Entry(k, h) \in Line /\ Entry(k, h).k = k /\ Entry(k, h).id = h
      BY DEF Entry, Line, Word
    <2>6. \A n \in DOMAIN core'.lines : \E k \in {"ack", "accepted", "end", "other"} :
              /\ core'.lines[n] = Entry(k, h)
              /\ k = "ack" => sent'[h] = "hello"
              /\ k = "accepted" => sent'[h] = "turn"
      BY <2>4, <2>5, Few, NoElement
    <2>7. \A k \in {"ack", "accepted", "end", "other"} :
              (k = "ack" => sent'[h] = "hello") /\ (k = "accepted" => sent'[h] = "turn") => Fits(k, h)'
      BY <2>3 DEF Fits, Boundary
    <2>8. Says
      BY <2>5, <2>6, <2>7 DEF Says
    <2>9. HandStays
      BY <2>1 DEF HandStays
    <2> QED  BY <1>2, <1>3, <1>6, <1>8, <1>11, <2>1, <2>8, <2>9
  <1>18. CASE WayDrains
    <2>1. Says
      <3>1. ASSUME NEW n \in Nat, core'.lines = <<Entry("end", n)>>
            PROVE  Says
        <4>1. DOMAIN core'.lines = {1} /\ core'.lines[1].k = "end"
          BY <3>1 DEF Entry
        <4> QED  BY <4>1 DEF Says, Fits
      <3> QED  BY <1>10, <1>18, <3>1 DEF WayDrains
    <2>2. Inner
      <3>1. inner' = <<>> => Inner
        BY NoElement DEF Inner
      <3> QED  BY <1>8, <1>9, <1>18, <3>1 DEF WayDrains
    <2>3. HandStays
      BY <1>18 DEF WayDrains, HandStays
    <2> QED  BY <1>2, <1>3, <1>6, <1>11, <1>18, <2>1, <2>2, <2>3 DEF WayDrains
  <1>19. CASE WayWrites
    <2>1. core.lines # <<>> /\ core'.lines = Tail(core.lines)
          /\ outer' = Append(outer, Message("line", core.lines[1]))
      BY <1>19 DEF WayWrites
    <2>2. 1 \in DOMAIN core.lines /\ core.lines[1] \in Line
      BY <1>0, <2>1, Rest
    <2>3. \A n \in DOMAIN core'.lines : n + 1 \in DOMAIN core.lines /\ core'.lines[n] = core.lines[n + 1]
      BY <1>0, <2>1, Rest
    <2>4. Says
      BY <1>0, <1>1, <2>3 DEF WayKnown, Says, Answering
    <2>5. PICK l \in Line : l = core.lines[1]
      BY <2>2
    <2>6. Fits(l.k, l.id)'
      BY <1>0, <1>1, <2>2, <2>5 DEF WayKnown, Answering
    <2>7. PICK e \in Letter : e = Message("line", l) /\ e.k = l.k /\ e.id = l.id
      <3>1. Message("line", l) \in Letter /\ Message("line", l).k = l.k /\ Message("line", l).id = l.id
        BY DEF Message, Letter, Line
      <3> QED  BY <3>1
    <2>8. Heard
      BY <1>13, <2>1, <2>5, <2>6, <2>7
    <2>9. HandStays /\ inner' = inner /\ log' = log
      BY <1>19 DEF WayWrites, HandStays
    <2> QED  BY <1>2, <1>3, <1>6, <1>7, <2>4, <2>8, <2>9
  <1>20. CASE WayHears
    <2>1. outer # <<>> /\ outer' = Tail(outer) /\ pc' # "send" /\ inner' = inner /\ core'.lines = core.lines
          /\ outer[1].t = "line" /\ outer[1].k \in Word /\ outer[1].id \in Nat
          /\ log' = Append(log, Entry(outer[1].k, outer[1].id))
      BY <1>20 DEF WayHears, Takes
    <2>2. HandStays
      BY <2>1 DEF HandStays
    <2>3. 1 \in DOMAIN outer
      BY <1>0, <2>1, Rest
    <2>4. PICK k \in Word : k = outer[1].k
      BY <2>1
    <2>5. PICK h \in Nat : h = outer[1].id
      BY <2>1
    <2>6. Fits(k, h)' /\ k # "forward"
      BY <1>0, <1>1, <2>1, <2>3, <2>4, <2>5 DEF WayKnown, Answering, CoreWord, Answer
    <2>7. PICK e \in Said : e = Entry(k, h) /\ e.k = k /\ e.id = h
      <3>1. Entry(k, h) \in Said /\ Entry(k, h).k = k /\ Entry(k, h).id = h
        BY EntryFields
      <3> QED  BY <3>1
    <2>8. Logs
      BY <1>4, <2>1, <2>4, <2>5, <2>6, <2>7
    <2> QED  BY <1>2, <1>6, <1>7, <1>10, <1>12, <2>1, <2>2, <2>8
  <1> QED  BY <1>0, <1>14, <1>15, <1>16, <1>17, <1>18, <1>19, <1>20, WaySteps


LEMMA PipelineSteps ==
    ASSUME ReceivedInv, Pipeline, [Next]_vars
    PROVE  Pipeline'
  <1>0. /\ TypeOK /\ Shape /\ InOrder /\ WayKnown /\ LogKnown
        /\ outer \in Seq(Letter) /\ inner \in Seq(Line) /\ core.lines \in Seq(Line) /\ log \in Seq(Said)
    BY DEF ReceivedInv, KnownIds, TypeOK, CoreState
  <1> DEFINE InLog(j) == \A p \in DOMAIN log' : log'[p].k = "accepted" => log'[p].id < j
             InOut(j) == \A n \in DOMAIN outer' :
                            outer'[n].t = "line" /\ outer'[n].k = "accepted" => outer'[n].id < j
             InLines(j) == \A n \in DOMAIN core'.lines :
                            core'.lines[n].k = "accepted" => core'.lines[n].id < j
             InInner(j) == \A n \in DOMAIN inner' : inner'[n].k = "frame" => inner'[n].id < j
             P1 == \A n \in DOMAIN outer' :
                        outer'[n].t = "line" /\ outer'[n].k = "accepted" => InLog(outer'[n].id)
             P2 == \A n, m \in DOMAIN outer' :
                        /\ n < m
                        /\ outer'[n].t = "line" /\ outer'[n].k = "accepted"
                        /\ outer'[m].t = "line" /\ outer'[m].k = "accepted"
                        => outer'[n].id < outer'[m].id
             P3 == \A n \in DOMAIN core'.lines : core'.lines[n].k = "accepted" =>
                        n = 1 /\ InLog(core'.lines[n].id) /\ InOut(core'.lines[n].id)
             P4 == \A n \in DOMAIN inner' : inner'[n].k = "frame" =>
                        InLog(inner'[n].id) /\ InOut(inner'[n].id) /\ InLines(inner'[n].id)
             P5 == \A n, m \in DOMAIN inner' :
                        n < m /\ inner'[n].k = "frame" /\ inner'[m].k = "frame" => inner'[n].id < inner'[m].id
             P6 == pc' = "send" /\ hand'.k = "frame" =>
                        /\ InLog(hand'.id) /\ InOut(hand'.id)
                        /\ InLines(hand'.id) /\ InInner(hand'.id)
  <1>1. P1 /\ P2 /\ P3 /\ P4 /\ P5 /\ P6 => Pipeline'
    BY DEF Pipeline, LogBelow, OuterBelow, LinesBelow, InnerBelow
  \* What each sequence holds of the old one.
  <1>2. log' = log \/ LogQuiet => \A j : LogBelow(j) => InLog(j)
    <2>1. ASSUME NEW e \in Said, log' = Append(log, e), e.k # "accepted"
          PROVE  \A j : LogBelow(j) => InLog(j)
      <3>1. \A n \in DOMAIN log' : (n \in DOMAIN log /\ log'[n] = log[n]) \/ log'[n] = e
        BY <1>0, <2>1, Elements
      <3> QED  BY <2>1, <3>1 DEF LogBelow
    <2>2. log' = log => \A j : LogBelow(j) => InLog(j)
      BY DEF LogBelow
    <2> HIDE DEF InLog
    <2>3. \A e : e.k \notin {"forward"} \cup Answer => e.k # "accepted"
      BY DEF Answer
    <2> QED  BY <2>1, <2>2, <2>3 DEF LogQuiet
  <1>3. outer # <<>> /\ outer' = Tail(outer) =>
            \A n \in DOMAIN outer' : n + 1 \in DOMAIN outer /\ outer'[n] = outer[n + 1] /\ n \in Nat
    <2> SUFFICES ASSUME outer # <<>>, outer' = Tail(outer)
                 PROVE  \A n \in DOMAIN outer' : n + 1 \in DOMAIN outer /\ outer'[n] = outer[n + 1] /\ n \in Nat
      OBVIOUS
    <2>1. DOMAIN outer' = 1..(Len(outer) - 1) /\ Len(outer) \in Nat
      BY <1>0, Shrinks
    <2> QED  BY <1>0, <2>1, Rest
  <1>4. inner # <<>> /\ inner' = Tail(inner) =>
            \A n \in DOMAIN inner' : n + 1 \in DOMAIN inner /\ inner'[n] = inner[n + 1] /\ n \in Nat
    <2> SUFFICES ASSUME inner # <<>>, inner' = Tail(inner)
                 PROVE  \A n \in DOMAIN inner' : n + 1 \in DOMAIN inner /\ inner'[n] = inner[n + 1] /\ n \in Nat
      OBVIOUS
    <2>1. DOMAIN inner' = 1..(Len(inner) - 1) /\ Len(inner) \in Nat
      BY <1>0, Shrinks
    <2> QED  BY <1>0, <2>1, Rest
  <1>5. ASSUME outer # <<>>, outer' = Tail(outer)
        PROVE  /\ \A j : OuterBelow(j) => InOut(j)
               /\ (\A j : LogBelow(j) => InLog(j)) => P1
               /\ P2
    <2>1. \A n \in DOMAIN outer' : n + 1 \in DOMAIN outer /\ outer'[n] = outer[n + 1] /\ n \in Nat
      BY <1>3, <1>5
    <2>2. \A j : OuterBelow(j) => InOut(j)
      BY <2>1 DEF OuterBelow
    <2>3. P2
      BY <2>1 DEF Pipeline
    <2>4. (\A j : LogBelow(j) => InLog(j)) => P1
      <3> HIDE DEF InLog
      <3> QED  BY <2>1 DEF Pipeline
    <2> HIDE DEF InOut, P1, P2, InLog
    <2> QED  BY <2>2, <2>3, <2>4
  <1>6. ASSUME NEW e \in Letter, outer' = Append(outer, e), e.t # "line"
        PROVE  /\ \A j : OuterBelow(j) => InOut(j)
               /\ (\A j : LogBelow(j) => InLog(j)) => P1
               /\ P2
    <2>1. \A n \in DOMAIN outer' : (n \in DOMAIN outer /\ outer'[n] = outer[n]) \/ outer'[n] = e
      BY <1>0, <1>6, Elements
    <2>2. \A j : OuterBelow(j) => InOut(j)
      BY <1>6, <2>1 DEF OuterBelow
    <2>3. P2
      BY <1>6, <2>1 DEF Pipeline
    <2>4. (\A j : LogBelow(j) => InLog(j)) => P1
      <3> HIDE DEF InLog
      <3> QED  BY <1>6, <2>1 DEF Pipeline
    <2> HIDE DEF InOut, P1, P2, InLog
    <2> QED  BY <2>2, <2>3, <2>4
  <1>7. outer' = outer =>
               /\ \A j : OuterBelow(j) => InOut(j)
               /\ (\A j : LogBelow(j) => InLog(j)) => P1
               /\ P2
    <2> SUFFICES ASSUME outer' = outer
                 PROVE  /\ \A j : OuterBelow(j) => InOut(j)
                        /\ (\A j : LogBelow(j) => InLog(j)) => P1
                        /\ P2
      OBVIOUS
    <2>2. \A j : OuterBelow(j) => InOut(j)
      BY DEF OuterBelow
    <2>3. P2
      BY DEF Pipeline
    <2>4. (\A j : LogBelow(j) => InLog(j)) => P1
      <3> HIDE DEF InLog
      <3> QED  BY DEF Pipeline
    <2> HIDE DEF InOut, P1, P2, InLog
    <2> QED  BY <2>2, <2>3, <2>4
  <1>8. core'.lines = core.lines => \A j : LinesBelow(j) => InLines(j)
    BY DEF LinesBelow
  <1>9. /\ inner' = inner => \A j : InnerBelow(j) => InInner(j)
        /\ inner' = inner => P5
    BY DEF InnerBelow, Pipeline
  <1>10. inner # <<>> /\ inner' = Tail(inner) => P5 /\ \A j : InnerBelow(j) => InInner(j)
    BY <1>4 DEF Pipeline, InnerBelow
  \* Where the sequences before a place only lose elements, it stays above them.
  <1>11. ASSUME \A j : LogBelow(j) => InLog(j), \A j : OuterBelow(j) => InOut(j),
                \A j : LinesBelow(j) => InLines(j), \A j : InnerBelow(j) => InInner(j)
         PROVE  /\ core'.lines = core.lines => P3
                /\ inner' = inner \/ (inner # <<>> /\ inner' = Tail(inner)) => P4
                /\ HandStays => P6
    <2> HIDE DEF InLog, InOut, InLines, InInner
    <2>1. core'.lines = core.lines => P3
      BY <1>11 DEF Pipeline
    <2>2. inner' = inner \/ (inner # <<>> /\ inner' = Tail(inner)) => P4
      BY <1>4, <1>11 DEF Pipeline
    <2>3. HandStays => P6
      BY <1>11 DEF Pipeline, HandStays
    <2> HIDE DEF P3, P4, P6
    <2> QED  BY <2>1, <2>2, <2>3
  <1> HIDE DEF P1, P2, P3, P4, P5, P6, InLog, InOut, InLines, InInner
  <1>12. CASE WayQuiet
    <2>1. \A j : LogBelow(j) => InLog(j)
      BY <1>2, <1>12 DEF WayQuiet
    <2>2. (\A j : OuterBelow(j) => InOut(j)) /\ P1 /\ P2
      BY <1>5, <1>6, <1>7, <1>12, <2>1 DEF WayQuiet, OuterQuiet
    <2>3. (\A j : LinesBelow(j) => InLines(j)) /\ (\A j : InnerBelow(j) => InInner(j)) /\ P5
      BY <1>8, <1>9, <1>12 DEF WayQuiet
    <2>4. P3 /\ P4 /\ P6
      BY <1>11, <1>12, <2>1, <2>2, <2>3 DEF WayQuiet
    <2> QED  BY <1>1, <2>2, <2>3, <2>4
  <1>13. ASSUME NEW h \in Nat, WayTakes(h)
         PROVE  Pipeline'
    <2>1. /\ Takes("frame") /\ h = outer[1].id /\ sent' = sent /\ outer # <<>> /\ outer' = Tail(outer)
          /\ inner' = inner /\ core'.lines = core.lines /\ hand'.id = h
      BY <1>13 DEF WayTakes, Takes, Entry
    <2>2. \A i : Known(i) => i < h
      BY <1>0, <2>1, FreshFrame
    <2>3. \A j : LogBelow(j) => InLog(j)
      <3>1. CASE log' = Append(log, Entry("forward", h))
        <4>1. "forward" \in Word /\ "forward" # "accepted"
          BY Words
        <4>2. Entry("forward", h) \in Said /\ Entry("forward", h).k = "forward"
          BY <4>1, EntryFields
        <4>3. \A n \in DOMAIN log' : (n \in DOMAIN log /\ log'[n] = log[n]) \/ log'[n] = Entry("forward", h)
          BY <1>0, <3>1, <4>2, Elements
        <4> QED  BY <4>1, <4>2, <4>3 DEF LogBelow, InLog
      <3> QED  BY <1>2, <1>13, <3>1 DEF WayTakes
    <2>4. (\A j : OuterBelow(j) => InOut(j)) /\ P1 /\ P2
      BY <1>5, <2>1, <2>3
    <2>5. (\A j : LinesBelow(j) => InLines(j)) /\ (\A j : InnerBelow(j) => InInner(j)) /\ P5
      BY <1>8, <1>9, <2>1
    <2>6. P3 /\ P4
      BY <1>11, <2>1, <2>3, <2>4, <2>5
    <2>7. LogBelow(h) /\ OuterBelow(h) /\ LinesBelow(h) /\ InnerBelow(h)
      <3>1. LogBelow(h)
        BY <1>0, <2>2, Words DEF LogKnown, LogBelow
      <3>2. OuterBelow(h) /\ LinesBelow(h) /\ InnerBelow(h)
        BY <1>0, <2>2 DEF WayKnown, OuterBelow, LinesBelow, InnerBelow, Answer
      <3> QED  BY <3>1, <3>2
    <2>8. P6
      BY <2>1, <2>3, <2>4, <2>5, <2>7 DEF P6
    <2> QED  BY <1>1, <2>4, <2>5, <2>6, <2>8
  <1>14. CASE WaySends
    <2>1. /\ hand \in Line /\ inner' = Append(inner, hand) /\ pc = "send" /\ pc' = "sample"
          /\ outer' = outer /\ log' = log /\ core'.lines = core.lines
      BY <1>0, <1>14 DEF WaySends, TypeOK
    <2>2. \A j : LogBelow(j) => InLog(j)
      BY <1>2, <2>1
    <2>3. (\A j : OuterBelow(j) => InOut(j)) /\ P1 /\ P2
      BY <1>7, <2>1, <2>2
    <2>4. \A j : LinesBelow(j) => InLines(j)
      BY <1>8, <2>1
    <2>5. P3
      BY <2>1, <2>2, <2>3 DEF P3, Pipeline
    <2>6. \A n \in DOMAIN inner' : \/ n \in DOMAIN inner /\ inner'[n] = inner[n]
                                   \/ n = Len(inner) + 1 /\ inner'[n] = hand
      BY <1>0, <2>1, Elements
    <2>7. P4
      BY <2>1, <2>2, <2>3, <2>4, <2>6 DEF P4, Pipeline
    <2>8. P5
      <3>1. DOMAIN inner = 1..Len(inner) /\ Len(inner) \in Nat
        BY <1>0
      <3>2. \A n, m \in DOMAIN inner' : n < m => n \in DOMAIN inner /\ inner'[n] = inner[n]
        <4>1. DOMAIN inner' = 1..(Len(inner) + 1)
          BY <1>0, <2>1, Grows
        <4> QED  BY <2>6, <3>1, <4>1
      <3> QED  BY <2>1, <2>6, <3>2 DEF P5, Pipeline, InnerBelow
    <2>9. P6
      BY <2>1 DEF P6
    <2> QED  BY <1>1, <2>3, <2>5, <2>7, <2>8, <2>9
  <1>15. CASE WayAsks
    <2>1. /\ inner # <<>> /\ inner' = Tail(inner) /\ inner[1].k = "frame"
          /\ UNCHANGED <<outer, pc, hand, log, sent>> /\ core.lines = <<>>
      BY <1>15 DEF WayAsks
    <2>2. 1 \in DOMAIN inner /\ inner[1] \in Line
      BY <1>0, <2>1, Rest
    <2>3. PICK h \in Nat : h = inner[1].id
      BY <2>2 DEF Line
    <2>4. \A j : LogBelow(j) => InLog(j)
      BY <1>2, <2>1
    <2>5. (\A j : OuterBelow(j) => InOut(j)) /\ P1 /\ P2
      BY <1>7, <2>1, <2>4
    <2>6. P5 /\ \A j : InnerBelow(j) => InInner(j)
      BY <1>10, <2>1
    <2>7. \A n \in DOMAIN core'.lines : core'.lines[n].k = "accepted" => n = 1 /\ core'.lines[n].id = h
      <3>1. \/ core'.lines = <<>>
            \/ core'.lines = <<Entry("ack", h)>>
            \/ core'.lines = <<Entry("accepted", h)>>
            \/ core'.lines = <<Entry("accepted", h), Entry("end", h)>>
            \/ core'.lines = <<Entry("other", h)>>
        BY <1>15, <2>3 DEF WayAsks
      <3>2. \A k \in {"ack", "accepted", "end", "other"} :
              Entry(k, h) \in Line /\ Entry(k, h).k = k /\ Entry(k, h).id = h
        BY DEF Entry, Line, Word
      <3> QED  BY <3>1, <3>2, Few, NoElement
    <2>8. LogBelow(h) /\ OuterBelow(h)
      BY <2>1, <2>2, <2>3 DEF Pipeline
    <2>9. P3
      BY <2>4, <2>5, <2>7, <2>8 DEF P3
    <2>10. \A n \in DOMAIN inner' : n + 1 \in DOMAIN inner /\ inner'[n] = inner[n + 1] /\ 1 < n + 1
      <3>1. DOMAIN inner' = 1..(Len(inner) - 1) /\ Len(inner) \in Nat
        BY <1>0, <2>1, Shrinks
      <3>2. \A n \in 1..(Len(inner) - 1) : 1 < n + 1
        BY <3>1
      <3> QED  BY <1>4, <2>1, <3>1, <3>2
    <2>11. \A j : h < j => InLines(j)
      BY <2>7 DEF InLines
    <2>12. P4
      <3>1. \A n \in DOMAIN inner' : inner'[n].k = "frame" => h < inner'[n].id
        BY <2>1, <2>2, <2>3, <2>10 DEF Pipeline
      <3> QED  BY <2>4, <2>5, <2>10, <2>11, <3>1 DEF P4, Pipeline
    <2>13. P6
      <3>1. pc = "send" /\ hand.k = "frame" => h < hand.id
        BY <2>1, <2>2, <2>3 DEF Pipeline, InnerBelow
      <3> QED  BY <2>1, <2>4, <2>5, <2>6, <2>11, <3>1 DEF P6, Pipeline
    <2> QED  BY <1>1, <2>5, <2>6, <2>9, <2>12, <2>13
  <1>16. CASE WayDrains
    <2>1. UNCHANGED <<outer, pc, hand, log>>
      BY <1>16 DEF WayDrains
    <2>2. \A j : LogBelow(j) => InLog(j)
      BY <1>2, <2>1
    <2>3. (\A j : OuterBelow(j) => InOut(j)) /\ P1 /\ P2
      BY <1>7, <2>1, <2>2
    <2>4. P3 /\ \A j : LinesBelow(j) => InLines(j)
      <3>1. ASSUME NEW n \in Nat, core'.lines = <<Entry("end", n)>>
            PROVE  P3 /\ \A j : LinesBelow(j) => InLines(j)
        <4>1. DOMAIN core'.lines = {1} /\ core'.lines[1].k = "end"
          BY <3>1 DEF Entry
        <4> QED  BY <4>1 DEF P3, InLines
      <3>2. core'.lines = core.lines => P3
        BY <2>2, <2>3 DEF P3, Pipeline
      <3> QED  BY <1>8, <1>16, <3>1, <3>2 DEF WayDrains
    <2>5. P4 /\ P5 /\ \A j : InnerBelow(j) => InInner(j)
      <3>1. CASE inner # <<>> /\ inner' = Tail(inner)
        <4>1. P5 /\ \A j : InnerBelow(j) => InInner(j)
          BY <1>10, <3>1
        <4> QED  BY <1>11, <2>2, <2>3, <2>4, <3>1, <4>1
      <3>2. CASE inner' = <<>>
        BY <3>2, NoElement DEF P4, P5, InInner
      <3>3. ASSUME NEW e \in Line, inner' = Append(inner, e), e.k # "frame"
            PROVE  P4 /\ P5 /\ \A j : InnerBelow(j) => InInner(j)
        <4>1. \A n \in DOMAIN inner' : (n \in DOMAIN inner /\ inner'[n] = inner[n]) \/ inner'[n] = e
          BY <1>0, <3>3, Elements
        <4>2. P4
          BY <2>2, <2>3, <2>4, <3>3, <4>1 DEF P4, Pipeline
        <4>3. P5
          BY <3>3, <4>1 DEF P5, Pipeline
        <4>4. \A j : InnerBelow(j) => InInner(j)
          BY <3>3, <4>1 DEF InnerBelow, InInner
        <4> QED  BY <4>2, <4>3, <4>4
      <3> QED  BY <1>16, <3>1, <3>2, <3>3 DEF WayDrains
    <2>6. P6
      BY <2>1, <2>2, <2>3, <2>4, <2>5 DEF P6, Pipeline
    <2> QED  BY <1>1, <2>3, <2>4, <2>5, <2>6
  <1>17. CASE WayWrites
    <2>1. /\ core.lines # <<>> /\ core'.lines = Tail(core.lines)
          /\ outer' = Append(outer, Message("line", core.lines[1]))
          /\ UNCHANGED <<inner, log, pc, hand>>
      BY <1>17 DEF WayWrites
    <2>2. 1 \in DOMAIN core.lines /\ core.lines[1] \in Line
      BY <1>0, <2>1, Rest
    <2>3. PICK l \in Line : l = core.lines[1]
      BY <2>2
    <2>4. PICK e \in Letter : e = Message("line", l) /\ e.k = l.k /\ e.id = l.id
      <3>1. Message("line", l) \in Letter /\ Message("line", l).k = l.k /\ Message("line", l).id = l.id
        BY DEF Message, Letter, Line
      <3> QED  BY <3>1
    <2>5. \A n \in DOMAIN outer' : \/ n \in DOMAIN outer /\ outer'[n] = outer[n]
                                   \/ n = Len(outer) + 1 /\ outer'[n] = e
      BY <1>0, <2>1, <2>3, <2>4, Elements
    <2>6. \A j : LogBelow(j) => InLog(j)
      BY <1>2, <2>1
    <2>7. l.k = "accepted" => LogBelow(l.id) /\ OuterBelow(l.id)
      BY <2>2, <2>3 DEF Pipeline
    <2>8. P1
      BY <2>4, <2>5, <2>6, <2>7 DEF P1, Pipeline
    <2>9. P2
      <3>1. DOMAIN outer = 1..Len(outer) /\ Len(outer) \in Nat
        BY <1>0
      <3>2. \A n, m \in DOMAIN outer' : n < m => n \in DOMAIN outer /\ outer'[n] = outer[n]
        <4>1. DOMAIN outer' = 1..(Len(outer) + 1)
          BY <1>0, <2>1, <2>3, <2>4, Grows
        <4> QED  BY <2>5, <3>1, <4>1
      <3> QED  BY <2>4, <2>5, <2>7, <3>2 DEF P2, Pipeline, OuterBelow
    <2>10. \A n \in DOMAIN core'.lines : core'.lines[n].k # "accepted"
      <3>1. DOMAIN core'.lines = 1..(Len(core.lines) - 1) /\ Len(core.lines) \in Nat
        BY <1>0, <2>1, Shrinks
      <3>2. \A n \in 1..(Len(core.lines) - 1) : n + 1 # 1
        BY <3>1
      <3>3. \A n \in DOMAIN core'.lines : n + 1 \in DOMAIN core.lines /\ core'.lines[n] = core.lines[n + 1]
        BY <1>0, <2>1, Rest
      <3> QED  BY <3>1, <3>2, <3>3 DEF Pipeline
    <2>11. P3 /\ \A j : InLines(j)
      BY <2>10 DEF P3, InLines
    <2>12. \A j : OuterBelow(j) /\ LinesBelow(j) => InOut(j)
      BY <2>2, <2>3, <2>4, <2>5 DEF OuterBelow, LinesBelow, InOut
    <2>13. P5 /\ \A j : InnerBelow(j) => InInner(j)
      BY <1>9, <2>1
    <2>14. P4
      BY <2>1, <2>6, <2>11, <2>12 DEF P4, Pipeline
    <2>15. P6
      BY <2>1, <2>6, <2>11, <2>12, <2>13 DEF P6, Pipeline
    <2> QED  BY <1>1, <2>8, <2>9, <2>11, <2>13, <2>14, <2>15
  <1>18. CASE WayHears
    <2>1. /\ outer # <<>> /\ outer' = Tail(outer) /\ pc' # "send" /\ inner' = inner
          /\ core'.lines = core.lines
          /\ outer[1].t = "line" /\ outer[1].k \in Word /\ outer[1].id \in Nat
          /\ log' = Append(log, Entry(outer[1].k, outer[1].id))
      BY <1>18 DEF WayHears, Takes
    <2>2. 1 \in DOMAIN outer
      BY <1>0, <2>1, Rest
    <2>3. PICK e \in Said : e = Entry(outer[1].k, outer[1].id) /\ e.k = outer[1].k /\ e.id = outer[1].id
      <3>1. PICK k \in Word : k = outer[1].k
        BY <2>1
      <3>2. PICK h \in Nat : h = outer[1].id
        BY <2>1
      <3>3. Entry(k, h) \in Said /\ Entry(k, h).k = k /\ Entry(k, h).id = h
        BY EntryFields
      <3> QED  BY <3>1, <3>2, <3>3
    <2>4. \A n \in DOMAIN log' : (n \in DOMAIN log /\ log'[n] = log[n]) \/ log'[n] = e
      BY <1>0, <2>1, <2>3, Elements
    <2>5. \A j : LogBelow(j) /\ OuterBelow(j) => InLog(j)
      BY <2>1, <2>2, <2>3, <2>4 DEF LogBelow, OuterBelow, InLog
    <2>6. \A j : LogBelow(j) /\ (e.k = "accepted" => e.id < j) => InLog(j)
      BY <2>4 DEF LogBelow, InLog
    <2>7. P2 /\ \A j : OuterBelow(j) => InOut(j)
      BY <1>5, <2>1
    <2>8. \A n \in DOMAIN outer' : n + 1 \in DOMAIN outer /\ outer'[n] = outer[n + 1] /\ 1 < n + 1
      <3>1. DOMAIN outer' = 1..(Len(outer) - 1) /\ Len(outer) \in Nat
        BY <1>0, <2>1, Shrinks
      <3>2. \A n \in 1..(Len(outer) - 1) : 1 < n + 1
        BY <3>1
      <3> QED  BY <1>3, <2>1, <3>1, <3>2
    <2>9. P1
      <3>1. \A n \in DOMAIN outer' : outer'[n].t = "line" /\ outer'[n].k = "accepted" =>
                LogBelow(outer'[n].id) /\ (e.k = "accepted" => e.id < outer'[n].id)
        BY <2>1, <2>2, <2>3, <2>8 DEF Pipeline
      <3> QED  BY <2>6, <3>1 DEF P1
    <2>10. (\A j : LinesBelow(j) => InLines(j)) /\ (\A j : InnerBelow(j) => InInner(j)) /\ P5
      BY <1>8, <1>9, <2>1
    <2>11. P3
      BY <2>1, <2>5, <2>7 DEF P3, Pipeline
    <2>12. P4
      BY <2>1, <2>5, <2>7, <2>10 DEF P4, Pipeline
    <2>13. P6
      BY <2>1 DEF P6
    <2> QED  BY <1>1, <2>7, <2>9, <2>10, <2>11, <2>12, <2>13
  <1> QED  BY <1>0, <1>12, <1>13, <1>14, <1>15, <1>16, <1>17, <1>18, WaySteps

-----------------------------------------------------------------------------
(* What the gates wait for *)

GateHello(h) ==
    /\ sent[h] = "hello" /\ sent' = sent /\ log' = Append(log, Entry("forward", h))
    /\ ~barrier.failed /\ ~barrier.seen /\ barrier'.seen = TRUE /\ barrier'.ack = TRUE
    /\ barrier'.accept = barrier.accept
GateTurn(h) ==
    /\ sent[h] = "turn" /\ sent' = sent /\ log' = Append(log, Entry("forward", h))
    /\ ~barrier.failed /\ ~barrier.accept /\ barrier'.seen = barrier.seen
    /\ barrier'.ack = barrier.ack /\ barrier'.accept = TRUE
GateLine == WayHears /\ LineHandled(outer[1].k)

\* A step that forwards nothing and hears no line leaves the gates or fails them.
LEMMA GateSteps ==
    ASSUME TypeOK, Shape, InOrder, [Next]_vars
    PROVE  \/ LogQuiet /\ (GatesKept \/ GatesFail)
           \/ \E h \in Nat : GateHello(h)
           \/ \E h \in Nat : GateTurn(h)
           \/ GateLine
  <1>1. log' = log => LogQuiet
    BY DEF LogQuiet
  <1>2. CASE RecvHello \/ RecvTurn
    <2>1. Takes("frame") /\ LoopUnchanged
      BY <1>2, HelloFacts, TurnFacts
    <2>2. sent' = sent
      BY <2>1 DEF LoopUnchanged, readerVars
    <2>3. PICK h \in Nat : h = outer[1].id /\ sent[h] = outer[1].k
      BY <2>1, <2>2, FreshFrame
    <2>4. Refuses(outer[1].id) => LogQuiet /\ GatesKept
      BY <1>1 DEF Refuses
    <2>5. CASE RecvHello
      <3>1. /\ outer[1].k = "hello"
            /\ \/ /\ Admits(outer[1].id) /\ ~barrier.seen
                  /\ barrier'.seen = TRUE /\ barrier'.ack = TRUE /\ barrier'.accept = barrier.accept
               \/ Refuses(outer[1].id)
        BY <2>5, HelloFacts
      <3> QED  BY <2>2, <2>3, <2>4, <3>1 DEF Admits, GateHello
    <2>6. CASE RecvTurn
      <3>1. /\ outer[1].k = "turn"
            /\ \/ /\ Admits(outer[1].id) /\ ~barrier.accept
                  /\ barrier'.seen = barrier.seen /\ barrier'.ack = barrier.ack
                  /\ barrier'.accept = TRUE
               \/ Refuses(outer[1].id)
        BY <2>6, TurnFacts
      <3> QED  BY <2>2, <2>3, <2>4, <3>1 DEF Admits, GateTurn
    <2> QED  BY <1>2, <2>5, <2>6
  <1>3. CASE RecvCoreLine
    <2>1. /\ Takes("line") /\ LoopUnchanged /\ pc' # "send" /\ LineHandled(outer[1].k)
          /\ log' = Append(log, Entry(outer[1].k, outer[1].id))
      BY <1>3, LineFacts
    <2> QED  BY <2>1 DEF WayHears, GateLine, LoopUnchanged, readerVars, coreVars
  <1>4. CASE RecvJobFrame
    <2>1. JobHandled(outer[1].id) /\ GatesKept /\ outer[1].id \in Nat
      BY <1>4, JobFrameFacts DEF Takes
    <2> QED  BY <1>1, <2>1, QuietWords, QuietDispatch DEF JobHandled
  <1>5. CASE RecvCoreComplete
    <2>1. (log' = log \/ log' = Append(log, Entry("core failed", 0))) /\ (GatesFail \/ GatesKept)
      BY <1>5, CompleteFacts
    <2> QED  BY <1>1, <2>1, QuietWords
  <1>6. CASE FlushAction
    <2>1. /\ Queue # <<>> /\ Queue \in Seq(Action) /\ GatesKept
          /\ \/ log' = Append(log, Entry("error", Queue[1].id))
             \/ log' = Append(log, Entry("refuse", Queue[1].id))
             \/ Dispatched(Queue[1].id)
      BY <1>6, FlushActionFacts
    <2>2. Queue[1] \in Action
      BY <2>1, Shrinks
    <2>3. Queue[1].id \in Nat
      BY <2>2 DEF Action
    <2> QED  BY <2>1, <2>3, QuietWords, QuietDispatch
  <1>7. CASE FlushSummary \/ FlushSuppressed \/ FlushDone
    <2>1. /\ \/ log' = Append(log, Entry("summary", Counted))
             \/ log' = Append(log, Entry("suppressed", release.errors))
             \/ log' = log
          /\ GatesKept
      BY <1>7, FlushEndFacts
    <2>2. Counted \in SUBSET Nat /\ release.errors \in SUBSET Nat
      BY DEF TypeOK, Counted, Barrier, Held
    <2> QED  BY <1>1, <2>1, <2>2, QuietWords
  <1>8. CASE poll_job_waits
    <2>1. /\ waits # <<>> /\ (log' = log \/ log' = Append(log, Entry("waited", waits[1]))) /\ GatesKept
      BY <1>8, WaitFacts
    <2>2. waits[1] \in Nat
      BY <2>1, Shrinks DEF TypeOK
    <2> QED  BY <1>1, <2>1, <2>2, QuietWords
  <1>9. CASE \/ RecvControl \/ RecvEof \/ SendToCore \/ SendFails \/ RecvTimeout \/ Sample
             \/ (\E i \in Frame : poll_job_events(i)) \/ FinishRound \/ Outside
    <2>1. log' = log /\ (GatesKept \/ GatesFail)
      BY <1>9, ControlFacts, SendFacts, SendFailsFacts, TimeoutFacts, PollFacts, FinishFacts, OutsideFacts
    <2> QED  BY <1>1, <2>1
  <1>10. CASE UNCHANGED vars
    BY <1>1, <1>10 DEF vars, writeVars, barrierVars, GatesKept
  <1> QED  BY <1>2, <1>3, <1>4, <1>5, <1>6, <1>7, <1>8, <1>9, <1>10, StepKinds

\* The old entries of the log keep their meaning.
LEMMA AskedStays ==
    ASSUME ReceivedInv, [Next]_vars, NEW e \in Said, log' = Append(log, e)
    PROVE  /\ Len(log) \in Nat /\ DOMAIN log = 1..Len(log) /\ DOMAIN log' = 1..(Len(log) + 1)
           /\ log'[Len(log) + 1] = e
           /\ \A n \in DOMAIN log : log'[n] = log[n]
           /\ \A f \in DOMAIN log : \A kind : Asked(f, kind)' <=> Asked(f, kind)
           /\ \A f \in DOMAIN log : Answered(f) => Answered(f)'
           /\ \A f \in DOMAIN log : e.k \in Answer /\ e.id = log[f].id => Answered(f)'
           /\ e.k # "forward" => \A n, kind : n = Len(log) + 1 => ~Asked(n, kind)'
  <1>0. TypeOK /\ Shape /\ InOrder /\ LogKnown /\ log \in Seq(Said)
    BY DEF ReceivedInv, KnownIds, TypeOK
  <1>1. /\ Len(log) \in Nat /\ DOMAIN log = 1..Len(log) /\ DOMAIN log' = 1..(Len(log) + 1)
        /\ log'[Len(log) + 1] = e
        /\ \A n \in 1..Len(log) : log'[n] = log[n]
    BY <1>0, Grows
  <1>2. \A n \in DOMAIN log : n \in DOMAIN log' /\ log'[n] = log[n] /\ n < Len(log) + 1
    BY <1>1
  <1>3. \A f \in DOMAIN log : log[f].k = "forward" => sent'[log[f].id] = sent[log[f].id]
    <2>1. \A i : Known(i) => sent'[i] = sent[i]
      BY <1>0, KnownStays
    <2> QED  BY <1>0, <2>1, Words DEF LogKnown
  <1>4. \A f \in DOMAIN log : \A kind : Asked(f, kind)' <=> Asked(f, kind)
    BY <1>2, <1>3 DEF Asked
  <1>5. \A f \in DOMAIN log : Answered(f) => Answered(f)'
    BY <1>2 DEF Answered
  <1>6. \A f \in DOMAIN log : e.k \in Answer /\ e.id = log[f].id => Answered(f)'
    <2>1. Len(log) + 1 \in DOMAIN log'
      BY <1>1
    <2> QED  BY <1>1, <1>2, <2>1 DEF Answered
  <1>7. e.k # "forward" => \A n, kind : n = Len(log) + 1 => ~Asked(n, kind)'
    BY <1>1 DEF Asked
  <1> QED  BY <1>1, <1>2, <1>4, <1>5, <1>6, <1>7

LEMMA GatesSteps ==
    ASSUME ReceivedInv, Answering, Pipeline, Gates, [Next]_vars
    PROVE  Gates'
  <1>0. /\ TypeOK /\ Shape /\ InOrder /\ WayKnown /\ LogKnown /\ log \in Seq(Said)
        /\ outer \in Seq(Letter)
    BY DEF ReceivedInv, KnownIds, TypeOK
  <1>1. \A i : Known(i) => sent'[i] = sent[i]
    BY <1>0, KnownStays
  <1>2. ASSUME log' = log, GatesKept \/ GatesFail
        PROVE  Gates'
    <2>1. \A f \in DOMAIN log : log[f].k = "forward" => sent'[log[f].id] = sent[log[f].id]
      BY <1>0, <1>1, Words DEF LogKnown
    <2>2. \A f, kind : Asked(f, kind)' <=> Asked(f, kind)
      BY <1>2, <2>1 DEF Asked
    <2>3. \A f : Answered(f)' <=> Answered(f)
      BY <1>2 DEF Answered
    <2> QED  BY <1>2, <2>2, <2>3 DEF Gates, GatesKept, GatesFail
  <1>3. ASSUME NEW e \in Said, log' = Append(log, e), e.k # "forward", GatesKept \/ GatesFail
        PROVE  Gates'
    <2>1. /\ DOMAIN log = 1..Len(log) /\ DOMAIN log' = 1..(Len(log) + 1) /\ Len(log) \in Nat
          /\ \A f \in DOMAIN log : \A kind : Asked(f, kind)' <=> Asked(f, kind)
          /\ \A f \in DOMAIN log : Answered(f) => Answered(f)'
          /\ \A n, kind : n = Len(log) + 1 => ~Asked(n, kind)'
      BY <1>3, AskedStays
    <2>2. \A f \in DOMAIN log' : \A kind : Asked(f, kind)' => f \in DOMAIN log /\ Asked(f, kind)
      <3>1. \A f \in DOMAIN log' : f \in DOMAIN log \/ f = Len(log) + 1
        BY <2>1
      <3> QED  BY <2>1, <3>1
    <2> QED  BY <1>3, <2>1, <2>2 DEF Gates, GatesKept, GatesFail
  <1>4. CASE LogQuiet /\ (GatesKept \/ GatesFail)
    BY <1>2, <1>3, <1>4 DEF LogQuiet
  <1>5. ASSUME NEW h \in Nat, GateHello(h) \/ GateTurn(h)
        PROVE  Gates'
    <2>1. PICK e \in Said : e = Entry("forward", h) /\ e.k = "forward" /\ e.id = h
      <3>1. "forward" \in Word
        BY Words
      <3>2. Entry("forward", h) \in Said /\ Entry("forward", h).k = "forward" /\ Entry("forward", h).id = h
        BY <3>1, EntryFields
      <3> QED  BY <3>2
    <2>2. log' = Append(log, e) /\ sent' = sent
      BY <1>5, <2>1 DEF GateHello, GateTurn
    <2>3. /\ DOMAIN log = 1..Len(log) /\ DOMAIN log' = 1..(Len(log) + 1) /\ Len(log) \in Nat
          /\ log'[Len(log) + 1] = e
          /\ \A f \in DOMAIN log : \A kind : Asked(f, kind)' <=> Asked(f, kind)
          /\ \A f \in DOMAIN log : Answered(f) => Answered(f)'
      BY <2>2, AskedStays
    <2>4. \A f \in DOMAIN log' : f \in DOMAIN log \/ f = Len(log) + 1
      BY <2>3
    <2>5. \A n, kind : n = Len(log) + 1 /\ Asked(n, kind)' => kind = sent[h]
      BY <2>1, <2>2, <2>3 DEF Asked
    <2>6. CASE GateHello(h)
      <3>1. \A f \in DOMAIN log : ~Asked(f, "hello")
        BY <2>6 DEF Gates, GateHello
      <3>2. \A f \in DOMAIN log' : Asked(f, "hello")' => f = Len(log) + 1
        BY <2>3, <2>4, <3>1
      <3>3. \A f \in DOMAIN log' : Asked(f, "turn")' => f \in DOMAIN log /\ Asked(f, "turn")
        BY <2>3, <2>4, <2>5, <2>6 DEF GateHello
      <3> QED  BY <2>3, <2>6, <3>2, <3>3 DEF Gates, GateHello
    <2>7. CASE GateTurn(h)
      <3>1. \A f \in DOMAIN log : Asked(f, "turn") => Answered(f)
        BY <2>7 DEF Gates, GateTurn
      <3>2. \A f \in DOMAIN log' : Asked(f, "turn")' => f = Len(log) + 1 \/ Answered(f)'
        BY <2>3, <2>4, <3>1
      <3>3. \A f \in DOMAIN log' : Asked(f, "hello")' => f \in DOMAIN log /\ Asked(f, "hello")
        BY <2>3, <2>4, <2>5, <2>7 DEF GateTurn
      <3> QED  BY <2>3, <2>7, <3>2, <3>3 DEF Gates, GateTurn
    <2> QED  BY <1>5, <2>6, <2>7
  <1>6. CASE GateLine
    <2>1. /\ outer # <<>> /\ outer[1].t = "line" /\ outer[1].k \in Word /\ outer[1].id \in Nat
          /\ log' = Append(log, Entry(outer[1].k, outer[1].id)) /\ LineHandled(outer[1].k)
      BY <1>6 DEF GateLine, WayHears, Takes
    <2>2. 1 \in DOMAIN outer
      BY <1>0, <2>1, Rest
    <2>3. PICK k \in Word : k = outer[1].k
      BY <2>1
    <2>4. PICK h \in Nat : h = outer[1].id
      BY <2>1
    <2>5. PICK e \in Said : e = Entry(k, h) /\ e.k = k /\ e.id = h
      <3>1. Entry(k, h) \in Said /\ Entry(k, h).k = k /\ Entry(k, h).id = h
        BY EntryFields
      <3> QED  BY <3>1
    <2>6. Fits(k, h) /\ k # "forward" /\ (k = "accepted" => LogBelow(h))
      BY <1>0, <2>1, <2>2, <2>3, <2>4 DEF WayKnown, Answering, Pipeline, CoreWord, Answer
    <2>7. log' = Append(log, e) /\ LineHandled(k) /\ e.k # "forward"
      BY <2>1, <2>3, <2>4, <2>5, <2>6
    <2>8. /\ DOMAIN log = 1..Len(log) /\ DOMAIN log' = 1..(Len(log) + 1) /\ Len(log) \in Nat
          /\ \A f \in DOMAIN log : \A kind : Asked(f, kind)' <=> Asked(f, kind)
          /\ \A f \in DOMAIN log : Answered(f) => Answered(f)'
          /\ \A f \in DOMAIN log : e.k \in Answer /\ e.id = log[f].id => Answered(f)'
          /\ \A n, kind : n = Len(log) + 1 => ~Asked(n, kind)'
      BY <2>7, AskedStays
    <2>9. \A f \in DOMAIN log' : \A kind : Asked(f, kind)' => f \in DOMAIN log /\ Asked(f, kind)
      <3>1. \A f \in DOMAIN log' : f \in DOMAIN log \/ f = Len(log) + 1
        BY <2>8
      <3> QED  BY <2>8, <3>1
    <2>10. CASE /\ k = "ack" /\ barrier'.failed = barrier.failed /\ barrier'.seen = barrier.seen
                /\ barrier'.ack = FALSE /\ barrier'.accept = barrier.accept
      <3>1. PICK f \in DOMAIN log : log[f].k = "forward" /\ log[f].id = h /\ sent[h] = "hello"
        BY <2>6, <2>10 DEF Fits, Forwarded
      <3>2. Asked(f, "hello") /\ Answered(f)'
        BY <2>5, <2>8, <2>10, <3>1 DEF Asked, Answer
      <3>3. \A g \in DOMAIN log' : Asked(g, "hello")' => Answered(g)'
        BY <2>9, <3>2 DEF Gates
      <3> QED  BY <2>8, <2>9, <2>10, <3>3 DEF Gates
    <2>11. CASE /\ k = "accepted" /\ barrier'.failed = barrier.failed /\ barrier'.seen = barrier.seen
                /\ barrier'.ack = barrier.ack /\ barrier'.accept = FALSE
      <3>1. PICK f \in DOMAIN log : log[f].k = "forward" /\ log[f].id = h /\ sent[h] = "turn"
        BY <2>6, <2>11 DEF Fits, Forwarded
      <3>2. Asked(f, "turn") /\ Answered(f)'
        BY <2>5, <2>8, <2>11, <3>1 DEF Asked, Answer
      <3>3. ~Answered(f)
        <4>1. \A q \in DOMAIN log : log[q].k = "accepted" => log[q].id # h
          BY <2>6, <2>11 DEF LogBelow
        <4>2. \A q \in DOMAIN log : log[q].k = "ack" => log[q].id # h
          BY <3>1 DEF Answering, Fits
        <4> QED  BY <3>1, <4>1, <4>2 DEF Answered, Answer
      <3>4. ~barrier'.failed => \A g \in DOMAIN log' : Asked(g, "turn")' => Answered(g)'
        BY <2>8, <2>9, <2>11, <3>2, <3>3 DEF Gates
      <3> QED  BY <2>8, <2>9, <2>11, <3>4 DEF Gates
    <2> QED  BY <1>3, <2>7, <2>10, <2>11 DEF LineHandled
  <1> QED  BY <1>0, <1>4, <1>5, <1>6, GateSteps

-----------------------------------------------------------------------------
(* Effects come in order, and behind the gates *)

Fresh(h) == \A i : Known(i) => i < h
NoEffect == log' = log \/ \E e \in Said : log' = Append(log, e) /\ e.k # "effect"
QueueMoves ==
    \/ Queue' = Queue
    \/ Queue # <<>> /\ Queue' = Tail(Queue)
    \/ \E a \in Action : Queue' = Append(Queue, a) /\ Fresh(a.id)
\* A job is touched by the frame just read, or by the first one deferred.
Effect(h) ==
    /\ log' = Append(log, Entry("effect", h)) /\ ~pending(barrier) /\ ~barrier.failed
    /\ \/ Queue = <<>> /\ Queue' = Queue /\ Fresh(h)
       \/ Queue # <<>> /\ Queue' = Tail(Queue) /\ h = Queue[1].id

LEMMA EffectSteps ==
    ASSUME ReceivedInv, [Next]_vars
    PROVE  (NoEffect /\ QueueMoves) \/ \E h \in Nat : Effect(h)
  <1>0. TypeOK /\ Shape /\ InOrder /\ WayKnown /\ outer \in Seq(Letter)
    BY DEF ReceivedInv, KnownIds, TypeOK
  <1>q. Queue \in Seq(Action)
    BY <1>0 DEF TypeOK, Queue, Barrier, Held
  <1>1. \A k \in Word, i \in Nat \cup SUBSET Nat :
            log' = Append(log, Entry(k, i)) /\ k # "effect" => NoEffect
    BY EntryFields DEF NoEffect
  <1>2. {"forward", "refuse", "error", "waited", "core failed", "summary", "suppressed"} \subseteq Word \ {"effect"}
    BY DEF Word
  <1>3. log' = log => NoEffect
    BY DEF NoEffect
  <1>4. ASSUME NEW h \in Nat, Dispatched(h)
        PROVE  NoEffect \/ log' = Append(log, Entry("effect", h))
    BY <1>1, <1>2, <1>3, <1>4 DEF Dispatched
  <1> HIDE DEF NoEffect
  <1>5. HeldKept => QueueMoves
    BY DEF HeldKept, QueueMoves
  <1>6. CASE RecvHello \/ RecvTurn
    <2>1. /\ Takes("frame") /\ LoopUnchanged
          /\ log' = log \/ log' = Append(log, Entry("forward", outer[1].id))
          /\ Queue' = Queue \/ Queue' = Append(Queue, ProtocolError(outer[1].id))
      BY <1>0, <1>6, HelloFacts, TurnFacts DEF Admits, Refuses, HeldKept
    <2>2. sent' = sent
      BY <2>1 DEF LoopUnchanged, readerVars
    <2>3. PICK h \in Nat : h = outer[1].id /\ Fresh(h)
      BY <1>0, <2>1, <2>2, FreshFrame DEF Fresh
    <2>4. ProtocolError(h) \in Action /\ ProtocolError(h).id = h
      BY DEF ProtocolError, Action
    <2>5. QueueMoves
      BY <2>1, <2>3, <2>4 DEF QueueMoves
    <2>6. NoEffect
      BY <1>1, <1>2, <1>3, <2>1, <2>3
    <2> QED  BY <2>5, <2>6
  <1>7. CASE RecvJobFrame
    <2>1. Takes("frame") /\ LoopUnchanged /\ JobHandled(outer[1].id)
      BY <1>0, <1>7, JobFrameFacts
    <2>2. sent' = sent /\ pc = "recv"
      BY <2>1 DEF LoopUnchanged, readerVars, Takes
    <2>3. PICK h \in Nat : h = outer[1].id /\ Fresh(h)
      BY <1>0, <2>1, <2>2, FreshFrame DEF Fresh
    <2>4. JobHandled(h)
      BY <2>1, <2>3
    <2>5. CASE log' = log /\ ((\E how \in {"dispatch", "refuse"} : Queue' = Append(Queue, Job(h, how))) \/ Queue' = Queue)
      <3>1. \A how \in {"dispatch", "refuse"} : Job(h, how) \in Action /\ Job(h, how).id = h
        BY DEF Job, Action
      <3>2. QueueMoves
        BY <2>3, <2>5, <3>1 DEF QueueMoves
      <3> QED  BY <1>3, <2>5, <3>2
    <2>6. CASE log' = Append(log, Entry("refuse", h)) /\ HeldKept
      BY <1>1, <1>2, <1>5, <2>6
    <2>7. CASE ~pending(barrier) /\ ~barrier.failed /\ Dispatched(h) /\ HeldKept
      <3>1. Queue = <<>> /\ Queue' = Queue
        BY <1>0, <2>2, <2>7 DEF Shape, Queue, HeldKept
      <3>2. log' = Append(log, Entry("effect", h)) => Effect(h)
        BY <2>3, <2>7, <3>1 DEF Effect
      <3> QED  BY <1>4, <1>5, <2>7, <3>2
    <2> QED  BY <2>4, <2>5, <2>6, <2>7 DEF JobHandled
  <1>8. CASE RecvCoreLine
    <2>1. Takes("line") /\ HeldKept /\ log' = Append(log, Entry(outer[1].k, outer[1].id))
      BY <1>0, <1>8, LineFacts
    <2>2. outer # <<>> /\ outer[1].t = "line" /\ outer[1].id \in Nat /\ outer[1].k \in Word
      BY <2>1 DEF Takes
    <2>3. 1 \in DOMAIN outer
      BY <1>0, <2>2, Rest
    <2>4. outer[1].k # "effect"
      BY <1>0, <2>2, <2>3 DEF WayKnown, CoreWord, Answer
    <2> QED  BY <1>1, <1>5, <2>1, <2>2, <2>4
  <1>9. CASE RecvCoreComplete
    <2>1. HeldKept /\ (log' = log \/ log' = Append(log, Entry("core failed", 0)))
      BY <1>0, <1>9, CompleteFacts
    <2> QED  BY <1>1, <1>2, <1>3, <1>5, <2>1
  <1>10. CASE FlushAction
    <2>1. /\ Queue # <<>> /\ Queue' = Tail(Queue) /\ ~pending(barrier)
          /\ \/ log' = Append(log, Entry("error", Queue[1].id))
             \/ log' = Append(log, Entry("refuse", Queue[1].id))
             \/ ~barrier.failed /\ Dispatched(Queue[1].id)
      BY <1>0, <1>10, FlushActionFacts
    <2>2. Queue[1] \in Action
      BY <1>q, <2>1, Shrinks
    <2>3. PICK h \in Nat : h = Queue[1].id
      BY <2>2 DEF Action
    <2>4. QueueMoves
      BY <2>1 DEF QueueMoves
    <2>5. CASE log' = Append(log, Entry("error", h)) \/ log' = Append(log, Entry("refuse", h))
      BY <1>1, <1>2, <2>4, <2>5
    <2>6. CASE ~barrier.failed /\ Dispatched(h)
      <3>1. log' = Append(log, Entry("effect", h)) => Effect(h)
        BY <2>1, <2>3, <2>6 DEF Effect
      <3> QED  BY <1>4, <2>4, <2>6, <3>1
    <2> QED  BY <2>1, <2>3, <2>5, <2>6
  <1>11. CASE FlushSummary \/ FlushSuppressed \/ FlushDone
    <2>1. /\ \/ log' = Append(log, Entry("summary", Counted))
             \/ log' = Append(log, Entry("suppressed", release.errors))
             \/ log' = log
          /\ Queue' = Queue
      BY <1>0, <1>11, FlushEndFacts
    <2>2. Counted \in SUBSET Nat /\ release.errors \in SUBSET Nat
      BY <1>0 DEF TypeOK, Counted, Barrier, Held
    <2>3. NoEffect
      BY <1>1, <1>2, <1>3, <2>1, <2>2
    <2> QED  BY <2>1, <2>3 DEF QueueMoves
  <1>12. CASE poll_job_waits
    <2>1. HeldKept /\ waits # <<>> /\ (log' = log \/ log' = Append(log, Entry("waited", waits[1])))
      BY <1>0, <1>12, WaitFacts
    <2>2. waits[1] \in Nat
      BY <1>0, <2>1, Shrinks DEF TypeOK
    <2> QED  BY <1>1, <1>2, <1>3, <1>5, <2>1, <2>2
  <1>13. CASE \/ RecvControl \/ RecvEof \/ SendToCore \/ SendFails \/ RecvTimeout \/ Sample
              \/ (\E i \in Frame : poll_job_events(i)) \/ FinishRound \/ Outside
    <2>1. log' = log /\ HeldKept
      BY <1>0, <1>13, ControlFacts, SendFacts, SendFailsFacts, TimeoutFacts, PollFacts, FinishFacts,
         OutsideFacts
    <2> QED  BY <1>3, <1>5, <2>1
  <1>14. CASE UNCHANGED vars
    <2>1. log' = log /\ HeldKept
      BY <1>14 DEF vars, writeVars, barrierVars, loopVars, HeldKept, Queue, Counted
    <2> QED  BY <1>3, <1>5, <2>1
  <1> QED  BY <1>6, <1>7, <1>8, <1>9, <1>10, <1>11, <1>12, <1>13, <1>14, StepKinds

\* A new effect is above the ones before it.
LEMMA EffectAbove ==
    ASSUME ReceivedInv, EffectsInOrder, NEW h \in Nat, Effect(h)
    PROVE  EffectsBelow(h)
  <1>q. Queue \in Seq(Action) /\ LogKnown
    BY DEF ReceivedInv, KnownIds, TypeOK, Queue, Barrier, Held
  <1>1. CASE Fresh(h)
    BY <1>q, <1>1, Words DEF Fresh, LogKnown, EffectsBelow
  <1>2. CASE Queue # <<>> /\ h = Queue[1].id
    <2>1. 1 \in DOMAIN Queue
      BY <1>q, <1>2, Rest
    <2> QED  BY <1>2, <2>1 DEF EffectsInOrder
  <1> QED  BY <1>1, <1>2 DEF Effect

LEMMA EffectsSteps ==
    ASSUME ReceivedInv, EffectsInOrder, [Next]_vars
    PROVE  EffectsInOrder'
  <1>0. TypeOK /\ LogKnown /\ HeldKnown /\ log \in Seq(Said) /\ Queue \in Seq(Action)
    BY DEF ReceivedInv, KnownIds, TypeOK, Queue, Barrier, Held
  <1> DEFINE Below(j) == \A p \in DOMAIN log' : log'[p].k = "effect" => log'[p].id < j
             Q1 == \A n \in DOMAIN Queue' : Below(Queue'[n].id)
             Q2 == \A n, m \in DOMAIN Queue' : n < m => Queue'[n].id < Queue'[m].id
  <1>1. Q1 /\ Q2 => EffectsInOrder'
    BY DEF EffectsInOrder, EffectsBelow
  <1>2. NoEffect => \A j : EffectsBelow(j) => Below(j)
    <2>1. ASSUME NEW e \in Said, log' = Append(log, e), e.k # "effect"
          PROVE  \A j : EffectsBelow(j) => Below(j)
      <3>1. \A n \in DOMAIN log' : (n \in DOMAIN log /\ log'[n] = log[n]) \/ log'[n] = e
        BY <1>0, <2>1, Elements
      <3> QED  BY <2>1, <3>1 DEF EffectsBelow
    <2>2. log' = log => \A j : EffectsBelow(j) => Below(j)
      BY DEF EffectsBelow
    <2> HIDE DEF Below
    <2> QED  BY <2>1, <2>2 DEF NoEffect
  <1>3. ASSUME NEW h \in Nat, Effect(h)
        PROVE  \A j : EffectsBelow(j) /\ h < j => Below(j)
    <2>1. PICK e \in Said : e = Entry("effect", h) /\ e.k = "effect" /\ e.id = h
      <3>1. "effect" \in Word
        BY Words
      <3>2. Entry("effect", h) \in Said /\ Entry("effect", h).k = "effect" /\ Entry("effect", h).id = h
        BY <3>1, EntryFields
      <3> QED  BY <3>2
    <2>2. \A n \in DOMAIN log' : (n \in DOMAIN log /\ log'[n] = log[n]) \/ log'[n] = e
      BY <1>0, <1>3, <2>1, Elements DEF Effect
    <2> QED  BY <2>1, <2>2 DEF EffectsBelow
  <1>4. ASSUME Queue # <<>>, Queue' = Tail(Queue)
        PROVE  \A n \in DOMAIN Queue' :
                    n \in Nat /\ n + 1 \in DOMAIN Queue /\ Queue'[n] = Queue[n + 1] /\ 1 < n + 1
    <2>1. DOMAIN Queue' = 1..(Len(Queue) - 1) /\ Len(Queue) \in Nat
      BY <1>0, <1>4, Shrinks
    <2>2. \A n \in 1..(Len(Queue) - 1) : n \in Nat /\ 1 < n + 1
      BY <2>1
    <2> QED  BY <1>0, <1>4, <2>1, <2>2, Rest
  <1>5. CASE NoEffect /\ QueueMoves
    <2>1. \A j : EffectsBelow(j) => Below(j)
      BY <1>2, <1>5
    <2> HIDE DEF Below
    <2>2. CASE Queue' = Queue
      <3>1. Q1
        BY <2>1, <2>2 DEF EffectsInOrder
      <3>2. Q2
        BY <2>2 DEF EffectsInOrder
      <3> QED  BY <1>1, <3>1, <3>2
    <2>3. CASE Queue # <<>> /\ Queue' = Tail(Queue)
      <3>1. \A n \in DOMAIN Queue' : n \in Nat /\ n + 1 \in DOMAIN Queue /\ Queue'[n] = Queue[n + 1]
        BY <1>4, <2>3
      <3>2. Q1
        BY <2>1, <3>1 DEF EffectsInOrder
      <3>3. Q2
        BY <3>1 DEF EffectsInOrder
      <3> QED  BY <1>1, <3>2, <3>3
    <2>4. ASSUME NEW a \in Action, Queue' = Append(Queue, a), Fresh(a.id)
          PROVE  EffectsInOrder'
      <3>1. \A n \in DOMAIN Queue' : \/ n \in DOMAIN Queue /\ Queue'[n] = Queue[n]
                                     \/ n = Len(Queue) + 1 /\ Queue'[n] = a
        BY <1>0, <2>4, Elements
      <3>2. EffectsBelow(a.id)
        BY <1>0, <2>4, Words DEF Fresh, LogKnown, EffectsBelow
      <3>3. \A n \in DOMAIN Queue : Queue[n].id < a.id
        BY <1>0, <2>4 DEF Fresh, HeldKnown
      <3>4. Q1
        BY <2>1, <3>1, <3>2 DEF EffectsInOrder
      <3>5. Q2
        <4>1. DOMAIN Queue = 1..Len(Queue) /\ Len(Queue) \in Nat /\ DOMAIN Queue' = 1..(Len(Queue) + 1)
          BY <1>0, <2>4, Grows
        <4>2. \A n, m \in DOMAIN Queue' : n < m => n \in DOMAIN Queue /\ Queue'[n] = Queue[n]
          BY <3>1, <4>1
        <4> QED  BY <3>1, <3>3, <4>2 DEF EffectsInOrder
      <3> QED  BY <1>1, <3>4, <3>5
    <2> QED  BY <1>5, <2>2, <2>3, <2>4 DEF QueueMoves
  <1>6. ASSUME NEW h \in Nat, Effect(h)
        PROVE  EffectsInOrder'
    <2>1. \A j : EffectsBelow(j) /\ h < j => Below(j)
      BY <1>3, <1>6
    <2> HIDE DEF Below
    <2>2. CASE Queue = <<>> /\ Queue' = Queue
      <3>1. DOMAIN Queue' = {}
        BY <2>2, NoElement
      <3> QED  BY <1>1, <3>1
    <2>3. CASE Queue # <<>> /\ Queue' = Tail(Queue) /\ h = Queue[1].id
      <3>1. \A n \in DOMAIN Queue' :
                n \in Nat /\ n + 1 \in DOMAIN Queue /\ Queue'[n] = Queue[n + 1] /\ 1 < n + 1
        BY <1>4, <2>3
      <3>2. 1 \in DOMAIN Queue
        BY <1>0, <2>3, Rest
      <3>3. \A n \in DOMAIN Queue' : h < Queue'[n].id /\ EffectsBelow(Queue'[n].id)
        BY <2>3, <3>1, <3>2 DEF EffectsInOrder
      <3>4. Q1
        BY <2>1, <3>3
      <3>5. Q2
        BY <3>1 DEF EffectsInOrder
      <3> QED  BY <1>1, <3>4, <3>5
    <2> QED  BY <1>6, <2>2, <2>3 DEF Effect
  <1> QED  BY <1>5, <1>6, EffectSteps

\* An effect is behind every answer that is owed, and behind every effect.
LEMMA LeapSteps ==
    ASSUME ReceivedInv, Answering, Gates, EffectsInOrder, NoLeapfrog, [Next]_vars
    PROVE  NoLeapfrog'
  <1>0. TypeOK /\ log \in Seq(Said)
    BY DEF ReceivedInv, TypeOK
  <1>1. CASE log' = log
    BY <1>1 DEF NoLeapfrog
  <1>2. ASSUME NEW e \in Said, log' = Append(log, e),
               e.k = "effect" => /\ \A f \in DOMAIN log : log[f].k = "forward" => Answered(f)
                                 /\ EffectsBelow(e.id)
        PROVE  NoLeapfrog'
    <2>1. /\ Len(log) \in Nat /\ DOMAIN log = 1..Len(log) /\ DOMAIN log' = 1..(Len(log) + 1)
          /\ log'[Len(log) + 1] = e /\ \A n \in 1..Len(log) : log'[n] = log[n]
      BY <1>0, <1>2, Grows
    <2> SUFFICES ASSUME NEW p \in DOMAIN log', log'[p].k = "effect", NEW f \in 1..(p - 1)
                 PROVE  /\ log'[f].k = "forward" =>
                               \E q \in f..p : log'[q].k \in {"ack", "accepted"} /\ log'[q].id = log'[f].id
                        /\ log'[f].k = "effect" => log'[f].id < log'[p].id
      BY DEF NoLeapfrog
    <2>2. f \in 1..Len(log) /\ log'[f] = log[f] /\ f < p
      BY <2>1
    <2>3. CASE p \in 1..Len(log)
      <3>1. log'[p] = log[p] /\ \A q \in f..p : log'[q] = log[q]
        BY <2>1, <2>2, <2>3
      <3> QED  BY <2>1, <2>2, <2>3, <3>1 DEF NoLeapfrog
    <2>4. CASE p = Len(log) + 1
      <3>1. log'[p] = e
        BY <2>1, <2>4
      <3>2. log[f].k = "forward" =>
                \E q \in f..p : log'[q].k \in {"ack", "accepted"} /\ log'[q].id = log'[f].id
        <4> SUFFICES ASSUME log[f].k = "forward"
                     PROVE  \E q \in f..p : log'[q].k \in {"ack", "accepted"} /\ log'[q].id = log'[f].id
          OBVIOUS
        <4>1. PICK q \in DOMAIN log : f < q /\ log[q].k \in Answer /\ log[q].id = log[f].id
          BY <1>2, <2>1, <2>2, <3>1 DEF Answered
        <4>2. q \in f..p /\ log'[q] = log[q]
          BY <2>1, <2>2, <2>4, <4>1
        <4> QED  BY <2>2, <4>1, <4>2 DEF Answer
      <3>3. log[f].k = "effect" => log[f].id < e.id
        BY <1>2, <2>1, <2>2, <3>1 DEF EffectsBelow
      <3> QED  BY <2>2, <3>1, <3>2, <3>3
    <2> QED  BY <2>1, <2>3, <2>4
  <1>3. ASSUME NEW h \in Nat, Effect(h)
        PROVE  NoLeapfrog'
    <2>1. PICK e \in Said : e = Entry("effect", h) /\ e.k = "effect" /\ e.id = h
      <3>1. "effect" \in Word
        BY Words
      <3>2. Entry("effect", h) \in Said /\ Entry("effect", h).k = "effect" /\ Entry("effect", h).id = h
        BY <3>1, EntryFields
      <3> QED  BY <3>2
    <2>2. EffectsBelow(h)
      BY <1>3, EffectAbove
    <2>3. ~barrier.failed /\ ~barrier.ack /\ ~barrier.accept
      BY <1>3 DEF Effect, pending
    <2>4. \A f \in DOMAIN log : log[f].k = "forward" => Answered(f)
      <3>1. \A f \in DOMAIN log : log[f].k = "forward" => Asked(f, "hello") \/ Asked(f, "turn")
        BY DEF Answering, Asked
      <3> QED  BY <2>3, <3>1 DEF Gates
    <2> QED  BY <1>2, <1>3, <2>1, <2>2, <2>4 DEF Effect
  <1>4. CASE NoEffect
    BY <1>1, <1>2, <1>4 DEF NoEffect
  <1> QED  BY <1>3, <1>4, EffectSteps

Ordered == ReceivedInv /\ Answering /\ Pipeline /\ Gates /\ EffectsInOrder /\ NoLeapfrog

LEMMA OrderedInit == Init => Ordered
  <1> SUFFICES ASSUME Init PROVE Ordered
    OBVIOUS
  <1>1. /\ outer = <<>> /\ inner = <<>> /\ core.lines = <<>> /\ log = <<>>
        /\ pc = "recv" /\ barrier = OpenBarrier
    BY DEF Init
  <1>2. Queue = <<>>
    BY <1>1 DEF Queue, OpenBarrier
  <1>3. Answering /\ Pipeline
    BY <1>1, NoElement DEF Answering, Pipeline
  <1>4. Gates /\ EffectsInOrder /\ NoLeapfrog
    BY <1>1, <1>2, NoElement DEF Gates, EffectsInOrder, NoLeapfrog
  <1> QED  BY <1>3, <1>4, ReceivedInit DEF Ordered

LEMMA OrderedSteps == Ordered /\ [Next]_vars => Ordered'
  BY ReceivedSteps, AnsweringSteps, PipelineSteps, GatesSteps, EffectsSteps, LeapSteps DEF Ordered

-----------------------------------------------------------------------------
(* The places of a job frame: how a sequence gains or loses one            *)

LEMMA LogPlaces ==
    ASSUME NEW L \in Seq(Said), NEW e \in Said, NEW i
    PROVE  /\ ~Answers(e, i) => /\ AnsweredIn(Append(L, e), i) <=> AnsweredIn(L, i)
                                /\ AnsweredAtMostOnce(L, i) => AnsweredAtMostOnce(Append(L, e), i)
           /\ Answers(e, i) => /\ AnsweredIn(Append(L, e), i)
                               /\ ~AnsweredIn(L, i) => AnsweredAtMostOnce(Append(L, e), i)
  <1> DEFINE M == Append(L, e)
  <1>1. /\ Len(L) \in Nat /\ DOMAIN L = 1..Len(L) /\ DOMAIN M = 1..(Len(L) + 1)
        /\ \A n \in 1..Len(L) : M[n] = L[n]
        /\ M[Len(L) + 1] = e
    BY Grows
  <1> HIDE DEF M
  <1>2. \A n \in DOMAIN M : (n \in DOMAIN L /\ M[n] = L[n]) \/ (n = Len(L) + 1 /\ M[n] = e)
    BY <1>1
  <1>3. Len(L) + 1 \in DOMAIN M /\ \A n \in DOMAIN L : n \in DOMAIN M /\ M[n] = L[n]
    BY <1>1
  <1>4. ~Answers(e, i) => (AnsweredIn(M, i) <=> AnsweredIn(L, i))
    BY <1>2, <1>3 DEF AnsweredIn
  <1>5. ~Answers(e, i) => (AnsweredAtMostOnce(L, i) => AnsweredAtMostOnce(M, i))
    BY <1>2 DEF AnsweredAtMostOnce
  <1>6. Answers(e, i) => AnsweredIn(M, i)
    BY <1>1, <1>3 DEF AnsweredIn
  <1>7. Answers(e, i) /\ ~AnsweredIn(L, i) => AnsweredAtMostOnce(M, i)
    BY <1>2 DEF AnsweredIn, AnsweredAtMostOnce
  <1> QED  BY <1>4, <1>5, <1>6, <1>7 DEF M

LEMMA QueuePlaces ==
    ASSUME NEW Q \in Seq(Action), NEW a \in Action, NEW i
    PROVE  /\ ~Holds(a, i) => /\ QueuedIn(Append(Q, a), i) <=> QueuedIn(Q, i)
                              /\ QueuedAtMostOnce(Q, i) => QueuedAtMostOnce(Append(Q, a), i)
           /\ Holds(a, i) => /\ QueuedIn(Append(Q, a), i)
                             /\ ~QueuedIn(Q, i) => QueuedAtMostOnce(Append(Q, a), i)
  <1> DEFINE M == Append(Q, a)
  <1>1. /\ Len(Q) \in Nat /\ DOMAIN Q = 1..Len(Q) /\ DOMAIN M = 1..(Len(Q) + 1)
        /\ \A n \in 1..Len(Q) : M[n] = Q[n]
        /\ M[Len(Q) + 1] = a
    BY Grows
  <1> HIDE DEF M
  <1>2. \A n \in DOMAIN M : (n \in DOMAIN Q /\ M[n] = Q[n]) \/ (n = Len(Q) + 1 /\ M[n] = a)
    BY <1>1
  <1>3. Len(Q) + 1 \in DOMAIN M /\ \A n \in DOMAIN Q : n \in DOMAIN M /\ M[n] = Q[n]
    BY <1>1
  <1>4. ~Holds(a, i) => (QueuedIn(M, i) <=> QueuedIn(Q, i))
    BY <1>2, <1>3 DEF QueuedIn
  <1>5. ~Holds(a, i) => (QueuedAtMostOnce(Q, i) => QueuedAtMostOnce(M, i))
    BY <1>2 DEF QueuedAtMostOnce
  <1>6. Holds(a, i) => QueuedIn(M, i)
    BY <1>1, <1>3 DEF QueuedIn
  <1>7. Holds(a, i) /\ ~QueuedIn(Q, i) => QueuedAtMostOnce(M, i)
    BY <1>2 DEF QueuedIn, QueuedAtMostOnce
  <1> QED  BY <1>4, <1>5, <1>6, <1>7 DEF M

LEMMA QueueTail ==
    ASSUME NEW Q \in Seq(Action), Q # <<>>, NEW i, QueuedAtMostOnce(Q, i)
    PROVE  /\ QueuedAtMostOnce(Tail(Q), i)
           /\ Holds(Q[1], i) => QueuedIn(Q, i) /\ ~QueuedIn(Tail(Q), i)
           /\ ~Holds(Q[1], i) => (QueuedIn(Tail(Q), i) <=> QueuedIn(Q, i))
  <1> DEFINE M == Tail(Q)
  <1>1. /\ Len(Q) \in Nat /\ Len(Q) >= 1 /\ DOMAIN Q = 1..Len(Q) /\ DOMAIN M = 1..(Len(Q) - 1)
        /\ \A n \in 1..(Len(Q) - 1) : M[n] = Q[n + 1]
    BY Shrinks
  <1> HIDE DEF M
  <1>2. \A n \in DOMAIN M : n \in Nat /\ n + 1 \in DOMAIN Q /\ M[n] = Q[n + 1] /\ n + 1 # 1
    BY <1>1
  <1>3. 1 \in DOMAIN Q /\ \A n \in DOMAIN Q : n = 1 \/ (n - 1 \in DOMAIN M /\ M[n - 1] = Q[n])
    BY <1>1
  <1>4. QueuedAtMostOnce(M, i)
    BY <1>2 DEF QueuedAtMostOnce
  <1>5. Holds(Q[1], i) => QueuedIn(Q, i) /\ ~QueuedIn(M, i)
    BY <1>2, <1>3 DEF QueuedIn, QueuedAtMostOnce
  <1>6. ~Holds(Q[1], i) => (QueuedIn(M, i) <=> QueuedIn(Q, i))
    BY <1>2, <1>3 DEF QueuedIn
  <1> QED  BY <1>4, <1>5, <1>6 DEF M

LEMMA SeqPlaces ==
    ASSUME NEW W \in Seq(Nat), NEW h \in Nat, NEW i
    PROVE  /\ h # i => /\ InSeq(Append(W, h), i) <=> InSeq(W, i)
                       /\ AtMostOnceInSeq(W, i) => AtMostOnceInSeq(Append(W, h), i)
           /\ h = i => /\ InSeq(Append(W, h), i)
                       /\ ~InSeq(W, i) => AtMostOnceInSeq(Append(W, h), i)
  <1> DEFINE M == Append(W, h)
  <1>1. /\ Len(W) \in Nat /\ DOMAIN W = 1..Len(W) /\ DOMAIN M = 1..(Len(W) + 1)
        /\ \A n \in 1..Len(W) : M[n] = W[n]
        /\ M[Len(W) + 1] = h
    BY Grows
  <1> HIDE DEF M
  <1>2. \A n \in DOMAIN M : (n \in DOMAIN W /\ M[n] = W[n]) \/ (n = Len(W) + 1 /\ M[n] = h)
    BY <1>1
  <1>3. Len(W) + 1 \in DOMAIN M /\ \A n \in DOMAIN W : n \in DOMAIN M /\ M[n] = W[n]
    BY <1>1
  <1>4. h # i => (InSeq(M, i) <=> InSeq(W, i))
    BY <1>2, <1>3 DEF InSeq
  <1>5. h # i => (AtMostOnceInSeq(W, i) => AtMostOnceInSeq(M, i))
    BY <1>2 DEF AtMostOnceInSeq
  <1>6. h = i => InSeq(M, i)
    BY <1>1, <1>3 DEF InSeq
  <1>7. h = i /\ ~InSeq(W, i) => AtMostOnceInSeq(M, i)
    BY <1>2 DEF InSeq, AtMostOnceInSeq
  <1> QED  BY <1>4, <1>5, <1>6, <1>7 DEF M

LEMMA SeqTail ==
    ASSUME NEW W \in Seq(Nat), W # <<>>, NEW i, AtMostOnceInSeq(W, i)
    PROVE  /\ AtMostOnceInSeq(Tail(W), i)
           /\ W[1] = i => InSeq(W, i) /\ ~InSeq(Tail(W), i)
           /\ W[1] # i => (InSeq(Tail(W), i) <=> InSeq(W, i))
  <1> DEFINE M == Tail(W)
  <1>1. /\ Len(W) \in Nat /\ Len(W) >= 1 /\ DOMAIN W = 1..Len(W) /\ DOMAIN M = 1..(Len(W) - 1)
        /\ \A n \in 1..(Len(W) - 1) : M[n] = W[n + 1]
    BY Shrinks
  <1> HIDE DEF M
  <1>2. \A n \in DOMAIN M : n \in Nat /\ n + 1 \in DOMAIN W /\ M[n] = W[n + 1] /\ n + 1 # 1
    BY <1>1
  <1>3. 1 \in DOMAIN W /\ \A n \in DOMAIN W : n = 1 \/ (n - 1 \in DOMAIN M /\ M[n - 1] = W[n])
    BY <1>1
  <1>4. AtMostOnceInSeq(M, i)
    BY <1>2 DEF AtMostOnceInSeq
  <1>5. W[1] = i => InSeq(W, i) /\ ~InSeq(M, i)
    BY <1>2, <1>3 DEF InSeq, AtMostOnceInSeq
  <1>6. W[1] # i => (InSeq(M, i) <=> InSeq(W, i))
    BY <1>2, <1>3 DEF InSeq
  <1> QED  BY <1>4, <1>5, <1>6 DEF M

LEMMA NoPlaces ==
    ASSUME NEW i
    PROVE  ~InSeq(<<>>, i) /\ AtMostOnceInSeq(<<>>, i)
  BY NoElement DEF InSeq, AtMostOnceInSeq

-----------------------------------------------------------------------------
(* The moves of job frames between their places *)

AnswerWord == {"effect", "refuse", "waited", "summary"}
LogIdle == log' = log \/ \E e \in Said : log' = Append(log, e) /\ e.k \notin AnswerWord
QueueIdle ==
    \/ Queue' = Queue
    \/ \E a \in Action : a.t = "error" /\ Queue' = Append(Queue, a)
    \/ Queue # <<>> /\ Queue[1].t = "error" /\ Queue' = Tail(Queue)

\* Nothing about a job frame.
Idle ==
    /\ LogIdle /\ QueueIdle /\ Counted' = Counted /\ waits' = waits /\ remaining' = remaining
    /\ Takes("frame") => outer[1].k \notin JobKind
\* A frame just read finds its place.
Arrives(h) ==
    /\ Takes("frame") /\ h = outer[1].id /\ remaining' = remaining /\ sent' = sent
    /\ \/ /\ log' = log /\ waits' = waits /\ Counted' = Counted
          /\ \E a \in Action : Queue' = Append(Queue, a) /\ a.t = "job" /\ a.id = h
       \/ log' = log /\ waits' = waits /\ Counted' = Counted \cup {h} /\ Queue' = Queue
       \/ HeldKept /\ waits' = waits /\ \E k \in {"effect", "refuse"} : log' = Append(log, Entry(k, h))
       \/ HeldKept /\ waits' = Append(waits, h) /\ log' = log
\* A deferred frame is done.
Leaves(h) ==
    /\ Queue # <<>> /\ Queue[1].t = "job" /\ h = Queue[1].id /\ Queue' = Tail(Queue)
    /\ Counted' = Counted /\ remaining' = remaining /\ ~Takes("frame")
    /\ \/ waits' = waits /\ \E k \in {"effect", "refuse"} : log' = Append(log, Entry(k, h))
       \/ waits' = Append(waits, h) /\ log' = log
Summarised ==
    /\ log' = Append(log, Entry("summary", Counted)) /\ Counted' = {}
    /\ Queue' = Queue /\ waits' = waits /\ remaining' = remaining /\ ~Takes("frame")
Looks(h) ==
    /\ HeldKept /\ waits # <<>> /\ h = waits[1] /\ waits' = Tail(waits) /\ ~Takes("frame")
    /\ \/ log' = Append(log, Entry("waited", h)) /\ remaining' = remaining
       \/ log' = log /\ remaining' = Append(remaining, h)
Rounds ==
    /\ HeldKept /\ log' = log /\ remaining' = <<>> /\ ~Takes("frame")
    /\ \/ ~attached /\ ~attached' /\ waits' = <<>>
       \/ remaining = <<>> /\ waits' = waits
       \/ waits = <<>> /\ waits' = remaining

LEMMA AttachedStays ==
    ASSUME TypeOK, Shape, [Next]_vars
    PROVE  attached' => attached
  <1>1. CASE UNCHANGED vars
    BY <1>1 DEF vars, writeVars
  <1> QED  BY <1>1, StepKinds, HelloFacts, TurnFacts, JobFrameFacts, ControlFacts, SendFacts,
              SendFailsFacts, LineFacts, CompleteFacts, TimeoutFacts, FlushActionFacts, FlushEndFacts,
              PollFacts, WaitFacts, FinishFacts, OutsideFacts

\* A sequence kept or extended is not its own tail.
LEMMA NotTail ==
    ASSUME NEW S, NEW s \in Seq(S), s # <<>>
    PROVE  s # Tail(s) /\ \A e \in S : Append(s, e) # Tail(s)
  <1>1. Len(s) \in Nat /\ Len(s) >= 1 /\ DOMAIN s = 1..Len(s) /\ DOMAIN Tail(s) = 1..(Len(s) - 1)
    BY Shrinks
  <1>2. \A e \in S : DOMAIN Append(s, e) = 1..(Len(s) + 1)
    BY Grows
  <1>3. Len(s) \in 1..Len(s) /\ Len(s) \in 1..(Len(s) + 1) /\ Len(s) \notin 1..(Len(s) - 1)
    BY <1>1
  <1> QED  BY <1>1, <1>2, <1>3

LEMMA PlaceSteps ==
    ASSUME ReceivedInv, [Next]_vars
    PROVE  \/ Idle \/ Summarised \/ Rounds
           \/ \E h \in Nat : Arrives(h) \/ Leaves(h) \/ Looks(h)
  <1>0. TypeOK /\ Shape /\ InOrder /\ WayKnown /\ outer \in Seq(Letter)
    BY DEF ReceivedInv, KnownIds, TypeOK
  <1>q. Queue \in Seq(Action)
    BY <1>0 DEF TypeOK, Queue, Barrier, Held
  <1>1. \A k \in Word : \A i \in Nat \cup SUBSET Nat :
            log' = Append(log, Entry(k, i)) /\ k \notin AnswerWord => LogIdle
    BY EntryFields DEF LogIdle
  <1>2. {"forward", "error", "core failed", "suppressed"} \subseteq Word \ AnswerWord
    BY DEF Word, AnswerWord
  <1>3. log' = log => LogIdle
    BY DEF LogIdle
  <1> HIDE DEF LogIdle
  <1>4. pc # "recv" => ~Takes("frame")
    BY DEF Takes
  <1>5. \A t : t # "frame" /\ Takes(t) => ~Takes("frame")
    BY DEF Takes
  <1>6. HeldKept => QueueIdle /\ Counted' = Counted
    BY DEF HeldKept, QueueIdle
  <1>7. CASE RecvHello \/ RecvTurn
    <2>1. /\ outer[1].k \in {"hello", "turn"} /\ UNCHANGED <<waits, remaining>> /\ outer[1].id \in Nat
          /\ log' = log \/ log' = Append(log, Entry("forward", outer[1].id))
          /\ Counted' = Counted
          /\ Queue' = Queue \/ Queue' = Append(Queue, ProtocolError(outer[1].id))
      BY <1>0, <1>7, HelloFacts, TurnFacts DEF Admits, Refuses, HeldKept, Takes
    <2>2. ProtocolError(outer[1].id) \in Action /\ ProtocolError(outer[1].id).t = "error"
      BY <2>1 DEF ProtocolError, Action
    <2>3. QueueIdle
      BY <2>1, <2>2 DEF QueueIdle
    <2>4. LogIdle
      BY <1>1, <1>2, <1>3, <2>1
    <2>5. outer[1].k \notin JobKind
      BY <2>1 DEF JobKind
    <2> QED  BY <2>1, <2>3, <2>4, <2>5 DEF Idle
  <1>8. CASE RecvJobFrame
    <2>1. Takes("frame") /\ LoopUnchanged /\ JobHandled(outer[1].id) /\ GatesKept
      BY <1>0, <1>8, JobFrameFacts
    <2>2. sent' = sent
      BY <2>1 DEF LoopUnchanged, readerVars
    <2>3. PICK h \in Nat : h = outer[1].id
      BY <2>1 DEF Takes
    <2>4. JobHandled(h)
      BY <2>1, <2>3
    <2>5. \A how \in {"dispatch", "refuse"} : Job(h, how) \in Action /\ Job(h, how).t = "job" /\ Job(h, how).id = h
      BY DEF Job, Action
    <2>6. Arrives(h)
      BY <2>1, <2>2, <2>3, <2>4, <2>5 DEF JobHandled, Arrives, Dispatched
    <2> QED  BY <2>6
  <1>9. CASE RecvCoreLine
    <2>1. Takes("line") /\ HeldKept /\ log' = Append(log, Entry(outer[1].k, outer[1].id))
          /\ UNCHANGED <<waits, remaining>>
      BY <1>0, <1>9, LineFacts
    <2>2. outer # <<>> /\ outer[1].t = "line" /\ outer[1].id \in Nat /\ outer[1].k \in Word
      BY <2>1 DEF Takes
    <2>3. 1 \in DOMAIN outer
      BY <1>0, <2>2, Rest
    <2>4. outer[1].k \notin AnswerWord
      BY <1>0, <2>2, <2>3 DEF WayKnown, CoreWord, Answer, AnswerWord
    <2>5. LogIdle
      BY <1>1, <2>1, <2>2, <2>4
    <2> QED  BY <1>5, <1>6, <2>1, <2>5 DEF Idle
  <1>10. CASE RecvCoreComplete
    <2>1. /\ Takes("complete") /\ HeldKept /\ UNCHANGED <<waits, remaining>>
          /\ log' = log \/ log' = Append(log, Entry("core failed", 0))
      BY <1>0, <1>10, CompleteFacts
    <2>2. LogIdle
      BY <1>1, <1>2, <1>3, <2>1
    <2> QED  BY <1>5, <1>6, <2>1, <2>2 DEF Idle
  <1>11. CASE FlushAction
    <2>1. /\ pc = "flush" /\ Queue # <<>> /\ Queue' = Tail(Queue) /\ Counted' = Counted
          /\ \/ /\ Queue[1].t = "error" /\ log' = Append(log, Entry("error", Queue[1].id))
                /\ UNCHANGED <<jobs, waits, remaining>>
             \/ /\ Queue[1].t = "job" /\ log' = Append(log, Entry("refuse", Queue[1].id))
                /\ UNCHANGED <<jobs, waits, remaining>>
             \/ Queue[1].t = "job" /\ Dispatched(Queue[1].id)
      BY <1>0, <1>11, FlushActionFacts
    <2>2. Queue[1] \in Action
      BY <1>q, <2>1, Shrinks
    <2>3. PICK h \in Nat : h = Queue[1].id
      BY <2>2 DEF Action
    <2>4. CASE /\ Queue[1].t = "error" /\ log' = Append(log, Entry("error", h))
               /\ UNCHANGED <<jobs, waits, remaining>>
      <3>1. LogIdle
        BY <1>1, <1>2, <2>4
      <3> QED  BY <1>4, <2>1, <2>4, <3>1 DEF Idle, QueueIdle
    <2>5. CASE Queue[1].t = "job" /\ log' = Append(log, Entry("refuse", h)) /\ UNCHANGED <<jobs, waits, remaining>>
      <3>1. Leaves(h)
        BY <1>4, <2>1, <2>3, <2>5 DEF Leaves
      <3> QED  BY <3>1
    <2>6. CASE Queue[1].t = "job" /\ Dispatched(h)
      <3>1. Leaves(h)
        BY <1>4, <2>1, <2>3, <2>6 DEF Leaves, Dispatched
      <3> QED  BY <3>1
    <2> QED  BY <2>1, <2>3, <2>4, <2>5, <2>6
  <1>12. CASE FlushSummary \/ FlushSuppressed \/ FlushDone
    <2>1. /\ pc = "flush" /\ Queue' = Queue /\ UNCHANGED <<waits, remaining>>
          /\ \/ log' = Append(log, Entry("summary", Counted)) /\ Counted' = {}
             \/ log' = Append(log, Entry("suppressed", release.errors)) /\ Counted' = Counted
             \/ log' = log /\ Counted' = Counted
      BY <1>0, <1>12, FlushEndFacts
    <2>2. release.errors \in SUBSET Nat
      BY <1>0 DEF TypeOK, Held
    <2>3. log' = Append(log, Entry("suppressed", release.errors)) => LogIdle
      BY <1>1, <1>2, <2>2
    <2> QED  BY <1>3, <1>4, <2>1, <2>3 DEF Idle, QueueIdle, Summarised
  <1>13. CASE poll_job_waits
    <2>1. /\ pc = "poll" /\ HeldKept /\ waits # <<>> /\ waits' = Tail(waits)
          /\ \/ log' = Append(log, Entry("waited", waits[1])) /\ UNCHANGED remaining
             \/ log' = log /\ remaining' = Append(remaining, waits[1])
      BY <1>0, <1>13, WaitFacts
    <2>2. PICK h \in Nat : h = waits[1]
      <3>1. waits[1] \in Nat
        BY <1>0, <2>1, Shrinks DEF TypeOK
      <3> QED  BY <3>1
    <2>3. Looks(h)
      BY <1>4, <2>1, <2>2 DEF Looks
    <2> QED  BY <2>3
  <1>14. CASE FinishRound
    <2>1. /\ pc = "poll" /\ HeldKept /\ log' = log /\ remaining' = <<>> /\ attached' = attached
          /\ \/ ~attached /\ waits' = <<>>
             \/ pending(barrier) /\ remaining = <<>> /\ waits' = waits
             \/ ~pending(barrier) /\ waits = <<>> /\ waits' = remaining
      BY <1>0, <1>14, FinishFacts
    <2> QED  BY <1>4, <2>1 DEF Rounds
  <1>15. CASE \/ RecvControl \/ RecvEof
    <2>1. /\ log' = log /\ HeldKept /\ UNCHANGED <<waits, remaining>>
          /\ (Takes("frame") /\ outer[1].k = "control") \/ Takes("eof")
      BY <1>0, <1>15, ControlFacts
    <2>2. Takes("frame") => outer[1].k \notin JobKind
      BY <2>1 DEF Takes, JobKind
    <2> QED  BY <1>3, <1>6, <2>1, <2>2 DEF Idle
  <1>16. CASE \/ SendToCore \/ SendFails \/ RecvTimeout \/ Sample
              \/ (\E i \in Frame : poll_job_events(i)) \/ Outside \/ UNCHANGED vars
    <2>1. log' = log /\ HeldKept /\ UNCHANGED <<waits, remaining>>
      <3>1. CASE UNCHANGED vars
        BY <3>1 DEF vars, writeVars, barrierVars, loopVars, jobVars, waitVars, HeldKept, Queue, Counted
      <3> QED  BY <1>0, <1>16, <3>1, SendFacts, SendFailsFacts, TimeoutFacts, PollFacts, OutsideFacts
    <2>2. ~Takes("frame")
      <3>1. CASE SendToCore \/ SendFails \/ Sample \/ (\E i \in Frame : poll_job_events(i))
        <4>1. pc # "recv"
          BY <3>1 DEF SendToCore, SendFails, Sample, poll_job_events
        <4> QED  BY <1>4, <4>1
      <3>2. CASE RecvTimeout
        BY <3>2 DEF RecvTimeout, Takes
      <3>3. CASE Outside \/ UNCHANGED vars
        <4>1. OuterKept \/ (\E k \in FrameKind : OuterRead(k)) \/ \E e \in Letter : OuterPosted(e)
          BY <1>0, <3>3, OutsideOuter DEF OuterKept, vars, readerVars
        <4>2. outer' = outer \/ \E e \in Letter : outer' = Append(outer, e)
          BY <1>0, <4>1, ReadMessage DEF OuterKept, OuterRead, OuterPosted
        <4> QED  BY <1>0, <4>2, NotTail DEF Takes
      <3> QED  BY <1>16, <3>1, <3>2, <3>3
    <2> QED  BY <1>3, <1>6, <2>1, <2>2 DEF Idle
  <1> QED  BY <1>7, <1>8, <1>9, <1>10, <1>11, <1>12, <1>13, <1>14, <1>15, <1>16, StepKinds

-----------------------------------------------------------------------------
(* A job frame has one place at most, and one at least while it is owed an *)
(* answer                                                                  *)

\* What answers frame i: its own entry, or a count with it.
LEMMA EntryAnswers ==
    ASSUME NEW h, NEW i
    PROVE  /\ \A k \in {"effect", "refuse", "waited"} :
                    /\ h = i => Answers(Entry(k, h), i)
                    /\ h # i => ~Answers(Entry(k, h), i)
           /\ i \in h => Answers(Entry("summary", h), i)
           /\ i \notin h => ~Answers(Entry("summary", h), i)
  BY DEF Answers, Entry

\* A frame the loop has not received is nowhere.
LEMMA Nowhere ==
    ASSUME ReceivedInv, NEW i \in Nat, ~Known(i)
    PROVE  /\ ~AnsweredIn(log, i) /\ ~QueuedIn(Queue, i) /\ i \notin Counted
           /\ ~InSeq(waits, i) /\ ~InSeq(remaining, i)
  <1>1. LogKnown /\ HeldKnown
    BY DEF ReceivedInv, KnownIds
  <1>2. ~AnsweredIn(log, i)
    BY <1>1 DEF LogKnown, AnsweredIn, Answers, OwnId
  <1>3. ~QueuedIn(Queue, i)
    BY <1>1 DEF HeldKnown, QueuedIn, Holds
  <1>4. i \notin Counted /\ ~InSeq(waits, i) /\ ~InSeq(remaining, i)
    BY <1>1 DEF HeldKnown, InSeq
  <1> QED  BY <1>2, <1>3, <1>4

LEMMA LogIdlePlaces ==
    ASSUME TypeOK, LogIdle, NEW i
    PROVE  /\ AnsweredIn(log', i) <=> AnsweredIn(log, i)
           /\ AnsweredAtMostOnce(log, i) => AnsweredAtMostOnce(log', i)
  <1>1. CASE log' = log
    BY <1>1
  <1>2. ASSUME NEW e \in Said, log' = Append(log, e), e.k \notin AnswerWord
        PROVE  /\ AnsweredIn(log', i) <=> AnsweredIn(log, i)
               /\ AnsweredAtMostOnce(log, i) => AnsweredAtMostOnce(log', i)
    <2>1. ~Answers(e, i)
      BY <1>2 DEF Answers, AnswerWord
    <2>2. log \in Seq(Said)
      BY DEF TypeOK
    <2> QED  BY <1>2, <2>1, <2>2, LogPlaces
  <1> QED  BY <1>1, <1>2 DEF LogIdle

LEMMA QueueIdlePlaces ==
    ASSUME Queue \in Seq(Action), QueueIdle, NEW i, QueuedAtMostOnce(Queue, i)
    PROVE  /\ QueuedIn(Queue', i) <=> QueuedIn(Queue, i)
           /\ QueuedAtMostOnce(Queue', i)
  <1>1. CASE Queue' = Queue
    BY <1>1
  <1>2. ASSUME NEW a \in Action, a.t = "error", Queue' = Append(Queue, a)
        PROVE  (QueuedIn(Queue', i) <=> QueuedIn(Queue, i)) /\ QueuedAtMostOnce(Queue', i)
    <2>1. ~Holds(a, i)
      BY <1>2 DEF Holds
    <2> QED  BY <1>2, <2>1, QueuePlaces
  <1>3. CASE Queue # <<>> /\ Queue[1].t = "error" /\ Queue' = Tail(Queue)
    <2>1. ~Holds(Queue[1], i)
      BY <1>3 DEF Holds
    <2> QED  BY <1>3, <2>1, QueueTail
  <1> QED  BY <1>1, <1>2, <1>3 DEF QueueIdle

\* What a step does to the places of frame i.
Kept(i) ==
    /\ Single(log', Queue', Counted', waits', remaining', i)
    /\ attached' /\ Present(log, Queue, Counted, waits, remaining, i)
            => Present(log', Queue', Counted', waits', remaining', i)

LEMMA ArrivesKeeps ==
    ASSUME ReceivedInv, NEW i \in Nat, Single(log, Queue, Counted, waits, remaining, i),
           NEW h \in Nat, Arrives(h)
    PROVE  Kept(i) /\ (i = h => Present(log', Queue', Counted', waits', remaining', i))
  <1>0. /\ TypeOK /\ InOrder /\ log \in Seq(Said) /\ Queue \in Seq(Action)
        /\ waits \in Seq(Nat) /\ remaining \in Seq(Nat)
    BY DEF ReceivedInv, TypeOK, Queue, Barrier, Held
  <1>1. i = h => ~Known(i)
    <2>1. Takes("frame") /\ sent' = sent /\ h = outer[1].id
      BY DEF Arrives
    <2>2. \A j : Known(j) => j \in Nat /\ j < h
      BY <1>0, <2>1, FreshFrame
    <2> QED  BY <2>2
  <1>2. i = h => /\ ~AnsweredIn(log, i) /\ ~QueuedIn(Queue, i) /\ i \notin Counted
                 /\ ~InSeq(waits, i) /\ ~InSeq(remaining, i)
    BY <1>1, Nowhere
  <1>3. \A k \in {"effect", "refuse"} : Entry(k, h) \in Said
    BY Words, EntryFields
  <1>4. remaining' = remaining
    BY DEF Arrives
  <1>5. ASSUME log' = log, waits' = waits, Counted' = Counted,
               NEW a \in Action, Queue' = Append(Queue, a), a.t = "job", a.id = h
        PROVE  Kept(i) /\ (i = h => Present(log', Queue', Counted', waits', remaining', i))
    <2>1. Holds(a, i) <=> i = h
      BY <1>5 DEF Holds
    <2>2. /\ i # h => (QueuedIn(Queue', i) <=> QueuedIn(Queue, i)) /\ QueuedAtMostOnce(Queue', i)
          /\ i = h => QueuedIn(Queue', i) /\ QueuedAtMostOnce(Queue', i)
      <3>1. QueuedAtMostOnce(Queue, i)
        BY DEF Single
      <3> QED  BY <1>0, <1>2, <1>5, <2>1, <3>1, QueuePlaces
    <2> QED  BY <1>2, <1>4, <1>5, <2>2 DEF Kept, Single, Present
  <1>6. CASE log' = log /\ waits' = waits /\ Counted' = Counted \cup {h} /\ Queue' = Queue
    <2>1. i \in Counted' <=> i \in Counted \/ i = h
      BY <1>6
    <2> QED  BY <1>2, <1>4, <1>6, <2>1 DEF Kept, Single, Present
  <1>7. ASSUME HeldKept, waits' = waits, NEW k \in {"effect", "refuse"}, log' = Append(log, Entry(k, h))
        PROVE  Kept(i) /\ (i = h => Present(log', Queue', Counted', waits', remaining', i))
    <2>1. Queue' = Queue /\ Counted' = Counted
      BY <1>7 DEF HeldKept
    <2>2. Answers(Entry(k, h), i) <=> i = h
      BY EntryAnswers
    <2>3. /\ i # h => (AnsweredIn(log', i) <=> AnsweredIn(log, i)) /\ AnsweredAtMostOnce(log', i)
          /\ i = h => AnsweredIn(log', i) /\ AnsweredAtMostOnce(log', i)
      <3>1. AnsweredAtMostOnce(log, i)
        BY DEF Single
      <3>2. PICK e \in Said : e = Entry(k, h)
        BY <1>3
      <3> QED  BY <1>0, <1>2, <1>7, <2>2, <3>1, <3>2, LogPlaces
    <2> QED  BY <1>2, <1>4, <1>7, <2>1, <2>3 DEF Kept, Single, Present
  <1>8. CASE HeldKept /\ waits' = Append(waits, h) /\ log' = log
    <2>1. Queue' = Queue /\ Counted' = Counted
      BY <1>8 DEF HeldKept
    <2>2. /\ i # h => (InSeq(waits', i) <=> InSeq(waits, i)) /\ AtMostOnceInSeq(waits', i)
          /\ i = h => InSeq(waits', i) /\ AtMostOnceInSeq(waits', i)
      <3>1. AtMostOnceInSeq(waits, i)
        BY DEF Single
      <3> QED  BY <1>0, <1>2, <1>8, <3>1, SeqPlaces
    <2> QED  BY <1>2, <1>4, <1>8, <2>1, <2>2 DEF Kept, Single, Present
  <1> QED  BY <1>5, <1>6, <1>7, <1>8 DEF Arrives

LEMMA LeavesKeeps ==
    ASSUME ReceivedInv, NEW i \in Nat, Single(log, Queue, Counted, waits, remaining, i),
           NEW h \in Nat, Leaves(h)
    PROVE  Kept(i)
  <1>0. /\ log \in Seq(Said) /\ Queue \in Seq(Action)
        /\ waits \in Seq(Nat) /\ remaining \in Seq(Nat)
    BY DEF ReceivedInv, TypeOK, Queue, Barrier, Held
  <1>1. /\ Queue # <<>> /\ Queue[1].t = "job" /\ h = Queue[1].id /\ Queue' = Tail(Queue)
        /\ Counted' = Counted /\ remaining' = remaining
    BY DEF Leaves
  <1>2. Holds(Queue[1], i) <=> i = h
    BY <1>1 DEF Holds
  <1>3. /\ QueuedAtMostOnce(Queue', i)
        /\ i = h => QueuedIn(Queue, i) /\ ~QueuedIn(Queue', i)
        /\ i # h => (QueuedIn(Queue', i) <=> QueuedIn(Queue, i))
    <2>1. QueuedAtMostOnce(Queue, i)
      BY DEF Single
    <2> QED  BY <1>0, <1>1, <1>2, <2>1, QueueTail
  <1>4. i = h => ~AnsweredIn(log, i) /\ i \notin Counted /\ ~InSeq(waits, i) /\ ~InSeq(remaining, i)
    BY <1>3 DEF Single
  <1>5. ASSUME waits' = waits, NEW k \in {"effect", "refuse"}, log' = Append(log, Entry(k, h))
        PROVE  Kept(i)
    <2>1. Answers(Entry(k, h), i) <=> i = h
      BY EntryAnswers
    <2>2. /\ i # h => (AnsweredIn(log', i) <=> AnsweredIn(log, i)) /\ AnsweredAtMostOnce(log', i)
          /\ i = h => AnsweredIn(log', i) /\ AnsweredAtMostOnce(log', i)
      <3>1. AnsweredAtMostOnce(log, i)
        BY DEF Single
      <3>2. PICK e \in Said : e = Entry(k, h)
        BY Words, EntryFields
      <3> QED  BY <1>0, <1>4, <1>5, <2>1, <3>1, <3>2, LogPlaces
    <2> QED  BY <1>1, <1>3, <1>4, <1>5, <2>2 DEF Kept, Single, Present
  <1>6. CASE waits' = Append(waits, h) /\ log' = log
    <2>1. /\ i # h => (InSeq(waits', i) <=> InSeq(waits, i)) /\ AtMostOnceInSeq(waits', i)
          /\ i = h => InSeq(waits', i) /\ AtMostOnceInSeq(waits', i)
      <3>1. AtMostOnceInSeq(waits, i)
        BY DEF Single
      <3> QED  BY <1>0, <1>4, <1>6, <3>1, SeqPlaces
    <2> QED  BY <1>1, <1>3, <1>4, <1>6, <2>1 DEF Kept, Single, Present
  <1> QED  BY <1>5, <1>6 DEF Leaves

LEMMA SummarisedKeeps ==
    ASSUME ReceivedInv, NEW i \in Nat, Single(log, Queue, Counted, waits, remaining, i), Summarised
    PROVE  Kept(i)
  <1>0. log \in Seq(Said) /\ Counted \in SUBSET Nat
    BY DEF ReceivedInv, TypeOK, Counted, Barrier, Held
  <1>1. /\ log' = Append(log, Entry("summary", Counted)) /\ Counted' = {}
        /\ Queue' = Queue /\ waits' = waits /\ remaining' = remaining
    BY DEF Summarised
  <1>2. PICK e \in Said : e = Entry("summary", Counted)
    BY <1>0, Words, EntryFields
  <1>3. Answers(e, i) <=> i \in Counted
    BY <1>2, EntryAnswers
  <1>4. /\ i \notin Counted => (AnsweredIn(log', i) <=> AnsweredIn(log, i)) /\ AnsweredAtMostOnce(log', i)
        /\ i \in Counted => AnsweredIn(log', i) /\ AnsweredAtMostOnce(log', i)
    <2>1. AnsweredAtMostOnce(log, i) /\ (i \in Counted => ~AnsweredIn(log, i))
      BY DEF Single
    <2> QED  BY <1>0, <1>1, <1>2, <1>3, <2>1, LogPlaces
  <1>5. i \notin Counted'
    BY <1>1
  <1> QED  BY <1>1, <1>4, <1>5 DEF Kept, Single, Present

LEMMA LooksKeeps ==
    ASSUME ReceivedInv, NEW i \in Nat, Single(log, Queue, Counted, waits, remaining, i),
           NEW h \in Nat, Looks(h)
    PROVE  Kept(i)
  <1>0. log \in Seq(Said) /\ waits \in Seq(Nat) /\ remaining \in Seq(Nat)
    BY DEF ReceivedInv, TypeOK
  <1>1. /\ Queue' = Queue /\ Counted' = Counted /\ waits # <<>> /\ h = waits[1] /\ waits' = Tail(waits)
    BY DEF Looks, HeldKept
  <1>2. /\ AtMostOnceInSeq(waits', i)
        /\ i = h => InSeq(waits, i) /\ ~InSeq(waits', i)
        /\ i # h => (InSeq(waits', i) <=> InSeq(waits, i))
    <2>1. AtMostOnceInSeq(waits, i)
      BY DEF Single
    <2> QED  BY <1>0, <1>1, <2>1, SeqTail
  <1>3. i = h => ~AnsweredIn(log, i) /\ ~QueuedIn(Queue, i) /\ i \notin Counted /\ ~InSeq(remaining, i)
    BY <1>2 DEF Single
  <1>4. CASE log' = Append(log, Entry("waited", h)) /\ remaining' = remaining
    <2>1. Answers(Entry("waited", h), i) <=> i = h
      BY EntryAnswers
    <2>2. /\ i # h => (AnsweredIn(log', i) <=> AnsweredIn(log, i)) /\ AnsweredAtMostOnce(log', i)
          /\ i = h => AnsweredIn(log', i) /\ AnsweredAtMostOnce(log', i)
      <3>1. AnsweredAtMostOnce(log, i)
        BY DEF Single
      <3>2. PICK e \in Said : e = Entry("waited", h)
        BY Words, EntryFields
      <3> QED  BY <1>0, <1>3, <1>4, <2>1, <3>1, <3>2, LogPlaces
    <2> QED  BY <1>1, <1>2, <1>3, <1>4, <2>2 DEF Kept, Single, Present
  <1>5. CASE log' = log /\ remaining' = Append(remaining, h)
    <2>1. /\ i # h => (InSeq(remaining', i) <=> InSeq(remaining, i)) /\ AtMostOnceInSeq(remaining', i)
          /\ i = h => InSeq(remaining', i) /\ AtMostOnceInSeq(remaining', i)
      <3>1. AtMostOnceInSeq(remaining, i)
        BY DEF Single
      <3> QED  BY <1>0, <1>3, <1>5, <3>1, SeqPlaces
    <2> QED  BY <1>1, <1>2, <1>3, <1>5, <2>1 DEF Kept, Single, Present
  <1> QED  BY <1>4, <1>5 DEF Looks

LEMMA RoundsKeeps ==
    ASSUME NEW i \in Nat, Single(log, Queue, Counted, waits, remaining, i), Rounds
    PROVE  Kept(i)
  <1>1. Queue' = Queue /\ Counted' = Counted /\ log' = log /\ remaining' = <<>>
    BY DEF Rounds, HeldKept
  <1>2. ~InSeq(<<>>, i) /\ AtMostOnceInSeq(<<>>, i)
    BY NoPlaces
  <1>3. CASE ~attached' /\ waits' = <<>>
    BY <1>1, <1>2, <1>3 DEF Kept, Single, Present
  <1>4. CASE remaining = <<>> /\ waits' = waits
    BY <1>1, <1>2, <1>4 DEF Kept, Single, Present
  <1>5. CASE waits = <<>> /\ waits' = remaining
    BY <1>1, <1>2, <1>5 DEF Kept, Single, Present
  <1> QED  BY <1>3, <1>4, <1>5 DEF Rounds

LEMMA PlacesKept ==
    ASSUME ReceivedInv, NEW i \in Nat, Single(log, Queue, Counted, waits, remaining, i), [Next]_vars
    PROVE  /\ Kept(i)
           /\ Takes("frame") /\ outer[1].k \in JobKind /\ i = outer[1].id
                => Present(log', Queue', Counted', waits', remaining', i)
  <1>0. TypeOK /\ Queue \in Seq(Action)
    BY DEF ReceivedInv, TypeOK, Queue, Barrier, Held
  <1>1. CASE Idle
    <2>1. /\ LogIdle /\ QueueIdle /\ Counted' = Counted /\ waits' = waits /\ remaining' = remaining
          /\ Takes("frame") => outer[1].k \notin JobKind
      BY <1>1 DEF Idle
    <2>2. AnsweredAtMostOnce(log, i) /\ QueuedAtMostOnce(Queue, i)
      BY DEF Single
    <2>3. (AnsweredIn(log', i) <=> AnsweredIn(log, i)) /\ AnsweredAtMostOnce(log', i)
      BY <1>0, <2>1, <2>2, LogIdlePlaces
    <2>4. (QueuedIn(Queue', i) <=> QueuedIn(Queue, i)) /\ QueuedAtMostOnce(Queue', i)
      BY <1>0, <2>1, <2>2, QueueIdlePlaces
    <2> QED  BY <2>1, <2>3, <2>4 DEF Kept, Single, Present
  <1>2. ASSUME NEW h \in Nat, Arrives(h)
        PROVE  Kept(i) /\ (i = outer[1].id => Present(log', Queue', Counted', waits', remaining', i))
    <2>1. h = outer[1].id
      BY <1>2 DEF Arrives
    <2> QED  BY <1>2, <2>1, ArrivesKeeps
  <1>3. ASSUME NEW h \in Nat, Leaves(h)
        PROVE  Kept(i) /\ ~Takes("frame")
    <2>1. Kept(i)
      BY <1>3, LeavesKeeps
    <2> QED  BY <1>3, <2>1 DEF Leaves
  <1>4. CASE Summarised
    <2>1. Kept(i)
      BY <1>4, SummarisedKeeps
    <2> QED  BY <1>4, <2>1 DEF Summarised
  <1>5. ASSUME NEW h \in Nat, Looks(h)
        PROVE  Kept(i) /\ ~Takes("frame")
    <2>1. Kept(i)
      BY <1>5, LooksKeeps
    <2> QED  BY <1>5, <2>1 DEF Looks
  <1>6. CASE Rounds
    <2>1. Kept(i)
      BY <1>6, RoundsKeeps
    <2> QED  BY <1>6, <2>1 DEF Rounds
  <1> QED  BY <1>1, <1>2, <1>3, <1>4, <1>5, <1>6, PlaceSteps


\* A job frame is received by being taken.
LEMMA ReceivedFrames ==
    ASSUME TypeOK, Shape, InOrder, [Next]_vars, NEW i \in JobFrame' \cap Received'
    PROVE  /\ i \in Nat
           /\ \/ i \in JobFrame \cap Received
              \/ Takes("frame") /\ outer[1].k \in JobKind /\ i = outer[1].id
  <1>0. outer \in Seq(Letter) /\ sent \in Seq(FrameKind)
    BY DEF TypeOK
  <1>1. /\ i \in DOMAIN sent' /\ sent'[i] \in JobKind
        /\ \A n \in DOMAIN outer' : outer'[n].t = "frame" => outer'[n].id # i
    BY DEF JobFrame, Received
  <1>2. i \in DOMAIN sent /\ sent[i] \in JobKind /\ (\A n \in DOMAIN outer : outer[n].t = "frame" => outer[n].id # i)
            => i \in JobFrame \cap Received
    BY DEF JobFrame, Received
  <1>3. \A j \in DOMAIN sent : j \in Nat
    BY <1>0
  <1>4. CASE OuterKept
    BY <1>1, <1>2, <1>3, <1>4 DEF OuterKept
  <1>5. CASE OuterPopped
    <2>1. /\ DOMAIN outer = 1..Len(outer) /\ Len(outer) \in Nat /\ Len(outer) >= 1
          /\ DOMAIN outer' = 1..(Len(outer) - 1)
          /\ \A n \in 1..(Len(outer) - 1) : outer'[n] = outer[n + 1]
          /\ \A n \in 1..Len(outer) : outer[n] \in Letter
      BY <1>0, <1>5, Shrinks DEF OuterPopped
    <2>2. \A n \in DOMAIN outer : n = 1 \/ (n - 1 \in DOMAIN outer' /\ outer'[n - 1] = outer[n])
      BY <2>1
    <2>3. i \in DOMAIN sent /\ sent[i] \in JobKind
      BY <1>1, <1>5 DEF OuterPopped
    <2>4. CASE outer[1].t = "frame" /\ outer[1].id = i
      <3>1. outer[1] \in Letter /\ 1 \in DOMAIN outer
        BY <2>1
      <3>2. Takes("frame")
        BY <1>5, <2>4, <3>1 DEF OuterPopped, Takes, Letter
      <3>3. outer[1].k = sent[i]
        BY <2>4, <3>1 DEF InOrder
      <3> QED  BY <1>3, <2>3, <2>4, <3>2, <3>3
    <2>5. CASE ~(outer[1].t = "frame" /\ outer[1].id = i)
      <3>1. \A n \in DOMAIN outer : outer[n].t = "frame" => outer[n].id # i
        BY <1>1, <2>2, <2>5
      <3> QED  BY <1>2, <1>3, <2>3, <3>1
    <2> QED  BY <2>4, <2>5
  <1>6. ASSUME NEW k \in FrameKind, OuterRead(k)
        PROVE  i \in Nat /\ i \in JobFrame \cap Received
    <2>1. PICK e \in Letter : e = Message("frame", Entry(k, Len(sent) + 1)) /\ e.t = "frame" /\ e.id = Len(sent) + 1
      <3>1. /\ Message("frame", Entry(k, Len(sent) + 1)) \in Letter
            /\ Message("frame", Entry(k, Len(sent) + 1)).t = "frame"
            /\ Message("frame", Entry(k, Len(sent) + 1)).id = Len(sent) + 1
        BY ReadMessage
      <3> QED  BY <3>1
    <2>2. /\ DOMAIN outer = 1..Len(outer) /\ Len(outer) \in Nat /\ DOMAIN outer' = 1..(Len(outer) + 1)
          /\ \A n \in 1..Len(outer) : outer'[n] = outer[n]
          /\ outer'[Len(outer) + 1] = e
      BY <1>0, <1>6, <2>1, Grows DEF OuterRead
    <2>3. /\ DOMAIN sent = 1..Len(sent) /\ Len(sent) \in Nat /\ DOMAIN sent' = 1..(Len(sent) + 1)
          /\ \A n \in 1..Len(sent) : sent'[n] = sent[n]
      BY <1>0, <1>6, Grows DEF OuterRead
    <2>4. Len(outer) + 1 \in DOMAIN outer' /\ \A n \in DOMAIN outer : n \in DOMAIN outer' /\ outer'[n] = outer[n]
      BY <2>2
    <2>5. i # Len(sent) + 1
      BY <1>1, <2>1, <2>2, <2>4
    <2>6. i \in DOMAIN sent /\ sent[i] \in JobKind
      BY <1>1, <2>3, <2>5
    <2> QED  BY <1>1, <1>2, <1>3, <2>4, <2>6
  <1>7. ASSUME NEW e \in Letter, OuterPosted(e)
        PROVE  i \in Nat /\ i \in JobFrame \cap Received
    <2>1. /\ DOMAIN outer = 1..Len(outer) /\ Len(outer) \in Nat /\ DOMAIN outer' = 1..(Len(outer) + 1)
          /\ \A n \in 1..Len(outer) : outer'[n] = outer[n]
      BY <1>0, <1>7, Grows DEF OuterPosted
    <2>2. \A n \in DOMAIN outer : n \in DOMAIN outer' /\ outer'[n] = outer[n]
      BY <2>1
    <2> QED  BY <1>1, <1>2, <1>3, <1>7, <2>2 DEF OuterPosted
  <1> QED  BY <1>4, <1>5, <1>6, <1>7, OuterSteps

Placed == ReceivedInv /\ SingleInv /\ PresentInv

LEMMA PlacedInit == Init => Placed
  <1> SUFFICES ASSUME Init PROVE Placed
    OBVIOUS
  <1>1. /\ log = <<>> /\ waits = <<>> /\ remaining = <<>> /\ sent = <<>>
        /\ pc = "recv" /\ barrier = OpenBarrier
    BY DEF Init
  <1>2. Queue = <<>> /\ Counted = {}
    BY <1>1 DEF Queue, Counted, OpenBarrier
  <1>3. \A i \in Nat : ~InSeq(<<>>, i) /\ AtMostOnceInSeq(<<>>, i)
    BY NoPlaces
  <1>4. \A i \in Nat : /\ ~AnsweredIn(<<>>, i) /\ AnsweredAtMostOnce(<<>>, i)
                       /\ ~QueuedIn(<<>>, i) /\ QueuedAtMostOnce(<<>>, i)
    BY NoElement DEF AnsweredIn, AnsweredAtMostOnce, QueuedIn, QueuedAtMostOnce
  <1>5. SingleInv
    BY <1>1, <1>2, <1>3, <1>4 DEF SingleInv, Single
  <1>6. JobFrame = {}
    BY <1>1, NoElement DEF JobFrame
  <1> QED  BY <1>5, <1>6, ReceivedInit DEF Placed, PresentInv

LEMMA PlacedSteps == Placed /\ [Next]_vars => Placed'
  <1> SUFFICES ASSUME Placed, [Next]_vars PROVE Placed'
    OBVIOUS
  <1>0. ReceivedInv /\ TypeOK /\ Shape /\ InOrder
    BY DEF Placed, ReceivedInv
  <1>1. ReceivedInv'
    BY <1>0, ReceivedSteps
  <1>2. \A i \in Nat : Single(log, Queue, Counted, waits, remaining, i)
    BY DEF Placed, SingleInv
  <1>3. ASSUME NEW i \in Nat
        PROVE  /\ Kept(i)
               /\ Takes("frame") /\ outer[1].k \in JobKind /\ i = outer[1].id
                    => Present(log', Queue', Counted', waits', remaining', i)
    BY <1>0, <1>2, PlacesKept
  <1>4. SingleInv'
    <2>1. \A i \in Nat : Single(log', Queue', Counted', waits', remaining', i)
      BY <1>3 DEF Kept
    <2> QED  BY <2>1 DEF SingleInv
  <1>5. ASSUME attached', NEW i \in JobFrame' \cap Received'
        PROVE  Present(log', Queue', Counted', waits', remaining', i)
    <2>1. /\ i \in Nat
          /\ \/ i \in JobFrame \cap Received
             \/ Takes("frame") /\ outer[1].k \in JobKind /\ i = outer[1].id
      BY <1>0, ReceivedFrames
    <2>2. CASE i \in JobFrame \cap Received
      <3>1. attached
        BY <1>0, <1>5, AttachedStays
      <3>2. Present(log, Queue, Counted, waits, remaining, i)
        BY <2>2, <3>1 DEF Placed, PresentInv
      <3> QED  BY <1>3, <1>5, <2>1, <3>2 DEF Kept
    <2> QED  BY <1>3, <2>1, <2>2
  <1>6. PresentInv'
    BY <1>5 DEF PresentInv
  <1> QED  BY <1>1, <1>4, <1>6 DEF Placed

\* One place of the queue and the count is one place of the barrier or of its
\* release.
LEMMA PlacedOnce == Placed => AnsweredOnce
  <1> SUFFICES ASSUME Placed, NEW i \in JobFrame \cap Received
               PROVE  (\A p, q \in Places(i) : p = q) /\ (attached => Places(i) # {})
    BY DEF AnsweredOnce
  <1>0. /\ TypeOK /\ Shape /\ sent \in Seq(FrameKind)
    BY DEF Placed, ReceivedInv, TypeOK
  <1>1. i \in Nat
    BY <1>0 DEF JobFrame
  <1>2. Single(log, Queue, Counted, waits, remaining, i)
    BY <1>1 DEF Placed, SingleInv
  <1> DEFINE InLog == {p \in DOMAIN log : Answers(log[p], i)}
             InDeferred == {p \in DOMAIN barrier.deferred : Holds(barrier.deferred[p], i)}
             InReleased == {p \in DOMAIN release.actions : Holds(release.actions[p], i)}
             InWaits == {p \in DOMAIN waits : waits[p] = i}
             InRemaining == {p \in DOMAIN remaining : remaining[p] = i}
             Dropped == {i} \cap barrier.droppedJobs
             Released == {i} \cap release.jobs
  <1>3. \/ Queue = barrier.deferred /\ Counted = barrier.droppedJobs /\ InReleased = {} /\ Released = {}
        \/ Queue = release.actions /\ Counted = release.jobs /\ InDeferred = {} /\ Dropped = {}
    <2>1. CASE pc = "flush"
      <3>1. Queue = release.actions /\ Counted = release.jobs /\ barrier.deferred = <<>> /\ barrier.droppedJobs = {}
        BY <1>0, <2>1 DEF Shape, Queue, Counted
      <3> QED  BY <3>1, NoElement
    <2>2. CASE pc # "flush"
      <3>1. Queue = barrier.deferred /\ Counted = barrier.droppedJobs /\ release.actions = <<>> /\ release.jobs = {}
        BY <1>0, <2>2 DEF Shape, Queue, Counted, NoRelease
      <3> QED  BY <3>1, NoElement
    <2> QED  BY <2>1, <2>2
  <1>4. /\ \A p, q \in InLog : p = q
        /\ InLog # {} <=> AnsweredIn(log, i)
    BY <1>2 DEF Single, AnsweredIn, AnsweredAtMostOnce
  <1>5. /\ \A p, q \in InWaits : p = q
        /\ InWaits # {} <=> InSeq(waits, i)
        /\ \A p, q \in InRemaining : p = q
        /\ InRemaining # {} <=> InSeq(remaining, i)
    BY <1>2 DEF Single, InSeq, AtMostOnceInSeq
  <1>6. /\ InDeferred = {} \/ InReleased = {}
        /\ \A p, q \in InDeferred : p = q
        /\ \A p, q \in InReleased : p = q
        /\ InDeferred # {} \/ InReleased # {} <=> QueuedIn(Queue, i)
    BY <1>2, <1>3 DEF Single, QueuedIn, QueuedAtMostOnce
  <1>7. /\ Dropped = {} \/ Released = {}
        /\ \A p, q \in Dropped : p = q
        /\ \A p, q \in Released : p = q
        /\ Dropped # {} \/ Released # {} <=> i \in Counted
    BY <1>3
  <1>8. Places(i) = {<<"log", p>> : p \in InLog} \cup {<<"deferred", p>> : p \in InDeferred}
                    \cup {<<"released", p>> : p \in InReleased} \cup {<<"waits", p>> : p \in InWaits}
                    \cup {<<"remaining", p>> : p \in InRemaining} \cup {<<"dropped", n>> : n \in Dropped}
                    \cup {<<"counted", n>> : n \in Released}
    BY DEF Places
  <1> HIDE DEF InLog, InDeferred, InReleased, InWaits, InRemaining, Dropped, Released
  <1>9. /\ InLog # {} => InDeferred = {} /\ InReleased = {} /\ InWaits = {} /\ InRemaining = {}
                         /\ Dropped = {} /\ Released = {}
        /\ InDeferred # {} \/ InReleased # {} => InWaits = {} /\ InRemaining = {}
                                                 /\ Dropped = {} /\ Released = {}
        /\ Dropped # {} \/ Released # {} => InWaits = {} /\ InRemaining = {}
        /\ InWaits # {} => InRemaining = {}
    BY <1>2, <1>4, <1>5, <1>6, <1>7 DEF Single
  <1>10. \A p, q \in Places(i) : p = q
    BY <1>4, <1>5, <1>6, <1>7, <1>8, <1>9
  <1>11. attached => Places(i) # {}
    <2> SUFFICES ASSUME attached PROVE Places(i) # {}
      OBVIOUS
    <2>1. Present(log, Queue, Counted, waits, remaining, i)
      BY DEF Placed, PresentInv
    <2>2. \/ InLog # {} \/ InDeferred # {} \/ InReleased # {} \/ InWaits # {} \/ InRemaining # {}
          \/ Dropped # {} \/ Released # {}
      BY <1>4, <1>5, <1>6, <1>7, <2>1 DEF Present
    <2> QED  BY <1>8, <2>2
  <1> QED  BY <1>10, <1>11

-----------------------------------------------------------------------------
(* The jobs' events                                                        *)

\* A poll announces what its cursor passes, once.
LEMMA PolledTold ==
    ASSUME NEW j \in JobState, JobTold(j)
    PROVE  /\ JobTold(Unreadable(j))
           /\ j.cursor < j.oldest => JobTold(Skipped(j))
           /\ j.cursor >= j.oldest => JobTold(Paged(j))
  <1>0. /\ j.cursor \in Nat /\ j.oldest \in Nat /\ j.events \in Nat /\ j.told \in Int /\ j.gap \in Seq(Nat)
        /\ Page \in Nat /\ Page > 0
    BY JobHostAssumption, SMTT(30) DEF JobState
  <1>1. JobTold(Unreadable(j))
    BY JobFields DEF JobTold
  <1>2. ASSUME j.cursor < j.oldest
        PROVE  JobTold(Skipped(j))
    <2> DEFINE r == Skipped(j)
               g == <<j.cursor, j.oldest>>
    <2>1. /\ r.st = j.st /\ r.events = j.events /\ r.oldest = j.oldest /\ r.cursor = j.oldest /\ r.gap = g
          /\ r.told = IF j.gap = g THEN j.told ELSE j.told + (j.oldest - j.cursor)
      BY JobFields
    <2>2. Len(g) = 2 /\ g[1] = j.cursor
      OBVIOUS
    <2>3. j.gap # g
      <3>1. CASE j.gap = <<>>
        BY <2>2, <3>1, NoElement
      <3>2. CASE Len(j.gap) = 2 /\ j.gap[1] < j.cursor
        BY <1>0, <2>2, <3>2
      <3> QED  BY <3>1, <3>2 DEF JobTold
    <2> HIDE DEF r, g
    <2>4. r.told = r.cursor
      BY <1>0, <2>1, <2>3 DEF JobTold
    <2>5. r.cursor <= r.events /\ r.oldest <= r.events /\ (r.st = "none" => r.events = 0)
      BY <2>1 DEF JobTold
    <2>6. Len(r.gap) = 2 /\ r.gap[1] < r.cursor
      BY <1>2, <2>1, <2>2
    <2>7. JobTold(r)
      BY <2>4, <2>5, <2>6 DEF JobTold
    <2> QED  BY <2>7 DEF r
  <1>3. ASSUME j.cursor >= j.oldest
        PROVE  JobTold(Paged(j))
    <2> DEFINE r == Paged(j)
    <2>1. /\ r.st = j.st /\ r.events = j.events /\ r.oldest = j.oldest /\ r.cursor = PageEnd(j)
          /\ r.gap = <<>> /\ r.told = j.told + (PageEnd(j) - j.cursor)
      BY JobFields
    <2>2. PageEnd(j) \in Nat /\ PageEnd(j) <= j.events
      BY <1>0 DEF PageEnd, JobTold
    <2> HIDE DEF r
    <2>3. JobTold(r)
      BY <1>0, <2>1, <2>2 DEF JobTold
    <2> QED  BY <2>3 DEF r
  <1> QED  BY <1>1, <1>2, <1>3

\* The job's own steps leave what is told as it is.
LEMMA SteppedTold ==
    ASSUME NEW j \in JobState, JobTold(j)
    PROVE  /\ j.st = "live" => JobTold(Published(j)) /\ JobTold([Published(j) EXCEPT !.st = "ending"])
           /\ JobTold([j EXCEPT !.st = "done"]) /\ JobTold([j EXCEPT !.st = "live"])
  <1>0. /\ j.cursor \in Nat /\ j.oldest \in Nat /\ j.events \in Nat /\ Retained \in Nat /\ Retained > 0
    BY JobHostAssumption, SMTT(30) DEF JobState
  <1>1. /\ Published(j).st = j.st /\ Published(j).events = j.events + 1
        /\ Published(j).oldest = IF j.events + 1 > Retained THEN j.events + 1 - Retained ELSE j.oldest
        /\ Published(j).cursor = j.cursor /\ Published(j).gap = j.gap /\ Published(j).told = j.told
    BY JobFields
  <1>2. Published(j).oldest <= j.events + 1
    BY <1>0, <1>1 DEF JobTold
  <1>3. Published(j) \in JobState
    BY JobTypes
  <1>4. j.st = "live" => JobTold(Published(j))
    BY <1>0, <1>1, <1>2 DEF JobTold
  <1>5. ASSUME NEW p \in JobState, JobTold(p), NEW s \in {"live", "ending", "done"}
        PROVE  JobTold([p EXCEPT !.st = s])
    <2> DEFINE r == [p EXCEPT !.st = s]
    <2>1. /\ r.st = s /\ r.events = p.events /\ r.oldest = p.oldest /\ r.cursor = p.cursor
          /\ r.gap = p.gap /\ r.told = p.told
      BY DEF JobState
    <2> HIDE DEF r
    <2>2. JobTold(r)
      BY <1>5, <2>1 DEF JobTold
    <2> QED  BY <2>2 DEF r
  <1>6. JobTold([j EXCEPT !.st = "done"]) /\ JobTold([j EXCEPT !.st = "live"])
    BY <1>5
  <1>7. j.st = "live" => JobTold([Published(j) EXCEPT !.st = "ending"])
    BY <1>3, <1>4, <1>5
  <1> QED  BY <1>4, <1>6, <1>7

\* Jobs are started by the loop, polled by it, or go on by themselves.
LEMMA JobMoves ==
    ASSUME TypeOK, Shape, [Next]_vars
    PROVE  \/ jobs' = jobs
           \/ /\ \E i : jobs' = [jobs EXCEPT ![i].st = "live"]
              /\ pc \in {"recv", "flush"} /\ pc' \in {"sample", "flush"}
           \/ \E i \in Frame : poll_job_events(i)
           \/ \E i \in Frame : JobStep(i)
  <1>1. CASE \/ RecvHello \/ RecvTurn \/ RecvControl \/ RecvEof \/ SendToCore \/ SendFails \/ RecvCoreLine
             \/ RecvCoreComplete \/ RecvTimeout \/ Sample \/ FlushSummary \/ FlushSuppressed \/ FlushDone
             \/ poll_job_waits \/ FinishRound
    BY <1>1, HelloFacts, TurnFacts, ControlFacts, SendFacts, SendFailsFacts, LineFacts, CompleteFacts,
       TimeoutFacts, FlushEndFacts, WaitFacts, FinishFacts
  <1>2. CASE RecvJobFrame
    <2>1. pc = "recv" /\ pc' = "sample" /\ JobHandled(outer[1].id)
      BY <1>2, JobFrameFacts DEF Takes
    <2> QED  BY <2>1 DEF JobHandled, JobsMayStart
  <1>3. CASE FlushAction
    <2>1. pc = "flush" /\ pc' = "flush" /\ (jobs' = jobs \/ JobsMayStart(Queue[1].id))
      BY <1>3, FlushActionFacts
    <2> QED  BY <2>1 DEF JobsMayStart
  <1>4. CASE Outside
    <2>1. CASE Reader
      BY <2>1 DEF Reader, ReadFrame, ReadEof, jobVars
    <2>2. CASE Core \/ Worker
      BY <2>2 DEF Core, CoreFrame, CoreEof, CoreTurnEnd, CoreWrite, CoreReturn, CoreComplete, Worker,
                  CoreUnchanged, jobVars
    <2>3. CASE \E i \in Frame : JobStep(i) \/ Deadline(i)
      BY <2>3 DEF Deadline
    <2> QED  BY <1>4, <2>1, <2>2, <2>3 DEF Outside
  <1>5. CASE UNCHANGED vars
    BY <1>5 DEF vars, jobVars
  <1> QED  BY <1>1, <1>2, <1>3, <1>4, <1>5, StepKinds

LEMMA ToldSteps ==
    ASSUME TypeOK, Shape, Told, [Next]_vars
    PROVE  Told'
  <1>0. jobs \in [Frame -> JobState] /\ \A i \in Frame : jobs[i] \in JobState /\ JobTold(jobs[i])
    BY DEF TypeOK, Told
  <1>1. ASSUME NEW i \in Frame, NEW r, JobTold(r), jobs' = [jobs EXCEPT ![i] = r]
        PROVE  Told'
    <2>1. \A k \in Frame : jobs'[k] = IF k = i THEN r ELSE jobs[k]
      BY <1>0, <1>1
    <2> QED  BY <1>0, <1>1, <2>1 DEF Told
  <1>2. CASE jobs' = jobs
    BY <1>2 DEF Told
  <1>3. ASSUME NEW i, jobs' = [jobs EXCEPT ![i].st = "live"]
        PROVE  Told'
    <2>1. CASE i \in Frame
      BY <1>0, <1>1, <1>3, <2>1, SteppedTold
    <2>2. CASE i \notin Frame
      <3>1. \A k \in Frame : jobs'[k] = jobs[k]
        BY <1>0, <1>3, <2>2
      <3> QED  BY <1>0, <3>1 DEF Told
    <2> QED  BY <2>1, <2>2
  <1>4. ASSUME NEW i \in Frame, poll_job_events(i)
        PROVE  Told'
    <2>1. \/ jobs' = [jobs EXCEPT ![i] = Unreadable(jobs[i])]
          \/ jobs[i].cursor < jobs[i].oldest /\ jobs' = [jobs EXCEPT ![i] = Skipped(jobs[i])]
          \/ jobs[i].cursor >= jobs[i].oldest /\ jobs' = [jobs EXCEPT ![i] = Paged(jobs[i])]
      BY <1>0, <1>4, PollCases
    <2>2. /\ JobTold(Unreadable(jobs[i]))
          /\ jobs[i].cursor < jobs[i].oldest => JobTold(Skipped(jobs[i]))
          /\ jobs[i].cursor >= jobs[i].oldest => JobTold(Paged(jobs[i]))
      BY <1>0, PolledTold
    <2> QED  BY <1>1, <2>1, <2>2
  <1>5. ASSUME NEW i \in Frame, JobStep(i)
        PROVE  Told'
    <2>1. \/ jobs[i].st = "live" /\ jobs' = [jobs EXCEPT ![i] = Published(jobs[i])]
          \/ jobs[i].st = "live" /\ jobs' = [jobs EXCEPT ![i] = [Published(jobs[i]) EXCEPT !.st = "ending"]]
          \/ jobs' = [jobs EXCEPT ![i] = [jobs[i] EXCEPT !.st = "done"]]
      BY <1>0, <1>5 DEF JobStep
    <2>2. /\ jobs[i].st = "live" => /\ JobTold(Published(jobs[i]))
                                    /\ JobTold([Published(jobs[i]) EXCEPT !.st = "ending"])
          /\ JobTold([jobs[i] EXCEPT !.st = "done"])
      BY <1>0, SteppedTold
    <2> QED  BY <1>1, <2>1, <2>2
  <1> QED  BY <1>2, <1>3, <1>4, <1>5, JobMoves


\* The poll of the jobs begins with a sample, and goes on by polls and waits.
LEMMA PollMoves ==
    ASSUME TypeOK, Shape, [Next]_vars, pc' = "poll"
    PROVE  \/ Sample
           \/ \E i \in Frame : poll_job_events(i)
           \/ /\ pc = "poll" /\ UNCHANGED <<live, more, poll, barrier>>
              /\ jobs' = jobs \/ \E i \in Frame : JobStep(i)
  <1>1. CASE RecvHello \/ RecvTurn \/ RecvJobFrame \/ RecvControl \/ RecvEof
    BY <1>1, HelloFacts, TurnFacts, JobFrameFacts, ControlFacts DEF Admits, Refuses
  <1>2. CASE SendToCore \/ SendFails \/ RecvCoreLine \/ RecvCoreComplete
    BY <1>2, SendFacts, SendFailsFacts, LineFacts, CompleteFacts
  <1>3. CASE RecvTimeout
    BY <1>3 DEF RecvTimeout, Handled
  <1>4. CASE FlushAction \/ FlushSummary \/ FlushSuppressed \/ FlushDone
    BY <1>4, FlushActionFacts, FlushEndFacts
  <1>5. CASE FinishRound
    BY <1>5, FinishFacts
  <1>6. CASE poll_job_waits
    BY <1>6, WaitFacts
  <1>7. CASE Outside
    <2>1. UNCHANGED <<pc, live, more, poll, barrier>>
      BY <1>7, OutsideFacts
    <2>2. jobs' = jobs \/ (\E i \in Frame : JobStep(i)) \/ (\E i \in Frame : poll_job_events(i))
      BY <2>1, JobMoves
    <2> QED  BY <2>1, <2>2
  <1>8. CASE UNCHANGED vars
    BY <1>8 DEF vars, loopVars, pollVars, barrierVars, jobVars
  <1> QED  BY <1>1, <1>2, <1>3, <1>4, <1>5, <1>6, <1>7, <1>8, StepKinds

\* A poll that leaves nothing for another one has told all of the job.
LEMMA PolledCaught ==
    ASSUME NEW j \in JobState, JobTold(j), NEW r,
           \/ r = Unreadable(j)
           \/ r = Paged(j) /\ ~(PageEnd(j) < j.events)
    PROVE  r.st = j.st /\ (r.told = r.events \/ r.down)
  <1>0. /\ j.cursor \in Nat /\ j.events \in Nat /\ j.told \in Int /\ Page \in Nat
    BY JobHostAssumption DEF JobState
  <1>1. CASE r = Unreadable(j)
    BY <1>1, JobFields
  <1>2. CASE r = Paged(j) /\ ~(PageEnd(j) < j.events)
    <2>1. r.st = j.st /\ r.events = j.events /\ r.told = j.told + (PageEnd(j) - j.cursor)
      BY <1>2, JobFields
    <2>2. PageEnd(j) = j.events
      BY <1>0, <1>2 DEF PageEnd
    <2> QED  BY <1>0, <2>1, <2>2 DEF JobTold
  <1> QED  BY <1>1, <1>2

LEMMA RoundSteps ==
    ASSUME TypeOK, Shape, Told, Round, [Next]_vars
    PROVE  Round'
  <1> DEFINE Rest1 == \A i \in Frame : jobs'[i].st \in {"none", "done"}
             Caught1(i) == jobs'[i].st = "none" \/ jobs'[i].told = jobs'[i].events \/ jobs'[i].down
             Caught2 == ~pending(barrier') /\ ~more' => \A i \in Frame \ poll' : Caught1(i)
  <1>1. (pc' = "poll" /\ ~live' => Rest1 /\ Caught2) => Round'
    BY DEF Round, Caught, pending
  <1> SUFFICES ASSUME pc' = "poll", ~live' PROVE Rest1 /\ Caught2
    BY <1>1
  <1>0. jobs \in [Frame -> JobState] /\ \A i \in Frame : jobs[i] \in JobState /\ JobTold(jobs[i])
    BY DEF TypeOK, Told
  <1>2. CASE Sample
    <2>1. /\ live' = \E i \in Frame : jobs[i].st \in {"live", "ending"}
          /\ poll' = IF pending(barrier) THEN {} ELSE Registered(jobs)
          /\ jobs' = jobs /\ barrier' = barrier
      BY <1>2 DEF Sample, jobVars, barrierVars
    <2>2. Rest1
      <3>1. \A i \in Frame : jobs[i].st \in {"none", "live", "ending", "done"}
        BY <1>0 DEF JobState
      <3> QED  BY <2>1, <3>1
    <2>3. Caught2
      BY <2>1 DEF Registered
    <2> QED  BY <2>2, <2>3
  <1>3. ASSUME NEW i \in Frame, poll_job_events(i)
        PROVE  Rest1 /\ Caught2
    <2>1. /\ pc = "poll" /\ i \in poll /\ poll' = poll \ {i} /\ live' = live /\ barrier' = barrier
          /\ \/ jobs' = [jobs EXCEPT ![i] = Unreadable(jobs[i])] /\ more' = more
             \/ jobs' = [jobs EXCEPT ![i] = Skipped(jobs[i])] /\ more'
             \/ /\ jobs' = [jobs EXCEPT ![i] = Paged(jobs[i])]
                /\ more' = (more \/ PageEnd(jobs[i]) < jobs[i].events)
      BY <1>0, <1>3, PollCases DEF barrierVars
    <2>2. PICK r : /\ jobs' = [jobs EXCEPT ![i] = r] /\ r.st = jobs[i].st
                   /\ ~more' => ~more /\ (r.told = r.events \/ r.down)
      <3>1. CASE jobs' = [jobs EXCEPT ![i] = Unreadable(jobs[i])] /\ more' = more
        <4>1. Unreadable(jobs[i]).st = jobs[i].st /\ Unreadable(jobs[i]).down
          BY <1>0, JobFields
        <4> QED  BY <3>1, <4>1
      <3>2. CASE jobs' = [jobs EXCEPT ![i] = Skipped(jobs[i])] /\ more'
        <4>1. Skipped(jobs[i]).st = jobs[i].st
          BY <1>0, JobFields
        <4> QED  BY <3>2, <4>1
      <3>3. CASE /\ jobs' = [jobs EXCEPT ![i] = Paged(jobs[i])]
                 /\ more' = (more \/ PageEnd(jobs[i]) < jobs[i].events)
        <4>1. Paged(jobs[i]).st = jobs[i].st
          BY <1>0, JobFields
        <4>2. ~more' => Paged(jobs[i]).told = Paged(jobs[i]).events \/ Paged(jobs[i]).down
          BY <1>0, <3>3, PolledCaught
        <4> QED  BY <3>3, <4>1, <4>2
      <3> QED  BY <2>1, <3>1, <3>2, <3>3
    <2>3. \A k \in Frame : jobs'[k] = IF k = i THEN r ELSE jobs[k]
      BY <1>0, <2>2
    <2>4. Rest1
      BY <2>1, <2>2, <2>3 DEF Round
    <2>5. Caught2
      BY <2>1, <2>2, <2>3 DEF Round, Caught
    <2> QED  BY <2>4, <2>5
  <1>4. CASE pc = "poll" /\ UNCHANGED <<live, more, poll, barrier>> /\ jobs' = jobs
    BY <1>4 DEF Round, Caught
  <1>5. ASSUME pc = "poll", UNCHANGED <<live, more, poll, barrier>>, NEW i \in Frame, JobStep(i)
        PROVE  FALSE
    BY <1>5 DEF Round, JobStep
  <1> QED  BY <1>2, <1>3, <1>4, <1>5, PollMoves

\* The loop returns from the end of a round.
LEMMA ReturnedSteps ==
    ASSUME TypeOK, Shape, Round, Closed, Returned, [Next]_vars
    PROVE  Returned'
  <1>1. CASE FinishRound
    <2>1. /\ pc = "poll" /\ poll = {} /\ UNCHANGED <<barrier, jobs, attached, coreOpen>>
          /\ pc' = "exit" => ~coreOpen /\ ~live /\ waits' = <<>> /\ (attached => ~more)
      BY <1>1, FinishFacts
    <2>2. pc' = "exit" => ~pending(barrier)
      BY <2>1 DEF Closed
    <2>3. pc' = "exit" /\ attached => \A i \in Frame : jobs[i].st \in {"none", "done"} /\ Caught(i)
      BY <2>1, <2>2 DEF Round
    <2> QED  BY <2>1, <2>2, <2>3 DEF Returned, Caught
  <1>2. CASE pc = "exit"
    <2>1. Outside \/ UNCHANGED vars \/ pc' # "exit"
      BY <1>2, StepKinds, HelloFacts, TurnFacts, JobFrameFacts, ControlFacts, SendFacts,
         SendFailsFacts, LineFacts, CompleteFacts, TimeoutFacts, FlushActionFacts, FlushEndFacts,
         PollFacts, WaitFacts, FinishFacts DEF Takes
    <2>2. CASE Outside
      <3>1. UNCHANGED <<pc, attached, coreOpen, waits>>
        BY <2>2, OutsideFacts
      <3>2. jobs' = jobs
        <4>1. ~\E i \in Frame : JobStep(i)
          BY <1>2 DEF JobStep, Alive
        <4>2. ~\E i \in Frame : poll_job_events(i)
          BY <1>2 DEF poll_job_events
        <4> QED  BY <1>2, <4>1, <4>2, JobMoves
      <3> QED  BY <3>1, <3>2 DEF Returned, Caught
    <2>3. CASE UNCHANGED vars
      BY <2>3 DEF vars, loopVars, jobVars, waitVars, writeVars, Returned, Caught
    <2> QED  BY <2>1, <2>2, <2>3 DEF Returned
  <1>3. ASSUME ~FinishRound, pc # "exit"
        PROVE  pc' # "exit"
    <2>1. CASE RecvHello \/ RecvTurn \/ RecvJobFrame \/ RecvControl \/ RecvEof
      BY <2>1, HelloFacts, TurnFacts, JobFrameFacts, ControlFacts DEF Admits, Refuses
    <2>2. CASE \/ SendToCore \/ SendFails \/ RecvCoreLine \/ RecvCoreComplete \/ RecvTimeout \/ Sample
               \/ FlushAction \/ FlushSummary \/ FlushSuppressed \/ FlushDone
               \/ (\E i \in Frame : poll_job_events(i)) \/ poll_job_waits
      BY <2>2, SendFacts, SendFailsFacts, LineFacts, CompleteFacts, TimeoutFacts, FlushActionFacts,
         FlushEndFacts, PollFacts, WaitFacts
    <2>3. CASE Outside \/ UNCHANGED vars
      <3>1. pc' = pc
        BY <2>3, OutsideFacts DEF vars, loopVars
      <3> QED  BY <1>3, <3>1
    <2> QED  BY <1>3, <2>1, <2>2, <2>3, StepKinds
  <1> QED  BY <1>1, <1>2, <1>3 DEF Returned

-----------------------------------------------------------------------------
(* The ends of the input and of the core                                   *)

EndsKept == UNCHANGED <<outer, reader, inner, core, coreOpen>>

\* The steps by what they do to the two channels.
Calm == EndsKept /\ (pc' = "send" => pc = "send" /\ hand' = hand)
TakesOne(t) ==
    /\ t \in {"frame", "line", "eof", "complete"} /\ Takes(t) /\ UNCHANGED <<reader, inner, core>>
    /\ pc' = "send" => t \in {"frame", "eof"} /\ (hand'.k = "eof" => t = "eof")
    /\ IF t = "complete" THEN coreOpen' = FALSE ELSE coreOpen' = coreOpen
Sends ==
    /\ UNCHANGED <<outer, reader, core, coreOpen>>
    /\ pc = "send" /\ pc' # "send" /\ core.pc = "run" /\ inner' = Append(inner, hand)
FailsToSend ==
    /\ UNCHANGED <<outer, reader, inner, core>>
    /\ pc = "send" /\ pc' # "send" /\ core.pc # "run" /\ coreOpen' = FALSE
Reads(e) ==
    /\ UNCHANGED <<inner, core, coreOpen, pc, hand>> /\ reader = "reading" /\ outer' = Append(outer, e)
    /\ \/ e.t = "frame" /\ reader' = "reading"
       \/ e.t = "eof" /\ reader' = "closed"
CoreTakes ==
    /\ UNCHANGED <<outer, reader, coreOpen, pc, hand>>
    /\ core.pc = "run" /\ core'.pc = "run" /\ inner # <<>> /\ inner' = Tail(inner)
    /\ core'.stop = "no" => core.stop = "no"
    /\ IF inner[1].k = "eof" THEN core'.input = FALSE ELSE core'.input = core.input
CoreEnds ==
    /\ UNCHANGED <<outer, reader, coreOpen, pc, hand>>
    /\ core.pc = "run" /\ core.lines = <<>> /\ inner' = <<>>
    /\ core.stop = "no" => ~core.input
    /\ core'.pc = "returned" /\ core'.lines = core.lines
    /\ core'.stop = core.stop /\ core'.input = core.input
CoreSays(e) ==
    /\ UNCHANGED <<inner, reader, coreOpen, pc, hand>> /\ outer' = Append(outer, e)
    /\ core'.stop = core.stop /\ core'.input = core.input
    /\ \/ e.t = "line" /\ core.pc = "run" /\ core'.pc = "run"
       \/ /\ e.t = "complete" /\ core.pc = "returned" /\ core'.pc = "done"
          /\ core'.lines = core.lines
WorkerSays(e) ==
    /\ UNCHANGED <<outer, reader, core, coreOpen, pc, hand>> /\ inner' = Append(inner, e) /\ e.k = "done"

LEMMA OutsideEnds ==
    ASSUME TypeOK, Shape, Outside
    PROVE  \/ Calm \/ CoreTakes \/ CoreEnds
           \/ \E e \in Letter : Reads(e) \/ CoreSays(e)
           \/ \E e \in Line : WorkerSays(e)
  <1>0. /\ UNCHANGED <<pc, hand, coreOpen>> /\ outer \in Seq(Letter) /\ inner \in Seq(Line) /\ core \in CoreState
        /\ core.lines \in Seq(Line) /\ sent \in Seq(FrameKind) /\ script \in Seq(FrameKind)
    BY OutsideFacts DEF TypeOK, CoreState
  <1>1. CASE ReadFrame
    <2>1. PICK k \in FrameKind : OuterRead(k)
      BY <1>1, ReadFrameReads
    <2>2. PICK e \in Letter : outer' = Append(outer, e) /\ e.t = "frame"
      BY <2>1, ReadMessage DEF OuterRead
    <2>3. Reads(e)
      BY <1>0, <1>1, <2>2 DEF ReadFrame, Reads, coreVars
    <2> QED  BY <2>3
  <1>2. CASE ReadEof
    <2>1. PICK e \in Letter : e = Message("eof", Entry("eof", 0)) /\ e.t = "eof"
      <3>1. Message("eof", Entry("eof", 0)) \in Letter /\ Message("eof", Entry("eof", 0)).t = "eof"
        BY DEF Message, Entry, Letter, Word
      <3> QED  BY <3>1
    <2>2. Reads(e)
      BY <1>0, <1>2, <2>1 DEF ReadEof, Reads, coreVars
    <2> QED  BY <2>2
  <1>3. CASE CoreFrame
    <2>1. /\ inner # <<>> /\ inner' = Tail(inner) /\ core.pc = "run" /\ core'.pc = core.pc
          /\ core'.input = core.input /\ (core.stop # "no" => core'.stop # "no")
          /\ Head(inner).k = "frame" /\ CoreUnchanged
      BY <1>3, CoreFrameCases
    <2>2. inner[1].k = "frame"
      BY <1>0, <2>1, Shrinks
    <2> QED  BY <1>0, <2>1, <2>2 DEF CoreTakes, CoreUnchanged, readerVars
  <1>4. CASE CoreEof \/ CoreTurnEnd
    <2>1. /\ inner # <<>> /\ inner' = Tail(inner) /\ core.pc = "run" /\ CoreUnchanged
          /\ \/ Head(inner).k = "eof" /\ core' = [core EXCEPT !.input = FALSE]
             \/ /\ Head(inner).k = "done"
                /\ core' = [core EXCEPT !.lines = Lines(<<Entry("end", core.active)>>), !.active = 0]
      BY <1>4 DEF CoreEof, CoreTurnEnd, CoreIdle
    <2>2. Head(inner) = inner[1]
      BY <1>0, <2>1, Shrinks
    <2>3. /\ core'.pc = "run" /\ core'.stop = core.stop
          /\ IF inner[1].k = "eof" THEN core'.input = FALSE ELSE core'.input = core.input
      BY <1>0, <2>1, <2>2 DEF CoreState
    <2> QED  BY <1>0, <2>1, <2>3 DEF CoreTakes, CoreUnchanged, readerVars
  <1>5. CASE CoreReturn
    <2>1. /\ core.pc = "run" /\ core.lines = <<>> /\ inner' = <<>> /\ CoreUnchanged
          /\ core' = [core EXCEPT !.pc = "returned"] /\ (core.stop = "no" => ~core.input)
      BY <1>5 DEF CoreReturn, CoreIdle, CoreReturns
    <2>2. /\ core'.pc = "returned" /\ core'.lines = core.lines /\ core'.stop = core.stop
          /\ core'.input = core.input
      BY <1>0, <2>1 DEF CoreState
    <2> QED  BY <1>0, <2>1, <2>2 DEF CoreEnds, CoreUnchanged, readerVars
  <1>6. CASE CoreWrite
    <2>1. /\ core.pc = "run" /\ core.lines # <<>> /\ outer' = Append(outer, Message("line", Head(core.lines)))
          /\ core' = [core EXCEPT !.lines = Tail(@)] /\ UNCHANGED <<readerVars, inner>>
      BY <1>6 DEF CoreWrite
    <2>2. Head(core.lines) \in Line
      BY <1>0, <2>1, Shrinks
    <2>3. PICK e \in Letter : e = Message("line", Head(core.lines)) /\ e.t = "line"
      <3>1. Message("line", Head(core.lines)) \in Letter /\ Message("line", Head(core.lines)).t = "line"
        BY <2>2 DEF Message, Letter, Line
      <3> QED  BY <3>1
    <2>4. core'.pc = "run" /\ core'.stop = core.stop /\ core'.input = core.input
      BY <1>0, <2>1 DEF CoreState
    <2>5. CoreSays(e)
      BY <1>0, <2>1, <2>3, <2>4 DEF CoreSays, readerVars
    <2> QED  BY <2>5
  <1>7. CASE CoreComplete
    <2>1. /\ core.pc = "returned" /\ outer' = Append(outer, Message("complete", Entry("complete", 0)))
          /\ core' = [core EXCEPT !.pc = "done"] /\ UNCHANGED <<readerVars, inner>>
      BY <1>7 DEF CoreComplete
    <2>2. PICK e \in Letter : e = Message("complete", Entry("complete", 0)) /\ e.t = "complete"
      <3>1. /\ Message("complete", Entry("complete", 0)) \in Letter
            /\ Message("complete", Entry("complete", 0)).t = "complete"
        BY DEF Message, Entry, Letter, Word
      <3> QED  BY <3>1
    <2>3. core'.pc = "done" /\ core'.lines = core.lines /\ core'.stop = core.stop /\ core'.input = core.input
      BY <1>0, <2>1 DEF CoreState
    <2>4. CoreSays(e)
      BY <1>0, <2>1, <2>2, <2>3 DEF CoreSays, readerVars
    <2> QED  BY <2>4
  <1>8. CASE Worker
    <2>1. PICK e \in Line : e = Entry("done", core.active) /\ e.k = "done"
      <3>1. Entry("done", core.active) \in Line /\ Entry("done", core.active).k = "done"
        BY <1>0 DEF Entry, Line, Word, CoreState
      <3> QED  BY <3>1
    <2>2. WorkerSays(e)
      BY <1>0, <1>8, <2>1 DEF Worker, CoreUnchanged, readerVars, WorkerSays
    <2> QED  BY <2>2
  <1>9. CASE \E i \in Frame : JobStep(i) \/ Deadline(i)
    <2>1. JobUnchanged
      BY <1>9 DEF JobStep, Deadline
    <2> QED  BY <1>0, <2>1 DEF JobUnchanged, readerVars, coreVars, Calm, EndsKept
  <1> QED  BY <1>1, <1>2, <1>3, <1>4, <1>5, <1>6, <1>7, <1>8, <1>9 DEF Outside, Reader, Core

LEMMA EndSteps ==
    ASSUME TypeOK, Shape, [Next]_vars
    PROVE  \/ Calm \/ Sends \/ FailsToSend \/ CoreTakes \/ CoreEnds \/ \E t : TakesOne(t)
           \/ \E e \in Letter : Reads(e) \/ CoreSays(e)
           \/ \E e \in Line : WorkerSays(e)
  <1>1. CASE RecvHello \/ RecvTurn \/ RecvJobFrame \/ RecvControl \/ RecvEof
    <2>1. /\ LoopUnchanged /\ UNCHANGED coreOpen
          /\ \/ Takes("frame") /\ (pc' = "send" => hand' = Entry("frame", outer[1].id))
             \/ Takes("eof")
      BY <1>1, HelloFacts, TurnFacts, JobFrameFacts, ControlFacts DEF Admits, Refuses
    <2>2. Entry("frame", outer[1].id).k # "eof"
      BY DEF Entry
    <2>3. TakesOne("frame") \/ TakesOne("eof")
      BY <2>1, <2>2 DEF LoopUnchanged, readerVars, coreVars, TakesOne
    <2> QED  BY <2>3
  <1>2. CASE RecvCoreLine
    <2>1. Takes("line") /\ LoopUnchanged /\ UNCHANGED coreOpen /\ pc' # "send"
      BY <1>2, LineFacts
    <2>2. TakesOne("line")
      BY <2>1 DEF LoopUnchanged, readerVars, coreVars, TakesOne
    <2> QED  BY <2>2
  <1>3. CASE RecvCoreComplete
    <2>1. Takes("complete") /\ LoopUnchanged /\ coreOpen' = FALSE /\ pc' # "send"
      BY <1>3, CompleteFacts
    <2>2. TakesOne("complete")
      BY <2>1 DEF LoopUnchanged, readerVars, coreVars, TakesOne
    <2> QED  BY <2>2
  <1>4. CASE SendToCore
    BY <1>4, SendFacts DEF readerVars, coreVars, Sends
  <1>5. CASE SendFails
    BY <1>5, SendFailsFacts DEF LoopUnchanged, readerVars, coreVars, FailsToSend
  <1>6. CASE RecvTimeout \/ Sample
    BY <1>6, TimeoutFacts DEF readerVars, coreVars, Calm, EndsKept
  <1>7. CASE FlushAction \/ FlushSummary \/ FlushSuppressed \/ FlushDone
    BY <1>7, FlushActionFacts, FlushEndFacts DEF LoopUnchanged, readerVars, coreVars, Calm, EndsKept
  <1>8. CASE (\E i \in Frame : poll_job_events(i)) \/ poll_job_waits \/ FinishRound
    BY <1>8, PollFacts, WaitFacts, FinishFacts DEF readerVars, coreVars, Calm, EndsKept
  <1>9. CASE Outside
    BY <1>9, OutsideEnds
  <1>10. CASE UNCHANGED vars
    BY <1>10 DEF vars, readerVars, coreVars, loopVars, Calm, EndsKept
  <1> QED  BY <1>1, <1>2, <1>3, <1>4, <1>5, <1>6, <1>7, <1>8, <1>9, <1>10, StepKinds


\* The end of the input reaches the core by the loop's send.
LEMMA EofSteps ==
    ASSUME TypeOK, Shape, [Next]_vars
    PROVE  EofSent' => EofSent \/ (pc = "send" /\ hand.k = "eof" /\ Sends)
  <1>0. inner \in Seq(Line) /\ hand \in Line
    BY DEF TypeOK
  <1>1. CASE Calm \/ FailsToSend \/ \E t : TakesOne(t)
    BY <1>1 DEF Calm, EndsKept, FailsToSend, TakesOne, EofSent
  <1>2. CASE Sends
    <2>1. inner' = Append(inner, hand) /\ core' = core /\ pc = "send"
      BY <1>2 DEF Sends
    <2>2. \A n \in DOMAIN inner' : (n \in DOMAIN inner /\ inner'[n] = inner[n]) \/ inner'[n] = hand
      BY <1>0, <2>1, Elements
    <2> QED  BY <1>2, <2>1, <2>2 DEF EofSent
  <1>3. CASE CoreTakes
    <2>1. /\ inner # <<>> /\ inner' = Tail(inner)
          /\ IF inner[1].k = "eof" THEN core'.input = FALSE ELSE core'.input = core.input
      BY <1>3 DEF CoreTakes
    <2>2. 1 \in DOMAIN inner /\ \A n \in DOMAIN inner' : n + 1 \in DOMAIN inner /\ inner'[n] = inner[n + 1]
      BY <1>0, <2>1, Rest
    <2> QED  BY <2>1, <2>2 DEF EofSent
  <1>4. CASE CoreEnds
    <2>1. DOMAIN inner' = {} /\ core'.input = core.input
      BY <1>4, NoElement DEF CoreEnds
    <2> QED  BY <2>1 DEF EofSent
  <1>5. ASSUME NEW e \in Letter, Reads(e) \/ CoreSays(e)
        PROVE  EofSent' => EofSent
    <2>1. inner' = inner /\ core'.input = core.input
      BY <1>5 DEF Reads, CoreSays
    <2> QED  BY <2>1 DEF EofSent
  <1>6. ASSUME NEW e \in Line, WorkerSays(e)
        PROVE  EofSent' => EofSent
    <2>1. inner' = Append(inner, e) /\ core' = core /\ e.k # "eof"
      BY <1>6 DEF WorkerSays
    <2>2. \A n \in DOMAIN inner' : (n \in DOMAIN inner /\ inner'[n] = inner[n]) \/ inner'[n] = e
      BY <1>0, <2>1, Elements
    <2> QED  BY <2>1, <2>2 DEF EofSent
  <1> QED  BY <1>1, <1>2, <1>3, <1>4, <1>5, <1>6, EndSteps

\* The reader's last message stays its last on every way.
LEMMA EndingSteps ==
    ASSUME TypeOK, Shape, Ending, [Next]_vars
    PROVE  Ending'
  <1>0. outer \in Seq(Letter) /\ Len(outer) \in Nat /\ DOMAIN outer = 1..Len(outer)
    BY DEF TypeOK
  <1> DEFINE Ended == (pc = "send" /\ hand.k = "eof") \/ EofSent
             Ended1 == (pc' = "send" /\ hand'.k = "eof") \/ EofSent'
             E1 == (\E n \in DOMAIN outer' : outer'[n].t = "eof") => reader' = "closed"
             E2 == \A n, m \in DOMAIN outer' :
                        outer'[n].t = "eof" /\ n < m => outer'[m].t \notin {"frame", "eof"}
             E3 == Ended1 => reader' = "closed" /\ \A n \in DOMAIN outer' : outer'[n].t \notin {"frame", "eof"}
             E4 == EofSent' => pc' # "send"
             E5 == core'.pc # "run" /\ core'.stop = "no" => ~core'.input
  <1>1. E1 /\ E2 /\ E3 /\ E4 /\ E5 => Ending'
    BY DEF Ending
  <1>2. EofSent' => EofSent \/ (pc = "send" /\ hand.k = "eof" /\ Sends)
    BY EofSteps
  <1>3. Ended => reader = "closed" /\ \A n \in DOMAIN outer : outer[n].t \notin {"frame", "eof"}
    BY DEF Ending
  <1>4. CASE Calm
    <2>1. UNCHANGED <<outer, reader, core>> /\ (pc' = "send" => pc = "send" /\ hand' = hand)
      BY <1>4 DEF Calm, EndsKept
    <2>2. ~Sends \/ pc' # "send"
      BY DEF Sends
    <2>3. Ended1 => Ended
      BY <1>2, <2>1
    <2>4. E1 /\ E2 /\ E5
      BY <2>1 DEF Ending
    <2>5. E3
      BY <1>3, <2>1, <2>3
    <2>6. E4
      BY <1>2, <2>1, <2>2 DEF Ending
    <2> QED  BY <1>1, <2>4, <2>5, <2>6
  <1>5. CASE Sends \/ FailsToSend
    <2>1. UNCHANGED <<outer, reader, core>> /\ pc = "send" /\ pc' # "send"
      BY <1>5 DEF Sends, FailsToSend
    <2>2. Ended1 => Ended
      BY <1>2, <2>1
    <2>3. E1 /\ E2 /\ E5
      BY <2>1 DEF Ending
    <2>4. E3
      BY <1>3, <2>1, <2>2
    <2> QED  BY <1>1, <2>1, <2>3, <2>4
  <1>6. CASE CoreTakes \/ CoreEnds \/ \E e \in Line : WorkerSays(e)
    <2>1. UNCHANGED <<outer, reader, pc, hand>>
      BY <1>6 DEF CoreTakes, CoreEnds, WorkerSays
    <2>2. ~Sends \/ pc' # "send"
      BY DEF Sends
    <2>3. Ended1 => Ended
      BY <1>2, <2>1
    <2>4. E1 /\ E2
      BY <2>1 DEF Ending
    <2>5. E3
      BY <1>3, <2>1, <2>3
    <2>6. E4
      BY <1>2, <2>1, <2>2 DEF Ending
    <2>7. E5
      BY <1>6 DEF Ending, CoreTakes, CoreEnds, WorkerSays
    <2> QED  BY <1>1, <2>4, <2>5, <2>6, <2>7
  <1>7. ASSUME NEW t, TakesOne(t)
        PROVE  Ending'
    <2>1. /\ outer # <<>> /\ outer' = Tail(outer) /\ outer[1].t = t /\ UNCHANGED <<reader, core>> /\ pc = "recv"
          /\ pc' = "send" => t \in {"frame", "eof"} /\ (hand'.k = "eof" => t = "eof")
      BY <1>7 DEF TakesOne, Takes
    <2>2. /\ Len(outer) >= 1 /\ DOMAIN outer' = 1..(Len(outer) - 1)
          /\ \A n \in 1..(Len(outer) - 1) : outer'[n] = outer[n + 1]
      BY <1>0, <2>1, Shrinks
    <2>3. /\ 1 \in DOMAIN outer
          /\ \A n \in DOMAIN outer' : n \in Nat /\ n + 1 \in DOMAIN outer /\ outer'[n] = outer[n + 1] /\ 1 < n + 1
      BY <1>0, <2>2
    <2>4. EofSent' => EofSent
      BY <1>2, <2>1
    <2>5. E1
      BY <2>1, <2>3 DEF Ending
    <2>6. E2
      BY <1>0, <2>2, <2>3 DEF Ending
    <2>7. EofSent => t \notin {"frame", "eof"}
      BY <1>3, <2>1, <2>3
    <2>8. E4
      BY <2>1, <2>4, <2>7
    <2>9. t = "eof" => reader = "closed" /\ \A n \in DOMAIN outer' : outer'[n].t \notin {"frame", "eof"}
      BY <2>1, <2>3 DEF Ending
    <2>10. E3
      BY <1>3, <2>1, <2>3, <2>4, <2>9
    <2>11. E5
      BY <2>1 DEF Ending
    <2> QED  BY <1>1, <2>5, <2>6, <2>8, <2>10, <2>11
  <1>8. ASSUME NEW e \in Letter, Reads(e)
        PROVE  Ending'
    <2>1. /\ UNCHANGED <<inner, core, pc, hand>> /\ reader = "reading" /\ outer' = Append(outer, e)
          /\ \/ e.t = "frame" /\ reader' = "reading"
             \/ e.t = "eof" /\ reader' = "closed"
      BY <1>8 DEF Reads
    <2>2. /\ DOMAIN outer' = 1..(Len(outer) + 1) /\ outer'[Len(outer) + 1] = e
          /\ \A n \in 1..Len(outer) : outer'[n] = outer[n]
      BY <1>0, <2>1, Grows
    <2>3. ~Ended /\ \A n \in DOMAIN outer : outer[n].t # "eof"
      BY <1>3, <2>1 DEF Ending
    <2>4. ~Ended1
      BY <1>2, <2>1, <2>3
    <2>5. \A n \in DOMAIN outer' : outer'[n].t = "eof" => n = Len(outer) + 1 /\ e.t = "eof"
      BY <1>0, <2>2, <2>3
    <2>6. E1
      BY <2>1, <2>5
    <2>7. E2
      <3>1. \A m \in DOMAIN outer' : ~(Len(outer) + 1 < m)
        BY <1>0, <2>2
      <3> QED  BY <2>5, <3>1
    <2>8. E5
      BY <2>1 DEF Ending
    <2> QED  BY <1>1, <2>4, <2>6, <2>7, <2>8
  <1>9. ASSUME NEW e \in Letter, CoreSays(e)
        PROVE  Ending'
    <2>1. /\ UNCHANGED <<inner, reader, pc, hand>> /\ outer' = Append(outer, e) /\ e.t \notin {"frame", "eof"}
          /\ core'.stop = core.stop /\ core'.input = core.input
          /\ core'.pc # "run" => core.pc # "run"
      BY <1>9 DEF CoreSays
    <2>2. /\ DOMAIN outer' = 1..(Len(outer) + 1) /\ outer'[Len(outer) + 1] = e
          /\ \A n \in 1..Len(outer) : outer'[n] = outer[n]
      BY <1>0, <2>1, Grows
    <2>3. \A n \in DOMAIN outer' : \/ n \in DOMAIN outer /\ outer'[n] = outer[n]
                                   \/ outer'[n].t \notin {"frame", "eof"}
      BY <1>0, <2>1, <2>2
    <2>4. Ended1 => Ended
      BY <1>2, <2>1 DEF Sends
    <2>5. E1
      BY <2>1, <2>3 DEF Ending
    <2>6. E2
      BY <2>3 DEF Ending
    <2>7. E3
      BY <1>3, <2>1, <2>3, <2>4
    <2>8. E4
      BY <1>2, <2>1 DEF Ending, Sends
    <2>9. E5
      BY <2>1 DEF Ending
    <2> QED  BY <1>1, <2>5, <2>6, <2>7, <2>8, <2>9
  <1> QED  BY <1>4, <1>5, <1>6, <1>7, <1>8, <1>9, EndSteps

\* The loop closes the core's side when the core has returned, and unless the
\* core stopped by itself all its lines were taken before.
LEMMA LinesFirstSteps ==
    ASSUME TypeOK, Shape, Ending, Closed, LinesFirst, [Next]_vars
    PROVE  /\ LinesFirst'
           /\ core'.pc # "run" => core'.lines = <<>>
           /\ ~coreOpen' => core'.pc # "run"
  <1>0. outer \in Seq(Letter) /\ Len(outer) \in Nat /\ DOMAIN outer = 1..Len(outer)
    BY DEF TypeOK
  <1> DEFINE L1 == (\E n \in DOMAIN outer' : outer'[n].t = "complete") => core'.pc = "done"
             L2 == \A n, m \in DOMAIN outer' : outer'[n].t = "complete" /\ n < m => outer'[m].t # "line"
             L3 == ~coreOpen' /\ core'.stop = "no" =>
                        core'.pc = "done" /\ \A n \in DOMAIN outer' : outer'[n].t # "line"
             C1 == core'.pc # "run" => core'.lines = <<>>
             C2 == ~coreOpen' => core'.pc # "run"
  <1> SUFFICES L1 /\ L2 /\ L3 /\ C1 /\ C2
    BY DEF LinesFirst
  <1>1. CASE Calm \/ Sends \/ \E e \in Line : WorkerSays(e)
    <2>1. UNCHANGED <<outer, core, coreOpen>>
      BY <1>1 DEF Calm, EndsKept, Sends, WorkerSays
    <2> QED  BY <2>1 DEF LinesFirst, Closed
  <1>2. CASE FailsToSend
    <2>1. UNCHANGED <<outer, core>> /\ pc = "send" /\ core.pc # "run"
      BY <1>2 DEF FailsToSend
    <2>2. core.stop # "no"
      BY <2>1 DEF Ending, EofSent
    <2>3. L1 /\ L2
      BY <2>1 DEF LinesFirst
    <2> QED  BY <2>1, <2>2, <2>3 DEF Closed
  <1>3. CASE CoreTakes
    <2>1. UNCHANGED <<outer, coreOpen>> /\ core.pc = "run" /\ core'.pc = "run"
      BY <1>3 DEF CoreTakes
    <2>2. coreOpen /\ \A n \in DOMAIN outer : outer[n].t # "complete"
      BY <2>1 DEF Closed, LinesFirst
    <2> QED  BY <2>1, <2>2
  <1>4. CASE CoreEnds
    <2>1. /\ UNCHANGED <<outer, coreOpen>> /\ core.pc = "run" /\ core.lines = <<>>
          /\ core'.lines = core.lines /\ core'.pc = "returned"
      BY <1>4 DEF CoreEnds
    <2>2. coreOpen /\ \A n \in DOMAIN outer : outer[n].t # "complete"
      BY <2>1 DEF Closed, LinesFirst
    <2> QED  BY <2>1, <2>2
  <1>5. ASSUME NEW t, TakesOne(t)
        PROVE  L1 /\ L2 /\ L3 /\ C1 /\ C2
    <2>1. /\ outer # <<>> /\ outer' = Tail(outer) /\ outer[1].t = t /\ core' = core
          /\ IF t = "complete" THEN coreOpen' = FALSE ELSE coreOpen' = coreOpen
      BY <1>5 DEF TakesOne, Takes
    <2>2. /\ Len(outer) >= 1 /\ DOMAIN outer' = 1..(Len(outer) - 1)
          /\ \A n \in 1..(Len(outer) - 1) : outer'[n] = outer[n + 1]
      BY <1>0, <2>1, Shrinks
    <2>3. /\ 1 \in DOMAIN outer
          /\ \A n \in DOMAIN outer' : n \in Nat /\ n + 1 \in DOMAIN outer /\ outer'[n] = outer[n + 1] /\ 1 < n + 1
      BY <1>0, <2>2
    <2>4. L1
      BY <2>1, <2>3 DEF LinesFirst
    <2>5. L2
      BY <1>0, <2>2, <2>3 DEF LinesFirst
    <2>6. t = "complete" => core.pc = "done" /\ \A n \in DOMAIN outer' : outer'[n].t # "line"
      BY <2>1, <2>3 DEF LinesFirst
    <2>7. L3
      BY <2>1, <2>3, <2>6 DEF LinesFirst
    <2>8. C1 /\ C2
      BY <2>1, <2>6 DEF Closed
    <2> QED  BY <2>4, <2>5, <2>7, <2>8
  <1>6. ASSUME NEW e \in Letter, Reads(e)
        PROVE  L1 /\ L2 /\ L3 /\ C1 /\ C2
    <2>1. UNCHANGED <<core, coreOpen>> /\ outer' = Append(outer, e) /\ e.t \in {"frame", "eof"}
      BY <1>6 DEF Reads
    <2>2. \A n \in DOMAIN outer' : \/ n \in DOMAIN outer /\ outer'[n] = outer[n]
                                   \/ outer'[n].t \notin {"line", "complete"}
      BY <1>0, <2>1, Elements
    <2>3. L1 /\ L3
      BY <2>1, <2>2 DEF LinesFirst
    <2>4. L2
      BY <2>2 DEF LinesFirst
    <2> QED  BY <2>1, <2>3, <2>4 DEF Closed
  <1>7. ASSUME NEW e \in Letter, CoreSays(e), e.t = "line"
        PROVE  L1 /\ L2 /\ L3 /\ C1 /\ C2
    <2>1. UNCHANGED coreOpen /\ outer' = Append(outer, e) /\ core.pc = "run" /\ core'.pc = "run"
      BY <1>7 DEF CoreSays
    <2>2. coreOpen /\ \A n \in DOMAIN outer : outer[n].t # "complete"
      BY <2>1 DEF Closed, LinesFirst
    <2>3. \A n \in DOMAIN outer' : outer'[n].t # "complete"
      BY <1>0, <1>7, <2>1, <2>2, Elements
    <2> QED  BY <2>1, <2>2, <2>3
  <1>8. ASSUME NEW e \in Letter, CoreSays(e), e.t = "complete"
        PROVE  L1 /\ L2 /\ L3 /\ C1 /\ C2
    <2>1. /\ UNCHANGED coreOpen /\ outer' = Append(outer, e) /\ core.pc = "returned" /\ core'.pc = "done"
          /\ core'.lines = core.lines /\ core'.stop = core.stop
      BY <1>8 DEF CoreSays
    <2>2. \A n \in DOMAIN outer : outer[n].t # "complete"
      BY <2>1 DEF LinesFirst
    <2>3. /\ DOMAIN outer' = 1..(Len(outer) + 1) /\ outer'[Len(outer) + 1] = e
          /\ \A n \in 1..Len(outer) : outer'[n] = outer[n]
      BY <1>0, <2>1, Grows
    <2>4. \A n \in DOMAIN outer' : \/ n \in DOMAIN outer /\ outer'[n] = outer[n]
                                   \/ n = Len(outer) + 1 /\ outer'[n] = e
      BY <1>0, <2>3
    <2>5. L2
      <3>1. \A m \in DOMAIN outer' : ~(Len(outer) + 1 < m)
        BY <1>0, <2>3
      <3> QED  BY <2>2, <2>4, <3>1
    <2>6. L3
      BY <1>8, <2>1, <2>4 DEF LinesFirst
    <2> QED  BY <2>1, <2>5, <2>6 DEF Closed
  <1>9. \A e : CoreSays(e) => e.t = "line" \/ e.t = "complete"
    BY DEF CoreSays
  <1> HIDE DEF L1, L2, L3, C1, C2
  <1> QED  BY <1>1, <1>2, <1>3, <1>4, <1>5, <1>6, <1>7, <1>8, <1>9, EndSteps

\* A core that is gone keeps nothing pending, but while the loop tries to
\* send to it.
LEMMA ClosedSteps ==
    ASSUME TypeOK, Shape, Ending, Closed, LinesFirst, [Next]_vars
    PROVE  Closed'
  <1>1. (core'.pc # "run" => core'.lines = <<>>) /\ (~coreOpen' => core'.pc # "run")
    BY LinesFirstSteps
  <1>2. GatesKept => (pending(barrier') <=> pending(barrier))
    BY DEF GatesKept, pending
  <1>3. ~coreOpen' /\ pc' # "send" => ~pending(barrier')
    <2>1. CASE RecvHello \/ RecvTurn
      BY <1>2, <2>1, HelloFacts, TurnFacts DEF Admits, Refuses, Closed, Takes
    <2>2. CASE RecvJobFrame \/ RecvControl \/ RecvEof
      BY <1>2, <2>2, JobFrameFacts, ControlFacts DEF Closed, Takes
    <2>3. CASE SendToCore
      BY <2>3, SendFacts DEF Closed
    <2>4. CASE SendFails \/ RecvCoreComplete
      BY <2>4, SendFailsFacts, CompleteFacts
    <2>5. CASE RecvCoreLine
      <3>1. pc = "recv" /\ UNCHANGED coreOpen /\ LineHandled(outer[1].k)
        BY <2>5, LineFacts DEF Takes
      <3>2. pending(barrier') => pending(barrier)
        BY <1>2, <3>1 DEF LineHandled, GatesFail, pending
      <3> QED  BY <3>1, <3>2 DEF Closed
    <2>6. CASE \/ RecvTimeout \/ Sample \/ FlushAction \/ FlushSummary \/ FlushSuppressed \/ FlushDone
               \/ (\E i \in Frame : poll_job_events(i)) \/ poll_job_waits \/ FinishRound
      BY <1>2, <2>6, TimeoutFacts, FlushActionFacts, FlushEndFacts, PollFacts, WaitFacts, FinishFacts DEF Closed
    <2>7. CASE Outside \/ UNCHANGED vars
      <3>1. UNCHANGED <<barrier, pc, coreOpen>>
        BY <2>7, OutsideFacts DEF vars, barrierVars, loopVars
      <3> QED  BY <3>1 DEF Closed
    <2> QED  BY <2>1, <2>2, <2>3, <2>4, <2>5, <2>6, <2>7, StepKinds
  <1>4. pending(barrier') <=> pending(barrier)'
    BY DEF pending
  <1> QED  BY <1>1, <1>3, <1>4 DEF Closed

Complete == TypeOK /\ Shape /\ Told /\ Round /\ Closed /\ Ending /\ LinesFirst /\ Returned

LEMMA CompleteInit == Init => Complete
  <1> SUFFICES ASSUME Init PROVE Complete
    OBVIOUS
  <1>1. /\ outer = <<>> /\ inner = <<>> /\ pc = "recv" /\ coreOpen = TRUE
        /\ core = [pc |-> "run", active |-> 0, input |-> TRUE, lines |-> <<>>, stop |-> "no"]
        /\ jobs = [i \in Frame |-> NoJob]
    BY DEF Init
  <1>2. TypeOK /\ Shape
    BY ReceivedInit DEF ReceivedInv
  <1>3. Told
    <2>1. /\ NoJob.told = 0 /\ NoJob.cursor = 0 /\ NoJob.events = 0 /\ NoJob.oldest = 0 /\ NoJob.gap = <<>>
      BY DEF NoJob
    <2>2. JobTold(NoJob)
      BY <2>1 DEF JobTold
    <2> QED  BY <1>1, <2>2 DEF Told
  <1>4. Round /\ Returned
    BY <1>1 DEF Round, Returned
  <1>5. Closed
    BY <1>1 DEF Closed
  <1>6. Ending /\ LinesFirst
    BY <1>1, NoElement DEF Ending, EofSent, LinesFirst
  <1> QED  BY <1>2, <1>3, <1>4, <1>5, <1>6 DEF Complete

LEMMA CompleteSteps == Complete /\ [Next]_vars => Complete'
  <1> SUFFICES ASSUME Complete, [Next]_vars PROVE Complete'
    OBVIOUS
  <1>0. TypeOK /\ Shape /\ Told /\ Round /\ Closed /\ Ending /\ LinesFirst /\ Returned
    BY DEF Complete
  <1>1. TypeOK' /\ Shape'
    BY <1>0, StepTypes, ShapeSteps
  <1>2. Told' /\ Round' /\ Returned'
    BY <1>0, ToldSteps, RoundSteps, ReturnedSteps
  <1>3. Closed' /\ Ending' /\ LinesFirst'
    BY <1>0, ClosedSteps, EndingSteps, LinesFirstSteps
  <1> QED  BY <1>1, <1>2, <1>3 DEF Complete

LEMMA CompleteReturn == Complete => ReturnIsComplete
  <1> SUFFICES ASSUME Complete, pc = "exit", attached
               PROVE  /\ \A i \in Frame : jobs[i].st \in {"none", "done"}
                                          /\ (jobs[i].told = jobs[i].events \/ jobs[i].down)
                      /\ barrier.deferred = <<>> /\ barrier.droppedJobs = {}
                      /\ release = NoRelease /\ waits = <<>> /\ remaining = <<>>
                      /\ core.stop = "no" => core.lines = <<>> /\ \A n \in DOMAIN outer : outer[n].t # "line"
    BY DEF ReturnIsComplete
  <1>1. /\ ~coreOpen /\ waits = <<>>
        /\ \A i \in Frame : jobs[i].st \in {"none", "done"} /\ Caught(i)
    BY DEF Complete, Returned
  <1>2. \A i \in Frame : jobs[i].st = "none" => jobs[i].told = jobs[i].events
    <2>1. \A i \in Frame : JobTold(jobs[i]) /\ jobs[i] \in JobState
      BY DEF Complete, Told, TypeOK
    <2>2. \A i \in Frame : jobs[i].cursor \in Nat
      BY <2>1 DEF JobState
    <2> QED  BY <2>1, <2>2 DEF JobTold
  <1>3. ~pending(barrier)
    BY <1>1 DEF Complete, Closed
  <1>4. barrier.deferred = <<>> /\ barrier.droppedJobs = {} /\ release = NoRelease /\ remaining = <<>>
    BY <1>3 DEF Complete, Shape
  <1>5. core.stop = "no" => core.lines = <<>> /\ \A n \in DOMAIN outer : outer[n].t # "line"
    BY <1>1 DEF Complete, Closed, LinesFirst
  <1> QED  BY <1>1, <1>2, <1>4, <1>5 DEF Caught

-----------------------------------------------------------------------------
(* Theorems *)

\* The state of process_job_host and of the threads around it keeps its types.
THEOREM TypesOK == Spec => []TypeOK
  <1>1. Init => TypeOK
    BY InitTypes
  <1>2. TypeOK /\ [Next]_vars => TypeOK'
    BY StepTypes
  <1> QED  BY <1>1, <1>2, PTL DEF Spec

\* What observe_turn_start promises, "a pipelined job request cannot let local
\* effects leapfrog turn.accepted": no job is touched before every hello and
\* turn.start that went to the core has had its own answer, and job requests
\* take effect in the order in which they were read.
THEOREM NothingLeapfrogs == Spec => []NoLeapfrog
  <1>1. Ordered => NoLeapfrog
    BY DEF Ordered
  <1> QED  BY <1>1, OrderedInit, OrderedSteps, PTL DEF Spec

\* Every job frame that process_job_host has taken from its channel is
\* deferred, waiting or answered, and in one place only, through
\* HelloJobBarrier, flush_barrier_release and poll_job_waits: no frame is
\* answered twice, and none is lost while the client is attached.
THEOREM EveryFrameAnswered == Spec => []AnsweredOnce
  <1>1. Placed => AnsweredOnce
    BY PlacedOnce
  <1> QED  BY <1>1, PlacedInit, PlacedSteps, PTL DEF Spec

\* The return at the end of process_job_host's loop leaves an attached client
\* nothing to learn: the sample of the live jobs before the poll, job_events_pending
\* and the order of the core's last messages make it so for any interleaving.
THEOREM ReturnsComplete == Spec => []ReturnIsComplete
  <1>1. Complete => ReturnIsComplete
    BY CompleteReturn
  <1> QED  BY <1>1, CompleteInit, CompleteSteps, PTL DEF Spec

=============================================================================
