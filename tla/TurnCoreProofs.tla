--------------------------- MODULE TurnCoreProofs ---------------------------
(***************************************************************************)
(* Proofs about TurnCore.  The properties speak of the journal across      *)
(* crashes; they hold because of what the three threads agree on in        *)
(* between: the core journals a turn before its worker exists, the worker  *)
(* waits for the receipt of its last event, a completion is the last thing *)
(* it sends, and the v7 host lets the next turn.start through only after   *)
(* the end of the turn before.  TurnInv states that agreement.             *)
(***************************************************************************)
EXTENDS TurnCore, FiniteSetTheorems, WellFoundedInduction, TLAPS

Events == {"TurnAccepted", "TurnTerminal", "model.delta", "tool.accepted", "tool.started",
           "tool.result"}

Statuses == {None, "completed", "cancelled", "provider_failed", "host_failed",
             "unknown_after_disconnect", "unknown_after_journal_failure"}

StoredKinds == {"turn.accepted", "model.delta", "tool.accepted", "tool.started", "tool.result",
                "turn.cancel.accepted", "tool.cancel.accepted", "turn.end"}

StoredFrames ==
    [turn : Turns, digest : Digests, kind : StoredKinds, status : Statuses, call : Nat, seq : Nat,
     id : Nat, life : Nat, sure : BOOLEAN]

Workers ==
    [turn : Turns \cup {None},
     pc : {"none", "unborn", "send", "wait", "provider", "spawn", "done", "exited"},
     ev : Events \cup {None}, n : Nat, calls : Nat, cancelled : BOOLEAN, result : Statuses]

Messages ==
    {[type |-> "turn.start", turn |-> m.turn, digest |-> m.digest] : m \in Requests}
        \cup Controls
        \cup {[type |-> "eof", turn |-> None]}
        \cup [type : {"event"}, turn : Turns, kind : Events, n : Nat, call : Nat]
        \cup [type : {"complete"}, turn : Turns, result : Statuses]

TurnTypes ==
    /\ log \in Seq(StoredFrames)
    /\ synced \in 0..Len(log)
    /\ disabled \in BOOLEAN
    /\ life \in Nat
    /\ starts \in Nat
    /\ queue \in Seq(Messages)
    /\ gate \in {"open", "pending", "active", "failed", "eof"}
    /\ inputOpen \in BOOLEAN
    /\ attached \in BOOLEAN
    /\ next \in [seq : Nat, ordinal : Nat]
    /\ active \in [turn : Turns, digest : Digests] \cup {None}
    /\ core \in [pc : {"loop", "joining", "polled"}, result : Statuses]
    /\ out \in Seq(StoredFrames \cup {Unscoped, Other})
    /\ worker \in Workers
    /\ runs \in [Turns -> Nat]
    /\ outcome \in [Turns -> Statuses]
    /\ ends \in [Turns -> SUBSET Statuses]

(***************************************************************************)
(* The journal                                                             *)
(***************************************************************************)

\* A frame append_durable has acknowledged is on stable storage.
SureIsSynced ==
    \A i \in 1..Len(log) : log[i].sure /\ Authority(log[i].kind) => i <= synced

\* The frames of a turn: one digest, growing host_seq, different ids, first
\* turn.accepted and nowhere else, nothing after turn.end.
LogShape ==
    /\ \A i, j \in 1..Len(log) : log[i].turn = log[j].turn /\ i < j =>
          /\ log[i].digest = log[j].digest
          /\ log[i].seq < log[j].seq
          /\ log[i].id # log[j].id
          /\ log[i].kind # "turn.end"
          /\ log[j].kind # "turn.accepted"
    /\ \A j \in 1..Len(log) : \E i \in 1..j :
          log[i].turn = log[j].turn /\ log[i].kind = "turn.accepted"

\* The turn is accepted on stable storage.
Accepted(t) ==
    \E i \in 1..synced : log[i].turn = t /\ log[i].kind = "turn.accepted"

\* The active turn has its acceptance stored and no end, and its cursors are
\* past what is stored.
ActiveIsStored ==
    active # None =>
        /\ Accepted(active.turn)
        /\ \A i \in 1..Len(log) : log[i].turn = active.turn =>
              /\ log[i].digest = active.digest
              /\ log[i].seq < next.seq
              /\ log[i].kind # "turn.end"

JournalInv == SureIsSynced /\ LogShape /\ ActiveIsStored

(***************************************************************************)
(* The threads                                                             *)
(***************************************************************************)

\* A worker exists for the active turn and for no other; without a process
\* there is nothing.
WorkerIsActive ==
    /\ active # None => life > 0 /\ worker.turn = active.turn /\ worker.pc # "none"
    /\ active = None => worker.pc = "none" /\ core.pc = "loop"
    /\ worker.pc \in {"send", "wait"} => worker.ev \in Events
    /\ worker.pc = "unborn" => worker.n = 0
    /\ life = 0 => active = None /\ queue = <<>> /\ out = <<>>

Has(i, type) == queue[i].type = type

\* The events in the queue are the active worker's, and only the last one it
\* sent can be the one it waits for.
EventsAreOwn ==
    \A i \in 1..Len(queue) : Has(i, "event") =>
        /\ active # None
        /\ core.pc = "loop"
        /\ queue[i].turn = worker.turn
        /\ queue[i].n <= worker.n
        /\ worker.pc = "send" => queue[i].n < worker.n
        /\ worker.pc = "wait" /\ queue[i].n = worker.n =>
              queue[i].kind = worker.ev /\ queue[i].call = worker.calls

\* A completion is the last message of its worker.  One that outlived its turn
\* is taken from the queue before the next turn.start.
CompletionsAreLast ==
    /\ \A i \in 1..Len(queue) : Has(i, "complete") =>
          /\ outcome[queue[i].turn] = queue[i].result
          /\ active # None =>
                queue[i].turn = active.turn /\ worker.pc = "exited" /\ core.pc # "joining"
          /\ \A j \in 1..Len(queue) : Has(j, "turn.start") => i < j
          /\ \A j \in 1..Len(queue) : Has(j, "event") => j < i
          /\ active # None => \A j \in 1..Len(queue) : Has(j, "complete") => i = j
    /\ core.pc \in {"joining", "polled"} => worker.pc \in {"done", "exited"} /\ out = <<>>
    /\ core.pc = "joining" => worker.pc = "exited" /\ core.result = outcome[active.turn]

\* observe_turn_start admits one turn at a time.
OneTurnAtATime ==
    /\ \A i \in 1..Len(queue) : Has(i, "turn.start") =>
          /\ active = None
          /\ gate \in {"pending", "failed", "eof"}
          /\ \A k \in 1..Len(out) : out[k].kind # "turn.accepted"
          /\ \A j \in 1..Len(queue) : Has(j, "turn.start") => i = j
    /\ gate = "open" => active = None /\ \A k \in 1..Len(out) : out[k].kind # "turn.accepted"
    /\ \A k \in 1..Len(out) : out[k].kind = "turn.end" =>
          /\ active = None
          /\ \A j \in k..Len(out) : out[j].kind # "turn.accepted"

ThreadInv == WorkerIsActive /\ EventsAreOwn /\ CompletionsAreLast /\ OneTurnAtATime

(***************************************************************************)
(* What the properties need                                                *)
(***************************************************************************)

Unasked == worker.pc = "unborn" \/ (worker.pc \in {"send", "wait"} /\ worker.ev = "TurnAccepted")

RunsInv ==
    /\ ProviderRunsOnce
    /\ \A t \in Turns : runs[t] > 0 => Accepted(t)
    /\ Unasked => runs[worker.turn] = 0

\* Call c of turn t in process l is accepted on stable storage.
CallAccepted(t, l, c) ==
    \E i, j \in DOMAIN log :
        /\ i < j /\ Synced(j)
        /\ log[i].kind = "turn.accepted" /\ log[i].turn = t
        /\ log[j].kind = "tool.accepted" /\ log[j].turn = t
        /\ log[j].call = c /\ log[j].life = l

EffectInv ==
    /\ EffectIsJournaled
    /\ worker.pc = "spawn" => CallAccepted(worker.turn, life, worker.calls)

EndStored(t, status) ==
    \E i \in DOMAIN log :
        Synced(i) /\ log[i].turn = t /\ log[i].kind = "turn.end" /\ log[i].status = status

\* The journaled ends that are still to be written.
EndsInHand ==
    \A k \in 1..Len(out) : out[k].kind = "turn.end" =>
        out[k].turn \in Turns /\ (out[k].sure => EndStored(out[k].turn, out[k].status))

EndsInv == ShownEndIsDurable /\ EndsInHand

TurnInv ==
    /\ TurnTypes /\ JournalInv /\ ThreadInv
    /\ RunsInv /\ EffectInv /\ EndsInv /\ EndIsOwn

(***************************************************************************)
(* append_frame and the loss of an unsynced tail                           *)
(***************************************************************************)

\* What every outcome of append_frame leaves: the log as it was, at most one
\* frame more, and the frame itself when the journal is still usable.
Appends(f) ==
    /\ disabled' \in BOOLEAN
    /\ log' \in Seq(StoredFrames)
    /\ Len(log') \in {Len(log), Len(log) + 1}
    /\ \A i \in 1..Len(log) : log'[i] = log[i]
    /\ synced' \in synced..Len(log')
    /\ Len(log') = Len(log) + 1 =>
         LET g == log'[Len(log) + 1]
         IN  /\ g.turn = f.turn /\ g.digest = f.digest /\ g.kind = f.kind /\ g.status = f.status
             /\ g.call = f.call /\ g.seq = f.seq /\ g.id = f.id /\ g.life = f.life
             /\ \A i \in 1..Len(log) : log[i].turn # f.turn \/ log[i].id # f.id
             /\ g.sure /\ Authority(f.kind) => synced' = Len(log) + 1
    /\ ~disabled' => \E i \in 1..Len(log') : log'[i] = f

LEMMA AppendFacts ==
    ASSUME TurnTypes, NEW f \in StoredFrames, AppendFrame(f)
    PROVE  Appends(f)
<1> DEFINE g == [f EXCEPT !.sure = FALSE]
<1>0. /\ log \in Seq(StoredFrames) /\ Len(log) \in Nat /\ synced \in 0..Len(log) /\ synced \in Nat
      /\ disabled \in BOOLEAN /\ DOMAIN log = 1..Len(log)
  BY DEF TurnTypes
<1>1. /\ g \in StoredFrames /\ g.turn = f.turn /\ g.digest = f.digest /\ g.kind = f.kind
      /\ g.status = f.status /\ g.call = f.call /\ g.seq = f.seq /\ g.id = f.id /\ g.life = f.life
      /\ g.sure = FALSE
  BY DEF StoredFrames
<1> HIDE DEF g
<1>2. ASSUME UNCHANGED <<log, synced>>, disabled' \in BOOLEAN,
             ~disabled' => \E i \in 1..Len(log) : log[i] = f
      PROVE  Appends(f)
  <2>0. log' = log /\ synced' = synced
    BY <1>2
  <2>1. Len(log) \in Nat
    BY <1>0
  <2>3. Len(log) # Len(log) + 1
    BY <2>1
  <2>4. Len(log') # Len(log) + 1
    BY <2>0, <2>3
  <2>5. synced' \in synced..Len(log')
    BY <1>0, <2>0
  <2>2. ~disabled' => \E i \in 1..Len(log') : log'[i] = f
    BY <1>2, <2>0
  <2> QED
    BY <1>0, <1>2, <2>0, <2>2, <2>4, <2>5 DEF Appends
<1>3. CASE disabled /\ UNCHANGED <<journalVars, faults>>
  BY <1>0, <1>2, <1>3 DEF journalVars
<1>4. CASE /\ disabled' = (\A i \in DOMAIN log : log[i] # f)
           /\ UNCHANGED <<log, synced, faults>>
  <2>1. disabled' \in BOOLEAN /\ (~disabled' => \E i \in 1..Len(log) : log[i] = f)
    BY <1>0, <1>4
  <2> QED
    BY <1>2, <1>4, <2>1
<1>5. ASSUME NEW h \in StoredFrames, log' = Append(log, h)
      PROVE  /\ log' \in Seq(StoredFrames) /\ Len(log') = Len(log) + 1
             /\ \A i \in 1..Len(log) : log'[i] = log[i]
             /\ log'[Len(log) + 1] = h
  BY <1>0, <1>5
<1>6. CASE /\ ~disabled
           /\ \A i \in DOMAIN log : log[i].turn # f.turn \/ log[i].id # f.id
           /\ log' = Append(log, f)
           /\ synced' = IF Authority(f.kind) THEN Len(log) + 1 ELSE synced
           /\ UNCHANGED <<disabled, faults>>
  <2>1. /\ log' \in Seq(StoredFrames) /\ Len(log') = Len(log) + 1
        /\ \A i \in 1..Len(log) : log'[i] = log[i]
        /\ log'[Len(log) + 1] = f
    BY <1>5, <1>6
  <2>2. synced' \in synced..Len(log') /\ Len(log) + 1 \in 1..Len(log')
    BY <1>0, <1>6, <2>1
  <2> QED
    BY <1>0, <1>6, <2>1, <2>2 DEF Appends
<1>7. CASE /\ ~disabled
           /\ \A i \in DOMAIN log : log[i].turn # f.turn \/ log[i].id # f.id
           /\ Fault
           /\ disabled' = TRUE
           /\ log' \in {log, Append(log, g)}
           /\ UNCHANGED synced
  <2>1. CASE log' = log
    BY <1>2, <1>7, <2>1
  <2>2. CASE log' = Append(log, g)
    <3>1. /\ log' \in Seq(StoredFrames) /\ Len(log') = Len(log) + 1
          /\ \A i \in 1..Len(log) : log'[i] = log[i]
          /\ log'[Len(log) + 1] = g
      BY <1>1, <1>5, <2>2
    <3>2. synced' \in synced..Len(log')
      BY <1>0, <1>7, <3>1
    <3> QED
      BY <1>0, <1>1, <1>7, <3>1, <3>2 DEF Appends
  <2> QED
    BY <1>7, <2>1, <2>2
<1> QED
  BY <1>3, <1>4, <1>6, <1>7 DEF AppendFrame, g

\* What is on stable storage stays there.
SyncedKept ==
    /\ synced' \in Nat /\ synced <= synced' /\ synced' <= Len(log')
    /\ \A i \in 1..synced : log'[i] = log[i]

LEMMA AppendKeepsSynced ==
    ASSUME TurnTypes, NEW f, Appends(f)
    PROVE  SyncedKept
<1>1. synced \in 0..Len(log) /\ Len(log) \in Nat /\ Len(log') \in Nat
  BY DEF TurnTypes, Appends
<1> QED
  BY <1>1 DEF Appends, SyncedKept

LEMMA LossKeepsSynced ==
    ASSUME TurnTypes, NEW k \in synced..Len(log), log' = SubSeq(log, 1, k), synced' = Len(log')
    PROVE  /\ SyncedKept /\ log' \in Seq(StoredFrames) /\ Len(log') = k /\ k <= Len(log)
           /\ \A i \in 1..k : log'[i] = log[i]
<1>1. synced \in 0..Len(log) /\ Len(log) \in Nat /\ synced \in Nat /\ log \in Seq(StoredFrames)
  BY DEF TurnTypes
<1>2. k \in Nat /\ k <= Len(log) /\ synced <= k
  BY <1>1
<1>3. log' \in Seq(StoredFrames) /\ Len(log') = k /\ \A i \in 1..k : log'[i] = log[i]
  BY <1>1, <1>2
<1> QED
  BY <1>1, <1>2, <1>3 DEF SyncedKept

LEMMA SameKeepsSynced ==
    ASSUME TurnTypes, UNCHANGED <<log, synced>>
    PROVE  SyncedKept
  BY DEF TurnTypes, SyncedKept

LEMMA AcceptedStays ==
    ASSUME TurnTypes, SyncedKept, NEW t, Accepted(t)
    PROVE  Accepted(t)'
<1>1. PICK i \in 1..synced : log[i].turn = t /\ log[i].kind = "turn.accepted"
  BY DEF Accepted
<1>2. i \in 1..synced' /\ log'[i] = log[i]
  BY <1>1 DEF SyncedKept, TurnTypes
<1> QED
  BY <1>1, <1>2 DEF Accepted

LEMMA CallAcceptedStays ==
    ASSUME TurnTypes, SyncedKept, log' \in Seq(StoredFrames), NEW t, NEW l, NEW c,
           CallAccepted(t, l, c)
    PROVE  CallAccepted(t, l, c)'
<1>1. PICK i, j \in DOMAIN log :
        /\ i < j /\ Synced(j)
        /\ log[i].kind = "turn.accepted" /\ log[i].turn = t
        /\ log[j].kind = "tool.accepted" /\ log[j].turn = t
        /\ log[j].call = c /\ log[j].life = l
  BY DEF CallAccepted
<1>2. i \in 1..synced /\ j \in 1..synced /\ synced \in Nat
  BY <1>1 DEF Synced, TurnTypes
<1>3. log'[i] = log[i] /\ log'[j] = log[j]
  BY <1>2 DEF SyncedKept
<1>4. i \in DOMAIN log' /\ j \in DOMAIN log' /\ j \in 1..synced'
  BY <1>2 DEF SyncedKept
<1> QED
  BY <1>1, <1>3, <1>4 DEF CallAccepted, Synced

LEMMA EndStoredStays ==
    ASSUME TurnTypes, SyncedKept, log' \in Seq(StoredFrames), NEW t, NEW status,
           EndStored(t, status)
    PROVE  EndStored(t, status)'
<1>1. PICK i \in DOMAIN log :
        Synced(i) /\ log[i].turn = t /\ log[i].kind = "turn.end" /\ log[i].status = status
  BY DEF EndStored
<1>2. i \in 1..synced /\ synced \in Nat
  BY <1>1 DEF Synced, TurnTypes
<1>3. log'[i] = log[i] /\ i \in DOMAIN log' /\ i \in 1..synced'
  BY <1>2 DEF SyncedKept
<1> QED
  BY <1>1, <1>3 DEF EndStored, Synced

\* A frame that follows on from what is stored of its turn keeps the log's shape.
Follows(f) ==
    /\ \A i \in 1..Len(log) : log[i].turn = f.turn =>
          log[i].digest = f.digest /\ log[i].seq < f.seq /\ log[i].kind # "turn.end"
    /\ f.kind = "turn.accepted" => \A i \in 1..Len(log) : log[i].turn # f.turn
    /\ f.kind # "turn.accepted" => \E i \in 1..Len(log) : log[i].turn = f.turn

LEMMA AppendKeepsShape ==
    ASSUME TurnTypes, SureIsSynced, LogShape, NEW f \in StoredFrames, Appends(f), Follows(f)
    PROVE  SureIsSynced' /\ LogShape'
<1>0. Len(log) \in Nat /\ Len(log') \in Nat /\ synced \in Nat /\ synced' \in Nat /\ synced <= synced'
  BY DEF TurnTypes, Appends
<1>1. CASE Len(log') = Len(log)
  <2>1. \A i \in 1..Len(log') : i \in 1..Len(log) /\ log'[i] = log[i]
    BY <1>1 DEF Appends
  <2>2. SureIsSynced'
    BY <1>0, <2>1 DEF SureIsSynced
  <2>3. LogShape'
    <3>1. \A j \in 1..Len(log') : \A i \in 1..j : i \in 1..Len(log')
      BY <1>0
    <3>2. \A j \in 1..Len(log') : \E i \in 1..j :
             log'[i].turn = log'[j].turn /\ log'[i].kind = "turn.accepted"
      <4> TAKE j \in 1..Len(log')
      <4>1. PICK i \in 1..j : log[i].turn = log[j].turn /\ log[i].kind = "turn.accepted"
        BY <2>1 DEF LogShape
      <4>2. log'[i] = log[i] /\ log'[j] = log[j]
        BY <2>1, <3>1
      <4> QED
        BY <4>1, <4>2
    <3>3. \A i, j \in 1..Len(log') : log'[i].turn = log'[j].turn /\ i < j =>
             /\ log'[i].digest = log'[j].digest
             /\ log'[i].seq < log'[j].seq
             /\ log'[i].id # log'[j].id
             /\ log'[i].kind # "turn.end"
             /\ log'[j].kind # "turn.accepted"
      BY <2>1 DEF LogShape
    <3> QED
      BY <3>2, <3>3 DEF LogShape
  <2> QED
    BY <2>2, <2>3
<1>2. CASE Len(log') = Len(log) + 1
  <2> DEFINE m == Len(log) + 1
             g == log'[m]
  <2>1. /\ g.turn = f.turn /\ g.digest = f.digest /\ g.kind = f.kind /\ g.seq = f.seq /\ g.id = f.id
        /\ \A i \in 1..Len(log) : log[i].turn # f.turn \/ log[i].id # f.id
        /\ g.sure /\ Authority(f.kind) => synced' = m
    BY <1>2 DEF Appends
  <2>2. \A i \in 1..Len(log') : i = m \/ (i \in 1..Len(log) /\ log'[i] = log[i])
    BY <1>0, <1>2 DEF Appends
  <2> HIDE DEF g
  <2>3. SureIsSynced'
    <3>1. ASSUME NEW i \in 1..Len(log'), log'[i].sure, Authority(log'[i].kind) PROVE i <= synced'
      <4>1. CASE i = m
        BY <1>0, <2>1, <3>1, <4>1 DEF g
      <4>2. CASE i \in 1..Len(log) /\ log'[i] = log[i]
        BY <1>0, <3>1, <4>2 DEF SureIsSynced
      <4> QED
        BY <2>2, <4>1, <4>2
    <3> QED
      BY <3>1 DEF SureIsSynced
  <2>4. ASSUME NEW i \in 1..Len(log'), NEW j \in 1..Len(log'), log'[i].turn = log'[j].turn, i < j
        PROVE  /\ log'[i].digest = log'[j].digest
               /\ log'[i].seq < log'[j].seq
               /\ log'[i].id # log'[j].id
               /\ log'[i].kind # "turn.end"
               /\ log'[j].kind # "turn.accepted"
    <3>1. i \in 1..Len(log) /\ log'[i] = log[i]
      BY <1>0, <1>2, <2>2, <2>4
    <3>2. CASE j = m
      BY <2>1, <2>4, <3>1, <3>2 DEF g, Follows
    <3>3. CASE j \in 1..Len(log) /\ log'[j] = log[j]
      BY <2>4, <3>1, <3>3 DEF LogShape
    <3> QED
      BY <2>2, <3>2, <3>3
  <2>5. ASSUME NEW j \in 1..Len(log')
        PROVE  \E i \in 1..j : log'[i].turn = log'[j].turn /\ log'[i].kind = "turn.accepted"
    <3>1. ASSUME NEW k \in 1..Len(log)
          PROVE  \E i \in 1..k : log'[i].turn = log[k].turn /\ log'[i].kind = "turn.accepted"
      <4>1. PICK i \in 1..k : log[i].turn = log[k].turn /\ log[i].kind = "turn.accepted"
        BY DEF LogShape
      <4>2. log'[i] = log[i]
        BY <1>0, <4>1 DEF Appends
      <4> QED
        BY <4>1, <4>2
    <3>2. CASE j \in 1..Len(log) /\ log'[j] = log[j]
      BY <3>1, <3>2
    <3>3. CASE j = m /\ f.kind = "turn.accepted"
      BY <1>0, <2>1, <3>3 DEF g
    <3>4. CASE j = m /\ f.kind # "turn.accepted"
      <4>1. PICK k \in 1..Len(log) : log[k].turn = f.turn
        BY <3>4 DEF Follows
      <4>2. PICK i \in 1..k : log'[i].turn = log[k].turn /\ log'[i].kind = "turn.accepted"
        BY <3>1, <4>1
      <4>3. i \in 1..j
        BY <1>0, <3>4, <4>2
      <4> QED
        BY <2>1, <3>4, <4>1, <4>2, <4>3 DEF g
    <3> QED
      BY <2>2, <3>2, <3>3, <3>4
  <2>6. LogShape'
    BY <2>4, <2>5 DEF LogShape
  <2> QED
    BY <2>3, <2>6
<1> QED
  BY <1>1, <1>2 DEF Appends

\* A prefix that holds what was synced keeps it too.
LEMMA LossKeepsShape ==
    ASSUME TurnTypes, SureIsSynced, LogShape,
           NEW k \in synced..Len(log), log' = SubSeq(log, 1, k), synced' = Len(log')
    PROVE  SureIsSynced' /\ LogShape'
<1>1. /\ Len(log') = k /\ k \in Nat /\ k <= Len(log) /\ Len(log) \in Nat
      /\ \A i \in 1..k : log'[i] = log[i] /\ i \in 1..Len(log)
  BY LossKeepsSynced DEF TurnTypes
<1>2. SureIsSynced'
  BY <1>1 DEF SureIsSynced
<1>3. \A j \in 1..k : \A i \in 1..j : i \in 1..k
  BY <1>1
<1>4. LogShape'
  BY <1>1, <1>3 DEF LogShape
<1> QED
  BY <1>2, <1>4

(***************************************************************************)
(* What load and observe_replay find                                       *)
(***************************************************************************)

LEMMA LastOf ==
    ASSUME NEW n \in Nat, NEW S, S \subseteq 1..n, S # {}
    PROVE  \E m \in S : \A i \in S : i <= m
<1> DEFINE R == OpToRel(<, Nat)
           T == {n - i : i \in S}
<1>1. IsWellFoundedOn(R, Nat)
  BY NatLessThanWellFounded, Zenon
<1>2. T \subseteq Nat /\ T # {}
  <2>1. \A i \in S : n - i \in Nat
    OBVIOUS
  <2> QED
    BY <2>1
<1>3. \A x, y \in Nat : x < y => <<x, y>> \in R
  BY DEF OpToRel
<1> HIDE DEF R
<1>4. PICK x \in T : \A y \in T : ~ (<<y, x>> \in R)
  BY <1>1, <1>2, WFMin
<1>5. PICK m \in S : x = n - m
  OBVIOUS
<1>6. ASSUME NEW i \in S PROVE i <= m
  <2>1. n - i \in T /\ n - i \in Nat /\ n - m \in Nat
    BY <1>2, <1>5
  <2>2. ~ (n - i < n - m)
    BY <1>3, <1>4, <1>5, <2>1
  <2> QED
    BY <2>2
<1> QED
  BY <1>6

\* The next position is a natural number past every stored host_seq of the turn.
LEMMA ReplayPosition ==
    ASSUME TurnTypes, LogShape, NEW t, Records(t) # {}
    PROVE  /\ ObserveReplay(Records(t)) \in [seq : Nat, ordinal : Nat]
           /\ \A i \in Records(t) : log[i].seq < ObserveReplay(Records(t)).seq
<1> DEFINE recs == Records(t)
           seqs == {log[i].seq : i \in recs}
           s == CHOOSE x \in seqs : \A i \in recs : log[i].seq <= x
<1>1. recs \subseteq 1..Len(log) /\ Len(log) \in Nat
  BY DEF Records, TurnTypes
<1>2. \A i \in recs : log[i].seq \in Nat /\ log[i].turn = t
  <2>1. \A i \in recs : log[i] \in StoredFrames /\ log[i].turn = t
    BY <1>1 DEF Records, TurnTypes
  <2>2. \A f \in StoredFrames : f.seq \in Nat
    BY DEF StoredFrames
  <2> QED
    BY <2>1, <2>2
<1>3. Cardinality(recs) \in Nat
  <2>1. IsFiniteSet(1..Len(log))
    BY <1>1, FS_Interval
  <2>2. IsFiniteSet(recs)
    BY <1>1, <2>1, FS_Subset, Zenon
  <2> QED
    BY <2>2, FS_CardinalityType, Zenon
<1>4. PICK m \in recs : \A i \in recs : i <= m
  BY <1>1, LastOf
<1>5. \A i \in recs : log[i].seq <= log[m].seq
  <2>1. ASSUME NEW i \in recs PROVE log[i].seq <= log[m].seq
    <3>1. CASE i = m
      BY <1>2, <3>1
    <3>2. CASE i < m
      <4>1. i \in 1..Len(log) /\ m \in 1..Len(log) /\ log[i].turn = log[m].turn
        BY <1>1, <1>2
      <4>2. log[i].seq < log[m].seq
        BY <3>2, <4>1 DEF LogShape
      <4>3. log[i].seq \in Nat /\ log[m].seq \in Nat
        BY <1>2
      <4> QED
        BY <4>2, <4>3
    <3> QED
      BY <1>1, <1>4, <3>1, <3>2
  <2> QED
    BY <2>1
<1>6. log[m].seq \in seqs
  OBVIOUS
<1>7. s \in seqs /\ \A i \in recs : log[i].seq <= s
  <2> HIDE DEF seqs, recs
  <2> QED
    BY <1>5, <1>6
<1>8. s \in Nat
  BY <1>2, <1>7
<1>9. ObserveReplay(recs) = [seq |-> 1 + s, ordinal |-> Cardinality(recs)]
  BY DEF ObserveReplay
<1> HIDE DEF s, recs, seqs
<1>10. ObserveReplay(recs) \in [seq : Nat, ordinal : Nat] /\ ObserveReplay(recs).seq = 1 + s
  BY <1>3, <1>8, <1>9
<1>11. \A i \in recs : log[i].seq < ObserveReplay(recs).seq
  BY <1>2, <1>7, <1>8, <1>10
<1> QED
  BY <1>10, <1>11 DEF recs

\* What the answers of load say of the stored frames.
LEMMA LoadFacts ==
    ASSUME TurnTypes, NEW t, NEW d
    PROVE  /\ Load(t, d) = "empty" => \A i \in 1..Len(log) : log[i].turn # t
           /\ Load(t, d) \in {"complete", "incomplete"} =>
                 Records(t) # {} /\ \A i \in 1..Len(log) : log[i].turn = t => log[i].digest = d
           /\ Load(t, d) = "incomplete" =>
                 \A i \in 1..Len(log) : log[i].turn = t => log[i].kind # "turn.end"
<1>1. DOMAIN log = 1..Len(log)
  BY DEF TurnTypes
<1>2. \A i \in 1..Len(log) : log[i].turn = t => i \in Records(t)
  BY <1>1 DEF Records
<1> QED
  BY <1>2 DEF Load

(***************************************************************************)
(* Messages, frames and the worker's next step                             *)
(***************************************************************************)

LEMMA MessageFacts ==
    ASSUME NEW m \in Messages
    PROVE  /\ m.type \in {"turn.start", "plain", "refused", "turn.cancel", "tool.cancel", "eof",
                          "event", "complete"}
           /\ m.type = "turn.start" =>
                 m.turn \in Turns /\ m.digest \in Digests
                   /\ [turn |-> m.turn, digest |-> m.digest] # None
           /\ m.type = "event" => m.turn \in Turns /\ m.kind \in Events /\ m.n \in Nat /\ m.call \in Nat
           /\ m.type = "complete" => m.turn \in Turns /\ m.result \in Statuses
<1>1. CASE m \in {[type |-> "turn.start", turn |-> r.turn, digest |-> r.digest] : r \in Requests}
  <2>1. PICK r \in Requests : m = [type |-> "turn.start", turn |-> r.turn, digest |-> r.digest]
    BY <1>1
  <2>2. r \in [turn : Turns, digest : Digests] /\ r # None
    BY TurnCoreAssumption
  <2>3. r = [turn |-> m.turn, digest |-> m.digest]
    BY <2>1, <2>2
  <2>4. m.type = "turn.start" /\ m.turn \in Turns /\ m.digest \in Digests
    BY <2>1, <2>2
  <2> QED
    BY <2>2, <2>3, <2>4
<1>2. CASE m \in Controls
  BY <1>2, TurnCoreAssumption
<1>3. CASE m \in {[type |-> "eof", turn |-> None]}
  BY <1>3
<1>4. CASE m \in [type : {"event"}, turn : Turns, kind : Events, n : Nat, call : Nat]
  BY <1>4
<1>5. CASE m \in [type : {"complete"}, turn : Turns, result : Statuses]
  BY <1>5
<1> QED
  BY <1>1, <1>2, <1>3, <1>4, <1>5 DEF Messages

\* The frames a handler writes are all its frames or none.
LEMMA WriteFacts ==
    ASSUME NEW frames, Write(frames)
    PROVE  out' = <<>> \/ out' = frames
  BY DEF Write

LEMMA EmitFacts ==
    ASSUME NEW w \in Workers, NEW ev \in Events
    PROVE  LET r == Emit(w, ev)
           IN  /\ r \in Workers /\ r.turn = w.turn /\ r.calls = w.calls /\ r.cancelled = w.cancelled
               /\ r.pc = "send" /\ r.n = w.n + 1 /\ r.ev = ev /\ r.result = w.result
<1>1. w.n + 1 \in Nat
  BY DEF Workers
<1> DEFINE n == w.n + 1
<1>2. Emit(w, ev) = [w EXCEPT !.pc = "send", !.ev = ev, !.n = n]
  BY DEF Emit, Workers
<1> HIDE DEF n
<1>3. n \in Nat
  BY <1>1 DEF n
<1> QED
  BY <1>2, <1>3 DEF Workers, n

\* How the worker goes on after push_event.
LEMMA ResumeFacts ==
    ASSUME NEW w \in Workers, w.ev \in Events, NEW ok \in BOOLEAN
    PROVE  LET r == Resume(w, ok)
           IN  /\ r \in Workers /\ r.turn = w.turn /\ r.calls = w.calls /\ r.cancelled = w.cancelled
               /\ r.pc \in {"provider", "done", "send", "spawn"}
               /\ r.pc # "send" => r.n = w.n /\ r.ev = w.ev
               /\ r.pc = "send" => r.n = w.n + 1 /\ r.ev \in {"TurnTerminal", "tool.result"}
               /\ r.pc = "spawn" => w.ev = "tool.accepted" /\ ok
<1> DEFINE Good(r) ==
        /\ r \in Workers /\ r.turn = w.turn /\ r.calls = w.calls /\ r.cancelled = w.cancelled
        /\ r.pc \in {"provider", "done", "send", "spawn"}
        /\ r.pc # "send" => r.n = w.n /\ r.ev = w.ev
        /\ r.pc = "send" => r.n = w.n + 1 /\ r.ev \in {"TurnTerminal", "tool.result"}
        /\ r.pc = "spawn" => w.ev = "tool.accepted" /\ ok
<1>1. Good([w EXCEPT !.pc = "provider"])
  BY DEF Workers
<1>2. w.ev = "tool.accepted" /\ ok => Good([w EXCEPT !.pc = "spawn"])
  BY DEF Workers
<1>3. \A result \in Statuses : Good(Conclude(w, result))
  BY DEF Workers, Conclude
<1>4. ASSUME NEW result \in Statuses PROVE Good(Terminal(w, result))
  <2> DEFINE u == [w EXCEPT !.result = result]
  <2>1. /\ u \in Workers /\ u.turn = w.turn /\ u.calls = w.calls /\ u.cancelled = w.cancelled
        /\ u.n = w.n
    BY DEF Workers
  <2>2. Terminal(w, result) = Emit(u, "TurnTerminal") /\ "TurnTerminal" \in Events
    BY DEF Terminal, Events
  <2> HIDE DEF u
  <2> QED
    BY <2>1, <2>2, EmitFacts
<1>5. Good(Emit(w, "tool.result"))
  BY EmitFacts DEF Events
<1>6. {"host_failed", "cancelled", "provider_failed", w.result} \subseteq Statuses
  BY DEF Statuses, Workers
<1> HIDE DEF Good
<1>7. Good(Resume(w, ok))
  <2>1. CASE w.ev = "TurnAccepted"
    BY <2>1, <1>1, <1>3, <1>4, <1>6 DEF Resume
  <2>2. CASE w.ev = "TurnTerminal"
    BY <2>2, <1>3, <1>6 DEF Resume
  <2>3. CASE w.ev = "model.delta"
    BY <2>3, <1>1, <1>4, <1>6 DEF Resume
  <2>4. CASE w.ev = "tool.accepted"
    BY <2>4, <1>1, <1>2 DEF Resume
  <2>5. CASE w.ev = "tool.started"
    BY <2>5, <1>1, <1>5 DEF Resume
  <2>6. CASE w.ev = "tool.result"
    BY <2>6, <1>1 DEF Resume
  <2> QED
    BY <2>1, <2>2, <2>3, <2>4, <2>5, <2>6 DEF Events
<1> QED
  BY <1>7 DEF Good

(***************************************************************************)
(* What a step keeps                                                       *)
(***************************************************************************)

\* What every step makes of the journal.
JournalStep ==
    /\ SyncedKept
    /\ log' \in Seq(StoredFrames)
    /\ synced' \in 0..Len(log')
    /\ SureIsSynced' /\ LogShape' /\ EndIsOwn'

LEMMA SameJournal ==
    ASSUME TurnInv, UNCHANGED <<log, synced, outcome>>
    PROVE  JournalStep
<1>1. SyncedKept
  BY SameKeepsSynced DEF TurnInv
<1> QED
  BY <1>1 DEF JournalStep, TurnInv, TurnTypes, JournalInv, SureIsSynced, LogShape, EndIsOwn

\* A status that reports what the provider did.
Reports(status) == status \in {"completed", "cancelled", "provider_failed"}

LEMMA AppendKeeps ==
    ASSUME TurnInv, NEW f \in StoredFrames, AppendFrame(f), Follows(f), UNCHANGED outcome,
           f.kind = "turn.end" /\ Reports(f.status) => outcome[f.turn] = f.status
    PROVE  /\ JournalStep
           /\ disabled' \in BOOLEAN
           /\ \A i \in 1..Len(log') :
                 \/ i \in 1..Len(log) /\ log'[i] = log[i]
                 \/ /\ log'[i].turn = f.turn /\ log'[i].digest = f.digest
                    /\ log'[i].kind = f.kind /\ log'[i].seq = f.seq
           /\ ~disabled' => \E i \in 1..Len(log') :
                 log'[i] = f /\ (f.sure /\ Authority(f.kind) => i <= synced')
<1> USE DEF TurnInv
<1>1. Appends(f)
  BY AppendFacts
<1>2. SyncedKept
  BY <1>1, AppendKeepsSynced
<1>3. SureIsSynced' /\ LogShape'
  BY <1>1, AppendKeepsShape DEF JournalInv
<1>4. /\ Len(log) \in Nat /\ Len(log') \in Nat /\ log \in Seq(StoredFrames) /\ log' \in Seq(StoredFrames)
      /\ synced \in 0..Len(log) /\ synced' \in synced..Len(log') /\ synced' \in 0..Len(log')
  BY <1>1 DEF TurnTypes, Appends
<1>5. \A i \in 1..Len(log') :
         \/ i \in 1..Len(log) /\ log'[i] = log[i]
         \/ /\ log'[i].turn = f.turn /\ log'[i].digest = f.digest
            /\ log'[i].kind = f.kind /\ log'[i].seq = f.seq /\ log'[i].status = f.status
  <2>1. ASSUME NEW i \in 1..Len(log'), i \notin 1..Len(log)
        PROVE  Len(log') = Len(log) + 1 /\ i = Len(log) + 1
    BY <1>1, <1>4, <2>1 DEF Appends
  <2> QED
    BY <1>1, <2>1 DEF Appends
<1>6. EndIsOwn'
  <2>1. DOMAIN log' = 1..Len(log') /\ DOMAIN log = 1..Len(log)
    BY <1>4
  <2> QED
    BY <1>5, <2>1 DEF EndIsOwn, Reports
<1>7. ~disabled' => \E i \in 1..Len(log') :
         log'[i] = f /\ (f.sure /\ Authority(f.kind) => i <= synced')
  BY <1>1, <1>3 DEF Appends, SureIsSynced
<1>8. disabled' \in BOOLEAN
  BY <1>1 DEF Appends
<1>9. JournalStep
  BY <1>2, <1>3, <1>4, <1>6 DEF JournalStep
<1> QED
  BY <1>5, <1>7, <1>8, <1>9

LEMMA RunsStay ==
    ASSUME TurnInv, JournalStep, UNCHANGED runs,
           Unasked' => Unasked /\ worker'.turn = worker.turn
    PROVE  RunsInv'
<1>1. \A t \in Turns : runs[t] > 0 => Accepted(t)'
  BY AcceptedStays DEF TurnInv, RunsInv, JournalStep
<1>2. ProviderRunsOnce'
  BY DEF TurnInv, RunsInv, ProviderRunsOnce
<1>3. Unasked' => runs'[worker'.turn] = 0
  BY DEF TurnInv, RunsInv
<1> QED
  BY <1>1, <1>2, <1>3 DEF RunsInv

LEMMA JournaledStays ==
    ASSUME TurnInv, JournalStep
    PROVE  \A t, l, c : CallAccepted(t, l, c) => CallAccepted(t, l, c)'
  BY CallAcceptedStays DEF TurnInv, JournalStep

LEMMA EffectsStay ==
    ASSUME TurnInv, JournalStep, UNCHANGED effects,
           worker'.pc = "spawn" =>
              /\ worker.pc = "spawn" /\ worker'.turn = worker.turn /\ worker'.calls = worker.calls
              /\ life' = life
    PROVE  EffectInv'
<1>1. \A e \in effects : CallAccepted(e.turn, e.life, e.call)
  BY DEF TurnInv, EffectInv, EffectIsJournaled, CallAccepted
<1>2. \A e \in effects' : CallAccepted(e.turn, e.life, e.call)'
  BY <1>1, JournaledStays
<1>3. EffectIsJournaled'
  BY <1>2 DEF EffectIsJournaled, CallAccepted
<1>4. ASSUME worker'.pc = "spawn" PROVE CallAccepted(worker.turn, life, worker.calls)'
  <2>1. PICK t, l, c : t = worker.turn /\ l = life /\ c = worker.calls
    OBVIOUS
  <2>2. CallAccepted(t, l, c)
    BY <1>4, <2>1 DEF TurnInv, EffectInv
  <2>3. CallAccepted(t, l, c)'
    BY <2>2, JournaledStays
  <2>4. t = worker'.turn /\ l = life' /\ c = worker'.calls
    BY <1>4, <2>1
  <2> QED
    BY <2>3, <2>4 DEF CallAccepted
<1> QED
  BY <1>3, <1>4 DEF EffectInv

LEMMA StoredEndsStay ==
    ASSUME TurnInv, JournalStep
    PROVE  \A t, status : EndStored(t, status) => EndStored(t, status)'
  BY EndStoredStays DEF TurnInv, JournalStep

LEMMA EndsStay ==
    ASSUME TurnInv, JournalStep, UNCHANGED ends, EndsInHand'
    PROVE  EndsInv'
<1>1. \A t \in Turns : \A status \in ends[t] : EndStored(t, status)
  BY DEF TurnInv, EndsInv, ShownEndIsDurable, EndStored
<1>2. \A t \in Turns : \A status \in ends'[t] : EndStored(t, status)'
  BY <1>1, StoredEndsStay
<1>3. ShownEndIsDurable'
  BY <1>2 DEF ShownEndIsDurable, EndStored
<1> QED
  BY <1>3 DEF EndsInv

\* The queue is the same or has lost its head.
Drops(k) ==
    \A i \in 1..Len(queue') : i + k \in 1..Len(queue) /\ queue'[i] = queue[i + k]

\* The worker is the same but for its flag, or has gone on in its turn.
Goes ==
    /\ worker'.turn = worker.turn
    /\ worker'.pc = "none" <=> worker.pc = "none"
    /\ worker'.pc = "unborn" => worker'.n = 0
    /\ worker.n <= worker'.n
    /\ worker'.pc = "send" => worker.n < worker'.n \/ (worker.pc = "send" /\ worker'.n = worker.n)
    /\ worker'.pc = "wait" => /\ worker.pc = "wait" /\ worker'.n = worker.n
                              /\ worker'.ev = worker.ev /\ worker'.calls = worker.calls
    /\ worker'.pc \in {"send", "wait"} => worker'.ev \in Events
    /\ worker.pc = "exited" => worker'.pc = "exited"
    /\ worker.pc = "done" => worker'.pc \in {"done", "exited"}

\* What the core may have to write.
Writes ==
    /\ \A k \in 1..Len(out') : out'[k].kind = "turn.accepted" =>
          gate' # "open" /\ \A i \in 1..Len(queue') : queue'[i].type # "turn.start"
    /\ \A k \in 1..Len(out') : out'[k].kind = "turn.end" =>
          active' = None /\ \A j \in k..Len(out') : out'[j].kind # "turn.accepted"
    /\ life' = 0 \/ core'.pc # "loop" => out' = <<>>

LEMMA ThreadsStay ==
    ASSUME TurnTypes, TurnTypes', ThreadInv, NEW k \in {0, 1}, Drops(k), Goes, Writes,
           UNCHANGED <<active, core, gate, outcome, life>>
    PROVE  ThreadInv'
<1>0. /\ Len(queue) \in Nat /\ Len(queue') \in Nat
      /\ queue \in Seq(Messages) /\ queue' \in Seq(Messages)
      /\ worker.n \in Nat /\ worker'.n \in Nat
  <2>1. worker \in Workers /\ worker' \in Workers
    BY DEF TurnTypes
  <2>2. queue \in Seq(Messages) /\ queue' \in Seq(Messages)
    BY DEF TurnTypes
  <2>3. worker.n \in Nat /\ worker'.n \in Nat
    BY <2>1 DEF Workers
  <2> QED
    BY <2>2, <2>3
<1>1. \A i \in 1..Len(queue') : /\ i + k \in 1..Len(queue) /\ queue'[i] = queue[i + k]
                                /\ queue[i + k] \in Messages
  BY <1>0 DEF Drops
<1>2. WorkerIsActive'
  <2>1. life = 0 => queue' = <<>>
    <3>1. life = 0 => Len(queue) = 0
      BY DEF ThreadInv, WorkerIsActive
    <3>2. Len(queue) = 0 => Len(queue') = 0
      <4>1. Len(queue') # 0 => 1 \in 1..Len(queue')
        BY <1>0
      <4>2. Len(queue') # 0 => 1 + k \in 1..Len(queue)
        BY <1>1, <4>1
      <4> QED
        BY <1>0, <4>2
    <3> QED
      BY <1>0, <3>1, <3>2
  <2> QED
    BY <2>1 DEF ThreadInv, WorkerIsActive, Goes, Writes
<1>3. EventsAreOwn'
  <2>1. ASSUME NEW i \in 1..Len(queue'), queue'[i].type = "event"
        PROVE  /\ active' # None
               /\ core'.pc = "loop"
               /\ queue'[i].turn = worker'.turn
               /\ queue'[i].n <= worker'.n
               /\ worker'.pc = "send" => queue'[i].n < worker'.n
               /\ worker'.pc = "wait" /\ queue'[i].n = worker'.n =>
                     queue'[i].kind = worker'.ev /\ queue'[i].call = worker'.calls
    <3> DEFINE q == queue[i + k]
    <3>1. q = queue'[i] /\ q \in Messages
      BY <1>1
    <3>2. q.n \in Nat
      BY <2>1, <3>1, MessageFacts
    <3>3. /\ active # None
          /\ core.pc = "loop"
          /\ q.turn = worker.turn
          /\ q.n <= worker.n
          /\ worker.pc = "send" => q.n < worker.n
          /\ worker.pc = "wait" /\ q.n = worker.n => q.kind = worker.ev /\ q.call = worker.calls
      BY <1>1, <2>1 DEF ThreadInv, EventsAreOwn, Has
    <3> HIDE DEF q
    <3> QED
      BY <1>0, <3>1, <3>2, <3>3 DEF Goes
  <2> QED
    BY <2>1 DEF EventsAreOwn, Has
<1>4. CompletionsAreLast'
  <2>1. ASSUME NEW i \in 1..Len(queue'), queue'[i].type = "complete"
        PROVE  /\ outcome'[queue'[i].turn] = queue'[i].result
               /\ active' # None =>
                     queue'[i].turn = active'.turn /\ worker'.pc = "exited" /\ core'.pc # "joining"
               /\ \A j \in 1..Len(queue') : queue'[j].type = "turn.start" => i < j
               /\ \A j \in 1..Len(queue') : queue'[j].type = "event" => j < i
               /\ active' # None => \A j \in 1..Len(queue') : queue'[j].type = "complete" => i = j
    <3>1. /\ outcome[queue[i + k].turn] = queue[i + k].result
          /\ active # None =>
                queue[i + k].turn = active.turn /\ worker.pc = "exited" /\ core.pc # "joining"
          /\ \A j \in 1..Len(queue) : queue[j].type = "turn.start" => i + k < j
          /\ \A j \in 1..Len(queue) : queue[j].type = "event" => j < i + k
          /\ active # None => \A j \in 1..Len(queue) : queue[j].type = "complete" => i + k = j
      BY <1>1, <2>1 DEF ThreadInv, CompletionsAreLast, Has
    <3>2. \A j \in 1..Len(queue') : queue'[j].type = "turn.start" => i + k < j + k
      BY <1>1, <3>1
    <3>3. \A j \in 1..Len(queue') : queue'[j].type = "event" => j + k < i + k
      BY <1>1, <3>1
    <3>4. active # None => \A j \in 1..Len(queue') : queue'[j].type = "complete" => i + k = j + k
      BY <1>1, <3>1
    <3>5. \A j \in 1..Len(queue') : /\ i + k < j + k => i < j
                                    /\ j + k < i + k => j < i
                                    /\ i + k = j + k => i = j
      BY <1>0
    <3> QED
      BY <1>1, <3>1, <3>2, <3>3, <3>4, <3>5 DEF Goes
  <2>2. core'.pc \in {"joining", "polled"} => worker'.pc \in {"done", "exited"} /\ out' = <<>>
    BY DEF ThreadInv, CompletionsAreLast, Goes, Writes
  <2>3. core'.pc = "joining" => worker'.pc = "exited" /\ core'.result = outcome'[active'.turn]
    BY DEF ThreadInv, CompletionsAreLast, Goes
  <2> QED
    BY <2>1, <2>2, <2>3 DEF CompletionsAreLast, Has
<1>5. OneTurnAtATime'
  <2>1. ASSUME NEW i \in 1..Len(queue'), queue'[i].type = "turn.start"
        PROVE  /\ active' = None
               /\ gate' \in {"pending", "failed", "eof"}
               /\ \A j \in 1..Len(out') : out'[j].kind # "turn.accepted"
               /\ \A j \in 1..Len(queue') : queue'[j].type = "turn.start" => i = j
    <3>1. /\ active = None
          /\ gate \in {"pending", "failed", "eof"}
          /\ \A j \in 1..Len(queue) : queue[j].type = "turn.start" => i + k = j
      BY <1>1, <2>1 DEF ThreadInv, OneTurnAtATime, Has
    <3>2. \A j \in 1..Len(queue') : queue'[j].type = "turn.start" => i + k = j + k
      BY <1>1, <3>1
    <3>3. \A j \in 1..Len(queue') : i + k = j + k => i = j
      BY <1>0
    <3> QED
      BY <2>1, <3>1, <3>2, <3>3 DEF Writes
  <2>2. gate' = "open" => active' = None /\ \A j \in 1..Len(out') : out'[j].kind # "turn.accepted"
    BY DEF ThreadInv, OneTurnAtATime, Writes
  <2> QED
    BY <2>1, <2>2 DEF OneTurnAtATime, Has, Writes
<1> QED
  BY <1>2, <1>3, <1>4, <1>5 DEF ThreadInv

(***************************************************************************)
(* The process comes and goes                                              *)
(***************************************************************************)

LEMMA EmptyThreads ==
    ASSUME active' = None, queue' = <<>>, out' = <<>>, worker'.pc = "none", core'.pc = "loop"
    PROVE  ThreadInv'
<1>1. Len(queue') = 0 /\ Len(out') = 0 /\ 1..0 = {}
  OBVIOUS
<1>2. WorkerIsActive'
  BY DEF WorkerIsActive
<1>3. EventsAreOwn'
  BY <1>1 DEF EventsAreOwn
<1>4. CompletionsAreLast'
  BY <1>1 DEF CompletionsAreLast
<1>5. OneTurnAtATime'
  BY <1>1 DEF OneTurnAtATime
<1> QED
  BY <1>2, <1>3, <1>4, <1>5 DEF ThreadInv

LEMMA NothingInHand ==
    ASSUME out' = <<>>
    PROVE  EndsInHand'
<1>1. 1..Len(out') = {}
  OBVIOUS
<1> QED
  BY <1>1 DEF EndsInHand

LEMMA NoWorkerFacts ==
    /\ NoWorker \in Workers /\ NoWorker.pc = "none"
    /\ Idle \in [pc : {"loop", "joining", "polled"}, result : Statuses] /\ Idle.pc = "loop"
  BY DEF NoWorker, Workers, Statuses, Idle

LEMMA DownKeeps ==
    ASSUME TurnInv, JournalStep, Down
    PROVE  TurnInv'
<1>1. /\ worker' = NoWorker /\ core' = Idle /\ queue' = <<>> /\ out' = <<>> /\ active' = None
      /\ UNCHANGED <<runs, effects, outcome, ends, starts>>
  BY DEF Down, ghostVars
<1>2. TurnTypes'
  <2>1. /\ life' \in Nat /\ starts' \in Nat /\ disabled' \in BOOLEAN
        /\ gate' \in {"open", "pending", "active", "failed", "eof"}
        /\ inputOpen' \in BOOLEAN /\ attached' \in BOOLEAN
        /\ next' \in [seq : Nat, ordinal : Nat]
    BY DEF Down, TurnInv, TurnTypes
  <2>2. /\ queue' \in Seq(Messages) /\ out' \in Seq(StoredFrames \cup {Unscoped, Other})
    BY <1>1
  <2>3. /\ active' \in [turn : Turns, digest : Digests] \cup {None}
        /\ core' \in [pc : {"loop", "joining", "polled"}, result : Statuses]
        /\ worker' \in Workers
    BY <1>1, NoWorkerFacts
  <2>4. runs' \in [Turns -> Nat] /\ outcome' \in [Turns -> Statuses] /\ ends' \in [Turns -> SUBSET Statuses]
    BY <1>1 DEF TurnInv, TurnTypes
  <2>5. log' \in Seq(StoredFrames) /\ synced' \in 0..Len(log')
    BY DEF JournalStep
  <2> QED
    BY <2>1, <2>2, <2>3, <2>4, <2>5 DEF TurnTypes
<1>3. JournalInv'
  BY <1>1 DEF JournalInv, JournalStep, ActiveIsStored
<1>4. ThreadInv'
  BY <1>1, NoWorkerFacts, EmptyThreads
<1>5. RunsInv'
  BY <1>1, NoWorkerFacts, RunsStay DEF Unasked
<1>6. EffectInv'
  BY <1>1, NoWorkerFacts, EffectsStay
<1>7. EndsInv'
  BY <1>1, NothingInHand, EndsStay
<1> QED
  BY <1>2, <1>3, <1>4, <1>5, <1>6, <1>7 DEF TurnInv, JournalStep

LEMMA PowerLossJournal ==
    ASSUME TurnInv, PowerLoss
    PROVE  JournalStep
<1>0. TurnTypes /\ SureIsSynced /\ LogShape
  BY DEF TurnInv, JournalInv
<1>1. PICK k \in synced..Len(log) : log' = SubSeq(log, 1, k) /\ synced' = Len(log')
  BY DEF PowerLoss
<1>2. /\ SyncedKept /\ log' \in Seq(StoredFrames) /\ Len(log') = k /\ k <= Len(log)
      /\ \A i \in 1..k : log'[i] = log[i]
  BY <1>0, <1>1, LossKeepsSynced
<1>3. SureIsSynced' /\ LogShape'
  BY <1>0, <1>1, LossKeepsShape
<1>4. k \in Nat /\ Len(log) \in Nat
  BY <1>0, <1>1 DEF TurnTypes
<1>5. EndIsOwn'
  <2>1. outcome' = outcome
    BY DEF PowerLoss, Down, ghostVars
  <2>2. DOMAIN log' = 1..k /\ DOMAIN log = 1..Len(log) /\ \A i \in 1..k : i \in 1..Len(log)
    BY <1>0, <1>2, <1>4 DEF TurnTypes
  <2> QED
    BY <1>2, <2>1, <2>2 DEF TurnInv, EndIsOwn
<1> QED
  BY <1>1, <1>2, <1>3, <1>4, <1>5 DEF JournalStep

LEMMA DownsKeep ==
    ASSUME TurnInv, Kill \/ PowerLoss \/ CoreReturns \/ SpawnFails
    PROVE  TurnInv'
<1>1. Down
  BY DEF Kill, PowerLoss, CoreReturns, SpawnFails
<1>2. CASE Kill \/ CoreReturns \/ SpawnFails
  <2>1. UNCHANGED <<log, synced, outcome>>
    BY <1>1, <1>2 DEF Kill, CoreReturns, SpawnFails, Down, ghostVars
  <2> QED
    BY <1>1, <2>1, SameJournal, DownKeeps
<1>3. CASE PowerLoss
  BY <1>1, <1>3, PowerLossJournal, DownKeeps
<1> QED
  BY <1>2, <1>3

LEMMA StartKeeps ==
    ASSUME TurnInv, Start
    PROVE  TurnInv'
<1>1. /\ life = 0 /\ UNCHANGED <<log, synced, queue, next, active, core, out, worker>>
      /\ UNCHANGED <<runs, effects, outcome, ends>>
  BY DEF Start, ghostVars
<1>2. active = None /\ queue = <<>> /\ out = <<>> /\ worker.pc = "none" /\ core.pc = "loop"
  BY <1>1 DEF TurnInv, ThreadInv, WorkerIsActive
<1>3. JournalStep
  BY <1>1, SameJournal
<1>4. TurnTypes'
  <2>1. starts \in Nat /\ life' = starts + 1 /\ starts' = starts + 1
    BY DEF Start, TurnInv, TurnTypes
  <2>2. life' \in Nat /\ starts' \in Nat
    BY <2>1
  <2>3. /\ disabled' \in BOOLEAN /\ gate' \in {"open", "pending", "active", "failed", "eof"}
        /\ inputOpen' \in BOOLEAN /\ attached' \in BOOLEAN
    BY DEF Start
  <2> QED
    BY <1>1, <2>2, <2>3 DEF TurnInv, TurnTypes
<1>5. JournalInv'
  BY <1>1, <1>2, <1>3 DEF JournalInv, JournalStep, ActiveIsStored
<1>6. ThreadInv'
  BY <1>1, <1>2, EmptyThreads
<1>7. RunsInv'
  BY <1>1, <1>3, RunsStay DEF Unasked
<1>8. EffectInv'
  BY <1>1, <1>2, <1>3, EffectsStay
<1>9. EndsInv'
  BY <1>1, <1>2, <1>3, NothingInHand, EndsStay
<1> QED
  BY <1>3, <1>4, <1>5, <1>6, <1>7, <1>8, <1>9 DEF TurnInv, JournalStep

(***************************************************************************)
(* The v7 host sends                                                       *)
(***************************************************************************)

LEMMA QueueGrows ==
    ASSUME queue \in Seq(Messages), NEW m \in Messages, queue' = Append(queue, m)
    PROVE  /\ queue' \in Seq(Messages) /\ Len(queue) \in Nat /\ Len(queue') = Len(queue) + 1
           /\ queue'[Len(queue) + 1] = m
           /\ \A i \in 1..Len(queue') : \/ i = Len(queue) + 1
                                        \/ i \in 1..Len(queue) /\ queue'[i] = queue[i]
  OBVIOUS

LEMMA SendKeepsThreads ==
    ASSUME TurnTypes, ThreadInv, NEW m \in Messages, queue' = Append(queue, m),
           m.type \notin {"event", "complete"}, life > 0,
           UNCHANGED <<active, core, worker, out, outcome, life>>,
           IF m.type = "turn.start" THEN gate = "open" /\ gate' = "pending"
                                    ELSE gate' \in {gate, "eof"}
    PROVE  ThreadInv'
<1> DEFINE n == Len(queue) + 1
<1>1. /\ Len(queue) \in Nat /\ Len(queue') = n /\ queue'[n] = m
      /\ \A i \in 1..Len(queue') : i = n \/ (i \in 1..Len(queue) /\ queue'[i] = queue[i])
  BY QueueGrows DEF TurnTypes
<1>2. n \in Nat /\ \A i \in 1..Len(queue) : i < n
  BY <1>1
<1>a. life \in Nat
  BY DEF TurnTypes
<1> HIDE DEF n
<1>3. WorkerIsActive'
  BY <1>a DEF ThreadInv, WorkerIsActive
<1>4. EventsAreOwn'
  BY <1>1 DEF ThreadInv, EventsAreOwn, Has
<1>5. CompletionsAreLast'
  <2>1. ASSUME NEW i \in 1..Len(queue'), queue'[i].type = "complete"
        PROVE  /\ outcome'[queue'[i].turn] = queue'[i].result
               /\ active' # None =>
                     queue'[i].turn = active'.turn /\ worker'.pc = "exited" /\ core'.pc # "joining"
               /\ \A j \in 1..Len(queue') : queue'[j].type = "turn.start" => i < j
               /\ \A j \in 1..Len(queue') : queue'[j].type = "event" => j < i
               /\ active' # None => \A j \in 1..Len(queue') : queue'[j].type = "complete" => i = j
    <3>1. i \in 1..Len(queue) /\ queue'[i] = queue[i] /\ i < n
      BY <1>1, <1>2, <2>1
    <3>2. /\ outcome[queue[i].turn] = queue[i].result
          /\ active # None =>
                queue[i].turn = active.turn /\ worker.pc = "exited" /\ core.pc # "joining"
          /\ \A j \in 1..Len(queue) : queue[j].type = "turn.start" => i < j
          /\ \A j \in 1..Len(queue) : queue[j].type = "event" => j < i
          /\ active # None => \A j \in 1..Len(queue) : queue[j].type = "complete" => i = j
      BY <2>1, <3>1 DEF ThreadInv, CompletionsAreLast, Has
    <3> QED
      BY <1>1, <3>1, <3>2
  <2> QED
    BY <2>1 DEF ThreadInv, CompletionsAreLast, Has
<1>6. OneTurnAtATime'
  <2>1. CASE m.type = "turn.start"
    <3>1. \A i \in 1..Len(queue) : queue[i].type # "turn.start"
      BY <2>1 DEF ThreadInv, OneTurnAtATime, Has
    <3> QED
      BY <1>1, <2>1, <3>1 DEF ThreadInv, OneTurnAtATime, Has
  <2>2. CASE m.type # "turn.start"
    <3>1. \A i \in 1..Len(queue') : queue'[i].type = "turn.start" =>
             i \in 1..Len(queue) /\ queue'[i] = queue[i]
      BY <1>1, <2>2
    <3>2. \A i \in 1..Len(queue') : Has(i, "turn.start")' =>
          /\ active = None
          /\ gate' \in {"pending", "failed", "eof"}
          /\ \A k \in 1..Len(out) : out[k].kind # "turn.accepted"
          /\ \A j \in 1..Len(queue') : Has(j, "turn.start")' => i = j
      BY <2>2, <3>1 DEF ThreadInv, OneTurnAtATime, Has
    <3>3. gate' = "open" => gate = "open"
      BY <2>2
    <3> QED
      BY <3>2, <3>3 DEF ThreadInv, OneTurnAtATime
  <2> QED
    BY <2>1, <2>2
<1> QED
  BY <1>3, <1>4, <1>5, <1>6 DEF ThreadInv

\* The parts that a step of the v7 host or of the worker's channel leaves alone.
LEMMA SendKeeps ==
    ASSUME TurnInv, NEW m \in Messages, queue' = Append(queue, m),
           m.type \notin {"event", "complete"}, life > 0,
           UNCHANGED <<journalVars, life, starts, attached, inputOpen, next, active, core, out,
                       worker, ghostVars>>,
           IF m.type = "turn.start" THEN gate = "open" /\ gate' = "pending"
                                    ELSE gate' \in {gate, "eof"}
    PROVE  TurnInv'
<1>1. /\ UNCHANGED <<log, synced, disabled, life, starts, attached, inputOpen, next, active>>
      /\ UNCHANGED <<core, out, worker, runs, effects, outcome, ends>>
  BY DEF journalVars, ghostVars
<1>2. queue' \in Seq(Messages)
  BY QueueGrows DEF TurnInv, TurnTypes
<1>3. TurnTypes'
  BY <1>1, <1>2 DEF TurnInv, TurnTypes
<1>4. JournalStep
  BY <1>1, SameJournal
<1>5. JournalInv'
  BY <1>1, <1>4 DEF TurnInv, JournalInv, JournalStep, ActiveIsStored, Accepted
<1>6. ThreadInv'
  BY <1>1, SendKeepsThreads DEF TurnInv
<1>7. RunsInv'
  BY <1>1, <1>4, RunsStay DEF Unasked
<1>8. EffectInv'
  BY <1>1, <1>4, EffectsStay
<1>9. EndsInHand'
  BY <1>1 DEF TurnInv, EndsInv, EndsInHand, EndStored, Synced
<1>10. EndsInv'
  BY <1>1, <1>4, <1>9, EndsStay
<1> QED
  BY <1>3, <1>4, <1>5, <1>6, <1>7, <1>8, <1>10 DEF TurnInv, JournalStep

LEMMA ClientKeeps ==
    ASSUME TurnInv,
           \/ SendEof
           \/ \E m \in Requests : SendStart(m.turn, m.digest)
           \/ \E m \in Controls : SendControl(m)
    PROVE  TurnInv'
<1>1. CASE SendEof
  <2> DEFINE m == [type |-> "eof", turn |-> None]
  <2>1. m \in Messages /\ m.type = "eof"
    BY DEF Messages
  <2>2. /\ queue' = Append(queue, m) /\ life > 0 /\ gate' = "eof"
        /\ UNCHANGED <<journalVars, life, starts, attached, inputOpen, next, active, core, out,
                       worker, ghostVars>>
    BY <1>1 DEF SendEof
  <2> HIDE DEF m
  <2> QED
    BY <2>1, <2>2, SendKeeps
<1>2. ASSUME NEW r \in Requests, SendStart(r.turn, r.digest) PROVE TurnInv'
  <2> DEFINE m == [type |-> "turn.start", turn |-> r.turn, digest |-> r.digest]
  <2>1. m \in Messages /\ m.type = "turn.start"
    BY DEF Messages
  <2>2. /\ queue' = Append(queue, m) /\ life > 0 /\ gate = "open" /\ gate' = "pending"
        /\ UNCHANGED <<journalVars, life, starts, attached, inputOpen, next, active, core, out,
                       worker, ghostVars>>
    BY <1>2 DEF SendStart
  <2> HIDE DEF m
  <2> QED
    BY <2>1, <2>2, SendKeeps
<1>3. ASSUME NEW m \in Controls, SendControl(m) PROVE TurnInv'
  <2>1. m \in Messages /\ m.type \notin {"event", "complete", "turn.start"}
    BY TurnCoreAssumption DEF Messages
  <2>2. /\ queue' = Append(queue, m) /\ life > 0 /\ gate' = gate
        /\ UNCHANGED <<journalVars, life, starts, attached, inputOpen, next, active, core, out,
                       worker, ghostVars>>
    BY <1>3 DEF SendControl
  <2> QED
    BY <2>1, <2>2, SendKeeps
<1> QED
  BY <1>1, <1>2, <1>3

(***************************************************************************)
(* The core takes a message                                                *)
(***************************************************************************)

LEMMA ReceiveFacts ==
    ASSUME TurnInv, NEW types, Receives(types)
    PROVE  /\ life > 0 /\ life \in Nat /\ out = <<>> /\ core.pc = "loop" /\ worker.pc # "unborn"
           /\ queue' \in Seq(Messages) /\ Drops(1)
           /\ 1 \in 1..Len(queue) /\ Head(queue) = queue[1]
           /\ Head(queue) \in Messages /\ Head(queue).type \in types
<1>1. queue \in Seq(Messages) /\ queue # <<>> /\ queue' = Tail(queue) /\ life \in Nat
  BY DEF TurnInv, TurnTypes, Receives
<1>2. /\ Len(queue) \in Nat /\ Len(queue) > 0 /\ Head(queue) = queue[1] /\ queue[1] \in Messages
      /\ queue' \in Seq(Messages) /\ Len(queue') = Len(queue) - 1
      /\ \A i \in 1..Len(queue') : queue'[i] = queue[i + 1]
  BY <1>1
<1>3. Drops(1)
  BY <1>2 DEF Drops
<1> QED
  BY <1>1, <1>2, <1>3 DEF Receives, Receiving

\* When a turn.start is at the head no event, completion or second turn.start is
\* behind it.
LEMMA StartIsAlone ==
    ASSUME TurnInv, Receives({"turn.start"})
    PROVE  /\ active = None /\ gate # "open"
           /\ \A i \in 1..Len(queue') : queue'[i].type \notin {"turn.start", "event", "complete"}
<1>1. /\ 1 \in 1..Len(queue) /\ queue[1].type = "turn.start" /\ Drops(1) /\ Len(queue) \in Nat
      /\ Len(queue') \in Nat
  BY ReceiveFacts DEF TurnInv, TurnTypes
<1>2. /\ active = None /\ gate # "open"
      /\ \A j \in 1..Len(queue) : queue[j].type = "turn.start" => 1 = j
  BY <1>1 DEF TurnInv, ThreadInv, OneTurnAtATime, Has
<1>3. \A j \in 1..Len(queue) : queue[j].type # "event"
  BY <1>2 DEF TurnInv, ThreadInv, EventsAreOwn, Has
<1>4. \A j \in 1..Len(queue) : queue[j].type = "complete" => j < 1
  BY <1>1 DEF TurnInv, ThreadInv, CompletionsAreLast, Has
<1>5. ASSUME NEW i \in 1..Len(queue')
      PROVE  queue'[i].type \notin {"turn.start", "event", "complete"}
  <2>1. i + 1 \in 1..Len(queue) /\ queue'[i] = queue[i + 1] /\ i + 1 # 1 /\ ~ (i + 1 < 1)
    BY <1>1 DEF Drops
  <2> QED
    BY <1>2, <1>3, <1>4, <2>1
<1> QED
  BY <1>2, <1>5

\* The step of a handler that lets the turn, the gate and the core where they are.
LEMMA StepKeeps ==
    ASSUME TurnInv, NEW k \in {0, 1}, Drops(k), JournalStep, ActiveIsStored', TurnTypes',
           Goes, Writes, EndsInHand', RunsInv', EffectInv',
           UNCHANGED <<active, core, gate, outcome, life, ends>>
    PROVE  TurnInv'
<1>1. ThreadInv'
  BY ThreadsStay DEF TurnInv
<1>2. JournalInv'
  BY DEF JournalStep, JournalInv
<1>3. EndsInv'
  BY EndsStay
<1> QED
  BY <1>1, <1>2, <1>3 DEF TurnInv, JournalStep

\* A step that at most raises the worker's flag.
LEMMA SameWorker ==
    ASSUME TurnInv, JournalStep, worker' = worker \/ worker' = [worker EXCEPT !.cancelled = TRUE],
           UNCHANGED <<runs, effects, life>>
    PROVE  worker' \in Workers /\ Goes /\ RunsInv' /\ EffectInv'
<1>1. worker \in Workers
  BY DEF TurnInv, TurnTypes
<1>2. /\ worker' \in Workers /\ worker'.turn = worker.turn /\ worker'.pc = worker.pc
      /\ worker'.ev = worker.ev /\ worker'.n = worker.n /\ worker'.calls = worker.calls
      /\ worker.n \in Nat
  BY <1>1 DEF Workers
<1>3. Goes
  BY <1>2 DEF Goes, TurnInv, ThreadInv, WorkerIsActive
<1>4. RunsInv'
  BY <1>2, RunsStay DEF Unasked
<1>5. EffectInv'
  BY <1>2, EffectsStay
<1> QED
  BY <1>2, <1>3, <1>4, <1>5

\* An answer that says nothing of a turn.
LEMMA PlainWrite ==
    ASSUME out' \in {<<>>, <<Unscoped>>, <<Other>>}, life > 0, life \in Nat, UNCHANGED life,
           core'.pc = "loop"
    PROVE  out' \in Seq(StoredFrames \cup {Unscoped, Other}) /\ Writes /\ EndsInHand'
<1>1. \A k \in 1..Len(out') : out'[k] \in {Unscoped, Other}
  OBVIOUS
<1>2. Unscoped.kind = "control" /\ Other.kind = "other"
  BY DEF Unscoped, Other
<1>3. Writes
  BY <1>1, <1>2 DEF Writes
<1>4. EndsInHand'
  BY <1>1, <1>2 DEF EndsInHand
<1>5. out' \in Seq(StoredFrames \cup {Unscoped, Other})
  <2>1. CASE out' = <<>>
    BY <2>1
  <2>2. CASE out' = <<Unscoped>>
    BY <2>2
  <2>3. CASE out' = <<Other>>
    BY <2>3
  <2> QED
    BY <2>1, <2>2, <2>3
<1> QED
  BY <1>3, <1>4, <1>5

LEMMA RefuseStartKeeps ==
    ASSUME TurnInv, RefuseStart
    PROVE  TurnInv'
<1>1. /\ Receives({"turn.start"}) /\ active = None /\ next' = Origin /\ Write(<<Unscoped>>)
      /\ UNCHANGED <<log, synced, disabled, life, starts, gate, attached, inputOpen, active, core>>
      /\ UNCHANGED <<worker, runs, effects, outcome, ends>>
  BY DEF RefuseStart, journalVars, clientVars, ghostVars
<1>2. JournalStep
  BY <1>1, SameJournal
<1>3. worker' \in Workers /\ Goes /\ RunsInv' /\ EffectInv'
  BY <1>1, <1>2, SameWorker
<1>4. /\ life > 0 /\ life \in Nat /\ core.pc = "loop" /\ Drops(1) /\ queue' \in Seq(Messages)
  BY <1>1, ReceiveFacts
<1>5. out' \in Seq(StoredFrames \cup {Unscoped, Other}) /\ Writes /\ EndsInHand'
  BY <1>1, <1>4, PlainWrite, WriteFacts
<1>6. next' \in [seq : Nat, ordinal : Nat]
  BY <1>1 DEF Origin
<1>7. TurnTypes'
  BY <1>1, <1>3, <1>4, <1>5, <1>6 DEF TurnInv, TurnTypes
<1>8. ActiveIsStored'
  BY <1>1 DEF ActiveIsStored
<1> QED
  BY <1>1, <1>2, <1>3, <1>4, <1>5, <1>7, <1>8, StepKeeps

\* The stored frames of a turn as deliver_replay writes them.
LEMMA ReplayFacts ==
    ASSUME TurnInv, NEW t \in Turns
    PROVE  /\ Replay(t) \in Seq(StoredFrames \cup {Unscoped, Other}) /\ Len(Replay(t)) = Len(log)
           /\ \A k \in 1..Len(log) : Replay(t)[k].kind = "turn.end" =>
                 /\ \A j \in k..Len(log) : Replay(t)[j].kind # "turn.accepted"
                 /\ Replay(t)[k].turn = t
                 /\ Replay(t)[k] = log[k]
                 /\ Replay(t)[k].sure => EndStored(Replay(t)[k].turn, Replay(t)[k].status)
<1>1. /\ log \in Seq(StoredFrames) /\ Len(log) \in Nat /\ DOMAIN log = 1..Len(log)
      /\ \A i \in 1..Len(log) : log[i] \in StoredFrames
  BY DEF TurnInv, TurnTypes
<1>2. \A i \in 1..Len(log) : \/ log[i].turn = t /\ Replay(t)[i] = log[i]
                             \/ log[i].turn # t /\ Replay(t)[i] = Other
  BY <1>1 DEF Replay, Other
<1>3. Replay(t) \in Seq(StoredFrames \cup {Unscoped, Other}) /\ Len(Replay(t)) = Len(log)
  <2>1. Replay(t) \in [1..Len(log) -> StoredFrames \cup {Unscoped, Other}]
    BY <1>1 DEF Replay, Other
  <2> QED
    BY <1>1, <2>1
<1>4. Other.kind = "other"
  BY DEF Other
<1>5. ASSUME NEW k \in 1..Len(log), Replay(t)[k].kind = "turn.end"
      PROVE  /\ \A j \in k..Len(log) : Replay(t)[j].kind # "turn.accepted"
             /\ Replay(t)[k].turn = t
             /\ Replay(t)[k] = log[k]
             /\ Replay(t)[k].sure => EndStored(Replay(t)[k].turn, Replay(t)[k].status)
  <2>1. Replay(t)[k] = log[k] /\ log[k].turn = t
    BY <1>2, <1>4, <1>5
  <2>2. ASSUME NEW j \in k..Len(log) PROVE Replay(t)[j].kind # "turn.accepted"
    <3>1. j \in 1..Len(log) /\ (j = k \/ k < j)
      BY <1>1
    <3> QED
      BY <1>2, <1>4, <1>5, <2>1, <3>1 DEF TurnInv, JournalInv, LogShape
  <2>3. log[k].sure => k <= synced /\ synced \in Nat
    BY <1>5, <2>1 DEF TurnInv, TurnTypes, JournalInv, SureIsSynced, Authority
  <2>4. log[k].sure => EndStored(t, log[k].status)
    BY <1>1, <1>5, <2>1, <2>3 DEF EndStored, Synced
  <2> QED
    BY <2>1, <2>2, <2>4
<1> QED
  BY <1>3, <1>5

LEMMA ReplayTurnKeeps ==
    ASSUME TurnInv, ReplayTurn
    PROVE  TurnInv'
<1> DEFINE m == Head(queue)
<1>1. /\ Receives({"turn.start"}) /\ active = None /\ Load(m.turn, m.digest) = "complete"
      /\ next' = ObserveReplay(Records(m.turn)) /\ Write(Replay(m.turn))
      /\ UNCHANGED <<log, synced, disabled, life, starts, gate, attached, inputOpen, active, core>>
      /\ UNCHANGED <<worker, runs, effects, outcome, ends>>
  BY DEF ReplayTurn, journalVars, clientVars, ghostVars
<1>2. JournalStep
  BY <1>1, SameJournal
<1>3. worker' \in Workers /\ Goes /\ RunsInv' /\ EffectInv'
  BY <1>1, <1>2, SameWorker
<1>4. /\ life > 0 /\ life \in Nat /\ core.pc = "loop" /\ Drops(1) /\ queue' \in Seq(Messages)
      /\ m \in Messages /\ m.type = "turn.start"
  BY <1>1, ReceiveFacts
<1> HIDE DEF m
<1>5. m.turn \in Turns
  BY <1>4, MessageFacts
<1>6. next' \in [seq : Nat, ordinal : Nat]
  BY <1>1, LoadFacts, ReplayPosition DEF TurnInv, JournalInv
<1>7. PICK t \in Turns : t = m.turn
  BY <1>5
<1>8. /\ Replay(t) \in Seq(StoredFrames \cup {Unscoped, Other}) /\ Len(Replay(t)) = Len(log)
      /\ \A k \in 1..Len(log) : Replay(t)[k].kind = "turn.end" =>
            /\ \A j \in k..Len(log) : Replay(t)[j].kind # "turn.accepted"
            /\ Replay(t)[k].turn = t
            /\ Replay(t)[k].sure => EndStored(Replay(t)[k].turn, Replay(t)[k].status)
  BY ReplayFacts
<1>9. CASE out' = <<>>
  <2>1. out' \in Seq(StoredFrames \cup {Unscoped, Other}) /\ Writes /\ EndsInHand'
    BY <1>1, <1>4, <1>9, PlainWrite
  <2>2. TurnTypes'
    BY <1>1, <1>3, <1>4, <1>6, <2>1 DEF TurnInv, TurnTypes
  <2>3. ActiveIsStored'
    BY <1>1 DEF ActiveIsStored
  <2> QED
    BY <1>1, <1>2, <1>3, <1>4, <2>1, <2>2, <2>3, StepKeeps
<1>10. CASE out' = Replay(t)
  <2>1. out' \in Seq(StoredFrames \cup {Unscoped, Other}) /\ Len(out') = Len(log)
    BY <1>8, <1>10
  <2>2. Writes
    <3>1. gate # "open" /\ \A i \in 1..Len(queue') : queue'[i].type # "turn.start"
      BY <1>1, StartIsAlone
    <3> QED
      BY <1>1, <1>4, <1>8, <1>10, <2>1, <3>1 DEF Writes
  <2>3. EndsInHand'
    BY <1>1, <1>8, <1>10, <2>1 DEF EndsInHand, EndStored, Synced
  <2>4. TurnTypes'
    BY <1>1, <1>3, <1>4, <1>6, <2>1 DEF TurnInv, TurnTypes
  <2>5. ActiveIsStored'
    BY <1>1 DEF ActiveIsStored
  <2> QED
    BY <1>1, <1>2, <1>3, <1>4, <2>2, <2>3, <2>4, <2>5, StepKeeps
<1> QED
  BY <1>1, <1>7, <1>9, <1>10, WriteFacts

\* A turn.end as persist_for_delivery hands it out.
LEMMA EndInHand ==
    ASSUME TurnInv, JournalStep, NEW f \in StoredFrames, f.kind = "turn.end", f.sure,
           disabled' \in BOOLEAN,
           ~disabled' => \E i \in 1..Len(log') :
              log'[i] = f /\ (f.sure /\ Authority(f.kind) => i <= synced')
    PROVE  LET g == Delivered(f, disabled')
           IN  /\ g \in StoredFrames /\ g.kind = "turn.end" /\ g.turn = f.turn
               /\ g.sure => /\ ~disabled' /\ g = f
                            /\ \E i \in 1..Len(log') : log'[i] = f /\ i <= synced'
<1>1. CASE disabled'
  <2>1. Delivered(f, disabled') =
           [f EXCEPT !.sure = FALSE, !.status = "unknown_after_journal_failure"]
    BY <1>1 DEF Delivered
  <2> DEFINE g == [f EXCEPT !.sure = FALSE, !.status = "unknown_after_journal_failure"]
  <2>2. g \in StoredFrames
    BY DEF StoredFrames, Statuses
  <2>3. g.kind = "turn.end" /\ g.turn = f.turn /\ ~g.sure
    BY DEF StoredFrames
  <2> QED
    BY <2>1, <2>2, <2>3
<1>2. CASE ~disabled'
  <2>1. Delivered(f, disabled') = f
    BY <1>2 DEF Delivered
  <2> QED
    BY <1>2, <2>1 DEF Authority
<1> QED
  BY <1>1, <1>2

LEMMA CloseUnknownTurnKeeps ==
    ASSUME TurnInv, CloseUnknownTurn
    PROVE  TurnInv'
<1> DEFINE m == Head(queue)
           position == ObserveReplay(Records(m.turn))
           f == Frame(m.turn, m.digest, "turn.end", "unknown_after_disconnect", 0, position)
           g == Delivered(f, disabled')
<1>1. /\ Receives({"turn.start"}) /\ active = None /\ Load(m.turn, m.digest) = "incomplete"
      /\ AppendFrame(f) /\ next' = After(position) /\ Write(Append(Replay(m.turn), g))
      /\ UNCHANGED <<life, starts, gate, attached, inputOpen, active, core>>
      /\ UNCHANGED <<worker, runs, effects, outcome, ends>>
  BY DEF CloseUnknownTurn, clientVars, ghostVars
<1>2. /\ life > 0 /\ life \in Nat /\ core.pc = "loop" /\ Drops(1) /\ queue' \in Seq(Messages)
      /\ m \in Messages /\ m.type = "turn.start"
  BY <1>1, ReceiveFacts
<1> HIDE DEF m
<1>3. m.turn \in Turns /\ m.digest \in Digests
  BY <1>2, MessageFacts
<1>4. /\ Records(m.turn) # {}
      /\ \A i \in 1..Len(log) : log[i].turn = m.turn =>
            log[i].digest = m.digest /\ log[i].kind # "turn.end"
  BY <1>1, LoadFacts DEF TurnInv
<1>5. /\ position \in [seq : Nat, ordinal : Nat]
      /\ \A i \in Records(m.turn) : log[i].seq < position.seq
  BY <1>4, ReplayPosition DEF TurnInv, JournalInv
<1> HIDE DEF position
<1>6. /\ f \in StoredFrames /\ f.turn = m.turn /\ f.digest = m.digest /\ f.kind = "turn.end"
      /\ f.status = "unknown_after_disconnect" /\ f.seq = position.seq /\ f.sure = TRUE
  <2>1. "turn.end" \in StoredKinds /\ "unknown_after_disconnect" \in Statuses /\ 0 \in Nat
    BY DEF StoredKinds, Statuses
  <2>2. position.seq \in Nat /\ position.ordinal \in Nat
    BY <1>5
  <2>3. f = [turn |-> m.turn, digest |-> m.digest, kind |-> "turn.end",
             status |-> "unknown_after_disconnect", call |-> 0, seq |-> position.seq,
             id |-> position.ordinal, life |-> life, sure |-> TRUE]
    BY DEF Frame
  <2> HIDE DEF f
  <2>4. f \in StoredFrames
    BY <1>2, <1>3, <2>1, <2>2, <2>3 DEF StoredFrames
  <2> QED
    BY <2>3, <2>4
<1> HIDE DEF f
<1>7. Follows(f)
  <2>1. \A i \in 1..Len(log) : log[i].turn = m.turn => i \in Records(m.turn)
    BY DEF Records, TurnInv, TurnTypes
  <2>2. \E i \in 1..Len(log) : log[i].turn = m.turn
    BY <1>4 DEF Records, TurnInv, TurnTypes
  <2> QED
    BY <1>4, <1>5, <1>6, <2>1, <2>2 DEF Follows
<1>8. /\ JournalStep /\ disabled' \in BOOLEAN
      /\ ~disabled' => \E i \in 1..Len(log') :
            log'[i] = f /\ (f.sure /\ Authority(f.kind) => i <= synced')
  BY <1>1, <1>6, <1>7, AppendKeeps DEF Reports
<1>9. worker' \in Workers /\ Goes /\ RunsInv' /\ EffectInv'
  BY <1>1, <1>8, SameWorker
<1>10. /\ g \in StoredFrames /\ g.kind = "turn.end" /\ g.turn = m.turn
       /\ g.sure => /\ ~disabled' /\ g = f
                    /\ \E i \in 1..Len(log') : log'[i] = f /\ i <= synced'
  BY <1>6, <1>8, EndInHand
<1> HIDE DEF g
<1>11. next' \in [seq : Nat, ordinal : Nat]
  BY <1>1, <1>5 DEF After
<1>12. ActiveIsStored'
  BY <1>1 DEF ActiveIsStored
<1>13. log' \in Seq(StoredFrames) /\ synced' \in 0..Len(log')
  BY <1>8 DEF JournalStep
<1>14. ASSUME out' \in Seq(StoredFrames \cup {Unscoped, Other}), Writes, EndsInHand'
       PROVE  TurnInv'
  <2>1. TurnTypes'
    BY <1>1, <1>2, <1>8, <1>9, <1>11, <1>13, <1>14 DEF TurnInv, TurnTypes
  <2> QED
    BY <1>1, <1>2, <1>8, <1>9, <1>12, <1>14, <2>1, StepKeeps
<1>15. CASE out' = <<>>
  BY <1>1, <1>2, <1>14, <1>15, PlainWrite
<1>16. CASE out' = Append(Replay(m.turn), g)
  <2>1. PICK t \in Turns : t = m.turn
    BY <1>3
  <2>2. /\ Replay(t) \in Seq(StoredFrames \cup {Unscoped, Other}) /\ Len(Replay(t)) = Len(log)
        /\ \A k \in 1..Len(log) : Replay(t)[k].kind # "turn.end"
    BY <1>4, <2>1, ReplayFacts
  <2> DEFINE n == Len(log) + 1
  <2>3. /\ out' \in Seq(StoredFrames \cup {Unscoped, Other}) /\ Len(out') = n /\ out'[n] = g
        /\ \A k \in 1..Len(log) : out'[k] = Replay(t)[k]
    BY <1>10, <1>16, <2>1, <2>2
  <2>4. Len(log) \in Nat
    BY DEF TurnInv, TurnTypes
  <2>5. \A k \in 1..Len(out') : out'[k].kind = "turn.end" => k = n
    BY <2>2, <2>3, <2>4
  <2>6. n \in Nat /\ \A j \in n..n : j = n
    BY <2>4
  <2> HIDE DEF n
  <2>7. Writes
    <3>1. gate # "open" /\ \A i \in 1..Len(queue') : queue'[i].type # "turn.start"
      BY <1>1, StartIsAlone
    <3> QED
      BY <1>1, <1>2, <1>10, <2>3, <2>5, <2>6, <3>1 DEF Writes
  <2>8. EndsInHand'
    <3>1. ASSUME NEW k \in 1..Len(out'), out'[k].kind = "turn.end"
          PROVE  out'[k].turn \in Turns /\ (out'[k].sure => EndStored(out[k].turn, out[k].status)')
      <4>1. out'[k] = g
        BY <2>3, <2>5, <3>1
      <4>2. ASSUME g.sure PROVE EndStored(out[k].turn, out[k].status)'
        <5>1. g = f /\ \E i \in 1..Len(log') : log'[i] = f /\ i <= synced'
          BY <1>10, <4>2
        <5>2. PICK i \in 1..Len(log') : log'[i] = f /\ i <= synced'
          BY <5>1
        <5>3. i \in DOMAIN log' /\ i \in 1..synced'
          BY <1>13, <5>2
        <5> QED
          BY <1>6, <4>1, <5>1, <5>2, <5>3 DEF EndStored, Synced
      <4> QED
        BY <1>3, <1>10, <4>1, <4>2
    <3> QED
      BY <3>1 DEF EndsInHand
  <2> QED
    BY <1>14, <2>3, <2>7, <2>8
<1> QED
  BY <1>1, <1>15, <1>16, WriteFacts

LEMMA AcceptTurnKeeps ==
    ASSUME TurnInv, AcceptTurn
    PROVE  TurnInv'
<1> DEFINE m == Head(queue)
<1>1. PICK f : f = Frame(m.turn, m.digest, "turn.accepted", None, 0, Origin)
  OBVIOUS
<1>2. /\ Receives({"turn.start"}) /\ active = None /\ Load(m.turn, m.digest) = "empty"
      /\ AppendFrame(f) /\ next' = After(Origin)
      /\ IF disabled'
         THEN Write(<<Unscoped>>) /\ UNCHANGED <<active, worker>>
         ELSE /\ Write(<<f>>)
              /\ active' = [turn |-> m.turn, digest |-> m.digest]
              /\ worker' = [NoWorker EXCEPT !.turn = m.turn, !.pc = "unborn"]
      /\ UNCHANGED <<life, starts, gate, attached, inputOpen, core>>
      /\ UNCHANGED <<runs, effects, outcome, ends>>
  BY <1>1 DEF AcceptTurn, clientVars, ghostVars
<1>3. /\ life > 0 /\ life \in Nat /\ core.pc = "loop" /\ Drops(1) /\ queue' \in Seq(Messages)
      /\ m \in Messages /\ m.type = "turn.start"
  BY <1>2, ReceiveFacts
<1>4. f = [turn |-> m.turn, digest |-> m.digest, kind |-> "turn.accepted", status |-> None,
           call |-> 0, seq |-> 0, id |-> 0, life |-> life, sure |-> TRUE]
  BY <1>1 DEF Frame, Origin
<1> HIDE DEF m
<1>5. m.turn \in Turns /\ m.digest \in Digests /\ [turn |-> m.turn, digest |-> m.digest] # None
  BY <1>3, MessageFacts
<1>6. f \in StoredFrames
  BY <1>3, <1>4, <1>5 DEF StoredFrames, StoredKinds, Statuses
<1>7. \A i \in 1..Len(log) : log[i].turn # m.turn
  BY <1>2, LoadFacts DEF TurnInv
<1>8. f.turn = m.turn /\ f.digest = m.digest /\ f.kind = "turn.accepted" /\ f.seq = 0 /\ f.sure
  BY <1>4
<1>9. Follows(f)
  BY <1>7, <1>8 DEF Follows
<1>10. /\ JournalStep /\ disabled' \in BOOLEAN
       /\ \A i \in 1..Len(log') :
             \/ i \in 1..Len(log) /\ log'[i] = log[i]
             \/ /\ log'[i].turn = f.turn /\ log'[i].digest = f.digest
                /\ log'[i].kind = f.kind /\ log'[i].seq = f.seq
       /\ ~disabled' => \E i \in 1..Len(log') :
             log'[i] = f /\ (f.sure /\ Authority(f.kind) => i <= synced')
  BY <1>2, <1>6, <1>8, <1>9, AppendKeeps
<1>11. next' = [seq |-> 1, ordinal |-> 1] /\ next' \in [seq : Nat, ordinal : Nat]
  BY <1>2 DEF After, Origin
<1>12. log' \in Seq(StoredFrames) /\ synced' \in 0..Len(log')
  BY <1>10 DEF JournalStep
<1>13. CASE disabled'
  <2>1. worker' \in Workers /\ Goes /\ RunsInv' /\ EffectInv'
    BY <1>2, <1>10, <1>13, SameWorker
  <2>2. out' \in Seq(StoredFrames \cup {Unscoped, Other}) /\ Writes /\ EndsInHand'
    BY <1>2, <1>3, <1>13, PlainWrite, WriteFacts
  <2>3. TurnTypes'
    BY <1>2, <1>3, <1>10, <1>11, <1>12, <1>13, <2>1, <2>2 DEF TurnInv, TurnTypes
  <2>4. ActiveIsStored'
    BY <1>2, <1>13 DEF ActiveIsStored
  <2> QED
    BY <1>2, <1>3, <1>10, <1>13, <2>1, <2>2, <2>3, <2>4, StepKeeps
<1>14. CASE ~disabled'
  <2>1. /\ active' = [turn |-> m.turn, digest |-> m.digest] /\ active' # None
        /\ active'.turn = m.turn /\ active'.digest = m.digest
    BY <1>2, <1>5, <1>14
  <2>2. /\ worker' \in Workers /\ worker'.turn = m.turn /\ worker'.pc = "unborn" /\ worker'.n = 0
    <3>1. worker' = [turn |-> m.turn, pc |-> "unborn", ev |-> None, n |-> 0, calls |-> 0,
                     cancelled |-> FALSE, result |-> None]
      BY <1>2, <1>14 DEF NoWorker
    <3>2. worker' \in Workers
      BY <1>5, <3>1 DEF Workers, Statuses
    <3> QED
      BY <3>1, <3>2
  <2>3. /\ out' \in Seq(StoredFrames \cup {Unscoped, Other})
        /\ \A k \in 1..Len(out') : out'[k].kind = "turn.accepted"
    <3>1. CASE out' = <<>>
      BY <3>1
    <3>2. CASE out' = <<f>>
      BY <1>6, <1>8, <3>2
    <3> QED
      BY <1>2, <1>14, <3>1, <3>2, WriteFacts
  <2>4. TurnTypes'
    BY <1>2, <1>3, <1>5, <1>10, <1>11, <1>12, <2>1, <2>2, <2>3 DEF TurnInv, TurnTypes
  <2>5. ActiveIsStored'
    <3>1. Accepted(active.turn)'
      <4>1. PICK i \in 1..Len(log') : log'[i] = f /\ i <= synced'
        BY <1>8, <1>10, <1>14 DEF Authority
      <4>2. i \in 1..synced'
        BY <1>12, <4>1
      <4> QED
        BY <1>8, <2>1, <4>1, <4>2 DEF Accepted
    <3>2. \A i \in 1..Len(log') : log'[i].turn = m.turn =>
             log'[i].digest = m.digest /\ log'[i].seq = 0 /\ log'[i].kind = "turn.accepted"
      BY <1>7, <1>8, <1>10
    <3> QED
      BY <1>11, <2>1, <3>1, <3>2 DEF ActiveIsStored
  <2>6. ThreadInv'
    <3>1. /\ gate' # "open"
          /\ \A i \in 1..Len(queue') : queue'[i].type \notin {"turn.start", "event", "complete"}
      BY <1>2, StartIsAlone
    <3>2. WorkerIsActive'
      BY <1>2, <1>3, <2>1, <2>2 DEF WorkerIsActive
    <3>3. EventsAreOwn'
      BY <3>1 DEF EventsAreOwn, Has
    <3>4. CompletionsAreLast'
      BY <1>2, <1>3, <3>1 DEF CompletionsAreLast, Has
    <3>5. OneTurnAtATime'
      BY <2>3, <3>1 DEF OneTurnAtATime, Has
    <3> QED
      BY <3>2, <3>3, <3>4, <3>5 DEF ThreadInv
  <2>7. RunsInv'
    <3>1. ~Accepted(m.turn)
      BY <1>7 DEF Accepted, TurnInv, TurnTypes
    <3>2. runs[m.turn] = 0
      BY <1>5, <3>1 DEF TurnInv, RunsInv, TurnTypes
    <3>3. \A t \in Turns : runs[t] > 0 => Accepted(t)'
      BY <1>10, AcceptedStays DEF TurnInv, RunsInv, JournalStep
    <3> QED
      BY <1>2, <2>2, <3>2, <3>3 DEF TurnInv, RunsInv, ProviderRunsOnce
  <2>8. EffectInv'
    BY <1>2, <1>10, <2>2, EffectsStay
  <2>9. EndsInHand'
    BY <2>3 DEF EndsInHand
  <2>10. EndsInv'
    BY <1>2, <1>10, <2>9, EndsStay
  <2> QED
    BY <1>10, <2>4, <2>5, <2>6, <2>7, <2>8, <2>10 DEF TurnInv, JournalInv, JournalStep
<1> QED
  BY <1>13, <1>14

(***************************************************************************)
(* The core works on the active turn                                       *)
(***************************************************************************)

LEMMA SeqType ==
    ASSUME TurnTypes
    PROVE  \A i \in 1..Len(log) : log[i].seq \in Nat
<1>1. \A i \in 1..Len(log) : log[i] \in StoredFrames
  BY DEF TurnTypes
<1>2. \A f \in StoredFrames : f.seq \in Nat
  BY DEF StoredFrames
<1> QED
  BY <1>1, <1>2

LEMMA ActiveStays ==
    ASSUME TurnInv, UNCHANGED <<log, synced, active>>, next' = next \/ next' = After(next)
    PROVE  ActiveIsStored' /\ next' \in [seq : Nat, ordinal : Nat]
<1>1. next \in [seq : Nat, ordinal : Nat]
  BY DEF TurnInv, TurnTypes
<1>2. /\ next' \in [seq : Nat, ordinal : Nat] /\ next.seq <= next'.seq
      /\ next.seq \in Nat /\ next'.seq \in Nat
  BY <1>1 DEF After
<1>3. \A i \in 1..Len(log) : log[i].seq \in Nat
  BY SeqType DEF TurnInv
<1>4. ActiveIsStored'
  BY <1>2, <1>3 DEF TurnInv, JournalInv, ActiveIsStored, Accepted
<1> QED
  BY <1>2, <1>4

\* A frame of the active turn at the cursors.
IsNext(f) ==
    /\ f \in StoredFrames /\ f.turn = active.turn /\ f.digest = active.digest
    /\ f.seq = next.seq /\ f.life = life /\ f.sure = TRUE /\ f.kind # "turn.accepted"

LEMMA ActiveFrameFacts ==
    ASSUME TurnInv, active # None
    PROVE  \A kind \in StoredKinds, status \in Statuses, call \in Nat :
              LET f == ActiveFrame(kind, status, call)
              IN  /\ kind # "turn.accepted" => IsNext(f)
                  /\ f.kind = kind /\ f.status = status /\ f.call = call
<1>1. /\ next \in [seq : Nat, ordinal : Nat] /\ life \in Nat
      /\ active \in [turn : Turns, digest : Digests]
  BY DEF TurnInv, TurnTypes
<1>2. ASSUME NEW kind \in StoredKinds, NEW status \in Statuses, NEW call \in Nat,
             NEW f, f = ActiveFrame(kind, status, call)
      PROVE  /\ kind # "turn.accepted" => IsNext(f)
             /\ f.kind = kind /\ f.status = status /\ f.call = call
  <2>1. f = [turn |-> active.turn, digest |-> active.digest, kind |-> kind, status |-> status,
             call |-> call, seq |-> next.seq, id |-> next.ordinal, life |-> life, sure |-> TRUE]
    BY <1>2 DEF ActiveFrame, Frame
  <2>2. f \in StoredFrames
    BY <1>1, <2>1 DEF StoredFrames
  <2> QED
    BY <2>1, <2>2 DEF IsNext
<1> QED
  BY <1>2

\* What appending one leaves.
LEMMA ActiveAppends ==
    ASSUME TurnInv, active # None, NEW f, IsNext(f), AppendFrame(f), UNCHANGED outcome,
           next' = After(next),
           f.kind = "turn.end" /\ Reports(f.status) => outcome[active.turn] = f.status
    PROVE  /\ JournalStep /\ disabled' \in BOOLEAN
           /\ ~disabled' => \E i \in 1..Len(log') :
                 log'[i] = f /\ (f.sure /\ Authority(f.kind) => i <= synced')
           /\ next' \in [seq : Nat, ordinal : Nat]
           /\ f.kind # "turn.end" /\ active' = active => ActiveIsStored'
<1>1. next \in [seq : Nat, ordinal : Nat]
  BY DEF TurnInv, TurnTypes
<1>4. /\ f \in StoredFrames /\ f.turn = active.turn /\ f.digest = active.digest
      /\ f.seq = next.seq /\ f.kind # "turn.accepted"
  BY DEF IsNext
<1>5. Follows(f)
  <2>1. \A i \in 1..Len(log) : log[i].turn = active.turn =>
           log[i].digest = active.digest /\ log[i].seq < next.seq /\ log[i].kind # "turn.end"
    BY DEF TurnInv, JournalInv, ActiveIsStored
  <2>2. \E i \in 1..Len(log) : log[i].turn = active.turn
    <3>1. PICK i \in 1..synced : log[i].turn = active.turn
      BY DEF TurnInv, JournalInv, ActiveIsStored, Accepted
    <3>2. i \in 1..Len(log)
      BY <3>1 DEF TurnInv, TurnTypes
    <3> QED
      BY <3>1, <3>2
  <2> QED
    BY <1>4, <2>1, <2>2 DEF Follows
<1>6. /\ JournalStep /\ disabled' \in BOOLEAN
      /\ \A i \in 1..Len(log') :
            \/ i \in 1..Len(log) /\ log'[i] = log[i]
            \/ /\ log'[i].turn = f.turn /\ log'[i].digest = f.digest
               /\ log'[i].kind = f.kind /\ log'[i].seq = f.seq
      /\ ~disabled' => \E i \in 1..Len(log') :
            log'[i] = f /\ (f.sure /\ Authority(f.kind) => i <= synced')
  BY <1>4, <1>5, AppendKeeps
<1>7. /\ next' \in [seq : Nat, ordinal : Nat] /\ next'.seq = next.seq + 1 /\ next.seq \in Nat
  BY <1>1 DEF After
<1>8. ASSUME f.kind # "turn.end", active' = active PROVE ActiveIsStored'
  <2>1. Accepted(active.turn)'
    <3>1. PICK t : t = active.turn
      OBVIOUS
    <3>2. Accepted(t)
      BY <3>1 DEF TurnInv, JournalInv, ActiveIsStored
    <3>3. Accepted(t)'
      BY <1>6, <3>2, AcceptedStays DEF TurnInv, JournalStep
    <3>4. t = active'.turn
      BY <1>8, <3>1
    <3> QED
      BY <3>3, <3>4 DEF Accepted
  <2>2. ASSUME NEW i \in 1..Len(log'), log'[i].turn = active.turn
        PROVE  log'[i].digest = active.digest /\ log'[i].seq < next'.seq /\ log'[i].kind # "turn.end"
    <3>1. CASE i \in 1..Len(log) /\ log'[i] = log[i]
      <4>1. log[i].seq \in Nat
        BY <3>1, SeqType DEF TurnInv
      <4>2. log[i].digest = active.digest /\ log[i].seq < next.seq /\ log[i].kind # "turn.end"
        BY <2>2, <3>1 DEF TurnInv, JournalInv, ActiveIsStored
      <4> QED
        BY <1>7, <3>1, <4>1, <4>2
    <3>2. CASE log'[i].digest = f.digest /\ log'[i].kind = f.kind /\ log'[i].seq = f.seq
      BY <1>4, <1>7, <1>8, <3>2
    <3> QED
      BY <1>6, <3>1, <3>2
  <2> QED
    BY <1>8, <2>1, <2>2 DEF ActiveIsStored
<1> QED
  BY <1>6, <1>7, <1>8

LEMMA RecvUselessKeeps ==
    ASSUME TurnInv, RecvUseless
    PROVE  TurnInv'
<1> DEFINE types == {"plain", "refused", "turn.cancel", "tool.cancel", "turn.start"}
<1>1. /\ Receives(types)
      /\ \/ Write(<<Unscoped>>) /\ next' = next
         \/ next' = After(next) /\ Write(<<Other>>)
      /\ UNCHANGED <<log, synced, disabled, life, starts, gate, attached, inputOpen, active, core>>
      /\ UNCHANGED <<worker, runs, effects, outcome, ends>>
  BY DEF RecvUseless, journalVars, clientVars, ghostVars
<1>2. JournalStep
  BY <1>1, SameJournal
<1>3. worker' \in Workers /\ Goes /\ RunsInv' /\ EffectInv'
  BY <1>1, <1>2, SameWorker
<1>4. /\ life > 0 /\ life \in Nat /\ core.pc = "loop" /\ Drops(1) /\ queue' \in Seq(Messages)
  BY <1>1, ReceiveFacts
<1>5. out' \in {<<>>, <<Unscoped>>, <<Other>>}
  BY <1>1, WriteFacts
<1>6. out' \in Seq(StoredFrames \cup {Unscoped, Other}) /\ Writes /\ EndsInHand'
  BY <1>1, <1>4, <1>5, PlainWrite
<1>7. ActiveIsStored' /\ next' \in [seq : Nat, ordinal : Nat]
  BY <1>1, ActiveStays
<1>8. TurnTypes'
  BY <1>1, <1>3, <1>4, <1>6, <1>7 DEF TurnInv, TurnTypes
<1> QED
  BY <1>1, <1>2, <1>3, <1>4, <1>6, <1>7, <1>8, StepKeeps

LEMMA RecvEofKeeps ==
    ASSUME TurnInv, RecvEof
    PROVE  TurnInv'
<1>1. /\ Receives({"eof"}) /\ inputOpen' = FALSE
      /\ UNCHANGED <<log, synced, disabled, life, starts, gate, attached, next, active, core, out>>
      /\ UNCHANGED <<worker, runs, effects, outcome, ends>>
  BY DEF RecvEof, journalVars, clientVars, ghostVars
<1>2. JournalStep
  BY <1>1, SameJournal
<1>3. worker' \in Workers /\ Goes /\ RunsInv' /\ EffectInv'
  BY <1>1, <1>2, SameWorker
<1>4. /\ life > 0 /\ life \in Nat /\ core.pc = "loop" /\ Drops(1) /\ queue' \in Seq(Messages)
      /\ out = <<>>
  BY <1>1, ReceiveFacts
<1>5. out' \in Seq(StoredFrames \cup {Unscoped, Other}) /\ Writes /\ EndsInHand'
  BY <1>1, <1>4, PlainWrite
<1>6. ActiveIsStored' /\ next' \in [seq : Nat, ordinal : Nat]
  BY <1>1, ActiveStays
<1>7. TurnTypes'
  BY <1>1, <1>3, <1>4, <1>5, <1>6 DEF TurnInv, TurnTypes
<1> QED
  BY <1>1, <1>2, <1>3, <1>4, <1>5, <1>6, <1>7, StepKeeps

\* turn.cancel and tool.cancel of the active turn.
LEMMA CancelKeeps ==
    ASSUME TurnInv, active # None, NEW types, Receives(types), NEW f, IsNext(f),
           f.kind \in {"turn.cancel.accepted", "tool.cancel.accepted"}, AppendFrame(f),
           Write(<<Other>>), next' = After(next),
           worker' = worker \/ worker' = [worker EXCEPT !.cancelled = TRUE],
           UNCHANGED <<life, starts, clientVars, attached, inputOpen, active, core, ghostVars>>
    PROVE  TurnInv'
<1>1. /\ UNCHANGED <<life, starts, gate, attached, inputOpen, active, core>>
      /\ UNCHANGED <<runs, effects, outcome, ends>>
  BY DEF clientVars, ghostVars
<1>2. f.kind # "turn.end" /\ f \in StoredFrames
  BY DEF IsNext
<1>3. /\ JournalStep /\ disabled' \in BOOLEAN /\ next' \in [seq : Nat, ordinal : Nat]
      /\ ActiveIsStored'
  BY <1>1, <1>2, ActiveAppends
<1>4. worker' \in Workers /\ Goes /\ RunsInv' /\ EffectInv'
  BY <1>1, <1>3, SameWorker
<1>5. /\ life > 0 /\ life \in Nat /\ core.pc = "loop" /\ Drops(1) /\ queue' \in Seq(Messages)
  BY ReceiveFacts
<1>6. out' \in {<<>>, <<Other>>}
  BY WriteFacts
<1>7. out' \in Seq(StoredFrames \cup {Unscoped, Other}) /\ Writes /\ EndsInHand'
  BY <1>1, <1>5, <1>6, PlainWrite
<1>8. log' \in Seq(StoredFrames) /\ synced' \in 0..Len(log')
  BY <1>3 DEF JournalStep
<1>9. TurnTypes'
  BY <1>1, <1>3, <1>4, <1>5, <1>7, <1>8 DEF TurnInv, TurnTypes
<1> QED
  BY <1>1, <1>3, <1>4, <1>5, <1>7, <1>9, StepKeeps

LEMMA CancelsKeep ==
    ASSUME TurnInv, RecvTurnCancel \/ RecvToolCancel
    PROVE  TurnInv'
<1>0. /\ {"turn.cancel.accepted", "tool.cancel.accepted"} \subseteq StoredKinds
      /\ None \in Statuses /\ 0 \in Nat
  BY DEF StoredKinds, Statuses
<1>1. CASE RecvTurnCancel
  <2>1. PICK f : f = ActiveFrame("turn.cancel.accepted", None, 0)
    OBVIOUS
  <2>2. /\ active # None /\ Receives({"turn.cancel"}) /\ AppendFrame(f)
        /\ Write(<<Other>>) /\ next' = After(next)
        /\ worker' = [worker EXCEPT !.cancelled = TRUE]
        /\ UNCHANGED <<life, starts, clientVars, attached, inputOpen, active, core, ghostVars>>
    BY <1>1, <2>1 DEF RecvTurnCancel
  <2>3. IsNext(f) /\ f.kind = "turn.cancel.accepted"
    BY <1>0, <2>1, <2>2, ActiveFrameFacts
  <2> QED
    BY <2>2, <2>3, CancelKeeps
<1>2. CASE RecvToolCancel
  <2>1. PICK f : f = ActiveFrame("tool.cancel.accepted", None, worker.calls)
    OBVIOUS
  <2>2. /\ active # None /\ Receives({"tool.cancel"}) /\ AppendFrame(f)
        /\ Write(<<Other>>) /\ next' = After(next)
        /\ worker' = worker
        /\ UNCHANGED <<life, starts, clientVars, attached, inputOpen, active, core, ghostVars>>
    BY <1>2, <2>1 DEF RecvToolCancel
  <2>3. worker.calls \in Nat
    BY DEF TurnInv, TurnTypes, Workers
  <2>4. IsNext(f) /\ f.kind = "tool.cancel.accepted"
    BY <1>0, <2>1, <2>2, <2>3, ActiveFrameFacts
  <2> QED
    BY <2>2, <2>4, CancelKeeps
<1> QED
  BY <1>1, <1>2

\* The receipt reaches the worker that waits for it, or nobody.
LEMMA AnsweredFacts ==
    ASSUME TurnInv, NEW types, Receives(types), Head(queue).type = "event", NEW ok \in BOOLEAN,
           worker' = Answered(Head(queue), ok)
              \/ worker' = [Answered(Head(queue), ok) EXCEPT !.cancelled = TRUE]
    PROVE  /\ worker' \in Workers /\ Goes
           /\ \/ /\ worker'.pc = worker.pc /\ worker'.ev = worker.ev /\ worker'.calls = worker.calls
                 /\ worker'.turn = worker.turn
              \/ /\ worker.pc = "wait" /\ worker.ev = Head(queue).kind
                 /\ worker.calls = Head(queue).call /\ worker'.calls = worker.calls
                 /\ worker'.turn = worker.turn
                 /\ worker'.pc \in {"provider", "done", "send", "spawn"}
                 /\ worker'.pc = "send" => worker'.ev # "TurnAccepted"
                 /\ worker'.pc = "spawn" => worker.ev = "tool.accepted" /\ ok
<1> DEFINE m == Head(queue)
           w == Answered(m, ok)
<1>1. worker \in Workers /\ worker.n \in Nat
  BY DEF TurnInv, TurnTypes, Workers
<1>2. m = queue[1] /\ 1 \in 1..Len(queue)
  BY ReceiveFacts
<1>3. CASE worker.turn = m.turn /\ worker.pc = "wait" /\ worker.n = m.n
  <2>1. worker.ev = m.kind /\ worker.calls = m.call /\ worker.ev \in Events
    BY <1>2, <1>3 DEF TurnInv, ThreadInv, EventsAreOwn, WorkerIsActive, Has
  <2>2. w = Resume(worker, ok)
    BY <1>3 DEF Answered
  <2> HIDE DEF w
  <2>3. /\ w \in Workers /\ w.turn = worker.turn /\ w.calls = worker.calls
        /\ w.pc \in {"provider", "done", "send", "spawn"}
        /\ w.pc # "send" => w.n = worker.n
        /\ w.pc = "send" => w.n = worker.n + 1 /\ w.ev \in {"TurnTerminal", "tool.result"}
        /\ w.pc = "spawn" => worker.ev = "tool.accepted" /\ ok
    BY <1>1, <2>1, <2>2, ResumeFacts
  <2>4. /\ worker' \in Workers /\ worker'.turn = worker.turn /\ worker'.calls = worker.calls
        /\ worker'.pc \in {"provider", "done", "send", "spawn"}
        /\ worker'.pc # "send" => worker'.n = worker.n
        /\ worker'.pc = "send" => worker'.n = worker.n + 1 /\ worker'.ev \in {"TurnTerminal", "tool.result"}
        /\ worker'.pc = "spawn" => worker.ev = "tool.accepted" /\ ok
    <3>1. worker' = w \/ worker' = [w EXCEPT !.cancelled = TRUE]
      BY DEF w
    <3> QED
      BY <2>3, <3>1 DEF Workers
  <2>5. Goes
    BY <1>1, <1>3, <2>4 DEF Goes, Events
  <2> QED
    BY <1>3, <2>1, <2>4, <2>5
<1>4. CASE ~(worker.turn = m.turn /\ worker.pc = "wait" /\ worker.n = m.n)
  <2>1. w = worker
    BY <1>4 DEF Answered
  <2>2. worker' = worker \/ worker' = [worker EXCEPT !.cancelled = TRUE]
    BY <2>1
  <2>3. /\ worker' \in Workers /\ worker'.turn = worker.turn /\ worker'.pc = worker.pc
        /\ worker'.ev = worker.ev /\ worker'.n = worker.n /\ worker'.calls = worker.calls
    BY <1>1, <2>2 DEF Workers
  <2>4. Goes
    BY <1>1, <2>3 DEF Goes, TurnInv, ThreadInv, WorkerIsActive
  <2> QED
    BY <2>3, <2>4
<1> QED
  BY <1>3, <1>4

LEMMA RecvEventKeeps ==
    ASSUME TurnInv, RecvEvent
    PROVE  TurnInv'
<1> DEFINE m == Head(queue)
<1>1. PICK f : f = ActiveFrame(m.kind, None, m.call)
  OBVIOUS
<1>2. PICK ok \in BOOLEAN : ok = ~disabled'
  OBVIOUS
<1>3. /\ Receives({"event"}) /\ active # None /\ m.kind \notin Silent /\ AppendFrame(f)
      /\ worker' = Answered(m, ok) \/ worker' = [Answered(m, ok) EXCEPT !.cancelled = TRUE]
      /\ Write(<<>>) \/ Write(<<Other>>)
      /\ next' = After(next)
      /\ UNCHANGED <<life, starts, gate, attached, inputOpen, active, core>>
      /\ UNCHANGED <<runs, effects, outcome, ends>>
  BY <1>1, <1>2 DEF RecvEvent, clientVars, ghostVars
<1>4. /\ life > 0 /\ life \in Nat /\ core.pc = "loop" /\ Drops(1) /\ queue' \in Seq(Messages)
      /\ m \in Messages /\ m.type = "event"
  BY <1>3, ReceiveFacts
<1>5. /\ worker' \in Workers /\ Goes
      /\ \/ /\ worker'.pc = worker.pc /\ worker'.ev = worker.ev /\ worker'.calls = worker.calls
            /\ worker'.turn = worker.turn
         \/ /\ worker.pc = "wait" /\ worker.ev = m.kind
            /\ worker.calls = m.call /\ worker'.calls = worker.calls
            /\ worker'.turn = worker.turn
            /\ worker'.pc \in {"provider", "done", "send", "spawn"}
            /\ worker'.pc = "send" => worker'.ev # "TurnAccepted"
            /\ worker'.pc = "spawn" => worker.ev = "tool.accepted" /\ ok
  BY <1>3, <1>4, AnsweredFacts
<1> HIDE DEF m
<1>6. /\ m.kind \in {"model.delta", "tool.accepted", "tool.started", "tool.result"} /\ m.call \in Nat
      /\ m.kind \in StoredKinds
  BY <1>3, <1>4, MessageFacts DEF Silent, Events, StoredKinds
<1>7. IsNext(f) /\ f.kind = m.kind /\ f.call = m.call
  <2>1. None \in Statuses /\ m.kind # "turn.accepted"
    BY <1>6 DEF Statuses
  <2> QED
    BY <1>1, <1>3, <1>6, <2>1, ActiveFrameFacts
<1>8. /\ JournalStep /\ disabled' \in BOOLEAN /\ next' \in [seq : Nat, ordinal : Nat]
      /\ ActiveIsStored'
      /\ ~disabled' => \E i \in 1..Len(log') :
            log'[i] = f /\ (f.sure /\ Authority(f.kind) => i <= synced')
  <2>1. f.kind # "turn.end"
    BY <1>6, <1>7
  <2> QED
    BY <1>3, <1>7, <2>1, ActiveAppends
<1>9. out' \in {<<>>, <<Other>>}
  BY <1>3, WriteFacts
<1>10. out' \in Seq(StoredFrames \cup {Unscoped, Other}) /\ Writes /\ EndsInHand'
  BY <1>3, <1>4, <1>9, PlainWrite
<1>11. log' \in Seq(StoredFrames) /\ synced' \in 0..Len(log') /\ LogShape' /\ Len(log') \in Nat
  BY <1>8 DEF JournalStep
<1>12. TurnTypes'
  BY <1>3, <1>4, <1>5, <1>8, <1>10, <1>11 DEF TurnInv, TurnTypes
<1>13. RunsInv'
  BY <1>3, <1>5, <1>8, RunsStay DEF Unasked
<1>14. EffectInv'
  <2>1. CASE worker'.pc = "spawn" => worker.pc = "spawn"
    BY <1>3, <1>5, <1>8, <2>1, EffectsStay
  <2>2. CASE worker'.pc = "spawn" /\ worker.pc # "spawn"
    <3>1. m.kind = "tool.accepted" /\ worker'.calls = m.call /\ ~disabled' /\ worker'.turn = active.turn
      BY <1>2, <1>3, <1>5, <2>2 DEF TurnInv, ThreadInv, WorkerIsActive
    <3>2. PICK j \in 1..Len(log') : log'[j] = f /\ j <= synced'
      BY <1>7, <1>8, <3>1 DEF IsNext, Authority
    <3>3. PICK i \in 1..j : log'[i].turn = log'[j].turn /\ log'[i].kind = "turn.accepted"
      BY <1>11, <3>2 DEF LogShape
    <3>4. i # j
      BY <1>7, <3>1, <3>2, <3>3
    <3>5. i \in DOMAIN log' /\ j \in DOMAIN log' /\ i < j /\ j \in 1..synced'
      BY <1>11, <3>2, <3>3, <3>4
    <3>6. f.turn = worker'.turn /\ f.life = life' /\ f.call = worker'.calls
      BY <1>3, <1>7, <3>1 DEF IsNext
    <3>7. CallAccepted(worker.turn, life, worker.calls)'
      BY <1>7, <3>1, <3>2, <3>3, <3>5, <3>6 DEF CallAccepted, Synced
    <3>8. EffectIsJournaled'
      <4>1. \A e \in effects : CallAccepted(e.turn, e.life, e.call)
        BY DEF TurnInv, EffectInv, EffectIsJournaled, CallAccepted
      <4>2. \A e \in effects' : CallAccepted(e.turn, e.life, e.call)'
        BY <1>3, <1>8, <4>1, JournaledStays
      <4> QED
        BY <4>2 DEF EffectIsJournaled, CallAccepted
    <3> QED
      BY <3>7, <3>8 DEF EffectInv
  <2> QED
    BY <2>1, <2>2
<1> QED
  BY <1>3, <1>4, <1>5, <1>8, <1>10, <1>12, <1>13, <1>14, StepKeeps

LEMMA RecvSilentEventKeeps ==
    ASSUME TurnInv, RecvSilentEvent
    PROVE  TurnInv'
<1> DEFINE m == Head(queue)
           asked == worker.ev = "TurnAccepted" /\ worker.pc # "provider" /\ worker'.pc = "provider"
<1>1. /\ Receives({"event"})
      /\ m.kind \in Silent \/ active = None
      /\ UNCHANGED <<log, synced, disabled, life, starts, gate, attached, inputOpen, next, active>>
      /\ UNCHANGED <<core, out, effects, outcome, ends>>
      /\ runs' = IF asked THEN [runs EXCEPT ![worker.turn] = @ + 1] ELSE runs
  BY DEF RecvSilentEvent, journalVars, clientVars
<1>2. /\ life > 0 /\ life \in Nat /\ core.pc = "loop" /\ Drops(1) /\ queue' \in Seq(Messages)
      /\ m \in Messages /\ m.type = "event" /\ m = queue[1] /\ 1 \in 1..Len(queue) /\ out = <<>>
  BY <1>1, ReceiveFacts
<1>3. active # None
  BY <1>2 DEF TurnInv, ThreadInv, EventsAreOwn, Has
<1>4. PICK ok \in BOOLEAN :
         worker' = Answered(m, ok) \/ worker' = [Answered(m, ok) EXCEPT !.cancelled = TRUE]
  BY <1>3 DEF RecvSilentEvent
<1>5. /\ worker' \in Workers /\ Goes
      /\ \/ /\ worker'.pc = worker.pc /\ worker'.ev = worker.ev /\ worker'.calls = worker.calls
            /\ worker'.turn = worker.turn
         \/ /\ worker.pc = "wait" /\ worker.ev = m.kind
            /\ worker.calls = m.call /\ worker'.calls = worker.calls
            /\ worker'.turn = worker.turn
            /\ worker'.pc \in {"provider", "done", "send", "spawn"}
            /\ worker'.pc = "send" => worker'.ev # "TurnAccepted"
            /\ worker'.pc = "spawn" => worker.ev = "tool.accepted" /\ ok
  BY <1>1, <1>2, <1>4, AnsweredFacts
<1> HIDE DEF m
<1>6. JournalStep
  BY <1>1, SameJournal
<1>7. out' \in Seq(StoredFrames \cup {Unscoped, Other}) /\ Writes /\ EndsInHand'
  BY <1>1, <1>2, PlainWrite
<1>8. ActiveIsStored' /\ next' \in [seq : Nat, ordinal : Nat]
  BY <1>1, ActiveStays
<1>9. EffectInv'
  BY <1>1, <1>3, <1>5, <1>6, EffectsStay DEF Silent
<1>10. worker.turn = active.turn /\ worker.turn \in Turns /\ runs \in [Turns -> Nat]
  BY <1>3 DEF TurnInv, TurnTypes, ThreadInv, WorkerIsActive
<1>11. RunsInv' /\ runs' \in [Turns -> Nat]
  <2>1. CASE ~asked
    BY <1>1, <1>5, <1>6, <1>10, <2>1, RunsStay DEF Unasked
  <2>2. CASE asked
    <3>1. runs[worker.turn] = 0
      BY <1>5, <2>2 DEF TurnInv, RunsInv, Unasked
    <3>2. /\ runs' \in [Turns -> Nat] /\ runs'[worker.turn] = 1
          /\ \A t \in Turns : t # worker.turn => runs'[t] = runs[t]
      BY <1>1, <1>10, <2>2, <3>1
    <3>3. Accepted(worker.turn)
      BY <1>3, <1>10 DEF TurnInv, JournalInv, ActiveIsStored
    <3>4. \A t \in Turns : runs'[t] > 0 => Accepted(t)
      BY <3>2, <3>3 DEF TurnInv, RunsInv
    <3>5. \A t \in Turns : runs'[t] > 0 => Accepted(t)'
      BY <1>1, <3>4 DEF Accepted
    <3>6. ProviderRunsOnce'
      BY <3>2 DEF ProviderRunsOnce, TurnInv, RunsInv
    <3>7. ~Unasked'
      BY <2>2 DEF Unasked
    <3> QED
      BY <3>2, <3>5, <3>6, <3>7 DEF RunsInv
  <2> QED
    BY <2>1, <2>2
<1>12. TurnTypes'
  BY <1>1, <1>2, <1>5, <1>7, <1>8, <1>11 DEF TurnInv, TurnTypes
<1> QED
  BY <1>1, <1>2, <1>5, <1>6, <1>7, <1>8, <1>9, <1>11, <1>12, StepKeeps

\* The worker's completion is the last word of its turn.
LEMMA RecvCompleteKeeps ==
    ASSUME TurnInv, RecvComplete
    PROVE  TurnInv'
<1> DEFINE m == Head(queue)
<1>1. /\ Receives({"complete"})
      /\ core' = IF active = None THEN core ELSE [pc |-> "joining", result |-> m.result]
      /\ UNCHANGED <<log, synced, disabled, life, starts, gate, attached, inputOpen, next, active>>
      /\ UNCHANGED <<out, worker, runs, effects, outcome, ends>>
  BY DEF RecvComplete, journalVars, clientVars, ghostVars
<1>2. JournalStep
  BY <1>1, SameJournal
<1>3. worker' \in Workers /\ Goes /\ RunsInv' /\ EffectInv'
  BY <1>1, <1>2, SameWorker
<1>4. /\ life > 0 /\ life \in Nat /\ core.pc = "loop" /\ Drops(1) /\ queue' \in Seq(Messages)
      /\ out = <<>> /\ m \in Messages /\ m.type = "complete" /\ m = queue[1] /\ 1 \in 1..Len(queue)
  BY <1>1, ReceiveFacts
<1> HIDE DEF m
<1>5. ActiveIsStored' /\ next' \in [seq : Nat, ordinal : Nat]
  BY <1>1, ActiveStays
<1>6. m.result \in Statuses /\ m.turn \in Turns
  BY <1>4, MessageFacts
<1>7. TurnTypes'
  <2>1. core' \in [pc : {"loop", "joining", "polled"}, result : Statuses]
    BY <1>1, <1>6 DEF TurnInv, TurnTypes
  <2> QED
    BY <1>1, <1>3, <1>4, <1>5, <2>1 DEF TurnInv, TurnTypes
<1>8. EndsInHand'
  BY <1>1, <1>4, NothingInHand
<1>9. CASE active = None
  <2>1. core' = core
    BY <1>1, <1>9
  <2>2. Writes
    BY <1>1, <1>4, <2>1, PlainWrite
  <2> QED
    BY <1>1, <1>2, <1>3, <1>4, <1>5, <1>7, <1>8, <2>1, <2>2, StepKeeps
<1>10. CASE active # None
  <2>1. /\ outcome[m.turn] = m.result /\ m.turn = active.turn /\ worker.pc = "exited"
        /\ \A j \in 1..Len(queue) : queue[j].type = "event" => j < 1
        /\ \A j \in 1..Len(queue) : queue[j].type = "complete" => 1 = j
    BY <1>4, <1>10 DEF TurnInv, ThreadInv, CompletionsAreLast, Has
  <2>2. \A j \in 1..Len(queue) : queue[j].type # "turn.start"
    BY <1>10 DEF TurnInv, ThreadInv, OneTurnAtATime, Has
  <2>3. ASSUME NEW i \in 1..Len(queue')
        PROVE  queue'[i].type \notin {"turn.start", "event", "complete"}
    <3>1. i + 1 \in 1..Len(queue) /\ queue'[i] = queue[i + 1]
      BY <1>4 DEF Drops
    <3>2. i \in Nat /\ i > 0
      BY <1>4
    <3>3. i + 1 # 1 /\ ~ (i + 1 < 1)
      BY <3>2
    <3> QED
      BY <2>1, <2>2, <3>1, <3>3
  <2>4. core'.pc = "joining" /\ core'.result = m.result
    BY <1>1, <1>10
  <2>5. WorkerIsActive'
    BY <1>1, <1>4, <1>10 DEF TurnInv, ThreadInv, WorkerIsActive
  <2>6. EventsAreOwn'
    BY <2>3 DEF EventsAreOwn, Has
  <2>7. CompletionsAreLast'
    BY <1>1, <1>4, <2>1, <2>3, <2>4 DEF CompletionsAreLast, Has
  <2>8. OneTurnAtATime'
    BY <1>1, <1>4, <2>3 DEF TurnInv, ThreadInv, OneTurnAtATime, Has
  <2>9. ThreadInv'
    BY <2>5, <2>6, <2>7, <2>8 DEF ThreadInv
  <2>10. EndsInv'
    BY <1>1, <1>2, <1>8, EndsStay
  <2> QED
    BY <1>2, <1>3, <1>5, <1>7, <2>9, <2>10 DEF TurnInv, JournalInv, JournalStep
<1> QED
  BY <1>9, <1>10

\* finish_active_turn, after the join or when the poll finds the worker gone.
LEMMA FinishKeeps ==
    ASSUME TurnInv, core.pc \in {"joining", "polled"}, life > 0, NEW status \in Statuses,
           Reports(status) => outcome[active.turn] = status, FinishActiveTurn(status)
    PROVE  TurnInv'
<1>1. PICK f : f = ActiveFrame("turn.end", status, 0)
  OBVIOUS
<1> DEFINE g == Delivered(f, disabled')
<1>2. /\ AppendFrame(f) /\ Write(<<g>>) /\ next' = After(next)
      /\ active' = None /\ core' = Idle /\ worker' = NoWorker
      /\ UNCHANGED <<queue, life, starts, gate, attached, inputOpen>>
      /\ UNCHANGED <<runs, effects, outcome, ends>>
  BY <1>1 DEF FinishActiveTurn, clientVars, ghostVars
<1>3. active # None /\ life \in Nat
  BY DEF TurnInv, TurnTypes, ThreadInv, WorkerIsActive
<1>4. IsNext(f) /\ f.kind = "turn.end" /\ f.status = status
  <2>1. "turn.end" \in StoredKinds /\ 0 \in Nat
    BY DEF StoredKinds
  <2> QED
    BY <1>1, <1>3, <2>1, ActiveFrameFacts
<1>5. /\ f \in StoredFrames /\ f.turn = active.turn /\ f.sure
      /\ active \in [turn : Turns, digest : Digests]
  BY <1>3, <1>4 DEF IsNext, TurnInv, TurnTypes
<1>6. /\ JournalStep /\ disabled' \in BOOLEAN /\ next' \in [seq : Nat, ordinal : Nat]
      /\ ~disabled' => \E i \in 1..Len(log') :
            log'[i] = f /\ (f.sure /\ Authority(f.kind) => i <= synced')
  BY <1>2, <1>3, <1>4, ActiveAppends
<1>7. /\ g \in StoredFrames /\ g.kind = "turn.end" /\ g.turn = f.turn
      /\ g.sure => /\ ~disabled' /\ g = f
                   /\ \E i \in 1..Len(log') : log'[i] = f /\ i <= synced'
  BY <1>4, <1>5, <1>6, EndInHand
<1> HIDE DEF g
<1>8. log' \in Seq(StoredFrames) /\ synced' \in 0..Len(log')
  BY <1>6 DEF JournalStep
<1>9. /\ out' \in Seq(StoredFrames \cup {Unscoped, Other})
      /\ \A k \in 1..Len(out') : out'[k] = g
  <2>1. CASE out' = <<>>
    BY <2>1
  <2>2. CASE out' = <<g>>
    BY <1>7, <2>2
  <2> QED
    BY <1>2, <2>1, <2>2, WriteFacts
<1>10. worker' \in Workers /\ worker'.pc = "none" /\ core'.pc = "loop"
       /\ core' \in [pc : {"loop", "joining", "polled"}, result : Statuses]
  BY <1>2, NoWorkerFacts
<1>11. TurnTypes'
  BY <1>2, <1>6, <1>8, <1>9, <1>10 DEF TurnInv, TurnTypes
<1>12. JournalInv'
  BY <1>2, <1>6 DEF JournalInv, JournalStep, ActiveIsStored
<1>13. ThreadInv'
  <2>1. \A i \in 1..Len(queue) : queue[i].type \notin {"event", "turn.start"}
    BY <1>3 DEF TurnInv, ThreadInv, EventsAreOwn, OneTurnAtATime, Has
  <2>2. WorkerIsActive'
    BY <1>2, <1>3, <1>10 DEF WorkerIsActive
  <2>3. EventsAreOwn'
    BY <1>2, <2>1 DEF EventsAreOwn, Has
  <2>4. CompletionsAreLast'
    BY <1>2, <1>10, <2>1 DEF TurnInv, ThreadInv, CompletionsAreLast, Has
  <2>5. OneTurnAtATime'
    BY <1>2, <1>7, <1>9, <2>1 DEF OneTurnAtATime, Has
  <2> QED
    BY <2>2, <2>3, <2>4, <2>5 DEF ThreadInv
<1>14. RunsInv'
  BY <1>2, <1>6, <1>10, RunsStay DEF Unasked
<1>15. EffectInv'
  BY <1>2, <1>6, <1>10, EffectsStay
<1>16. EndsInHand'
  <2>1. ASSUME NEW k \in 1..Len(out'), out'[k].sure
        PROVE  EndStored(out[k].turn, out[k].status)'
    <3>1. out'[k] = g /\ g = f
      BY <1>7, <1>9, <2>1
    <3>2. PICK i \in 1..Len(log') : log'[i] = f /\ i <= synced'
      BY <1>7, <1>9, <2>1
    <3>3. i \in DOMAIN log' /\ i \in 1..synced'
      BY <1>8, <3>2
    <3> QED
      BY <1>4, <3>1, <3>2, <3>3 DEF EndStored, Synced
  <2> QED
    BY <1>5, <1>7, <1>9, <2>1 DEF EndsInHand
<1>17. EndsInv'
  BY <1>2, <1>6, <1>16, EndsStay
<1> QED
  BY <1>6, <1>11, <1>12, <1>13, <1>14, <1>15, <1>17 DEF TurnInv, JournalStep

LEMMA FinishesKeep ==
    ASSUME TurnInv, JoinWorker \/ PollFindsExit
    PROVE  TurnInv'
<1>1. CASE JoinWorker
  <2>1. core.pc = "joining" /\ life > 0 /\ FinishActiveTurn(core.result)
    BY <1>1 DEF JoinWorker
  <2>2. core.result \in Statuses /\ core.result = outcome[active.turn]
    BY <2>1 DEF TurnInv, TurnTypes, ThreadInv, CompletionsAreLast
  <2> QED
    BY <2>1, <2>2, FinishKeeps
<1>2. CASE PollFindsExit
  <2>1. core.pc = "polled" /\ life > 0 /\ FinishActiveTurn("host_failed")
    BY <1>2 DEF PollFindsExit
  <2>2. "host_failed" \in Statuses /\ ~Reports("host_failed")
    BY DEF Statuses, Reports
  <2> QED
    BY <2>1, <2>2, FinishKeeps
<1> QED
  BY <1>1, <1>2

\* The poll itself.
LEMMA PollsKeep ==
    ASSUME TurnInv, PollExpires \/ PollFindsWorker
    PROVE  TurnInv'
<1>1. /\ UNCHANGED <<log, synced, disabled, life, starts, gate, attached, queue, inputOpen, next>>
      /\ UNCHANGED <<active, out, worker, runs, effects, outcome, ends>>
  BY DEF PollExpires, PollFindsWorker, journalVars, clientVars, ghostVars
<1>2. JournalStep
  BY <1>1, SameJournal
<1>3. worker' \in Workers /\ RunsInv' /\ EffectInv'
  BY <1>1, <1>2, SameWorker
<1>4. active # None /\ out = <<>>
  BY DEF PollExpires, PollFindsWorker, Receiving, TurnInv, ThreadInv, WorkerIsActive,
         CompletionsAreLast
<1>5. \/ core'.pc = "loop"
      \/ core'.pc = "polled" /\ queue = <<>> /\ worker.pc \in {"done", "exited"}
  BY DEF PollExpires, PollFindsWorker, Idle
<1>6. TurnTypes'
  <2>1. core' \in [pc : {"loop", "joining", "polled"}, result : Statuses]
    BY DEF PollExpires, PollFindsWorker, Idle, Statuses
  <2> QED
    BY <1>1, <2>1 DEF TurnInv, TurnTypes
<1>7. ActiveIsStored'
  BY <1>1, ActiveStays
<1>8. ThreadInv'
  <2>1. queue = <<>> => 1..Len(queue) = {}
    OBVIOUS
  <2>2. WorkerIsActive'
    BY <1>1, <1>4 DEF TurnInv, ThreadInv, WorkerIsActive
  <2>3. EventsAreOwn'
    BY <1>1, <1>5, <2>1 DEF TurnInv, ThreadInv, EventsAreOwn, Has
  <2>4. CompletionsAreLast'
    BY <1>1, <1>4, <1>5 DEF TurnInv, ThreadInv, CompletionsAreLast, Has
  <2>5. OneTurnAtATime'
    BY <1>1 DEF TurnInv, ThreadInv, OneTurnAtATime, Has
  <2> QED
    BY <2>2, <2>3, <2>4, <2>5 DEF ThreadInv
<1>9. EndsInHand'
  BY <1>1, <1>4, NothingInHand
<1>10. EndsInv'
  BY <1>1, <1>2, <1>9, EndsStay
<1> QED
  BY <1>2, <1>3, <1>6, <1>7, <1>8, <1>10 DEF TurnInv, JournalInv, JournalStep

(***************************************************************************)
(* The frames reach the v7 host                                            *)
(***************************************************************************)

LEMMA RestOf ==
    ASSUME NEW S, NEW q \in Seq(S), NEW i \in 1..Len(q)
    PROVE  LET r == SubSeq(q, i + 1, Len(q)) IN
           /\ r \in Seq(S)
           /\ Len(r) = Len(q) - i
           /\ \A k \in 1..Len(r) : i + k \in 1..Len(q) /\ r[k] = q[i + k]
<1> DEFINE r == SubSeq(q, i + 1, Len(q))
<1>1. r \in Seq(S) /\ Len(r) = Len(q) - i
  OBVIOUS
<1>2. ASSUME NEW k \in 1..Len(r) PROVE i + k \in 1..Len(q) /\ r[k] = q[i + k]
  <2>1. k \in 1..(Len(q) - i) /\ i + k \in 1..Len(q) /\ (i + 1) + k - 1 = i + k
    BY <1>1
  <2>2. r[k] = q[(i + 1) + k - 1]
    BY <2>1
  <2> QED
    BY <2>1, <2>2
<1> QED
  BY <1>1, <1>2

LEMMA DeliverFrameKeeps ==
    ASSUME TurnInv, DeliverFrame
    PROVE  TurnInv'
<1>1. PICK i \in DOMAIN out :
        /\ gate' = GateAfter(out[i].kind)
        /\ ends' = IF out[i].kind = "turn.end" /\ out[i].sure
                   THEN [ends EXCEPT ![out[i].turn] = @ \cup {out[i].status}] ELSE ends
        /\ out' = Remaining(SubSeq(out, i + 1, Len(out)))
  BY DEF DeliverFrame
<1>2. /\ life > 0
      /\ UNCHANGED <<log, synced, disabled, life, starts, attached, queue, inputOpen, next, active>>
      /\ UNCHANGED <<core, worker, runs, effects, outcome>>
  BY DEF DeliverFrame, journalVars
<1>3. /\ out \in Seq(StoredFrames \cup {Unscoped, Other}) /\ Len(out) \in Nat
      /\ i \in 1..Len(out) /\ out # <<>> /\ life \in Nat
  BY <1>1 DEF TurnInv, TurnTypes
<1>4. /\ out' \in Seq(StoredFrames \cup {Unscoped, Other})
      /\ \A k \in 1..Len(out') : /\ i + k \in 1..Len(out) /\ out'[k] = out[i + k]
                                 /\ Len(out') = Len(out) - i
  <2>1. CASE out' = <<>>
    BY <2>1
  <2>2. CASE out' = SubSeq(out, i + 1, Len(out))
    BY <1>3, <2>2, RestOf
  <2> QED
    BY <1>1, <2>1, <2>2 DEF Remaining
<1>5. core.pc = "loop"
  BY <1>3 DEF TurnInv, TurnTypes, ThreadInv, CompletionsAreLast
<1>6. JournalStep
  BY <1>2, SameJournal
<1>7. worker' \in Workers /\ RunsInv' /\ EffectInv'
  BY <1>2, <1>6, SameWorker
<1>8. /\ out[i].kind = "turn.end" =>
            out[i].turn \in Turns /\ (out[i].sure => EndStored(out[i].turn, out[i].status))
  BY <1>3 DEF TurnInv, EndsInv, EndsInHand
<1>9. /\ ends' \in [Turns -> SUBSET Statuses]
      /\ \A t \in Turns : \A status \in ends'[t] : EndStored(t, status)
  <2>1. /\ ends \in [Turns -> SUBSET Statuses]
        /\ \A t \in Turns : \A status \in ends[t] : EndStored(t, status)
    BY DEF TurnInv, TurnTypes, EndsInv, ShownEndIsDurable, EndStored
  <2>2. CASE out[i].kind = "turn.end" /\ out[i].sure
    <3>1. out[i].turn \in Turns /\ EndStored(out[i].turn, out[i].status)
      BY <1>8, <2>2
    <3>2. out[i].status \in Statuses
      <4>1. out[i] \in StoredFrames
        BY <1>3, <2>2 DEF Unscoped, Other
      <4> QED
        BY <4>1 DEF StoredFrames
    <3>3. ends' = [ends EXCEPT ![out[i].turn] = @ \cup {out[i].status}]
      BY <1>1, <2>2
    <3> QED
      BY <2>1, <3>1, <3>2, <3>3
  <2>3. CASE ~(out[i].kind = "turn.end" /\ out[i].sure)
    BY <1>1, <2>1, <2>3
  <2> QED
    BY <2>2, <2>3
<1>10. gate' \in {"open", "pending", "active", "failed", "eof"}
  BY <1>1 DEF TurnInv, TurnTypes, GateAfter
<1>11. TurnTypes'
  BY <1>2, <1>4, <1>7, <1>9, <1>10 DEF TurnInv, TurnTypes
<1>12. ActiveIsStored'
  BY <1>2, ActiveStays
<1>13. ThreadInv'
  <2>1. WorkerIsActive'
    BY <1>2, <1>3 DEF TurnInv, ThreadInv, WorkerIsActive
  <2>2. EventsAreOwn'
    BY <1>2 DEF TurnInv, ThreadInv, EventsAreOwn, Has
  <2>3. CompletionsAreLast'
    BY <1>2, <1>5 DEF TurnInv, ThreadInv, CompletionsAreLast, Has
  <2>4. OneTurnAtATime'
    <3>1. ASSUME NEW k \in 1..Len(queue'), Has(k, "turn.start")'
          PROVE  /\ active' = None
                 /\ gate' \in {"pending", "failed", "eof"}
                 /\ \A j \in 1..Len(out') : out'[j].kind # "turn.accepted"
                 /\ \A j \in 1..Len(queue') : Has(j, "turn.start")' => k = j
      <4>1. /\ active = None
            /\ gate \in {"pending", "failed", "eof"}
            /\ \A j \in 1..Len(out) : out[j].kind # "turn.accepted"
            /\ \A j \in 1..Len(queue) : Has(j, "turn.start") => k = j
        BY <1>2, <3>1 DEF TurnInv, ThreadInv, OneTurnAtATime, Has
      <4>2. gate' \in {"pending", "failed", "eof"}
        BY <1>1, <1>3, <4>1 DEF GateAfter
      <4> QED
        BY <1>2, <1>4, <4>1, <4>2 DEF Has
    <3>2. ASSUME gate' = "open"
          PROVE  active' = None /\ \A j \in 1..Len(out') : out'[j].kind # "turn.accepted"
      <4>1. CASE gate = "open"
        BY <1>2, <1>4, <4>1 DEF TurnInv, ThreadInv, OneTurnAtATime
      <4>2. CASE gate = "active" /\ out[i].kind = "turn.end"
        <5>1. active = None /\ \A j \in i..Len(out) : out[j].kind # "turn.accepted"
          BY <1>3, <4>2 DEF TurnInv, ThreadInv, OneTurnAtATime
        <5>2. \A j \in 1..Len(out') : i + j \in i..Len(out)
          BY <1>3, <1>4
        <5> QED
          BY <1>2, <1>4, <5>1, <5>2
      <4> QED
        BY <1>1, <3>2, <4>1, <4>2 DEF GateAfter
    <3>3. ASSUME NEW k \in 1..Len(out'), out'[k].kind = "turn.end"
          PROVE  active' = None /\ \A j \in k..Len(out') : out'[j].kind # "turn.accepted"
      <4>1. i + k \in 1..Len(out) /\ out[i + k].kind = "turn.end" /\ Len(out') \in Nat /\ k \in 1..Len(out')
        BY <1>4, <3>3
      <4>2. active = None /\ \A j \in (i + k)..Len(out) : out[j].kind # "turn.accepted"
        BY <4>1 DEF TurnInv, ThreadInv, OneTurnAtATime
      <4>3. \A j \in k..Len(out') : j \in 1..Len(out') /\ i + j \in (i + k)..Len(out)
        BY <1>3, <1>4, <4>1
      <4> QED
        BY <1>2, <1>4, <4>2, <4>3
    <3> QED
      BY <3>1, <3>2, <3>3 DEF OneTurnAtATime
  <2> QED
    BY <2>1, <2>2, <2>3, <2>4 DEF ThreadInv
<1>14. EndsInv'
  <2>1. ShownEndIsDurable'
    BY <1>2, <1>9 DEF ShownEndIsDurable, EndStored, Synced
  <2>2. EndsInHand'
    <3>1. ASSUME NEW k \in 1..Len(out'), out'[k].kind = "turn.end"
          PROVE  out'[k].turn \in Turns /\ (out'[k].sure => EndStored(out[k].turn, out[k].status)')
      <4>1. PICK f : f = out'[k] /\ f = out[i + k] /\ i + k \in 1..Len(out)
        BY <1>4
      <4>2. f.turn \in Turns /\ (f.sure => EndStored(f.turn, f.status))
        BY <3>1, <4>1 DEF TurnInv, EndsInv, EndsInHand
      <4>3. f.sure => EndStored(f.turn, f.status)'
        BY <1>6, <4>2, StoredEndsStay
      <4> QED
        BY <4>1, <4>2, <4>3 DEF EndStored
    <3> QED
      BY <3>1 DEF EndsInHand
  <2> QED
    BY <2>1, <2>2 DEF EndsInv
<1> QED
  BY <1>6, <1>7, <1>11, <1>12, <1>13, <1>14 DEF TurnInv, JournalInv, JournalStep

\* A step that changes the worker and leaves the queue and the turn alone.
LEMMA LocalKeeps ==
    ASSUME TurnInv, worker' \in Workers, Goes, out' = out \/ out' = <<>>, RunsInv', EffectInv',
           attached' \in BOOLEAN,
           UNCHANGED <<journalVars, life, starts, clientVars, queue, inputOpen, next, active, core>>,
           UNCHANGED <<runs, outcome, ends>>
    PROVE  TurnInv'
<1>1. /\ UNCHANGED <<log, synced, disabled, life, starts, gate, queue, inputOpen, next, active>>
      /\ UNCHANGED <<core, runs, outcome, ends>>
  BY DEF journalVars, clientVars
<1>2. JournalStep
  BY <1>1, SameJournal
<1>3. Drops(0)
  <2>1. queue \in Seq(Messages) /\ queue' = queue
    BY <1>1 DEF TurnInv, TurnTypes
  <2> QED
    BY <2>1 DEF Drops
<1>4. ActiveIsStored'
  BY <1>1, ActiveStays
<1>5. out' \in Seq(StoredFrames \cup {Unscoped, Other})
  <2>1. out \in Seq(StoredFrames \cup {Unscoped, Other})
    BY DEF TurnInv, TurnTypes
  <2>2. CASE out' = <<>>
    BY <2>2
  <2> QED
    BY <2>1, <2>2
<1>6. Writes
  <2>1. CASE out' = out
    BY <1>1, <2>1 DEF Writes, TurnInv, TurnTypes, ThreadInv, OneTurnAtATime, WorkerIsActive,
                      CompletionsAreLast, Has
  <2>2. CASE out' = <<>>
    <3>1. 1..Len(out') = {}
      BY <2>2
    <3> QED
      BY <2>2, <3>1 DEF Writes
  <2> QED
    BY <2>1, <2>2
<1>7. EndsInHand'
  <2>1. CASE out' = out
    BY <1>1, <2>1 DEF TurnInv, EndsInv, EndsInHand, EndStored, Synced
  <2>2. CASE out' = <<>>
    BY <2>2, NothingInHand
  <2> QED
    BY <2>1, <2>2
<1>8. TurnTypes'
  BY <1>1, <1>5 DEF TurnInv, TurnTypes
<1> QED
  BY <1>1, <1>2, <1>3, <1>4, <1>6, <1>7, <1>8, StepKeeps

\* A frame that says nothing of a turn is written.
LEMMA DeliverOtherKeeps ==
    ASSUME TurnInv, DeliverOther
    PROVE  TurnInv'
<1>1. /\ UNCHANGED <<log, synced, outcome, worker, runs, effects, life, ends, attached>>
      /\ out' = <<>>
      /\ UNCHANGED <<journalVars, life, starts, clientVars, queue, inputOpen, next, active, core>>
  BY DEF DeliverOther, journalVars, ghostVars
<1>2. worker' \in Workers /\ Goes /\ RunsInv' /\ EffectInv'
  BY <1>1, SameJournal, SameWorker
<1>3. attached' \in BOOLEAN
  BY <1>1 DEF TurnInv, TurnTypes
<1> QED
  BY <1>1, <1>2, <1>3, LocalKeeps

LEMMA DeliveryFailsKeeps ==
    ASSUME TurnInv, DeliveryFails
    PROVE  TurnInv'
<1>1. /\ UNCHANGED <<log, synced, outcome, worker, runs, effects, life, ends>> /\ attached' = FALSE
      /\ out' = <<>>
      /\ UNCHANGED <<journalVars, life, starts, clientVars, queue, inputOpen, next, active, core>>
  BY DEF DeliveryFails, journalVars, ghostVars
<1>2. worker' \in Workers /\ Goes /\ RunsInv' /\ EffectInv'
  BY <1>1, SameJournal, SameWorker
<1> QED
  BY <1>1, <1>2, LocalKeeps

(***************************************************************************)
(* The worker                                                              *)
(***************************************************************************)

\* A step of the worker's own within its turn.
LEMMA WorkerGoes ==
    ASSUME TurnInv, worker' \in Workers, worker'.turn = worker.turn,
           worker'.pc \notin {"none", "unborn", "wait"}, worker.pc \notin {"none", "done", "exited"},
           worker.n <= worker'.n,
           worker'.pc = "send" => worker.n < worker'.n /\ worker'.ev \in Events,
           Unasked' => Unasked, worker'.pc # "spawn",
           UNCHANGED <<journalVars, life, starts, clientVars, attached, loopVars, ghostVars>>
    PROVE  TurnInv'
<1>1. /\ UNCHANGED <<log, synced, outcome, runs, effects, life, ends, out, attached>>
      /\ UNCHANGED <<journalVars, life, starts, clientVars, queue, inputOpen, next, active, core>>
  BY DEF journalVars, loopVars, ghostVars
<1>2. Goes
  BY DEF Goes
<1>3. JournalStep
  BY <1>1, SameJournal
<1>4. RunsInv'
  BY <1>1, <1>3, RunsStay
<1>5. EffectInv'
  BY <1>1, <1>3, EffectsStay
<1>6. attached' \in BOOLEAN
  BY <1>1 DEF TurnInv, TurnTypes
<1> QED
  BY <1>1, <1>2, <1>4, <1>5, <1>6, LocalKeeps

LEMMA WorkerType ==
    ASSUME TurnInv
    PROVE  worker \in Workers /\ worker.n \in Nat /\ worker.calls \in Nat
  BY DEF TurnInv, TurnTypes, Workers

LEMMA SpawnWorkerKeeps ==
    ASSUME TurnInv, SpawnWorker
    PROVE  TurnInv'
<1>1. /\ worker' = [worker EXCEPT !.pc = "send", !.ev = "TurnAccepted", !.n = 1]
      /\ worker.pc = "unborn" /\ worker.n = 0
      /\ UNCHANGED <<journalVars, life, starts, clientVars, attached, loopVars, ghostVars>>
  BY DEF SpawnWorker, TurnInv, ThreadInv, WorkerIsActive
<1>2. /\ worker' \in Workers /\ worker'.pc = "send" /\ worker'.n = 1 /\ worker'.turn = worker.turn
      /\ worker'.ev = "TurnAccepted" /\ worker'.ev \in Events
  BY <1>1, WorkerType DEF Workers, Events
<1> QED
  BY <1>1, <1>2, WorkerGoes DEF Unasked

LEMMA WorkerExpiresKeeps ==
    ASSUME TurnInv, WorkerExpires
    PROVE  TurnInv'
<1>1. /\ worker.pc \in {"send", "wait"} /\ worker' = Resume(worker, FALSE) /\ worker.ev \in Events
      /\ UNCHANGED <<journalVars, life, starts, clientVars, attached, loopVars, ghostVars>>
  BY DEF WorkerExpires, TurnInv, ThreadInv, WorkerIsActive
<1>2. /\ worker' \in Workers /\ worker'.turn = worker.turn
      /\ worker'.pc \in {"provider", "done", "send", "spawn"}
      /\ worker'.pc # "send" => worker'.n = worker.n
      /\ worker'.pc = "send" => worker'.n = worker.n + 1 /\ worker'.ev \in {"TurnTerminal", "tool.result"}
      /\ worker'.pc # "spawn"
  BY <1>1, WorkerType, ResumeFacts
<1>3. worker.n <= worker'.n /\ (worker'.pc = "send" => worker.n < worker'.n)
  BY <1>2, WorkerType
<1> QED
  BY <1>1, <1>2, <1>3, WorkerGoes DEF Unasked, Events

\* The steps that end in the sending of another event.
LEMMA EmitKeeps ==
    ASSUME TurnInv, worker.pc \in {"provider", "spawn"}, NEW w \in Workers, w.turn = worker.turn,
           w.n = worker.n, NEW ev \in Events, ev # "TurnAccepted", worker' = Emit(w, ev),
           UNCHANGED <<journalVars, life, starts, clientVars, attached, loopVars, ghostVars>>
    PROVE  TurnInv'
<1>1. /\ worker' \in Workers /\ worker'.turn = worker.turn /\ worker'.pc = "send"
      /\ worker'.n = worker.n + 1 /\ worker'.ev = ev
  BY EmitFacts
<1>2. worker.n <= worker'.n /\ worker.n < worker'.n
  BY <1>1, WorkerType
<1> QED
  BY <1>1, <1>2, WorkerGoes DEF Unasked

LEMMA ProviderKeeps ==
    ASSUME TurnInv,
           \/ ProviderEmits \/ ProviderCalls \/ ProviderCallsInVain \/ ProviderEnds
           \/ ToolDoesNotSpawn
    PROVE  TurnInv'
<1>1. /\ worker.pc \in {"provider", "spawn"}
      /\ UNCHANGED <<journalVars, life, starts, clientVars, attached, loopVars, ghostVars>>
  BY DEF ProviderEmits, ProviderCalls, ProviderCallsInVain, ProviderEnds, ToolDoesNotSpawn
<1>2. {"model.delta", "tool.accepted", "tool.result", "TurnTerminal"} \subseteq Events
  BY DEF Events
<1>3. CASE ProviderEmits \/ ToolDoesNotSpawn
  BY <1>1, <1>2, <1>3, WorkerType, EmitKeeps DEF ProviderEmits, ToolDoesNotSpawn
<1>4. CASE ProviderCalls \/ ProviderCallsInVain
  <2>1. PICK c \in Nat : c = worker.calls + 1
    BY WorkerType
  <2>2. PICK w : w = [worker EXCEPT !.calls = c]
    OBVIOUS
  <2>3. w \in Workers /\ w.turn = worker.turn /\ w.n = worker.n
    BY <2>2, WorkerType DEF Workers
  <2>4. w = [worker EXCEPT !.calls = @ + 1]
    BY <2>1, <2>2
  <2>5. worker' = Emit(w, "tool.accepted") \/ worker' = Emit(w, "tool.result")
    BY <1>4, <2>4 DEF ProviderCalls, ProviderCallsInVain
  <2> QED
    BY <1>1, <1>2, <2>3, <2>5, EmitKeeps
<1>5. CASE ProviderEnds
  <2>1. PICK result \in {"completed", "cancelled"} : worker' = Terminal(worker, result)
    BY <1>5 DEF ProviderEnds
  <2>2. PICK w : w = [worker EXCEPT !.result = result]
    OBVIOUS
  <2>3. w \in Workers /\ w.turn = worker.turn /\ w.n = worker.n
    BY <2>2, WorkerType DEF Workers, Statuses
  <2>4. worker' = Emit(w, "TurnTerminal")
    BY <2>1, <2>2 DEF Terminal
  <2> QED
    BY <1>1, <1>2, <2>3, <2>4, EmitKeeps
<1> QED
  BY <1>3, <1>4, <1>5

\* A process is started only for a call whose acceptance is on stable storage.
LEMMA ToolSpawnsKeeps ==
    ASSUME TurnInv, ToolSpawns
    PROVE  TurnInv'
<1>1. /\ worker.pc = "spawn" /\ worker' = Emit(worker, "tool.started")
      /\ effects' = effects \cup {[turn |-> worker.turn, life |-> life, call |-> worker.calls]}
      /\ UNCHANGED <<log, synced, outcome, runs, life, ends, out, attached>>
      /\ UNCHANGED <<journalVars, life, starts, clientVars, queue, inputOpen, next, active, core>>
  BY DEF ToolSpawns, journalVars, loopVars
<1>2. /\ worker' \in Workers /\ worker'.turn = worker.turn /\ worker'.pc = "send"
      /\ worker'.n = worker.n + 1 /\ worker'.ev = "tool.started" /\ worker'.ev \in Events
  <2>1. "tool.started" \in Events
    BY DEF Events
  <2> QED
    BY <1>1, <2>1, WorkerType, EmitFacts
<1>3. Goes
  BY <1>1, <1>2, WorkerType DEF Goes
<1>4. JournalStep
  BY <1>1, SameJournal
<1>5. RunsInv'
  BY <1>1, <1>2, <1>4, RunsStay DEF Unasked
<1>6. EffectInv'
  <2>1. \A e \in effects : CallAccepted(e.turn, e.life, e.call)
    BY DEF TurnInv, EffectInv, EffectIsJournaled, CallAccepted
  <2>2. CallAccepted(worker.turn, life, worker.calls)
    BY <1>1 DEF TurnInv, EffectInv
  <2>3. \A e \in effects' : CallAccepted(e.turn, e.life, e.call)
    BY <1>1, <2>1, <2>2
  <2>4. \A e \in effects' : CallAccepted(e.turn, e.life, e.call)'
    BY <1>4, <2>3, JournaledStays
  <2>5. EffectIsJournaled'
    BY <2>4 DEF EffectIsJournaled, CallAccepted
  <2> QED
    BY <1>2, <2>5 DEF EffectInv
<1>7. attached' \in BOOLEAN
  BY <1>1 DEF TurnInv, TurnTypes
<1> QED
  BY <1>1, <1>2, <1>3, <1>5, <1>6, <1>7, LocalKeeps

LEMMA WorkerPanicsKeeps ==
    ASSUME TurnInv, WorkerPanics
    PROVE  TurnInv'
<1>1. /\ worker.pc = "done" /\ worker' = [worker EXCEPT !.pc = "exited"]
      /\ UNCHANGED <<log, synced, outcome, runs, effects, life, ends, out, attached>>
      /\ UNCHANGED <<journalVars, life, starts, clientVars, queue, inputOpen, next, active, core>>
  BY DEF WorkerPanics, journalVars, loopVars, ghostVars
<1>2. worker' \in Workers /\ worker'.turn = worker.turn /\ worker'.pc = "exited" /\ worker'.n = worker.n
  BY <1>1, WorkerType DEF Workers
<1>3. Goes
  BY <1>1, <1>2, WorkerType DEF Goes
<1>4. JournalStep
  BY <1>1, SameJournal
<1>5. RunsInv'
  BY <1>1, <1>2, <1>4, RunsStay DEF Unasked
<1>6. EffectInv'
  BY <1>1, <1>2, <1>4, EffectsStay
<1>7. attached' \in BOOLEAN
  BY <1>1 DEF TurnInv, TurnTypes
<1> QED
  BY <1>1, <1>2, <1>3, <1>5, <1>6, <1>7, LocalKeeps

LEMMA WorkerSendsKeeps ==
    ASSUME TurnInv, WorkerSends
    PROVE  TurnInv'
<1>1. PICK m : m = [type |-> "event", turn |-> worker.turn, kind |-> worker.ev, n |-> worker.n,
                    call |-> worker.calls]
  OBVIOUS
<1>2. /\ worker.pc = "send" /\ queue' = Append(queue, m) /\ worker' = [worker EXCEPT !.pc = "wait"]
      /\ UNCHANGED <<log, synced, disabled, life, starts, gate, attached, inputOpen, next, active>>
      /\ UNCHANGED <<core, out, runs, effects, outcome, ends>>
  BY <1>1 DEF WorkerSends, journalVars, clientVars, ghostVars
<1>3. /\ worker.turn \in Turns /\ worker.ev \in Events /\ active # None /\ core.pc = "loop"
      /\ life > 0
  BY <1>2 DEF TurnInv, TurnTypes, ThreadInv, WorkerIsActive, CompletionsAreLast
<1>4. /\ worker' \in Workers /\ worker'.turn = worker.turn /\ worker'.pc = "wait"
      /\ worker'.ev = worker.ev /\ worker'.n = worker.n /\ worker'.calls = worker.calls
  BY <1>2, WorkerType DEF Workers
<1>5. /\ m \in Messages /\ m.type = "event" /\ m.turn = worker.turn /\ m.kind = worker.ev
      /\ m.n = worker.n /\ m.call = worker.calls
  BY <1>1, <1>3, WorkerType DEF Messages
<1> DEFINE n == Len(queue) + 1
<1>6. /\ queue' \in Seq(Messages) /\ Len(queue) \in Nat /\ Len(queue') = n /\ queue'[n] = m
      /\ \A i \in 1..Len(queue') : i = n \/ (i \in 1..Len(queue) /\ queue'[i] = queue[i])
  BY <1>2, <1>5, QueueGrows DEF TurnInv, TurnTypes
<1> HIDE DEF n
<1>7. JournalStep
  BY <1>2, SameJournal
<1>8. TurnTypes'
  BY <1>2, <1>4, <1>6 DEF TurnInv, TurnTypes
<1>9. ActiveIsStored'
  BY <1>2, ActiveStays
<1>10. ThreadInv'
  <2>1. \A i \in 1..Len(queue') : queue'[i].type \notin {"turn.start", "complete"}
    <3>1. \A i \in 1..Len(queue) : queue[i].type \notin {"turn.start", "complete"}
      BY <1>2, <1>3 DEF TurnInv, ThreadInv, OneTurnAtATime, CompletionsAreLast, Has
    <3> QED
      BY <1>5, <1>6, <3>1
  <2>2. WorkerIsActive'
    BY <1>2, <1>3, <1>4 DEF TurnInv, TurnTypes, ThreadInv, WorkerIsActive
  <2>3. EventsAreOwn'
    <3>1. ASSUME NEW i \in 1..Len(queue'), queue'[i].type = "event"
          PROVE  /\ active' # None /\ core'.pc = "loop" /\ queue'[i].turn = worker'.turn
                 /\ queue'[i].n <= worker'.n
                 /\ queue'[i].n = worker'.n =>
                       queue'[i].kind = worker'.ev /\ queue'[i].call = worker'.calls
      <4>1. CASE i = n
        BY <1>2, <1>3, <1>4, <1>5, <1>6, <4>1, WorkerType
      <4>2. CASE i \in 1..Len(queue) /\ queue'[i] = queue[i]
        <5>1. queue[i].n < worker.n /\ queue[i].turn = worker.turn
          BY <1>2, <3>1, <4>2 DEF TurnInv, ThreadInv, EventsAreOwn, Has
        <5>2. queue[i] \in Messages
          BY <4>2 DEF TurnInv, TurnTypes
        <5>3. queue[i].n \in Nat
          BY <3>1, <4>2, <5>2, MessageFacts
        <5> QED
          BY <1>2, <1>3, <1>4, <4>2, <5>1, <5>3, WorkerType
      <4> QED
        BY <1>6, <4>1, <4>2
    <3> QED
      BY <1>4, <3>1 DEF EventsAreOwn, Has
  <2>4. CompletionsAreLast'
    BY <1>2, <1>3, <2>1 DEF CompletionsAreLast, Has
  <2>5. OneTurnAtATime'
    BY <1>2, <2>1 DEF TurnInv, ThreadInv, OneTurnAtATime, Has
  <2> QED
    BY <2>2, <2>3, <2>4, <2>5 DEF ThreadInv
<1>11. RunsInv'
  BY <1>2, <1>4, <1>7, RunsStay DEF Unasked
<1>12. EffectInv'
  BY <1>2, <1>4, <1>7, EffectsStay
<1>13. EndsInHand'
  BY <1>2 DEF TurnInv, EndsInv, EndsInHand, EndStored, Synced
<1>14. EndsInv'
  BY <1>2, <1>7, <1>13, EndsStay
<1> QED
  BY <1>7, <1>8, <1>9, <1>10, <1>11, <1>12, <1>14 DEF TurnInv, JournalInv, JournalStep

LEMMA WorkerCompletesKeeps ==
    ASSUME TurnInv, WorkerCompletes
    PROVE  TurnInv'
<1>1. PICK m : m = [type |-> "complete", turn |-> worker.turn, result |-> worker.result]
  OBVIOUS
<1>2. /\ worker.pc = "done" /\ queue' = Append(queue, m) /\ worker' = [worker EXCEPT !.pc = "exited"]
      /\ outcome' = [outcome EXCEPT ![worker.turn] = worker.result]
      /\ UNCHANGED <<log, synced, disabled, life, starts, gate, attached, inputOpen, next, active>>
      /\ UNCHANGED <<core, out, runs, effects, ends>>
  BY <1>1 DEF WorkerCompletes, journalVars, clientVars
<1>3. /\ worker.turn \in Turns /\ active # None /\ core.pc # "joining" /\ worker.turn = active.turn
      /\ worker.result \in Statuses /\ life > 0
  BY <1>2 DEF TurnInv, TurnTypes, Workers, ThreadInv, WorkerIsActive, CompletionsAreLast
<1>4. /\ worker' \in Workers /\ worker'.turn = worker.turn /\ worker'.pc = "exited"
      /\ worker'.n = worker.n
  BY <1>2, WorkerType DEF Workers
<1>5. m \in Messages /\ m.type = "complete" /\ m.turn = worker.turn /\ m.result = worker.result
  BY <1>1, <1>3 DEF Messages
<1> DEFINE n == Len(queue) + 1
<1>6. /\ queue' \in Seq(Messages) /\ Len(queue) \in Nat /\ Len(queue') = n /\ queue'[n] = m
      /\ \A i \in 1..Len(queue') : i = n \/ (i \in 1..Len(queue) /\ queue'[i] = queue[i])
  BY <1>2, <1>5, QueueGrows DEF TurnInv, TurnTypes
<1>7. \A i \in 1..Len(queue) : i < n
  BY <1>6
<1> HIDE DEF n
<1>8. outcome' \in [Turns -> Statuses] /\ outcome'[worker.turn] = worker.result
      /\ \A t \in Turns : t # worker.turn => outcome'[t] = outcome[t]
  BY <1>2, <1>3 DEF TurnInv, TurnTypes
<1>9. EndIsOwn'
  <2>1. ASSUME NEW i \in DOMAIN log, log[i].kind = "turn.end" PROVE log[i].turn # worker.turn /\ log[i].turn \in Turns
    <3>1. i \in 1..Len(log) /\ log[i] \in StoredFrames
      BY DEF TurnInv, TurnTypes
    <3> QED
      BY <1>3, <2>1, <3>1 DEF TurnInv, JournalInv, ActiveIsStored, StoredFrames
  <2> QED
    BY <1>2, <1>8, <2>1 DEF TurnInv, EndIsOwn
<1>10. JournalStep
  BY <1>2, <1>9, SameKeepsSynced
     DEF JournalStep, TurnInv, TurnTypes, JournalInv, SureIsSynced, LogShape
<1>11. TurnTypes'
  BY <1>2, <1>4, <1>6, <1>8 DEF TurnInv, TurnTypes
<1>12. ActiveIsStored'
  BY <1>2, ActiveStays
<1>13. ThreadInv'
  <2>1. \A i \in 1..Len(queue) : queue[i].type \notin {"turn.start", "complete"}
    BY <1>2, <1>3 DEF TurnInv, ThreadInv, OneTurnAtATime, CompletionsAreLast, Has
  <2>2. WorkerIsActive'
    BY <1>2, <1>3, <1>4 DEF TurnInv, TurnTypes, ThreadInv, WorkerIsActive
  <2>3. EventsAreOwn'
    <3>1. ASSUME NEW i \in 1..Len(queue'), queue'[i].type = "event"
          PROVE  /\ active' # None /\ core'.pc = "loop" /\ queue'[i].turn = worker'.turn
                 /\ queue'[i].n <= worker'.n
      BY <1>2, <1>4, <1>5, <1>6, <3>1 DEF TurnInv, ThreadInv, EventsAreOwn, Has
    <3> QED
      BY <1>4, <3>1 DEF EventsAreOwn, Has
  <2>4. CompletionsAreLast'
    <3>1. ASSUME NEW i \in 1..Len(queue'), queue'[i].type = "complete"
          PROVE  /\ outcome'[queue'[i].turn] = queue'[i].result
                 /\ queue'[i].turn = active'.turn /\ worker'.pc = "exited" /\ core'.pc # "joining"
                 /\ \A j \in 1..Len(queue') : queue'[j].type = "turn.start" => i < j
                 /\ \A j \in 1..Len(queue') : queue'[j].type = "event" => j < i
                 /\ \A j \in 1..Len(queue') : queue'[j].type = "complete" => i = j
      <4>1. i = n
        BY <1>6, <2>1, <3>1
      <4>2. \A j \in 1..Len(queue') : queue'[j].type # "turn.start"
        BY <1>5, <1>6, <2>1
      <4>3. \A j \in 1..Len(queue') : queue'[j].type = "event" => j < i
        BY <1>5, <1>6, <1>7, <4>1
      <4>4. \A j \in 1..Len(queue') : queue'[j].type = "complete" => i = j
        BY <1>6, <2>1, <4>1
      <4> QED
        BY <1>2, <1>3, <1>4, <1>5, <1>6, <1>8, <4>1, <4>2, <4>3, <4>4
    <3>2. core'.pc \in {"joining", "polled"} => worker'.pc \in {"done", "exited"} /\ out' = <<>>
      BY <1>2, <1>4 DEF TurnInv, ThreadInv, CompletionsAreLast
    <3>3. core'.pc # "joining"
      BY <1>2, <1>3
    <3> QED
      BY <3>1, <3>2, <3>3 DEF CompletionsAreLast, Has
  <2>5. OneTurnAtATime'
    <3>1. \A i \in 1..Len(queue') : queue'[i].type # "turn.start"
      BY <1>5, <1>6, <2>1
    <3> QED
      BY <1>2, <3>1 DEF TurnInv, ThreadInv, OneTurnAtATime, Has
  <2> QED
    BY <2>2, <2>3, <2>4, <2>5 DEF ThreadInv
<1>14. RunsInv'
  BY <1>2, <1>4, <1>10, RunsStay DEF Unasked
<1>15. EffectInv'
  BY <1>2, <1>4, <1>10, EffectsStay
<1>16. EndsInHand'
  BY <1>2 DEF TurnInv, EndsInv, EndsInHand, EndStored, Synced
<1>17. EndsInv'
  BY <1>2, <1>10, <1>16, EndsStay
<1> QED
  BY <1>10, <1>11, <1>12, <1>13, <1>14, <1>15, <1>17 DEF TurnInv, JournalInv, JournalStep

(***************************************************************************)
(* The invariant and what follows from it                                  *)
(***************************************************************************)

LEMMA TurnInit ==
    ASSUME CoreInit
    PROVE  TurnInv
<1>1. /\ log = <<>> /\ synced = 0 /\ queue = <<>> /\ out = <<>> /\ active = None
      /\ worker = NoWorker /\ core = Idle /\ runs = [t \in Turns |-> 0] /\ effects = {}
      /\ outcome = [t \in Turns |-> None] /\ ends = [t \in Turns |-> {}]
  BY DEF CoreInit
<1>2. Len(log) = 0 /\ Len(queue) = 0 /\ Len(out) = 0 /\ 1..0 = {} /\ DOMAIN log = {}
  BY <1>1
<1>3. TurnTypes
  <2>1. log \in Seq(StoredFrames) /\ synced \in 0..Len(log)
    BY <1>1
  <2>2. queue \in Seq(Messages) /\ out \in Seq(StoredFrames \cup {Unscoped, Other})
    BY <1>1
  <2>3. outcome \in [Turns -> Statuses] /\ ends \in [Turns -> SUBSET Statuses] /\ runs \in [Turns -> Nat]
    BY <1>1 DEF Statuses
  <2>4. /\ disabled \in BOOLEAN /\ life \in Nat /\ starts \in Nat
        /\ gate \in {"open", "pending", "active", "failed", "eof"}
        /\ inputOpen \in BOOLEAN /\ attached \in BOOLEAN
        /\ next \in [seq : Nat, ordinal : Nat]
    BY DEF CoreInit
  <2> QED
    BY <1>1, <2>1, <2>2, <2>3, <2>4, NoWorkerFacts DEF TurnTypes
<1>4. JournalInv
  BY <1>1, <1>2 DEF JournalInv, SureIsSynced, LogShape, ActiveIsStored
<1>5. ThreadInv
  BY <1>1, <1>2, NoWorkerFacts
     DEF ThreadInv, WorkerIsActive, EventsAreOwn, CompletionsAreLast, OneTurnAtATime
<1>6. RunsInv
  BY <1>1, NoWorkerFacts DEF RunsInv, ProviderRunsOnce, Unasked
<1>7. EffectInv
  BY <1>1, NoWorkerFacts DEF EffectInv, EffectIsJournaled
<1>8. EndsInv
  BY <1>1, <1>2 DEF EndsInv, ShownEndIsDurable, EndsInHand
<1>9. EndIsOwn
  BY <1>2 DEF EndIsOwn
<1> QED
  BY <1>3, <1>4, <1>5, <1>6, <1>7, <1>8, <1>9 DEF TurnInv

LEMMA TurnStutter ==
    ASSUME TurnInv, UNCHANGED coreVars
    PROVE  TurnInv'
<1>1. /\ UNCHANGED <<journalVars, life, starts, clientVars, queue, inputOpen, next, active, core>>
      /\ UNCHANGED <<log, synced, worker, runs, effects, outcome, ends, out, attached, life>>
  BY DEF coreVars, journalVars, clientVars, loopVars, ghostVars
<1>2. worker' \in Workers /\ Goes /\ RunsInv' /\ EffectInv'
  BY <1>1, SameJournal, SameWorker
<1>3. attached' \in BOOLEAN
  BY <1>1 DEF TurnInv, TurnTypes
<1> QED
  BY <1>1, <1>2, <1>3, LocalKeeps

LEMMA TurnStep ==
    ASSUME TurnInv, [CoreNext]_coreVars
    PROVE  TurnInv'
<1>1. CASE HostStep
  BY <1>1, StartKeeps, DownsKeep, ClientKeeps DEF HostStep
<1>2. CASE CoreStep
  BY <1>2, DownsKeep, RefuseStartKeeps, ReplayTurnKeeps, CloseUnknownTurnKeeps, AcceptTurnKeeps,
     SpawnWorkerKeeps, RecvUselessKeeps, CancelsKeep, RecvEofKeeps, RecvEventKeeps,
     RecvSilentEventKeeps, RecvCompleteKeeps, FinishesKeep, PollsKeep, DeliverFrameKeeps,
     DeliverOtherKeeps, DeliveryFailsKeeps DEF CoreStep
<1>3. CASE WorkerStep
  BY <1>3, WorkerSendsKeeps, WorkerExpiresKeeps, ProviderKeeps, ToolSpawnsKeeps,
     WorkerCompletesKeeps, WorkerPanicsKeeps DEF WorkerStep
<1>4. CASE UNCHANGED coreVars
  BY <1>4, TurnStutter
<1> QED
  BY <1>1, <1>2, <1>3, <1>4 DEF CoreNext

\* What the core, the worker, the v7 host and the journal agree on holds in
\* every reachable state of process_messages_with_control_seq, through every
\* crash, power loss, late receipt and failing append.
THEOREM TurnInvariance == CoreSpec => []TurnInv
<1>1. CoreInit => TurnInv
  BY TurnInit
<1>2. TurnInv /\ [CoreNext]_coreVars => TurnInv'
  BY TurnStep
<1> QED
  BY <1>1, <1>2, PTL DEF CoreSpec

\* incomplete_turn_redispatch is false: turn.accepted is durable before the
\* worker exists, so no resend in this or in a later process runs the provider
\* of a turn a second time.
THEOREM ProviderIsNotRedispatched == CoreSpec => []ProviderRunsOnce
<1>1. TurnInv => ProviderRunsOnce
  BY DEF TurnInv, RunsInv
<1> QED
  BY <1>1, TurnInvariance, PTL

\* The receipt of tool.accepted is only given for a frame on stable storage:
\* every process a tool call has started is accounted for in the journal.
THEOREM EffectsAreJournaled == CoreSpec => []EffectIsJournaled
<1>1. TurnInv => EffectIsJournaled
  BY DEF TurnInv, EffectInv
<1> QED
  BY <1>1, TurnInvariance, PTL

\* A turn.end that was journaled and delivered is on stable storage for good.
THEOREM ShownEndsAreDurable == CoreSpec => []ShownEndIsDurable
<1>1. TurnInv => ShownEndIsDurable
  BY DEF TurnInv, EndsInv
<1> QED
  BY <1>1, TurnInvariance, PTL

\* finish_active_turn never takes the outcome of another turn's worker.
THEOREM EndsAreOwn == CoreSpec => []EndIsOwn
<1>1. TurnInv => EndIsOwn
  BY DEF TurnInv
<1> QED
  BY <1>1, TurnInvariance, PTL

LEMMA ShapeLoads ==
    ASSUME TurnTypes, LogShape
    PROVE  LogLoads
<1>1. DOMAIN log = 1..Len(log) /\ Len(log) \in Nat
  BY DEF TurnTypes
<1>2. ASSUME NEW t \in Turns, NEW i \in Records(t), \A j \in Records(t) : i <= j
      PROVE  log[i].kind = "turn.accepted" /\ Load(t, log[i].digest) # "conflict"
  <2>1. i \in 1..Len(log) /\ log[i].turn = t
    BY <1>1 DEF Records
  <2>2. log[i].kind = "turn.accepted"
    <3>1. PICK k \in 1..i : log[k].turn = log[i].turn /\ log[k].kind = "turn.accepted"
      BY <2>1 DEF LogShape
    <3>2. k \in Records(t)
      BY <1>1, <2>1, <3>1 DEF Records
    <3>3. k = i
      BY <1>2, <2>1, <3>1, <3>2
    <3> QED
      BY <3>1, <3>3
  <2>3. \A j \in Records(t) : log[j].digest = log[i].digest
    <3>1. ASSUME NEW j \in Records(t) PROVE log[j].digest = log[i].digest
      <4>1. j \in 1..Len(log) /\ log[j].turn = t /\ (j = i \/ i < j)
        BY <1>1, <1>2 DEF Records
      <4> QED
        BY <2>1, <4>1 DEF LogShape
    <3> QED
      BY <3>1
  <2>4. ASSUME NEW e \in Records(t), log[e].kind = "turn.end"
        PROVE  \A j \in Records(t) : j <= e /\ (log[j].kind = "turn.end" => j = e)
    <3>1. ASSUME NEW j \in Records(t) PROVE j <= e /\ (log[j].kind = "turn.end" => j = e)
      <4>1. /\ j \in 1..Len(log) /\ e \in 1..Len(log) /\ log[j].turn = log[e].turn
        BY <1>1 DEF Records
      <4>2. ~ (e < j)
        BY <2>4, <4>1 DEF LogShape
      <4>3. j < e => log[j].kind # "turn.end"
        BY <4>1 DEF LogShape
      <4> QED
        BY <4>1, <4>2, <4>3
    <3> QED
      BY <3>1
  <2> DEFINE terminals == {x \in Records(t) : log[x].kind = "turn.end"}
  <2>5. terminals # {} => \E last \in Records(t) : terminals = {last} /\ \A x \in Records(t) : x <= last
    <3>1. ASSUME NEW e \in terminals
          PROVE  e \in Records(t) /\ terminals = {e} /\ \A x \in Records(t) : x <= e
      BY <2>4
    <3> QED
      BY <3>1
  <2> QED
    BY <2>2, <2>3, <2>5 DEF Load
<1>3. ASSUME NEW t \in Turns, NEW i \in Records(t), NEW j \in Records(t), i < j
      PROVE  log[i].seq < log[j].seq /\ log[i].id # log[j].id
  <2>1. i \in 1..Len(log) /\ j \in 1..Len(log) /\ log[i].turn = log[j].turn
    BY <1>1 DEF Records
  <2> QED
    BY <1>3, <2>1 DEF LogShape
<1> QED
  BY <1>2, <1>3 DEF LogLoads

\* Persistence::load never answers "conflict" for what the core itself stored.
THEOREM JournalLoads == CoreSpec => []LogLoads
<1>1. TurnInv => LogLoads
  BY ShapeLoads DEF TurnInv, JournalInv
<1> QED
  BY <1>1, TurnInvariance, PTL
=============================================================================
