-------------------------- MODULE EventStoreProofs --------------------------
(***************************************************************************)
(* Theorems about EventStore for every set of callers and events and every *)
(* limit: what the store acknowledges is synced, what a fault leaves can   *)
(* be opened, memory and files agree, and the store implements EventLog.   *)
(***************************************************************************)
EXTENDS EventStore, SequenceTheorems, FiniteSetTheorems, TLAPS

(***************************************************************************)
(* The inductive invariant                                                 *)
(***************************************************************************)
Fresh == {"rotate", "create", "write", "publish"}
Flushing == {"temp", "rename", "dirsync"}
Inside == Fresh \cup Flushing \cup {"commit"}

\* Who is inside an operation holds the gate of an open, healthy store; who
\* goes on after a sync has left nothing pending.
GateOK == \A t \in Thread :
    /\ pc[t] \in Inside => gate = t /\ ~poisoned /\ status # "down"
    /\ pc[t] \in Flushing \cup {"create"} => pend = {}

\* A store that is not open has no memory and no thread in it.
DownOK == status = "down" =>
    /\ pend = {} /\ ~poisoned
    /\ \A t \in Thread : pc[t] = "idle"

UpOK == status # "down" => active \in 1..segs

\* Memory and files of a healthy store differ by the record being published.
MemOK ==
    /\ \A t \in Thread : pc[t] = "publish" => disk = Append(mem, NewRecord(t))
    /\ status # "down" /\ ~poisoned =>
         /\ torn = {}
         /\ (\A t \in Thread : pc[t] # "publish") => disk = mem

\* An admitted event is new and there is room for it; an event on its way to
\* the barrier is in the log.
CallOK == \A t \in Thread :
    /\ pc[t] \in Fresh \cup {"commit", "barrier"} => call[t].event \in Events
    /\ pc[t] \in Fresh => /\ KeyAt(mem, call[t].event.key) = {}
                          /\ Len(mem) < MaxRecords
    /\ pc[t] \in {"commit", "barrier"} =>
         \E i \in DOMAIN mem : mem[i].event = call[t].event

Unsynced == DOMAIN disk \ hard

DiskIsLog == \E n \in 0..MaxRecords : DOMAIN disk = 1..n

HardIsPrefix == \A i \in hard : \A j \in 1..i : j \in hard

\* What no fsync has covered is in one segment: the torn one, if there is
\* one, and the active one of an open store.
OneTail ==
    /\ \A i, j \in Unsynced : disk[i].seg = disk[j].seg
    /\ \A i \in Unsynced : \A g \in torn : disk[i].seg = g
    /\ status # "down" => \A i \in Unsynced : disk[i].seg = active

\* The open store counts as pending whatever is not synced.
Counted == DOMAIN mem \subseteq hard \cup pend

Covered(s) ==
    /\ DOMAIN s.recs \subseteq hard
    /\ \A i \in DOMAIN s.recs : s.recs[i] = disk[i]
    /\ s.segs <= segs

AckedOK == acked \subseteq {disk[i].event : i \in hard}

Tracked == "untracked" \notin lapses =>
    /\ DiskIsLog /\ HardIsPrefix /\ OneTail /\ Counted
    /\ Covered(side) /\ Covered(sideHard)
    /\ AckedOK

\* Without the file of a failed rotation the last segment is the active one.
NoOrphan == lapses = {} =>
    /\ status # "down" => active = segs
    /\ torn \subseteq {segs}
    /\ \A i \in Unsynced : disk[i].seg = segs

Importing == status = "migrating" =>
    /\ \A t \in Caller : pc[t] = "idle"
    /\ pc[Opener] \in Flushing => LegacyIsPrefix

\* Pages that an fsync dropped are in no synced record, and until an open
\* has lapsed the store that saw the failure writes and syncs nothing more.
DroppedOK ==
    /\ dropped \cap hard = {}
    /\ "untracked" \notin lapses /\ dropped # {} =>
         torn = {} /\ (poisoned \/ status = "down")

StoreInv ==
    /\ StoreTypeOK /\ GateOK /\ DownOK /\ UpOK /\ MemOK /\ CallOK
    /\ Tracked /\ NoOrphan /\ Importing /\ DroppedOK

(***************************************************************************)
(* Lemmas about sequences and sets                                         *)
(***************************************************************************)

\* A set of positions that holds everything below its members is 1..n.
LEMMA PrefixSet ==
    ASSUME NEW N \in Nat, NEW S \in SUBSET (1..N),
           \A i \in S : \A j \in 1..i : j \in S
    PROVE  \E n \in 0..N : S = 1..n
  <1> DEFINE n == Cardinality(S)
  <1>1. IsFiniteSet(1..N) /\ Cardinality(1..N) = N
    BY FS_Interval
  <1>2. IsFiniteSet(S) /\ n \in Nat /\ n <= N
    <2>1. IsFiniteSet(S) /\ n <= Cardinality(1..N)
      BY <1>1, FS_Subset, Zenon
    <2>2. n \in Nat
      BY <2>1, FS_CardinalityType, Zenon
    <2> QED BY <1>1, <2>1, <2>2
  <1>3. \A i \in S : i <= n
    <2> SUFFICES ASSUME NEW i \in S PROVE i <= n
      OBVIOUS
    <2>1. i \in Nat /\ 1 <= i
      OBVIOUS
    <2>2. Cardinality(1..i) = i
      BY <2>1, FS_Interval
    <2>3. (1..i) \in SUBSET S
      OBVIOUS
    <2> QED BY <2>2, <2>3, <1>2, FS_Subset
  <1>4. S \in SUBSET (1..n)
    BY <1>2, <1>3
  <1>5. IsFiniteSet(1..n) /\ Cardinality(1..n) = n
    BY <1>2, FS_Interval
  <1>6. S = 1..n
    BY <1>4, <1>5, FS_Subset
  <1> QED BY <1>2, <1>6

\* What Append does to a sequence, for the backends.
LEMMA AppendFacts ==
    ASSUME NEW S, NEW s \in Seq(S), NEW e \in S
    PROVE  /\ Append(s, e) \in Seq(S)
           /\ Len(Append(s, e)) = Len(s) + 1
           /\ DOMAIN s = 1..Len(s) /\ Len(s) \in Nat
           /\ DOMAIN Append(s, e) = 1..(Len(s) + 1)
           /\ \A i \in 1..Len(s) : Append(s, e)[i] = s[i]
           /\ Append(s, e)[Len(s) + 1] = e
  BY AppendProperties, LenProperties

\* A function on 1..n is a sequence of length n.
LEMMA FunctionIsSeq ==
    ASSUME NEW S, NEW n \in Nat, NEW f \in [1..n -> S]
    PROVE  f \in Seq(S) /\ Len(f) = n
  OBVIOUS

\* The types of a record that a thread is about to write.
LEMMA NewRecordType ==
    ASSUME StoreInv, NEW t \in Thread, pc[t] \in Fresh
    PROVE  NewRecord(t) \in Record /\ NewRecord(t).seg = active
  <1>1. call[t].event \in Events
    BY DEF StoreInv, CallOK
  <1>2. active \in 1..MaxSegments
    BY StoreAssumption DEF StoreInv, StoreTypeOK, GateOK, UpOK, Inside
  <1> QED BY <1>1, <1>2 DEF NewRecord, Record

(***************************************************************************)
(* Steps                                                                   *)
(***************************************************************************)

\* The initial state satisfies the invariant.
LEMMA InitInv == StoreInit => StoreInv
  <1> SUFFICES ASSUME StoreInit PROVE StoreInv
    OBVIOUS
  <1> USE StoreAssumption DEF StoreInit
  <1>1. StoreTypeOK
    <2>1. /\ <<>> \in Seq(Record) /\ Len(<<>>) = 0 /\ <<>> \in Seq(Events)
          /\ DOMAIN <<>> = {} /\ <<>> \in [{} -> Record]
      BY EmptySeq, LenProperties
    <2>2. Absent \in Manifest
      BY <2>1 DEF Absent, Manifest
    <2>3. NoCall \in Call
      BY DEF NoCall, Call, Sidecar, AppendOp, SyncOp
    <2>4. disk \in [DOMAIN disk -> Record] /\ DOMAIN disk \subseteq 1..MaxRecords
      BY <2>1
    <2>5. pc \in [Thread -> Label] /\ call \in [Thread -> Call]
      BY <2>3 DEF Label
    <2>6. temp \in [Sidecar -> BOOLEAN] /\ poisoned \in BOOLEAN
      OBVIOUS
    <2>7. segs \in 0..MaxSegments /\ active \in 0..segs /\ 0 <= MaxRecords
      OBVIOUS
    <2> HIDE DEF StoreInit
    <2>8. /\ hard \subseteq DOMAIN disk /\ dropped \subseteq DOMAIN disk
          /\ torn \subseteq 1..MaxSegments /\ pend \subseteq DOMAIN mem /\ acked \subseteq Events
          /\ lapses \subseteq {"untracked", "orphan"}
          /\ gate \in Thread \cup {NoCaller} /\ status \in {"down", "migrating", "up"}
      BY DEF StoreInit
    <2>9. side \in Manifest /\ sideHard \in Manifest /\ legacy \in Seq(Events)
          /\ mem \in Seq(Record) /\ Len(mem) <= MaxRecords
      BY <2>1, <2>2, <2>7 DEF StoreInit
    <2> QED BY <2>4, <2>5, <2>6, <2>7, <2>8, <2>9 DEF StoreTypeOK
  <1>2. GateOK /\ DownOK /\ UpOK /\ Importing
    BY DEF GateOK, DownOK, UpOK, Importing, Inside, Fresh, Flushing
  <1>3. MemOK /\ CallOK
    BY DEF MemOK, CallOK, Fresh
  <1>4. Tracked
    <2>1. DOMAIN disk = {} /\ DOMAIN mem = {} /\ DOMAIN side.recs = {}
          /\ DOMAIN sideHard.recs = {} /\ side.segs = 0 /\ sideHard.segs = 0
      BY DEF Absent
    <2>2. DiskIsLog
      BY <2>1 DEF DiskIsLog
    <2> QED BY <2>1, <2>2 DEF Tracked, HardIsPrefix, OneTail, Counted, Covered, AckedOK, Unsynced,
                Flushing
  <1>5. NoOrphan /\ DroppedOK
    BY DEF NoOrphan, Unsynced, DroppedOK
  <1> QED BY <1>1, <1>2, <1>3, <1>4, <1>5 DEF StoreInv

\* A step of thread t to label l that leaves the files alone but perhaps for
\* an fsync of all there is, and what it must establish for the invariant.
Drops ==
    /\ dropped' \subseteq DOMAIN disk /\ dropped' \cap hard' = {}
    /\ dropped' = dropped \/ (~poisoned /\ poisoned')

Files ==
    /\ UNCHANGED <<disk, segs, torn, side, sideHard, legacy, status, mem,
                   active, lapses>>
    /\ Drops

FullSync ==
    /\ disk = mem
    /\ hard \subseteq hard' /\ hard' \subseteq DOMAIN disk /\ pend' = {}
    /\ "untracked" \notin lapses => hard' = DOMAIN disk

Acks ==
    /\ acked' \subseteq Events
    /\ "untracked" \notin lapses =>
         acked' \subseteq acked \cup {disk[i].event : i \in hard'}

Moves(t, l, c) ==
    /\ pc' = [pc EXCEPT ![t] = l] /\ call' = [call EXCEPT ![t] = c]
    /\ pc[t] # "publish" /\ l # "publish"
    /\ \/ /\ gate' = gate /\ poisoned' = poisoned
          /\ l \notin Inside /\ pc[t] \notin Inside
       \/ /\ gate' \in {t, NoCaller}
          /\ \A u \in Thread \ {t} : pc[u] \notin Inside
    /\ l \in Inside => gate' = t /\ ~poisoned'

Carry(l, c) ==
    /\ l \in Fresh \cup {"commit", "barrier"} => c.event \in Events
    /\ l \in Fresh => KeyAt(mem, c.event.key) = {} /\ Len(mem) < MaxRecords
    /\ l \in {"commit", "barrier"} => \E i \in DOMAIN mem : mem[i].event = c.event
    /\ l \in Flushing \cup {"create"} => pend' = {}

\* A step inside a call that meets these conditions preserves the invariant.
LEMMA CallStep ==
    ASSUME StoreInv, NEW t \in Thread, NEW l \in Label, NEW c \in Call,
           Files, status # "down",
           temp' \in [Sidecar -> BOOLEAN],
           (hard' = hard /\ pend' = pend) \/ FullSync,
           Acks, poisoned' \in BOOLEAN, poisoned => poisoned',
           Moves(t, l, c), Carry(l, c),
           status = "migrating" => t = Opener /\ (l \in Flushing => LegacyIsPrefix)
    PROVE  StoreInv'
  <1> USE DEF Files, Drops, FullSync, Acks, Moves, Carry
  <1>0. /\ StoreTypeOK /\ GateOK /\ DownOK /\ UpOK /\ MemOK /\ CallOK
        /\ Tracked /\ NoOrphan /\ Importing /\ DroppedOK
    BY DEF StoreInv
  <1>1. StoreTypeOK'
    BY <1>0 DEF StoreTypeOK
  <1>2. \A u \in Thread : pc'[u] = IF u = t THEN l ELSE pc[u]
    BY <1>0 DEF StoreTypeOK
  <1>3. \A u \in Thread : call'[u] = IF u = t THEN c ELSE call[u]
    BY <1>0 DEF StoreTypeOK
  <1>4. GateOK'
    BY <1>0, <1>2 DEF GateOK
  <1>5. DownOK' /\ UpOK'
    BY <1>0 DEF DownOK, UpOK
  <1>6. MemOK'
    BY <1>0, <1>2, <1>3 DEF MemOK, NewRecord
  <1>7. CallOK'
    BY <1>0, <1>2, <1>3 DEF CallOK, KeyAt, Fresh
  <1>8. Tracked'
    <2> SUFFICES ASSUME "untracked" \notin lapses PROVE Tracked'
      BY DEF Tracked
    <2>0. /\ DiskIsLog /\ HardIsPrefix /\ OneTail /\ Counted
          /\ Covered(side) /\ Covered(sideHard) /\ AckedOK
      BY <1>0 DEF Tracked
    <2>1. DiskIsLog'
      BY <2>0 DEF DiskIsLog
    <2>2. hard' = hard \/ hard' = DOMAIN disk
      OBVIOUS
    <2>3. HardIsPrefix'
      BY <2>0, <2>2 DEF HardIsPrefix, DiskIsLog
    <2>4. OneTail'
      BY <2>0, <2>2 DEF OneTail, Unsynced
    <2>5. Counted'
      BY <2>0, <1>2 DEF Counted
    <2>6. hard \subseteq hard'
      OBVIOUS
    <2>7. Covered(side)' /\ Covered(sideHard)'
      BY <2>0, <2>6 DEF Covered
    <2>8. AckedOK'
      BY <2>0, <2>6 DEF AckedOK
    <2> QED BY <2>1, <2>3, <2>4, <2>5, <2>7, <2>8 DEF Tracked
  <1>9. NoOrphan'
    BY <1>0 DEF NoOrphan, Unsynced
  <1>10. Importing'
    BY <1>0, <1>2, StoreAssumption DEF Importing, LegacyIsPrefix, Thread
  <1>11. DroppedOK'
    BY <1>0 DEF DroppedOK, MemOK
  <1> QED BY <1>1, <1>4, <1>5, <1>6, <1>7, <1>8, <1>9, <1>10, <1>11 DEF StoreInv

\* No thread but the one that may take or keep the gate is inside.
LEMMA OnlyHolder ==
    ASSUME StoreInv, NEW t \in Thread, gate \in {t, NoCaller}
    PROVE  \A u \in Thread \ {t} : pc[u] \notin Inside
  BY StoreAssumption DEF StoreInv, GateOK

\* Sync of a healthy store that is publishing nothing covers all there is.
LEMMA SyncFacts ==
    ASSUME StoreInv, Sync, status # "down", ~poisoned,
           \A u \in Thread : pc[u] # "publish"
    PROVE  FullSync
  <1>1. disk = mem /\ hard \subseteq DOMAIN disk
    BY DEF StoreInv, MemOK, StoreTypeOK
  <1>2. hard \subseteq hard' /\ hard' \subseteq DOMAIN disk /\ pend' = {}
    BY <1>1 DEF Sync, Dirty
  <1>3. ASSUME "untracked" \notin lapses PROVE hard' = DOMAIN disk
    <2> SUFFICES ASSUME NEW i \in DOMAIN disk, i \notin hard PROVE i \in hard'
      BY <1>2
    <2>1. i \in pend
      BY <1>1, <1>3 DEF StoreInv, Tracked, Counted
    <2>2. disk[i].seg \in SyncTargets
      BY <1>1, <2>1 DEF SyncTargets
    <2>3. dropped = {}
      BY <1>3 DEF StoreInv, DroppedOK
    <2> QED BY <2>2, <2>3 DEF Sync, Dirty
  <1> QED BY <1>1, <1>2, <1>3 DEF FullSync

\* The labels and calls the actions use.
LEMMA CallTypes ==
    /\ NoCall \in Call
    /\ \A op \in AppendOp \cup SyncOp, e \in Events \cup {NoEvent}, k \in Sidecar :
         [op |-> op, event |-> e, side |-> k] \in Call
  BY DEF NoCall, Call, Sidecar, AppendOp, SyncOp

\* Who may begin an operation finds the gate free and the store open.
LEMMA MayCallFacts ==
    ASSUME StoreInv, NEW t \in Thread, NEW op, NEW e, MayCall(t, op, e)
    PROVE  /\ status # "down" /\ pc[t] = "idle"
           /\ \A u \in Thread : pc[u] \notin Inside
           /\ status = "migrating" =>
                /\ t = Opener
                /\ op \in SyncOp => LegacyIsPrefix
                /\ op \in AppendOp => op = "append"
  <1>1. \A u \in Thread \ {t} : pc[u] \notin Inside
    BY OnlyHolder DEF MayCall
  <1>2. pc[t] = "idle" /\ "idle" \notin Inside
    BY DEF MayCall, Inside, Fresh, Flushing
  <1>3. status # "down" /\ (status = "migrating" => t = Opener)
    BY DEF MayCall
  <1>4. ASSUME status = "migrating", op \in SyncOp PROVE LegacyIsPrefix
    <2>1. Len(mem) = Len(legacy) /\ Agrees
      BY <1>4 DEF MayCall, SyncOp
    <2>2. DOMAIN mem = 1..Len(mem) /\ DOMAIN legacy = 1..Len(legacy)
          /\ Len(mem) \in Nat
      BY LenProperties DEF StoreInv, StoreTypeOK
    <2> QED BY <2>1, <2>2 DEF Agrees, LegacyIsPrefix
  <1>5. ASSUME status = "migrating", op \in AppendOp PROVE op = "append"
    BY <1>5 DEF MayCall, AppendOp
  <1> QED BY <1>1, <1>2, <1>3, <1>4, <1>5

\* A refused append preserves the invariant.
LEMMA AppendRefusedStep ==
    ASSUME StoreInv, NEW t \in Thread, NEW op \in AppendOp, NEW e \in Events,
           AppendRefused(t, op, e)
    PROVE  StoreInv'
  <1> DEFINE l == IF t = Opener THEN "failed" ELSE "idle"
  <1>1. MayCall(t, op, e) /\ Err(t) /\ Quiet /\ UNCHANGED <<diskVars, memVars, acked>>
    BY DEF AppendRefused
  <1>2. /\ status # "down" /\ pc[t] = "idle" /\ \A u \in Thread : pc[u] \notin Inside
        /\ status = "migrating" => t = Opener
    BY <1>1, MayCallFacts
  <1>3. l \in Label /\ l \notin Inside /\ l # "barrier" /\ l # "publish"
    BY DEF Label, Inside, Fresh, Flushing
  <1>4. Files /\ temp' \in [Sidecar -> BOOLEAN] /\ hard' = hard /\ pend' = pend
        /\ poisoned' = poisoned /\ poisoned \in BOOLEAN
    BY <1>1 DEF Files, Drops, DroppedOK, Quiet, diskVars, memVars, sideVars, StoreInv, StoreTypeOK
  <1>5. Acks
    BY <1>1 DEF Acks, StoreInv, StoreTypeOK
  <1>6. Moves(t, l, NoCall)
    BY <1>1, <1>2, <1>3 DEF Moves, Err
  <1>7. Carry(l, NoCall)
    BY <1>3 DEF Carry, Inside, Fresh, Flushing
  <1> HIDE DEF l
  <1> QED BY <1>2, <1>3, <1>4, <1>5, <1>6, <1>7, CallTypes, CallStep DEF Inside

\* An append that finds its event preserves the invariant: its barrier is
\* still to come, and its event is in the log.
LEMMA AppendExistingStep ==
    ASSUME StoreInv, NEW t \in Thread, NEW op \in AppendOp, NEW e \in Events,
           AppendExisting(t, op, e)
    PROVE  StoreInv'
  <1> DEFINE l == IF op = "append" THEN "idle" ELSE "barrier"
             c == IF op = "append" THEN NoCall
                  ELSE [op |-> op, event |-> e, side |-> "index"]
  <1>1. /\ MayCall(t, op, e) /\ Appended(t, op, e) /\ Quiet
        /\ UNCHANGED <<diskVars, memVars, acked>>
        /\ \E i \in DOMAIN mem : mem[i].event = e
    BY DEF AppendExisting, KeyAt
  <1>2. /\ status # "down" /\ pc[t] = "idle" /\ \A u \in Thread : pc[u] \notin Inside
        /\ status = "migrating" => t = Opener
    BY <1>1, MayCallFacts
  <1>3. /\ l \in Label /\ l \notin Inside /\ l # "publish" /\ c \in Call
        /\ l = "barrier" => c.event = e
    BY CallTypes DEF Label, Inside, Fresh, Flushing, Sidecar
  <1>4. Files /\ temp' \in [Sidecar -> BOOLEAN] /\ hard' = hard /\ pend' = pend
        /\ poisoned' = poisoned /\ poisoned \in BOOLEAN
    BY <1>1 DEF Files, Drops, DroppedOK, Quiet, diskVars, memVars, sideVars, StoreInv, StoreTypeOK
  <1>5. Acks
    BY <1>1 DEF Acks, StoreInv, StoreTypeOK
  <1>6. Moves(t, l, c)
    BY <1>1, <1>2, <1>3 DEF Moves, Appended
  <1>7. Carry(l, c)
    BY <1>1, <1>3 DEF Carry, Inside, Fresh, Flushing
  <1> HIDE DEF l, c
  <1> QED BY <1>2, <1>3, <1>4, <1>5, <1>6, <1>7, CallStep DEF Inside

\* An admitted append preserves the invariant: its key is new.
LEMMA AppendAdmittedStep ==
    ASSUME StoreInv, NEW t \in Thread, NEW op \in AppendOp, NEW e \in Events,
           AppendAdmitted(t, op, e)
    PROVE  StoreInv'
  <1> DEFINE c == [op |-> op, event |-> e, side |-> "index"]
  <1>1. /\ MayCall(t, op, e) /\ Quiet /\ UNCHANGED <<diskVars, memVars, acked>>
        /\ ~poisoned /\ KeyAt(mem, e.key) = {} /\ Len(mem) < MaxRecords
    BY DEF AppendAdmitted
  <1>2. PICK l \in {"write", "rotate"} : Enter(t, l, op, e, "index")
    BY DEF AppendAdmitted
  <1>3. /\ status # "down" /\ pc[t] = "idle" /\ \A u \in Thread : pc[u] \notin Inside
        /\ status = "migrating" => t = Opener
    BY <1>1, MayCallFacts
  <1>4. l \in Label /\ c \in Call /\ c.event = e
    BY CallTypes DEF Label, Sidecar
  <1>5. Files /\ temp' \in [Sidecar -> BOOLEAN] /\ hard' = hard /\ pend' = pend
        /\ poisoned' = poisoned /\ poisoned \in BOOLEAN
    BY <1>1 DEF Files, Drops, DroppedOK, Quiet, diskVars, memVars, sideVars, StoreInv, StoreTypeOK
  <1>6. Acks
    BY <1>1 DEF Acks, StoreInv, StoreTypeOK
  <1>7. Moves(t, l, c)
    BY <1>1, <1>2, <1>3, <1>5 DEF Moves, Enter
  <1>8. Carry(l, c) /\ l \notin Flushing
    BY <1>1, <1>4 DEF Carry, Fresh, Flushing
  <1> HIDE DEF c
  <1> QED BY <1>1, <1>3, <1>4, <1>5, <1>6, <1>7, <1>8, CallStep

\* A failing fsync: the thread leaves with an error, the store is poisoned.
LEMMA SyncFailsStep ==
    ASSUME StoreInv, NEW t \in Thread, SyncFails, Err(t), Quiet, UNCHANGED acked,
           status # "down", ~poisoned, pc[t] # "publish",
           gate \in {t, NoCaller}, status = "migrating" => t = Opener
    PROVE  StoreInv'
  <1> DEFINE l == IF t = Opener THEN "failed" ELSE "idle"
  <1>1. \A u \in Thread \ {t} : pc[u] \notin Inside
    BY OnlyHolder
  <1>2. l \in Label /\ l \notin Inside /\ l # "barrier" /\ l # "publish"
    BY DEF Label, Inside, Fresh, Flushing
  <1>3. Files /\ temp' \in [Sidecar -> BOOLEAN] /\ hard' = hard /\ pend' = pend
        /\ poisoned' = TRUE
    BY DEF SyncFails, Dirty, Files, Drops, DroppedOK, Quiet, diskVars, memVars, sideVars, StoreInv, StoreTypeOK
  <1>4. Acks
    BY DEF Acks, StoreInv, StoreTypeOK
  <1>5. Moves(t, l, NoCall)
    BY <1>1, <1>2 DEF Moves, Err
  <1>6. Carry(l, NoCall) /\ l \notin Flushing
    BY <1>2 DEF Carry, Inside, Fresh, Flushing
  <1> HIDE DEF l
  <1> QED BY <1>2, <1>3, <1>4, <1>5, <1>6, CallTypes, CallStep

\* Inside an operation: the thread holds the gate of a healthy store, and only
\* the opener is inside while the v1 file is imported.
LEMMA InsideFacts ==
    ASSUME StoreInv, NEW t \in Thread, pc[t] \in Inside
    PROVE  /\ gate = t /\ ~poisoned /\ status # "down" /\ torn = {}
           /\ \A u \in Thread \ {t} : pc[u] \notin Inside
           /\ pc[t] # "publish" => disk = mem
           /\ status = "migrating" => t = Opener
           /\ call[t] \in Call
  <1>1. gate = t /\ ~poisoned /\ status # "down"
    BY DEF StoreInv, GateOK
  <1>2. \A u \in Thread \ {t} : pc[u] \notin Inside
    BY <1>1, OnlyHolder
  <1>3. torn = {} /\ (pc[t] # "publish" => disk = mem)
    BY <1>1, <1>2 DEF StoreInv, MemOK, Inside, Fresh
  <1>4. status = "migrating" => t = Opener
    BY DEF StoreInv, Importing, Thread, Inside, Fresh, Flushing
  <1>5. call[t] \in Call
    BY DEF StoreInv, StoreTypeOK
  <1> QED BY <1>1, <1>2, <1>3, <1>4, <1>5

\* The sync before a rotation preserves the invariant and leaves nothing pending.
LEMMA RotateSyncStep ==
    ASSUME StoreInv, NEW t \in Thread, RotateSync(t)
    PROVE  StoreInv'
  <1>1. pc[t] = "rotate" /\ "rotate" \in Inside /\ Quiet /\ UNCHANGED acked
    BY DEF RotateSync, Inside, Fresh
  <1>2. /\ gate = t /\ ~poisoned /\ status # "down"
        /\ \A u \in Thread \ {t} : pc[u] \notin Inside
        /\ status = "migrating" => t = Opener
        /\ call[t] \in Call
    BY <1>1, InsideFacts
  <1>3. CASE SyncFails /\ Err(t)
    BY <1>1, <1>2, <1>3, SyncFailsStep
  <1>4. CASE Sync /\ Goto(t, "create")
    <2>1. FullSync
      BY <1>1, <1>2, <1>4, SyncFacts DEF Inside, Fresh
    <2>2. Files /\ temp' \in [Sidecar -> BOOLEAN] /\ poisoned' = poisoned /\ poisoned \in BOOLEAN
      BY <1>1, <1>4 DEF Sync, Dirty, Files, Drops, DroppedOK, Quiet, sideVars, StoreInv, StoreTypeOK
    <2>3. Acks
      BY <1>1 DEF Acks, StoreInv, StoreTypeOK
    <2>4. call' = [call EXCEPT ![t] = call[t]]
      BY <1>4 DEF Goto, StoreInv, StoreTypeOK
    <2>5. Moves(t, "create", call[t])
      BY <1>1, <1>2, <1>4, <2>2, <2>4 DEF Moves, Goto
    <2>6. Carry("create", call[t]) /\ "create" \notin Flushing /\ "create" \in Label
      BY <1>1, <2>1 DEF Carry, StoreInv, CallOK, Fresh, Flushing, FullSync, Label
    <2> QED BY <1>2, <2>1, <2>2, <2>3, <2>5, <2>6, CallStep
  <1> QED BY <1>3, <1>4 DEF RotateSync

\* At a new segment everything is synced: the new one may become the tail.
LEMMA CreateSegmentStep ==
    ASSUME StoreInv, NEW t \in Thread, CreateSegment(t)
    PROVE  StoreInv'
  <1>0. /\ StoreTypeOK /\ GateOK /\ DownOK /\ UpOK /\ MemOK /\ CallOK
        /\ Tracked /\ NoOrphan /\ Importing /\ DroppedOK
    BY DEF StoreInv
  <1>1. pc[t] = "create" /\ "create" \in Inside
    BY DEF CreateSegment, Inside, Fresh
  <1>2. /\ gate = t /\ ~poisoned /\ status # "down" /\ torn = {} /\ disk = mem
        /\ \A u \in Thread \ {t} : pc[u] \notin Inside
        /\ status = "migrating" => t = Opener
    BY <1>1, InsideFacts
  <1>3. /\ segs' = segs + 1 /\ active' = active + 1 /\ sideHard' = side
        /\ segs = active /\ active < MaxSegments
        /\ pc' = [pc EXCEPT ![t] = "write"] /\ UNCHANGED <<gate, call>>
        /\ UNCHANGED <<disk, hard, dropped, torn, side, temp, legacy, status, mem, pend,
                       poisoned, acked, lapses>>
    BY DEF CreateSegment, Goto
  <1>4. \A u \in Thread : pc'[u] = IF u = t THEN "write" ELSE pc[u]
    BY <1>0, <1>3 DEF StoreTypeOK
  <1>5. StoreTypeOK'
    BY <1>0, <1>3, StoreAssumption DEF StoreTypeOK, Label
  <1>6. GateOK' /\ DownOK' /\ UpOK'
    BY <1>0, <1>2, <1>3, <1>4 DEF GateOK, DownOK, UpOK, StoreTypeOK, Flushing
  <1>7. MemOK'
    BY <1>0, <1>1, <1>2, <1>3, <1>4 DEF MemOK, Inside, Fresh
  <1>8. CallOK'
    BY <1>0, <1>1, <1>3, <1>4 DEF CallOK, KeyAt, Fresh
  <1>9. Tracked'
    <2> SUFFICES ASSUME "untracked" \notin lapses PROVE Tracked'
      BY <1>3 DEF Tracked
    <2>0. /\ DiskIsLog /\ HardIsPrefix /\ OneTail /\ Counted
          /\ Covered(side) /\ Covered(sideHard) /\ AckedOK
      BY <1>0 DEF Tracked
    <2>1. Unsynced = {}
      BY <1>0, <1>1, <1>2, <2>0 DEF Counted, Unsynced, GateOK
    <2>2. DiskIsLog' /\ HardIsPrefix' /\ AckedOK'
      BY <1>3, <2>0 DEF DiskIsLog, HardIsPrefix, AckedOK
    <2>3. OneTail'
      BY <1>3, <2>1 DEF OneTail, Unsynced
    <2>4. Counted'
      BY <1>3, <1>4, <2>0 DEF Counted, Flushing
    <2>5. Covered(side)' /\ Covered(sideHard)'
      BY <1>0, <1>3, <2>0 DEF Covered, StoreTypeOK, Manifest
    <2> QED BY <2>2, <2>3, <2>4, <2>5 DEF Tracked
  <1>10. NoOrphan'
    <2> SUFFICES ASSUME lapses = {} PROVE NoOrphan'
      BY <1>3 DEF NoOrphan
    <2>1. Unsynced = {}
      BY <1>0, <1>1, <1>2 DEF Tracked, Counted, Unsynced, GateOK
    <2> QED BY <1>2, <1>3, <2>1 DEF NoOrphan, Unsynced
  <1>11. Importing'
    BY <1>0, <1>2, <1>3, <1>4, StoreAssumption DEF Importing, LegacyIsPrefix, Thread, Flushing
  <1>12. DroppedOK'
    BY <1>0, <1>3 DEF DroppedOK
  <1> QED BY <1>5, <1>6, <1>7, <1>8, <1>9, <1>10, <1>11, <1>12 DEF StoreInv

\* A failed rotation: an error, and perhaps an empty segment nobody uses.
LEMMA CreateFailsStep ==
    ASSUME StoreInv, NEW t \in Thread, CreateFails(t)
    PROVE  StoreInv'
  <1>0. /\ StoreTypeOK /\ GateOK /\ DownOK /\ UpOK /\ MemOK /\ CallOK
        /\ Tracked /\ NoOrphan /\ Importing /\ DroppedOK
    BY DEF StoreInv
  <1> DEFINE l == IF t = Opener THEN "failed" ELSE "idle"
  <1>1. pc[t] = "create" /\ "create" \in Inside
    BY DEF CreateFails, Inside, Fresh
  <1>2. /\ gate = t /\ ~poisoned /\ status # "down" /\ torn = {} /\ disk = mem
        /\ \A u \in Thread \ {t} : pc[u] \notin Inside
        /\ status = "migrating" => t = Opener
    BY <1>1, InsideFacts
  <1>3. /\ \/ segs' = segs /\ lapses' = lapses
           \/ segs' = segs + 1 /\ segs < MaxSegments /\ lapses' = lapses \cup {"orphan"}
        /\ gate' = NoCaller /\ pc' = [pc EXCEPT ![t] = l]
        /\ call' = [call EXCEPT ![t] = NoCall]
        /\ UNCHANGED <<disk, hard, dropped, torn, side, sideHard, temp, legacy, status, mem,
                       active, pend, poisoned, acked>>
    BY DEF CreateFails, Err, memVars, sideVars
  <1>4. l \in Label /\ l \notin Inside /\ l # "barrier"
    BY DEF Label, Inside, Fresh, Flushing
  <1> HIDE DEF l
  <1>5. \A u \in Thread : pc'[u] \notin Inside
    BY <1>0, <1>2, <1>3, <1>4 DEF StoreTypeOK
  <1>6. \A u \in Thread : u # t => pc'[u] = pc[u] /\ call'[u] = call[u]
    BY <1>0, <1>3 DEF StoreTypeOK
  <1>7. StoreTypeOK'
    <2>1. segs' \in 0..MaxSegments /\ active' \in 0..segs'
      BY <1>0, <1>3, StoreAssumption DEF StoreTypeOK
    <2>2. lapses' \subseteq {"untracked", "orphan"}
      BY <1>0, <1>3 DEF StoreTypeOK
    <2>3. gate' \in Thread \cup {NoCaller} /\ pc' \in [Thread -> Label]
      BY <1>0, <1>3, <1>4 DEF StoreTypeOK
    <2>4. call' \in [Thread -> Call]
      BY <1>0, <1>3, CallTypes DEF StoreTypeOK
    <2> QED BY <1>0, <1>3, <2>1, <2>2, <2>3, <2>4 DEF StoreTypeOK
  <1>8. GateOK' /\ DownOK' /\ UpOK'
    BY <1>0, <1>2, <1>3, <1>5 DEF GateOK, DownOK, UpOK, StoreTypeOK, Inside, Fresh
  <1>9. MemOK'
    BY <1>0, <1>2, <1>3, <1>5 DEF MemOK, Inside, Fresh
  <1>10. CallOK'
    <2> SUFFICES ASSUME NEW u \in Thread, pc'[u] = "barrier" PROVE CallOK!(u)'
      BY <1>5 DEF CallOK, Inside
    <2>1. u # t
      BY <1>0, <1>3, <1>4 DEF StoreTypeOK
    <2> QED BY <1>0, <1>3, <1>6, <2>1 DEF CallOK, Fresh
  <1>11. Tracked'
    <2> SUFFICES ASSUME "untracked" \notin lapses PROVE Tracked'
      BY <1>3 DEF Tracked
    <2>0. /\ DiskIsLog /\ HardIsPrefix /\ OneTail /\ Counted
          /\ Covered(side) /\ Covered(sideHard) /\ AckedOK
      BY <1>0 DEF Tracked
    <2>1. DiskIsLog' /\ HardIsPrefix' /\ AckedOK' /\ OneTail'
      BY <1>3, <2>0 DEF DiskIsLog, HardIsPrefix, AckedOK, OneTail, Unsynced
    <2>2. Counted'
      BY <1>3, <1>5, <2>0 DEF Counted, Inside, Fresh
    <2>3. Covered(side)' /\ Covered(sideHard)'
      BY <1>0, <1>3, <2>0 DEF Covered, StoreTypeOK, Manifest
    <2> QED BY <2>1, <2>2, <2>3 DEF Tracked
  <1>12. NoOrphan'
    BY <1>0, <1>3 DEF NoOrphan, Unsynced
  <1>13. Importing'
    BY <1>0, <1>2, <1>3, <1>5, <1>6, StoreAssumption DEF Importing, Thread, Inside
  <1>14. DroppedOK'
    BY <1>0, <1>3 DEF DroppedOK
  <1> QED BY <1>7, <1>8, <1>9, <1>10, <1>11, <1>12, <1>13, <1>14 DEF StoreInv

\* A record appended to the active segment of a healthy store.
LEMMA DiskGrows ==
    ASSUME StoreInv, NEW r \in Record, r.seg = active, disk = mem, torn = {},
           status # "down", Len(mem) < MaxRecords, disk' = Append(disk, r),
           UNCHANGED <<hard, segs, torn, side, sideHard, status, mem, active, acked, lapses>>
    PROVE  /\ disk' \in [DOMAIN disk' -> Record] /\ DOMAIN disk' \subseteq 1..MaxRecords
           /\ DOMAIN disk \subseteq DOMAIN disk'
           /\ "untracked" \notin lapses =>
                /\ DiskIsLog' /\ HardIsPrefix' /\ OneTail'
                /\ Covered(side)' /\ Covered(sideHard)' /\ AckedOK'
           /\ NoOrphan'
  <1>0. StoreTypeOK /\ Tracked /\ NoOrphan
    BY DEF StoreInv
  <1> DEFINE n == Len(mem)
  <1>1. /\ disk' \in Seq(Record) /\ n \in Nat /\ Len(disk') = n + 1
        /\ DOMAIN disk = 1..n /\ DOMAIN disk' = 1..(n + 1)
        /\ \A i \in 1..n : disk'[i] = disk[i]
        /\ disk'[n + 1] = r
    BY <1>0, AppendFacts DEF StoreTypeOK
  <1>2. disk' \in [DOMAIN disk' -> Record] /\ DOMAIN disk' \subseteq 1..MaxRecords
    <2>1. disk' \in [1..(n + 1) -> Record]
      BY <1>1, LenProperties
    <2>2. n + 1 <= MaxRecords
      BY <1>1, StoreAssumption
    <2> QED BY <1>1, <2>1, <2>2, StoreAssumption
  <1>3. hard \subseteq 1..n /\ hard' = hard
    BY <1>0, <1>1 DEF StoreTypeOK
  <1>4. Unsynced' = Unsynced \cup {n + 1}
    BY <1>1, <1>3 DEF Unsynced
  <1>5. \A i \in Unsynced : disk'[i].seg = disk[i].seg
    BY <1>1 DEF Unsynced
  <1>6. ASSUME "untracked" \notin lapses
        PROVE  /\ DiskIsLog' /\ HardIsPrefix' /\ OneTail'
               /\ Covered(side)' /\ Covered(sideHard)' /\ AckedOK'
    <2>0. /\ DiskIsLog /\ HardIsPrefix /\ OneTail
          /\ Covered(side) /\ Covered(sideHard) /\ AckedOK
      BY <1>0, <1>6 DEF Tracked
    <2>1. DiskIsLog'
      BY <1>1, StoreAssumption DEF DiskIsLog
    <2>2. HardIsPrefix'
      BY <2>0 DEF HardIsPrefix
    <2>3. OneTail'
      <3>1. \A i \in Unsynced' : disk'[i].seg = active
        BY <1>1, <1>4, <1>5, <2>0 DEF OneTail
      <3> QED BY <3>1 DEF OneTail
    <2>4. Covered(side)' /\ Covered(sideHard)'
      BY <1>1, <1>3, <2>0 DEF Covered
    <2>5. AckedOK'
      <3>1. \A i \in hard : disk'[i] = disk[i]
        BY <1>1, <1>3
      <3>2. acked' = acked /\ hard' = hard
        OBVIOUS
      <3>3. {disk'[i].event : i \in hard'} = {disk[i].event : i \in hard}
        BY <3>1, <3>2, Zenon
      <3> HIDE DEF n
      <3> QED BY <2>0, <3>2, <3>3, Zenon DEF AckedOK
    <2> QED BY <2>1, <2>2, <2>3, <2>4, <2>5
  <1>7. NoOrphan'
    BY <1>0, <1>1, <1>4, <1>5 DEF NoOrphan
  <1> QED BY <1>1, <1>2, <1>3, <1>6, <1>7

\* A write preserves the invariant: files and memory differ by its record.
LEMMA WriteStep ==
    ASSUME StoreInv, NEW t \in Thread, Write(t)
    PROVE  StoreInv'
  <1>0. /\ StoreTypeOK /\ GateOK /\ DownOK /\ UpOK /\ MemOK /\ CallOK
        /\ Tracked /\ NoOrphan /\ Importing /\ DroppedOK
    BY DEF StoreInv
  <1>1. pc[t] = "write" /\ "write" \in Inside /\ "write" \in Fresh
    BY DEF Write, Inside, Fresh
  <1>2. /\ gate = t /\ ~poisoned /\ status # "down" /\ torn = {} /\ disk = mem
        /\ \A u \in Thread \ {t} : pc[u] \notin Inside
        /\ status = "migrating" => t = Opener
    BY <1>1, InsideFacts
  <1>3. /\ disk' = Append(disk, NewRecord(t))
        /\ pc' = [pc EXCEPT ![t] = "publish"] /\ UNCHANGED <<gate, call>>
        /\ UNCHANGED <<hard, dropped, segs, torn, side, sideHard, temp, legacy, status, mem,
                       active, pend, poisoned, acked, lapses>>
    BY DEF Write, Goto, Quiet, memVars, sideVars
  <1>4. \A u \in Thread : pc'[u] = IF u = t THEN "publish" ELSE pc[u]
    BY <1>0, <1>3 DEF StoreTypeOK
  <1>5. Len(mem) < MaxRecords /\ NewRecord(t) \in Record /\ NewRecord(t).seg = active
    BY <1>0, <1>1, NewRecordType DEF CallOK
  <1>6. /\ disk' \in [DOMAIN disk' -> Record] /\ DOMAIN disk' \subseteq 1..MaxRecords
        /\ DOMAIN disk \subseteq DOMAIN disk'
        /\ "untracked" \notin lapses =>
             /\ DiskIsLog' /\ HardIsPrefix' /\ OneTail'
             /\ Covered(side)' /\ Covered(sideHard)' /\ AckedOK'
        /\ NoOrphan'
    BY <1>2, <1>3, <1>5, DiskGrows
  <1>7. StoreTypeOK'
    BY <1>0, <1>3, <1>6 DEF StoreTypeOK, Label
  <1>8. GateOK' /\ DownOK' /\ UpOK'
    BY <1>0, <1>2, <1>3, <1>4 DEF GateOK, DownOK, UpOK, Flushing
  <1>9. MemOK'
    BY <1>2, <1>3, <1>4 DEF MemOK, Inside, Fresh, NewRecord
  <1>10. CallOK'
    BY <1>0, <1>1, <1>3, <1>4 DEF CallOK, KeyAt, Fresh
  <1>11. Tracked'
    BY <1>0, <1>3, <1>4, <1>6 DEF Tracked, Counted, Flushing
  <1>12. Importing'
    BY <1>0, <1>2, <1>3, <1>4, StoreAssumption DEF Importing, LegacyIsPrefix, Thread, Flushing
  <1>13. DroppedOK'
    BY <1>0, <1>3 DEF DroppedOK
  <1> QED BY <1>6, <1>7, <1>8, <1>9, <1>10, <1>11, <1>12, <1>13 DEF StoreInv

\* A failed write preserves the invariant: the store is poisoned.
LEMMA WriteFailsStep ==
    ASSUME StoreInv, NEW t \in Thread, WriteFails(t)
    PROVE  StoreInv'
  <1>0. /\ StoreTypeOK /\ GateOK /\ DownOK /\ UpOK /\ MemOK /\ CallOK
        /\ Tracked /\ NoOrphan /\ Importing /\ DroppedOK
    BY DEF StoreInv
  <1> DEFINE l == IF t = Opener THEN "failed" ELSE "idle"
  <1>1. pc[t] = "write" /\ "write" \in Inside /\ "write" \in Fresh
    BY DEF WriteFails, Inside, Fresh
  <1>2. /\ gate = t /\ ~poisoned /\ status # "down" /\ torn = {} /\ disk = mem
        /\ \A u \in Thread \ {t} : pc[u] \notin Inside
        /\ status = "migrating" => t = Opener
    BY <1>1, InsideFacts
  <1>3. /\ gate' = NoCaller /\ pc' = [pc EXCEPT ![t] = l]
        /\ call' = [call EXCEPT ![t] = NoCall] /\ poisoned' = TRUE
        /\ UNCHANGED <<hard, dropped, segs, side, sideHard, temp, legacy, status, mem, active,
                       pend, acked, lapses>>
        /\ \/ UNCHANGED <<disk, torn>>
           \/ torn' = {active} /\ UNCHANGED disk
           \/ disk' = Append(disk, NewRecord(t)) /\ UNCHANGED torn
    BY <1>2 DEF WriteFails, Err, Quiet, sideVars
  <1>4. l \in Label /\ l \notin Inside /\ l # "barrier"
    BY DEF Label, Inside, Fresh, Flushing
  <1> HIDE DEF l
  <1>5. /\ \A u \in Thread : pc'[u] \notin Inside
        /\ \A u \in Thread : u # t => pc'[u] = pc[u] /\ call'[u] = call[u]
        /\ pc'[t] = l
    BY <1>0, <1>2, <1>3, <1>4 DEF StoreTypeOK
  <1>6. Len(mem) < MaxRecords /\ NewRecord(t) \in Record /\ NewRecord(t).seg = active
    BY <1>0, <1>1, NewRecordType DEF CallOK
  <1>7. active \in 1..MaxSegments
    BY <1>0, <1>2, StoreAssumption DEF UpOK, StoreTypeOK
  <1>8. /\ disk' \in [DOMAIN disk' -> Record] /\ DOMAIN disk' \subseteq 1..MaxRecords
        /\ DOMAIN disk \subseteq DOMAIN disk' /\ torn' \subseteq 1..MaxSegments
        /\ "untracked" \notin lapses =>
             /\ DiskIsLog' /\ HardIsPrefix' /\ OneTail'
             /\ Covered(side)' /\ Covered(sideHard)' /\ AckedOK'
        /\ NoOrphan'
    <2>1. CASE disk' = Append(disk, NewRecord(t)) /\ UNCHANGED torn
      BY <1>0, <1>2, <1>3, <1>6, <2>1, DiskGrows DEF StoreTypeOK
    <2>2. CASE UNCHANGED disk /\ (UNCHANGED torn \/ torn' = {active})
      <3>1. disk' \in [DOMAIN disk' -> Record] /\ DOMAIN disk' \subseteq 1..MaxRecords
            /\ DOMAIN disk \subseteq DOMAIN disk' /\ torn' \subseteq 1..MaxSegments
        BY <1>0, <1>2, <1>7, <2>2 DEF StoreTypeOK
      <3>2. "untracked" \notin lapses =>
               DiskIsLog' /\ HardIsPrefix' /\ Covered(side)' /\ Covered(sideHard)' /\ AckedOK'
        BY <1>0, <1>3, <2>2 DEF Tracked, DiskIsLog, HardIsPrefix, Covered, AckedOK
      <3>3. "untracked" \notin lapses => OneTail'
        BY <1>0, <1>2, <1>3, <2>2 DEF Tracked, OneTail, Unsynced
      <3>4. NoOrphan'
        BY <1>0, <1>2, <1>3, <2>2 DEF NoOrphan, Unsynced
      <3> QED BY <3>1, <3>2, <3>3, <3>4
    <2> QED BY <1>3, <2>1, <2>2
  <1>9. StoreTypeOK'
    BY <1>0, <1>3, <1>4, <1>8, CallTypes DEF StoreTypeOK
  <1>10. GateOK' /\ DownOK' /\ UpOK' /\ MemOK'
    BY <1>0, <1>2, <1>3, <1>5 DEF GateOK, DownOK, UpOK, MemOK, Inside, Fresh
  <1>11. CallOK'
    <2> SUFFICES ASSUME NEW u \in Thread, pc'[u] = "barrier" PROVE CallOK!(u)'
      BY <1>5 DEF CallOK, Inside
    <2> QED BY <1>0, <1>3, <1>4, <1>5 DEF CallOK, Fresh
  <1>12. Tracked'
    BY <1>0, <1>3, <1>5, <1>8 DEF Tracked, Counted, Inside, Fresh
  <1>13. Importing'
    BY <1>0, <1>2, <1>3, <1>5, StoreAssumption DEF Importing, Thread, Inside
  <1>14. DroppedOK'
    BY <1>0, <1>2, <1>3 DEF DroppedOK
  <1> QED BY <1>8, <1>9, <1>10, <1>11, <1>12, <1>13, <1>14 DEF StoreInv

\* Publishing a record preserves the invariant: it is counted as pending.
LEMMA PublishStep ==
    ASSUME StoreInv, NEW t \in Thread, Publish(t)
    PROVE  StoreInv'
  <1>0. /\ StoreTypeOK /\ GateOK /\ DownOK /\ UpOK /\ MemOK /\ CallOK
        /\ Tracked /\ NoOrphan /\ Importing /\ DroppedOK
    BY DEF StoreInv
  <1> DEFINE e == call[t].event
             n == Len(mem)
  <1>1. pc[t] = "publish" /\ "publish" \in Inside /\ "publish" \in Fresh
    BY DEF Publish, Inside, Fresh
  <1>2. /\ gate = t /\ ~poisoned /\ status # "down" /\ torn = {}
        /\ \A u \in Thread \ {t} : pc[u] \notin Inside
        /\ status = "migrating" => t = Opener
        /\ call[t] \in Call
    BY <1>1, InsideFacts
  <1>3. /\ mem' = Append(mem, NewRecord(t)) /\ pend' = pend \cup {n + 1}
        /\ UNCHANGED <<disk, hard, dropped, segs, torn, side, sideHard, temp, legacy, status,
                       active, poisoned, acked, lapses>>
    BY DEF Publish, Quiet, diskVars, sideVars
  <1>4. PICK l \in {"idle", "barrier", "commit"}, c \in Call :
          /\ pc' = [pc EXCEPT ![t] = l] /\ call' = [call EXCEPT ![t] = c]
          /\ l = "commit" => gate' = t
          /\ l # "idle" => c.event = e
          /\ gate' \in {t, NoCaller}
    <2>1. CASE Appended(t, call[t].op, e)
      <3>1. CASE call[t].op = "append"
        BY <2>1, <3>1, CallTypes DEF Appended
      <3>2. CASE call[t].op # "append"
        <4>1. [op |-> call[t].op, event |-> e, side |-> "index"] \in Call
          BY <1>2 DEF Call, Sidecar
        <4> QED BY <2>1, <3>2, <4>1 DEF Appended
      <3> QED BY <3>1, <3>2
    <2>2. CASE Goto(t, "commit")
      <3>1. call' = [call EXCEPT ![t] = call[t]]
        BY <1>0, <2>2 DEF Goto, StoreTypeOK
      <3> QED BY <1>2, <2>2, <3>1 DEF Goto
    <2> QED BY <2>1, <2>2 DEF Publish
  <1>5. disk = Append(mem, NewRecord(t)) /\ NewRecord(t) \in Record /\ NewRecord(t).event = e
        /\ n < MaxRecords /\ e \in Events
    BY <1>0, <1>1, NewRecordType DEF MemOK, CallOK, NewRecord
  <1>6. /\ mem' \in Seq(Record) /\ n \in Nat /\ Len(mem') = n + 1
        /\ DOMAIN mem = 1..n /\ DOMAIN mem' = 1..(n + 1)
        /\ \A i \in 1..n : mem'[i] = mem[i]
        /\ mem'[n + 1] = NewRecord(t)
    BY <1>0, <1>3, <1>5, AppendFacts DEF StoreTypeOK
  <1>7. disk' = mem'
    BY <1>3, <1>5
  <1>8. \A u \in Thread : /\ pc'[u] = IF u = t THEN l ELSE pc[u]
                          /\ call'[u] = IF u = t THEN c ELSE call[u]
    BY <1>0, <1>4 DEF StoreTypeOK
  <1>9. l \in Label /\ l \notin Fresh \cup Flushing \cup {"create"}
    BY DEF Label, Fresh, Flushing
  <1>10. \A u \in Thread : pc'[u] \notin Fresh \cup Flushing
    BY <1>2, <1>8, <1>9 DEF Inside
  <1>11. StoreTypeOK'
    <2>1. Len(mem') <= MaxRecords /\ pend' \subseteq DOMAIN mem'
      BY <1>0, <1>3, <1>5, <1>6, StoreAssumption DEF StoreTypeOK
    <2>2. pc' \in [Thread -> Label] /\ call' \in [Thread -> Call] /\ gate' \in Thread \cup {NoCaller}
      BY <1>0, <1>4, <1>9 DEF StoreTypeOK
    <2> QED BY <1>0, <1>3, <1>6, <2>1, <2>2 DEF StoreTypeOK
  <1>12. GateOK'
    BY <1>2, <1>3, <1>4, <1>8 DEF GateOK, Inside, Fresh, Flushing
  <1>13. DownOK' /\ UpOK'
    BY <1>0, <1>2, <1>3 DEF DownOK, UpOK
  <1>14. MemOK'
    BY <1>2, <1>3, <1>7, <1>10 DEF MemOK, Fresh
  <1>15. CallOK'
    <2> SUFFICES ASSUME NEW u \in Thread, pc'[u] \in {"commit", "barrier"} PROVE CallOK!(u)'
      BY <1>10 DEF CallOK
    <2>1. CASE u = t
      BY <1>4, <1>5, <1>6, <1>8, <1>10, <2>1
    <2>2. CASE u # t
      BY <1>0, <1>6, <1>8, <1>10, <2>2 DEF CallOK
    <2> QED BY <2>1, <2>2
  <1>16. Tracked'
    <2> SUFFICES ASSUME "untracked" \notin lapses PROVE Tracked'
      BY <1>3 DEF Tracked
    <2>0. /\ DiskIsLog /\ HardIsPrefix /\ OneTail /\ Counted
          /\ Covered(side) /\ Covered(sideHard) /\ AckedOK
      BY <1>0 DEF Tracked
    <2>1. DiskIsLog' /\ HardIsPrefix' /\ AckedOK' /\ OneTail'
          /\ Covered(side)' /\ Covered(sideHard)'
      BY <1>3, <2>0 DEF DiskIsLog, HardIsPrefix, AckedOK, OneTail, Unsynced, Covered
    <2>2. Counted'
      BY <1>3, <1>6, <1>10, <2>0 DEF Counted, Fresh
    <2> QED BY <2>1, <2>2 DEF Tracked
  <1>17. NoOrphan'
    BY <1>0, <1>3 DEF NoOrphan, Unsynced
  <1>18. Importing'
    BY <1>0, <1>2, <1>3, <1>8, <1>10, StoreAssumption DEF Importing, Thread
  <1>19. DroppedOK'
    BY <1>0, <1>3 DEF DroppedOK
  <1> QED BY <1>11, <1>12, <1>13, <1>14, <1>15, <1>16, <1>17, <1>18, <1>19 DEF StoreInv

\* A group commit preserves the invariant.
LEMMA GroupCommitStep ==
    ASSUME StoreInv, NEW t \in Thread, GroupCommit(t)
    PROVE  StoreInv'
  <1> DEFINE op == call[t].op
             e == call[t].event
             l == IF op = "append" THEN "idle" ELSE "barrier"
             c == IF op = "append" THEN NoCall
                  ELSE [op |-> op, event |-> e, side |-> "index"]
  <1>1. pc[t] = "commit" /\ "commit" \in Inside /\ Quiet /\ UNCHANGED acked
    BY DEF GroupCommit, Inside
  <1>2. /\ gate = t /\ ~poisoned /\ status # "down"
        /\ \A u \in Thread \ {t} : pc[u] \notin Inside
        /\ status = "migrating" => t = Opener
        /\ call[t] \in Call
    BY <1>1, InsideFacts
  <1>3. CASE SyncFails /\ Err(t)
    BY <1>1, <1>2, <1>3, SyncFailsStep
  <1>4. CASE Sync /\ Appended(t, op, e)
    <2>1. FullSync
      BY <1>1, <1>2, <1>4, SyncFacts DEF Inside, Fresh
    <2>2. Files /\ temp' \in [Sidecar -> BOOLEAN] /\ poisoned' = poisoned /\ poisoned \in BOOLEAN
      BY <1>1, <1>4 DEF Sync, Dirty, Files, Drops, DroppedOK, Quiet, sideVars, StoreInv, StoreTypeOK
    <2>3. Acks
      BY <1>1 DEF Acks, StoreInv, StoreTypeOK
    <2>4. /\ l \in Label /\ l \notin Inside /\ l # "publish" /\ c \in Call
          /\ l = "barrier" => c.event = e
      BY <1>2, CallTypes DEF Label, Inside, Fresh, Flushing, Call, Sidecar
    <2>5. e \in Events /\ \E i \in DOMAIN mem : mem[i].event = e
      BY <1>1 DEF StoreInv, CallOK
    <2>6. Moves(t, l, c)
      BY <1>1, <1>2, <1>4, <2>4 DEF Moves, Appended
    <2>7. Carry(l, c) /\ l \notin Flushing
      BY <2>4, <2>5 DEF Carry, Inside
    <2> HIDE DEF l, c
    <2> QED BY <1>2, <2>1, <2>2, <2>3, <2>4, <2>6, <2>7, CallStep
  <1> QED BY <1>3, <1>4 DEF GroupCommit

\* The barrier of append_durable preserves the invariant: what it acknowledges
\* is synced.
LEMMA BarrierStep ==
    ASSUME StoreInv, NEW t \in Thread, Barrier(t)
    PROVE  StoreInv'
  <1>1. pc[t] = "barrier" /\ gate = NoCaller /\ ~poisoned /\ Quiet
    BY DEF Barrier
  <1>2. \A u \in Thread : pc[u] \notin Inside
    BY <1>1, OnlyHolder DEF Inside, Fresh, Flushing
  <1>3. status # "down" /\ (status = "migrating" => t = Opener)
    BY <1>1 DEF StoreInv, DownOK, Importing, Thread
  <1>4. CASE SyncFails /\ Err(t) /\ UNCHANGED acked
    BY <1>1, <1>3, <1>4, SyncFailsStep
  <1>5. CASE Sync /\ Leave(t) /\ acked' = acked \cup {call[t].event}
    <2>1. FullSync
      BY <1>1, <1>2, <1>3, <1>5, SyncFacts DEF Inside, Fresh
    <2>2. Files /\ temp' \in [Sidecar -> BOOLEAN] /\ poisoned' = poisoned /\ poisoned \in BOOLEAN
      BY <1>1, <1>5 DEF Sync, Dirty, Files, Drops, DroppedOK, Quiet, sideVars, StoreInv, StoreTypeOK
    <2>3. call[t].event \in Events /\ \E i \in DOMAIN mem : mem[i].event = call[t].event
      BY <1>1 DEF StoreInv, CallOK
    <2>4. Acks
      BY <1>5, <2>1, <2>3 DEF Acks, FullSync, StoreInv, StoreTypeOK
    <2>5. "idle" \in Label /\ "idle" \notin Inside /\ "idle" \notin Flushing
      BY DEF Label, Inside, Fresh, Flushing
    <2>6. Moves(t, "idle", NoCall)
      BY <1>1, <1>2, <1>5, <2>5 DEF Moves, Leave
    <2>7. Carry("idle", NoCall)
      BY <2>5 DEF Carry, Inside
    <2> QED BY <1>3, <2>1, <2>2, <2>4, <2>5, <2>6, <2>7, CallTypes, CallStep
  <1> QED BY <1>4, <1>5 DEF Barrier

\* A barrier refused by a poisoned store preserves the invariant.
LEMMA BarrierRefusedStep ==
    ASSUME StoreInv, NEW t \in Thread, BarrierRefused(t)
    PROVE  StoreInv'
  <1> DEFINE l == IF t = Opener THEN "failed" ELSE "idle"
  <1>1. pc[t] = "barrier" /\ gate = NoCaller /\ Err(t) /\ Quiet
        /\ UNCHANGED <<diskVars, memVars, acked>>
    BY DEF BarrierRefused
  <1>2. /\ status # "down" /\ (status = "migrating" => t = Opener)
        /\ \A u \in Thread \ {t} : pc[u] \notin Inside
    BY <1>1, OnlyHolder DEF StoreInv, DownOK, Importing, Thread
  <1>3. l \in Label /\ l \notin Inside /\ l # "barrier" /\ l # "publish" /\ l \notin Flushing
    BY DEF Label, Inside, Fresh, Flushing
  <1>4. Files /\ temp' \in [Sidecar -> BOOLEAN] /\ hard' = hard /\ pend' = pend
        /\ poisoned' = poisoned /\ poisoned \in BOOLEAN
    BY <1>1 DEF Files, Drops, DroppedOK, Quiet, diskVars, memVars, sideVars, StoreInv, StoreTypeOK
  <1>5. Acks
    BY <1>1 DEF Acks, StoreInv, StoreTypeOK
  <1>6. Moves(t, l, NoCall)
    BY <1>1, <1>2, <1>3 DEF Moves, Err
  <1>7. Carry(l, NoCall)
    BY <1>3 DEF Carry, Inside, Fresh, Flushing
  <1> HIDE DEF l
  <1> QED BY <1>2, <1>3, <1>4, <1>5, <1>6, <1>7, CallTypes, CallStep

\* The sync that begins a flush preserves the invariant.
LEMMA FlushSyncStep ==
    ASSUME StoreInv, NEW t \in Thread, NEW op \in SyncOp, FlushSync(t, op)
    PROVE  StoreInv'
  <1>1. MayCall(t, op, NoEvent) /\ ~poisoned /\ Quiet /\ UNCHANGED acked
    BY DEF FlushSync
  <1>2. /\ status # "down" /\ pc[t] = "idle" /\ \A u \in Thread : pc[u] \notin Inside
        /\ status = "migrating" => t = Opener /\ LegacyIsPrefix
    BY <1>1, MayCallFacts
  <1>3. CASE SyncFails /\ Err(t)
    BY <1>1, <1>2, <1>3, SyncFailsStep DEF MayCall
  <1>4. CASE Sync /\ \E k \in Sidecar : Enter(t, "temp", op, NoEvent, k)
    <2>1. PICK k \in Sidecar : Enter(t, "temp", op, NoEvent, k)
      BY <1>4
    <2> DEFINE c == [op |-> op, event |-> NoEvent, side |-> k]
    <2>2. FullSync
      BY <1>1, <1>2, <1>4, SyncFacts DEF Inside, Fresh
    <2>3. Files /\ temp' \in [Sidecar -> BOOLEAN] /\ poisoned' = poisoned /\ poisoned \in BOOLEAN
      BY <1>1, <1>4 DEF Sync, Dirty, Files, Drops, DroppedOK, Quiet, sideVars, StoreInv, StoreTypeOK
    <2>4. Acks
      BY <1>1 DEF Acks, StoreInv, StoreTypeOK
    <2>5. c \in Call /\ "temp" \in Label
      BY CallTypes DEF Label
    <2>6. Moves(t, "temp", c)
      BY <1>1, <1>2, <2>1, <2>3 DEF Moves, Enter
    <2>7. Carry("temp", c)
      BY <2>2 DEF Carry, Fresh, FullSync
    <2> HIDE DEF c
    <2> QED BY <1>2, <2>2, <2>3, <2>4, <2>5, <2>6, <2>7, CallStep
  <1> QED BY <1>3, <1>4 DEF FlushSync, Sidecar

\* A flush refused by a poisoned store preserves the invariant.
LEMMA FlushRefusedStep ==
    ASSUME StoreInv, NEW t \in Thread, NEW op \in SyncOp, FlushRefused(t, op)
    PROVE  StoreInv'
  <1> DEFINE l == IF t = Opener THEN "failed" ELSE "idle"
  <1>1. MayCall(t, op, NoEvent) /\ Err(t) /\ Quiet /\ UNCHANGED <<diskVars, memVars, acked>>
    BY DEF FlushRefused
  <1>2. /\ status # "down" /\ pc[t] = "idle" /\ \A u \in Thread : pc[u] \notin Inside
        /\ status = "migrating" => t = Opener
    BY <1>1, MayCallFacts
  <1>3. l \in Label /\ l \notin Inside /\ l # "barrier" /\ l # "publish" /\ l \notin Flushing
    BY DEF Label, Inside, Fresh, Flushing
  <1>4. Files /\ temp' \in [Sidecar -> BOOLEAN] /\ hard' = hard /\ pend' = pend
        /\ poisoned' = poisoned /\ poisoned \in BOOLEAN
    BY <1>1 DEF Files, Drops, DroppedOK, Quiet, diskVars, memVars, sideVars, StoreInv, StoreTypeOK
  <1>5. Acks
    BY <1>1 DEF Acks, StoreInv, StoreTypeOK
  <1>6. Moves(t, l, NoCall)
    BY <1>1, <1>2, <1>3 DEF Moves, Err
  <1>7. Carry(l, NoCall)
    BY <1>3 DEF Carry, Inside, Fresh, Flushing
  <1> HIDE DEF l
  <1> QED BY <1>2, <1>3, <1>4, <1>5, <1>6, <1>7, CallTypes, CallStep

\* The temporary file of a sidecar preserves the invariant.
LEMMA SidecarTempStep ==
    ASSUME StoreInv, NEW t \in Thread, SidecarTemp(t)
    PROVE  StoreInv'
  <1>1. pc[t] = "temp" /\ "temp" \in Inside /\ "temp" \in Flushing
        /\ UNCHANGED <<diskVars, side, sideHard, legacy, status, memVars, acked, lapses>>
    BY DEF SidecarTemp, Inside, Flushing
  <1>2. /\ gate = t /\ ~poisoned /\ status # "down"
        /\ \A u \in Thread \ {t} : pc[u] \notin Inside
        /\ status = "migrating" => t = Opener
        /\ call[t] \in Call
    BY <1>1, InsideFacts
  <1>3. Files /\ hard' = hard /\ pend' = pend /\ poisoned' = poisoned /\ poisoned \in BOOLEAN
    BY <1>1 DEF Files, Drops, DroppedOK, diskVars, memVars, StoreInv, StoreTypeOK
  <1>4. temp' \in [Sidecar -> BOOLEAN]
    BY DEF SidecarTemp, StoreInv, StoreTypeOK
  <1>5. Acks
    BY <1>1 DEF Acks, StoreInv, StoreTypeOK
  <1>6. pend = {} /\ (status = "migrating" => LegacyIsPrefix)
    BY <1>1, <1>2 DEF StoreInv, GateOK, Importing
  <1>7. CASE Goto(t, "rename")
    <2>1. call' = [call EXCEPT ![t] = call[t]]
      BY <1>7 DEF Goto, StoreInv, StoreTypeOK
    <2>2. Moves(t, "rename", call[t])
      BY <1>1, <1>2, <1>3, <1>7, <2>1 DEF Moves, Goto
    <2>3. "rename" \in Label /\ "rename" \in Flushing
      BY DEF Label, Flushing
    <2>4. Carry("rename", call[t])
      BY <1>3, <1>6 DEF Carry, Fresh
    <2> QED BY <1>2, <1>3, <1>4, <1>5, <1>6, <2>2, <2>3, <2>4, CallStep
  <1>8. CASE Err(t)
    <2> DEFINE l == IF t = Opener THEN "failed" ELSE "idle"
    <2>1. l \in Label /\ l \notin Inside /\ l # "barrier" /\ l # "publish" /\ l \notin Flushing
      BY DEF Label, Inside, Fresh, Flushing
    <2>2. Moves(t, l, NoCall)
      BY <1>1, <1>2, <1>8, <2>1 DEF Moves, Err
    <2>3. Carry(l, NoCall)
      BY <2>1 DEF Carry, Inside, Fresh, Flushing
    <2> HIDE DEF l
    <2> QED BY <1>2, <1>3, <1>4, <1>5, <2>1, <2>2, <2>3, CallTypes, CallStep
  <1> QED BY <1>7, <1>8 DEF SidecarTemp

\* A step that publishes or syncs a sidecar of what is already on disk.
LEMMA SidecarStep ==
    ASSUME StoreInv, NEW t \in Thread, NEW l \in Label, NEW c \in Call,
           UNCHANGED <<disk, hard, dropped, segs, torn, legacy, mem, active, pend, poisoned,
                       lapses>>,
           status # "down", status' = status \/ (status' = "up" /\ l \notin Flushing),
           temp' \in [Sidecar -> BOOLEAN], side' \in Manifest, sideHard' \in Manifest,
           "untracked" \notin lapses => Covered(side)' /\ Covered(sideHard)',
           Acks, Moves(t, l, c), l \notin Fresh \cup {"commit", "barrier"},
           pc[t] \in Flushing, status = "migrating" => t = Opener
    PROVE  StoreInv'
  <1>0. /\ StoreTypeOK /\ GateOK /\ DownOK /\ UpOK /\ MemOK /\ CallOK
        /\ Tracked /\ NoOrphan /\ Importing /\ DroppedOK
    BY DEF StoreInv
  <1>1. /\ \A u \in Thread : pc'[u] = IF u = t THEN l ELSE pc[u]
        /\ \A u \in Thread : call'[u] = IF u = t THEN c ELSE call[u]
    BY <1>0 DEF StoreTypeOK, Moves
  <1>2. StoreTypeOK'
    <2>1. gate' \in Thread \cup {NoCaller} /\ pc' \in [Thread -> Label] /\ call' \in [Thread -> Call]
      BY <1>0 DEF StoreTypeOK, Moves
    <2>2. status' \in {"down", "migrating", "up"} /\ acked' \subseteq Events
      BY <1>0 DEF StoreTypeOK, Acks
    <2> QED BY <1>0, <2>1, <2>2 DEF StoreTypeOK
  <1>3. pend = {}
    BY <1>0 DEF GateOK
  <1>4. GateOK' /\ DownOK' /\ UpOK'
    BY <1>0, <1>1, <1>3 DEF GateOK, DownOK, UpOK, Moves, Inside
  <1>5. MemOK'
    BY <1>0, <1>1 DEF MemOK, NewRecord, Moves, Fresh
  <1>6. CallOK'
    BY <1>0, <1>1 DEF CallOK, KeyAt
  <1>7. Tracked'
    <2> SUFFICES ASSUME "untracked" \notin lapses PROVE Tracked'
      BY DEF Tracked
    <2>0. DiskIsLog /\ HardIsPrefix /\ OneTail /\ Counted /\ AckedOK
      BY <1>0 DEF Tracked
    <2>1. DiskIsLog' /\ HardIsPrefix' /\ OneTail' /\ Counted'
      BY <2>0 DEF DiskIsLog, HardIsPrefix, OneTail, Unsynced, Counted
    <2>2. AckedOK'
      BY <2>0 DEF AckedOK, Acks
    <2> QED BY <2>1, <2>2 DEF Tracked
  <1>8. NoOrphan'
    BY <1>0 DEF NoOrphan, Unsynced
  <1>9. Importing'
    BY <1>0, <1>1, StoreAssumption DEF Importing, LegacyIsPrefix, Thread, Moves
  <1>10. DroppedOK'
    BY <1>0 DEF DroppedOK
  <1> QED BY <1>2, <1>4, <1>5, <1>6, <1>7, <1>8, <1>9, <1>10 DEF StoreInv

\* The rename of a sidecar preserves the invariant: it holds synced records.
LEMMA SidecarRenameStep ==
    ASSUME StoreInv, NEW t \in Thread, SidecarRename(t)
    PROVE  StoreInv'
  <1>0. StoreTypeOK /\ GateOK /\ UpOK /\ Tracked
    BY DEF StoreInv
  <1>1. pc[t] = "rename" /\ "rename" \in Inside /\ "rename" \in Flushing
        /\ UNCHANGED <<disk, hard, dropped, segs, torn, sideHard, legacy, status, mem, active, pend,
                       poisoned, acked, lapses>>
    BY DEF SidecarRename, Inside, Flushing, diskVars, memVars
  <1>2. /\ gate = t /\ ~poisoned /\ status # "down" /\ disk = mem
        /\ \A u \in Thread \ {t} : pc[u] \notin Inside
        /\ status = "migrating" => t = Opener
        /\ call[t] \in Call
    BY <1>1, InsideFacts
  <1>3. pend = {} /\ active \in 0..MaxSegments /\ active <= segs
    BY <1>0, <1>1, StoreAssumption DEF GateOK, StoreTypeOK
  <1>4. Acks
    BY <1>0, <1>1 DEF Acks, StoreTypeOK
  <1>5. /\ temp' \in [Sidecar -> BOOLEAN] /\ sideHard' \in Manifest
        /\ side' = side \/ side' = [recs |-> mem, segs |-> active]
    BY <1>0, <1>1 DEF SidecarRename, StoreTypeOK
  <1>6. side' \in Manifest
    BY <1>0, <1>3, <1>5 DEF StoreTypeOK, Manifest
  <1>7. ASSUME "untracked" \notin lapses PROVE Covered(side)' /\ Covered(sideHard)'
    <2>1. Covered(side) /\ Covered(sideHard) /\ DOMAIN mem \subseteq hard
      BY <1>0, <1>3, <1>7 DEF Tracked, Counted
    <2>2. Covered(sideHard)'
      BY <1>1, <2>1 DEF Covered
    <2>3. CASE side' = side
      BY <1>1, <2>1, <2>3 DEF Covered
    <2>4. CASE side' = [recs |-> mem, segs |-> active]
      BY <1>1, <1>2, <1>3, <2>1, <2>4 DEF Covered
    <2> QED BY <1>5, <2>2, <2>3, <2>4
  <1>8. CASE Goto(t, "dirsync")
    <2>1. call' = [call EXCEPT ![t] = call[t]]
      BY <1>0, <1>8 DEF Goto, StoreTypeOK
    <2>2. Moves(t, "dirsync", call[t])
      BY <1>1, <1>2, <1>8, <2>1 DEF Moves, Goto
    <2>3. "dirsync" \in Label /\ "dirsync" \notin Fresh \cup {"commit", "barrier"}
      BY DEF Label, Fresh
    <2> QED BY <1>1, <1>2, <1>4, <1>5, <1>6, <1>7, <2>2, <2>3, SidecarStep
  <1>9. CASE Err(t)
    <2> DEFINE l == IF t = Opener THEN "failed" ELSE "idle"
    <2>1. /\ l \in Label /\ l \notin Inside /\ l # "publish"
          /\ l \notin Fresh \cup {"commit", "barrier"}
      BY DEF Label, Inside, Fresh, Flushing
    <2>2. Moves(t, l, NoCall)
      BY <1>1, <1>2, <1>9, <2>1 DEF Moves, Err
    <2> HIDE DEF l
    <2> QED BY <1>1, <1>2, <1>4, <1>5, <1>6, <1>7, <2>1, <2>2, CallTypes, SidecarStep
  <1> QED BY <1>8, <1>9 DEF SidecarRename

\* The directory fsync and the end of a flush preserve the invariant: what is
\* acknowledged is synced.
LEMMA SidecarDirSyncStep ==
    ASSUME StoreInv, NEW t \in Thread, SidecarDirSync(t)
    PROVE  StoreInv'
  <1>0. StoreTypeOK /\ GateOK /\ UpOK /\ Tracked
    BY DEF StoreInv
  <1>1. pc[t] = "dirsync" /\ "dirsync" \in Inside /\ "dirsync" \in Flushing
        /\ sideHard' = side
        /\ UNCHANGED <<disk, hard, dropped, segs, torn, side, temp, legacy, mem, active, pend,
                       poisoned, lapses>>
    BY DEF SidecarDirSync, Inside, Flushing, diskVars, memVars
  <1>2. /\ gate = t /\ ~poisoned /\ status # "down" /\ disk = mem
        /\ \A u \in Thread \ {t} : pc[u] \notin Inside
        /\ status = "migrating" => t = Opener
        /\ call[t] \in Call
    BY <1>1, InsideFacts
  <1>3. temp' \in [Sidecar -> BOOLEAN] /\ side' \in Manifest /\ sideHard' \in Manifest
    BY <1>0, <1>1 DEF StoreTypeOK
  <1>4. "untracked" \notin lapses => Covered(side)' /\ Covered(sideHard)'
    BY <1>0, <1>1 DEF Tracked, Covered
  <1>5. CASE call[t].side = "snapshot"
    <2> DEFINE c == [call[t] EXCEPT !.side = "index"]
    <2>1. c \in Call
      BY <1>2 DEF Call, Sidecar
    <2>2. /\ pc' = [pc EXCEPT ![t] = "temp"] /\ call' = [call EXCEPT ![t] = c]
          /\ UNCHANGED <<gate, acked, status>>
      BY <1>5 DEF SidecarDirSync
    <2>3. Acks
      BY <1>0, <2>2 DEF Acks, StoreTypeOK
    <2>4. Moves(t, "temp", c)
      BY <1>1, <1>2, <2>2 DEF Moves
    <2>5. "temp" \in Label /\ "temp" \notin Fresh \cup {"commit", "barrier"}
      BY DEF Label, Fresh
    <2> HIDE DEF c
    <2> QED BY <1>1, <1>2, <1>3, <1>4, <2>1, <2>2, <2>3, <2>4, <2>5, SidecarStep
  <1>6. CASE call[t].side # "snapshot"
    <2> DEFINE l == IF call[t].op = "export" THEN "export" ELSE "idle"
    <2>1. /\ gate' = NoCaller /\ pc' = [pc EXCEPT ![t] = l]
          /\ call' = [call EXCEPT ![t] = NoCall]
          /\ acked' = acked \cup {mem[i].event : i \in DOMAIN mem} /\ status' = "up"
      BY <1>6 DEF SidecarDirSync
    <2>2. /\ l \in Label /\ l \notin Inside /\ l # "publish" /\ l \notin Flushing
          /\ l \notin Fresh \cup {"commit", "barrier"}
      BY DEF Label, Inside, Fresh, Flushing
    <2>3. Acks
      <3>1. \A i \in DOMAIN mem : mem[i].event \in Events
        <4> SUFFICES ASSUME NEW i \in DOMAIN mem PROVE mem[i].event \in Events
          OBVIOUS
        <4>1. mem \in Seq(Record)
          BY <1>0 DEF StoreTypeOK
        <4>2. mem[i] \in Record
          BY <4>1, LenProperties, ElementOfSeq
        <4> QED BY <4>2 DEF Record
      <3>2. "untracked" \notin lapses => DOMAIN mem \subseteq hard
        BY <1>0, <1>1 DEF Tracked, Counted, GateOK
      <3> QED BY <1>0, <1>1, <1>2, <2>1, <3>1, <3>2 DEF Acks, StoreTypeOK
    <2>4. Moves(t, l, NoCall)
      BY <1>1, <1>2, <2>1, <2>2 DEF Moves
    <2> HIDE DEF l
    <2> QED BY <1>1, <1>2, <1>3, <1>4, <2>1, <2>2, <2>3, <2>4, CallTypes, SidecarStep
  <1> QED BY <1>5, <1>6

\* The v1 file is no part of the store: only an import that is about to end
\* depends on it.
LEMMA LegacyStep ==
    ASSUME StoreInv, legacy' \in Seq(Events),
           UNCHANGED <<diskVars, sideVars, status, memVars, callVars, acked, lapses>>,
           status = "migrating" => pc[Opener] \notin Flushing
    PROVE  StoreInv'
  <1>0. /\ StoreTypeOK /\ GateOK /\ DownOK /\ UpOK /\ MemOK /\ CallOK
        /\ Tracked /\ NoOrphan /\ Importing /\ DroppedOK
    BY DEF StoreInv
  <1> USE DEF diskVars, sideVars, memVars, callVars
  <1>1. StoreTypeOK'
    BY <1>0 DEF StoreTypeOK
  <1>2. GateOK' /\ DownOK' /\ UpOK'
    BY <1>0 DEF GateOK, DownOK, UpOK
  <1>3. MemOK' /\ CallOK'
    BY <1>0 DEF MemOK, CallOK, NewRecord, KeyAt
  <1>4. Tracked'
    BY <1>0 DEF Tracked, DiskIsLog, HardIsPrefix, OneTail, Unsynced, Counted, Covered, AckedOK
  <1>5. NoOrphan' /\ Importing' /\ DroppedOK'
    BY <1>0 DEF NoOrphan, Unsynced, Importing, DroppedOK
  <1> QED BY <1>1, <1>2, <1>3, <1>4, <1>5 DEF StoreInv

\* One record copied into the v1 file preserves the invariant.
LEMMA ExportRecordStep ==
    ASSUME StoreInv, NEW t \in Thread, ExportRecord(t)
    PROVE  StoreInv'
  <1>0. StoreTypeOK /\ Importing
    BY DEF StoreInv
  <1>1. /\ pc[t] = "export" /\ Len(legacy) < Len(mem)
        /\ legacy' = Append(legacy, mem[Len(legacy) + 1].event)
        /\ UNCHANGED <<diskVars, sideVars, status, memVars, callVars, acked, lapses>>
    BY DEF ExportRecord
  <1>2. status = "migrating" => pc[Opener] \notin Flushing
    BY <1>0, <1>1 DEF Importing, Thread, Flushing
  <1>3. mem \in Seq(Record) /\ legacy \in Seq(Events)
    BY <1>0 DEF StoreTypeOK
  <1>4. Len(legacy) \in Nat /\ Len(mem) \in Nat
    BY <1>3, LenProperties
  <1>5. mem[Len(legacy) + 1] \in Record
    BY <1>1, <1>3, <1>4, ElementOfSeq
  <1>6. legacy' \in Seq(Events)
    BY <1>1, <1>3, <1>5, AppendFacts DEF Record
  <1> QED BY <1>1, <1>2, <1>6, LegacyStep

\* The end of an export preserves the invariant.
LEMMA ExportEndsStep ==
    ASSUME StoreInv, NEW t \in Thread, ExportEnds(t)
    PROVE  StoreInv'
  <1>0. StoreTypeOK /\ Importing /\ DownOK /\ DroppedOK
    BY DEF StoreInv
  <1>1. /\ pc[t] = "export" /\ pc' = [pc EXCEPT ![t] = "idle"]
        /\ UNCHANGED <<diskVars, sideVars, legacy, status, memVars, gate, call, acked, lapses>>
    BY DEF ExportEnds
  <1>2. status # "down" /\ (status = "migrating" => t = Opener)
    BY <1>0, <1>1 DEF DownOK, Importing, Thread
  <1>3. "idle" \in Label /\ call[t] \in Call /\ call' = [call EXCEPT ![t] = call[t]]
    BY <1>0, <1>1 DEF Label, StoreTypeOK
  <1>4. /\ Files /\ temp' \in [Sidecar -> BOOLEAN] /\ hard' = hard /\ pend' = pend
        /\ poisoned' = poisoned /\ poisoned \in BOOLEAN
    BY <1>0, <1>1 DEF Files, Drops, DroppedOK, diskVars, sideVars, memVars, StoreTypeOK
  <1>5. Acks
    BY <1>0, <1>1 DEF Acks, StoreTypeOK
  <1>6. Moves(t, "idle", call[t])
    BY <1>1, <1>3, <1>4 DEF Moves, Inside, Fresh, Flushing
  <1>7. Carry("idle", call[t]) /\ "idle" \notin Flushing
    BY DEF Carry, Fresh, Flushing
  <1> QED BY <1>2, <1>3, <1>4, <1>5, <1>6, <1>7, CallStep

\* A line of the v1 host preserves the invariant.
LEMMA LegacyAppendStep ==
    ASSUME StoreInv, NEW e \in Events, LegacyAppend(e)
    PROVE  StoreInv'
  <1>1. /\ status = "down" /\ legacy' = Append(legacy, e)
        /\ UNCHANGED <<diskVars, sideVars, status, memVars, callVars, acked, lapses>>
    BY DEF LegacyAppend
  <1>2. legacy' \in Seq(Events)
    BY <1>1, AppendFacts DEF StoreInv, StoreTypeOK
  <1> QED BY <1>1, <1>2, LegacyStep

\* A store ahead of its v1 file opens without touching anything.
LEMMA MigrateAheadStep ==
    ASSUME StoreInv, MigrateAhead
    PROVE  StoreInv'
  <1>0. /\ StoreTypeOK /\ GateOK /\ DownOK /\ UpOK /\ MemOK /\ CallOK
        /\ Tracked /\ NoOrphan /\ Importing /\ DroppedOK
    BY DEF StoreInv
  <1>1. /\ status = "migrating" /\ status' = "up"
        /\ UNCHANGED <<diskVars, sideVars, legacy, memVars, callVars, acked, lapses>>
    BY DEF MigrateAhead
  <1> USE DEF diskVars, sideVars, memVars, callVars
  <1>2. StoreTypeOK'
    BY <1>0, <1>1 DEF StoreTypeOK
  <1>3. GateOK' /\ DownOK' /\ UpOK'
    BY <1>0, <1>1 DEF GateOK, DownOK, UpOK
  <1>4. MemOK' /\ CallOK'
    BY <1>0, <1>1 DEF MemOK, CallOK, NewRecord, KeyAt
  <1>5. Tracked'
    BY <1>0, <1>1 DEF Tracked, DiskIsLog, HardIsPrefix, OneTail, Unsynced, Counted, Covered,
                      AckedOK
  <1>6. NoOrphan' /\ Importing' /\ DroppedOK'
    BY <1>0, <1>1 DEF NoOrphan, Unsynced, Importing, DroppedOK
  <1> QED BY <1>2, <1>3, <1>4, <1>5, <1>6 DEF StoreInv

\* An open store has read the files into its memory, counts nothing as
\* pending and, unless it lapses, has nothing unsynced.
LEMMA OpenStep ==
    ASSUME StoreInv, NEW repair \in BOOLEAN, Open(repair)
    PROVE  StoreInv'
  <1>0. /\ StoreTypeOK /\ DownOK /\ Tracked /\ DroppedOK
    BY DEF StoreInv
  <1>1. /\ status = "down" /\ NoGap /\ hard' = Repaired /\ torn' = {}
        /\ segs' = (IF segs = 0 THEN 1 ELSE segs)
        /\ sideHard' = (IF segs = 0 THEN side ELSE sideHard)
        /\ mem' = disk /\ active' = segs'
        /\ lapses' = (IF DOMAIN disk \subseteq hard' THEN lapses
                      ELSE lapses \cup {"untracked"})
        /\ status' = (IF legacy = <<>> THEN "up" ELSE "migrating")
        /\ UNCHANGED <<disk, dropped, side, temp, legacy, pend, poisoned, gate, pc, call,
                       acked>>
    BY DEF Open, OpenAccepts, Recovers, callVars
  <1>2. pend = {} /\ ~poisoned /\ \A t \in Thread : pc[t] = "idle"
    BY <1>0, <1>1 DEF DownOK
  <1>3. hard \subseteq hard' /\ hard' \subseteq DOMAIN disk
    BY <1>0, <1>1 DEF StoreTypeOK, Repaired, Dirty
  <1>4. segs' \in 1..MaxSegments /\ segs <= segs'
    BY <1>0, <1>1, StoreAssumption DEF StoreTypeOK
  <1>5. mem' \in Seq(Record) /\ Len(mem') <= MaxRecords
    <2>1. PICK n \in 0..MaxRecords : DOMAIN disk = 1..n
      BY <1>1 DEF NoGap
    <2>2. disk \in [1..n -> Record] /\ n \in Nat
      BY <1>0, <2>1, StoreAssumption DEF StoreTypeOK
    <2> QED BY <1>1, <2>1, <2>2, FunctionIsSeq, StoreAssumption
  <1>6. StoreTypeOK'
    BY <1>0, <1>1, <1>2, <1>3, <1>4, <1>5 DEF StoreTypeOK
  <1>7. GateOK' /\ DownOK' /\ UpOK'
    BY <1>1, <1>2, <1>4 DEF GateOK, DownOK, UpOK, Inside, Fresh, Flushing
  <1>8. MemOK' /\ CallOK' /\ Importing'
    BY <1>1, <1>2, StoreAssumption DEF MemOK, CallOK, Importing, Fresh, Flushing, Thread
  <1>9. Tracked'
    <2> SUFFICES ASSUME "untracked" \notin lapses' PROVE Tracked'
      BY DEF Tracked
    <2>1. "untracked" \notin lapses /\ hard' = DOMAIN disk
      BY <1>1, <1>3
    <2>2. Covered(side) /\ Covered(sideHard) /\ AckedOK
      BY <1>0, <2>1 DEF Tracked
    <2>3. DiskIsLog' /\ HardIsPrefix'
      BY <1>1, <2>1 DEF NoGap, DiskIsLog, HardIsPrefix
    <2>4. OneTail' /\ Counted' /\ AckedOK'
      BY <1>1, <1>3, <2>1, <2>2 DEF OneTail, Unsynced, Counted, AckedOK
    <2>5. Covered(side)' /\ Covered(sideHard)'
      BY <1>0, <1>1, <1>3, <1>4, <2>2 DEF Covered, StoreTypeOK, Manifest
    <2> QED BY <2>3, <2>4, <2>5 DEF Tracked
  <1>10. NoOrphan'
    <2> SUFFICES ASSUME lapses' = {} PROVE NoOrphan'
      BY DEF NoOrphan
    <2>1. DOMAIN disk \subseteq hard'
      BY <1>1
    <2> QED BY <1>1, <2>1 DEF NoOrphan, Unsynced
  <1>11. DroppedOK'
    <2>1. dropped' \cap hard' = {}
      BY <1>0, <1>1 DEF DroppedOK, Repaired, Dirty
    <2>2. "untracked" \notin lapses' => dropped' = {}
      BY <1>0, <1>1, <2>1 DEF StoreTypeOK
    <2> QED BY <2>1, <2>2 DEF DroppedOK
  <1> QED BY <1>6, <1>7, <1>8, <1>9, <1>10, <1>11 DEF StoreInv

\* The repair of a torn segment syncs the only segment with unsynced records.
LEMMA RepairFacts ==
    ASSUME StoreInv, "untracked" \notin lapses
    PROVE  Repaired = hard \/ Repaired = DOMAIN disk
  <1>1. OneTail /\ hard \subseteq DOMAIN disk
    BY DEF StoreInv, Tracked, StoreTypeOK
  <1>2. CASE torn = {}
    BY <1>2 DEF Repaired, Dirty
  <1>3. CASE torn # {}
    <2>1. PICK g \in torn : TRUE
      BY <1>3
    <2>2. \A i \in DOMAIN disk \ hard : disk[i].seg \in torn
      BY <1>1, <2>1 DEF OneTail, Unsynced
    <2>3. dropped = {}
      BY <1>3 DEF StoreInv, DroppedOK
    <2> QED BY <1>1, <2>2, <2>3 DEF Repaired, Dirty
  <1> QED BY <1>2, <1>3

\* An open that fails may have repaired the torn segment.
LEMMA OpenRefusedStep ==
    ASSUME StoreInv, NEW repair \in BOOLEAN, OpenRefused(repair)
    PROVE  StoreInv'
  <1>0. /\ StoreTypeOK /\ GateOK /\ DownOK /\ UpOK /\ MemOK /\ CallOK
        /\ Tracked /\ NoOrphan /\ Importing /\ DroppedOK
    BY DEF StoreInv
  <1>1. /\ status = "down" /\ (hard' = Repaired \/ hard' = hard) /\ (torn' = torn \/ torn' = {})
        /\ UNCHANGED <<disk, dropped, segs, side, sideHard, temp, legacy, status, mem, active,
                       pend, poisoned, gate, pc, call, acked, lapses>>
    BY DEF OpenRefused, sideVars, memVars, callVars
  <1>2. hard \subseteq hard' /\ hard' \subseteq DOMAIN disk /\ torn' \subseteq torn
    BY <1>0, <1>1 DEF StoreTypeOK, Repaired, Dirty
  <1>3. StoreTypeOK'
    BY <1>0, <1>1, <1>2 DEF StoreTypeOK
  <1>4. GateOK' /\ DownOK' /\ UpOK' /\ CallOK' /\ Importing'
    BY <1>0, <1>1 DEF GateOK, DownOK, UpOK, CallOK, KeyAt, Importing
  <1>5. MemOK'
    BY <1>0, <1>1 DEF MemOK, DownOK
  <1>6. Tracked'
    <2> SUFFICES ASSUME "untracked" \notin lapses PROVE Tracked'
      BY <1>1 DEF Tracked
    <2>0. /\ DiskIsLog /\ HardIsPrefix /\ OneTail /\ Counted
          /\ Covered(side) /\ Covered(sideHard) /\ AckedOK
      BY <1>0 DEF Tracked
    <2>1. hard' = hard \/ hard' = DOMAIN disk
      BY <1>1, RepairFacts
    <2>2. DiskIsLog' /\ HardIsPrefix'
      BY <1>1, <2>0, <2>1 DEF DiskIsLog, HardIsPrefix
    <2>3. OneTail' /\ Counted' /\ AckedOK'
      BY <1>1, <1>2, <2>0 DEF OneTail, Unsynced, Counted, AckedOK
    <2>4. Covered(side)' /\ Covered(sideHard)'
      BY <1>1, <1>2, <2>0 DEF Covered
    <2> QED BY <2>2, <2>3, <2>4 DEF Tracked
  <1>7. NoOrphan'
    BY <1>0, <1>1, <1>2 DEF NoOrphan, Unsynced
  <1>8. DroppedOK'
    BY <1>0, <1>1, <1>2 DEF DroppedOK, Repaired, Dirty
  <1> QED BY <1>3, <1>4, <1>5, <1>6, <1>7, <1>8 DEF StoreInv

\* What a fault must leave on disk for the invariant to survive the loss of
\* the memory.
Leaves ==
    /\ DiskIsLog /\ HardIsPrefix /\ OneTail
    /\ Covered(side) /\ Covered(sideHard) /\ AckedOK

\* The process is gone and the files satisfy Leaves: the invariant holds.
LEMMA DownStep ==
    ASSUME StoreInv, Forget, UNCHANGED <<segs, legacy, acked, lapses>>,
           disk' \in [DOMAIN disk' -> Record], DOMAIN disk' \subseteq 1..MaxRecords,
           hard' \subseteq DOMAIN disk', dropped' \subseteq DOMAIN disk',
           torn' \subseteq 1..MaxSegments, dropped' \cap hard' = {},
           "untracked" \notin lapses /\ dropped' # {} => torn' = {},
           side' \in Manifest, sideHard' \in Manifest, temp' \in [Sidecar -> BOOLEAN],
           "untracked" \notin lapses => Leaves',
           lapses = {} => /\ torn' \subseteq {segs}
                          /\ \A i \in Unsynced' : disk'[i].seg = segs
    PROVE  StoreInv'
  <1>0. StoreTypeOK
    BY DEF StoreInv
  <1>1. /\ status' = "down" /\ mem' = <<>> /\ active' = 0 /\ pend' = {} /\ poisoned' = FALSE
        /\ gate' = NoCaller /\ pc' = [t \in Thread |-> "idle"]
        /\ call' = [t \in Thread |-> NoCall]
    BY DEF Forget
  <1>2. StoreTypeOK'
    <2>1. mem' \in Seq(Record) /\ Len(mem') = 0 /\ DOMAIN mem' = {}
      BY <1>1, EmptySeq, LenProperties
    <2>2. pc' \in [Thread -> Label] /\ call' \in [Thread -> Call]
      BY <1>1, CallTypes DEF Label
    <2>3. /\ segs' \in 0..MaxSegments /\ active' \in 0..segs' /\ Len(mem') <= MaxRecords
      BY <1>0, <1>1, <2>1, StoreAssumption DEF StoreTypeOK
    <2> QED BY <1>0, <1>1, <2>1, <2>2, <2>3 DEF StoreTypeOK
  <1>3. \A t \in Thread : pc'[t] = "idle"
    BY <1>1
  <1>4. GateOK' /\ DownOK' /\ UpOK' /\ Importing'
    BY <1>1, <1>3 DEF GateOK, DownOK, UpOK, Importing, Inside, Fresh, Flushing
  <1>5. MemOK' /\ CallOK'
    BY <1>1, <1>3 DEF MemOK, CallOK, Fresh
  <1>6. Tracked'
    BY <1>1 DEF Tracked, Counted, Leaves
  <1>7. NoOrphan' /\ DroppedOK'
    BY <1>1 DEF NoOrphan, Unsynced, DroppedOK
  <1> QED BY <1>2, <1>4, <1>5, <1>6, <1>7 DEF StoreInv

\* The drop of a store whose import failed leaves the files as they are.
LEMMA AbandonStep ==
    ASSUME StoreInv, Abandon
    PROVE  StoreInv'
  <1>0. StoreTypeOK /\ Tracked /\ NoOrphan /\ DroppedOK
    BY DEF StoreInv
  <1>1. /\ Forget
        /\ UNCHANGED <<disk, hard, dropped, segs, torn, side, sideHard, temp, legacy, acked,
                       lapses>>
    BY DEF Abandon, diskVars, sideVars
  <1>2. "untracked" \notin lapses => Leaves'
    BY <1>0, <1>1 DEF Tracked, Leaves, Forget, DiskIsLog, HardIsPrefix, OneTail, Unsynced,
                      Covered, AckedOK
  <1>3. lapses = {} => torn' \subseteq {segs} /\ \A i \in Unsynced' : disk'[i].seg = segs
    BY <1>0, <1>1 DEF NoOrphan, Unsynced
  <1>4. /\ disk' \in [DOMAIN disk' -> Record] /\ DOMAIN disk' \subseteq 1..MaxRecords
        /\ hard' \subseteq DOMAIN disk' /\ torn' \subseteq 1..MaxSegments
        /\ side' \in Manifest /\ sideHard' \in Manifest /\ temp' \in [Sidecar -> BOOLEAN]
    BY <1>0, <1>1 DEF StoreTypeOK
  <1>5. /\ dropped' \subseteq DOMAIN disk' /\ dropped' \cap hard' = {}
        /\ "untracked" \notin lapses /\ dropped' # {} => torn' = {}
    BY <1>0, <1>1 DEF StoreTypeOK, DroppedOK
  <1> QED BY <1>1, <1>2, <1>3, <1>4, <1>5, DownStep

\* A process crash can tear the segment it writes to, which is the only one
\* with unsynced records.
LEMMA ProcessCrashStep ==
    ASSUME StoreInv, ProcessCrash
    PROVE  StoreInv'
  <1>0. StoreTypeOK /\ UpOK /\ Tracked /\ NoOrphan /\ DroppedOK
    BY DEF StoreInv
  <1>1. /\ Forget /\ status # "down"
        /\ UNCHANGED <<disk, hard, dropped, segs, side, sideHard, temp, legacy, acked,
                       lapses>>
    BY DEF ProcessCrash, sideVars
  <1>2. torn' = torn \/ (torn' = {active} /\ active \in 1..segs /\ ~poisoned)
    <2>1. ASSUME NEW t \in Thread, pc[t] = "write", torn' = torn \cup {active}
          PROVE  torn' = {active} /\ ~poisoned
      BY <2>1, InsideFacts DEF Inside, Fresh
    <2> QED BY <1>0, <1>1, <2>1 DEF ProcessCrash, UpOK
  <1>3. "untracked" \notin lapses => Leaves'
    <2> SUFFICES ASSUME "untracked" \notin lapses PROVE Leaves'
      OBVIOUS
    <2>0. /\ DiskIsLog /\ HardIsPrefix /\ OneTail
          /\ Covered(side) /\ Covered(sideHard) /\ AckedOK
      BY <1>0 DEF Tracked
    <2>1. DiskIsLog' /\ HardIsPrefix' /\ AckedOK' /\ Covered(side)' /\ Covered(sideHard)'
      BY <1>1, <2>0 DEF DiskIsLog, HardIsPrefix, AckedOK, Covered
    <2>2. OneTail'
      BY <1>1, <1>2, <2>0 DEF OneTail, Unsynced, Forget
    <2> QED BY <2>1, <2>2 DEF Leaves
  <1>4. lapses = {} => torn' \subseteq {segs} /\ \A i \in Unsynced' : disk'[i].seg = segs
    BY <1>0, <1>1, <1>2 DEF NoOrphan, Unsynced
  <1>5. torn' \subseteq 1..MaxSegments
    BY <1>0, <1>2, StoreAssumption DEF StoreTypeOK
  <1>6. /\ disk' \in [DOMAIN disk' -> Record] /\ DOMAIN disk' \subseteq 1..MaxRecords
        /\ hard' \subseteq DOMAIN disk'
        /\ side' \in Manifest /\ sideHard' \in Manifest /\ temp' \in [Sidecar -> BOOLEAN]
    BY <1>0, <1>1 DEF StoreTypeOK
  <1>7. /\ dropped' \subseteq DOMAIN disk' /\ dropped' \cap hard' = {}
        /\ "untracked" \notin lapses /\ dropped' # {} => torn' = {}
    BY <1>0, <1>1, <1>2 DEF StoreTypeOK, DroppedOK
  <1> QED BY <1>1, <1>3, <1>4, <1>5, <1>6, <1>7, DownStep

\* What a power loss keeps of a tracked log is a prefix: the synced part is
\* one, and what follows it is in one segment, which is cut at one place.
LEMMA KeptIsPrefix ==
    ASSUME StoreInv, "untracked" \notin lapses,
           NEW kept \in SUBSET DOMAIN disk, Keeps(kept)
    PROVE  \E n \in 0..MaxRecords : kept = 1..n
  <1>0. DiskIsLog /\ HardIsPrefix /\ OneTail
    BY DEF StoreInv, Tracked
  <1>1. PICK m \in 0..MaxRecords : DOMAIN disk = 1..m
    BY <1>0 DEF DiskIsLog
  <1>2. m \in Nat /\ kept \in SUBSET (1..m)
    BY <1>1, StoreAssumption
  <1>3. ASSUME NEW i \in kept, NEW j \in 1..i PROVE j \in kept
    <2>1. j \in DOMAIN disk /\ i \in DOMAIN disk /\ (j = i \/ j < i)
      BY <1>1, <1>2
    <2>2. CASE j \in hard \/ j = i
      BY <2>2 DEF Keeps
    <2>3. CASE j \notin hard /\ j < i
      <3>1. i \notin hard
        BY <1>0, <2>3 DEF HardIsPrefix
      <3>2. disk[j].seg = disk[i].seg
        BY <1>0, <2>1, <2>3, <3>1 DEF OneTail, Unsynced
      <3> QED BY <2>1, <2>3, <3>2 DEF Keeps
    <2> QED BY <2>1, <2>2, <2>3
  <1>4. PICK n \in 0..m : kept = 1..n
    BY <1>2, <1>3, PrefixSet
  <1> QED BY <1>1, <1>4, StoreAssumption

\* A power loss leaves a synced prefix that still holds every sidecar and
\* every acknowledged event.
LEMMA PowerLossStep ==
    ASSUME StoreInv, PowerLoss
    PROVE  StoreInv'
  <1>0. StoreTypeOK /\ UpOK /\ Tracked /\ NoOrphan /\ DroppedOK
    BY DEF StoreInv
  <1>1. /\ Forget /\ side' \in {side, sideHard} /\ sideHard' = side'
        /\ UNCHANGED <<segs, legacy, acked, lapses>>
    BY DEF PowerLoss
  <1>2. PICK kept \in SUBSET DOMAIN disk :
          /\ Keeps(kept) /\ disk' = [i \in kept |-> disk[i]] /\ hard' = kept
          /\ dropped' = {}
          /\ torn' \in SUBSET (torn \cup {disk[i].seg : i \in DOMAIN disk \ kept})
    BY DEF PowerLoss
  <1>3. temp' \in [Sidecar -> BOOLEAN]
    BY DEF PowerLoss
  <1>4. DOMAIN disk' = kept /\ Unsynced' = {} /\ hard \subseteq kept
    BY <1>2 DEF Unsynced, Keeps
  <1>5. \A i \in DOMAIN disk : disk[i] \in Record /\ disk[i].seg \in 1..MaxSegments
    BY <1>0 DEF StoreTypeOK, Record
  <1>6. "untracked" \notin lapses => Leaves'
    <2> SUFFICES ASSUME "untracked" \notin lapses PROVE Leaves'
      OBVIOUS
    <2>0. /\ DiskIsLog /\ HardIsPrefix /\ OneTail
          /\ Covered(side) /\ Covered(sideHard) /\ AckedOK
      BY <1>0 DEF Tracked
    <2>1. PICK n \in 0..MaxRecords : kept = 1..n
      BY <1>2, KeptIsPrefix
    <2>2. DiskIsLog' /\ HardIsPrefix'
      BY <1>2, <1>4, <2>1, StoreAssumption DEF DiskIsLog, HardIsPrefix
    <2>3. OneTail'
      BY <1>1, <1>4 DEF OneTail, Forget
    <2>4. AckedOK'
      BY <1>1, <1>2, <1>4, <2>0 DEF AckedOK
    <2>5. \A i \in hard : disk'[i] = disk[i] /\ i \in hard'
      BY <1>2, <1>4
    <2>6. Covered(side)' /\ Covered(sideHard)'
      BY <1>1, <2>0, <2>5 DEF Covered
    <2> QED BY <2>2, <2>3, <2>4, <2>6 DEF Leaves
  <1>7. lapses = {} => torn' \subseteq {segs} /\ \A i \in Unsynced' : disk'[i].seg = segs
    BY <1>0, <1>2, <1>4 DEF NoOrphan, Unsynced
  <1>8. torn' \subseteq 1..MaxSegments
    BY <1>0, <1>2, <1>5 DEF StoreTypeOK
  <1>9. /\ disk' \in [DOMAIN disk' -> Record] /\ DOMAIN disk' \subseteq 1..MaxRecords
        /\ hard' \subseteq DOMAIN disk' /\ side' \in Manifest /\ sideHard' \in Manifest
    BY <1>0, <1>1, <1>2, <1>4, <1>5 DEF StoreTypeOK
  <1> QED BY <1>1, <1>2, <1>3, <1>6, <1>7, <1>8, <1>9, DownStep

(***************************************************************************)
(* The invariant                                                           *)
(***************************************************************************)

\* Every step of the store preserves the invariant.
LEMMA NextInv == StoreInv /\ [StoreNext]_vars => StoreInv'
  <1> SUFFICES ASSUME StoreInv, [StoreNext]_vars PROVE StoreInv'
    OBVIOUS
  <1>1. ASSUME NEW t \in Thread, NEW op \in AppendOp, NEW e \in Events, AppendNext(t, op, e)
        PROVE  StoreInv'
    BY <1>1, AppendRefusedStep, AppendExistingStep, AppendAdmittedStep DEF AppendNext
  <1>2. ASSUME NEW t \in Thread,
               \/ RotateSync(t) \/ CreateSegment(t) \/ CreateFails(t)
               \/ Write(t) \/ WriteFails(t) \/ Publish(t) \/ GroupCommit(t)
        PROVE  StoreInv'
    BY <1>2, RotateSyncStep, CreateSegmentStep, CreateFailsStep, WriteStep, WriteFailsStep,
       PublishStep, GroupCommitStep
  <1>3. ASSUME NEW t \in Thread,
               \/ Barrier(t) \/ BarrierRefused(t)
               \/ \E op \in SyncOp : FlushSync(t, op) \/ FlushRefused(t, op)
        PROVE  StoreInv'
    BY <1>3, BarrierStep, BarrierRefusedStep, FlushSyncStep, FlushRefusedStep
  <1>4. ASSUME NEW t \in Thread,
               \/ SidecarTemp(t) \/ SidecarRename(t) \/ SidecarDirSync(t)
               \/ ExportRecord(t) \/ ExportEnds(t)
        PROVE  StoreInv'
    BY <1>4, SidecarTempStep, SidecarRenameStep, SidecarDirSyncStep, ExportRecordStep,
       ExportEndsStep
  <1>5. ASSUME NEW t \in Thread, ThreadNext(t) PROVE StoreInv'
    BY <1>1, <1>2, <1>3, <1>4, <1>5 DEF ThreadNext
  <1>6. ASSUME NEW repair \in BOOLEAN, Open(repair) \/ OpenRefused(repair) PROVE StoreInv'
    BY <1>6, OpenStep, OpenRefusedStep
  <1>7. CASE MigrateAhead \/ Abandon \/ \E e \in Events : LegacyAppend(e)
    BY <1>7, MigrateAheadStep, AbandonStep, LegacyAppendStep
  <1>8. CASE ProcessCrash \/ PowerLoss
    BY <1>8, ProcessCrashStep, PowerLossStep
  <1>9. CASE UNCHANGED vars
    <2>1. UNCHANGED <<diskVars, sideVars, legacy, status, memVars, callVars, acked, lapses>>
      BY <1>9 DEF vars
    <2> QED BY <2>1 DEF StoreInv, StoreTypeOK, GateOK, DownOK, UpOK, MemOK, NewRecord, CallOK,
            KeyAt, Tracked, DiskIsLog, HardIsPrefix, OneTail, Unsynced, Counted, Covered, AckedOK,
            NoOrphan, Importing, LegacyIsPrefix, DroppedOK, diskVars, sideVars, memVars, callVars
  <1> QED BY <1>5, <1>6, <1>7, <1>8, <1>9 DEF StoreNext

\* The invariant holds in every state the store can reach.
THEOREM StoreInvariance == StoreSpec => []StoreInv
  BY InitInv, NextInv, PTL DEF StoreSpec

(***************************************************************************)
(* What it is for                                                          *)
(***************************************************************************)

\* What append_durable and flush acknowledge, an fsync has covered, for every
\* interleaving of callers, faults and power losses.
THEOREM AcknowledgedIsSynced == StoreSpec => []AckedIsHard
  <1>1. StoreInv => AckedIsHard
    BY DEF StoreInv, Tracked, AckedOK, AckedIsHard
  <1> QED BY <1>1, StoreInvariance, PTL

\* Whatever a fault leaves, RepairTrailingPartial opens it.
THEOREM FaultsAreRecoverable == StoreSpec => []CrashIsRecoverable
  <1>1. StoreInv => CrashIsRecoverable
    <2> SUFFICES ASSUME StoreInv, lapses = {} PROVE OpenAccepts(TRUE)
      BY DEF CrashIsRecoverable
    <2>1. DiskIsLog /\ Covered(side) /\ torn \subseteq {segs} /\ hard \subseteq DOMAIN disk
      BY DEF StoreInv, Tracked, NoOrphan, StoreTypeOK
    <2>2. Recovers(TRUE)
      BY <2>1 DEF Recovers, NoGap, DiskIsLog
    <2>3. SidecarCovered
      BY <2>1 DEF SidecarCovered, Covered
    <2> QED BY <2>2, <2>3 DEF OpenAccepts
  <1> QED BY <1>1, StoreInvariance, PTL

\* Who takes the gate of a healthy store finds memory and files equal, and
\* whatever is not synced counted as pending.
THEOREM MemoryIsExact == StoreSpec => []MemoryMatchesFiles
  <1>1. StoreInv => MemoryMatchesFiles
    <2> SUFFICES ASSUME StoreInv, status # "down", gate = NoCaller, ~poisoned
                 PROVE  /\ disk = mem /\ torn = {}
                        /\ "untracked" \notin lapses => DOMAIN mem \subseteq hard \cup pend
      BY DEF MemoryMatchesFiles
    <2>1. \A t \in Thread : pc[t] # "publish"
      BY StoreAssumption DEF StoreInv, GateOK, Inside, Fresh
    <2> QED BY <2>1 DEF StoreInv, MemOK, Tracked, Counted
  <1> QED BY <1>1, StoreInvariance, PTL

\* Only two steps end an import.
LEMMA ImportEnds ==
    ASSUME StoreNext, status = "migrating", status' = "up"
    PROVE  MigrateAhead \/ \E t \in Thread : SidecarDirSync(t)
  <1>1. ASSUME NEW t \in Thread, ThreadNext(t), ~SidecarDirSync(t) PROVE status' = status
    <2>1. ASSUME NEW op \in AppendOp, NEW e \in Events, AppendNext(t, op, e)
          PROVE  status' = status
      BY <2>1 DEF AppendNext, AppendRefused, AppendExisting, AppendAdmitted, Quiet
    <2>2. ASSUME \/ RotateSync(t) \/ CreateSegment(t) \/ CreateFails(t)
                 \/ Write(t) \/ WriteFails(t) \/ Publish(t) \/ GroupCommit(t)
          PROVE  status' = status
      BY <2>2 DEF RotateSync, CreateSegment, CreateFails, Write, WriteFails, Publish,
                  GroupCommit, Quiet
    <2>3. ASSUME \/ Barrier(t) \/ BarrierRefused(t)
                 \/ \E op \in SyncOp : FlushSync(t, op) \/ FlushRefused(t, op)
          PROVE  status' = status
      BY <2>3 DEF Barrier, BarrierRefused, FlushSync, FlushRefused, Quiet
    <2>4. ASSUME \/ SidecarTemp(t) \/ SidecarRename(t) \/ ExportRecord(t) \/ ExportEnds(t)
          PROVE  status' = status
      BY <2>4 DEF SidecarTemp, SidecarRename, ExportRecord, ExportEnds
    <2> QED BY <1>1, <2>1, <2>2, <2>3, <2>4 DEF ThreadNext
  <1>2. ~(\E repair \in BOOLEAN : Open(repair) \/ OpenRefused(repair))
    BY DEF Open, OpenRefused
  <1>3. ~(Abandon \/ ProcessCrash \/ PowerLoss \/ \E e \in Events : LegacyAppend(e))
    BY DEF Abandon, ProcessCrash, PowerLoss, LegacyAppend, Forget
  <1> QED BY <1>1, <1>2, <1>3 DEF StoreNext

\* The open hands the store over only when it holds every v1 event in its
\* place.
THEOREM ImportCompletes == StoreSpec => ImportIsComplete
  <1>1. ASSUME StoreInv, [StoreNext]_vars
        PROVE  [status = "migrating" /\ status' = "up" => LegacyIsPrefix']_vars
    <2> SUFFICES ASSUME status = "migrating", status' = "up" PROVE LegacyIsPrefix'
      OBVIOUS
    <2>1. CASE MigrateAhead
      <3>1. mem \in Seq(Record) /\ legacy \in Seq(Events)
        BY <1>1 DEF StoreInv, StoreTypeOK
      <3>2. /\ DOMAIN mem = 1..Len(mem) /\ DOMAIN legacy = 1..Len(legacy)
            /\ Len(mem) \in Nat /\ Len(legacy) \in Nat
        BY <3>1, LenProperties
      <3>3. Len(mem) > Len(legacy) /\ Agrees /\ UNCHANGED <<mem, legacy>>
        BY <2>1 DEF MigrateAhead, memVars
      <3> QED BY <3>2, <3>3 DEF LegacyIsPrefix, Agrees
    <2>2. ASSUME NEW t \in Thread, SidecarDirSync(t) PROVE LegacyIsPrefix'
      <3>1. pc[t] = "dirsync" /\ UNCHANGED <<mem, legacy>>
        BY <2>2 DEF SidecarDirSync, memVars
      <3>2. LegacyIsPrefix
        BY <1>1, <3>1 DEF StoreInv, Importing, Thread, Flushing
      <3> QED BY <3>1, <3>2 DEF LegacyIsPrefix
    <2>3. StoreNext
      BY <1>1 DEF vars
    <2> QED BY <2>1, <2>2, <2>3, ImportEnds
  <1> QED BY <1>1, StoreInvariance, PTL DEF StoreSpec, ImportIsComplete

(***************************************************************************)
(* Refinement                                                              *)
(***************************************************************************)

SyncLike ==
    /\ disk' = disk /\ hard' \in {hard, DOMAIN disk}
    /\ acked \subseteq acked' /\ acked' \subseteq acked \cup {disk[i].event : i \in hard'}

\* A step that syncs all or nothing and acknowledges synced events is a
\* barrier of the log.
LEMMA SyncMaps ==
    ASSUME StoreInv, SyncLike
    PROVE  Log!LogSync
  <1>1. /\ DOMAIN EventsOf(disk) = DOMAIN disk
        /\ \A i \in DOMAIN disk : EventsOf(disk)[i] = disk[i].event
    BY DEF EventsOf
  <1>2. hard' \subseteq DOMAIN disk
    BY DEF StoreInv, StoreTypeOK, SyncLike
  <1>3. {EventsOf(disk)[i] : i \in hard'} = {disk[i].event : i \in hard'}
    BY <1>1, <1>2
  <1>4. \E A \in SUBSET {EventsOf(disk)[i] : i \in hard'} : acked' = acked \cup A
    <2>1. acked' \ acked \in SUBSET {EventsOf(disk)[i] : i \in hard'}
      BY <1>3 DEF SyncLike
    <2>2. acked' = acked \cup (acked' \ acked)
      BY DEF SyncLike
    <2> QED BY <2>1, <2>2
  <1>5. EventsOf(disk)' = EventsOf(disk)
    BY DEF EventsOf, SyncLike
  <1> QED BY <1>1, <1>4, <1>5 DEF Log!LogSync, SyncLike

\* A record at the end under a new key is an append of the log.
LEMMA AppendMaps ==
    ASSUME StoreInv, NEW r \in Record, disk = mem, disk' = Append(disk, r),
           KeyAt(mem, r.event.key) = {}, UNCHANGED <<hard, acked>>
    PROVE  Log!LogAppend
  <1>1. disk \in Seq(Record) /\ r.event \in Events
    BY DEF StoreInv, StoreTypeOK, Record
  <1>2. /\ Len(disk) \in Nat /\ DOMAIN disk = 1..Len(disk)
        /\ DOMAIN disk' = 1..(Len(disk) + 1) /\ disk'[Len(disk) + 1] = r
        /\ \A i \in 1..Len(disk) : disk'[i] = disk[i]
    BY <1>1, AppendFacts
  <1>3. \A i \in DOMAIN disk : disk[i].event \in Events
    BY DEF StoreInv, StoreTypeOK, Record
  <1>4. EventsOf(disk) \in [1..Len(disk) -> Events]
    BY <1>2, <1>3 DEF EventsOf
  <1>5. EventsOf(disk) \in Seq(Events) /\ Len(EventsOf(disk)) = Len(disk)
    BY <1>2, <1>4, FunctionIsSeq
  <1>6. EventsOf(disk)' = Append(EventsOf(disk), r.event)
    <2> DEFINE s == EventsOf(disk)
    <2>1. /\ Append(s, r.event) \in Seq(Events)
          /\ Len(Append(s, r.event)) = Len(disk) + 1
          /\ DOMAIN Append(s, r.event) = 1..(Len(disk) + 1)
          /\ \A i \in 1..Len(disk) : Append(s, r.event)[i] = s[i]
          /\ Append(s, r.event)[Len(disk) + 1] = r.event
      BY <1>1, <1>5, AppendFacts
    <2>2. /\ DOMAIN EventsOf(disk)' = 1..(Len(disk) + 1)
          /\ \A i \in 1..(Len(disk) + 1) : EventsOf(disk)'[i] = disk'[i].event
          /\ EventsOf(disk)' = [i \in 1..(Len(disk) + 1) |-> EventsOf(disk)'[i]]
      BY <1>2 DEF EventsOf
    <2>3. \A i \in 1..Len(disk) : s[i] = disk[i].event
      BY <1>2 DEF EventsOf
    <2>4. Append(s, r.event) = [i \in 1..(Len(disk) + 1) |-> Append(s, r.event)[i]]
      BY <2>1
    <2>5. \A i \in 1..(Len(disk) + 1) : EventsOf(disk)'[i] = Append(s, r.event)[i]
      BY <1>2, <2>1, <2>2, <2>3
    <2> HIDE DEF s
    <2>6. EventsOf(disk)' = Append(s, r.event)
      BY <2>2, <2>4, <2>5
    <2> QED BY <2>6 DEF s
  <1>7. \A i \in DOMAIN EventsOf(disk) : EventsOf(disk)[i].key # r.event.key
    BY DEF KeyAt, EventsOf
  <1> QED BY <1>1, <1>6, <1>7 DEF Log!LogAppend

\* A power loss cuts the log behind its stable part.
LEMMA LoseMaps ==
    ASSUME StoreInv, "untracked" \notin lapses, PowerLoss
    PROVE  Log!LogLose
  <1>1. PICK kept \in SUBSET DOMAIN disk :
          Keeps(kept) /\ disk' = [i \in kept |-> disk[i]] /\ hard' = kept
    BY DEF PowerLoss
  <1>2. PICK n \in 0..MaxRecords : kept = 1..n
    BY <1>1, KeptIsPrefix
  <1>3. PICK m \in 0..MaxRecords : DOMAIN disk = 1..m
    BY DEF StoreInv, Tracked, DiskIsLog
  <1>4. n \in Nat /\ m \in Nat /\ 1..n \subseteq 1..m
    BY <1>2, <1>3, StoreAssumption
  <1>5. n <= m
    BY <1>4
  <1> DEFINE s == EventsOf(disk)
  <1>6. s \in [1..m -> Events] /\ \A i \in 1..m : s[i] = disk[i].event
    BY <1>3 DEF StoreInv, StoreTypeOK, Record, EventsOf
  <1>7. s \in Seq(Events) /\ Len(s) = m
    BY <1>4, <1>6, FunctionIsSeq
  <1>8. s' = SubSeq(s, 1, n)
    <2>1. \A i \in 1..n : s[i] \in Events
      BY <1>4, <1>6
    <2> HIDE DEF s
    <2>2. /\ SubSeq(s, 1, n) \in Seq(Events)
          /\ Len(SubSeq(s, 1, n)) = (IF 1 <= n THEN n - 1 + 1 ELSE 0)
          /\ \A i \in 1..(n - 1 + 1) : SubSeq(s, 1, n)[i] = s[1 + i - 1]
      BY <1>4, <2>1, SubSeqProperties
    <2>3. DOMAIN SubSeq(s, 1, n) = 1..n
      <3>1. Len(SubSeq(s, 1, n)) = n
        BY <1>4, <2>2
      <3> QED BY <2>2, <3>1, LenProperties
    <2>4. \A i \in 1..n : SubSeq(s, 1, n)[i] = s[i]
      BY <1>4, <2>2
    <2>5. SubSeq(s, 1, n) = [i \in 1..n |-> s[i]]
      BY <2>2, <2>3, <2>4
    <2>6. s' = [i \in 1..n |-> disk[i].event]
      BY <1>1, <1>2 DEF EventsOf, s
    <2>7. \A i \in 1..n : s[i] = disk[i].event
      BY <1>4, <1>6
    <2> QED BY <2>5, <2>6, <2>7
  <1>9. hard \subseteq 1..n /\ acked' = acked
    BY <1>1, <1>2 DEF Keeps, PowerLoss
  <1>10. n \in 0..Len(s)
    BY <1>4, <1>5, <1>7
  <1> HIDE DEF s
  <1>11. /\ hard \subseteq 1..n /\ s' = SubSeq(s, 1, n) /\ hard' = 1..n
    BY <1>1, <1>2, <1>8, <1>9
  <1>12. \E k \in 0..Len(s) : hard \subseteq 1..k /\ s' = SubSeq(s, 1, k) /\ hard' = 1..k
    BY <1>10, <1>11
  <1> QED BY <1>9, <1>12 DEF Log!LogLose, s

\* A sync under the gate is a barrier of the log.
LEMMA SyncIsSyncLike ==
    ASSUME StoreInv, "untracked" \notin lapses, Sync, status # "down", ~poisoned,
           \A u \in Thread : pc[u] # "publish", acked \subseteq acked',
           acked' \subseteq acked \cup {disk[i].event : i \in DOMAIN disk}
    PROVE  SyncLike
  <1>1. FullSync
    BY SyncFacts
  <1> QED BY <1>1 DEF FullSync, SyncLike, Sync

\* A call that begins, is refused or ends without an fsync is a stutter.
LEMMA CallMaps ==
    ASSUME StoreInv, NEW t \in Thread,
           \/ \E op \in AppendOp, e \in Events : AppendNext(t, op, e)
           \/ CreateSegment(t) \/ CreateFails(t) \/ Publish(t)
           \/ BarrierRefused(t) \/ SidecarTemp(t) \/ SidecarRename(t)
           \/ \E op \in SyncOp : FlushRefused(t, op)
           \/ ExportRecord(t) \/ ExportEnds(t)
    PROVE  SyncLike
  <1> USE DEF SyncLike, diskVars
  <1>1. ASSUME NEW op \in AppendOp, NEW e \in Events, AppendNext(t, op, e) PROVE SyncLike
    BY <1>1 DEF AppendNext, AppendRefused, AppendExisting, AppendAdmitted
  <1>2. CASE CreateSegment(t) \/ CreateFails(t) \/ Publish(t)
    BY <1>2 DEF CreateSegment, CreateFails, Publish
  <1>3. CASE BarrierRefused(t) \/ \E op \in SyncOp : FlushRefused(t, op)
    BY <1>3 DEF BarrierRefused, FlushRefused
  <1>4. CASE SidecarTemp(t) \/ SidecarRename(t)
    BY <1>4 DEF SidecarTemp, SidecarRename
  <1>5. CASE ExportRecord(t) \/ ExportEnds(t)
    BY <1>5 DEF ExportRecord, ExportEnds
  <1> HIDE DEF SyncLike
  <1> QED BY <1>1, <1>2, <1>3, <1>4, <1>5

\* The syncs of a rotation, a group commit, a barrier and a flush, and the
\* end of a flush, are barriers of the log.
LEMMA BarrierMaps ==
    ASSUME StoreInv, "untracked" \notin lapses, NEW t \in Thread,
           \/ RotateSync(t) \/ GroupCommit(t) \/ Barrier(t)
           \/ \E op \in SyncOp : FlushSync(t, op)
           \/ SidecarDirSync(t)
    PROVE  SyncLike
  <1>0. ASSUME SyncFails, UNCHANGED acked PROVE SyncLike
    BY <1>0 DEF SyncFails, SyncLike, diskVars
  <1>1. CASE RotateSync(t) \/ GroupCommit(t)
    <2>1. pc[t] \in Inside /\ pc[t] # "publish" /\ acked' = acked
      BY <1>1 DEF RotateSync, GroupCommit, Inside, Fresh
    <2>2. status # "down" /\ ~poisoned /\ \A u \in Thread : pc[u] # "publish"
      BY <2>1, InsideFacts DEF Inside, Fresh
    <2>3. Sync \/ SyncFails
      BY <1>1 DEF RotateSync, GroupCommit
    <2> QED BY <1>0, <2>1, <2>2, <2>3, SyncIsSyncLike
  <1>2. CASE Barrier(t)
    <2>1. pc[t] = "barrier" /\ gate = NoCaller /\ ~poisoned
      BY <1>2 DEF Barrier
    <2>2. status # "down" /\ \A u \in Thread : pc[u] # "publish"
      BY <2>1, StoreAssumption DEF StoreInv, DownOK, GateOK, Inside, Fresh
    <2>3. CASE SyncFails /\ UNCHANGED acked
      BY <1>0, <2>3
    <2>4. CASE Sync /\ acked' = acked \cup {call[t].event}
      <3>1. disk = mem
        BY <2>1, <2>2 DEF StoreInv, MemOK
      <3>2. \E i \in DOMAIN mem : mem[i].event = call[t].event
        BY <2>1 DEF StoreInv, CallOK
      <3>3. acked' \subseteq acked \cup {disk[i].event : i \in DOMAIN disk}
        BY <2>4, <3>1, <3>2
      <3> QED BY <2>1, <2>2, <2>4, <3>3, SyncIsSyncLike
    <2> QED BY <1>2, <2>3, <2>4 DEF Barrier
  <1>3. ASSUME NEW op \in SyncOp, FlushSync(t, op) PROVE SyncLike
    <2>1. MayCall(t, op, NoEvent) /\ ~poisoned /\ acked' = acked /\ (Sync \/ SyncFails)
      BY <1>3 DEF FlushSync
    <2>2. status # "down" /\ \A u \in Thread : pc[u] # "publish"
      BY <2>1, MayCallFacts DEF Inside, Fresh
    <2> QED BY <1>0, <2>1, <2>2, SyncIsSyncLike
  <1>4. CASE SidecarDirSync(t)
    <2>1. pc[t] = "dirsync" /\ UNCHANGED <<disk, hard>>
      BY <1>4 DEF SidecarDirSync, diskVars
    <2>2. acked' = acked \/ acked' = acked \cup {mem[i].event : i \in DOMAIN mem}
      BY <1>4 DEF SidecarDirSync
    <2>3. disk = mem /\ DOMAIN mem \subseteq hard
      BY <2>1, InsideFacts DEF StoreInv, GateOK, Tracked, Counted, Inside, Flushing
    <2> QED BY <2>1, <2>2, <2>3 DEF SyncLike
  <1> QED BY <1>1, <1>2, <1>3, <1>4

\* A write that reaches the file is an append of the log, whether or not it
\* is reported as a failure.
LEMMA WriteMaps ==
    ASSUME StoreInv, NEW t \in Thread, Write(t) \/ WriteFails(t)
    PROVE  Log!LogAppend \/ SyncLike
  <1>1. /\ pc[t] = "write" /\ UNCHANGED <<hard, acked>>
        /\ disk' = disk \/ disk' = Append(disk, NewRecord(t))
    BY DEF Write, WriteFails
  <1>2. CASE disk' = disk
    BY <1>1, <1>2 DEF SyncLike
  <1>3. CASE disk' = Append(disk, NewRecord(t))
    <2>1. disk = mem
      BY <1>1, InsideFacts DEF Inside, Fresh
    <2>2. NewRecord(t) \in Record
      BY <1>1, NewRecordType DEF Fresh
    <2>3. KeyAt(mem, NewRecord(t).event.key) = {}
      BY <1>1 DEF StoreInv, CallOK, Fresh, NewRecord
    <2> QED BY <1>1, <1>3, <2>1, <2>2, <2>3, AppendMaps
  <1> QED BY <1>1, <1>2, <1>3

\* Opening, abandoning and crashing sync the repaired segment or nothing.
LEMMA OpenMaps ==
    ASSUME StoreInv, "untracked" \notin lapses,
           \/ \E repair \in BOOLEAN : Open(repair) \/ OpenRefused(repair)
           \/ MigrateAhead \/ Abandon \/ ProcessCrash
           \/ \E e \in Events : LegacyAppend(e)
    PROVE  SyncLike
  <1>1. ASSUME NEW repair \in BOOLEAN, Open(repair) \/ OpenRefused(repair) PROVE SyncLike
    <2>1. (hard' = Repaired \/ hard' = hard) /\ UNCHANGED <<disk, acked>>
      BY <1>1 DEF Open, OpenRefused
    <2> QED BY <2>1, RepairFacts DEF SyncLike
  <1>2. CASE MigrateAhead \/ Abandon \/ ProcessCrash
    BY <1>2 DEF MigrateAhead, Abandon, ProcessCrash, SyncLike, diskVars
  <1>3. ASSUME NEW e \in Events, LegacyAppend(e) PROVE SyncLike
    BY <1>3 DEF LegacyAppend, SyncLike, diskVars
  <1> QED BY <1>1, <1>2, <1>3

\* No step takes a lapse back.
LEMMA LapsesGrow ==
    ASSUME StoreNext
    PROVE  lapses \subseteq lapses'
  <1>1. ASSUME NEW t \in Thread, ThreadNext(t) PROVE lapses \subseteq lapses'
    <2>1. ASSUME NEW op \in AppendOp, NEW e \in Events, AppendNext(t, op, e)
          PROVE  lapses \subseteq lapses'
      BY <2>1 DEF AppendNext, AppendRefused, AppendExisting, AppendAdmitted, Quiet
    <2>2. ASSUME \/ RotateSync(t) \/ CreateSegment(t) \/ CreateFails(t)
                 \/ Write(t) \/ WriteFails(t) \/ Publish(t) \/ GroupCommit(t)
          PROVE  lapses \subseteq lapses'
      BY <2>2 DEF RotateSync, CreateSegment, CreateFails, Write, WriteFails, Publish,
                  GroupCommit, Quiet
    <2>3. ASSUME \/ Barrier(t) \/ BarrierRefused(t)
                 \/ \E op \in SyncOp : FlushSync(t, op) \/ FlushRefused(t, op)
          PROVE  lapses \subseteq lapses'
      BY <2>3 DEF Barrier, BarrierRefused, FlushSync, FlushRefused, Quiet
    <2>4. ASSUME \/ SidecarTemp(t) \/ SidecarRename(t) \/ SidecarDirSync(t)
                 \/ ExportRecord(t) \/ ExportEnds(t)
          PROVE  lapses \subseteq lapses'
      BY <2>4 DEF SidecarTemp, SidecarRename, SidecarDirSync, ExportRecord, ExportEnds
    <2> QED BY <1>1, <2>1, <2>2, <2>3, <2>4 DEF ThreadNext
  <1>2. ASSUME NEW repair \in BOOLEAN, Open(repair) \/ OpenRefused(repair)
        PROVE  lapses \subseteq lapses'
    BY <1>2 DEF Open, OpenRefused
  <1>3. ASSUME \/ MigrateAhead \/ Abandon \/ ProcessCrash \/ PowerLoss
               \/ \E e \in Events : LegacyAppend(e)
        PROVE  lapses \subseteq lapses'
    BY <1>3 DEF MigrateAhead, Abandon, ProcessCrash, PowerLoss, LegacyAppend
  <1> QED BY <1>1, <1>2, <1>3 DEF StoreNext

\* Every step of the store is a step of the log it promises.
THEOREM RefinesEventLog == StoreSpec => ImplementsEventLog
  <1>1. ASSUME StoreInv, [StoreNext]_vars
        PROVE  ["untracked" \in lapses' \/ Log!LogNext]_(Log!logVars)
    <2>1. CASE UNCHANGED vars
      BY <2>1 DEF vars, diskVars, Log!logVars, EventsOf
    <2>2. CASE StoreNext /\ "untracked" \notin lapses'
      <3>1. "untracked" \notin lapses
        BY <2>2, LapsesGrow
      <3>2. SyncLike \/ Log!LogAppend \/ Log!LogLose
        <4>1. ASSUME NEW t \in Thread, ThreadNext(t) PROVE SyncLike \/ Log!LogAppend
          BY <1>1, <3>1, <4>1, CallMaps, BarrierMaps, WriteMaps DEF ThreadNext
        <4>2. CASE PowerLoss
          BY <1>1, <3>1, <4>2, LoseMaps
        <4> QED BY <1>1, <2>2, <3>1, <4>1, <4>2, OpenMaps DEF StoreNext
      <3> QED BY <1>1, <3>2, SyncMaps DEF Log!LogNext
    <2> QED BY <1>1, <2>1, <2>2
  <1> QED BY <1>1, StoreInvariance, PTL DEF StoreSpec, ImplementsEventLog
=============================================================================
