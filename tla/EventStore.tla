----------------------------- MODULE EventStore -----------------------------
(***************************************************************************)
(* SegmentedEventStore, crates/trillionnium-owner-open-event-store/src:    *)
(* a write-ahead log of numbered segment files with group commit, two      *)
(* sidecars, the import of a v1 file, and recovery.                        *)
(*                                                                         *)
(* The threads of one process share the store; every operation runs under  *)
(* append_gate, so pc tells where its holder is.  append_durable releases  *)
(* the gate between its append and its barrier.  disk is what the kernel   *)
(* shows (the page cache), indexed by store_seq counted from 1; hard is    *)
(* the part an fsync has covered.  A failing fsync may mark the pages it   *)
(* could not write as clean: they stay readable, and no later fsync writes *)
(* them (dropped).  A process crash loses the memory only; a power loss    *)
(* also cuts every segment somewhere behind its hard part.                 *)
(* The digest chain is the position: a position is never written twice     *)
(* with different events while a later one is on disk, because recovery    *)
(* refuses a log with a gap.  Sizes in bytes are abstracted: whatever they *)
(* decide beside a record count is a free choice.                          *)
(***************************************************************************)
EXTENDS Naturals, Sequences, FiniteSets

CONSTANTS
    Caller,         \* threads of the process that owns the writer lease
    Opener,         \* the thread inside open_or_migrate_with_legacy_prefix
    NoCaller,       \* nobody holds append_gate
    Events,         \* inputs: records [key, val]
    NoEvent,        \* the input of an operation that takes none
    MaxRecords,     \* limits.max_records
    SegmentRecords, \* max_segment_records
    GroupRecords,   \* group_commit_records
    MaxSegments,    \* MAX_EVENT_SEGMENTS
    MaxLegacy,      \* bound: events in the v1 file
    MaxCrashes      \* bound: process crashes and power losses explored

Thread == Caller \cup {Opener}

ASSUME StoreAssumption ==
    /\ Opener \notin Caller
    /\ NoCaller \notin Thread
    /\ NoEvent \notin Events
    /\ \A e \in Events : e = [key |-> e.key, val |-> e.val]
    /\ MaxRecords \in Nat /\ SegmentRecords \in Nat \ {0}
    /\ GroupRecords \in Nat \ {0} /\ MaxSegments \in Nat \ {0}
    /\ MaxLegacy \in Nat /\ MaxCrashes \in Nat

VARIABLES
    disk,      \* disk[i]: record i, [event, seg], of the segment files
    hard,      \* positions an fsync has covered
    dropped,   \* positions a failed fsync gave up: no later one covers them
    segs,      \* segment files 1..segs exist
    torn,      \* segments that end in a line without its newline
    side,      \* the longest sidecar the kernel shows: its records, segments
    sideHard,  \* side as the last directory fsync left it
    temp,      \* temp[k]: the temporary file of sidecar k exists
    legacy,    \* the events of the retained v1 file
    status,    \* "down", "migrating" or "up"
    mem,       \* state.records with their segment
    active,    \* state.active_id, the highest of state.segments
    pend,      \* positions counted in pending_records
    poisoned,  \* state.poisoned
    gate,      \* holder of append_gate
    pc,        \* pc[t]
    call,      \* call[t]: [op, event, side], the operation t is inside
    crashes,   \* faults so far
    acked,     \* history: events some caller was told are durable
    lapses     \* history: "untracked", an open read records no fsync had
               \* covered; "orphan", a failed rotation left its file behind

diskVars == <<disk, hard, dropped, segs, torn>>
sideVars == <<side, sideHard, temp>>
memVars == <<mem, active, pend, poisoned>>
callVars == <<gate, pc, call>>
vars == <<diskVars, sideVars, legacy, status, memVars, callVars, crashes,
          acked, lapses>>

Sidecar == {"index", "snapshot"}
AppendOp == {"append", "append_durable"}
SyncOp == {"flush", "checkpoint", "export"}
Absent == [recs |-> <<>>, segs |-> 0]
NoCall == [op |-> "none", event |-> NoEvent, side |-> "index"]

EventsOf(s) == [i \in DOMAIN s |-> s[i].event]
KeyAt(s, key) == {i \in DOMAIN s : s[i].event.key = key}
InSegment(s, g) == {i \in DOMAIN s : s[i].seg = g}

StoreInit ==
    /\ disk = <<>> /\ hard = {} /\ dropped = {} /\ segs = 0 /\ torn = {}
    /\ side = Absent
    /\ sideHard = Absent
    /\ temp = [k \in Sidecar |-> FALSE]
    /\ legacy = <<>>
    /\ status = "down"
    /\ mem = <<>> /\ active = 0 /\ pend = {} /\ poisoned = FALSE
    /\ gate = NoCaller
    /\ pc = [t \in Thread |-> "idle"]
    /\ call = [t \in Thread |-> NoCall]
    /\ crashes = 0
    /\ acked = {} /\ lapses = {}
-----------------------------------------------------------------------------
(* Calls *)

\* Mutant: the import does not compare the two logs.
AgreesUnchecked == TRUE

Agrees == \A i \in DOMAIN legacy \cap DOMAIN mem : mem[i].event = legacy[i]

\* A caller enters when it gets the gate of the open store; the opener when
\* the v1 file has an event the store lacks, and to flush once it has not.
MayCall(t, op, e) ==
    /\ pc[t] = "idle"
    /\ gate = NoCaller
    /\ \/ t \in Caller /\ status = "up"
       \/ /\ t = Opener /\ status = "migrating" /\ Agrees
          /\ \/ /\ op = "append" /\ Len(mem) < Len(legacy)
                /\ e = legacy[Len(mem) + 1]
             \/ op = "flush" /\ Len(mem) = Len(legacy)

\* The operation goes on under the gate.
Enter(t, label, op, e, k) ==
    /\ gate' = t
    /\ pc' = [pc EXCEPT ![t] = label]
    /\ call' = [call EXCEPT ![t] = [op |-> op, event |-> e, side |-> k]]

Goto(t, label) ==
    /\ pc' = [pc EXCEPT ![t] = label]
    /\ UNCHANGED <<gate, call>>

\* The operation ends and releases the gate.  An error of the opener ends
\* the open itself (Abandon).
Leave(t) ==
    /\ gate' = NoCaller
    /\ pc' = [pc EXCEPT ![t] = "idle"]
    /\ call' = [call EXCEPT ![t] = NoCall]

Err(t) ==
    /\ gate' = NoCaller
    /\ pc' = [pc EXCEPT ![t] = IF t = Opener THEN "failed" ELSE "idle"]
    /\ call' = [call EXCEPT ![t] = NoCall]

\* append succeeded; append_durable goes on to sync_pending.
Appended(t, op, e) ==
    /\ gate' = NoCaller
    /\ pc' = [pc EXCEPT ![t] = IF op = "append" THEN "idle" ELSE "barrier"]
    /\ call' = [call EXCEPT ![t] =
                  IF op = "append" THEN NoCall
                  ELSE [op |-> op, event |-> e, side |-> "index"]]
-----------------------------------------------------------------------------
(* sync_pending_under_gate: fsync the segments with pending records, then  *)
(* clear their counters.  A failing fsync poisons the store.               *)

SyncTargets == {mem[i].seg : i \in pend}

\* What an fsync of the segments gs writes: their pages that are still dirty.
Dirty(gs) == {i \in DOMAIN disk : disk[i].seg \in gs} \ (hard \cup dropped)

Sync ==
    /\ hard' = hard \cup Dirty(SyncTargets)
    /\ pend' = {}
    /\ UNCHANGED <<disk, dropped, segs, torn, mem, active, poisoned>>

\* Mutant: the caller gets the error, the store stays usable.
SyncFailsHealthy ==
    /\ pend # {}
    /\ dropped' \in {dropped, dropped \cup Dirty(SyncTargets)}
    /\ UNCHANGED <<disk, hard, segs, torn, memVars>>

SyncFails ==
    /\ pend # {}
    /\ dropped' \in {dropped, dropped \cup Dirty(SyncTargets)}
    /\ poisoned' = TRUE
    /\ UNCHANGED <<disk, hard, segs, torn, mem, active, pend>>

Quiet == UNCHANGED <<sideVars, legacy, status, crashes, lapses>>
-----------------------------------------------------------------------------
(* append *)

\* A poisoned store, another payload under the key, or max_records.
AppendRefused(t, op, e) ==
    /\ MayCall(t, op, e)
    /\ \/ poisoned
       \/ \E i \in KeyAt(mem, e.key) : mem[i].event # e
       \/ KeyAt(mem, e.key) = {} /\ Len(mem) >= MaxRecords
    /\ Err(t)
    /\ Quiet
    /\ UNCHANGED <<diskVars, memVars, acked>>

\* The same event is there: Existing, without touching the file.
AppendExisting(t, op, e) ==
    /\ MayCall(t, op, e)
    /\ ~poisoned
    /\ \E i \in KeyAt(mem, e.key) : mem[i].event = e
    /\ Appended(t, op, e)
    /\ Quiet
    /\ UNCHANGED <<diskVars, memVars, acked>>

\* ensure_active_segment decides on the record count or, freely, on bytes.
MustRotate == Cardinality(InSegment(mem, active)) >= SegmentRecords
MayRotate == InSegment(mem, active) # {}

\* Mutant: the idempotency key is not looked up.
AppendAdmittedAgain(t, op, e) ==
    /\ MayCall(t, op, e)
    /\ ~poisoned
    /\ Len(mem) < MaxRecords
    /\ Enter(t, "write", op, e, "index")
    /\ Quiet
    /\ UNCHANGED <<diskVars, memVars, acked>>

AppendAdmitted(t, op, e) ==
    /\ MayCall(t, op, e)
    /\ ~poisoned
    /\ KeyAt(mem, e.key) = {}
    /\ Len(mem) < MaxRecords
    /\ \/ ~MustRotate /\ Enter(t, "write", op, e, "index")
       \/ MayRotate /\ Enter(t, "rotate", op, e, "index")
    /\ Quiet
    /\ UNCHANGED <<diskVars, memVars, acked>>

\* Mutant: the next segment is created over an unsynced one.
RotateUnsynced(t) ==
    /\ pc[t] = "rotate"
    /\ Goto(t, "create")
    /\ Quiet
    /\ UNCHANGED <<diskVars, memVars, acked>>

\* The full segment is synced before the next one exists.
RotateSync(t) ==
    /\ pc[t] = "rotate"
    /\ \/ Sync /\ Goto(t, "create")
       \/ SyncFails /\ Err(t)
    /\ Quiet
    /\ UNCHANGED acked

CreateSegment(t) ==
    /\ pc[t] = "create"
    /\ segs = active /\ active < MaxSegments
    /\ segs' = segs + 1
    /\ active' = active + 1
    /\ sideHard' = side
    /\ Goto(t, "write")
    /\ UNCHANGED <<disk, hard, dropped, torn, side, temp, legacy, status, mem,
                   pend, poisoned, crashes, acked, lapses>>

\* MAX_EVENT_SEGMENTS, or create_new meets the file of an earlier failure,
\* or it fails before or after the file exists.  The store is not poisoned.
CreateFails(t) ==
    /\ pc[t] = "create"
    /\ \/ UNCHANGED <<segs, lapses>>
       \/ /\ segs = active /\ active < MaxSegments
          /\ segs' = segs + 1
          /\ lapses' = lapses \cup {"orphan"}
    /\ Err(t)
    /\ UNCHANGED <<disk, hard, dropped, torn, sideVars, legacy, status,
                   memVars, crashes, acked>>

NewRecord(t) == [event |-> call[t].event, seg |-> active]

\* append_segment_bytes: the file ends where the memory says it does.
Write(t) ==
    /\ pc[t] = "write"
    /\ disk' = Append(disk, NewRecord(t))
    /\ Goto(t, "publish")
    /\ Quiet
    /\ UNCHANGED <<hard, dropped, segs, torn, memVars, acked>>

\* Mutant: a failed write leaves the store usable.
WriteFailsHealthy(t) ==
    /\ pc[t] = "write"
    /\ disk' = Append(disk, NewRecord(t))
    /\ Err(t)
    /\ Quiet
    /\ UNCHANGED <<hard, dropped, segs, torn, memVars, acked>>

\* The write fails with nothing, a part or all of the line in the file.
WriteFails(t) ==
    /\ pc[t] = "write"
    /\ \/ UNCHANGED <<disk, torn>>
       \/ torn' = torn \cup {active} /\ UNCHANGED disk
       \/ disk' = Append(disk, NewRecord(t)) /\ UNCHANGED torn
    /\ poisoned' = TRUE
    /\ Err(t)
    /\ Quiet
    /\ UNCHANGED <<hard, dropped, segs, mem, active, pend, acked>>

\* The indexes and counters; then group commit by records, bytes or age.
Publish(t) ==
    /\ pc[t] = "publish"
    /\ mem' = Append(mem, NewRecord(t))
    /\ pend' = pend \cup {Len(mem) + 1}
    /\ \/ /\ Cardinality(pend') < GroupRecords
          /\ Appended(t, call[t].op, call[t].event)
       \/ Goto(t, "commit")
    /\ Quiet
    /\ UNCHANGED <<diskVars, active, poisoned, acked>>

\* A failing group commit fails an append whose record is published.
GroupCommit(t) ==
    /\ pc[t] = "commit"
    /\ \/ Sync /\ Appended(t, call[t].op, call[t].event)
       \/ SyncFails /\ Err(t)
    /\ Quiet
    /\ UNCHANGED acked
-----------------------------------------------------------------------------
(* append_durable's sync_pending, flush, checkpoint, and the flush that    *)
(* begins export_legacy.                                                   *)

Barrier(t) ==
    /\ pc[t] = "barrier" /\ gate = NoCaller
    /\ ~poisoned
    /\ \/ Sync /\ Leave(t) /\ acked' = acked \cup {call[t].event}
       \/ SyncFails /\ Err(t) /\ UNCHANGED acked
    /\ Quiet

BarrierRefused(t) ==
    /\ pc[t] = "barrier" /\ gate = NoCaller
    /\ poisoned
    /\ Err(t)
    /\ Quiet
    /\ UNCHANGED <<diskVars, memVars, acked>>

\* checkpoint writes the snapshot before the index.
FlushSync(t, op) ==
    /\ MayCall(t, op, NoEvent)
    /\ ~poisoned
    /\ \/ /\ Sync
          /\ Enter(t, "temp", op, NoEvent,
                   IF op = "checkpoint" THEN "snapshot" ELSE "index")
       \/ SyncFails /\ Err(t)
    /\ Quiet
    /\ UNCHANGED acked

FlushRefused(t, op) ==
    /\ MayCall(t, op, NoEvent)
    /\ poisoned
    /\ Err(t)
    /\ Quiet
    /\ UNCHANGED <<diskVars, memVars, acked>>

\* atomic_sidecar_write: create_new of the temporary file, its bytes and
\* their fsync; a temporary file that is already there is never opened.
SidecarTemp(t) ==
    /\ pc[t] = "temp"
    /\ \/ /\ ~temp[call[t].side]
          /\ temp' = [temp EXCEPT ![call[t].side] = TRUE]
          /\ Goto(t, "rename") \/ Err(t)
       \/ Err(t) /\ UNCHANGED temp
    /\ UNCHANGED <<diskVars, side, sideHard, legacy, status, memVars,
                   crashes, acked, lapses>>

\* rename; a failure after it leaves the new sidecar without the directory
\* fsync, one before it leaves the temporary file.
SidecarRename(t) ==
    /\ pc[t] = "rename"
    /\ \/ /\ side' = [recs |-> mem, segs |-> active]
          /\ temp' = [temp EXCEPT ![call[t].side] = FALSE]
          /\ Goto(t, "dirsync") \/ Err(t)
       \/ Err(t) /\ UNCHANGED <<side, temp>>
    /\ UNCHANGED <<diskVars, sideHard, legacy, status, memVars, crashes,
                   acked, lapses>>

\* The directory fsync.  A checkpoint goes on to the index; the last sidecar
\* ends the flush, and everything published is promised durable.  An export
\* goes on without the gate.
SidecarDirSync(t) ==
    /\ pc[t] = "dirsync"
    /\ sideHard' = side
    /\ IF call[t].side = "snapshot"
       THEN /\ pc' = [pc EXCEPT ![t] = "temp"]
            /\ call' = [call EXCEPT ![t].side = "index"]
            /\ UNCHANGED <<gate, acked, status>>
       ELSE /\ gate' = NoCaller
            /\ pc' = [pc EXCEPT ![t] =
                        IF call[t].op = "export" THEN "export" ELSE "idle"]
            /\ call' = [call EXCEPT ![t] = NoCall]
            /\ acked' = acked \cup {mem[i].event : i \in DOMAIN mem}
            /\ status' = "up"
    /\ UNCHANGED <<diskVars, side, temp, legacy, memVars, crashes,
                   lapses>>
-----------------------------------------------------------------------------
(* open *)

NoGap == \E n \in 0..MaxRecords : DOMAIN disk = 1..n

\* A sidecar may be a stale prefix of the log, never ahead or different.
\* Both kinds are checked alike, so the longest published one decides.
SidecarCovered ==
    /\ DOMAIN side.recs \subseteq DOMAIN disk
    /\ \A i \in DOMAIN side.recs : side.recs[i] = disk[i]
    /\ side.segs <= segs

\* recover_segmented_segments reads the segments in order: the sequence has
\* no gap, and only the last one may be torn, and that only to be repaired.
Recovers(repair) ==
    /\ NoGap
    /\ torn = {} \/ (repair /\ torn = {segs})

OpenAccepts(repair) == Recovers(repair) /\ SidecarCovered

\* set_len and sync_data of the torn segment cover the records before it.
Repaired == hard \cup Dirty(torn)

\* Every counter of pending records starts at 0.
Open(repair) ==
    /\ status = "down"
    /\ OpenAccepts(repair)
    /\ hard' = Repaired
    /\ torn' = {}
    /\ segs' = IF segs = 0 THEN 1 ELSE segs
    /\ sideHard' = IF segs = 0 THEN side ELSE sideHard
    /\ mem' = disk
    /\ active' = segs'
    /\ lapses' = IF DOMAIN disk \subseteq hard' THEN lapses
                 ELSE lapses \cup {"untracked"}
    /\ status' = IF legacy = <<>> THEN "up" ELSE "migrating"
    /\ UNCHANGED <<disk, dropped, side, temp, legacy, pend, poisoned,
                   callVars, crashes, acked>>

\* An open that fails on a sidecar has already repaired the torn segment.
OpenRefused(repair) ==
    /\ status = "down"
    /\ ~OpenAccepts(repair)
    /\ IF Recovers(repair) THEN hard' = Repaired /\ torn' = {}
       ELSE UNCHANGED <<hard, torn>>
    /\ UNCHANGED <<disk, dropped, segs, sideVars, legacy, status, memVars,
                   callVars, crashes, acked, lapses>>
-----------------------------------------------------------------------------
(* open_or_migrate_with_legacy_prefix: the v1 writer is fenced until the   *)
(* v2 store holds the v1 events; afterwards v2 may run ahead of the file.  *)

LegacyIsPrefix ==
    /\ Len(legacy) <= Len(mem)
    /\ \A i \in DOMAIN legacy : mem[i].event = legacy[i]

\* v2 is ahead of an exact prefix: it is open, without a flush.
MigrateAhead ==
    /\ status = "migrating" /\ pc[Opener] = "idle"
    /\ Len(mem) > Len(legacy) /\ Agrees
    /\ status' = "up"
    /\ UNCHANGED <<diskVars, sideVars, legacy, memVars, callVars, crashes,
                   acked, lapses>>

\* export_legacy copies the records the v1 file lacks, one append at a time,
\* by now perhaps records that came after its flush; it ends with the last
\* one, on divergence or on an error.
ExportRecord(t) ==
    /\ pc[t] = "export"
    /\ Agrees
    /\ Len(legacy) < Len(mem) /\ Len(legacy) < MaxLegacy
    /\ legacy' = Append(legacy, mem[Len(legacy) + 1].event)
    /\ UNCHANGED <<diskVars, sideVars, status, memVars, callVars, crashes,
                   acked, lapses>>

ExportEnds(t) ==
    /\ pc[t] = "export"
    /\ pc' = [pc EXCEPT ![t] = "idle"]
    /\ UNCHANGED <<diskVars, sideVars, legacy, status, memVars, gate, call,
                   crashes, acked, lapses>>

\* The v1 host, before the upgrade or after a rollback, appends an event.
\* Its writer lease excludes an import; the open store never reads the file,
\* so an append beside it is one before the next open.
LegacyAppend(e) ==
    /\ status = "down"
    /\ Len(legacy) < MaxLegacy
    /\ \A i \in DOMAIN legacy : legacy[i].key # e.key
    /\ legacy' = Append(legacy, e)
    /\ UNCHANGED <<diskVars, sideVars, status, memVars, callVars, crashes,
                   acked, lapses>>
-----------------------------------------------------------------------------
(* Faults *)

Forget ==
    /\ status' = "down"
    /\ mem' = <<>> /\ active' = 0 /\ pend' = {} /\ poisoned' = FALSE
    /\ gate' = NoCaller
    /\ pc' = [t \in Thread |-> "idle"]
    /\ call' = [t \in Thread |-> NoCall]

\* The open fails on a divergent v1 file, on an error of its import or, in
\* migrate_legacy, because v2 is ahead: the store is dropped, which syncs
\* nothing.
Abandon ==
    /\ status = "migrating"
    /\ \/ pc[Opener] = "failed"
       \/ pc[Opener] = "idle" /\ (~Agrees \/ Len(mem) > Len(legacy))
    /\ Forget
    /\ UNCHANGED <<diskVars, sideVars, legacy, crashes, acked, lapses>>

\* The process ends; a write it is inside may leave part of its line.
ProcessCrash ==
    /\ status # "down"
    /\ crashes < MaxCrashes
    /\ crashes' = crashes + 1
    /\ \/ UNCHANGED torn
       \/ \E t \in Thread : pc[t] = "write" /\ torn' = torn \cup {active}
    /\ Forget
    /\ UNCHANGED <<disk, hard, dropped, segs, sideVars, legacy, acked, lapses>>

Keeps(kept) ==
    /\ hard \subseteq kept
    /\ \A i \in kept : \A j \in DOMAIN disk :
         j < i /\ disk[j].seg = disk[i].seg => j \in kept

\* Each segment keeps its hard part and some of what follows, perhaps torn;
\* a rename without its directory fsync may be undone.
PowerLoss ==
    /\ crashes < MaxCrashes
    /\ crashes' = crashes + 1
    /\ \E kept \in SUBSET DOMAIN disk :
         /\ Keeps(kept)
         /\ disk' = [i \in kept |-> disk[i]]
         /\ hard' = kept /\ dropped' = {}
         /\ torn' \in SUBSET (torn \cup
                       {disk[i].seg : i \in DOMAIN disk \ kept})
    /\ side' \in {side, sideHard}
    /\ sideHard' = side'
    /\ \E gone \in SUBSET Sidecar :
         temp' = [k \in Sidecar |->
                    k \notin gone /\ (temp[k] \/ side' # side)]
    /\ Forget
    /\ UNCHANGED <<segs, legacy, acked, lapses>>
-----------------------------------------------------------------------------
AppendNext(t, op, e) ==
    \/ AppendRefused(t, op, e)
    \/ AppendExisting(t, op, e)
    \/ AppendAdmitted(t, op, e)

ThreadNext(t) ==
    \/ \E op \in AppendOp, e \in Events : AppendNext(t, op, e)
    \/ RotateSync(t) \/ CreateSegment(t) \/ CreateFails(t)
    \/ Write(t) \/ WriteFails(t) \/ Publish(t) \/ GroupCommit(t)
    \/ Barrier(t) \/ BarrierRefused(t)
    \/ \E op \in SyncOp : FlushSync(t, op) \/ FlushRefused(t, op)
    \/ SidecarTemp(t) \/ SidecarRename(t) \/ SidecarDirSync(t)
    \/ ExportRecord(t) \/ ExportEnds(t)

StoreNext ==
    \/ \E t \in Thread : ThreadNext(t)
    \/ \E repair \in BOOLEAN : Open(repair) \/ OpenRefused(repair)
    \/ MigrateAhead \/ Abandon
    \/ \E e \in Events : LegacyAppend(e)
    \/ ProcessCrash \/ PowerLoss

StoreSpec == StoreInit /\ [][StoreNext]_vars
-----------------------------------------------------------------------------
(* Properties *)

Record == [event : Events, seg : 1..MaxSegments]
Manifest == [recs : Seq(Record), segs : 0..MaxSegments]
Call == [op : AppendOp \cup SyncOp \cup {"none"},
         event : Events \cup {NoEvent}, side : Sidecar]
Label == {"idle", "rotate", "create", "write", "publish", "commit",
          "barrier", "temp", "rename", "dirsync", "export", "failed"}

\* Every variable has its type: the log, sidecars and memory of the store.
StoreTypeOK ==
    /\ disk \in [DOMAIN disk -> Record] /\ DOMAIN disk \subseteq 1..MaxRecords
    /\ hard \subseteq DOMAIN disk /\ dropped \subseteq DOMAIN disk
    /\ segs \in 0..MaxSegments
    /\ torn \subseteq 1..MaxSegments
    /\ side \in Manifest /\ sideHard \in Manifest
    /\ temp \in [Sidecar -> BOOLEAN]
    /\ legacy \in Seq(Events)
    /\ status \in {"down", "migrating", "up"}
    /\ mem \in Seq(Record) /\ Len(mem) <= MaxRecords
    /\ active \in 0..segs
    /\ pend \subseteq DOMAIN mem
    /\ poisoned \in BOOLEAN
    /\ gate \in Thread \cup {NoCaller}
    /\ pc \in [Thread -> Label]
    /\ call \in [Thread -> Call]
    /\ acked \subseteq Events
    /\ lapses \subseteq {"untracked", "orphan"}

\* append_durable and flush acknowledge events an fsync has covered, so no
\* power loss takes one, also after an fsync that failed and dropped its
\* pages: proved up to the first open that reads unsynced records with its
\* pending counters at 0.
AckedIsHard ==
    "untracked" \notin lapses => acked \subseteq {disk[i].event : i \in hard}

\* "Append and wait for the configured filesystem durability barrier": the
\* same without the reservation.  The code breaks it: a retry after a crash
\* finds its record, has nothing pending to sync, and acknowledges.
DurableMeansSynced == acked \subseteq {disk[i].event : i \in hard}

\* Whatever a crash or a power loss leaves behind, RepairTrailingPartial
\* opens it: no gap between segments, no torn segment but the last, no
\* sidecar ahead of the log.
CrashIsRecoverable == lapses = {} => OpenAccepts(TRUE)

\* Whoever can take the gate of a healthy store finds the memory equal to
\* the files, and every record no fsync has covered counted as pending.
MemoryMatchesFiles ==
    status # "down" /\ gate = NoCaller /\ ~poisoned =>
      /\ disk = mem
      /\ torn = {}
      /\ "untracked" \notin lapses => DOMAIN mem \subseteq hard \cup pend

\* The import hands the store over with every v1 event in its place.
ImportIsComplete ==
    [][status = "migrating" /\ status' = "up" => LegacyIsPrefix']_vars

Log == INSTANCE EventLog WITH
         log <- EventsOf(disk), stable <- hard

\* Up to the same reservation, every step of the store is a step of the log
\* it promises: appends at the end, barriers, and a power loss that cuts the
\* unstable end.
ImplementsEventLog == []["untracked" \in lapses' \/ Log!LogNext]_(Log!logVars)
=============================================================================
