------------------------ MODULE CallRegistryProofs -------------------------
(***************************************************************************)
(* Proofs about CallRegistry: its invariants and action properties hold    *)
(* for every set of keys and requests and every limit.                     *)
(***************************************************************************)
EXTENDS CallRegistry, FiniteSetTheorems, TLAPS

(***************************************************************************)
(* push_event keeps the type of an entry and the bound on its history and  *)
(* touches no other field.                                                 *)
(***************************************************************************)
LEMMA PushEventFields ==
    ASSUME NEW e \in Entry, Len(e.history) <= MaxHistory,
           NEW kind \in EventKind
    PROVE  LET f == PushEvent(e, kind)
           IN  /\ f \in Entry
               /\ Len(f.history) <= MaxHistory
               /\ f.dispatch = e.dispatch
               /\ f.request = e.request
               /\ f.inhibited = e.inhibited
               /\ f.generation = e.generation
               /\ f.pid = e.pid
               /\ f.terminal = e.terminal
               /\ f.lost = e.lost
               /\ f.cancelled = e.cancelled
<1> DEFINE base == IF Len(e.history) = MaxHistory THEN Tail(e.history)
                                                  ELSE e.history
           event == [seq |-> e.nextSeq, kind |-> kind]
<1>1. event \in Event
  BY DEF Event, Entry
<1>2. base \in Seq(Event) /\ Len(base) < MaxHistory
  <2>1. e.history \in Seq(Event) /\ Len(e.history) \in Nat
    BY DEF Entry
  <2>2. CASE Len(e.history) = MaxHistory
    BY <2>1, <2>2, RegistryAssumption
  <2>3. CASE Len(e.history) # MaxHistory
    BY <2>1, <2>3, RegistryAssumption
  <2> QED BY <2>2, <2>3
<1>3. Append(base, event) \in Seq(Event) /\ Len(Append(base, event)) <= MaxHistory
  BY <1>1, <1>2, RegistryAssumption
<1>4. (IF e.nextSeq = SeqMax THEN e.nextSeq ELSE e.nextSeq + 1) \in Nat
  BY DEF Entry
<1> QED
  BY <1>3, <1>4 DEF PushEvent, Entry

LEMMA NewEntryOK ==
    ASSUME NEW d \in Dispatch, NEW r \in Request \cup {None}
    PROVE  /\ NewEntry(d, r) \in Entry
           /\ Len(NewEntry(d, r).history) <= MaxHistory
<1>1. <<>> \in Seq(Event) /\ Len(<<>>) = 0
  OBVIOUS
<1> QED
  BY <1>1, RegistryAssumption DEF NewEntry, Entry

LEMMA AcceptedEntryOK ==
    ASSUME NEW r \in Request
    PROVE  LET f == AcceptedEntry(r)
           IN  /\ f \in Entry
               /\ Len(f.history) <= MaxHistory
               /\ f.dispatch = "accepted"
               /\ f.inhibited = FALSE
               /\ f.lost = FALSE
<1> DEFINE e == NewEntry("accepted", r)
<1>1. e \in Entry /\ Len(e.history) <= MaxHistory
  BY NewEntryOK DEF Dispatch
<1>2. e.dispatch = "accepted" /\ e.inhibited = FALSE /\ e.lost = FALSE
  BY DEF NewEntry
<1>3. "Accepted" \in EventKind
  BY DEF EventKind
<1> HIDE DEF e
<1>4. QED
  BY <1>1, <1>2, <1>3, PushEventFields DEF AcceptedEntry, e

LEMMA OccupiedFinite == IsFiniteSet(Occupied)
  BY RegistryAssumption, FS_Subset DEF Occupied

(***************************************************************************)
(* The operations that rewrite one present entry and touch no atomic.      *)
(***************************************************************************)
LEMMA SetEntryKeepsInv ==
    ASSUME RegistryInv, NEW k \in Key, NEW f \in Entry,
           SetEntry(k, f),
           Present(k),
           Len(f.history) <= MaxHistory,
           f.dispatch # "absent",
           f.dispatch = "accepted" /\ f.lost => f.inhibited,
           f.dispatch \in {"started", "terminal"}
             => /\ entries[k].dispatch \in {"started", "terminal"}
                /\ f.generation = entries[k].generation
    PROVE  RegistryInv'
<1>1. /\ entries' = [entries EXCEPT ![k] = f]
      /\ at[k] = "free"
      /\ UNCHANGED <<at, heldGen, entryCount, nextGen, poisoned>>
      /\ stragglers' \in 0..MaxStragglers
  BY RegistryAssumption DEF SetEntry, LockShard, RegistryInv, TypeOK
<1>2. TypeOK'
  BY <1>1 DEF RegistryInv, TypeOK
<1>3. LostIsFenced'
  BY <1>1 DEF RegistryInv, TypeOK, LostIsFenced
<1>4. HeldShards'
  BY <1>1 DEF RegistryInv, TypeOK, HeldShards, Present
<1>5. GenerationsAllocated'
  BY <1>1 DEF RegistryInv, TypeOK, GenerationsAllocated
<1>6. GenerationsDistinct'
  <2>1. \A j \in Key, g \in 1..GenerationMax : Owns(j, g)' => Owns(j, g)
    BY <1>1 DEF RegistryInv, TypeOK, Owns
  <2> QED BY <2>1 DEF RegistryInv, GenerationsDistinct
<1>7. Occupied' = Occupied
  BY <1>1 DEF RegistryInv, TypeOK, Occupied, Present
<1> QED
  BY <1>1, <1>2, <1>3, <1>4, <1>5, <1>6, <1>7 DEF RegistryInv

LEMMA InitAtInv ==
    ASSUME NEW g \in 1..GenerationMax, RegistryInitAt(g)
    PROVE  RegistryInv
<1>1. NoEntry \in Entry /\ Len(NoEntry.history) <= MaxHistory
  BY NewEntryOK DEF NoEntry, Dispatch
<1>2. NoEntry.dispatch = "absent"
  BY DEF NoEntry, NewEntry
<1>3. TypeOK
  BY <1>1, RegistryAssumption DEF RegistryInitAt, TypeOK
<1>4. LostIsFenced /\ HeldShards /\ GenerationsAllocated
  BY <1>2 DEF RegistryInitAt, LostIsFenced, HeldShards, GenerationsAllocated, Present
<1>5. GenerationsDistinct
  BY <1>2 DEF RegistryInitAt, GenerationsDistinct, Owns
<1>6. Occupied = {}
  BY <1>2 DEF RegistryInitAt, Occupied, Present
<1> QED
  BY <1>3, <1>4, <1>5, <1>6, FS_EmptySet DEF RegistryInv, RegistryInitAt

LEMMA InitInv == RegistryInit => RegistryInv
<1>1. 1 \in 1..GenerationMax
  BY RegistryAssumption
<1> QED
  BY <1>1, InitAtInv DEF RegistryInit

LEMMA ReserveEntryKeepsInv ==
    ASSUME RegistryInv, NEW k \in Key, ReserveEntry(k)
    PROVE  RegistryInv'
<1>1. /\ at[k] = "free" /\ ~Present(k) /\ entryCount < MaxEntries
      /\ at' = [at EXCEPT ![k] = "reserved"]
      /\ entryCount' = entryCount + 1
      /\ UNCHANGED <<entries, heldGen, nextGen, poisoned>>
      /\ stragglers' \in 0..MaxStragglers
  BY RegistryAssumption DEF ReserveEntry, LockShard, RegistryInv, TypeOK
<1>2. TypeOK'
  BY <1>1, RegistryAssumption DEF RegistryInv, TypeOK
<1>3. LostIsFenced' /\ GenerationsAllocated'
  BY <1>1 DEF RegistryInv, LostIsFenced, GenerationsAllocated
<1>4. HeldShards'
  BY <1>1 DEF RegistryInv, TypeOK, HeldShards, Present
<1>5. GenerationsDistinct'
  <2>1. \A j \in Key, g \in 1..GenerationMax : Owns(j, g)' => Owns(j, g)
    BY <1>1 DEF RegistryInv, TypeOK, Owns
  <2> QED BY <2>1 DEF RegistryInv, GenerationsDistinct
<1>6. Occupied' = Occupied \cup {k} /\ k \notin Occupied
  BY <1>1 DEF RegistryInv, TypeOK, Occupied, Present
<1>7. (entryCount = Cardinality(Occupied))'
  BY <1>1, <1>6, OccupiedFinite, FS_AddElement DEF RegistryInv
<1> QED
  BY <1>2, <1>3, <1>4, <1>5, <1>7 DEF RegistryInv

LEMMA InsertEntryKeepsInv ==
    ASSUME RegistryInv, NEW k \in Key, NEW r \in Request, InsertEntry(k, r)
    PROVE  RegistryInv'
<1> DEFINE f == AcceptedEntry(r)
<1>1. /\ at[k] = "reserved"
      /\ entries' = [entries EXCEPT ![k] = f]
      /\ at' = [at EXCEPT ![k] = "free"]
      /\ UNCHANGED <<heldGen, entryCount, nextGen, poisoned, stragglers>>
  BY DEF InsertEntry
<1>2. /\ f \in Entry /\ Len(f.history) <= MaxHistory
      /\ f.dispatch = "accepted" /\ f.inhibited = FALSE /\ f.lost = FALSE
  BY AcceptedEntryOK
<1> HIDE DEF f
<1>3. TypeOK'
  BY <1>1, <1>2 DEF RegistryInv, TypeOK
<1>4. LostIsFenced' /\ GenerationsAllocated' /\ HeldShards'
  BY <1>1, <1>2 DEF RegistryInv, TypeOK, LostIsFenced, GenerationsAllocated,
                    HeldShards, Present
<1>5. GenerationsDistinct'
  <2>1. \A j \in Key, g \in 1..GenerationMax : Owns(j, g)' => Owns(j, g)
    BY <1>1, <1>2 DEF RegistryInv, TypeOK, Owns
  <2> QED BY <2>1 DEF RegistryInv, GenerationsDistinct
<1>6. Occupied' = Occupied
  BY <1>1, <1>2 DEF RegistryInv, TypeOK, Occupied, Present
<1> QED
  BY <1>1, <1>3, <1>4, <1>5, <1>6 DEF RegistryInv

LEMMA DropEntryKeepsInv ==
    ASSUME RegistryInv, NEW k \in Key, Present(k), DropEntry(k),
           at[k] \in {"free", "checked"},
           UNCHANGED poisoned, stragglers' \in 0..MaxStragglers
    PROVE  RegistryInv'
<1>1. /\ at[k] \in {"free", "checked"}
      /\ entries' = [entries EXCEPT ![k] = NoEntry]
      /\ at' = [at EXCEPT ![k] = "removed"]
      /\ UNCHANGED <<heldGen, entryCount, nextGen, poisoned>>
      /\ stragglers' \in 0..MaxStragglers
  BY DEF DropEntry
<1>2. /\ NoEntry \in Entry /\ Len(NoEntry.history) <= MaxHistory
      /\ NoEntry.dispatch = "absent"
  BY NewEntryOK DEF NoEntry, NewEntry, Dispatch
<1>3. TypeOK'
  BY <1>1, <1>2 DEF RegistryInv, TypeOK
<1>4. LostIsFenced' /\ GenerationsAllocated' /\ HeldShards'
  BY <1>1, <1>2 DEF RegistryInv, TypeOK, LostIsFenced, GenerationsAllocated,
                    HeldShards, Present
<1>5. GenerationsDistinct'
  <2>1. \A j \in Key, g \in 1..GenerationMax : Owns(j, g)' => Owns(j, g)
    BY <1>1, <1>2 DEF RegistryInv, TypeOK, Owns
  <2> QED BY <2>1 DEF RegistryInv, GenerationsDistinct
<1>6. Occupied' = Occupied
  BY <1>1, <1>2 DEF RegistryInv, TypeOK, Occupied, Present
<1> QED
  BY <1>1, <1>3, <1>4, <1>5, <1>6 DEF RegistryInv

LEMMA RollbackAcceptKeepsInv ==
    ASSUME RegistryInv, NEW k \in Key, NEW r \in Request, RollbackAccept(k, r)
    PROVE  RegistryInv'
<1>1. /\ at[k] = "free"
      /\ Rollbackable(entries[k])
      /\ at' = [at EXCEPT ![k] = "checked"]
      /\ UNCHANGED <<entries, heldGen, entryCount, nextGen, poisoned>>
      /\ stragglers' \in 0..MaxStragglers
  BY RegistryAssumption DEF RollbackAccept, LockShard, RegistryInv, TypeOK
<1>2. TypeOK'
  BY <1>1 DEF RegistryInv, TypeOK
<1>3. LostIsFenced' /\ GenerationsAllocated'
  BY <1>1 DEF RegistryInv, LostIsFenced, GenerationsAllocated
<1>4. HeldShards'
  BY <1>1 DEF RegistryInv, TypeOK, HeldShards, Present, Rollbackable
<1>5. GenerationsDistinct'
  <2>1. \A j \in Key, g \in 1..GenerationMax : Owns(j, g)' => Owns(j, g)
    BY <1>1 DEF RegistryInv, TypeOK, Owns
  <2> QED BY <2>1 DEF RegistryInv, GenerationsDistinct
<1>6. Occupied' = Occupied
  BY <1>1 DEF RegistryInv, TypeOK, Occupied, Present, Rollbackable
<1> QED
  BY <1>1, <1>2, <1>3, <1>4, <1>5, <1>6 DEF RegistryInv

LEMMA RollbackRemoveKeepsInv ==
    ASSUME RegistryInv, NEW k \in Key, RollbackRemove(k)
    PROVE  RegistryInv'
<1>1. Present(k) /\ at[k] = "checked" /\ DropEntry(k) /\ UNCHANGED <<poisoned, stragglers>>
  BY DEF RollbackRemove, RegistryInv, HeldShards, Present
<1>2. stragglers' \in 0..MaxStragglers
  BY <1>1 DEF RegistryInv, TypeOK
<1> QED BY <1>1, <1>2, DropEntryKeepsInv

LEMMA RemoveTerminalKeepsInv ==
    ASSUME RegistryInv, NEW k \in Key, RemoveTerminal(k)
    PROVE  RegistryInv'
<1>1. Present(k) /\ at[k] = "free" /\ DropEntry(k) /\ UNCHANGED poisoned
  BY DEF RemoveTerminal, LockShard, Present
<1>2. stragglers' \in 0..MaxStragglers
  BY RegistryAssumption DEF RemoveTerminal, LockShard, RegistryInv, TypeOK
<1> QED BY <1>1, <1>2, DropEntryKeepsInv

LEMMA ReleaseEntryKeepsInv ==
    ASSUME RegistryInv, NEW k \in Key, ReleaseEntry(k)
    PROVE  RegistryInv'
<1>1. /\ at[k] = "removed"
      /\ at' = [at EXCEPT ![k] = "free"]
      /\ entryCount' = entryCount - 1
      /\ UNCHANGED <<entries, heldGen, nextGen, poisoned, stragglers>>
  BY DEF ReleaseEntry
<1>2. Occupied' = Occupied \ {k} /\ k \in Occupied
  BY <1>1 DEF RegistryInv, TypeOK, HeldShards, Occupied, Present
<1>3. /\ IsFiniteSet(Occupied)
      /\ Cardinality(Occupied') = Cardinality(Occupied) - 1
      /\ Cardinality(Occupied') \in Nat
  BY <1>2, OccupiedFinite, FS_RemoveElement, FS_CardinalityType
<1>4. entryCount' = Cardinality(Occupied') /\ entryCount' \in 0..MaxEntries
  BY <1>1, <1>3, RegistryAssumption DEF RegistryInv, TypeOK
<1>5. TypeOK'
  BY <1>1, <1>4 DEF RegistryInv, TypeOK
<1>6. LostIsFenced' /\ GenerationsAllocated'
  BY <1>1 DEF RegistryInv, LostIsFenced, GenerationsAllocated
<1>7. HeldShards'
  BY <1>1 DEF RegistryInv, TypeOK, HeldShards, Present
<1>8. GenerationsDistinct'
  <2>1. \A j \in Key, g \in 1..GenerationMax : Owns(j, g)' => Owns(j, g)
    BY <1>1 DEF RegistryInv, TypeOK, Owns
  <2> QED BY <2>1 DEF RegistryInv, GenerationsDistinct
<1> QED
  BY <1>4, <1>5, <1>6, <1>7, <1>8 DEF RegistryInv

(***************************************************************************)
(* claim_spawn.  The allocated generation is one that no key owns, because *)
(* every generation in use is below the counter; the shard is held until   *)
(* it is stored, so the claimed call cannot be fenced in between.          *)
(***************************************************************************)
LEMMA AllocateGenerationKeepsInv ==
    ASSUME RegistryInv, NEW k \in Key, NEW r \in Request,
           AllocateGeneration(k, r)
    PROVE  RegistryInv'
<1>1. /\ at[k] = "free" /\ entries[k].dispatch = "accepted"
      /\ ~entries[k].inhibited
      /\ nextGen # GenerationMax
      /\ heldGen' = [heldGen EXCEPT ![k] = nextGen]
      /\ nextGen' = nextGen + 1
      /\ at' = [at EXCEPT ![k] = "allocated"]
      /\ UNCHANGED <<entries, entryCount, poisoned>>
      /\ stragglers' \in 0..MaxStragglers
  BY RegistryAssumption DEF AllocateGeneration, LockShard, Claimable, RegistryInv, TypeOK
<1>2. TypeOK'
  BY <1>1, RegistryAssumption DEF RegistryInv, TypeOK
<1>3. LostIsFenced' /\ GenerationsAllocated'
  BY <1>1, RegistryAssumption DEF RegistryInv, TypeOK, LostIsFenced, GenerationsAllocated
<1>4. HeldShards'
  BY <1>1, RegistryAssumption DEF RegistryInv, TypeOK, HeldShards, Present
<1>5. GenerationsDistinct'
  <2>1. \A j \in Key, g \in 1..GenerationMax : Owns(j, g) => g < nextGen
    BY RegistryAssumption DEF RegistryInv, TypeOK, Owns, HeldShards, GenerationsAllocated
  <2>2. \A j \in Key \ {k}, g \in 1..GenerationMax : Owns(j, g)' => Owns(j, g)
    BY <1>1 DEF RegistryInv, TypeOK, Owns
  <2>3. \A g \in 1..GenerationMax : Owns(k, g)' => g = nextGen
    BY <1>1 DEF RegistryInv, TypeOK, Owns
  <2>4. nextGen \in Nat
    BY RegistryAssumption DEF RegistryInv, TypeOK
  <2> QED
    BY <2>1, <2>2, <2>3, <2>4 DEF RegistryInv, GenerationsDistinct
<1>6. Occupied' = Occupied
  BY <1>1 DEF RegistryInv, TypeOK, Occupied, Present
<1> QED
  BY <1>1, <1>2, <1>3, <1>4, <1>5, <1>6 DEF RegistryInv

LEMMA StoreClaimKeepsInv ==
    ASSUME RegistryInv, NEW k \in Key, StoreClaim(k)
    PROVE  RegistryInv'
<1> DEFINE e == [entries[k] EXCEPT !.dispatch = "started",
                                   !.inhibited = FALSE,
                                   !.generation = heldGen[k]]
           f == PushEvent(e, "SpawnClaimed")
<1>1. /\ at[k] = "allocated"
      /\ entries' = [entries EXCEPT ![k] = f]
      /\ at' = [at EXCEPT ![k] = "free"]
      /\ heldGen' = [heldGen EXCEPT ![k] = 0]
      /\ UNCHANGED <<entryCount, nextGen, poisoned, stragglers>>
  BY DEF StoreClaim, RegistryInv, TypeOK
<1>2. heldGen[k] \in 1..(nextGen - 1) /\ entries[k].dispatch = "accepted"
  BY <1>1 DEF RegistryInv, HeldShards
<1>3. entries[k] \in Entry /\ Len(entries[k].history) <= MaxHistory
  BY DEF RegistryInv, TypeOK
<1>4. heldGen[k] \in Nat
  BY <1>2, RegistryAssumption DEF RegistryInv, TypeOK
<1>5. /\ e \in Entry
      /\ e.history = entries[k].history
      /\ e.dispatch = "started"
      /\ e.generation = heldGen[k]
  BY <1>3, <1>4 DEF Entry, Dispatch
<1>6. "SpawnClaimed" \in EventKind
  BY DEF EventKind
<1> HIDE DEF e
<1>7. /\ f \in Entry /\ Len(f.history) <= MaxHistory
      /\ f.dispatch = "started" /\ f.generation = heldGen[k]
  BY <1>3, <1>5, <1>6, PushEventFields
<1> HIDE DEF f
<1>8. TypeOK'
  BY <1>1, <1>7, RegistryAssumption DEF RegistryInv, TypeOK
<1>9. LostIsFenced' /\ HeldShards'
  BY <1>1, <1>7 DEF RegistryInv, TypeOK, LostIsFenced, HeldShards, Present
<1>10. GenerationsAllocated'
  BY <1>1, <1>2, <1>7 DEF RegistryInv, TypeOK, GenerationsAllocated
<1>11. GenerationsDistinct'
  <2>1. \A j \in Key, g \in 1..GenerationMax : Owns(j, g)' => Owns(j, g)
    BY <1>1, <1>7 DEF RegistryInv, TypeOK, Owns
  <2> QED BY <2>1 DEF RegistryInv, GenerationsDistinct
<1>12. Occupied' = Occupied
  BY <1>1, <1>2, <1>7 DEF RegistryInv, TypeOK, Occupied, Present
<1> QED
  BY <1>1, <1>8, <1>9, <1>10, <1>11, <1>12 DEF RegistryInv

LEMMA SignalCancelKeepsInv ==
    ASSUME RegistryInv, NEW k \in Key, SignalCancel(k)
    PROVE  RegistryInv'
<1> DEFINE f == [entries[k] EXCEPT !.cancelled = TRUE]
<1>1. /\ entries' = [entries EXCEPT ![k] = f]
      /\ UNCHANGED <<at, heldGen, entryCount, nextGen, poisoned, stragglers>>
  BY DEF SignalCancel
<1>2. /\ f \in Entry
      /\ f.history = entries[k].history
      /\ f.dispatch = entries[k].dispatch
      /\ f.inhibited = entries[k].inhibited
      /\ f.generation = entries[k].generation
      /\ f.lost = entries[k].lost
  <2>1. entries[k] \in Entry
    BY DEF RegistryInv, TypeOK
  <2> QED BY <2>1 DEF Entry
<1> HIDE DEF f
<1>3. TypeOK'
  BY <1>1, <1>2 DEF RegistryInv, TypeOK
<1>4. LostIsFenced' /\ HeldShards' /\ GenerationsAllocated'
  BY <1>1, <1>2 DEF RegistryInv, TypeOK, LostIsFenced, HeldShards,
                    GenerationsAllocated, Present
<1>5. GenerationsDistinct'
  <2>1. \A j \in Key, g \in 1..GenerationMax : Owns(j, g)' => Owns(j, g)
    BY <1>1, <1>2 DEF RegistryInv, TypeOK, Owns
  <2> QED BY <2>1 DEF RegistryInv, GenerationsDistinct
<1>6. Occupied' = Occupied
  BY <1>1, <1>2 DEF RegistryInv, TypeOK, Occupied, Present
<1> QED
  BY <1>1, <1>3, <1>4, <1>5, <1>6 DEF RegistryInv

(***************************************************************************)
(* Steps that leave everything but the poison latch alone.                 *)
(***************************************************************************)
LEMMA FrameKeepsInv ==
    ASSUME RegistryInv, UNCHANGED <<entries, at, heldGen, entryCount, nextGen>>,
           poisoned' \in SUBSET Key, stragglers' \in 0..MaxStragglers
    PROVE  RegistryInv'
  BY DEF RegistryInv, TypeOK, LostIsFenced, HeldShards, GenerationsAllocated,
         GenerationsDistinct, Owns, Occupied, Present

(***************************************************************************)
(* What an operation may do to an entry it rewrites: keep its dispatch and *)
(* everything that has been promised about it, or finish a started call.   *)
(***************************************************************************)
KeepsDispatch(e, f) ==
    /\ f.dispatch = e.dispatch
    /\ f.generation = e.generation
    /\ f.terminal = e.terminal
    /\ e.pid # None => f.pid = e.pid
    /\ e.inhibited => f.inhibited
    /\ e.cancelled => f.cancelled
    /\ f.dispatch = "accepted" /\ f.lost => f.inhibited

Finishes(e, f) ==
    /\ e.dispatch = "started"
    /\ f.dispatch = "terminal"
    /\ f.generation = e.generation
    /\ f.pid = e.pid

Edit(k) ==
    \/ InhibitSpawn(k)
    \/ \E g \in 1..GenerationMax, p \in Pid : RecordPid(k, g, p)
    \/ RequestCancel(k)
    \/ MarkConnectionLost(k)
    \/ MarkConnectionAttached(k)

Rewrite(k) ==
    \/ Edit(k)
    \/ \E g \in 1..GenerationMax, t \in Terminal : Complete(k, g, t)

LEMMA EditForm ==
    ASSUME RegistryInv, NEW k \in Key, Edit(k)
    PROVE  /\ Present(k)
           /\ \E f \in Entry :
                /\ SetEntry(k, f)
                /\ Len(f.history) <= MaxHistory
                /\ KeepsDispatch(entries[k], f)
<1> DEFINE e == entries[k]
<1>1. /\ e \in Entry
      /\ Len(e.history) <= MaxHistory
      /\ e.dispatch = "accepted" /\ e.lost => e.inhibited
  BY DEF RegistryInv, TypeOK, LostIsFenced
<1> HIDE DEF e
<1>2. CASE InhibitSpawn(k)
  <2> DEFINE d == [e EXCEPT !.inhibited = TRUE]
             f == PushEvent(d, "SpawnInhibited")
  <2>1. /\ d \in Entry
        /\ d.history = e.history
        /\ d.dispatch = e.dispatch
        /\ d.generation = e.generation
        /\ d.terminal = e.terminal
        /\ d.pid = e.pid
        /\ d.lost = e.lost
        /\ d.cancelled = e.cancelled
        /\ d.inhibited = TRUE
    BY <1>1, <1>2 DEF Entry, Dispatch
  <2>2. "SpawnInhibited" \in EventKind
    BY DEF EventKind
  <2>3. Present(k) /\ SetEntry(k, f)
    BY <1>2 DEF InhibitSpawn, Present, e
  <2> HIDE DEF d
  <2>4. /\ f \in Entry /\ Len(f.history) <= MaxHistory
        /\ f.dispatch = d.dispatch /\ f.generation = d.generation
        /\ f.terminal = d.terminal /\ f.pid = d.pid
        /\ f.inhibited = d.inhibited /\ f.lost = d.lost
        /\ f.cancelled = d.cancelled
    BY <1>1, <2>1, <2>2, PushEventFields
  <2> HIDE DEF f
  <2>5. KeepsDispatch(e, f)
    BY <1>1, <2>1, <2>4, <1>2 DEF KeepsDispatch, InhibitSpawn, e
  <2> QED BY <2>3, <2>4, <2>5 DEF e
<1>3. CASE \E g \in 1..GenerationMax, p \in Pid : RecordPid(k, g, p)
  <2>0. PICK g \in 1..GenerationMax, p \in Pid : RecordPid(k, g, p)
    BY <1>3
  <2> DEFINE d == [e EXCEPT !.pid = p]
             f == PushEvent(d, "PidObserved")
  <2>1. /\ d \in Entry
        /\ d.history = e.history
        /\ d.dispatch = e.dispatch
        /\ d.generation = e.generation
        /\ d.terminal = e.terminal
        /\ d.inhibited = e.inhibited
        /\ d.lost = e.lost
        /\ d.cancelled = e.cancelled
    BY <1>1, <2>0 DEF Entry, Dispatch
  <2>2. "PidObserved" \in EventKind
    BY DEF EventKind
  <2>3. Present(k) /\ SetEntry(k, f)
    BY <2>0 DEF RecordPid, Present, e
  <2> HIDE DEF d
  <2>4. /\ f \in Entry /\ Len(f.history) <= MaxHistory
        /\ f.dispatch = d.dispatch /\ f.generation = d.generation
        /\ f.terminal = d.terminal /\ f.pid = d.pid
        /\ f.inhibited = d.inhibited /\ f.lost = d.lost
        /\ f.cancelled = d.cancelled
    BY <1>1, <2>1, <2>2, PushEventFields
  <2> HIDE DEF f
  <2>5. KeepsDispatch(e, f)
    BY <1>1, <2>1, <2>4, <2>0 DEF KeepsDispatch, RecordPid, e
  <2> QED BY <2>3, <2>4, <2>5 DEF e
<1>4. CASE RequestCancel(k)
  <2> DEFINE d == [e EXCEPT !.cancelled = TRUE]
             f == PushEvent(d, "CancelRequested")
  <2>1. /\ d \in Entry
        /\ d.history = e.history
        /\ d.dispatch = e.dispatch
        /\ d.generation = e.generation
        /\ d.terminal = e.terminal
        /\ d.pid = e.pid
        /\ d.inhibited = e.inhibited
        /\ d.lost = e.lost
        /\ d.cancelled = TRUE
    BY <1>1, <1>4 DEF Entry, Dispatch
  <2>2. "CancelRequested" \in EventKind
    BY DEF EventKind
  <2>3. Present(k) /\ SetEntry(k, f)
    BY <1>4 DEF RequestCancel, Present, e
  <2> HIDE DEF d
  <2>4. /\ f \in Entry /\ Len(f.history) <= MaxHistory
        /\ f.dispatch = d.dispatch /\ f.generation = d.generation
        /\ f.terminal = d.terminal /\ f.pid = d.pid
        /\ f.inhibited = d.inhibited /\ f.lost = d.lost
        /\ f.cancelled = d.cancelled
    BY <1>1, <2>1, <2>2, PushEventFields
  <2> HIDE DEF f
  <2>5. KeepsDispatch(e, f)
    BY <1>1, <2>1, <2>4, <1>4 DEF KeepsDispatch, RequestCancel, e
  <2> QED BY <2>3, <2>4, <2>5 DEF e
<1>5. CASE MarkConnectionLost(k)
  <2> DEFINE d == [e EXCEPT !.lost = TRUE,
                          !.inhibited = @ \/ e.dispatch = "accepted"]
             f == PushEvent(d, "ConnectionLost")
  <2>1. /\ d \in Entry
        /\ d.history = e.history
        /\ d.dispatch = e.dispatch
        /\ d.generation = e.generation
        /\ d.terminal = e.terminal
        /\ d.pid = e.pid
        /\ d.cancelled = e.cancelled
        /\ d.lost = TRUE
        /\ d.inhibited = (e.inhibited \/ e.dispatch = "accepted")
    BY <1>1, <1>5 DEF Entry, Dispatch
  <2>2. "ConnectionLost" \in EventKind
    BY DEF EventKind
  <2>3. Present(k) /\ SetEntry(k, f)
    BY <1>5 DEF MarkConnectionLost, Present, e
  <2> HIDE DEF d
  <2>4. /\ f \in Entry /\ Len(f.history) <= MaxHistory
        /\ f.dispatch = d.dispatch /\ f.generation = d.generation
        /\ f.terminal = d.terminal /\ f.pid = d.pid
        /\ f.inhibited = d.inhibited /\ f.lost = d.lost
        /\ f.cancelled = d.cancelled
    BY <1>1, <2>1, <2>2, PushEventFields
  <2> HIDE DEF f
  <2>5. KeepsDispatch(e, f)
    BY <1>1, <2>1, <2>4, <1>5 DEF KeepsDispatch, MarkConnectionLost, e
  <2> QED BY <2>3, <2>4, <2>5 DEF e
<1>6. CASE MarkConnectionAttached(k)
  <2> DEFINE d == [e EXCEPT !.lost = FALSE]
             f == PushEvent(d, "ConnectionAttached")
  <2>1. /\ d \in Entry
        /\ d.history = e.history
        /\ d.dispatch = e.dispatch
        /\ d.generation = e.generation
        /\ d.terminal = e.terminal
        /\ d.pid = e.pid
        /\ d.inhibited = e.inhibited
        /\ d.cancelled = e.cancelled
        /\ d.lost = FALSE
    BY <1>1, <1>6 DEF Entry, Dispatch
  <2>2. "ConnectionAttached" \in EventKind
    BY DEF EventKind
  <2>3. Present(k) /\ SetEntry(k, f)
    BY <1>6 DEF MarkConnectionAttached, Present, e
  <2> HIDE DEF d
  <2>4. /\ f \in Entry /\ Len(f.history) <= MaxHistory
        /\ f.dispatch = d.dispatch /\ f.generation = d.generation
        /\ f.terminal = d.terminal /\ f.pid = d.pid
        /\ f.inhibited = d.inhibited /\ f.lost = d.lost
        /\ f.cancelled = d.cancelled
    BY <1>1, <2>1, <2>2, PushEventFields
  <2> HIDE DEF f
  <2>5. KeepsDispatch(e, f)
    BY <1>1, <2>1, <2>4, <1>6 DEF KeepsDispatch, MarkConnectionAttached, e
  <2> QED BY <2>3, <2>4, <2>5 DEF e
<1> QED
  BY <1>2, <1>3, <1>4, <1>5, <1>6 DEF Edit

LEMMA CompleteForm ==
    ASSUME RegistryInv, NEW k \in Key, NEW g \in 1..GenerationMax,
           NEW t \in Terminal, Complete(k, g, t)
    PROVE  /\ Present(k)
           /\ \E f \in Entry :
                /\ SetEntry(k, f)
                /\ Len(f.history) <= MaxHistory
                /\ Finishes(entries[k], f)
                /\ f.terminal = t
<1> DEFINE e == entries[k]
           d == [e EXCEPT !.dispatch = "terminal", !.terminal = t]
           f == PushEvent(d, "TerminalRecorded")
<1>1. e \in Entry /\ Len(e.history) <= MaxHistory
  BY DEF RegistryInv, TypeOK
<1>2. e.dispatch = "started"
  BY DEF Complete
<1>3. Present(k) /\ SetEntry(k, f)
  BY DEF Complete, Present
<1> HIDE DEF e
<1>4. /\ d \in Entry
      /\ d.history = e.history
      /\ d.generation = e.generation
      /\ d.pid = e.pid
      /\ d.dispatch = "terminal"
      /\ d.terminal = t
  BY <1>1 DEF Entry, Dispatch
<1>5. "TerminalRecorded" \in EventKind
  BY DEF EventKind
<1> HIDE DEF d
<1>6. /\ f \in Entry /\ Len(f.history) <= MaxHistory
      /\ f.dispatch = d.dispatch /\ f.generation = d.generation
      /\ f.terminal = d.terminal /\ f.pid = d.pid
  BY <1>1, <1>4, <1>5, PushEventFields
<1> HIDE DEF f
<1>7. Finishes(e, f) /\ f.terminal = t
  BY <1>2, <1>4, <1>6 DEF Finishes
<1> QED BY <1>3, <1>6, <1>7 DEF e

LEMMA RewriteForm ==
    ASSUME RegistryInv, NEW k \in Key, Rewrite(k)
    PROVE  /\ Present(k)
           /\ \E f \in Entry :
                /\ SetEntry(k, f)
                /\ Len(f.history) <= MaxHistory
                /\ KeepsDispatch(entries[k], f) \/ Finishes(entries[k], f)
<1>1. CASE Edit(k)
  BY <1>1, EditForm
<1>2. CASE \E g \in 1..GenerationMax, t \in Terminal : Complete(k, g, t)
  BY <1>2, CompleteForm
<1> QED BY <1>1, <1>2 DEF Rewrite

LEMMA RewriteKeepsInv ==
    ASSUME RegistryInv, NEW k \in Key, Rewrite(k)
    PROVE  RegistryInv'
<1>1. PICK f \in Entry :
        /\ SetEntry(k, f)
        /\ Len(f.history) <= MaxHistory
        /\ KeepsDispatch(entries[k], f) \/ Finishes(entries[k], f)
  BY RewriteForm
<1>2. Present(k)
  BY RewriteForm
<1>3. f.dispatch # "absent"
  BY <1>1, <1>2 DEF Present, KeepsDispatch, Finishes
<1>4. f.dispatch = "accepted" /\ f.lost => f.inhibited
  BY <1>1 DEF KeepsDispatch, Finishes
<1>5. f.dispatch \in {"started", "terminal"}
        => /\ entries[k].dispatch \in {"started", "terminal"}
           /\ f.generation = entries[k].generation
  BY <1>1 DEF KeepsDispatch, Finishes
<1> QED
  BY <1>1, <1>2, <1>3, <1>4, <1>5, SetEntryKeepsInv

LEMMA NextKeepsInv ==
    ASSUME RegistryInv, [RegistryNext]_registryVars
    PROVE  RegistryInv'
<1>1. CASE UNCHANGED registryVars
  BY <1>1, FrameKeepsInv DEF registryVars, RegistryInv, TypeOK
<1>2. CASE RegistryNext
  <2>1. PICK k \in Key :
          \/ ReserveEntry(k)
          \/ \E r \in Request : InsertEntry(k, r)
          \/ ReleaseEntry(k)
          \/ \E r \in Request : RollbackAccept(k, r)
          \/ RollbackRemove(k)
          \/ \E r \in Request : AllocateGeneration(k, r)
          \/ StoreClaim(k)
          \/ SignalCancel(k)
          \/ RemoveTerminal(k)
          \/ PoisonShard(k)
          \/ Rewrite(k)
    BY <1>2 DEF RegistryNext, Rewrite, Edit
  <2>2. CASE ReserveEntry(k)
    BY <2>2, ReserveEntryKeepsInv
  <2>3. CASE \E r \in Request : InsertEntry(k, r)
    BY <2>3, InsertEntryKeepsInv
  <2>4. CASE ReleaseEntry(k)
    BY <2>4, ReleaseEntryKeepsInv
  <2>5. CASE \E r \in Request : RollbackAccept(k, r)
    BY <2>5, RollbackAcceptKeepsInv
  <2>6. CASE \E r \in Request : AllocateGeneration(k, r)
    BY <2>6, AllocateGenerationKeepsInv
  <2>7. CASE StoreClaim(k)
    BY <2>7, StoreClaimKeepsInv
  <2>8. CASE SignalCancel(k)
    BY <2>8, SignalCancelKeepsInv
  <2>9. CASE RemoveTerminal(k)
    BY <2>9, RemoveTerminalKeepsInv
  <2>10. CASE PoisonShard(k)
    <3>1. poisoned' \in SUBSET Key /\ stragglers' \in 0..MaxStragglers
      BY <2>10 DEF PoisonShard
    <3> QED BY <2>10, <3>1, FrameKeepsInv DEF PoisonShard
  <2>11. CASE Rewrite(k)
    BY <2>11, RewriteKeepsInv
  <2>12. CASE RollbackRemove(k)
    BY <2>12, RollbackRemoveKeepsInv
  <2> QED
    BY <2>1, <2>2, <2>3, <2>4, <2>5, <2>6, <2>7, <2>8, <2>9, <2>10, <2>11, <2>12
<1> QED
  BY <1>1, <1>2

\* The inductive invariant holds in every reachable state.
THEOREM RegistryInvariance == RegistrySpec => []RegistryInv
<1>1. RegistryInv /\ [RegistryNext]_registryVars => RegistryInv'
  BY NextKeepsInv
<1> QED
  BY InitInv, <1>1, PTL DEF RegistrySpec

\* Type correctness for every instance: the entry counter stays within
\* max_entries, the generation counter below u64::MAX, histories bounded.
THEOREM TypeCorrectness == RegistrySpec => []TypeOK
<1>1. RegistryInv => TypeOK
  BY DEF RegistryInv
<1> QED
  BY RegistryInvariance, <1>1, PTL

\* entry_count counts exactly the slots in use although no lock covers it and
\* the maps together, so the registry never holds more than max_entries calls.
THEOREM AccountingIsExact == RegistrySpec => []EntryAccounting
<1>1. RegistryInv => EntryAccounting
  <2> SUFFICES ASSUME RegistryInv PROVE EntryAccounting
    OBVIOUS
  <2> DEFINE held == {k \in Key : Present(k)}
  <2>1. IsFiniteSet(Occupied) /\ held \in SUBSET Occupied
    BY OccupiedFinite DEF Occupied
  <2>2. IsFiniteSet(held) /\ Cardinality(held) <= Cardinality(Occupied)
    BY <2>1, FS_Subset
  <2>3. Cardinality(held) \in Nat /\ Cardinality(Occupied) \in Nat
    BY <2>1, <2>2, FS_CardinalityType
  <2>4. Cardinality(Occupied) <= MaxEntries
    BY DEF RegistryInv, TypeOK
  <2> QED
    BY <2>2, <2>3, <2>4, RegistryAssumption DEF EntryAccounting, RegistryInv
<1> QED
  BY RegistryInvariance, <1>1, PTL

\* No two calls ever own the same spawn generation at the same time.
THEOREM GenerationsAreDistinct == RegistrySpec => []GenerationsDistinct
<1>1. RegistryInv => GenerationsDistinct
  BY DEF RegistryInv
<1> QED
  BY RegistryInvariance, <1>1, PTL

(***************************************************************************)
(* What any step can do to the entry of one key.                           *)
(***************************************************************************)
LEMMA StepForm ==
    ASSUME RegistryInv, [RegistryNext]_registryVars, NEW k \in Key
    PROVE  \/ entries'[k] = entries[k]
           \/ at[k] = "reserved" /\ ~Present(k)
           \/ /\ entries'[k] = NoEntry
              /\ at[k] = "checked" \/ entries[k].dispatch = "terminal"
           \/ at[k] = "allocated" /\ entries[k].dispatch = "accepted"
                /\ entries'[k].dispatch = "started"
           \/ KeepsDispatch(entries[k], entries'[k])
           \/ Finishes(entries[k], entries'[k])
<1>1. CASE UNCHANGED registryVars
  BY <1>1 DEF registryVars
<1>2. CASE RegistryNext
  <2>1. PICK j \in Key :
          \/ ReserveEntry(j)
          \/ \E r \in Request : InsertEntry(j, r)
          \/ ReleaseEntry(j)
          \/ \E r \in Request : RollbackAccept(j, r)
          \/ RollbackRemove(j)
          \/ \E r \in Request : AllocateGeneration(j, r)
          \/ StoreClaim(j)
          \/ SignalCancel(j)
          \/ RemoveTerminal(j)
          \/ PoisonShard(j)
          \/ Rewrite(j)
    BY <1>2 DEF RegistryNext, Rewrite, Edit
  <2>2. CASE ReserveEntry(j) \/ ReleaseEntry(j) \/ PoisonShard(j)
               \/ (\E r \in Request : AllocateGeneration(j, r))
               \/ (\E r \in Request : RollbackAccept(j, r))
    BY <2>2 DEF ReserveEntry, ReleaseEntry, PoisonShard, AllocateGeneration, RollbackAccept
  <2>3. CASE \E r \in Request : InsertEntry(j, r)
    <3>1. at[j] = "reserved" /\ ~Present(j)
      BY <2>3 DEF InsertEntry, RegistryInv, HeldShards
    <3>2. j # k => entries'[k] = entries[k]
      BY <2>3 DEF InsertEntry, RegistryInv, TypeOK
    <3> QED BY <3>1, <3>2
  <2>4. CASE RollbackRemove(j) \/ RemoveTerminal(j)
    <3>1. /\ entries' = [entries EXCEPT ![j] = NoEntry]
          /\ at[j] = "checked" \/ entries[j].dispatch = "terminal"
      BY <2>4 DEF RollbackRemove, RemoveTerminal, DropEntry
    <3> QED BY <3>1 DEF RegistryInv, TypeOK
  <2>5. CASE StoreClaim(j)
    <3> DEFINE e == [entries[j] EXCEPT !.dispatch = "started",
                                       !.inhibited = FALSE,
                                       !.generation = heldGen[j]]
    <3>1. at[j] = "allocated" /\ entries[j].dispatch = "accepted"
      BY <2>5 DEF StoreClaim, RegistryInv, HeldShards
    <3>2. entries' = [entries EXCEPT ![j] = PushEvent(e, "SpawnClaimed")]
      BY <2>5 DEF StoreClaim, RegistryInv, TypeOK
    <3>3. heldGen[j] \in Nat
      BY RegistryAssumption DEF RegistryInv, TypeOK
    <3>4. e \in Entry /\ e.history = entries[j].history /\ e.dispatch = "started"
      <4>1. entries[j] \in Entry
        BY DEF RegistryInv, TypeOK
      <4> QED BY <3>3, <4>1 DEF Entry, Dispatch
    <3>5. "SpawnClaimed" \in EventKind /\ Len(entries[j].history) <= MaxHistory
      BY DEF EventKind, RegistryInv, TypeOK
    <3> HIDE DEF e
    <3>6. PushEvent(e, "SpawnClaimed").dispatch = "started"
      BY <3>4, <3>5, PushEventFields
    <3> QED BY <3>1, <3>2, <3>6 DEF RegistryInv, TypeOK
  <2>6. CASE SignalCancel(j)
    <3>1. entries' = [entries EXCEPT ![j] = [entries[j] EXCEPT !.cancelled = TRUE]]
      BY <2>6 DEF SignalCancel
    <3>2. entries[j] \in Entry
      BY DEF RegistryInv, TypeOK
    <3>3. KeepsDispatch(entries[j], [entries[j] EXCEPT !.cancelled = TRUE])
      BY <3>2 DEF KeepsDispatch, Entry, RegistryInv, LostIsFenced
    <3> QED BY <3>1, <3>3 DEF RegistryInv, TypeOK
  <2>7. CASE Rewrite(j)
    <3>1. PICK f \in Entry :
            /\ SetEntry(j, f)
            /\ KeepsDispatch(entries[j], f) \/ Finishes(entries[j], f)
      BY <2>7, RewriteForm
    <3>2. entries' = [entries EXCEPT ![j] = f]
      BY <3>1 DEF SetEntry
    <3> QED BY <3>1, <3>2 DEF RegistryInv, TypeOK
  <2> QED
    BY <2>1, <2>2, <2>3, <2>4, <2>5, <2>6, <2>7
<1> QED
  BY <1>1, <1>2

(***************************************************************************)
(* Which operations take the shard of one key and keep it.                 *)
(***************************************************************************)
LEMMA ShardForm ==
    ASSUME RegistryInv, [RegistryNext]_registryVars, NEW k \in Key
    PROVE  /\ at[k] = "free" /\ at'[k] # "free"
                => \/ ~Present(k)
                   \/ Claimable(entries[k])
                   \/ Rollbackable(entries[k])
                   \/ entries[k].dispatch = "terminal"
           /\ at'[k] = "checked" => \/ at[k] = "checked"
                                    \/ at[k] = "free" /\ Rollbackable(entries[k])
<1>1. CASE UNCHANGED registryVars
  BY <1>1 DEF registryVars
<1>2. CASE RegistryNext
  <2>1. PICK j \in Key :
          \/ ReserveEntry(j)
          \/ \E r \in Request : InsertEntry(j, r)
          \/ ReleaseEntry(j)
          \/ \E r \in Request : RollbackAccept(j, r)
          \/ RollbackRemove(j)
          \/ \E r \in Request : AllocateGeneration(j, r)
          \/ StoreClaim(j)
          \/ SignalCancel(j)
          \/ RemoveTerminal(j)
          \/ PoisonShard(j)
          \/ Rewrite(j)
    BY <1>2 DEF RegistryNext, Rewrite, Edit
  <2>2. CASE ReserveEntry(j)
    BY <2>2 DEF ReserveEntry, LockShard, RegistryInv, TypeOK
  <2>3. CASE (\E r \in Request : InsertEntry(j, r)) \/ ReleaseEntry(j) \/ StoreClaim(j)
    BY <2>3 DEF InsertEntry, ReleaseEntry, StoreClaim, RegistryInv, TypeOK
  <2>4. CASE \E r \in Request : RollbackAccept(j, r)
    BY <2>4 DEF RollbackAccept, LockShard, RegistryInv, TypeOK
  <2>5. CASE RollbackRemove(j) \/ RemoveTerminal(j)
    BY <2>5 DEF RollbackRemove, RemoveTerminal, DropEntry, RegistryInv, TypeOK
  <2>6. CASE \E r \in Request : AllocateGeneration(j, r)
    BY <2>6 DEF AllocateGeneration, LockShard, RegistryInv, TypeOK
  <2>7. CASE SignalCancel(j) \/ PoisonShard(j)
    BY <2>7 DEF SignalCancel, PoisonShard
  <2>8. CASE Rewrite(j)
    <3>1. UNCHANGED at
      BY <2>8, RewriteForm DEF SetEntry
    <3> QED BY <3>1
  <2> QED
    BY <2>1, <2>2, <2>3, <2>4, <2>5, <2>6, <2>7, <2>8
<1> QED
  BY <1>1, <1>2

LEMMA NotStartedStepHolds ==
    RegistryInv /\ [RegistryNext]_registryVars => [NotStartedStep]_registryVars
<1> SUFFICES ASSUME RegistryInv, [RegistryNext]_registryVars, NEW k \in Key,
                    at[k] = "free", EffectiveState(entries[k]) \in NotStarted
             PROVE  at'[k] = "free" /\ EffectiveState(entries'[k]) \in NotStarted
  BY DEF NotStartedStep
<1> DEFINE e == entries[k]
           f == entries'[k]
<1>1. /\ e.dispatch = "accepted"
      /\ e.cancelled \/ e.inhibited
  BY DEF EffectiveState, NotStarted, RegistryInv, LostIsFenced
<1>2. at'[k] = "free"
  BY <1>1, ShardForm DEF Present, Claimable, Rollbackable
<1>3. e = f \/ KeepsDispatch(e, f)
  BY <1>1, StepForm DEF Present, Finishes
<1>4. CASE e = f
  BY <1>2, <1>4
<1>5. CASE KeepsDispatch(e, f)
  <2>1. f.dispatch = "accepted" /\ (f.cancelled \/ f.inhibited)
    BY <1>1, <1>5 DEF KeepsDispatch
  <2> QED BY <1>2, <2>1 DEF EffectiveState, NotStarted
<1> QED BY <1>3, <1>4, <1>5

\* A call reported as cancelled before spawn or proven not started is never
\* started and never forgotten, whatever the interleaving.
THEOREM NotStartedIsFinal == RegistrySpec => NotStartedProofHolds
  BY RegistryInvariance, NotStartedStepHolds, PTL DEF RegistrySpec, NotStartedProofHolds

LEMMA DispatchStepHolds ==
    RegistryInv /\ [RegistryNext]_registryVars => [DispatchStep]_registryVars
<1> SUFFICES ASSUME RegistryInv, [RegistryNext]_registryVars, NEW k \in Key
             PROVE  LET e == entries[k]
                        f == entries'[k]
                    IN  /\ e.dispatch = "accepted"
                             /\ Touched(k)
                             => f.dispatch # "absent" /\ at'[k] # "checked"
                        /\ e.dispatch = "started"
                             => /\ f.dispatch \in {"started", "terminal"}
                                /\ f.generation = e.generation
                                /\ e.pid # None => f.pid = e.pid
                        /\ e.dispatch = "terminal"
                             => \/ f.dispatch = "absent"
                                \/ /\ f.dispatch = "terminal"
                                   /\ f.generation = e.generation
                                   /\ f.terminal = e.terminal
  BY DEF DispatchStep
<1>1. NoEntry.dispatch = "absent"
  BY DEF NoEntry, NewEntry
<1>2. ASSUME entries[k].dispatch = "accepted", Touched(k)
      PROVE  at[k] # "checked" /\ ~(at[k] = "free" /\ Rollbackable(entries[k]))
  <2>0. Len(entries[k].history) \in Nat
    <3>1. entries[k].history \in Seq(Event)
      BY DEF RegistryInv, TypeOK, Entry
    <3> QED BY <3>1
  <2>1. ~(Len(entries[k].history) > 1 /\ Len(entries[k].history) = 1)
    <3>1. \A n \in Nat : ~(n > 1 /\ n = 1)
      OBVIOUS
    <3> QED BY <2>0, <3>1, Zenon
  <2>2. CASE at[k] = "checked"
    <3>1. ~entries[k].inhibited /\ ~entries[k].lost /\ Len(entries[k].history) = 1
      BY <2>2 DEF RegistryInv, HeldShards
    <3> QED BY <1>2, <2>1, <2>2, <3>1 DEF Touched
  <2>3. CASE at[k] = "free" /\ Rollbackable(entries[k])
    BY <1>2, <2>1, <2>3 DEF Touched, Rollbackable
  <2> QED BY <2>2, <2>3
<1>3. ASSUME entries[k].dispatch = "accepted", Touched(k)
      PROVE  entries'[k].dispatch # "absent" /\ at'[k] # "checked"
  BY <1>2, <1>3, StepForm, ShardForm DEF KeepsDispatch, Finishes, Present
<1>4. entries[k].dispatch # "accepted" =>
        at[k] # "checked"
  BY DEF RegistryInv, HeldShards
<1> QED
  BY <1>1, <1>3, <1>4, StepForm DEF KeepsDispatch, Finishes, Present

\* A dispatch never goes back, a terminal record never changes, and a call that
\* something has happened to is not rolled back: the check of rollback_accept
\* and its removal are two steps, and only a lock-free cancel fits in between.
THEOREM DispatchIsMonotone == RegistrySpec => DispatchNeverRegresses
  BY RegistryInvariance, DispatchStepHolds, PTL DEF RegistrySpec, DispatchNeverRegresses
=============================================================================
