---------------------------- MODULE CallRegistry ----------------------------
(***************************************************************************)
(* The process-local registry of tool calls,                               *)
(* crates/trillionnium-owner-open-call-registry/src/lib.rs.                *)
(*                                                                         *)
(* Every operation locks the shard of its key for its whole duration, but  *)
(* the entry counter, the generation counter and the cancellation flag of  *)
(* an entry are atomics that others move at the same time.  An operation   *)
(* that touches one of them and changes the map is therefore several steps *)
(* here, with the shard held in between (`at').  Every other operation is  *)
(* one step.  A key has a shard of its own, which allows every             *)
(* interleaving that shared shards allow and more.                         *)
(*                                                                         *)
(* Only the state-changing outcome of an operation is an action; the       *)
(* outcomes that return an error or an existing snapshot leave the         *)
(* registry as it is.  A request stands for its digest.                    *)
(***************************************************************************)
EXTENDS Naturals, Sequences, FiniteSets

CONSTANTS
    Key,            \* CallKey: scope and call id
    Request,        \* CallRequest, told apart by request_sha256
    Pid,            \* process ids an execution can report
    Terminal,       \* TerminalRecord values
    None,           \* Option::None
    MaxEntries,     \* limits.max_entries
    MaxHistory,     \* limits.max_history_per_call
    GenerationMax,  \* u64::MAX of next_spawn_generation
    SeqMax,         \* u64::MAX of next_event_seq
    MaxStragglers   \* operations past ensure_healthy when a shard is poisoned

ASSUME RegistryAssumption ==
    /\ IsFiniteSet(Key)
    /\ None \notin Request \cup Pid \cup Terminal
    /\ MaxEntries \in Nat \ {0}
    /\ MaxHistory \in Nat \ {0}
    /\ GenerationMax \in Nat \ {0}
    /\ SeqMax \in Nat \ {0}
    /\ MaxStragglers \in Nat

VARIABLES
    entries,     \* the entry of every key, NoEntry when the map has none
    at,          \* what the holder of the key's shard is in the middle of
    heldGen,     \* the generation that a claim allocated and has not stored
    entryCount,  \* entry_count
    nextGen,     \* next_spawn_generation
    poisoned,    \* keys whose shard mutex is poisoned
    stragglers   \* operations that passed ensure_healthy before the poisoning

registryVars ==
    <<entries, at, heldGen, entryCount, nextGen, poisoned, stragglers>>

EventKind ==
    {"Accepted", "SpawnInhibited", "SpawnClaimed", "PidObserved",
     "CancelRequested", "ConnectionLost", "ConnectionAttached",
     "TerminalRecorded"}

Event == [seq : Nat, kind : EventKind]

Dispatch == {"absent", "accepted", "started", "terminal"}

Entry ==
    [dispatch  : Dispatch,
     request   : Request \cup {None},
     inhibited : BOOLEAN,
     generation: Nat,
     pid       : Pid \cup {None},
     terminal  : Terminal \cup {None},
     lost      : BOOLEAN,
     cancelled : BOOLEAN,
     history   : Seq(Event),
     nextSeq   : Nat]

NewEntry(d, r) ==
    [dispatch |-> d, request |-> r, inhibited |-> FALSE,
     generation |-> 0, pid |-> None, terminal |-> None, lost |-> FALSE,
     cancelled |-> FALSE, history |-> <<>>, nextSeq |-> 0]

NoEntry == NewEntry("absent", None)

Present(k) == entries[k].dispatch # "absent"

\* The front of a full history is dropped; the sequence number saturates.
PushEvent(e, kind) ==
    LET event == [seq |-> e.nextSeq, kind |-> kind]
    IN  [e EXCEPT
            !.history = Append(IF Len(@) = MaxHistory THEN Tail(@) ELSE @,
                               event),
            !.nextSeq = IF @ = SeqMax THEN @ ELSE @ + 1]

AcceptedEntry(r) == PushEvent(NewEntry("accepted", r), "Accepted")

\* What a snapshot reports.
EffectiveState(e) ==
    CASE e.dispatch = "accepted" /\ e.cancelled -> "CancelledBeforeSpawn"
      [] e.dispatch = "accepted" /\ ~e.cancelled /\ (e.inhibited \/ e.lost)
           -> "ProvenNotStartedAfterDisconnect"
      [] e.dispatch = "accepted" /\ ~e.cancelled /\ ~e.inhibited /\ ~e.lost
           -> "Accepted"
      [] e.dispatch = "started" /\ e.lost -> "UnknownAfterDisconnect"
      [] e.dispatch = "started" /\ ~e.lost -> "Started"
      [] e.dispatch = "terminal" -> "Terminal"
      [] OTHER -> "NotFound"

RegistryInitAt(generation) ==
    /\ entries = [k \in Key |-> NoEntry]
    /\ at = [k \in Key |-> "free"]
    /\ heldGen = [k \in Key |-> 0]
    /\ entryCount = 0
    /\ nextGen = generation
    /\ poisoned = {}
    /\ stragglers = 0

RegistryInit == RegistryInitAt(1)

(***************************************************************************)
(* ensure_healthy and lock_shard.  Once some shard is poisoned the latch   *)
(* refuses every operation that starts; one that had passed the check      *)
(* before still runs, on a shard that is not itself poisoned.              *)
(***************************************************************************)
LockShard(k) ==
    /\ at[k] = "free"
    /\ k \notin poisoned
    /\ \/ /\ poisoned = {}
          /\ UNCHANGED stragglers
       \/ /\ poisoned # {}
          /\ stragglers > 0
          /\ stragglers' = stragglers - 1
    /\ UNCHANGED poisoned

\* An operation that replaces the entry of k and touches no atomic.
SetEntry(k, e) ==
    /\ LockShard(k)
    /\ entries' = [entries EXCEPT ![k] = e]
    /\ UNCHANGED <<at, heldGen, entryCount, nextGen>>

\* Mutant: the capacity check lets one entry too many in.
ReserveEntryOverfull(k) ==
    /\ ~Present(k)
    /\ LockShard(k)
    /\ entryCount' = IF entryCount < MaxEntries THEN entryCount + 1
                                                ELSE entryCount
    /\ at' = [at EXCEPT ![k] = "reserved"]
    /\ UNCHANGED <<entries, heldGen, nextGen>>

(***************************************************************************)
(* begin, for an absent key: reserve_entry, then the insertion.            *)
(***************************************************************************)
ReserveEntry(k) ==
    /\ ~Present(k)
    /\ LockShard(k)
    /\ entryCount < MaxEntries
    /\ entryCount' = entryCount + 1
    /\ at' = [at EXCEPT ![k] = "reserved"]
    /\ UNCHANGED <<entries, heldGen, nextGen>>

InsertEntry(k, r) ==
    /\ at[k] = "reserved"
    /\ entries' = [entries EXCEPT ![k] = AcceptedEntry(r)]
    /\ at' = [at EXCEPT ![k] = "free"]
    /\ UNCHANGED <<heldGen, entryCount, nextGen, poisoned, stragglers>>

\* An entry leaves the map before its slot is given back.
DropEntry(k) ==
    /\ entries' = [entries EXCEPT ![k] = NoEntry]
    /\ at' = [at EXCEPT ![k] = "removed"]
    /\ UNCHANGED <<heldGen, entryCount, nextGen>>

ReleaseEntry(k) ==
    /\ at[k] = "removed"
    /\ entryCount' = entryCount - 1
    /\ at' = [at EXCEPT ![k] = "free"]
    /\ UNCHANGED <<entries, heldGen, nextGen, poisoned, stragglers>>

\* Mutant: rollback trusts the history and forgets the shared flag.
RollbackableIgnoringFlag(e) ==
    /\ e.dispatch = "accepted"
    /\ ~e.inhibited
    /\ ~e.lost
    /\ Len(e.history) = 1
    /\ Head(e.history).kind = "Accepted"

Rollbackable(e) ==
    /\ e.dispatch = "accepted"
    /\ ~e.inhibited
    /\ ~e.lost
    /\ ~e.cancelled
    /\ Len(e.history) = 1
    /\ Head(e.history).kind = "Accepted"

\* rollback_accept looks at the entry, then removes it: whoever holds the
\* call's signal may set the flag in between.
RollbackAccept(k, r) ==
    /\ Present(k)
    /\ entries[k].request = r
    /\ Rollbackable(entries[k])
    /\ LockShard(k)
    /\ at' = [at EXCEPT ![k] = "checked"]
    /\ UNCHANGED <<entries, heldGen, entryCount, nextGen>>

RollbackRemove(k) ==
    /\ at[k] = "checked"
    /\ DropEntry(k)
    /\ UNCHANGED <<poisoned, stragglers>>

InhibitSpawn(k) ==
    /\ entries[k].dispatch = "accepted"
    /\ ~entries[k].inhibited
    /\ SetEntry(k, PushEvent([entries[k] EXCEPT !.inhibited = TRUE],
                             "SpawnInhibited"))

(***************************************************************************)
(* claim_spawn, when it is granted: the generation is taken from the       *)
(* shared atomic, then the entry becomes Started.                          *)
(***************************************************************************)
\* Mutant: a claim that repeats is granted again.
ClaimableAgain(e) ==
    e.dispatch \in {"accepted", "started"} /\ ~e.inhibited /\ ~e.cancelled

Claimable(e) == e.dispatch = "accepted" /\ ~e.inhibited /\ ~e.cancelled

\* Mutant: a load and a store instead of a compare-exchange.
AllocateGenerationRacy(k, r) ==
    /\ Claimable(entries[k])
    /\ entries[k].request = r
    /\ LockShard(k)
    /\ nextGen \notin {0, GenerationMax}
    /\ LET racing == {j \in Key : at[j] = "allocated"}
       IN  IF racing = {}
           THEN /\ heldGen' = [heldGen EXCEPT ![k] = nextGen]
                /\ nextGen' = nextGen + 1
           ELSE /\ heldGen' = [heldGen EXCEPT ![k] = heldGen[CHOOSE j \in racing : TRUE]]
                /\ UNCHANGED nextGen
    /\ at' = [at EXCEPT ![k] = "allocated"]
    /\ UNCHANGED <<entries, entryCount>>

AllocateGeneration(k, r) ==
    /\ Claimable(entries[k])
    /\ entries[k].request = r
    /\ LockShard(k)
    /\ nextGen \notin {0, GenerationMax}
    /\ heldGen' = [heldGen EXCEPT ![k] = nextGen]
    /\ nextGen' = nextGen + 1
    /\ at' = [at EXCEPT ![k] = "allocated"]
    /\ UNCHANGED <<entries, entryCount>>

StoreClaim(k) ==
    /\ at[k] = "allocated"
    /\ entries' = [entries EXCEPT
            ![k] = PushEvent([@ EXCEPT !.dispatch = "started",
                                       !.inhibited = FALSE,
                                       !.generation = heldGen[k]],
                             "SpawnClaimed")]
    /\ at' = [at EXCEPT ![k] = "free"]
    /\ heldGen' = [heldGen EXCEPT ![k] = 0]
    /\ UNCHANGED <<entryCount, nextGen, poisoned, stragglers>>

RecordPid(k, g, p) ==
    /\ entries[k].dispatch = "started"
    /\ entries[k].generation = g
    /\ entries[k].pid = None
    /\ SetEntry(k, PushEvent([entries[k] EXCEPT !.pid = p], "PidObserved"))

(***************************************************************************)
(* The cancellation flag is shared: a holder of the signal sets it without *)
(* the shard and without an event (CancellationSignal::cancel), and        *)
(* request_cancel records an event only when it is the first to set it.    *)
(***************************************************************************)
SignalCancel(k) ==
    /\ Present(k)
    /\ ~entries[k].cancelled
    /\ entries' = [entries EXCEPT ![k].cancelled = TRUE]
    /\ UNCHANGED <<at, heldGen, entryCount, nextGen, poisoned, stragglers>>

RequestCancel(k) ==
    /\ Present(k)
    /\ ~entries[k].cancelled
    /\ SetEntry(k, PushEvent([entries[k] EXCEPT !.cancelled = TRUE],
                             "CancelRequested"))

\* Mutant: a lost connection does not fence an accepted call.
MarkConnectionLostUnfenced(k) ==
    /\ Present(k)
    /\ ~entries[k].lost
    /\ SetEntry(k, PushEvent([entries[k] EXCEPT !.lost = TRUE],
                             "ConnectionLost"))

MarkConnectionLost(k) ==
    /\ Present(k)
    /\ ~entries[k].lost
    /\ SetEntry(k, PushEvent(
            [entries[k] EXCEPT !.lost = TRUE,
                               !.inhibited = @ \/ entries[k].dispatch = "accepted"],
            "ConnectionLost"))

MarkConnectionAttached(k) ==
    /\ Present(k)
    /\ entries[k].lost
    /\ SetEntry(k, PushEvent([entries[k] EXCEPT !.lost = FALSE],
                             "ConnectionAttached"))

Complete(k, g, t) ==
    /\ entries[k].dispatch = "started"
    /\ entries[k].generation = g
    /\ SetEntry(k, PushEvent([entries[k] EXCEPT !.dispatch = "terminal",
                                                !.terminal = t],
                             "TerminalRecorded"))

RemoveTerminal(k) ==
    /\ entries[k].dispatch = "terminal"
    /\ LockShard(k)
    /\ DropEntry(k)

\* A panic while the shard's mutex is held by code outside these operations.
PoisonShard(k) ==
    /\ at[k] = "free"
    /\ poisoned = {}
    /\ poisoned' = {k}
    /\ stragglers' \in 0..MaxStragglers
    /\ UNCHANGED <<entries, at, heldGen, entryCount, nextGen>>

RegistryNext ==
    \E k \in Key :
        \/ ReserveEntry(k)
        \/ \E r \in Request : InsertEntry(k, r)
        \/ ReleaseEntry(k)
        \/ \E r \in Request : RollbackAccept(k, r)
        \/ RollbackRemove(k)
        \/ InhibitSpawn(k)
        \/ \E r \in Request : AllocateGeneration(k, r)
        \/ StoreClaim(k)
        \/ \E g \in 1..GenerationMax, p \in Pid : RecordPid(k, g, p)
        \/ SignalCancel(k)
        \/ RequestCancel(k)
        \/ MarkConnectionLost(k)
        \/ MarkConnectionAttached(k)
        \/ \E g \in 1..GenerationMax, t \in Terminal : Complete(k, g, t)
        \/ RemoveTerminal(k)
        \/ PoisonShard(k)

RegistrySpec == RegistryInit /\ [][RegistryNext]_registryVars

-----------------------------------------------------------------------------

\* The types of the registry's state: counters within their limits, no more
\* events per call than max_history_per_call (push_event).
TypeOK ==
    /\ entries \in [Key -> Entry]
    /\ \A k \in Key : Len(entries[k].history) <= MaxHistory
    /\ at \in [Key -> {"free", "reserved", "allocated", "checked", "removed"}]
    /\ heldGen \in [Key -> 0..GenerationMax]
    /\ entryCount \in 0..MaxEntries
    /\ nextGen \in 1..GenerationMax
    /\ poisoned \in SUBSET Key
    /\ stragglers \in 0..MaxStragglers

\* A key uses a slot while its entry is in the map, from the reservation that
\* precedes the insertion to the release that follows the removal.
Occupied == {k \in Key : Present(k) \/ at[k] \in {"reserved", "removed"}}

\* entry_count is moved without any lock that covers the maps, yet it always
\* counts exactly the slots in use, so that the registry never holds more than
\* max_entries calls and no slot is lost (reserve_entry, release_entry).
EntryAccounting ==
    /\ entryCount = Cardinality(Occupied)
    /\ Cardinality({k \in Key : Present(k)}) <= MaxEntries

\* A generation identifies one spawn: no two calls, whether they are claiming,
\* running or finished, have the same one (claim_spawn, allocate_generation).
Owns(k, g) ==
    \/ at[k] = "allocated" /\ heldGen[k] = g
    \/ entries[k].dispatch \in {"started", "terminal"} /\ entries[k].generation = g

GenerationsDistinct ==
    \A j, k \in Key : j # k => \A g \in 1..GenerationMax : ~(Owns(j, g) /\ Owns(k, g))

NotStarted == {"CancelledBeforeSpawn", "ProvenNotStartedAfterDisconnect"}

\* A snapshot that reports a call as cancelled before spawn or as proven not
\* started is a promise: whatever happens next (reconnection, another claim,
\* rollback, removal) the call is never started and its entry stays to say so.
\* No claim and no rollback even begins on such a call.  (A snapshot is taken
\* under the shard: what a cancel sets in the middle of a claim or a rollback
\* nobody has been told.)
NotStartedStep ==
    \A k \in Key :
        at[k] = "free" /\ EffectiveState(entries[k]) \in NotStarted
            => at'[k] = "free" /\ EffectiveState(entries'[k]) \in NotStarted

NotStartedProofHolds == [][NotStartedStep]_registryVars

\* An entry that something has happened to since its acceptance: a fence, a
\* lost connection, a recorded event, a claim under way, or a cancellation that
\* was there when the shard was taken.
Touched(k) ==
    \/ entries[k].inhibited
    \/ entries[k].lost
    \/ Len(entries[k].history) > 1
    \/ at[k] = "allocated"
    \/ at[k] = "free" /\ entries[k].cancelled

\* A dispatch never goes back: a started call keeps its generation and its pid
\* until it is terminal, and a terminal record never changes; only a terminal
\* call, or an accepted one that nothing has happened to, leaves the registry
\* (complete, record_pid, rollback_accept, remove_terminal).  For a call that
\* something has happened to no rollback gets past its check; the one thing that
\* can still happen after the check is a cancel through the shared flag, which
\* takes no lock: it goes away with the entry.
DispatchStep ==
    \A k \in Key :
        LET e == entries[k]
            f == entries'[k]
        IN  /\ e.dispatch = "accepted" /\ Touched(k)
                 => f.dispatch # "absent" /\ at'[k] # "checked"
            /\ e.dispatch = "started"
                 => /\ f.dispatch \in {"started", "terminal"}
                    /\ f.generation = e.generation
                    /\ e.pid # None => f.pid = e.pid
            /\ e.dispatch = "terminal"
                 => \/ f.dispatch = "absent"
                    \/ /\ f.dispatch = "terminal"
                       /\ f.generation = e.generation
                       /\ f.terminal = e.terminal

DispatchNeverRegresses == [][DispatchStep]_registryVars

(***************************************************************************)
(* The inductive invariant behind the properties.                          *)
(***************************************************************************)

\* A lost connection fences an accepted call for good: reattaching clears the
\* flag but not the fence.
LostIsFenced ==
    \A k \in Key : entries[k].dispatch = "accepted" /\ entries[k].lost
                       => entries[k].inhibited

\* While a shard is held in the middle of an operation, nobody else moves its
\* entry: a claim still finds an unfenced accepted call, a rollback what it has
\* checked up to the shared flag, an insertion no entry.
HeldShards ==
    \A k \in Key :
        /\ at[k] = "allocated"
             => /\ entries[k].dispatch = "accepted"
                /\ ~entries[k].inhibited
                /\ heldGen[k] \in 1..(nextGen - 1)
        /\ at[k] = "checked"
             => /\ entries[k].dispatch = "accepted"
                /\ ~entries[k].inhibited
                /\ ~entries[k].lost
                /\ Len(entries[k].history) = 1
        /\ at[k] \in {"reserved", "removed"} => ~Present(k)

\* Every generation in use has been allocated.
GenerationsAllocated ==
    \A k \in Key : entries[k].dispatch \in {"started", "terminal"}
                       => entries[k].generation \in 1..(nextGen - 1)

RegistryInv ==
    /\ TypeOK
    /\ LostIsFenced
    /\ HeldShards
    /\ GenerationsAllocated
    /\ GenerationsDistinct
    /\ entryCount = Cardinality(Occupied)
=============================================================================
