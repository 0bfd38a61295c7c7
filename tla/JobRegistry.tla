----------------------------- MODULE JobRegistry -----------------------------
(***************************************************************************)
(* The in-memory registry of jobs,                                         *)
(* crates/trillionnium-owner-open-job-registry/src/registry.rs.            *)
(*                                                                         *)
(* Each operation runs under the shard lock of its key and is one action.  *)
(* The two atomics the shards share, entry_count and                       *)
(* next_spawn_generation, are only moved inside such an operation, so      *)
(* taking them in the same step loses no interleaving of entries.  The     *)
(* bounded event history is kept as `touched': whether anything but the    *)
(* Accepted event was ever pushed, which is all an operation reads of it.  *)
(* Process ids, the pty flag, output numbers and byte counts are left out: *)
(* no transition depends on them.  A poisoned shard is not modelled, nor   *)
(* remove_terminal, which nothing in the product calls.                    *)
(***************************************************************************)
EXTENDS Naturals, FiniteSets

CONSTANTS
    Key,            \* job keys
    Request,        \* canonical job requests
    Attachment,     \* attachment ids
    None,
    MaxEntries,     \* limits.max_entries
    MaxAttachments, \* limits.max_attachments_per_job
    GenerationMax   \* stands for u64::MAX

ASSUME RegistryAssumption ==
    /\ None \notin Request
    /\ MaxEntries \in Nat \ {0}
    /\ MaxAttachments \in Nat \ {0}
    /\ GenerationMax \in Nat \ {0}

VARIABLES
    entry,    \* entry[k]: the entry of key k
    nextGen   \* next_spawn_generation

jobRegistryVars == <<entry, nextGen>>

Dispatch == {"absent", "accepted", "claimed", "running", "terminal"}

\* `uncertain' is spawn_inhibited of Accepted and restart_uncertain of Claimed
\* and Running; `generation' is 0 before the claim.
Entry == [dispatch : Dispatch, request : Request \cup {None},
          uncertain : BOOLEAN, generation : 0..GenerationMax,
          stdinClosed : BOOLEAN, killRequested : BOOLEAN,
          attachments : SUBSET Attachment, touched : BOOLEAN]

Absent == [dispatch |-> "absent", request |-> None, uncertain |-> FALSE,
           generation |-> 0, stdinClosed |-> FALSE, killRequested |-> FALSE,
           attachments |-> {}, touched |-> FALSE]

\* The spawn generations may be used up by the claims of other jobs.
JobRegistryInit ==
    /\ entry = [k \in Key |-> Absent]
    /\ nextGen \in {1, GenerationMax}

Present(k) == entry[k].dispatch # "absent"
EntryCount == Cardinality({k \in Key : Present(k)})

\* Every change but the first one leaves a trace in the history.
Mutate(k, e) == entry' = [entry EXCEPT ![k] = [e EXCEPT !.touched = TRUE]]

Accept(k, r) ==
    /\ ~Present(k)
    /\ EntryCount < MaxEntries
    /\ entry' = [entry EXCEPT ![k] = [Absent EXCEPT !.dispatch = "accepted",
                                                    !.request = r]]
    /\ UNCHANGED nextGen

Rollbackable(e) ==
    e.dispatch = "accepted" /\ ~e.uncertain /\ ~e.touched

\* rollback_accept answers Ok(false) for a missing entry and refuses any other
\* one it cannot prove untouched.
CanRollback(k, r) ==
    Present(k) => entry[k].request = r /\ Rollbackable(entry[k])

RollbackAccept(k, r) ==
    /\ CanRollback(k, r)
    /\ entry' = [entry EXCEPT ![k] = Absent]
    /\ UNCHANGED nextGen

Claimable(e) == e.dispatch = "accepted" /\ ~e.uncertain

GenerationsLeft == nextGen \notin {0, GenerationMax}

\* The grant of claim_spawn, and its record_started.
ClaimSpawn(k) ==
    /\ Claimable(entry[k])
    /\ GenerationsLeft
    /\ Mutate(k, [entry[k] EXCEPT !.dispatch = "claimed", !.generation = nextGen])
    /\ nextGen' = nextGen + 1

RecordStarted(k) ==
    /\ entry[k].dispatch = "claimed"
    /\ ~entry[k].uncertain
    /\ Mutate(k, [entry[k] EXCEPT !.dispatch = "running"])
    /\ UNCHANGED nextGen

Live(e) == e.dispatch = "running" /\ ~e.uncertain

\* record_output and record_resize only add to the history.
RecordLive(k) ==
    /\ Live(entry[k])
    /\ Mutate(k, entry[k])
    /\ UNCHANGED nextGen

RecordInput(k) ==
    /\ Live(entry[k])
    /\ ~entry[k].stdinClosed
    /\ Mutate(k, entry[k])
    /\ UNCHANGED nextGen

CloseStdin(k) ==
    /\ Live(entry[k])
    /\ Mutate(k, [entry[k] EXCEPT !.stdinClosed = TRUE])
    /\ UNCHANGED nextGen

RequestKill(k) ==
    /\ Live(entry[k])
    /\ Mutate(k, [entry[k] EXCEPT !.killRequested = TRUE])
    /\ UNCHANGED nextGen

Attach(k, a) ==
    /\ Present(k)
    /\ a \notin entry[k].attachments
    /\ Cardinality(entry[k].attachments) < MaxAttachments
    /\ Mutate(k, [entry[k] EXCEPT !.attachments = @ \cup {a}])
    /\ UNCHANGED nextGen

Detach(k, a) ==
    /\ Present(k)
    /\ a \in entry[k].attachments
    /\ Mutate(k, [entry[k] EXCEPT !.attachments = @ \ {a}])
    /\ UNCHANGED nextGen

\* mark_restart_uncertain fences whatever is not terminal.  On a missing entry
\* it is an error the callers ignore or have excluded.
MarkRestartUncertain(k) ==
    /\ IF entry[k].dispatch \in {"accepted", "claimed", "running"} /\ ~entry[k].uncertain
       THEN Mutate(k, [entry[k] EXCEPT !.uncertain = TRUE])
       ELSE UNCHANGED entry
    /\ UNCHANGED nextGen

\* complete accepts an uncertain running entry: the process truth wins.
Completable(k) == entry[k].dispatch = "running"

Complete(k) ==
    /\ Completable(k)
    /\ Mutate(k, [entry[k] EXCEPT !.dispatch = "terminal", !.uncertain = FALSE])
    /\ UNCHANGED nextGen

\* JobEffectiveState::ProvenNotStartedAfterRestart: the public snapshot says
\* that no process was ever started for this key.
ProvenNotStarted(k) == entry[k].dispatch = "accepted" /\ entry[k].uncertain
=============================================================================
