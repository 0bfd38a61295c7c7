----------------------------- MODULE JobJournal -----------------------------
(***************************************************************************)
(* The operation journal of jobs,                                          *)
(* crates/trillionnium-owner-open-job-runtime/src/journal.rs, over an      *)
(* append-only event store.                                                *)
(*                                                                         *)
(* A journal operation holds the shard of its key from its first look at   *)
(* the state to its commit, but not the state mutex while it appends.  It  *)
(* is two steps here: the look and the append, then the commit, which sees *)
(* a store that a sibling key may have disabled in between.  A failed      *)
(* append leaves the record on disk or not (an ambiguous fsync) and        *)
(* disables the store for the rest of the process.                         *)
(*                                                                         *)
(* Observations carry nothing that recovery needs once the start of their  *)
(* job is on disk, and none is written before: they are kept out of `disk' *)
(* and only their failures are modelled.  `disk' is what all_records       *)
(* returns after a restart, per key.                                       *)
(***************************************************************************)
EXTENDS JobRegistry, Sequences

CONSTANTS
    Operation,   \* operation ids
    Content,     \* operation kind and digest
    Journals     \* how the host may start: "open", or "none" (memory_only)

\* What a terminal record says of its operation.
Outcome == {"started", "spawn_failed", "internal_failure", "applied", "control_failed"}

ASSUME JournalAssumption ==
    /\ Journals \subseteq {"open", "none"}
    /\ None \notin Content \cup Operation \cup Outcome

VARIABLES
    store,   \* state.store: "open", "lost" (None, configured) or "none"
    ops,     \* ops[k][o]: state.operations
    jobs,    \* jobs[k]: state.jobs
    disk     \* disk[k]: the durable records of job k, in append order

jobJournalVars == <<store, ops, jobs, disk>>

OperationState ==
    [known : BOOLEAN, request : Request \cup {None}, content : Content \cup {None},
     terminal : Outcome \cup {None}, preexisting : BOOLEAN]

JobState ==
    [known : BOOLEAN, request : Request \cup {None},
     startResult : Outcome \cup {None}, terminal : BOOLEAN]

NoOperation == [known |-> FALSE, request |-> None, content |-> None,
                terminal |-> None, preexisting |-> FALSE]
NoJob == [known |-> FALSE, request |-> None, startResult |-> None, terminal |-> FALSE]

Record ==
    [record : {"operation.accepted", "operation.terminal", "job.terminal"},
     op : Operation \cup {None}, request : Request, content : Content \cup {None},
     start : BOOLEAN, result : Outcome \cup {None}]

AcceptedRecord(r, o, c, start) ==
    [record |-> "operation.accepted", op |-> o, request |-> r, content |-> c,
     start |-> start, result |-> None]

TerminalRecord(r, o, c, start, result) ==
    [record |-> "operation.terminal", op |-> o, request |-> r, content |-> c,
     start |-> start, result |-> result]

JobTerminalRecord(r) ==
    [record |-> "job.terminal", op |-> None, request |-> r, content |-> None,
     start |-> FALSE, result |-> None]

(***************************************************************************)
(* recover: what it accepts, and what it rebuilds.                         *)
(***************************************************************************)
SameOperation(a, b) == a.op = b.op /\ a.content = b.content /\ a.start = b.start

Recoverable(log) ==
    \A i \in DOMAIN log :
        /\ \A j \in DOMAIN log : log[j].request = log[i].request
        /\ \A j \in DOMAIN log : j < i /\ log[j].record = log[i].record
                                    => log[j].op # log[i].op
        /\ log[i].record = "operation.terminal" =>
               \E j \in DOMAIN log :
                   /\ j < i
                   /\ log[j].record = "operation.accepted"
                   /\ SameOperation(log[i], log[j])

Logged(log, record, o) ==
    \E i \in DOMAIN log : log[i].record = record /\ log[i].op = o

RecordOf(log, record, o) ==
    log[CHOOSE i \in DOMAIN log : log[i].record = record /\ log[i].op = o]

RecoveredOperation(log, o) ==
    IF Logged(log, "operation.accepted", o)
    THEN LET a == RecordOf(log, "operation.accepted", o) IN
         [known |-> TRUE, request |-> a.request, content |-> a.content,
          terminal |-> IF Logged(log, "operation.terminal", o)
                       THEN RecordOf(log, "operation.terminal", o).result
                       ELSE None,
          preexisting |-> TRUE]
    ELSE NoOperation

\* A job is known from its accepted start or from its terminal.
RecoveredJob(log) ==
    LET mine == {i \in DOMAIN log : log[i].start \/ log[i].record = "job.terminal"}
        ends == {i \in mine : log[i].record = "operation.terminal"}
    IN  IF mine = {} THEN NoJob
        ELSE [known |-> TRUE,
              request |-> log[CHOOSE i \in mine : TRUE].request,
              startResult |-> IF ends = {} THEN None
                              ELSE log[CHOOSE i \in ends : TRUE].result,
              terminal |-> Logged(log, "job.terminal", None)]

\* A journal path was given.
Configured == store # "none"

JobJournalInit ==
    /\ store \in Journals
    /\ ops = [k \in Key |-> [o \in Operation |-> NoOperation]]
    /\ jobs = [k \in Key |-> NoJob]
    /\ disk = [k \in Key |-> <<>>]

\* A new process opens the journal.  The open or the recovery of a configured
\* one may fail: it is then Unavailable and remembers nothing.
Reopen(opened) ==
    /\ store' = IF ~Configured THEN "none" ELSE IF opened THEN "open" ELSE "lost"
    /\ IF Configured /\ opened
       THEN /\ ops' = [k \in Key |-> [o \in Operation |-> RecoveredOperation(disk[k], o)]]
            /\ jobs' = [k \in Key |-> RecoveredJob(disk[k])]
       ELSE /\ ops' = [k \in Key |-> [o \in Operation |-> NoOperation]]
            /\ jobs' = [k \in Key |-> NoJob]
    /\ UNCHANGED disk

Status == IF store = "open" THEN "Durable" ELSE IF Configured THEN "Unavailable" ELSE "MemoryOnly"

(***************************************************************************)
(* begin_operation                                                         *)
(***************************************************************************)
RequestClash(k, r) ==
    \/ jobs[k].known /\ jobs[k].request # r
    \/ \E o \in Operation : ops[k][o].known /\ ops[k][o].request # r

\* What the first look answers; "Append" goes on to the store.
BeginAnswer(k, r, o, c, start) ==
    IF RequestClash(k, r) THEN "Conflict"
    ELSE IF ops[k][o].known
    THEN IF ops[k][o].content # c THEN "Conflict"
         ELSE IF ops[k][o].terminal # None THEN "ExistingTerminal"
         ELSE IF ops[k][o].preexisting THEN "Uncertain" ELSE "Existing"
    ELSE IF start /\ jobs[k].known
    THEN IF jobs[k].startResult # None THEN "Uncertain" ELSE "Existing"
    ELSE IF store = "open" THEN "Append" ELSE "Unjournaled"

Remember(k, r, o, c, start, preexisting) ==
    /\ ops' = [ops EXCEPT ![k][o] =
                 [known |-> TRUE, request |-> r, content |-> c,
                  terminal |-> None, preexisting |-> preexisting]]
    /\ jobs' = IF start
               THEN [jobs EXCEPT ![k] = [known |-> TRUE, request |-> r,
                                         startResult |-> None, terminal |-> FALSE]]
               ELSE jobs

AcceptUnjournaled(k, r, o, c, start) ==
    /\ Remember(k, r, o, c, start, FALSE)
    /\ UNCHANGED <<store, disk>>

\* append_envelope succeeds: the record is on disk, the state is not changed.
AppendSucceeds(k, rec) ==
    /\ disk' = [disk EXCEPT ![k] = Append(@, rec)]
    /\ UNCHANGED <<store, ops, jobs>>

\* It fails and disable() forgets the store.
AppendFails(k, rec) ==
    /\ store' = "lost"
    /\ \/ UNCHANGED disk
       \/ disk' = [disk EXCEPT ![k] = Append(@, rec)]

\* The append is committed; one that lost its store meanwhile is uncertain.
CommitAccepted(k, r, o, c, start) ==
    /\ Remember(k, r, o, c, start, store # "open")
    /\ UNCHANGED <<store, disk>>

(***************************************************************************)
(* complete_operation                                                      *)
(***************************************************************************)
CompleteAnswer(k, r, o, c, result) ==
    IF RequestClash(k, r) \/ ops[k][o].content # c THEN "Conflict"
    ELSE IF ops[k][o].terminal # None
    THEN IF ops[k][o].terminal = result THEN "Ok" ELSE "Conflict"
    ELSE IF store = "open" THEN "Append"
    ELSE IF Configured THEN "Lost" ELSE "Memory"

MarkOperationUncertain(k, o) == ops' = [ops EXCEPT ![k][o].preexisting = TRUE]

\* Mutant: the start result does not reach the job.
CommitOperationOnly(k, o, start, result) ==
    /\ ops' = [ops EXCEPT ![k][o].terminal = result]
    /\ UNCHANGED <<store, jobs, disk>>

CommitTerminal(k, o, start, result) ==
    /\ ops' = [ops EXCEPT ![k][o].terminal = result]
    /\ jobs' = IF start /\ jobs[k].known
               THEN [jobs EXCEPT ![k].startResult = result] ELSE jobs
    /\ UNCHANGED <<store, disk>>

=============================================================================
