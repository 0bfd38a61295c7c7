----------------------------- MODULE JobManager -----------------------------
(***************************************************************************)
(* JobManager, crates/trillionnium-owner-open-job-runtime/src/manager.rs:  *)
(* concurrent start and control calls, the dispatcher thread of each job,  *)
(* and the crash and restart of the whole process, over one JobRegistry    *)
(* and one JobJournal.                                                     *)
(*                                                                         *)
(* A caller is one thread inside start (a Starter) or inside write,        *)
(* resize, close_stdin or kill (a Controller); pc is the statement it is   *)
(* about to execute.  The start shard, the lifecycle mutex and the journal *)
(* shard of a key are held exactly while some pc is between their lock and *)
(* unlock, so they are derived from pc and need no variables.  After a     *)
(* restart every caller may come back with the same request.               *)
(***************************************************************************)
EXTENDS JobJournal

CONSTANTS
    Starter, Controller,
    KeyOf,       \* KeyOf[t]: the job key a caller names
    RequestOf,   \* RequestOf[s]: the job request of a starter
    OperationOf, \* OperationOf[t]: its operation id
    ContentOf,   \* ContentOf[t]: operation kind and digest
    KindOf,      \* KindOf[c]: which control
    SignalsFail, \* whether a SIGKILL may fail (identity changed, EPERM)
    Allow,       \* config.allow_unjournaled_effects
    MaxJobs,     \* config.max_jobs
    MaxRestarts  \* bound: process crashes explored

Thread == Starter \cup Controller

ASSUME ManagerAssumption ==
    /\ Starter \cap Controller = {}
    /\ None \notin {"Started", "ExistingTerminal", "Applied"}
    /\ KeyOf \in [Thread -> Key]
    /\ RequestOf \in [Starter -> Request]
    /\ OperationOf \in [Thread -> Operation]
    /\ ContentOf \in [Thread -> Content]
    /\ KindOf \in [Controller -> {"write", "resize", "close_stdin", "kill"}]
    /\ SignalsFail \in BOOLEAN
    /\ Allow \in BOOLEAN
    /\ MaxJobs \in Nat \ {0}
    /\ MaxRestarts \in Nat

VARIABLES
    pc,         \* pc[t]
    want,       \* want[t]: the terminal t is recording for its operation
    seen,       \* seen[s]: the journal status start read in its preflight
    permit,     \* permit[s]: start holds an AdmissionPermit of its own
    result,     \* result[t]: what the call returned
    running,    \* keys of the running map
    gate,       \* gate[k]: the StartupGate of the job's RunningJob
    dispatcher, \* dispatcher[k]: its dispatcher thread
    process,    \* process[k]: "none", "live", "dying" (SIGKILL sent), "exited"
    latched,    \* durability_error is set
    restarts,   \* restarts so far
    spawned,    \* history: processes ever started for each job
    applied     \* history: applied[k][o], controls that reached the process

callVars == <<pc, want, seen, permit, result>>
jobVars == <<running, gate, dispatcher, process>>
historyVars == <<spawned, applied>>
vars == <<jobRegistryVars, jobJournalVars, callVars, jobVars, latched,
          restarts, historyVars>>

ManagerInit ==
    /\ JobRegistryInit
    /\ JobJournalInit
    /\ pc = [t \in Thread |-> "idle"]
    /\ want = [t \in Thread |-> None]
    /\ seen = [s \in Starter |-> None]
    /\ permit = [s \in Starter |-> FALSE]
    /\ result = [t \in Thread |-> None]
    /\ running = {}
    /\ gate = [k \in Key |-> None]
    /\ dispatcher = [k \in Key |-> "none"]
    /\ process = [k \in Key |-> "none"]
    /\ latched = FALSE
    /\ restarts = 0
    /\ spawned = [k \in Key |-> 0]
    /\ applied = [k \in Key |-> [o \in Operation |-> 0]]

(***************************************************************************)
(* Locks and shared ownership, read off the program counters.              *)
(***************************************************************************)
StarterOf(k) == {s \in Starter : KeyOf[s] = k}
ControllerOf(k) == {c \in Controller : KeyOf[c] = k}

StartShardFree(k) == \A s \in StarterOf(k) : pc[s] \in {"idle", "done"}

JournalShardFree(k) ==
    /\ \A t \in StarterOf(k) \cup ControllerOf(k) : pc[t] \notin {"commit", "finished"}
    /\ dispatcher[k] # "commit"

LifecycleFree(k) ==
    /\ \A c \in ControllerOf(k) : pc[c] \in {"idle", "gate", "lock", "done"}
    /\ dispatcher[k] \notin {"complete", "append", "commit", "remove"}

\* The RunningJob, and the AdmissionPermit in it, lives as long as the map, the
\* dispatcher, the start call or a control refers to it.
RunningJobAlive(k) ==
    \/ k \in running
    \/ dispatcher[k] \notin {"none", "gone"}
    \/ \E s \in StarterOf(k) :
          /\ pc[s] \in {"observe", "finish", "finished", "dispatch", "ready", "abort", "fence"}
          /\ ~permit[s]
    \/ \E c \in ControllerOf(k) : pc[c] \notin {"idle", "done"}

\* admission.active
AdmissionActive ==
    Cardinality({s \in Starter : permit[s]}) + Cardinality({k \in Key : RunningJobAlive(k)})

Goto(t, from, to) ==
    /\ pc[t] = from
    /\ pc' = [pc EXCEPT ![t] = to]

Return(t, from, value) ==
    /\ Goto(t, from, "done")
    /\ result' = [result EXCEPT ![t] = value]

\* A return that drops the permit start still owns.
ReturnPermit(s, from, value) ==
    /\ Return(s, from, value)
    /\ permit' = [permit EXCEPT ![s] = FALSE]

\* A SIGKILL of the process group.  Its errors are only reported.
Kill(k) ==
    \/ process' = [process EXCEPT ![k] = IF @ = "live" THEN "dying" ELSE @]
    \/ SignalsFail /\ UNCHANGED process

FailGate(k) == gate' = [gate EXCEPT ![k] = IF @ = "pending" THEN "failed" ELSE @]

\* push_runtime_event: a failed append disables the store and latches the
\* manager; the resident event is kept either way.
ObservationKept == store \in {"open", "none"} /\ UNCHANGED <<store, latched>>
ObservationLost == Configured /\ store' = "lost" /\ latched' = TRUE

(***************************************************************************)
(* start, up to its durable acceptance                                     *)
(***************************************************************************)
EnterStart(s) ==
    /\ StartShardFree(KeyOf[s])
    /\ Goto(s, "idle", "live")
    /\ UNCHANGED <<jobRegistryVars, jobJournalVars, want, seen, permit, result,
                   jobVars, latched, restarts, historyVars>>

\* The running map is looked at first: a live child outranks the journal.
CheckLive(s) ==
    LET k == KeyOf[s] IN
    /\ IF k \notin running
       THEN Goto(s, "live", "recovered") /\ UNCHANGED result
       ELSE IF entry[k].request # RequestOf[s]
       THEN Return(s, "live", "Conflict")
       ELSE Goto(s, "live", "gate") /\ UNCHANGED result
    /\ UNCHANGED <<jobRegistryVars, jobJournalVars, want, seen, permit, jobVars,
                   latched, restarts, historyVars>>

\* startup.wait() of a duplicate start.
JoinLive(s) ==
    LET k == KeyOf[s] IN
    /\ gate[k] # "pending"
    /\ Return(s, "gate", CASE gate[k] = "ready"    -> "ExistingLive"
                           [] gate[k] = "failed"   -> "Err"
                           [] gate[k] = "terminal" -> "NotLive")
    /\ UNCHANGED <<jobRegistryVars, jobJournalVars, want, seen, permit, jobVars,
                   latched, restarts, historyVars>>

\* recovered_job: a job the journal knows is answered from it, and whatever the
\* registry holds for it is fenced.
CheckRecovered(s) ==
    LET k == KeyOf[s] IN
    /\ JournalShardFree(k)
    /\ IF ~jobs[k].known
       THEN Goto(s, "recovered", "preflight") /\ UNCHANGED <<result, jobRegistryVars>>
       ELSE IF jobs[k].request # RequestOf[s]
       THEN Return(s, "recovered", "Conflict") /\ UNCHANGED jobRegistryVars
       ELSE /\ MarkRestartUncertain(k)
            /\ Return(s, "recovered",
                      IF jobs[k].terminal THEN "ExistingTerminal" ELSE "Unknown")
    /\ UNCHANGED <<jobJournalVars, want, seen, permit, jobVars, latched,
                   restarts, historyVars>>

\* Mutant: no fail-closed preflight.
PreflightOpen(s) ==
    /\ seen' = [seen EXCEPT ![s] = Status]
    /\ Goto(s, "preflight", "admit")
    /\ UNCHANGED <<jobRegistryVars, jobJournalVars, want, permit, result, jobVars,
                   latched, restarts, historyVars>>

\* The journal status is read once here and acted on after registry.begin.
Preflight(s) ==
    LET k == KeyOf[s] IN
    /\ seen' = [seen EXCEPT ![s] = Status]
    /\ IF ~Allow /\ Status # "Durable"
       THEN MarkRestartUncertain(k) /\ Return(s, "preflight", "Err")
       ELSE Goto(s, "preflight", "admit") /\ UNCHANGED <<jobRegistryVars, result>>
    /\ UNCHANGED <<jobJournalVars, want, permit, jobVars, latched, restarts,
                   historyVars>>

\* admission.try_acquire, for a key the registry does not know.
Admit(s) ==
    /\ IF Present(KeyOf[s])
       THEN Goto(s, "admit", "begin") /\ UNCHANGED <<permit, result>>
       ELSE IF AdmissionActive >= MaxJobs
       THEN Return(s, "admit", "Capacity") /\ UNCHANGED permit
       ELSE /\ Goto(s, "admit", "begin")
            /\ permit' = [permit EXCEPT ![s] = TRUE]
            /\ UNCHANGED result
    /\ UNCHANGED <<jobRegistryVars, jobJournalVars, want, seen, jobVars, latched,
                   restarts, historyVars>>

\* registry.begin.  An entry without an owned process is fenced, and so is a
\* new one when the preflight saw the journal unavailable.
BeginEntry(s) ==
    LET k == KeyOf[s] IN
    /\ IF ~Present(k)
       THEN IF EntryCount >= MaxEntries
            THEN ReturnPermit(s, "begin", "Err") /\ UNCHANGED jobRegistryVars
            ELSE /\ Accept(k, RequestOf[s])
                 /\ Goto(s, "begin", IF seen[s] = "Unavailable" THEN "unavailable"
                                                               ELSE "accept")
                 /\ UNCHANGED <<permit, result>>
       ELSE IF entry[k].request # RequestOf[s]
       THEN ReturnPermit(s, "begin", "Conflict") /\ UNCHANGED jobRegistryVars
       ELSE /\ MarkRestartUncertain(k)
            /\ ReturnPermit(s, "begin", IF entry[k].dispatch = "terminal"
                                        THEN "ExistingTerminal" ELSE "Unknown")
    /\ UNCHANGED <<jobJournalVars, want, seen, jobVars, latched, restarts,
                   historyVars>>

FenceUnavailable(s) ==
    /\ MarkRestartUncertain(KeyOf[s])
    /\ ReturnPermit(s, "unavailable", "Unknown")
    /\ UNCHANGED <<jobJournalVars, want, seen, jobVars, latched, restarts,
                   historyVars>>

StartAnswer(s) ==
    BeginAnswer(KeyOf[s], RequestOf[s], OperationOf[s], ContentOf[s], TRUE)

StartRecord(s) == AcceptedRecord(RequestOf[s], OperationOf[s], ContentOf[s], TRUE)

\* Mutant: an acceptance the journal does not hold is dispatched all the same.
AcceptStartAnyway(s) ==
    /\ JournalShardFree(KeyOf[s])
    /\ \/ /\ StartAnswer(s) = "Append"
          /\ AppendSucceeds(KeyOf[s], StartRecord(s))
          /\ Goto(s, "accept", "commit")
       \/ /\ StartAnswer(s) = "Unjournaled"
          /\ AcceptUnjournaled(KeyOf[s], RequestOf[s], OperationOf[s], ContentOf[s], TRUE)
          /\ Goto(s, "accept", "claim")
    /\ UNCHANGED <<jobRegistryVars, want, seen, permit, result, jobVars, latched,
                   restarts, historyVars>>

\* begin_operation("start"), the look and the append.  The other answers the
\* code handles cannot occur after CheckRecovered: the start shard is held since.
AcceptStart(s) ==
    LET k == KeyOf[s] IN
    /\ JournalShardFree(k)
    /\ \/ /\ StartAnswer(s) = "Append"
          /\ AppendSucceeds(k, StartRecord(s))
          /\ Goto(s, "accept", "commit")
          /\ UNCHANGED <<jobRegistryVars, permit, result, latched>>
       \/ /\ StartAnswer(s) = "Append"
          /\ AppendFails(k, StartRecord(s))
          /\ latched' = TRUE
          /\ Goto(s, "accept", "rollback")
          /\ UNCHANGED <<jobRegistryVars, permit, result, ops, jobs>>
       \/ /\ StartAnswer(s) = "Unjournaled"
          /\ AcceptUnjournaled(k, RequestOf[s], OperationOf[s], ContentOf[s], TRUE)
          /\ IF Status = "Unavailable"
             THEN /\ MarkRestartUncertain(k)
                  /\ ReturnPermit(s, "accept", IF Allow THEN "Unknown" ELSE "Err")
             ELSE /\ Goto(s, "accept", "claim")
                  /\ UNCHANGED <<jobRegistryVars, permit, result>>
          /\ UNCHANGED latched
    /\ UNCHANGED <<want, seen, jobVars, restarts, historyVars>>

\* Its commit.  A store a sibling lost meanwhile means no dispatch.
CommitStart(s) ==
    LET k == KeyOf[s] IN
    /\ CommitAccepted(k, RequestOf[s], OperationOf[s], ContentOf[s], TRUE)
    /\ IF store = "open"
       THEN Goto(s, "commit", "claim") /\ UNCHANGED <<jobRegistryVars, permit, result>>
       ELSE /\ MarkRestartUncertain(k)
            /\ ReturnPermit(s, "commit", "Unknown")
    /\ UNCHANGED <<want, seen, jobVars, latched, restarts, historyVars>>

\* Mutant: an acceptance that cannot be rolled back is left as it is.
RollbackOrLeave(s) ==
    LET k == KeyOf[s] IN
    /\ IF CanRollback(k, RequestOf[s])
       THEN RollbackAccept(k, RequestOf[s])
       ELSE UNCHANGED jobRegistryVars
    /\ ReturnPermit(s, "rollback", "Err")
    /\ UNCHANGED <<jobJournalVars, want, seen, jobVars, latched, restarts,
                   historyVars>>

\* An acceptance the journal refused: removed if untouched, else fenced.
RollbackStart(s) ==
    LET k == KeyOf[s] IN
    /\ IF CanRollback(k, RequestOf[s])
       THEN RollbackAccept(k, RequestOf[s])
       ELSE MarkRestartUncertain(k)
    /\ ReturnPermit(s, "rollback", "Err")
    /\ UNCHANGED <<jobJournalVars, want, seen, jobVars, latched, restarts,
                   historyVars>>

(***************************************************************************)
(* start, from the claim on                                                *)
(***************************************************************************)

\* A claim without a generation left is resolved as a spawn that never was.
Claim(s) ==
    LET k == KeyOf[s] IN
    /\ IF GenerationsLeft
       THEN ClaimSpawn(k) /\ Goto(s, "claim", "spawn") /\ UNCHANGED want
       ELSE /\ Goto(s, "claim", "finish")
            /\ want' = [want EXCEPT ![s] = "spawn_failed"]
            /\ UNCHANGED jobRegistryVars
    /\ UNCHANGED <<jobJournalVars, seen, permit, result, jobVars, latched,
                   restarts, historyVars>>

\* spawn_process: it starts a child, fails before the fork, or fails after it
\* (SpawnAfterFork), when its guard kills what was forked.
Spawn(s) ==
    LET k == KeyOf[s] IN
    /\ \/ /\ process' = [process EXCEPT ![k] = "live"]
          /\ spawned' = [spawned EXCEPT ![k] = @ + 1]
          /\ Goto(s, "spawn", "publish")
          /\ UNCHANGED want
       \/ /\ process' = [process EXCEPT ![k] = "dying"]
          /\ spawned' = [spawned EXCEPT ![k] = @ + 1]
          /\ Goto(s, "spawn", "finish")
          /\ want' = [want EXCEPT ![s] = "internal_failure"]
       \/ /\ Goto(s, "spawn", "finish")
          /\ want' = [want EXCEPT ![s] = "spawn_failed"]
          /\ UNCHANGED <<process, spawned>>
    /\ UNCHANGED <<jobRegistryVars, jobJournalVars, seen, permit, result, running,
                   gate, dispatcher, latched, restarts, applied>>

\* record_started, then the RunningJob enters the map with its gate shut and
\* takes the permit.  record_started cannot fail: the claim is this call's.
Publish(s) ==
    LET k == KeyOf[s] IN
    /\ RecordStarted(k)
    /\ running' = running \cup {k}
    /\ gate' = [gate EXCEPT ![k] = "pending"]
    /\ permit' = [permit EXCEPT ![s] = FALSE]
    /\ Goto(s, "publish", "observe")
    /\ UNCHANGED <<jobJournalVars, want, seen, result, dispatcher, process,
                   latched, restarts, historyVars>>

\* The identity and started observations; two pushes of one shape.
ObserveStart(s) ==
    /\ JournalShardFree(KeyOf[s])
    /\ \/ /\ ObservationKept
          /\ Goto(s, "observe", "finish")
          /\ want' = [want EXCEPT ![s] = "started"]
       \/ /\ ObservationLost
          /\ Goto(s, "observe", IF Allow THEN "finish" ELSE "abort")
          /\ want' = [want EXCEPT ![s] = "started"]
    /\ UNCHANGED <<jobRegistryVars, ops, jobs, disk, seen, permit, result, jobVars,
                   restarts, historyVars>>

RequestFor(t) == IF t \in Starter THEN RequestOf[t] ELSE entry[KeyOf[t]].request

FinishAnswer(t) ==
    CompleteAnswer(KeyOf[t], RequestFor(t), OperationOf[t], ContentOf[t], want[t])

FinishRecord(t) ==
    TerminalRecord(RequestFor(t), OperationOf[t], ContentOf[t], t \in Starter, want[t])

\* complete_operation returned Ok.
Resolved(t, from) ==
    /\ IF t \in Starter
       THEN /\ Goto(t, from, IF want[t] = "started" THEN "dispatch" ELSE "fence")
            /\ UNCHANGED result
       ELSE Return(t, from, IF want[t] = "applied" THEN "Applied" ELSE "Err")
    /\ UNCHANGED <<jobRegistryVars, latched>>

\* Mutant: a control whose terminal record failed is reported applied.
UnresolvedIgnored(t, from) ==
    /\ IF t \in Starter
       THEN /\ Goto(t, from, IF want[t] = "started" THEN "abort" ELSE "fence")
            /\ UNCHANGED result
       ELSE Return(t, from, IF want[t] = "applied" THEN "Applied" ELSE "Err")
    /\ latched' = TRUE
    /\ UNCHANGED jobRegistryVars

\* It returned an error: the manager is latched.  A start that was started is
\* aborted; a control leaves its job uncertain.
Unresolved(t, from) ==
    /\ latched' = TRUE
    /\ IF t \in Starter
       THEN /\ Goto(t, from, IF want[t] = "started" THEN "abort" ELSE "fence")
            /\ UNCHANGED <<result, jobRegistryVars>>
       ELSE /\ MarkRestartUncertain(KeyOf[t])
            /\ Return(t, from, "Err")

\* complete_operation, the look and the append.
Finish(t) ==
    LET k == KeyOf[t] IN
    /\ JournalShardFree(k)
    /\ \/ /\ FinishAnswer(t) = "Append"
          /\ AppendSucceeds(k, FinishRecord(t))
          /\ Goto(t, "finish", "finished")
          /\ UNCHANGED <<jobRegistryVars, result, latched>>
       \/ /\ FinishAnswer(t) = "Append"
          /\ AppendFails(k, FinishRecord(t))
          /\ MarkOperationUncertain(k, OperationOf[t])
          /\ UNCHANGED jobs
          /\ Unresolved(t, "finish")
       \/ /\ FinishAnswer(t) = "Lost"
          /\ MarkOperationUncertain(k, OperationOf[t])
          /\ UNCHANGED <<store, jobs, disk>>
          /\ Unresolved(t, "finish")
       \/ /\ FinishAnswer(t) = "Conflict"
          /\ UNCHANGED jobJournalVars
          /\ Unresolved(t, "finish")
       \/ /\ FinishAnswer(t) = "Memory"
          /\ CommitTerminal(k, OperationOf[t], t \in Starter, want[t])
          /\ Resolved(t, "finish")
    /\ UNCHANGED <<want, seen, permit, jobVars, restarts, historyVars>>

\* Its commit.
CommitFinish(t) ==
    LET k == KeyOf[t] IN
    /\ IF store = "open"
       THEN /\ CommitTerminal(k, OperationOf[t], t \in Starter, want[t])
            /\ Resolved(t, "finished")
       ELSE /\ MarkOperationUncertain(k, OperationOf[t])
            /\ UNCHANGED <<store, jobs, disk>>
            /\ Unresolved(t, "finished")
    /\ UNCHANGED <<want, seen, permit, jobVars, restarts, historyVars>>

\* spawn_dispatcher; the thread may not be created.
StartDispatcher(s) ==
    LET k == KeyOf[s] IN
    /\ \/ /\ dispatcher' = [dispatcher EXCEPT ![k] = "run"]
          /\ Goto(s, "dispatch", "ready")
       \/ /\ Goto(s, "dispatch", "abort")
          /\ UNCHANGED dispatcher
    /\ UNCHANGED <<jobRegistryVars, jobJournalVars, want, seen, permit, result,
                   running, gate, process, latched, restarts, historyVars>>

\* startup.ready(): only a pending gate opens.
OpenGate(s) ==
    /\ gate' = [gate EXCEPT ![KeyOf[s]] = IF @ = "pending" THEN "ready" ELSE @]
    /\ Return(s, "ready", "Started")
    /\ UNCHANGED <<jobRegistryVars, jobJournalVars, want, seen, permit, running,
                   dispatcher, process, latched, restarts, historyVars>>

\* Mutant: the waiters of a failed start are never woken.
AbortSilently(s) ==
    LET k == KeyOf[s] IN
    /\ Kill(k)
    /\ running' = running \ {k}
    /\ want' = [want EXCEPT ![s] = "internal_failure"]
    /\ Goto(s, "abort", "finish")
    /\ UNCHANGED <<jobRegistryVars, jobJournalVars, seen, permit, result, gate,
                   dispatcher, latched, restarts, historyVars>>

\* Mutant: the child of a failed start is not killed.
AbortUnkilled(s) ==
    LET k == KeyOf[s] IN
    /\ FailGate(k)
    /\ running' = running \ {k}
    /\ want' = [want EXCEPT ![s] = "internal_failure"]
    /\ Goto(s, "abort", "finish")
    /\ UNCHANGED <<jobRegistryVars, jobJournalVars, seen, permit, result, process,
                   dispatcher, latched, restarts, historyVars>>

\* abort_started_job: waiters are woken, the child is killed and the job leaves
\* the map; then its operation is resolved and its entry fenced.
Abort(s) ==
    LET k == KeyOf[s] IN
    /\ FailGate(k)
    /\ Kill(k)
    /\ running' = running \ {k}
    /\ want' = [want EXCEPT ![s] = "internal_failure"]
    /\ Goto(s, "abort", "finish")
    /\ UNCHANGED <<jobRegistryVars, jobJournalVars, seen, permit, result,
                   dispatcher, latched, restarts, historyVars>>

FenceStart(s) ==
    /\ MarkRestartUncertain(KeyOf[s])
    /\ ReturnPermit(s, "fence", "Err")
    /\ UNCHANGED <<jobJournalVars, want, seen, jobVars, latched, restarts,
                   historyVars>>

(***************************************************************************)
(* write, resize, close_stdin and kill                                     *)
(***************************************************************************)

\* running_job: the map is read, then the gate is waited on without its lock.
Lookup(c) ==
    /\ IF KeyOf[c] \in running
       THEN Goto(c, "idle", "gate") /\ UNCHANGED result
       ELSE Return(c, "idle", "NotLive")
    /\ UNCHANGED <<jobRegistryVars, jobJournalVars, want, seen, permit, jobVars,
                   latched, restarts, historyVars>>

WaitGate(c) ==
    LET g == gate[KeyOf[c]] IN
    /\ \/ g = "ready" /\ Goto(c, "gate", "lock") /\ UNCHANGED result
       \/ g = "failed" /\ Return(c, "gate", "Err")
       \/ g = "terminal" /\ Return(c, "gate", "NotLive")
    /\ UNCHANGED <<jobRegistryVars, jobJournalVars, want, seen, permit, jobVars,
                   latched, restarts, historyVars>>

LockLifecycle(c) ==
    /\ LifecycleFree(KeyOf[c])
    /\ Goto(c, "lock", "check")
    /\ UNCHANGED <<jobRegistryVars, jobJournalVars, want, seen, permit, result,
                   jobVars, latched, restarts, historyVars>>

\* ensure_running_generation, then the two preflights of begin_control.
CheckRunning(c) ==
    LET e == entry[KeyOf[c]] IN
    /\ IF ~Live(e)
       THEN Return(c, "check", IF e.uncertain /\ e.dispatch # "accepted"
                               THEN "Unknown" ELSE "NotLive")
       ELSE IF ~Allow /\ (latched \/ Status # "Durable")
       THEN Return(c, "check", "Err")
       ELSE Goto(c, "check", "accept") /\ UNCHANGED result
    /\ UNCHANGED <<jobRegistryVars, jobJournalVars, want, seen, permit, jobVars,
                   latched, restarts, historyVars>>

\* kill tells the registry before it signals; the others act first.
FirstStep(c) == IF KindOf[c] = "kill" THEN "record" ELSE "effect"

ControlAnswer(c) ==
    BeginAnswer(KeyOf[c], RequestFor(c), OperationOf[c], ContentOf[c], FALSE)

ControlRecord(c) == AcceptedRecord(RequestFor(c), OperationOf[c], ContentOf[c], FALSE)

\* Mutant: an operation accepted earlier is taken for a new one.
AcceptControlAgain(c) ==
    LET k == KeyOf[c] IN
    /\ JournalShardFree(k)
    /\ ControlAnswer(c) # "Conflict"
    /\ IF store = "open" /\ ~ops[k][OperationOf[c]].known
       THEN AppendSucceeds(k, ControlRecord(c)) /\ Goto(c, "accept", "commit")
       ELSE UNCHANGED jobJournalVars /\ Goto(c, "accept", FirstStep(c))
    /\ UNCHANGED <<jobRegistryVars, want, seen, permit, result, jobVars, latched,
                   restarts, historyVars>>

\* begin_operation of a control.  Any error of it, a conflict included, latches
\* the manager.  The journal may be gone since the preflight.
AcceptControl(c) ==
    LET k == KeyOf[c]
        a == ControlAnswer(c)
    IN
    /\ JournalShardFree(k)
    /\ \/ /\ a = "Append"
          /\ AppendSucceeds(k, ControlRecord(c))
          /\ Goto(c, "accept", "commit")
          /\ UNCHANGED <<want, result, latched>>
       \/ /\ a = "Append"
          /\ AppendFails(k, ControlRecord(c))
          /\ latched' = TRUE
          /\ Return(c, "accept", "Err")
          /\ UNCHANGED <<ops, jobs, want>>
       \/ /\ a = "Unjournaled"
          /\ AcceptUnjournaled(k, RequestFor(c), OperationOf[c], ContentOf[c], FALSE)
          /\ Goto(c, "accept", IF Allow THEN FirstStep(c) ELSE "finish")
          /\ want' = [want EXCEPT ![c] = IF Allow THEN @ ELSE "control_failed"]
          /\ UNCHANGED <<result, latched>>
       \/ /\ a = "Conflict"
          /\ latched' = TRUE
          /\ Return(c, "accept", "Err")
          /\ UNCHANGED <<jobJournalVars, want>>
       \/ /\ a \in {"Existing", "ExistingTerminal", "Uncertain"}
          /\ Return(c, "accept", IF a = "Uncertain" THEN "Unknown" ELSE "Existing")
          /\ UNCHANGED <<jobJournalVars, want, latched>>
    /\ UNCHANGED <<jobRegistryVars, seen, permit, jobVars, restarts, historyVars>>

CommitControl(c) ==
    LET k == KeyOf[c] IN
    /\ CommitAccepted(k, RequestFor(c), OperationOf[c], ContentOf[c], FALSE)
    /\ IF store = "open"
       THEN Goto(c, "commit", FirstStep(c)) /\ UNCHANGED result
       ELSE Return(c, "commit", "Unknown")
    /\ UNCHANGED <<jobRegistryVars, want, seen, permit, jobVars, latched, restarts,
                   historyVars>>

\* The call on the ProcessControl.  It can fail after having had its effect.  A
\* write needs an open stdin; a signal may end the process or not; close_stdin
\* only reaches the registry when it closed a pipe (the pty flag is left out).
Effect(c) ==
    LET k == KeyOf[c]
        kind == KindOf[c]
    IN
    /\ applied' = [applied EXCEPT ![k][OperationOf[c]] = @ + 1]
    /\ \/ /\ Goto(c, "effect", "finish")
          /\ want' = [want EXCEPT ![c] = "control_failed"]
       \/ /\ kind \in {"kill", "close_stdin"}
          /\ Goto(c, "effect", "finish")
          /\ want' = [want EXCEPT ![c] = "applied"]
       \/ /\ kind # "kill"
          /\ kind = "write" => ~entry[k].stdinClosed
          /\ Goto(c, "effect", "record")
          /\ UNCHANGED want
    /\ IF kind = "kill" THEN Kill(k) \/ UNCHANGED process ELSE UNCHANGED process
    /\ UNCHANGED <<jobRegistryVars, jobJournalVars, seen, permit, result, running,
                   gate, dispatcher, latched, restarts, spawned>>

\* record_input, record_resize, close_stdin or request_kill of the registry.
\* It refuses when the job was fenced meanwhile.
RecordControl(c) ==
    LET k == KeyOf[c]
        kind == KindOf[c]
    IN
    /\ IF Live(entry[k]) /\ (kind = "write" => ~entry[k].stdinClosed)
       THEN /\ CASE kind = "write"       -> RecordInput(k)
                 [] kind = "resize"      -> RecordLive(k)
                 [] kind = "close_stdin" -> CloseStdin(k)
                 [] kind = "kill"        -> RequestKill(k)
            /\ Goto(c, "record", IF kind = "kill" THEN "effect" ELSE "finish")
            /\ want' = [want EXCEPT ![c] = "applied"]
       ELSE /\ Goto(c, "record", "finish")
            /\ want' = [want EXCEPT ![c] = "control_failed"]
            /\ UNCHANGED jobRegistryVars
    /\ UNCHANGED <<jobJournalVars, seen, permit, result, jobVars, latched,
                   restarts, historyVars>>

(***************************************************************************)
(* The dispatcher thread of a job                                          *)
(***************************************************************************)
DispatcherAt(k, from, to) ==
    /\ dispatcher[k] = from
    /\ dispatcher' = [dispatcher EXCEPT ![k] = to]

\* An output chunk.  One the registry refuses fences the job and kills it; one
\* the journal cannot keep kills it unless unjournaled effects are allowed.
Output(k) ==
    /\ dispatcher[k] = "run"
    /\ JournalShardFree(k)
    /\ \/ /\ RecordLive(k)
          /\ ObservationKept
          /\ UNCHANGED process
       \/ /\ RecordLive(k)
          /\ ObservationLost
          /\ IF Allow THEN UNCHANGED process ELSE Kill(k)
       \/ /\ ~Live(entry[k])
          /\ MarkRestartUncertain(k)
          /\ ObservationKept \/ ObservationLost
          /\ Kill(k)
    /\ UNCHANGED <<ops, jobs, disk, callVars, running, gate, dispatcher,
                   restarts, historyVars>>

\* InputFailed and ReaderFailed.
ProcessFault(k) ==
    /\ dispatcher[k] = "run"
    /\ JournalShardFree(k)
    /\ ObservationKept \/ ObservationLost
    /\ Kill(k)
    /\ UNCHANGED <<jobRegistryVars, ops, jobs, disk, callVars, running, gate,
                   dispatcher, restarts, historyVars>>

\* Mutant: the terminal path does not take the lifecycle mutex.
ObserveExitUnlocked(k) ==
    /\ process[k] = "exited"
    /\ DispatcherAt(k, "run", "complete")
    /\ gate' = [gate EXCEPT ![k] = IF @ = "pending" THEN "terminal" ELSE @]
    /\ UNCHANGED <<jobRegistryVars, jobJournalVars, callVars, running, process,
                   latched, restarts, historyVars>>

\* Exited: the startup window closes first.
ObserveExit(k) ==
    /\ process[k] = "exited"
    /\ DispatcherAt(k, "run", "lock")
    /\ gate' = [gate EXCEPT ![k] = IF @ = "pending" THEN "terminal" ELSE @]
    /\ UNCHANGED <<jobRegistryVars, jobJournalVars, callVars, running, process,
                   latched, restarts, historyVars>>

LockTerminal(k) ==
    /\ LifecycleFree(k)
    /\ DispatcherAt(k, "lock", "complete")
    /\ UNCHANGED <<jobRegistryVars, jobJournalVars, callVars, running, gate,
                   process, latched, restarts, historyVars>>

\* A cleanup fault may be pushed, then registry.complete.
CompleteJob(k) ==
    /\ JournalShardFree(k)
    /\ Complete(k)
    /\ ObservationLost \/ UNCHANGED <<store, latched>>
    /\ DispatcherAt(k, "complete", "append")
    /\ UNCHANGED <<ops, jobs, disk, callVars, running, gate, process,
                   restarts, historyVars>>

\* push_runtime_event of the Terminal, while the RunningJob still holds its
\* permit; append_observation ends with the job.terminal record.
AppendTerminal(k) ==
    LET rec == JobTerminalRecord(entry[k].request) IN
    /\ JournalShardFree(k)
    /\ \/ /\ store = "open"
          /\ AppendSucceeds(k, rec)
          /\ DispatcherAt(k, "append", "commit")
          /\ UNCHANGED latched
       \/ /\ store = "open"
          /\ AppendFails(k, rec)
          /\ latched' = TRUE
          /\ DispatcherAt(k, "append", "remove")
          /\ UNCHANGED <<ops, jobs>>
       \/ /\ Status = "Unavailable"
          /\ latched' = TRUE
          /\ DispatcherAt(k, "append", "remove")
          /\ UNCHANGED jobJournalVars
       \/ /\ Status = "MemoryOnly"
          /\ jobs' = [jobs EXCEPT ![k].terminal = TRUE]
          /\ DispatcherAt(k, "append", "remove")
          /\ UNCHANGED <<store, ops, disk, latched>>
    /\ UNCHANGED <<jobRegistryVars, callVars, running, gate, process,
                   restarts, historyVars>>

CommitJobTerminal(k) ==
    /\ DispatcherAt(k, "commit", "remove")
    /\ IF store = "open"
       THEN jobs' = [jobs EXCEPT ![k].terminal = TRUE] /\ UNCHANGED latched
       ELSE latched' = TRUE /\ UNCHANGED jobs
    /\ UNCHANGED <<jobRegistryVars, store, ops, disk, callVars, running, gate,
                   process, restarts, historyVars>>

\* The owned process marker goes last; with it the admission permit.
RemoveJob(k) ==
    /\ DispatcherAt(k, "remove", "gone")
    /\ running' = running \ {k}
    /\ UNCHANGED <<jobRegistryVars, jobJournalVars, callVars, gate, process,
                   latched, restarts, historyVars>>

\* Mutant: a closed channel is taken for the normal end of the thread.
ChannelClosesQuietly(k) ==
    /\ DispatcherAt(k, "run", "gone")
    /\ UNCHANGED <<jobRegistryVars, jobJournalVars, callVars, running, gate,
                   process, latched, restarts, historyVars>>

\* Every sender is dropped before Exited: waiters fail, the process is killed
\* and the job fenced, without the lifecycle mutex.
ChannelCloses(k) ==
    /\ JournalShardFree(k)
    /\ DispatcherAt(k, "run", "drop")
    /\ FailGate(k)
    /\ Kill(k)
    /\ MarkRestartUncertain(k)
    /\ ObservationKept \/ ObservationLost
    /\ UNCHANGED <<ops, jobs, disk, callVars, running, restarts, historyVars>>

DropJob(k) ==
    /\ DispatcherAt(k, "drop", "gone")
    /\ running' = running \ {k}
    /\ UNCHANGED <<jobRegistryVars, jobJournalVars, callVars, gate, process,
                   latched, restarts, historyVars>>

(***************************************************************************)
(* The environment                                                         *)
(***************************************************************************)
ProcessExits(k) ==
    /\ process[k] \in {"live", "dying"}
    /\ process' = [process EXCEPT ![k] = "exited"]
    /\ UNCHANGED <<jobRegistryVars, jobJournalVars, callVars, running, gate,
                   dispatcher, latched, restarts, historyVars>>

\* An append for a job outside Key fails and disables the shared store.
SiblingFails ==
    /\ store = "open"
    /\ store' = "lost"
    /\ latched' = TRUE
    /\ UNCHANGED <<jobRegistryVars, ops, jobs, disk, callVars, jobVars, restarts,
                   historyVars>>

AttachJob(k, a) ==
    /\ Attach(k, a) \/ Detach(k, a)
    /\ UNCHANGED <<jobJournalVars, callVars, jobVars, latched, restarts, historyVars>>

\* The process of the manager dies.  Its children get PR_SET_PDEATHSIG; a new
\* manager opens the same journal and every caller may come back.
Restart(opened) ==
    /\ restarts < MaxRestarts
    /\ restarts' = restarts + 1
    /\ entry' = [k \in Key |-> Absent]
    /\ nextGen' = 1
    /\ Reopen(opened)
    /\ pc' = [t \in Thread |-> "idle"]
    /\ want' = [t \in Thread |-> None]
    /\ seen' = [s \in Starter |-> None]
    /\ permit' = [s \in Starter |-> FALSE]
    /\ result' = [t \in Thread |-> None]
    /\ running' = {}
    /\ gate' = [k \in Key |-> None]
    /\ dispatcher' = [k \in Key |-> "none"]
    /\ process' = [k \in Key |-> IF process[k] = "none" THEN "none" ELSE "exited"]
    /\ latched' = FALSE
    /\ UNCHANGED historyVars

StarterStep(s) ==
    \/ EnterStart(s) \/ CheckLive(s) \/ JoinLive(s) \/ CheckRecovered(s)
    \/ Preflight(s) \/ Admit(s) \/ BeginEntry(s) \/ FenceUnavailable(s)
    \/ AcceptStart(s) \/ CommitStart(s) \/ RollbackStart(s) \/ Claim(s)
    \/ Spawn(s) \/ Publish(s) \/ ObserveStart(s) \/ Finish(s) \/ CommitFinish(s)
    \/ StartDispatcher(s) \/ OpenGate(s) \/ Abort(s) \/ FenceStart(s)

ControllerStep(c) ==
    \/ Lookup(c) \/ WaitGate(c) \/ LockLifecycle(c) \/ CheckRunning(c)
    \/ AcceptControl(c) \/ CommitControl(c) \/ Effect(c) \/ RecordControl(c)
    \/ Finish(c) \/ CommitFinish(c)

DispatcherStep(k) ==
    \/ ObserveExit(k) \/ LockTerminal(k) \/ CompleteJob(k)
    \/ AppendTerminal(k) \/ CommitJobTerminal(k) \/ RemoveJob(k) \/ DropJob(k)

DispatcherEvent(k) == Output(k) \/ ProcessFault(k) \/ ChannelCloses(k)

Environment ==
    \/ \E k \in Key : ProcessExits(k)
    \/ SiblingFails
    \/ \E k \in Key, a \in Attachment : AttachJob(k, a)
    \/ \E opened \in BOOLEAN : Restart(opened)

ManagerNext ==
    \/ \E s \in Starter : StarterStep(s)
    \/ \E c \in Controller : ControllerStep(c)
    \/ \E k \in Key : DispatcherStep(k) \/ DispatcherEvent(k)
    \/ Environment

ManagerSpec == ManagerInit /\ [][ManagerNext]_vars

\* The scheduler runs every thread, and a killed process dies.  Nothing makes a
\* process exit, produce output or fail, a store fail or the manager restart.
Fairness ==
    /\ \A s \in Starter : WF_vars(StarterStep(s))
    /\ \A c \in Controller : WF_vars(ControllerStep(c))
    /\ \A k \in Key : /\ WF_vars(DispatcherStep(k))
                      /\ WF_vars(process[k] = "dying" /\ ProcessExits(k))

FairManagerSpec == ManagerSpec /\ Fairness

(***************************************************************************)
(* Properties                                                              *)
(***************************************************************************)
StartResolved(k, outcome) ==
    \E i \in DOMAIN disk[k] : disk[k][i].start /\ disk[k][i].result = outcome

OutcomeLogged(k, o, outcome) ==
    \E i \in DOMAIN disk[k] : disk[k][i].op = o /\ disk[k][i].result = outcome

Effects == INSTANCE JobEffect WITH
    accepted <- {p \in Key \X Operation : Logged(disk[p[1]], "operation.accepted", p[2])},
    starts   <- spawned,
    controls <- applied,
    refused  <- {k \in Key : StartResolved(k, "spawn_failed")},
    ended    <- {k \in Key : process[k] = "exited"},
    closed   <- {k \in Key : Logged(disk[k], "job.terminal", None)}

\* With a journal and unjournaled effects off, the manager implements JobEffect:
\* start and the controls act at most once, after a durable acceptance, through
\* every interleaving, lost append and restart.
ImplementsJobEffect == Effects!EffectSpec

\* Whatever was appended, by whom and with which failures, is a log that recover
\* accepts, so the manager's own records never lock a restart out; and while the
\* store is up and nobody is inside a journal call of the job, a restart would
\* recover from it exactly what the journal remembers.
RecoveryIsFaithful ==
    \A k \in Key :
        /\ Recoverable(disk[k])
        /\ store = "open" /\ JournalShardFree(k) =>
              /\ jobs[k] = RecoveredJob(disk[k])
              /\ \A o \in Operation :
                    [ops[k][o] EXCEPT !.preexisting = TRUE] =
                        [RecoveredOperation(disk[k], o) EXCEPT !.preexisting = TRUE]

\* ensure_running_generation under the lifecycle mutex: no control reaches the
\* process once the registry is terminal.
NoEffectAfterTerminal ==
    [][\A k \in Key : applied'[k] # applied[k] => entry[k].dispatch = "running"]_vars

\* Once no start of a job is in flight, its entry is owned by a running job or
\* it can never be claimed: absent, fenced or terminal.
NothingLeftClaimable ==
    \A k \in Key : StartShardFree(k) /\ k \notin running =>
        entry[k].dispatch \in {"absent", "terminal"} \/ entry[k].uncertain

\* What callers are told is what a restart would find: a job reported started
\* was started, a control reported applied is recorded applied, a job reported
\* terminal has exited.
AnswersAreDurable ==
    /\ \A s \in Starter :
          /\ result[s] = "Started" => StartResolved(KeyOf[s], "started")
          /\ result[s] = "ExistingTerminal" => process[KeyOf[s]] = "exited"
    /\ \A c \in Controller :
          result[c] = "Applied" =>
              /\ OutcomeLogged(KeyOf[c], OperationOf[c], "applied")
              /\ applied[KeyOf[c]][OperationOf[c]] = 1

\* At most one process per job: over all restarts when a journal is configured,
\* also when unjournaled effects are allowed, and within one process without.
SpawnedOnce ==
    \A k \in Key : spawned[k] <= IF Configured THEN 1 ELSE 1 + restarts

\* No live process is beyond the manager's reach: max_jobs bounds them, starts
\* that are still under way included, and when no start of the job is in flight
\* and the job is not in the running map, its process is dead or dying.
NoLiveOrphan ==
    /\ Cardinality({k \in Key : process[k] = "live"}) <= MaxJobs
    /\ \A k \in Key : StartShardFree(k) /\ k \notin running => process[k] # "live"

\* Every call returns: no gate, shard or lifecycle mutex is waited on for ever.
EveryCallReturns == \A t \in Thread : pc[t] # "idle" ~> pc[t] \in {"idle", "done"}

\* A process that has exited leaves the running map and frees its permit.
ExitedJobIsReleased ==
    \A k \in Key : (k \in running /\ process[k] = "exited") ~> k \notin running

(***************************************************************************)
(* What comments, documents and tests say that the code does not do.       *)
(***************************************************************************)

\* MOD-JOB-RUNTIME.md:243: no false no-start claims.  The registry says
\* ProvenNotStartedAfterRestart only of a job that was never started.
NoFalseNoStart == \A k \in Key : ProvenNotStarted(k) => spawned[k] = 0
=============================================================================
