----------------------------- MODULE ToolBridge -----------------------------
(***************************************************************************)
(* Concurrent callers of ToolBridge::execute_fallible_with_deadline,       *)
(* crates/trillionnium-owner-open-tool-bridge/src/lib.rs, over one shared  *)
(* CallRegistry.  A caller is one thread inside the function; `pc' is the  *)
(* statement it is about to execute.  Two callers may carry the same call  *)
(* (a retry, a duplicate frame) or reuse its id for another request.       *)
(*                                                                         *)
(* The registry's operations are the actions of CallRegistry.  The process *)
(* runtime (execute_shell, execute_adb and the pty forms) is what the      *)
(* bridge sees of it: an Accepted event, an optional spawn with a Started  *)
(* event, more events, one terminal result.  Input validation, which only  *)
(* returns an error, and the digest of the observations are left out; a    *)
(* poisoned registry is the subject of CallRegistry.                       *)
(***************************************************************************)
EXTENDS CallRegistry

CONSTANTS
    Caller,
    Carries     \* Carries[c]: the calls c may arrive with, [key, request]

ASSUME BridgeAssumption ==
    /\ Carries \in [Caller -> SUBSET [key : Key, request : Request]]
    /\ Terminal = {"Exited", "Cancelled", "TimedOut", "IoError"}

VARIABLES
    turnFlag,    \* the enclosing turn's cancellation flag (external_flags)
    call,        \* call[c]: what c is called with, fixed
    pc,
    beganNew,    \* begin.disposition == New
    generation,  \* the granted generation, 0 when none
    localFlag,   \* the runtime token's own flag, set by a failed sink
    sinkFailed,  \* sink_failure is set: no further event reaches the sink
    process,     \* the child of this caller: "none", "live" or "reaped"
    outcome,     \* the runtime's terminal kind
    result,      \* what the caller returned
    spawns       \* history: processes started for each call

bridgeVars ==
    <<turnFlag, call, pc, beganNew, generation, localFlag, sinkFailed, process,
      outcome, result, spawns>>

vars == <<registryVars, bridgeVars>>

ProgramPoint ==
    {"idle", "begin", "insert", "precheck", "claim", "store", "rollback",
     "remove", "release", "inhibit", "postcheck", "prespawn", "spawn", "running",
     "reaped", "finish", "complete", "done"}

\* The registry outlives the turns: earlier calls may have used it up.
BridgeInit ==
    /\ \E g \in {1, GenerationMax} : RegistryInitAt(g)
    /\ turnFlag = FALSE
    /\ call \in {f \in [Caller -> [key : Key, request : Request]] :
                  \A c \in Caller : f[c] \in Carries[c]}
    /\ pc = [c \in Caller |-> "idle"]
    /\ beganNew = [c \in Caller |-> FALSE]
    /\ generation = [c \in Caller |-> 0]
    /\ localFlag = [c \in Caller |-> FALSE]
    /\ sinkFailed = [c \in Caller |-> FALSE]
    /\ process = [c \in Caller |-> "none"]
    /\ outcome = [c \in Caller |-> None]
    /\ result = [c \in Caller |-> None]
    /\ spawns = [k \in Key |-> 0]

EntryOf(c) == entries[call[c].key]

\* The shard of the call is free: an operation that changes nothing can read.
CanRead(c) == at[call[c].key] = "free"

Goto(c, from, to) ==
    /\ pc[c] = from
    /\ pc' = [pc EXCEPT ![c] = to]

Return(c, from, value) ==
    /\ Goto(c, from, "done")
    /\ result' = [result EXCEPT ![c] = value]

TokenCancelled(c) == localFlag[c] \/ EntryOf(c).cancelled \/ turnFlag

Start(c) ==
    /\ Goto(c, "idle", "begin")
    /\ UNCHANGED <<registryVars, turnFlag, call, beganNew, generation, localFlag,
                   sinkFailed, process, outcome, result, spawns>>

(***************************************************************************)
(* registry.begin                                                          *)
(***************************************************************************)
BeginReserve(c) ==
    /\ Goto(c, "begin", "insert")
    /\ ReserveEntry(call[c].key)
    /\ UNCHANGED <<turnFlag, call, beganNew, generation, localFlag, sinkFailed,
                   process, outcome, result, spawns>>

BeginInsert(c) ==
    /\ Goto(c, "insert", "precheck")
    /\ InsertEntry(call[c].key, call[c].request)
    /\ beganNew' = [beganNew EXCEPT ![c] = TRUE]
    /\ UNCHANGED <<turnFlag, call, generation, localFlag, sinkFailed, process,
                   outcome, result, spawns>>

\* An existing call.  A terminal one is not cancelled any more: the snapshot
\* of begin decides, so that caller goes on to claim_spawn.
BeginExisting(c) ==
    /\ CanRead(c)
    /\ EntryOf(c).dispatch # "absent"
    /\ EntryOf(c).request = call[c].request
    /\ Goto(c, "begin", IF EntryOf(c).dispatch = "terminal" THEN "claim"
                                                            ELSE "precheck")
    /\ UNCHANGED <<registryVars, turnFlag, call, beganNew, generation, localFlag,
                   sinkFailed, process, outcome, result, spawns>>

BeginRefused(c) ==
    /\ CanRead(c)
    /\ \/ EntryOf(c).dispatch # "absent" /\ EntryOf(c).request # call[c].request
       \/ EntryOf(c).dispatch = "absent" /\ entryCount >= MaxEntries
    /\ Return(c, "begin", "RegistryError")
    /\ UNCHANGED <<registryVars, turnFlag, call, beganNew, generation, localFlag,
                   sinkFailed, process, outcome, spawns>>

(***************************************************************************)
(* A raised enclosing flag is published with request_cancel, before the    *)
(* claim, after it, and, with the token's own flag, before the terminal.   *)
(***************************************************************************)
PublishCancel(c, raised, from, to) ==
    /\ IF ~raised
       THEN /\ Goto(c, from, to)
            /\ UNCHANGED <<registryVars, result>>
       ELSE \/ /\ RequestCancel(call[c].key)
               /\ Goto(c, from, to)
               /\ UNCHANGED result
            \/ /\ CanRead(c) /\ EntryOf(c).cancelled
               /\ Goto(c, from, to)
               /\ UNCHANGED <<registryVars, result>>
            \/ /\ CanRead(c) /\ EntryOf(c).dispatch = "absent"
               /\ Return(c, from, "RegistryError")
               /\ UNCHANGED registryVars
    /\ UNCHANGED <<turnFlag, call, beganNew, generation, localFlag, sinkFailed,
                   process, outcome, spawns>>

Precheck(c) == PublishCancel(c, turnFlag, "precheck", "claim")

(***************************************************************************)
(* registry.claim_spawn                                                    *)
(***************************************************************************)
ClaimAllocate(c) ==
    /\ Goto(c, "claim", "store")
    /\ AllocateGeneration(call[c].key, call[c].request)
    /\ UNCHANGED <<turnFlag, call, beganNew, generation, localFlag, sinkFailed,
                   process, outcome, result, spawns>>

ClaimStore(c) ==
    /\ Goto(c, "store", "postcheck")
    /\ generation' = [generation EXCEPT ![c] = heldGen[call[c].key]]
    /\ StoreClaim(call[c].key)
    /\ UNCHANGED <<turnFlag, call, beganNew, localFlag, sinkFailed, process, outcome,
                   result, spawns>>

\* Existing (started or terminal) and Inhibited (fenced or cancelled).
ClaimAnswered(c) ==
    /\ CanRead(c)
    /\ EntryOf(c).request = call[c].request
    /\ \/ /\ EntryOf(c).dispatch \in {"started", "terminal"}
          /\ Return(c, "claim", "Existing")
       \/ /\ EntryOf(c).dispatch = "accepted"
          /\ ~Claimable(EntryOf(c))
          /\ Return(c, "claim", "Inhibited")
    /\ UNCHANGED <<registryVars, turnFlag, call, beganNew, generation, localFlag,
                   sinkFailed, process, outcome, spawns>>

\* Not found, another digest, or no generation left.  Only a caller that
\* began the call tries to roll it back.
ClaimFailed(c) ==
    /\ CanRead(c)
    /\ \/ EntryOf(c).dispatch = "absent"
       \/ EntryOf(c).dispatch # "absent" /\ EntryOf(c).request # call[c].request
       \/ Claimable(EntryOf(c)) /\ nextGen \in {0, GenerationMax}
    /\ Goto(c, "claim", IF beganNew[c] THEN "rollback" ELSE "inhibit")
    /\ UNCHANGED <<registryVars, turnFlag, call, beganNew, generation, localFlag,
                   sinkFailed, process, outcome, result, spawns>>

\* Mutant: a failed claim leaves the acceptance of its caller in place.
RollbackForgotten(c) ==
    /\ CanRead(c)
    /\ Return(c, "rollback", "RegistryError")
    /\ UNCHANGED <<registryVars, turnFlag, call, beganNew, generation, localFlag,
                   sinkFailed, process, outcome, spawns>>

Rollback(c) ==
    /\ \/ /\ RollbackAccept(call[c].key, call[c].request)
          /\ Goto(c, "rollback", "remove")
          /\ UNCHANGED result
       \/ /\ CanRead(c)
          /\ EntryOf(c).dispatch = "absent"
          /\ Return(c, "rollback", "RegistryError")
          /\ UNCHANGED registryVars
       \/ /\ CanRead(c)
          /\ EntryOf(c).dispatch # "absent"
          /\ EntryOf(c).request # call[c].request \/ ~Rollbackable(EntryOf(c))
          /\ Goto(c, "rollback", "inhibit")
          /\ UNCHANGED <<registryVars, result>>
    /\ UNCHANGED <<turnFlag, call, beganNew, generation, localFlag, sinkFailed,
                   process, outcome, spawns>>

RollbackDrop(c) ==
    /\ Goto(c, "remove", "release")
    /\ RollbackRemove(call[c].key)
    /\ UNCHANGED <<turnFlag, call, beganNew, generation, localFlag, sinkFailed,
                   process, outcome, result, spawns>>

RollbackRelease(c) ==
    /\ Return(c, "release", "RegistryError")
    /\ ReleaseEntry(call[c].key)
    /\ UNCHANGED <<turnFlag, call, beganNew, generation, localFlag, sinkFailed,
                   process, outcome, spawns>>

Inhibit(c) ==
    /\ Return(c, "inhibit", "RegistryError")
    /\ \/ InhibitSpawn(call[c].key)
       \/ /\ CanRead(c)
          /\ EntryOf(c).dispatch # "accepted" \/ EntryOf(c).inhibited
          /\ UNCHANGED registryVars
    /\ UNCHANGED <<turnFlag, call, beganNew, generation, localFlag, sinkFailed,
                   process, outcome, spawns>>

Postcheck(c) == PublishCancel(c, turnFlag, "postcheck", "prespawn")

(***************************************************************************)
(* The runtime under the bridge's observer.                                *)
(***************************************************************************)

\* The call ends without a process: the token is cancelled or the deadline
\* passed before the spawn, the spawn failed, or the runtime rejected the
\* request (a synthetic terminal).
EndUnspawned(c, kind) ==
    /\ pc[c] \in {"prespawn", "spawn"}
    /\ kind = "Cancelled" => TokenCancelled(c)
    /\ kind \in {"Cancelled", "TimedOut", "IoError"}
    /\ pc' = [pc EXCEPT ![c] = "reaped"]
    /\ outcome' = [outcome EXCEPT ![c] = kind]
    /\ UNCHANGED <<registryVars, turnFlag, call, beganNew, generation, localFlag,
                   sinkFailed, process, result, spawns>>

\* The cancellation test and the spawn are two steps.
PrespawnCheck(c) ==
    /\ ~TokenCancelled(c)
    /\ Goto(c, "prespawn", "spawn")
    /\ UNCHANGED <<registryVars, turnFlag, call, beganNew, generation, localFlag,
                   sinkFailed, process, outcome, result, spawns>>

\* The child is live and its Started event records the pid.
Spawn(c) ==
    /\ Goto(c, "spawn", "running")
    /\ process' = [process EXCEPT ![c] = "live"]
    /\ spawns' = [spawns EXCEPT ![call[c].key] = @ + 1]
    /\ \/ \E p \in Pid : RecordPid(call[c].key, generation[c], p)
       \/ /\ CanRead(c)
          /\ EntryOf(c).dispatch # "started" \/ EntryOf(c).generation # generation[c]
               \/ EntryOf(c).pid # None
          /\ UNCHANGED registryVars
    /\ UNCHANGED <<turnFlag, call, beganNew, generation, localFlag, sinkFailed,
                   outcome, result>>

\* The sink fails or panics on an event: the token is cancelled.
SinkFails(c) ==
    /\ pc[c] \in {"prespawn", "running", "reaped"}
    /\ ~sinkFailed[c]
    /\ sinkFailed' = [sinkFailed EXCEPT ![c] = TRUE]
    /\ localFlag' = [localFlag EXCEPT ![c] = TRUE]
    /\ UNCHANGED <<registryVars, turnFlag, call, pc, beganNew, generation, process,
                   outcome, result, spawns>>

\* Mutant: the child is only reaped once somebody cancels it.
ProcessEndsIfCancelled(c, kind) ==
    /\ Goto(c, "running", "reaped")
    /\ TokenCancelled(c)
    /\ process' = [process EXCEPT ![c] = "reaped"]
    /\ outcome' = [outcome EXCEPT ![c] = kind]
    /\ UNCHANGED <<registryVars, turnFlag, call, beganNew, generation, localFlag,
                   sinkFailed, result, spawns>>

\* The child is reaped: it exited, or it was killed for the token, the
\* deadline or an i/o error.
ProcessEnds(c, kind) ==
    /\ Goto(c, "running", "reaped")
    /\ kind \in {"Exited", "Cancelled", "TimedOut", "IoError"}
    /\ kind = "Cancelled" => TokenCancelled(c)
    /\ process' = [process EXCEPT ![c] = "reaped"]
    /\ outcome' = [outcome EXCEPT ![c] = kind]
    /\ UNCHANGED <<registryVars, turnFlag, call, beganNew, generation, localFlag,
                   sinkFailed, result, spawns>>

\* The terminal event has been delivered; the runtime returns.
RuntimeReturns(c) ==
    /\ Goto(c, "reaped", "finish")
    /\ UNCHANGED <<registryVars, turnFlag, call, beganNew, generation, localFlag,
                   sinkFailed, process, outcome, result, spawns>>

Finish(c) == PublishCancel(c, TokenCancelled(c), "finish", "complete")

\* Mutant: a failed sink returns before the registry is closed.
RecordTerminalUnlessSinkFailed(c) ==
    /\ \/ /\ ~sinkFailed[c]
          /\ Complete(call[c].key, generation[c], outcome[c])
       \/ /\ sinkFailed[c]
          /\ CanRead(c)
          /\ UNCHANGED registryVars
    /\ Return(c, "complete", IF sinkFailed[c] THEN "SinkError" ELSE "Executed")
    /\ UNCHANGED <<turnFlag, call, beganNew, generation, localFlag, sinkFailed,
                   process, outcome, spawns>>

\* registry.complete, then the error the caller is told, if any.
RecordTerminal(c) ==
    /\ Complete(call[c].key, generation[c], outcome[c])
    /\ Return(c, "complete", IF sinkFailed[c] THEN "SinkError" ELSE "Executed")
    /\ UNCHANGED <<turnFlag, call, beganNew, generation, localFlag, sinkFailed,
                   process, outcome, spawns>>

\* The owner cancels the turn; the host's tool.cancel cancels one call.
CancelTurn ==
    /\ ~turnFlag
    /\ turnFlag' = TRUE
    /\ UNCHANGED <<registryVars, call, pc, beganNew, generation, localFlag,
                   sinkFailed, process, outcome, result, spawns>>

HostCancel(k) ==
    /\ RequestCancel(k)
    /\ UNCHANGED bridgeVars

CallerStep(c) ==
    \/ BeginReserve(c) \/ BeginInsert(c) \/ BeginExisting(c) \/ BeginRefused(c)
    \/ Precheck(c)
    \/ ClaimAllocate(c) \/ ClaimStore(c) \/ ClaimAnswered(c) \/ ClaimFailed(c)
    \/ Rollback(c) \/ RollbackDrop(c) \/ RollbackRelease(c) \/ Inhibit(c)
    \/ Postcheck(c)
    \/ \E kind \in Terminal : EndUnspawned(c, kind)
    \/ PrespawnCheck(c) \/ Spawn(c)
    \/ \E kind \in Terminal : ProcessEnds(c, kind)
    \/ RuntimeReturns(c)
    \/ Finish(c) \/ RecordTerminal(c)

Next ==
    \/ \E c \in Caller : Start(c) \/ CallerStep(c) \/ SinkFails(c)
    \/ CancelTurn
    \/ \E k \in Key : HostCancel(k)

\* Every thread inside the function keeps running, and a child ends: the
\* runtime kills it at the request's own timeout at the latest.  Nobody has to
\* start a call, cancel anything or fail.
BridgeSpec ==
    BridgeInit /\ [][Next]_vars /\ \A c \in Caller : WF_vars(CallerStep(c))

-----------------------------------------------------------------------------

Idle(k) == \A c \in Caller : call[c].key = k => pc[c] \in {"idle", "done"}

\* However many callers carry the same call, however they interleave with
\* rollbacks and fences, its command is started at most once, and a second
\* one never runs beside it (claim_spawn, rollback_accept, inhibit_spawn).
AtMostOneSpawn ==
    /\ \A k \in Key : spawns[k] <= 1
    /\ \A c \in Caller : process[c] = "live" =>
         /\ EntryOf(c).dispatch = "started"
         /\ EntryOf(c).generation = generation[c]

\* execute_fallible's promise: a caller that was granted the spawn does not
\* return, whatever failed, before the registry records the terminal of its
\* own generation.
ClosedBeforeReturn ==
    \A c \in Caller : pc[c] = "done" /\ generation[c] # 0 =>
        /\ EntryOf(c).dispatch = "terminal"
        /\ EntryOf(c).generation = generation[c]
        /\ EntryOf(c).terminal = outcome[c]

\* When nobody works on a call, no acceptance is left that a later caller
\* could turn into a dispatch by surprise, and no slot or shard is held.
NothingLeftBehind ==
    \A k \in Key : Idle(k) =>
        /\ at[k] = "free"
        /\ entries[k].dispatch = "accepted" => ~Claimable(entries[k])
        /\ entries[k].dispatch # "started"

\* No caller waits for ever on another one's shard: whoever begins a call gets
\* an answer, and with ClosedBeforeReturn every granted call gets its terminal.
EveryCallReturns == \A c \in Caller : pc[c] = "begin" ~> pc[c] = "done"
=============================================================================
