------------------------------ MODULE TurnCore ------------------------------
(***************************************************************************)
(* The turn core of the owner-open host: the loop                          *)
(* process_messages_with_control_seq (r5_control_host_v4/process.rs) with  *)
(* the helpers it takes from r5_control_host_v2.rs, the journal adapter    *)
(* r5_persistence.rs, the worker thread that runs the turn loop, and the   *)
(* gate by which the v7 host (r5_control_host_v7/process.rs) lets one      *)
(* turn.start through at a time.                                           *)
(*                                                                         *)
(* Three threads meet here.  The outer host puts client frames into the    *)
(* core's bounded queue; the worker puts turn events there and waits at    *)
(* most 30 seconds for each receipt; the core takes one message at a time, *)
(* journals before it acknowledges and writes its frames before it takes   *)
(* the next.  The process may die at any time, with or without the page    *)
(* cache, and be started again on the same journal.                        *)
(*                                                                         *)
(* The event store (module EventStore) is a log with a synced prefix here. *)
(* A turn stands for its scope and stream id, a digest for the content of  *)
(* its request.  The provider is an environment that emits events, calls   *)
(* tools and finishes as it likes; what the bridge does inside one call is *)
(* module ToolBridge's.                                                    *)
(***************************************************************************)
EXTENDS Integers, Sequences, FiniteSets

CONSTANTS
    Turns, Digests,
    None,
    Requests,     \* the turn.start frames, a turn and a digest each
    First,        \* the one that is sent while the journal is empty
    QueueDepth,   \* HOST_QUEUE_DEPTH
    Controls,     \* the client frames other than turn.start, each with the turn it names
    MaxMoves,     \* bounds the client's frames and the starts of the process together
    MaxEvents,    \* bounds the events of one turn's worker
    MaxFaults     \* bounds failing appends, opens, writes, spawns and workers, and expired waits

ASSUME TurnCoreAssumption ==
    /\ None \notin Turns \cup Digests \cup Requests
    /\ Requests \subseteq [turn : Turns, digest : Digests]
    /\ First \in Requests
    /\ QueueDepth \in Nat \ {0}
    /\ \A m \in Controls : \/ m.type \in {"plain", "refused"} /\ m.turn = None
                           \/ m.type \in {"turn.cancel", "tool.cancel"} /\ m.turn \in Turns
    /\ MaxMoves \in Nat
    /\ MaxEvents \in Nat
    /\ MaxFaults \in Nat

VARIABLES
    log, synced,      \* the journal and the length of its part on stable storage
    disabled,         \* effect_admission_error().is_some()
    life,             \* number of the present process, 0 when the core is gone
    starts,           \* processes started so far
    queue,            \* the core's channel
    gate,             \* what the v7 host knows of the turn it let through
    inputOpen, attached,
    next,             \* next_host_seq and next_turn_event_ordinal
    active,           \* the active turn or None
    core,             \* where the core is between two messages
    out,              \* frames the present handler has yet to write
    worker,
    moves, faults,    \* what the bounds have counted
    runs,             \* ghost: provider sessions started for each turn
    effects,          \* ghost: calls whose process was started
    outcome,          \* ghost: what the worker of a turn sent as TurnComplete
    ends              \* ghost: journaled turn.end frames the client has got

journalVars == <<log, synced, disabled>>
clientVars == <<gate, moves>>
loopVars == <<queue, inputOpen, next, active, core, out>>
ghostVars == <<runs, effects, outcome, ends>>
coreVars == <<journalVars, life, starts, clientVars, attached, loopVars, worker, faults,
              ghostVars>>

\* The worker's events that map_turn_event gives no frame.
Silent == {"TurnAccepted", "TurnTerminal"}

\* Mutant: only tool calls and ends are synced at once.
AuthorityOfEffects(kind) == kind \in {"tool.accepted", "tool.result", "turn.end"}

\* Mutant: the end of a turn is left to the group commit.
AuthorityUntilEnd(kind) == kind \in {"turn.accepted", "tool.accepted", "tool.result"}

\* is_authority_frame: the kinds that append_durable takes.
Authority(kind) ==
    kind \in {"turn.accepted", "tool.accepted", "tool.result", "turn.end", "turn.cancel.accepted"}

NoWorker == [turn |-> None, pc |-> "none", ev |-> None, n |-> 0, calls |-> 0,
             cancelled |-> FALSE, result |-> None]

Idle == [pc |-> "loop", result |-> None]

\* OutputState::frame with a context.  life stands for the connection id;
\* sure is a ghost: append_frame has returned true for this frame.
Frame(turn, digest, kind, status, call, position) ==
    [turn |-> turn, digest |-> digest, kind |-> kind, status |-> status, call |-> call,
     seq |-> position.seq, id |-> position.ordinal, life |-> life, sure |-> TRUE]

\* OutputState::frame without one: an inspection, hello.ack, an unscoped error.
Unscoped == [turn |-> None, kind |-> "control"]

After(position) == [seq |-> position.seq + 1, ordinal |-> position.ordinal + 1]

CoreInit ==
    /\ log = <<>> /\ synced = 0 /\ disabled = FALSE
    /\ life = 0 /\ starts = 0
    /\ queue = <<>>
    /\ gate = "open" /\ moves = 0
    /\ inputOpen = FALSE /\ attached = FALSE
    /\ next = [seq |-> 0, ordinal |-> 0]
    /\ active = None
    /\ core = Idle
    /\ out = <<>>
    /\ worker = NoWorker
    /\ faults = 0
    /\ runs = [t \in Turns |-> 0]
    /\ effects = {}
    /\ outcome = [t \in Turns |-> None]
    /\ ends = [t \in Turns |-> {}]

Move == moves < MaxMoves /\ moves' = moves + 1
Fault == faults < MaxFaults /\ faults' = faults + 1

-----------------------------------------------------------------------------
(* The journal.                                                            *)

\* The positions of the stored frames of a turn.
Records(t) == {i \in DOMAIN log : log[i].turn = t}

\* Persistence::load of a usable store.
Load(t, d) ==
    LET recs == Records(t)
        terminals == {i \in recs : log[i].kind = "turn.end"}
    IN  IF recs = {} THEN "empty"
        ELSE IF \E i \in recs : log[i].digest # d THEN "conflict"
        ELSE IF terminals = {} THEN "incomplete"
        ELSE IF \E last \in recs : terminals = {last} /\ \A i \in recs : i <= last THEN "complete"
        ELSE "conflict"

\* Mutant: only the event ids go on after the stored frames.
ObserveReplayIds(recs) == [seq |-> 0, ordinal |-> Cardinality(recs)]

\* OutputState::observe_replay after context() has reset the cursors.
ObserveReplay(recs) ==
    [seq |-> 1 + CHOOSE s \in {log[i].seq : i \in recs} : \A i \in recs : log[i].seq <= s,
     ordinal |-> Cardinality(recs)]

\* append_frame, the outcome in disabled'.  The id of a stored event with
\* another content is EventConflict, with the same content a duplicate; an
\* append that fails may leave its record behind.  Every error disables the
\* store for the rest of the process.  The group commit that may cover a record
\* without authority earlier is left out: PowerLoss may keep it or not.
AppendFrame(f) ==
    \/ /\ disabled
       /\ UNCHANGED <<journalVars, faults>>
    \/ /\ ~disabled
       /\ \E i \in DOMAIN log : log[i].turn = f.turn /\ log[i].id = f.id
       /\ disabled' = (\A i \in DOMAIN log : log[i] # f)
       /\ UNCHANGED <<log, synced, faults>>
    \/ /\ ~disabled
       /\ \A i \in DOMAIN log : log[i].turn # f.turn \/ log[i].id # f.id
       /\ log' = Append(log, f)
       /\ synced' = IF Authority(f.kind) THEN Len(log) + 1 ELSE synced
       /\ UNCHANGED <<disabled, faults>>
    \/ /\ ~disabled
       /\ \A i \in DOMAIN log : log[i].turn # f.turn \/ log[i].id # f.id
       /\ Fault
       /\ disabled' = TRUE
       /\ log' \in {log, Append(log, [f EXCEPT !.sure = FALSE])}
       /\ UNCHANGED synced

\* persist_for_delivery: a turn.end that could not be journaled says so.
Delivered(f, failed) ==
    IF ~failed THEN f
    ELSE IF f.kind = "turn.end"
    THEN [f EXCEPT !.sure = FALSE, !.status = "unknown_after_journal_failure"]
    ELSE [f EXCEPT !.sure = FALSE]

\* The frames the v7 host looks at; it passes those of the worker's events on.
Shown(f) == f.kind \in {"turn.accepted", "turn.end", "control"}

Other == [turn |-> None, kind |-> "other"]

\* The frames a replay has still to write: what follows its end is none of it.
Remaining(frames) == IF \E i \in DOMAIN frames : Shown(frames[i]) THEN frames ELSE <<>>

\* deliver_frame, deliver_replay: nothing is written once delivery has failed.
Write(frames) == out' = IF attached THEN frames ELSE <<>>

\* The stored frames of a turn, those of other turns blanked out.
Replay(t) == [i \in DOMAIN log |-> IF log[i].turn = t THEN log[i] ELSE Other]

-----------------------------------------------------------------------------
(* The process and the v7 host around the core.                            *)

Start ==
    /\ life = 0
    /\ Move
    /\ life' = starts + 1
    /\ starts' = starts + 1
    /\ \/ disabled' = FALSE /\ UNCHANGED faults
       \/ disabled' = TRUE /\ Fault            \* open_best_effort_segmented fails
    /\ inputOpen' = TRUE
    /\ attached' = TRUE
    /\ gate' = "open"
    /\ UNCHANGED <<log, synced, queue, next, active, core, out, worker, ghostVars>>

Down ==
    /\ life' = 0
    /\ disabled' = FALSE
    /\ queue' = <<>>
    /\ gate' = "open"
    /\ inputOpen' = FALSE /\ attached' = FALSE
    /\ next' = [seq |-> 0, ordinal |-> 0]
    /\ active' = None
    /\ core' = Idle
    /\ out' = <<>>
    /\ worker' = NoWorker
    /\ UNCHANGED <<starts, moves, ghostVars>>

Kill ==
    /\ life > 0
    /\ Down
    /\ UNCHANGED <<log, synced, faults>>

\* The page cache is lost: what no sync has covered may be gone.
PowerLoss ==
    /\ life > 0 \/ synced < Len(log)
    /\ \E k \in synced .. Len(log) : log' = SubSeq(log, 1, k)
    /\ synced' = Len(log')
    /\ Down
    /\ UNCHANGED faults

\* Mutant: turn.start is forwarded like every other frame.
SendStartUngated(t, d) ==
    /\ life > 0
    /\ gate # "eof"
    /\ Move
    /\ Len(queue) < QueueDepth
    /\ queue' = Append(queue, [type |-> "turn.start", turn |-> t, digest |-> d])
    /\ UNCHANGED <<journalVars, gate, life, starts, attached, inputOpen, next, active, core, out,
                   worker, faults, ghostVars>>

\* observe_turn_start lets one turn.start through until its turn.end is seen.
SendStart(t, d) ==
    /\ life > 0
    /\ gate = "open"
    /\ Move
    /\ Len(queue) < QueueDepth
    /\ gate' = "pending"
    /\ queue' = Append(queue, [type |-> "turn.start", turn |-> t, digest |-> d])
    /\ UNCHANGED <<journalVars, life, starts, attached, inputOpen, next, active, core, out,
                   worker, faults, ghostVars>>

\* Every other frame that is not a job frame is forwarded as it is.  "plain"
\* is one the core answers outside of the turn (an inspection, a line it cannot
\* decode), "refused" one it answers inside of it while a turn is active (an
\* inspection it cannot parse, an unknown kind).
SendControl(m) ==
    /\ life > 0
    /\ gate # "eof"
    /\ Move
    /\ Len(queue) < QueueDepth
    /\ queue' = Append(queue, m)
    /\ UNCHANGED <<journalVars, gate, life, starts, attached, inputOpen, next, active, core,
                   out, worker, faults, ghostVars>>

SendEof ==
    /\ life > 0
    /\ gate # "eof"
    /\ Move
    /\ Len(queue) < QueueDepth
    /\ gate' = "eof"
    /\ queue' = Append(queue, [type |-> "eof", turn |-> None])
    /\ UNCHANGED <<journalVars, life, starts, attached, inputOpen, next, active, core,
                   out, worker, faults, ghostVars>>

-----------------------------------------------------------------------------
(* The core.                                                               *)

Finished == active = None /\ (~inputOpen \/ ~attached)

\* The core is at recv_timeout.
Receiving ==
    /\ life > 0
    /\ out = <<>>
    /\ core.pc = "loop"
    /\ worker.pc # "unborn"
    /\ ~Finished

Receives(types) ==
    /\ Receiving
    /\ queue # <<>>
    /\ Head(queue).type \in types
    /\ queue' = Tail(queue)

CoreReturns ==
    /\ life > 0
    /\ out = <<>>
    /\ core.pc = "loop"
    /\ worker.pc # "unborn"
    /\ Finished
    /\ Down
    /\ UNCHANGED <<log, synced, faults>>

Origin == [seq |-> 0, ordinal |-> 0]

\* turn.start when the journal or the stored turn refuses it: the error is
\* unscoped, although context() has already reset the cursors.
RefuseStart ==
    /\ Receives({"turn.start"})
    /\ active = None
    /\ LET m == Head(queue) IN disabled \/ Load(m.turn, m.digest) = "conflict"
    /\ next' = Origin
    /\ Write(<<Unscoped>>)
    /\ UNCHANGED <<journalVars, life, starts, clientVars, attached, inputOpen, active, core,
                   worker, faults, ghostVars>>

\* StoredTurn::Complete.
ReplayTurn ==
    /\ Receives({"turn.start"})
    /\ active = None
    /\ ~disabled
    /\ LET m == Head(queue)
       IN  /\ Load(m.turn, m.digest) = "complete"
           /\ next' = ObserveReplay(Records(m.turn))
           /\ Write(Replay(m.turn))
    /\ UNCHANGED <<journalVars, life, starts, clientVars, attached, inputOpen, active, core,
                   worker, faults, ghostVars>>

\* StoredTurn::Incomplete: closed as unknown, never dispatched again.
CloseUnknownTurn ==
    /\ Receives({"turn.start"})
    /\ active = None
    /\ ~disabled
    /\ LET m == Head(queue)
           position == ObserveReplay(Records(m.turn))
           f == Frame(m.turn, m.digest, "turn.end", "unknown_after_disconnect", 0, position)
       IN  /\ Load(m.turn, m.digest) = "incomplete"
           /\ AppendFrame(f)
           /\ next' = After(position)
           /\ Write(Append(Replay(m.turn), Delivered(f, disabled')))
    /\ UNCHANGED <<life, starts, clientVars, attached, inputOpen, active, core, worker,
                   ghostVars>>

\* StoredTurn::Empty: turn.accepted is durable before the worker exists.
AcceptTurn ==
    /\ Receives({"turn.start"})
    /\ active = None
    /\ ~disabled
    /\ LET m == Head(queue)
           f == Frame(m.turn, m.digest, "turn.accepted", None, 0, Origin)
       IN  /\ Load(m.turn, m.digest) = "empty"
           /\ AppendFrame(f)
           /\ next' = After(Origin)
           /\ IF disabled'
              THEN /\ Write(<<Unscoped>>)
                   /\ UNCHANGED <<active, worker>>
              ELSE /\ Write(<<f>>)
                   /\ active' = [turn |-> m.turn, digest |-> m.digest]
                   /\ worker' = [NoWorker EXCEPT !.turn = m.turn, !.pc = "unborn"]
    /\ UNCHANGED <<life, starts, clientVars, attached, inputOpen, core, ghostVars>>

\* The end of the handler: thread::Builder::spawn.
SpawnWorker ==
    /\ life > 0
    /\ worker.pc = "unborn"
    /\ out = <<>>
    /\ worker' = [worker EXCEPT !.pc = "send", !.ev = "TurnAccepted", !.n = 1]
    /\ UNCHANGED <<journalVars, life, starts, clientVars, attached, loopVars, faults, ghostVars>>

\* The spawn fails: the core returns the error.
SpawnFails ==
    /\ life > 0
    /\ worker.pc = "unborn"
    /\ out = <<>>
    /\ Fault
    /\ Down
    /\ UNCHANGED <<log, synced>>

ActiveFrame(kind, status, call) ==
    Frame(active.turn, active.digest, kind, status, call, next)

\* A frame the active turn has no use for: an unscoped answer when no turn is
\* active or the frame does not concern one, else a host.error that takes a
\* position in the turn and is not journaled.
RecvUseless ==
    /\ Receives({"plain", "refused", "turn.cancel", "tool.cancel", "turn.start"})
    /\ LET m == Head(queue)
       IN  IF m.type = "plain" \/ (active = None /\ m.type # "turn.start")
           THEN Write(<<Unscoped>>) /\ UNCHANGED next
           ELSE /\ active # None
                /\ \/ m.type \in {"refused", "turn.start"}
                   \/ m.turn # active.turn
                   \/ m.type = "tool.cancel" /\ worker.calls = 0
                /\ next' = After(next)
                /\ Write(<<Other>>)
    /\ UNCHANGED <<journalVars, life, starts, clientVars, attached, inputOpen, active, core,
                   worker, faults, ghostVars>>

\* handle_turn_cancel: the flag is raised first, the acknowledgement goes out
\* even when the journal refuses it.
RecvTurnCancel ==
    /\ Receives({"turn.cancel"})
    /\ active # None
    /\ Head(queue).turn = active.turn
    /\ AppendFrame(ActiveFrame("turn.cancel.accepted", None, 0))
    /\ Write(<<Other>>)
    /\ next' = After(next)
    /\ worker' = [worker EXCEPT !.cancelled = TRUE]
    /\ UNCHANGED <<life, starts, clientVars, attached, inputOpen, active, core, ghostVars>>

\* handle_tool_cancel of a registered call.
RecvToolCancel ==
    /\ Receives({"tool.cancel"})
    /\ active # None
    /\ Head(queue).turn = active.turn
    /\ worker.calls > 0
    /\ AppendFrame(ActiveFrame("tool.cancel.accepted", None, worker.calls))
    /\ Write(<<Other>>)
    /\ next' = After(next)
    /\ UNCHANGED <<life, starts, clientVars, attached, inputOpen, active, core, worker,
                   ghostVars>>

RecvEof ==
    /\ Receives({"eof"})
    /\ inputOpen' = FALSE
    /\ UNCHANGED <<journalVars, life, starts, clientVars, attached, next, active, core, out,
                   worker, faults, ghostVars>>

Emit(w, ev) == [w EXCEPT !.pc = "send", !.ev = ev, !.n = @ + 1]
Conclude(w, result) == [w EXCEPT !.pc = "done", !.result = result]
Terminal(w, result) == Emit([w EXCEPT !.result = result], "TurnTerminal")

\* Mutant: a tool call goes on when its acceptance has no receipt.
ResumeUnacknowledged(w, ok) ==
    CASE w.ev = "TurnAccepted" -> IF ok THEN [w EXCEPT !.pc = "provider"] ELSE Conclude(w, "host_failed")
      [] w.ev = "TurnTerminal" -> Conclude(w, IF ok THEN w.result ELSE "host_failed")
      [] w.ev \in {"model.delta", "tool.result"} -> [w EXCEPT !.pc = "provider"]
      [] w.ev = "tool.accepted" -> [w EXCEPT !.pc = "spawn"]
      [] w.ev = "tool.started" -> Emit(w, "tool.result")

\* What the worker does once push_event has returned.
Resume(w, ok) ==
    CASE w.ev = "TurnAccepted" ->
             IF ~ok THEN Conclude(w, "host_failed")
             ELSE IF w.cancelled THEN Terminal(w, "cancelled")
             ELSE [w EXCEPT !.pc = "provider"]
      [] w.ev = "TurnTerminal" -> Conclude(w, IF ok THEN w.result ELSE "host_failed")
      [] w.ev = "model.delta" ->
             IF ok THEN [w EXCEPT !.pc = "provider"] ELSE Terminal(w, "provider_failed")
      [] w.ev = "tool.accepted" -> [w EXCEPT !.pc = IF ok THEN "spawn" ELSE "provider"]
      [] w.ev = "tool.started" ->
             IF ok THEN Emit(w, "tool.result") ELSE [w EXCEPT !.pc = "provider"]
      [] w.ev = "tool.result" -> [w EXCEPT !.pc = "provider"]

\* receipt.send: it reaches a worker that is still waiting for this receipt, and
\* the worker goes on.
Answered(m, ok) ==
    IF worker.turn = m.turn /\ worker.pc = "wait" /\ worker.n = m.n
    THEN Resume(worker, ok) ELSE worker

\* HostMessage::TurnEvent with a frame: journal, receipt, delivery.  A journal
\* that refuses it cancels the turn.
RecvEvent ==
    /\ Receives({"event"})
    /\ active # None
    /\ LET m == Head(queue)
       IN  /\ m.kind \notin Silent
           /\ AppendFrame(ActiveFrame(m.kind, None, m.call))
           /\ IF disabled'
              THEN /\ worker' = [Answered(m, FALSE) EXCEPT !.cancelled = TRUE]
                   /\ Write(<<>>)
              ELSE /\ worker' = Answered(m, TRUE)
                   /\ Write(<<Other>>)
    /\ next' = After(next)
    /\ UNCHANGED <<life, starts, clientVars, attached, inputOpen, active, core, ghostVars>>

\* One without a frame: only the state of the journal is asked.
RecvSilentEvent ==
    /\ Receives({"event"})
    /\ LET m == Head(queue)
       IN  /\ m.kind \in Silent \/ active = None
           /\ worker' = IF active = None THEN Answered(m, FALSE)
                        ELSE IF disabled THEN [Answered(m, FALSE) EXCEPT !.cancelled = TRUE]
                        ELSE Answered(m, TRUE)
    /\ runs' = IF worker.ev = "TurnAccepted" /\ worker.pc # "provider" /\ worker'.pc = "provider"
               THEN [runs EXCEPT ![worker.turn] = @ + 1] ELSE runs
    /\ UNCHANGED <<journalVars, life, starts, clientVars, attached, inputOpen, next, active,
                   core, out, faults, effects, outcome, ends>>

\* HostMessage::TurnComplete: with no active turn it is dropped, else the
\* worker of the active turn is joined.
RecvComplete ==
    /\ Receives({"complete"})
    /\ core' = IF active = None THEN core ELSE [pc |-> "joining", result |-> Head(queue).result]
    /\ UNCHANGED <<journalVars, life, starts, clientVars, attached, inputOpen, next, active,
                   out, worker, faults, ghostVars>>

\* finish_active_turn.
FinishActiveTurn(status) ==
    /\ LET f == ActiveFrame("turn.end", status, 0)
       IN  /\ AppendFrame(f)
           /\ Write(<<Delivered(f, disabled')>>)
    /\ next' = After(next)
    /\ active' = None
    /\ core' = Idle
    /\ worker' = NoWorker
    /\ UNCHANGED <<queue, life, starts, clientVars, attached, inputOpen, ghostVars>>

JoinWorker ==
    /\ life > 0
    /\ core.pc = "joining"
    /\ worker.pc = "exited"
    /\ FinishActiveTurn(core.result)

\* recv_timeout expires on the empty queue; whether the worker has finished is
\* asked after that, when its last message may already be in the queue.  A poll
\* that finds the worker in the middle of its turn changes nothing and is left
\* out.
PollExpires ==
    /\ Receiving
    /\ queue = <<>>
    /\ active # None
    /\ worker.pc \in {"done", "exited"}
    /\ core' = [Idle EXCEPT !.pc = "polled"]
    /\ UNCHANGED <<journalVars, life, starts, clientVars, attached, queue, inputOpen, next,
                   active, out, worker, faults, ghostVars>>

PollFindsWorker ==
    /\ life > 0
    /\ core.pc = "polled"
    /\ worker.pc # "exited"
    /\ core' = Idle
    /\ UNCHANGED <<journalVars, life, starts, clientVars, attached, queue, inputOpen, next,
                   active, out, worker, faults, ghostVars>>

\* Mutant: the core only waits for TurnComplete.
PollIgnoresExit ==
    /\ life > 0
    /\ core.pc = "polled"
    /\ worker.pc = "exited"
    /\ core' = Idle
    /\ UNCHANGED <<journalVars, life, starts, clientVars, attached, queue, inputOpen, next,
                   active, out, worker, faults, ghostVars>>

PollFindsExit ==
    /\ life > 0
    /\ core.pc = "polled"
    /\ worker.pc = "exited"
    /\ FinishActiveTurn("host_failed")

\* What the v7 host makes of a line of the core.
GateAfter(kind) ==
    CASE gate = "pending" /\ kind = "turn.accepted" -> "active"
      [] gate = "pending" /\ kind # "turn.accepted" -> "failed"
      [] gate = "active" /\ kind = "turn.end" -> "open"
      [] OTHER -> gate

DeliverFrame ==
    /\ life > 0
    /\ \E i \in DOMAIN out :
           LET f == out[i]
           IN  /\ Shown(f)
               /\ \A j \in 1 .. (i - 1) : ~Shown(out[j])
               /\ gate' = GateAfter(f.kind)
               /\ ends' = IF f.kind = "turn.end" /\ f.sure
                          THEN [ends EXCEPT ![f.turn] = @ \cup {f.status}] ELSE ends
               /\ out' = Remaining(SubSeq(out, i + 1, Len(out)))
    /\ UNCHANGED <<journalVars, life, starts, moves, attached, queue, inputOpen, next, active,
                   core, worker, faults, runs, effects, outcome>>

\* A frame of the worker's events, an acknowledgement of a cancel, a host.error.
DeliverOther ==
    /\ life > 0
    /\ out = <<Other>>
    /\ out' = <<>>
    /\ UNCHANGED <<journalVars, life, starts, clientVars, attached, queue, inputOpen, next,
                   active, core, worker, faults, ghostVars>>

\* write_frame fails, for instance on a frame above the bound.
DeliveryFails ==
    /\ life > 0
    /\ out # <<>>
    /\ Fault
    /\ attached' = FALSE
    /\ out' = <<>>
    /\ UNCHANGED <<journalVars, life, starts, clientVars, queue, inputOpen, next, active, core,
                   worker, ghostVars>>

-----------------------------------------------------------------------------
(* The worker: TurnRunner with the sink send_turn_event, and the provider. *)

\* try_send succeeds.
WorkerSends ==
    /\ worker.pc = "send"
    /\ Len(queue) < QueueDepth
    /\ queue' = Append(queue, [type |-> "event", turn |-> worker.turn, kind |-> worker.ev,
                               n |-> worker.n, call |-> worker.calls])
    /\ worker' = [worker EXCEPT !.pc = "wait"]
    /\ UNCHANGED <<journalVars, life, starts, clientVars, attached, inputOpen, next, active,
                   core, out, faults, ghostVars>>

\* The 30 seconds are over, in the queue or not.
WorkerExpires ==
    /\ worker.pc \in {"send", "wait"}
    /\ Fault
    /\ worker' = Resume(worker, FALSE)
    /\ UNCHANGED <<journalVars, life, starts, clientVars, attached, loopVars, ghostVars>>

ProviderEmits ==
    /\ worker.pc = "provider"
    /\ worker.n < MaxEvents
    /\ worker' = Emit(worker, "model.delta")
    /\ UNCHANGED <<journalVars, life, starts, clientVars, attached, loopVars, faults, ghostVars>>

\* invoke_tool of a new call, refused without an event when cancelled.
ProviderCalls ==
    /\ worker.pc = "provider"
    /\ worker.n < MaxEvents
    /\ ~worker.cancelled
    /\ worker' = Emit([worker EXCEPT !.calls = @ + 1], "tool.accepted")
    /\ UNCHANGED <<journalVars, life, starts, clientVars, attached, loopVars, faults, ghostVars>>

\* A call that is not dispatched because the turn was cancelled after
\* invoke_tool looked (ToolInhibited) or the call is known (ToolExisting).
ProviderCallsInVain ==
    /\ worker.pc = "provider"
    /\ worker.n < MaxEvents
    /\ worker' = Emit([worker EXCEPT !.calls = @ + 1], "tool.result")
    /\ UNCHANGED <<journalVars, life, starts, clientVars, attached, loopVars, faults, ghostVars>>

\* run_turn returns: because of the cancellation, or on its own or by its timeout
\* with a status for which "completed" stands.
ProviderEnds ==
    /\ worker.pc = "provider"
    /\ \E result \in {"completed"} \cup (IF worker.cancelled THEN {"cancelled"} ELSE {}) :
           worker' = Terminal(worker, result)
    /\ UNCHANGED <<journalVars, life, starts, clientVars, attached, loopVars, faults, ghostVars>>

\* execute_process after its Accepted event: a child, unless the token is
\* cancelled or the spawn fails.
ToolSpawns ==
    /\ worker.pc = "spawn"
    /\ ~worker.cancelled
    /\ effects' = effects \cup {[turn |-> worker.turn, life |-> life, call |-> worker.calls]}
    /\ worker' = Emit(worker, "tool.started")
    /\ UNCHANGED <<journalVars, life, starts, clientVars, attached, loopVars, faults, runs,
                   outcome, ends>>

ToolDoesNotSpawn ==
    /\ worker.pc = "spawn"
    /\ worker' = Emit(worker, "tool.result")
    /\ UNCHANGED <<journalVars, life, starts, clientVars, attached, loopVars, faults, ghostVars>>

\* The blocking send of TurnComplete is the last the worker does.
WorkerCompletes ==
    /\ worker.pc = "done"
    /\ Len(queue) < QueueDepth
    /\ queue' = Append(queue, [type |-> "complete", turn |-> worker.turn, result |-> worker.result])
    /\ worker' = [worker EXCEPT !.pc = "exited"]
    /\ outcome' = [outcome EXCEPT ![worker.turn] = worker.result]
    /\ UNCHANGED <<journalVars, life, starts, clientVars, attached, inputOpen, next, active,
                   core, out, faults, runs, effects, ends>>

\* A panic outside of the callbacks that catch one.
WorkerPanics ==
    /\ worker.pc = "done"
    /\ Fault
    /\ worker' = [worker EXCEPT !.pc = "exited"]
    /\ UNCHANGED <<journalVars, life, starts, clientVars, attached, loopVars, ghostVars>>

-----------------------------------------------------------------------------

HostStep ==
    \/ Start \/ Kill \/ PowerLoss \/ SendEof
    \/ \E m \in Requests : (log = <<>> => m = First) /\ SendStart(m.turn, m.digest)
    \/ \E m \in Controls : SendControl(m)

CoreStep ==
    \/ CoreReturns
    \/ RefuseStart \/ ReplayTurn \/ CloseUnknownTurn \/ AcceptTurn
    \/ SpawnWorker \/ SpawnFails
    \/ RecvUseless \/ RecvTurnCancel \/ RecvToolCancel \/ RecvEof
    \/ RecvEvent \/ RecvSilentEvent
    \/ RecvComplete \/ JoinWorker
    \/ PollExpires \/ PollFindsWorker \/ PollFindsExit
    \/ DeliverFrame \/ DeliverOther \/ DeliveryFails

WorkerStep ==
    \/ WorkerSends \/ WorkerExpires
    \/ ProviderEmits \/ ProviderCalls \/ ProviderCallsInVain \/ ProviderEnds
    \/ ToolSpawns \/ ToolDoesNotSpawn
    \/ WorkerCompletes \/ WorkerPanics

CoreNext == HostStep \/ CoreStep \/ WorkerStep

CoreSpec == CoreInit /\ [][CoreNext]_coreVars

\* The core and the worker are threads of their own; the provider's session has
\* a deadline, and a write of the core returns or fails.
FairCoreSpec == CoreSpec /\ WF_coreVars(CoreStep) /\ WF_coreVars(WorkerStep)

-----------------------------------------------------------------------------
(* Properties.                                                             *)

Synced(i) == i \in 1 .. synced

\* "incomplete_turn_redispatch": FALSE.  However often a turn.start is sent
\* again, to this process or to later ones, the provider runs once for a turn.
ProviderRunsOnce == \A t \in Turns : runs[t] <= 1

\* The producer cannot pass an effect acceptance until the host has journaled
\* it: every process a tool call started has its tool.accepted, and its turn
\* its turn.accepted, on stable storage, whatever crashes and however late
\* receipts come.
EffectIsJournaled ==
    \A e \in effects : \E i, j \in DOMAIN log :
        /\ i < j /\ Synced(j)
        /\ log[i].kind = "turn.accepted" /\ log[i].turn = e.turn
        /\ log[j].kind = "tool.accepted" /\ log[j].turn = e.turn
        /\ log[j].call = e.call /\ log[j].life = e.life

\* Persistence::load never refuses what the core itself has stored: a turn
\* begins with turn.accepted, has one digest, ends with its only turn.end, its
\* host_seq grow and its event ids differ.
LogLoads ==
    \A t \in Turns :
        LET recs == Records(t)
        IN  /\ \A i \in recs : (\A j \in recs : i <= j) =>
                   log[i].kind = "turn.accepted" /\ Load(t, log[i].digest) # "conflict"
            /\ \A i, j \in recs :
                   i < j => log[i].seq < log[j].seq /\ log[i].id # log[j].id

\* A client that has seen the journaled end of a turn sees the same end on every
\* later replay: no crash, power loss or retry takes it back or replaces it.
ShownEndIsDurable ==
    \A t \in Turns : \A status \in ends[t] :
        \E i \in DOMAIN log : /\ Synced(i)
                              /\ log[i].turn = t
                              /\ log[i].kind = "turn.end"
                              /\ log[i].status = status

\* The end that is stored for a turn, when it reports a provider outcome, is the
\* one its own worker sent: a completion left in the queue by the poll that
\* overtook it never ends the next turn.
EndIsOwn ==
    \A i \in DOMAIN log :
        log[i].kind = "turn.end" /\ log[i].status \in {"completed", "cancelled", "provider_failed"}
            => outcome[log[i].turn] = log[i].status

\* Every accepted turn is closed, also when its worker dies without a word, the
\* client is gone, the journal fails or receipts come too late.
TurnEnds == (active # None) ~> (active = None)

\* An event id that is used again is an identity conflict: the core only loses
\* its journal to a failure of the storage.
JournalStaysUsable == faults = 0 => ~disabled

=============================================================================
