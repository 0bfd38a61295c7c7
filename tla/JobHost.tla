------------------------------ MODULE JobHost ------------------------------
(***************************************************************************)
(* The job-aware control host (r5_control_host_v7/process.rs): an outer    *)
(* loop between the input reader, the turn core and the job manager.       *)
(*                                                                         *)
(* Three threads meet in two bounded channels.  The reader and the core    *)
(* send to `outer`, which the loop receives from; the loop and the turn's  *)
(* worker send to `inner`, which the core receives from.  All sends block  *)
(* on a full channel.  The loop keeps job frames behind HelloJobBarrier    *)
(* while the answer to a hello or a turn.start is outstanding, and it may  *)
(* return only when core, input, jobs, job events and waits are finished.  *)
(*                                                                         *)
(* A frame is its kind and its position in the input.  The turn core is    *)
(* reduced to which frames it answers with which lines (TurnCore has the   *)
(* rest), a job to its numbered runtime events, the last one its terminal  *)
(* (JobManager has the rest).                                              *)
(***************************************************************************)
EXTENDS Naturals, Sequences, FiniteSets, SequencesExt

CONSTANTS
    Scripts,        \* what a client may send, as sequences of frame kinds
    OuterDepth,     \* JOB_HOST_QUEUE_DEPTH
    CoreDepth,      \* HOST_QUEUE_DEPTH
    DispatchLimit,  \* MAX_HELLO_DEFERRED_JOB_FRAMES - .._RESOURCE_ERRORS
    RefuseLimit,    \* MAX_HELLO_DEFERRED_RESOURCE_ERRORS
    ErrorLimit,     \* MAX_HELLO_DEFERRED_PROTOCOL_ERRORS
    MaxWaits,       \* MAX_PENDING_JOB_WAITS
    MaxJobs,        \* jobs the manager accepts
    MaxEvents,      \* bound: runtime events of a job, its terminal included
    Page,           \* events delivered per poll of a job
    Retained,       \* runtime events a job retains
    MaxFaults       \* bound: faults

FrameKind == {"hello", "turn", "start", "act", "wait", "control"}
JobKind == {"start", "act", "wait"}     \* act: write, resize, kill, attach, ...
Frame == UNION {DOMAIN s : s \in Scripts}

ASSUME JobHostAssumption ==
    /\ \A s \in Scripts : IsFiniteSet(DOMAIN s) /\ s \in Seq(FrameKind)
    /\ {OuterDepth, CoreDepth, Page, Retained, MaxEvents} \subseteq Nat \ {0}
    /\ {DispatchLimit, RefuseLimit, ErrorLimit, MaxWaits, MaxJobs, MaxFaults} \subseteq Nat

VARIABLES
    script,     \* what the client sends, unless it closes its end before
    sent,       \* kinds of the frames read from stdin so far
    reader,     \* "reading" | "closed"
    outer,      \* channel to the loop
    inner,      \* channel to the core
    core,       \* the turn core: [pc, active, input, lines, stop]
    worker,     \* the worker of the active turn is running
    barrier,    \* HelloJobBarrier
    release,    \* BarrierRelease that flush_barrier_release works through
    pc,         \* where the loop is
    hand,       \* message the loop is sending to the core
    inputOpen, coreOpen, attached,
    jobs,       \* frame of the job.start |-> the job
    waits,      \* pending_waits, by the frame of the job.wait
    remaining,  \* waits this round has looked at and kept
    due,        \* waits whose deadline has passed
    live,       \* jobs_live_before_poll
    more,       \* job_events_pending
    poll,       \* jobs this round has still to poll
    log,        \* history: what the loop did, in order
    faults      \* history: faults so far

readerVars == <<script, sent, reader>>
coreVars == <<core, worker>>
loopVars == <<pc, hand, inputOpen, coreOpen>>
pollVars == <<live, more, poll>>
barrierVars == <<barrier, release>>
waitVars == <<waits, remaining, due>>
jobVars == <<jobs, waitVars>>
writeVars == <<attached, log, faults>>
vars == <<readerVars, outer, inner, coreVars, barrierVars, loopVars, pollVars,
          jobVars, writeVars>>

-----------------------------------------------------------------------------
(* HelloJobBarrier *)

Job(i, d) == [t |-> "job", id |-> i, how |-> d]
ProtocolError(i) == [t |-> "error", id |-> i, how |-> "refuse"]

OpenBarrier == [failed |-> FALSE, seen |-> FALSE, started |-> FALSE,
                ack |-> FALSE, accept |-> FALSE, active |-> FALSE,
                deferred |-> <<>>, dispatch |-> 0, refuse |-> 0, errors |-> 0,
                droppedJobs |-> {}, droppedErrors |-> {}]

pending(b) == b.ack \/ b.accept

defer_protocol_error(b, i) ==
    IF b.errors < ErrorLimit
    THEN [b EXCEPT !.errors = @ + 1, !.deferred = Append(@, ProtocolError(i))]
    ELSE [b EXCEPT !.droppedErrors = @ \cup {i}]

HelloAdmitted(b) == ~b.failed /\ ~b.seen /\ ~b.started

observe_hello(b, i) ==
    IF HelloAdmitted(b)
    THEN [b EXCEPT !.seen = TRUE, !.ack = TRUE]
    ELSE defer_protocol_error(b, i)

TurnAdmitted(b) == ~b.failed /\ ~b.active /\ ~b.accept

observe_turn_start(b, i) ==
    IF TurnAdmitted(b)
    THEN [b EXCEPT !.started = TRUE, !.accept = TRUE]
    ELSE defer_protocol_error(b, i)

observe_turn_end(b) == [b EXCEPT !.active = FALSE]

\* Mutant: what finds no room is forgotten.
DeferSilently(b, i, fits) ==
    IF b.dispatch < DispatchLimit
    THEN [b EXCEPT !.dispatch = @ + 1, !.deferred = Append(@, Job(i, "dispatch"))]
    ELSE b

\* The byte budgets are the choice of `fits`, the budgets that have room for
\* the frame; the budget of the frames to dispatch has room for any first one.
defer(b, i, fits) ==
    LET dispatches == b.dispatch < DispatchLimit /\ (b.dispatch = 0 \/ "dispatch" \in fits)
        refuses == /\ Len(b.deferred) < DispatchLimit + RefuseLimit
                   /\ b.refuse < RefuseLimit /\ "refuse" \in fits
    IN  CASE dispatches -> [b EXCEPT !.dispatch = @ + 1, !.deferred = Append(@, Job(i, "dispatch"))]
          [] ~dispatches /\ refuses ->
                           [b EXCEPT !.refuse = @ + 1, !.deferred = Append(@, Job(i, "refuse"))]
          [] ~dispatches /\ ~refuses -> [b EXCEPT !.droppedJobs = @ \cup {i}]

NoRelease == [failed |-> FALSE, actions |-> <<>>, jobs |-> {}, errors |-> {}]

Release(b) == [failed |-> b.failed, actions |-> b.deferred,
               jobs |-> b.droppedJobs, errors |-> b.droppedErrors]

drain_release(b) ==
    [b EXCEPT !.deferred = <<>>, !.dispatch = 0, !.refuse = 0, !.errors = 0,
              !.droppedJobs = {}, !.droppedErrors = {}]

fail(b) == [b EXCEPT !.failed = TRUE, !.ack = FALSE, !.accept = FALSE]

\* Mutant: one gate for both boundaries.
OpenAllGates(b) == [b EXCEPT !.ack = FALSE, !.accept = FALSE]

acknowledge_hello(b) == [b EXCEPT !.ack = FALSE]

mark_turn_accepted(b) == [b EXCEPT !.accept = FALSE, !.active = TRUE]

-----------------------------------------------------------------------------
(* What the loop does: effects on jobs and lines to the client *)

Entry(k, i) == [k |-> k, id |-> i]
Message(t, e) == [t |-> t, k |-> e.k, id |-> e.id]     \* JobHostMessage
NoJob == [st |-> "none", events |-> 0, oldest |-> 0, cursor |-> 0,
          gap |-> <<>>, told |-> 0, down |-> FALSE]
Registered(js) == {i \in Frame : js[i].st # "none"}

\* deliver_raw_line: the first write that fails detaches the client, and
\* nothing is written after it; the log goes on with what the loop does.
Deliver(e) ==
    /\ log' = Append(log, e)
    /\ \/ UNCHANGED <<attached, faults>>
       \/ /\ attached /\ faults < MaxFaults
          /\ attached' = FALSE /\ faults' = faults + 1

\* Only a start is taken when no job is known.
handle_job_frame(i) ==
    \/ /\ sent[i] = "start" /\ Cardinality(Registered(jobs)) < MaxJobs
       /\ jobs' = [jobs EXCEPT ![i].st = "live"]
       /\ Deliver(Entry("effect", i)) /\ UNCHANGED waitVars
    \/ /\ sent[i] = "act" /\ Registered(jobs) # {}
       /\ Deliver(Entry("effect", i)) /\ UNCHANGED jobVars
    \/ /\ sent[i] = "wait" /\ Registered(jobs) # {} /\ Len(waits) < MaxWaits
       /\ waits' = Append(waits, i)
       /\ UNCHANGED <<jobs, remaining, due, writeVars>>

\* Any request may be refused, by its decoding, for its job or by the manager.
dispatch_job_frame(i) ==
    \/ handle_job_frame(i)
    \/ Deliver(Entry("refuse", i)) /\ UNCHANGED jobVars

\* The barrier becomes b; if that leaves nothing pending, what it held is
\* released (take_release_if_open, fail).
Settle(b) ==
    /\ hand' = Entry("none", 0)
    /\ \/ /\ pending(b)
          /\ barrier' = b /\ pc' = "sample"
          /\ UNCHANGED release
       \/ /\ ~pending(b)
          /\ barrier' = drain_release(b) /\ release' = Release(b) /\ pc' = "flush"

\* The threads end with the process, when the loop has returned.
Alive == pc # "exit"

-----------------------------------------------------------------------------
(* The input reader: spawn_job_input_reader.  InputError is handled as     *)
(* InputEof is, and both are the reader's last message.                    *)

ReadFrame ==
    /\ Alive /\ reader = "reading" /\ Len(sent) < Len(script) /\ Len(outer) < OuterDepth
    /\ sent' = Append(sent, script[Len(sent) + 1])
    /\ outer' = Append(outer, Message("frame", Entry(sent'[Len(sent) + 1], Len(sent) + 1)))
    /\ UNCHANGED <<script, reader, inner, coreVars, barrierVars, loopVars, pollVars,
                   jobVars, writeVars>>

ReadEof ==
    /\ Alive /\ reader = "reading" /\ Len(outer) < OuterDepth
    /\ reader' = "closed"
    /\ outer' = Append(outer, Message("eof", Entry("eof", 0)))
    /\ UNCHANGED <<script, sent, inner, coreVars, barrierVars, loopVars, pollVars,
                   jobVars, writeVars>>

-----------------------------------------------------------------------------
(* The turn core: process_messages_with_control_seq, its lines through     *)
(* CoreChannelWriter, and the worker of its active turn.                   *)

CoreIdle == Alive /\ core.pc = "run" /\ core.lines = <<>>
CoreReturns == core.active = 0 /\ (~core.input \/ core.stop # "no")

CoreUnchanged == UNCHANGED <<readerVars, outer, barrierVars, loopVars, pollVars, jobVars,
                             attached, log>>

\* A core whose writer is detached says no more.
Lines(ls) == IF core.stop = "no" THEN ls ELSE <<>>

CoreFrame ==
    /\ CoreIdle /\ ~CoreReturns /\ inner # <<>> /\ Head(inner).k = "frame"
    /\ inner' = Tail(inner)
    /\ LET i == Head(inner).id
           say(ls) == core' = [core EXCEPT !.lines = Lines(ls)]
       IN  \/ /\ sent[i] = "hello" /\ core.active = 0 /\ say(<<Entry("ack", i)>>)
              /\ UNCHANGED <<worker, faults>>
           \/ /\ sent[i] = "turn" /\ core.active = 0
              /\ say(<<Entry("accepted", i), Entry("end", i)>>)     \* the turn is replayed
              /\ UNCHANGED <<worker, faults>>
           \/ /\ sent[i] = "turn" /\ core.active = 0
              /\ core' = [core EXCEPT !.lines = Lines(<<Entry("accepted", i)>>), !.active = i]
              /\ worker' = TRUE
              /\ UNCHANGED faults
           \/ /\ sent[i] = "turn" /\ core.active = 0
              /\ say(<<Entry("other", i)>>)    \* invalid, conflicting or not journaled
              /\ UNCHANGED <<worker, faults>>
           \/ /\ sent[i] = "turn" /\ core.active = 0 /\ faults < MaxFaults
              /\ core' = [core EXCEPT !.lines = Lines(<<Entry("accepted", i)>>),
                                      !.stop = "error"]   \* its worker cannot be spawned
              /\ faults' = faults + 1
              /\ UNCHANGED worker
           \/ /\ core.active # 0 \/ sent[i] = "control"
              /\ say(<<Entry("other", i)>>)
              /\ UNCHANGED <<worker, faults>>
           \/ /\ faults < MaxFaults
              /\ core' = [core EXCEPT !.stop = "detached"]   \* the answer is too long
              /\ faults' = faults + 1
              /\ UNCHANGED worker
    /\ CoreUnchanged

CoreEof ==
    /\ CoreIdle /\ ~CoreReturns /\ inner # <<>> /\ Head(inner).k = "eof"
    /\ inner' = Tail(inner)
    /\ core' = [core EXCEPT !.input = FALSE]
    /\ CoreUnchanged /\ UNCHANGED <<worker, faults>>

CoreTurnEnd ==
    /\ CoreIdle /\ ~CoreReturns /\ inner # <<>> /\ Head(inner).k = "done"
    /\ inner' = Tail(inner)
    /\ core' = [core EXCEPT !.lines = Lines(<<Entry("end", core.active)>>), !.active = 0]
    /\ CoreUnchanged /\ UNCHANGED <<worker, faults>>

\* The worker's last message.  The lines of the events before it pass the
\* loop as any line without a meaning for the barrier does.
Worker ==
    /\ Alive /\ worker /\ Len(inner) < CoreDepth
    /\ inner' = Append(inner, Entry("done", core.active))
    /\ worker' = FALSE
    /\ CoreUnchanged /\ UNCHANGED <<core, faults>>

CoreWrite ==
    /\ Alive /\ core.pc = "run" /\ core.lines # <<>> /\ Len(outer) < OuterDepth
    /\ outer' = Append(outer, Message("line", Head(core.lines)))
    /\ core' = [core EXCEPT !.lines = Tail(@)]
    /\ UNCHANGED <<readerVars, inner, worker, barrierVars, loopVars, pollVars,
                   jobVars, writeVars>>

\* The receiver is gone when process_messages_with_control_seq has returned,
\* CoreComplete is sent after that.
CoreReturn ==
    /\ CoreIdle /\ CoreReturns
    /\ core' = [core EXCEPT !.pc = "returned"]
    /\ inner' = <<>>
    /\ CoreUnchanged /\ UNCHANGED <<worker, faults>>

CoreComplete ==
    /\ Alive /\ core.pc = "returned" /\ Len(outer) < OuterDepth
    /\ outer' = Append(outer, Message("complete", Entry("complete", 0)))
    /\ core' = [core EXCEPT !.pc = "done"]
    /\ UNCHANGED <<readerVars, inner, worker, barrierVars, loopVars, pollVars,
                   jobVars, writeVars>>

-----------------------------------------------------------------------------
(* process_job_host: one message, one poll of the jobs, one look at the    *)
(* waits, and whether to return.                                           *)

Receives(t) == pc = "recv" /\ outer # <<>> /\ Head(outer).t = t /\ outer' = Tail(outer)

LoopUnchanged == UNCHANGED <<readerVars, inner, coreVars, pollVars>>

Forward(e) == pc' = "send" /\ hand' = e
Handled == pc' = "sample" /\ hand' = Entry("none", 0)

RecvHello ==
    /\ Receives("frame") /\ Head(outer).k = "hello"
    /\ LET i == Head(outer).id
           b == observe_hello(barrier, i)
       IN  \/ /\ HelloAdmitted(barrier)
              /\ barrier' = b /\ log' = Append(log, Entry("forward", i))
              /\ Forward(Entry("frame", i)) /\ UNCHANGED release
           \/ ~HelloAdmitted(barrier) /\ Settle(b) /\ UNCHANGED log
    /\ LoopUnchanged /\ UNCHANGED <<inputOpen, coreOpen, jobVars, attached, faults>>

RecvTurn ==
    /\ Receives("frame") /\ Head(outer).k = "turn"
    /\ LET i == Head(outer).id
           b == observe_turn_start(barrier, i)
       IN  \/ /\ TurnAdmitted(barrier)
              /\ barrier' = b /\ log' = Append(log, Entry("forward", i))
              /\ Forward(Entry("frame", i)) /\ UNCHANGED release
           \/ ~TurnAdmitted(barrier) /\ Settle(b) /\ UNCHANGED log
    /\ LoopUnchanged /\ UNCHANGED <<inputOpen, coreOpen, jobVars, attached, faults>>

RecvJobFrame ==
    /\ Receives("frame") /\ Head(outer).k \in JobKind
    /\ LET i == Head(outer).id IN
       \/ /\ pending(barrier)
          /\ \E fits \in SUBSET {"dispatch", "refuse"} : barrier' = defer(barrier, i, fits)
          /\ UNCHANGED <<jobVars, writeVars>>
       \/ /\ ~pending(barrier) /\ barrier.failed
          /\ Deliver(Entry("refuse", i))
          /\ UNCHANGED <<barrier, jobVars>>
       \/ /\ ~pending(barrier) /\ ~barrier.failed
          /\ dispatch_job_frame(i)
          /\ UNCHANGED barrier
    /\ Handled
    /\ LoopUnchanged /\ UNCHANGED <<release, inputOpen, coreOpen>>

RecvControl ==
    /\ Receives("frame") /\ Head(outer).k = "control"
    /\ Forward(Entry("frame", Head(outer).id))
    /\ LoopUnchanged /\ UNCHANGED <<barrierVars, jobVars, writeVars, inputOpen, coreOpen>>

\* Mutant: the end of the input is not passed on while frames are held back.
EofHeldBack ==
    /\ Receives("eof")
    /\ inputOpen' = FALSE
    /\ IF pending(barrier) THEN Handled ELSE Forward(Entry("eof", 0))
    /\ LoopUnchanged /\ UNCHANGED <<barrierVars, jobVars, writeVars, coreOpen>>

RecvEof ==
    /\ Receives("eof")
    /\ inputOpen' = FALSE
    /\ Forward(Entry("eof", 0))
    /\ LoopUnchanged /\ UNCHANGED <<barrierVars, jobVars, writeVars, coreOpen>>

\* core_sender.send blocks while the core's channel is full and fails when
\* the core has returned.
SendToCore ==
    /\ pc = "send" /\ core.pc = "run" /\ Len(inner) < CoreDepth
    /\ inner' = Append(inner, hand)
    /\ Handled
    /\ UNCHANGED <<readerVars, outer, coreVars, barrierVars, inputOpen, coreOpen, pollVars,
                   jobVars, writeVars>>

SendFails ==
    /\ pc = "send" /\ core.pc # "run"
    /\ coreOpen' = FALSE
    /\ \/ pending(barrier) /\ Settle(fail(barrier))
       \/ ~pending(barrier) /\ Handled /\ UNCHANGED barrierVars
    /\ LoopUnchanged /\ UNCHANGED <<outer, inputOpen, jobVars, writeVars>>

\* The line is delivered before what it releases.
RecvCoreLine ==
    /\ Receives("line")
    /\ LET line == Entry(Head(outer).k, Head(outer).id)
           acks == line.k = "ack" /\ barrier.ack
           accepts == line.k = "accepted" /\ barrier.accept
       IN  /\ Deliver(line)
           /\ \/ acks /\ Settle(acknowledge_hello(barrier))
              \/ accepts /\ Settle(mark_turn_accepted(barrier))
              \/ pending(barrier) /\ ~acks /\ ~accepts /\ Settle(fail(barrier))
              \/ /\ ~pending(barrier) /\ Handled
                 /\ barrier' = IF line.k = "end" THEN observe_turn_end(barrier) ELSE barrier
                 /\ UNCHANGED release
    /\ LoopUnchanged /\ UNCHANGED <<inputOpen, coreOpen, jobVars>>

RecvCoreComplete ==
    /\ Receives("complete")
    /\ coreOpen' = FALSE
    /\ IF core.stop = "error" THEN Deliver(Entry("core failed", 0)) ELSE UNCHANGED writeVars
    /\ \/ pending(barrier) /\ Settle(fail(barrier))
       \/ ~pending(barrier) /\ Handled /\ UNCHANGED barrierVars
    /\ LoopUnchanged /\ UNCHANGED <<inputOpen, jobVars>>

RecvTimeout ==
    /\ pc = "recv" /\ outer = <<>>
    /\ Handled
    /\ LoopUnchanged
    /\ UNCHANGED <<outer, barrierVars, jobVars, writeVars, inputOpen, coreOpen>>

-----------------------------------------------------------------------------
(* flush_barrier_release: what was deferred in its order, then the counts  *)
(* of what found no room.                                                  *)

FlushUnchanged == UNCHANGED <<outer, barrier, inputOpen, coreOpen>>

FlushAction ==
    /\ pc = "flush" /\ release.actions # <<>>
    /\ LET a == Head(release.actions) IN
       \/ /\ a.t = "error"
          /\ Deliver(Entry("error", a.id)) /\ UNCHANGED jobVars
       \/ /\ a.t = "job" /\ (release.failed \/ a.how = "refuse")
          /\ Deliver(Entry("refuse", a.id)) /\ UNCHANGED jobVars
       \/ /\ a.t = "job" /\ ~release.failed /\ a.how = "dispatch"
          /\ dispatch_job_frame(a.id)
    /\ release' = [release EXCEPT !.actions = Tail(@)]
    /\ LoopUnchanged /\ FlushUnchanged /\ UNCHANGED <<pc, hand>>

FlushSummary ==
    /\ pc = "flush" /\ release.actions = <<>> /\ release.jobs # {}
    /\ Deliver(Entry("summary", release.jobs))
    /\ release' = [release EXCEPT !.jobs = {}]
    /\ LoopUnchanged /\ FlushUnchanged /\ UNCHANGED <<pc, hand, jobVars>>

FlushSuppressed ==
    /\ pc = "flush" /\ release.actions = <<>> /\ release.jobs = {} /\ release.errors # {}
    /\ Deliver(Entry("suppressed", release.errors))
    /\ release' = [release EXCEPT !.errors = {}]
    /\ LoopUnchanged /\ FlushUnchanged /\ UNCHANGED <<pc, hand, jobVars>>

FlushDone ==
    /\ pc = "flush" /\ release.actions = <<>> /\ release.jobs = {} /\ release.errors = {}
    /\ release' = NoRelease
    /\ Handled
    /\ LoopUnchanged /\ FlushUnchanged /\ UNCHANGED <<jobVars, writeVars>>

-----------------------------------------------------------------------------
(* The end of the loop's body: the jobs' events, the waits, the return.    *)

\* jobs_are_live, before any job is polled.
Sample ==
    /\ pc = "sample"
    /\ live' = \E i \in Frame : jobs[i].st \in {"live", "ending"}
    /\ more' = FALSE
    /\ poll' = IF pending(barrier) THEN {} ELSE Registered(jobs)
    /\ pc' = "poll"
    /\ UNCHANGED <<readerVars, outer, inner, coreVars, barrierVars, hand, inputOpen, coreOpen,
                   jobVars, writeVars>>

\* Events are not logged: their delivery is the job's `told`.
Writes(n) ==
    /\ UNCHANGED log
    /\ \/ UNCHANGED <<attached, faults>>
       \/ /\ n > 0 /\ attached /\ faults < MaxFaults
          /\ attached' = FALSE /\ faults' = faults + 1

\* poll_job_events for one job: a status once for a source that cannot be
\* read, the exact range of evicted events once, or one page of events.
poll_job_events(i) ==
    LET j == jobs[i]
        gap == <<j.cursor, j.oldest>>
        end == IF j.cursor + Page < j.events THEN j.cursor + Page ELSE j.events
    IN  /\ pc = "poll" /\ i \in poll /\ \A k \in poll : i <= k
        /\ poll' = poll \ {i}
        /\ \/ /\ faults < MaxFaults
              /\ faults' = faults + 1
              /\ jobs' = [jobs EXCEPT ![i].down = TRUE]
              /\ UNCHANGED <<more, attached, log>>
           \/ /\ j.cursor < j.oldest
              /\ more' = TRUE
              /\ jobs' = [jobs EXCEPT ![i] =
                    [j EXCEPT !.cursor = j.oldest, !.gap = gap, !.down = FALSE,
                              !.told = IF j.gap = gap THEN @ ELSE @ + (j.oldest - j.cursor)]]
              /\ Writes(IF j.gap = gap THEN 0 ELSE 1)
           \/ /\ j.cursor >= j.oldest
              /\ more' = (more \/ end < j.events)
              /\ jobs' = [jobs EXCEPT ![i] =
                    [j EXCEPT !.cursor = end, !.gap = <<>>, !.down = FALSE,
                              !.told = @ + (end - j.cursor)]]
              /\ Writes(end - j.cursor)
        /\ UNCHANGED <<readerVars, outer, inner, coreVars, barrierVars, loopVars, live, waitVars>>

\* poll_job_waits, one wait.  A wait is answered when its deadline has passed,
\* and before that when its poll finds its job terminal, the journal degraded
\* or absent, or its cursor out of range: none of these is known here, so any
\* wait may be answered early.
poll_job_waits ==
    /\ pc = "poll" /\ poll = {} /\ ~pending(barrier) /\ attached /\ waits # <<>>
    /\ \/ Deliver(Entry("waited", Head(waits))) /\ UNCHANGED remaining
       \/ /\ Head(waits) \notin due
          /\ remaining' = Append(remaining, Head(waits))
          /\ UNCHANGED writeVars
    /\ waits' = Tail(waits)
    /\ due' = due \ {Head(waits)}
    /\ UNCHANGED <<readerVars, outer, inner, coreVars, barrierVars, loopVars, pollVars, jobs>>

\* Mutant: liveness of the jobs is read after the poll.
MayReturnOnLateSample ==
    /\ ~coreOpen /\ waits' = <<>> /\ \A i \in Frame : jobs[i].st \notin {"live", "ending"}
    /\ (~inputOpen /\ ~more) \/ ~attached

\* The condition of the return at the end of the loop's body.
MayReturn ==
    /\ ~coreOpen /\ ~live /\ waits' = <<>>
    /\ (~inputOpen /\ ~more) \/ ~attached

\* The waits kept are pending again, without a client they are dropped.
FinishRound ==
    /\ pc = "poll" /\ poll = {}
    /\ pending(barrier) \/ waits = <<>> \/ ~attached
    /\ waits' = IF ~attached THEN <<>> ELSE IF pending(barrier) THEN waits ELSE remaining
    /\ remaining' = <<>>
    /\ due' = IF attached THEN due ELSE {}
    /\ pc' = IF MayReturn THEN "exit" ELSE "recv"
    /\ live' = FALSE /\ more' = FALSE
    /\ UNCHANGED <<readerVars, outer, inner, coreVars, barrierVars, hand, inputOpen, coreOpen,
                   poll, jobs, writeVars>>

-----------------------------------------------------------------------------
(* Jobs and time *)

JobUnchanged == UNCHANGED <<readerVars, outer, inner, coreVars, barrierVars, loopVars,
                            pollVars, writeVars>>

\* push_runtime_event: the oldest events beyond the retention are evicted.
Published(j) ==
    [j EXCEPT !.events = @ + 1,
              !.oldest = IF j.events + 1 > Retained THEN j.events + 1 - Retained ELSE @]

JobOutput(i) ==
    /\ Alive /\ jobs[i].st = "live" /\ jobs[i].events + 1 < MaxEvents
    /\ jobs' = [jobs EXCEPT ![i] = Published(@)]
    /\ JobUnchanged /\ UNCHANGED waitVars

JobTerminal(i) ==
    /\ Alive /\ jobs[i].st = "live"
    /\ jobs' = [jobs EXCEPT ![i] = [Published(@) EXCEPT !.st = "ending"]]
    /\ JobUnchanged /\ UNCHANGED waitVars

JobReleased(i) ==
    /\ Alive /\ jobs[i].st = "ending"
    /\ jobs' = [jobs EXCEPT ![i].st = "done"]
    /\ JobUnchanged /\ UNCHANGED waitVars

Deadline(i) ==
    /\ Alive /\ i \in ToSet(waits) \cup ToSet(remaining) /\ i \notin due
    /\ due' = due \cup {i}
    /\ JobUnchanged /\ UNCHANGED <<jobs, waits, remaining>>

-----------------------------------------------------------------------------
Init ==
    /\ script \in Scripts /\ sent = <<>> /\ reader = "reading" /\ outer = <<>> /\ inner = <<>>
    /\ core = [pc |-> "run", active |-> 0, input |-> TRUE, lines |-> <<>>, stop |-> "no"]
    /\ worker = FALSE
    /\ barrier = OpenBarrier /\ release = NoRelease
    /\ pc = "recv" /\ hand = Entry("none", 0) /\ inputOpen = TRUE /\ coreOpen = TRUE
    /\ jobs = [i \in Frame |-> NoJob] /\ waits = <<>> /\ remaining = <<>> /\ due = {}
    /\ live = FALSE /\ more = FALSE /\ poll = {}
    /\ attached = TRUE /\ log = <<>> /\ faults = 0

Loop ==
    \/ RecvHello \/ RecvTurn \/ RecvJobFrame \/ RecvControl \/ RecvEof
    \/ SendToCore \/ SendFails \/ RecvCoreLine \/ RecvCoreComplete \/ RecvTimeout
    \/ FlushAction \/ FlushSummary \/ FlushSuppressed \/ FlushDone
    \/ Sample \/ (\E i \in Frame : poll_job_events(i)) \/ poll_job_waits \/ FinishRound

Core == CoreFrame \/ CoreEof \/ CoreTurnEnd \/ CoreWrite \/ CoreReturn \/ CoreComplete

Reader == ReadFrame \/ ReadEof

Jobs(i) == JobTerminal(i) \/ JobReleased(i)

\* The loop waits for room in `inner` and the core, with a line in hand, for
\* room in `outer`: each is the only one that could make room for the other.
Circle ==
    /\ pc = "send" /\ Len(inner) = CoreDepth
    /\ core.pc = "run" /\ core.lines # <<>> /\ Len(outer) = OuterDepth

Halted == (pc = "exit" \/ Circle) /\ UNCHANGED vars

Next ==
    \/ Loop \/ Core \/ Worker \/ Reader
    \/ \E i \in Frame : JobOutput(i) \/ Jobs(i) \/ Deadline(i)
    \/ Halted

Spec == Init /\ [][Next]_vars

\* The threads are scheduled, processes end and deadlines pass; the client
\* need not send anything or close its end.
Fairness ==
    /\ WF_vars(Loop) /\ WF_vars(Core) /\ WF_vars(Worker)
    /\ \A i \in Frame : WF_vars(Jobs(i)) /\ WF_vars(Deadline(i))

FairSpec == Spec /\ Fairness

-----------------------------------------------------------------------------
(* Properties *)

JobFrame == {i \in DOMAIN sent : sent[i] \in JobKind}
Received == DOMAIN sent \ {outer[n].id : n \in {n \in DOMAIN outer : outer[n].t = "frame"}}

\* observe_turn_start promises that a pipelined job request "cannot let local
\* effects leapfrog turn.accepted": once a hello or a turn.start has gone to
\* the core, no job is touched before its own answer has been handed to the
\* client, however jobs, hellos, turns and controls are pipelined and
\* whatever the core says instead; and job requests, deferred or not, take
\* effect in the order they were read.
NoLeapfrog ==
    \A p \in DOMAIN log : log[p].k = "effect" =>
        \A f \in 1..(p - 1) :
            /\ log[f].k = "forward" =>
                   \E q \in f..p : log[q].k \in {"ack", "accepted"} /\ log[q].id = log[f].id
            /\ log[f].k = "effect" => log[f].id < log[p].id

\* An answer to job frame i: its result, an error, or its share of a count.
Answers(e, i) == \/ e.k \in {"effect", "refuse", "waited"} /\ e.id = i
                 \/ e.k = "summary" /\ i \in e.id

Holds(a, i) == a.t = "job" /\ a.id = i

\* Where job frame i is, each answer and each place in a queue for itself.
Places(i) ==
    {<<"log", p>> : p \in {p \in DOMAIN log : Answers(log[p], i)}}
    \cup {<<"deferred", p>> : p \in {p \in DOMAIN barrier.deferred : Holds(barrier.deferred[p], i)}}
    \cup {<<"released", p>> : p \in {p \in DOMAIN release.actions : Holds(release.actions[p], i)}}
    \cup {<<"waits", p>> : p \in {p \in DOMAIN waits : waits[p] = i}}
    \cup {<<"remaining", p>> : p \in {p \in DOMAIN remaining : remaining[p] = i}}
    \cup {<<"dropped", n>> : n \in {i} \cap barrier.droppedJobs}
    \cup {<<"counted", n>> : n \in {i} \cap release.jobs}

\* Every job frame the loop has received is deferred, waiting or answered, and
\* that once: by its result, by an error of its own or in the count of the
\* frames that found no room.  Only a client that is gone is owed nothing.
AnsweredOnce ==
    \A i \in JobFrame \cap Received :
        /\ \A p, q \in Places(i) : p = q
        /\ attached => Places(i) # {}

\* The loop returns to an attached client only when it has told everything:
\* each runtime event of each job was delivered or its loss announced, up to
\* the terminal (unless the source could not be read), no frame is held back,
\* and every line of the core was written.  The last does not hold of a core
\* that ended on its own: a send to it that fails closes core_open while its
\* last lines may still be in the channel.
ReturnIsComplete ==
    pc = "exit" /\ attached =>
        /\ \A i \in Frame : jobs[i].st \in {"none", "done"}
                            /\ (jobs[i].told = jobs[i].events \/ jobs[i].down)
        /\ barrier.deferred = <<>> /\ barrier.droppedJobs = {}
        /\ release = NoRelease /\ waits = <<>> /\ remaining = <<>>
        /\ core.stop = "no" => core.lines = <<>> /\ \A n \in DOMAIN outer : outer[n].t # "line"

\* After the input has ended the host returns, or its loop and the core have
\* filled both channels and wait for each other: no send there has a timeout,
\* so a client that pipelines more than the channels hold can bring that
\* about.  Nothing else keeps the host, neither a core that fails or never
\* answers, nor frames held back, waits, jobs or a client that is gone.
HostReturns == reader = "closed" ~> pc = "exit" \/ Circle
=============================================================================
