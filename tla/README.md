# Verification of the owner-open runtime

TLA+ models of the part of Trillionnium OS that accepts tool calls and jobs,
starts processes for them and accounts for what happened: the *owner-open*
crates, which are the default members of the Cargo workspace. Everything is
checked with TLC on small instances; the safety properties of every part are also
proved with TLAPS for every value of the constants (section 5).

1. [The system](#1-the-system)
2. [Modules and the code they model](#2-modules-and-the-code-they-model)
3. [Runs, bounds and what they show](#3-runs-bounds-and-what-they-show)
4. [Fairness and deadlock](#4-fairness-and-deadlock)
5. [What is proved](#5-what-is-proved)
6. [Where the code disagrees with its documents](#6-where-the-code-disagrees-with-its-documents)
7. [What is not modelled](#7-what-is-not-modelled)
8. [Plan](#8-plan)

## 1. The system

`docs/modules/MOD-*.md` name sixteen logical modules. In the source they are:

| Part | Where | State it keeps | Operations |
|---|---|---|---|
| call registry (MOD-EXECUTION-CORE) | `crates/trillionnium-owner-open-call-registry` | sharded map of calls (dispatch state, cancellation flag, fence, bounded event history), an atomic entry count, an atomic generation counter | `begin`, `rollback_accept`, `inhibit_spawn`, `claim_spawn`, `record_pid`, `request_cancel`, `mark_connection_lost/attached`, `complete`, `remove_terminal` |
| tool bridge (MOD-TOOL-RUNTIME) | `crates/trillionnium-owner-open-tool-bridge` | none of its own; one activation per caller thread | `execute_fallible_with_deadline` and its wrappers |
| process runtime (MOD-TOOL-RUNTIME) | `crates/trillionnium-owner-open-runtime` | one child, its readers, its deadline | `execute_shell`, `execute_adb`, pty forms |
| job registry (MOD-JOB-RUNTIME) | `crates/trillionnium-owner-open-job-registry` | jobs with dispatch state, generation, attachments | `begin`, `rollback_accept`, `claim_spawn`, `record_live`, `mark_restart_uncertain`, `attach`, `detach`, `complete` |
| job journal | `crates/trillionnium-owner-open-job-runtime/src/journal.rs` | operations and jobs in memory, an append-only event store, whether the store is still usable | `open`/`recover`, `begin_operation`, `complete_operation`, `append_observation` |
| job manager | `crates/trillionnium-owner-open-job-runtime/src/manager.rs` | the map of running jobs, their startup gates and lifecycle mutexes, admission permits, retained events, a durability latch | `start`, `write`, `resize`, `close_stdin`, `kill`, `inspect`, one dispatcher thread per job |
| job process | `crates/trillionnium-owner-open-job-runtime/src/process.rs` | child, reader, writer and reaper threads | spawn, input, signals, exit |
| stream window (MOD-STREAM) | `crates/trillionnium-owner-open-stream-window` | byte credit, pause and close flags, bounded control history | `apply_control`, `try_reserve`, `control_history_from`, `snapshot` |
| event store (MOD-EVENT-STORE) | `crates/trillionnium-owner-open-event-store` | segment files, pending counters per segment, two sidecars, a poison flag, one gate | `open` with a repair policy, `migrate_legacy`, `append`, `append_durable`, `flush`, `checkpoint`, `export_legacy`, reads |
| transport delivery (MOD-TRANSPORT) | `apps/trillionnium-owner-open-host/src/bin/r5_transport_host/flow` | a stream window, a bounded frame buffer, the present gap | `submit`, `apply_control`, `drain`, `disable_and_release`, `terminal_gap`, begin and end of a turn |
| turn loop (MOD-TURN-ENGINE) | `crates/trillionnium-owner-open-turn-loop` | one turn on a worker thread, its cancellation flag | `run_with_sink_and_cancellation`, `emit`, `invoke_tool` |
| turn core (MOD-EXECUTION-CORE) | `apps/trillionnium-owner-open-host/src/bin/r5_control_host_v4/process.rs`, `r5_control_host_v2.rs`, `src/r5_persistence.rs` | the active turn, the turn's cursors, the journal adapter, a bounded queue | `turn.start`, `turn.cancel`, `tool.cancel`, turn events, completion, poll, end of input |
| provider (MOD-PROVIDER) | `crates/trillionnium-owner-open-provider-jsonl` | a provider child process and a line protocol | exchange, time out, terminate |
| hosts (MOD-EXECUTION-CORE, MOD-TRANSPORT) | `apps/trillionnium-owner-open-host` (`r5_control_host_v7` and `r5_transport_host` are the binaries built) | connections, handshake and turn gates, deferred jobs | frames: hello, turn, job, flow control, reattach |
| types (MOD-PROTOCOL) | `crates/trillionnium-owner-open-types` | none | validation |
| broker (MOD-BROKER), supervisor (MOD-ROOTLINUX), ADB (MOD-ADB) | `tools/owner-open`, `packaging` | Python admission and multiplexing; process supervision | admit, forward, converge |
| global control, telemetry | `planned/crates` | leases and epochs; counters | outside the default build |

The remainder of the repository is the sealed daemon (`apps/trillionniumd`, the
agent and privilege-broker crates), `foundations/`, `android-integration/`,
packaging and evidence tooling.

**How the parts interact.** The v7 host reads client frames, answers job frames
itself and forwards the others to the turn core on another thread. The core runs a
turn on a worker thread, which sends it every event and waits for a receipt that the
event is journaled before it goes on. A turn's tool call goes through the tool bridge, which registers it
in the call registry, claims the one permission to spawn and runs the process
runtime. The host's `tool.cancel` handler reaches the same registry entry from
its own thread; `turn.cancel` raises a flag the bridge shares. A job call goes to
the job manager: `start` and the controls run on caller threads, output and exit
arrive on the job's dispatcher thread, and all of them write through one journal
whose failure at any point changes what each of them may still do. Journals are
kept in the event store. The transport host sits between a client and the control
host and bounds the output of a turn by a stream window; what does not fit is
announced as a gap the client has to recover from the durable events.

**What is hard here.** Several callers carry the same call id (retries and
duplicate frames). Atomics are updated before or after the lock they belong to.
Cancellation arrives through a flag, a request or a lost connection, at any point
of the path to a spawn. A failed append leaves a record on disk or not. Journal
locks are dropped during the append, so the store can be lost by another job
between a decision and its commit. The manager may die anywhere and be retried
from the beginning. A power loss keeps what was synced and any prefix of what was
not. A turn is sent again after a crash, its receipts come late, its worker dies
without a word, or its completion arrives after the turn was given up. Output arrives faster than credit, and the client answers a notice that is
already out of date. `PROJECT.json` lists each of these hazards at its line with
the properties aimed at it.

**What makes each part correct.**

- *Call registry*: slots are counted exactly; a generation belongs to one call;
  what a snapshot promised ("cancelled before spawn", "proven not started")
  stays true.
- *Tool bridge*: at most one process per call; a granted spawn is closed with its
  own terminal before the caller returns; cancellation that came first wins;
  nothing claimable is left behind.
- *Job runtime*: an effect happens at most once and only after durable
  acceptance, over crashes and lost appends; the journal can always be recovered,
  and to what the manager remembered; capacity bounds live processes; no process
  is left without an owner; every call returns.
- *Process runtime*: the terminal tells what happened; unless it is an error, the
  child is reaped, its group empty and its output complete; the call returns.
- *Stream window*: credit is neither invented nor lost; closing is final; a
  reader sees or is told of every control.
- *Transport delivery*: every frame is delivered once or counted in a gap the
  client is told of; a resume covers all of the gap; nothing waits for credit that
  is there.
- *Turn core*: the provider runs once for a turn however often it is sent; no tool's
  process starts before its acceptance is on stable storage; what is journaled can be
  loaded and closed; an end a client has seen stays; every accepted turn ends.
- *v7 host*: no job effect overtakes the answer to a hello or a turn.start; every job
  request is answered once; the host returns, and not before it has told everything.
- *Event store*: a record acknowledged as durable survives every crash; whatever a
  crash leaves can be opened; memory is what the files say; an import is complete.

## 2. Modules and the code they model

| Module | Models | Used by |
|---|---|---|
| `CallRegistry` | call registry, one call per key | `ToolBridge` extends it |
| `ToolBridge` | caller threads of the bridge over that registry, the host's cancellations, the process runtime as the bridge sees it | |
| `JobRegistry` | job registry | `JobJournal` extends it |
| `JobJournal` | job journal over an abstract append-only store | `JobManager` extends it |
| `JobManager` | start and control callers, dispatchers, processes, crash and restart | |
| `JobEffect` | the abstract promise about effects | `JobManager!ImplementsJobEffect` instantiates it |
| `ProcessRuntime` | one `execute_process`: calling thread, readers, queue, child and descendants | |
| `StreamWindow` | one stream window, its carrier and one reader | `StreamDelivery` extends it |
| `StreamDelivery` | the transport host's buffer over that window, core frames and client controls | |
| `TurnCore` | the turn core, its journal adapter, the worker with the turn loop, the v7 host's turn gate; crashes, power losses and restarts | |
| `JobHost` | the v7 host: input reader, outer loop with `HelloJobBarrier`, the two channels, job events and waits; the core and the jobs as the loop sees them | |
| `EventStore` | the event store: threads, files, power loss, restart | |
| `EventLog` | the abstract promise of an append-only log | `EventStore!ImplementsEventLog` instantiates it |
| `CallRegistryProofs`, `EventStoreProofs`, `ProcessRuntimeProofs`, `TurnCoreProofs`, `JobManagerProofs`, `JobHostProofs` | theorems about the module of that name | |
| `ToolBridgeProofs` | theorems about the bridge | it extends `CallRegistryProofs` |
| `StreamDeliveryProofs` | theorems about the window and about the buffer composed with it | |
| `MC*` | instances for TLC | |

`PROJECT.json` maps every definition to its lines. Operators whose comment begins
with `Mutant:` are defective variants of the definition that follows them; no
specification uses them. Each property is violated when one of them takes the
place of the real definition.

**CallRegistry.** `entries[k]` is the map entry (`dispatch`, `request`,
`generation`, `pid`, `cancelled`, `inhibited`, `lost`, `history`, ...), `at[k]`
tells whether the shard of `k` is free, held in the middle of an operation, or
poisoned. An operation that touches only its entry is one action, since it runs
under the shard mutex. Those that also touch a shared atomic are two actions with
the shard held between them: `begin` (`ReserveEntry`, `InsertEntry`), removal
(`DropEntry`, `ReleaseEntry`) and `claim_spawn` (`AllocateGeneration`,
`StoreClaim`). `SignalCancel` is a `CancelHandle` raised without the lock, also while
somebody holds the shard: `rollback_accept` therefore checks the entry in one step
(`RollbackAccept`) and removes it in another (`RollbackRemove`), and a cancel that lands
between them goes away with the entry. `DispatchNeverRegresses` says that this is the
only thing a rollback can take away.
Keys on one shard are not serialised against each other, which only adds
interleavings.

**ToolBridge.** `pc[c]` is the statement caller `c` is about to execute. Each
registry call in the function is the corresponding action of `CallRegistry`;
the cancellation checks before and after the claim, the sink's failures, the
runtime's pre-spawn check and the closing sequence (`Finish`, `RecordTerminal`)
are steps of their own, because another thread can act between them. The runtime
is reduced to refusal, spawn and end. Input validation, digests and the poisoned
registry (covered by `CallRegistry`) are left out.

**JobRegistry, JobJournal, JobManager.** The start shard, the lifecycle mutex and
the journal shard of a job are held exactly while some thread is between their
lock and unlock, so they are read off the program counters. A journal operation
is two steps, look-and-append and commit, since the state mutex is not held in
between. `AppendFails` puts the record on disk or not, and disables the store.
`disk[k]` is what a restart would read; observations are kept out of it, because
recovery needs nothing from them, but their failures are modelled. `SiblingFails`
is another job disabling the shared store. `Restart` loses everything but the
disk; children die with the manager (`PR_SET_PDEATHSIG`, process.rs:357), the
journal may fail to reopen, and every caller may come back with the same request.
`Recoverable`, `RecoveredJob` and `RecoveredOperation` state what `recover`
accepts and rebuilds.

**ProcessRuntime.** `pc` is the statement of the calling thread: setup, one turn of
the main loop (`Poll`, then `LeaveLoop` or `Receive`), the inside of
`terminate_process_group` (`TermProbe`, `TermPoll`, `GraceOver`, `ReapingOver`) with
`caller` telling where its answer goes, and the end (`Join`, `Conclude`, the guard).
`life`, `pending`, `escaped`, `holds` and `pipe` are the processes: they fork, write,
close, leave the group, exit and are reaped at any step. `child_status` is known
exactly when the leader is reaped, since `Child` keeps the status; how it ended is
chosen when the terminal is built. Deadlines pass at any time after they are set. A
turn of a waiting loop that finds nothing new is a stutter. Probes, signals, reads
and `try_wait` may fail. Three arms of the code are unreachable and have no action:
`Disconnected` (the function holds a sender itself), and the two that follow the
loop with no child status. The stop flags of the readers are raised one after the
other in the code and at once here; nothing receives after the first. Three
things a reader of the code may not expect: a child whose identity cannot be captured
gives an `IoError` without a `Started` event; output that is cut after a
cancellation, a timeout or an error leaves `output_truncated` false; and after a
direct kill that the system refused, the loop waits for the child without a bound.

**StreamWindow.** `apply_control` and `try_reserve` run under one mutex and are
one action each. The carrier may present any control under any number at any
time. A reader follows `control_history_from` and, told its cursor is stale,
resumes at the earliest retained record. `counted`, `extended` and `forfeited` are
ghosts: `extended` adds the credit of each control number once, whatever the window does
with a number that comes again.
`SeqMax` and `GrantedMax` stand for `u64::MAX`, so that the overflow guards fire.

**StreamDelivery.** The host's loop is one thread. A core frame is one step, with
one action for each result of `submit` (`PassThrough`, `Suppress`, `StartGap`,
`DeliverGranted`, `Enqueue`, `RejectMalformed`). A control is applied in one step
and the queue then drained frame by frame with `pc = "drain"`, which keeps
everything else out; both use the actions of `StreamWindow`. While there is no
window its variables have their initial values. A control that is refused has by
then created the window (`ControlRefused`). Retained fingerprints and the window's
history are pushed and dropped together, so an exact repetition is any retained
control. A frame is its number, size, source, cursor domain and cursor. A source is
whatever numbers its own frames, the turn, each job or a job's journal, and `DomainOf`
is the label its cursors carry; two jobs have one label. Cursors of one source grow, and
the frame's number stands for them; a frame may have no cursor, with or without a
domain. `sent`, `lost`, `inside`, `recovered`, `forgotten`, `rejected` and `arrived` are
ghosts; `forgotten` notes of each frame that a resume closed without covering it whether
it was of the source or of the domain of the gap's end, and whether it lay inside the
buffer the gap gave up. The model begins when
`turn.accepted` is out: a control that is admitted before that only changes a window
with an empty queue. When the core dies in the middle of a turn the host ends, and
what it had buffered is neither delivered nor announced; that end is not a state of
the model.

**EventStore.** `disk` is the log as the kernel shows it, record by record with its
segment, `hard` the positions an fsync has covered, `dropped` those that a failing fsync
gave up: the kernel may mark their pages clean, after which they can be read and no later
fsync writes them, until a power loss takes them. `segs` and `torn` the files and
those that end in a torn line; `side`, `sideHard` and `temp` are the sidecars, `legacy`
the v1 file. `mem`, `active`, `pend` and `poisoned` are the state of the open store,
`gate` the holder of `append_gate`. An append is `AppendAdmitted`, a rotation if one is
due (`RotateSync`, `CreateSegment`), `Write` and `Publish`, then `GroupCommit` or, after
the gate was released, `Barrier`; a flush is `FlushSync` and three steps for each
sidecar. `CreateFails`, `WriteFails`, `Abandon` and the syncs are the statements that can
fail, with all or part of their effect done. `ProcessCrash` loses the memory and keeps
the files; `PowerLoss` also cuts every segment anywhere behind its synced part, in the
middle of a line too. `Open` is recovery with and without repair, and the import
(`MigrateAhead`, `ExportRecord`, `ExportEnds`) may be cut at any step. `acked` and
`lapses` are ghosts. `lapses` has "untracked" once an open read records that no fsync
covered, and "orphan" once a failed rotation left its file behind: `AckedIsHard`,
`ImplementsEventLog` and the part of `MemoryMatchesFiles` about pending records are
claimed until the first, `CrashIsRecoverable` until either; section 6 tells what the code
does afterwards. What is assumed: appended bytes reach a file in order; an fsync of a
file or of its directory also keeps its name; nobody else edits the files. What is
abstracted: record contents, scopes and turn numbers; byte limits, since rotation
by bytes is a free choice and the record limit a bound; `SyncPolicy::None`; the two
sidecars, of which the longest published one decides (`side`), while their temporary
files are told apart (`temp`). Reads take the gate and change nothing. A v1 file that
is empty counts as absent and survives a power loss; it grows only while the store
is down, because its growth commutes with everything the open store does. The
adapter that hands a gate over between stores is left out.

**TurnCore.** The core is the loop of `process_messages_with_control_seq`: each action
is one message it takes from `queue` with everything the handler does to journal,
worker, cursors and turn; the frames it still has to write are in `out`, and it takes
no other message before they are written (`DeliverFrame`, `DeliverOther`) or delivery has
failed. Frames of the worker's events, cancel acknowledgements and `host.error` are
written like the others, and their write can fail like theirs; what they say is
abstracted to `Other`.
`core.pc` is "joining" while it waits for a worker it has heard from and "polled"
between the expiry of `recv_timeout` and the question whether the worker has finished;
the worker can complete in between. `worker` is the thread that runs the turn loop: it
sends an event, waits, and goes on with the receipt or, after 30 seconds, without one
(`Resume`); a receipt that comes later answers nothing. The provider emits, calls tools
and ends as it likes. `gate` is what the v7 host's barrier keeps of the turn it let
through; the channel from the core back to it is left out, so it sees a line when it is
written. `log` is the journal, `synced` its part on stable storage: an authority frame
is appended durably, every other frame may be lost to a power loss. An append that
fails leaves its record or not and disables the journal for the rest of the process.
Frames carry host_seq, event id and the life of the process (the connection id), since
the store compares contents when an id is used again. `sure` marks frames whose append
succeeded; `runs`, `effects`, `outcome` and `ends` are ghosts. Left out: inspections and hello
(answers without an effect), the retention of events, and `--allow-unjournaled-effects`.

**JobHost.** `outer` and `inner` are the two bounded channels; reader, core and worker
block on a full one and so does the loop (`pc = "send"`, with the message in `hand`). One
round of the loop is one message (`Recv...`) with the whole of its handler. A handler that
opens or breaks the barrier hands its `BarrierRelease` over to `release` (`Settle`), and
`flush_barrier_release` goes through it one deferred action per step (`FlushAction`), then
the counts of what found no room (`FlushSummary`, `FlushSuppressed`, `FlushDone`). Then come
`Sample`, one `poll_job_events` per job, one `poll_job_waits` per wait, which answers it or
moves it to `remaining`, and `FinishRound`, which puts the kept waits back and decides
whether to return. Jobs publish and end and deadlines pass (`due`) between any two of these,
which is why each is a step of its own. A step of the loop that writes may find the client
gone, at any write of the flush or the polls. `dispatch_job_frame` may refuse any request, a
wait too, since validation, the manager's limits and the journal are not modelled here.
`barrier` is `HelloJobBarrier`, with the ids of what it counted instead of the counts; whether a
frame fits the byte budgets is a free choice. A job is its runtime events: `events`
published, `oldest` retained, `cursor` and `told` what the host has delivered or announced
as a gap. JobTerminal is what the dispatcher publishes, JobReleased the removal from the
running map that follows. The core answers as `TurnCore` would: a hello with an ack, a turn.start
with acceptance, a replay or a refusal, anything else with a line that means nothing to
the barrier; it may also fail to spawn its worker or lose its writer. `log` is the
history the properties speak of. A read error is treated as the end of the input, as the
code does; the `Disconnected` arm is unreachable, because `run` keeps a sender.

## 3. Runs, bounds and what they show

Each run is `tlc -config <cfg> <module>`.

| Run (cfg) | Instance | Checks |
|---|---|---|
| `call_registry` (MCCallRegistry) | 3 calls, 2 slots, history of 2, generations 1 to 2, symmetry in the calls | `EntryAccounting`, `GenerationsDistinct`, `NotStartedProofHolds`, `DispatchNeverRegresses` |
| `tool_bridge` (MCToolBridge) | one slot; two callers of one call and a third that reuses its id for another request or competes with a call of its own; generations can run out | `AtMostOneSpawn`, `ClosedBeforeReturn`, `NothingLeftBehind`, `EveryCallReturns` |
| `job_durable` (MCJobManager) | two starts and two equal writes of one job, journal, no unjournaled effects, one restart | `RecoveryIsFaithful`, `AnswersAreDurable`, `NoFalseNoStart`, `ImplementsJobEffect` |
| `job_unjournaled` (MCJobManagerUnjournaled) | two starts with different requests, a close and a kill under one operation id, an attachment, unjournaled effects allowed, a journal or none, one restart | `SpawnedOnce`, `NothingLeftClaimable`, `NoEffectAfterTerminal` |
| `job_capacity` (MCJobManagerCapacity) | two jobs, `max_jobs` = 1, a resize that waits at the gate, fair threads | `NoLiveOrphan`, `EveryCallReturns`, `ExitedJobIsReleased` |
| `event_store` (MCEventStore) | two threads, a v1 file of one record, segments of two records, at most two of them, two crashes or power losses, fsyncs that fail and may drop what they were to write | `AckedIsHard`, `CrashIsRecoverable`, `MemoryMatchesFiles`, `ImportIsComplete`, `ImplementsEventLog` |
| `stream_delivery` (MCStreamDelivery) | turns of three frames of size 1 to 3, without a cursor or from the turn, two jobs and a journal in the three domains of the code, chunk of 2, buffer of 3, credit up to 2, three controls per window | `EveryFrameAccounted`, `QueueWaitsForCredit`, `CreditConserved`, `ResumeCoversGap` |
| `turn_core` (MCTurnCore) | a turn, the same turn with another request, a second turn; a queue of two; four client frames and starts of the process, one fault, one provider event or tool call per turn | `ProviderRunsOnce`, `EffectIsJournaled`, `LogLoads`, `ShownEndIsDurable`, `EndIsOwn`, `TurnEnds` |
| `job_host` (MCJobHost) | seven pipelines of three or four frames, cut at any point; both channels of one; one deferred frame to dispatch and one to refuse, one wait, one job of two events of which one is retained, one fault | `NoLeapfrog`, `AnsweredOnce`, `ReturnIsComplete`, `HostReturns` |
| `process_runtime` (MCProcessRuntime) | a child and one process it may fork, one stream, two bytes written, limit, chunk and queue of one | `NothingSurvives`, `TerminalIsTrue`, `ExecutionReturns` |
| `turn_event_id` (MCTurnEventId), `event_store_reopened` (MCEventStoreBarrier) | the smallest instance that shows it | violated: see section 6 |

**Why the bounds are enough.** Calls and jobs interact only through the shared
counters, the shared store, the admission count and, for one key, through its
entry. One key with two or three threads on it therefore exhibits every pairwise
race on an entry, and two or three keys with one slot, generation or permit too
few exhibit every race for a shared resource. Every counter reaches its limit in
some run: entries, generations, event history, stream sequence, permits. One restart is enough for "before" and "after": a manager keeps nothing
across a restart but the disk, and the disk is arbitrary among those the first
life can leave. Named bounds: `MaxEntries`, `MaxHistory`, `GenerationMax`,
`SeqMax` and `GrantedMax` stand for limits the code has; `MaxStragglers` bounds
cancel handles that outlive their entry; `MaxRestarts` bounds crashes;
`MaxWritten` bounds the bytes written to a child's stream; `MaxRecords`,
`MaxSegments`, `MaxLegacy` and `MaxCrashes` bound the event store's log, its segments, its
v1 file and its faults; `MaxFrames` bounds the frames of a turn. Two bytes against a limit,
a chunk and a queue of one cross the limit and fill the queue while the reader holds
a message; a chunk cut in the middle needs a limit and a chunk of two (an instance of
that size passes too, in about twice the time). One descendant shows every way a
process can outlive the leader. A rotation needs two segments, a partly synced log two
records, and recovery starts from what the files hold, so one crash shows every file
state the bounded log can leave and the second one what recovery itself leaves; the
proofs cover every other size. Three frames with a
buffer that holds any two of size one overflow with a queue of two, extend a gap that
is already announced, and let one frame overtake two; a second turn starts from what the
first left. Three frames also give a buffer whose ends are of one domain and whose middle
is of another, and two jobs are enough for two sources under one label. With three
controls and a history of one record a control comes again after its record is gone.
In `turn_core` four moves are a start, a turn, a restart and the turn again, with one
fault anywhere, or a turn with two controls, or two turns one after the other; `MaxMoves`,
`MaxEvents` and `MaxFaults` name these bounds. The core takes one turn at a time, so two
turns show all that one can leave to the next. `First` says which request is sent while
the journal is empty; an empty journal means that nothing is left of any turn, and the
names of turns and digests are interchangeable. Crashes and power losses are unbounded;
what bounds them is the restarts. `turn_event_id` needs five moves and no fault.
In `job_host` four frames put a request behind each gate and behind both, overflow the
deferred queue into the refused and the counted frames, and keep a wait across a gate;
the input may end after any of them. Two events with one retained and one per page give
an eviction, a page that is not the last and a terminal after the poll. With one place in
each channel three controls are enough to fill both, and the circle of section 6 is reached.

`SignalsFail` is FALSE in the runs about live processes and liveness: a SIGKILL
that fails (`EPERM`, a changed identity) is only reported by the code, so the
child lives on. That is a real limit of the guarantee:
`NoLiveOrphan` and `ExitedJobIsReleased` hold as long as signals are delivered.
`NoFalseNoStart` holds with unjournaled effects off and fails with them on
(section 6).

## 4. Fairness and deadlock

`ToolBridge`: weak fairness of each caller inside the function. The code has no
blocking wait except the shard mutexes and the child; the child ends because the
runtime kills it at the request's timeout. Nobody is assumed to start a call, to
cancel or to fail.

`JobManager` (`FairManagerSpec`): weak fairness of each caller's thread, of each
dispatcher once its process has exited, and of the death of a process to which
SIGKILL was delivered. Nothing is assumed to make a process exit by itself,
produce output, lose the store or restart the manager. Weak fairness is enough
because every lock is released by a step that is itself weakly fair and, on the
finite set of callers, no lock is taken infinitely often.

`ProcessRuntime` (`RuntimeSpec`): weak fairness of the calling thread and of each reader,
of the two deadlines, and of the death of a process to which SIGKILL was sent. No
process has to exit, close its stream or obey SIGTERM, nobody has to cancel and no
zombie descendant has to be reaped. `ExecutionReturns` excepts a refused SIGKILL of the
leader, after which the code does wait for the child to end by itself.

`TurnCore` (`FairCoreSpec`): weak fairness of the core's thread and of the worker's.
The core's steps end because every wait has a bound: `recv_timeout` expires, a write to
the v7 host's queue returns or fails, a joined worker has sent its last message. The
worker's end because receipts expire, the provider has a deadline and a tool is killed
at its own. No client frame, crash, restart or fault has to happen, and `TurnEnds` also
counts the end of the process as the end of the turn: the journal then closes it when
it is sent again.

`JobHost` (`FairSpec`): weak fairness of the loop, of the core's thread and of the worker,
and of the end of each job and the deadline of each wait. The client need not send or
close anything: `HostReturns` starts from the end of the input. It excepts the `Circle` of
two full channels (section 6), in which the code does wait for ever, and nothing else.

`CHECK_DEADLOCK FALSE` is set in the runs other than `event_store`, `job_host` and
`stream_delivery`, which check for deadlock: the callers are finitely many, the
sequence numbers bounded, and the system legitimately comes to rest when all
calls have returned. `Halted` lets a host that has returned or is in the `Circle` stutter,
so a deadlock of `job_host` would be any other state in which nothing moves. That no thread waits for ever is what `EveryCallReturns`
checks.

## 5. What is proved

`CallRegistryProofs`, for every set of calls, every limit and every shard state:

| Theorem | States |
|---|---|
| `RegistryInvariance` | `RegistryInv` is an invariant |
| `TypeCorrectness` | `TypeOK`: histories and counters stay within their limits |
| `AccountingIsExact` | `EntryAccounting`: the entry count is the number of slots in use and never exceeds `max_entries` |
| `GenerationsAreDistinct` | `GenerationsDistinct` |
| `NotStartedIsFinal` | `NotStartedProofHolds` |
| `DispatchIsMonotone` | `DispatchNeverRegresses` |

The accounting is not inductive by itself, because the atomic counter is changed
before the entry is stored and after it is dropped. `RegistryInv` therefore counts
a key as occupied while its shard is held in the middle of such an operation
(`Occupied`), says what an entry looks like in each of those states (`HeldShards`),
that every generation owned or about to be stored is below the counter
(`GenerationsAllocated`), that an entry a rollback has checked is still what it checked
but for the lock-free flag, and that an accepted call whose connection was lost is fenced
(`LostIsFenced`), which is what makes "proven not started" final. The step lemma
has one case per action; the operations that rewrite a single entry share
`RewriteForm`. The two action properties follow from the invariant and `StepForm`.
Assumptions: the named `ASSUME`s of `CallRegistry` (positive limits, `None`
outside the value sets).

The first part of `StreamDeliveryProofs`, for every configuration `StreamWindowConfig::validate`
accepts and every `SeqMax` and `GrantedMax`:

| Theorem | States |
|---|---|
| `WindowInvariance` | `WindowInv`, the conjunction of the four invariants |
| `CreditIsConserved` | `CreditConserved` |
| `HistoryIsContiguous` | `HistoryContiguous` |
| `HeldStreamsGrantNothing` | `NoGrantWhileHeld` |

`WindowInv` adds to conservation what makes it inductive: types (so that the
arithmetic is over naturals), that the numbers counted are exactly those below `nextSeq`,
so that a number which is applied is a new one, the shape of the history, and that a closed stream
is drained and paused, without which a control after Close could not be shown
harmless. `PushFacts` gives the length and elements of the bounded history and is
the one lemma about sequences.

`EventStoreProofs`, for every number of threads, records, segments and crashes:

| Theorem | States |
|---|---|
| `StoreInvariance` | `StoreInv` is an invariant |
| `AcknowledgedIsSynced` | `AckedIsHard` |
| `FaultsAreRecoverable` | `CrashIsRecoverable` |
| `MemoryIsExact` | `MemoryMatchesFiles` |
| `ImportCompletes` | `ImportIsComplete` |
| `RefinesEventLog` | `ImplementsEventLog`: the store implements the abstract log |

That what was acknowledged is synced is not inductive: a record is acknowledged by a
barrier that syncs the segment it believes to be the only unsynced one. `StoreInv`
says why that belief is right. `GateOK`, `DownOK` and `UpOK` tell which thread may be
inside an operation in each state of the store, `MemOK` what memory and files may
differ by at each statement, `CallOK` what a thread's call still owes. `Tracked` is
the heart: the files hold positions 1 to n without a gap (`DiskIsLog`), the synced
ones are a prefix of them (`HardIsPrefix`), everything unsynced lies in one segment
(`OneTail`) and is counted as pending (`Counted`), sidecars cover no more than is synced
(`Covered`), and what was acknowledged is in the prefix (`AckedOK`). Since the
unsynced records lie in one segment, a power loss always cuts a prefix, and only the
last segment can be torn; that is what recovery relies on. `DroppedOK` says that a store
with dropped positions is poisoned or down: no later fsync is taken for one that has
written them. `Tracked` and the second part of `DroppedOK` hold until a
restart reads unsynced records. `NoOrphan` says that, without the file of a failed
rotation, the last segment is the active one, and `Importing` what an import in progress
has already copied. The step lemma has one case per action,
and steps that change the same variables share a lemma. The refinement follows from
the same invariant and one lemma per action. Assumptions: the named `ASSUME`s of
`EventStore`, and the model's assumptions about files in section 2.

`ToolBridgeProofs`, for every set of callers, calls and requests and every limit of the
registry:

| Theorem | States |
|---|---|
| `BridgeInvariance` | `BridgeInv` is an invariant |
| `BridgeDrivesRegistry` | every step of the bridge is a step of `CallRegistry`'s own specification or leaves the registry alone |
| `BridgeKeepsPromises` | `NotStartedProofHolds` and `DispatchNeverRegresses` under the bridge |
| `SpawnsAtMostOnce` | `AtMostOneSpawn` |
| `GrantsAreClosed` | `ClosedBeforeReturn` |
| `NothingIsLeftBehind` | `NothingLeftBehind` |

`BridgeInv` contains `RegistryInv`, which the bridge inherits because each of its steps is
a step of the registry or none. What it adds ties the program points of the callers to
the entries: a held shard has the one holder whose program point says how it is held
(`ShardHolders`), a grant is held by one caller from the claim to the terminal and the
entry says "started" exactly that long (`Grants`), processes are started under a grant
and once (`SpawnsUnderGrant`), and an acceptance that can still be claimed belongs to a
caller that has not returned (`AcceptancesOwned`).

`ProcessRuntimeProofs`, for every number of descendants and streams and every limit:

| Theorem | States |
|---|---|
| `RuntimeInvariance` | `RuntimeInv` is an invariant |
| `GroupIsEmptied` | `NothingSurvives` |
| `TerminalsAreTrue` | `TerminalIsTrue` |

That the output is complete when the terminal says so needs to know where the last bytes
can be: `EndIsLast` says that the end of a stream is the last message about it, in the
reader's hand, in the queue or received. `ForcedIsTrue` says that what ended the loop did
happen and that cut output always ends it, `SignalsAreForced` that the loop signals nobody
before, and `LoopIsOver` that it is left with the child reaped.

`StreamDeliveryProofs`, for every frame size, chunk, buffer and credit, every set of
sources and domains and any number of frames, controls and turns:

| Theorem | States |
|---|---|
| `DeliveryInvariance` | `DeliveryInv` is an invariant |
| `FramesAreAccounted` | `EveryFrameAccounted` |
| `NoIdleCredit` | `QueueWaitsForCredit` |
| `DeliveryConservesCredit` | `CreditConserved` under the transport |
| `ResumeIsComplete` | `ResumeCoversGap` |

`DeliveryInv` joins `WindowInv` with the account of the frames: every number up to
`arrived` is in exactly one place (`NumbersUsed`, `KeptApart`, `Counted`), the gap the
client is told of counts what it swallowed (`GapCounts`), frames wait only in an open
turn without a gap (`QueueIsOpen`), and the byte count is the sum of the queue, stated
with a function of partial sums (`BytesCounted`), because what a recursive sum computes
cannot be proved here. `ResumeIsComplete` needs to know what a published range stands
for (`GapCovers`): a gap with an end swallowed only frames with a cursor, its end and
domain are those of the last one, and only frames inside the buffer it gave up can be of
another domain. A resume thus covers all of the gap's last source; what it can leave out
is exactly what section 6 tells.

`TurnCoreProofs`, for any number of turns, digests, client frames, events, crashes, power
losses, restarts and faults and every depth of the queue:

| Theorem | States |
|---|---|
| `TurnInvariance` | `TurnInv` is an invariant |
| `ProviderIsNotRedispatched` | `ProviderRunsOnce` |
| `EffectsAreJournaled` | `EffectIsJournaled` |
| `ShownEndsAreDurable` | `ShownEndIsDurable` |
| `EndsAreOwn` | `EndIsOwn` |
| `JournalLoads` | `LogLoads` |

The properties speak of the journal across crashes; what makes them inductive is the
agreement of the threads in between. `JournalInv` says what is stored: acknowledged
authority frames are synced, a turn has one digest, begins with its only `turn.accepted`
and has nothing behind its `turn.end`, and the active turn is stored without an end.
`ThreadInv` says that the worker is the active turn's, that events in the queue are its
own and none newer than the one it waits for, that a completion is the last message of
its worker and leaves the queue before the next `turn.start`, and that the v7 host's gate
lets one turn through at a time. `RunsInv`, `EffectInv` and `EndsInv` add what is owed to
the provider, to a tool about to be spawned and to a client that is still to be shown an
end. The proof of `LogLoads` showed that host_seqs grow while event ids need only
differ: after a crash the ordinal restarts from the number of stored frames, so a later
frame can have a smaller id.

`JobManagerProofs`, for every set of jobs, callers and operations, every `MaxJobs` and
any number of restarts, with the journal present, lost at any point or absent:

| Theorem | States |
|---|---|
| `JobInvariance` | `JobInv` is an invariant |
| `JobsSpawnOnce` | `SpawnedOnce` |
| `NothingStaysClaimable` | `NothingLeftClaimable` |
| `NoStartIsTrue` | `NoFalseNoStart`, with unjournaled effects off |
| `EffectsPrecedeTerminal` | `NoEffectAfterTerminal` |
| `AdmissionBound` | `Admission`: permits and live `RunningJob`s together are at most `max_jobs` |
| `NoProcessIsOrphaned` | `NoLiveOrphan`, as long as signals are delivered |
| `LogInvariance` | `LogInv` is an invariant |
| `RecoveryFaithful` | `RecoveryIsFaithful`: what a restart reads back is what memory held |
| `EffectInvariance` | `EffectInv` is an invariant |
| `AnswersDurable` | `AnswersAreDurable`, with a journal configured |
| `RefinesJobEffect` | `ImplementsJobEffect`, with a journal configured and unjournaled effects off |

The locks are positions of the threads, so `JobInv` begins with each of them having one
holder (`OneStart`, `OneLifecycle`). `StartOwns`, `JobOwns` and `ControlOK` say what the
entry looks like at each position of a start, a dispatcher and a control; `EntryOwned` that
whatever can still be claimed, or runs, has somebody who will end it. At most one spawn
over restarts rests on what the journal remembers: `StartKnown` says that memory knows
every start the disk holds, but for one whose append is not committed yet, `StartIsNew`
that a start goes on only with a job the journal did not know and dispatches only one
that it holds, `SpawnsCounted` that a process was never started without such a record.
`Reached` tells who can still signal a live process. `Admission` is shown separately from
`JobInv`: a start exchanges its permit for a running job, and every other step only
gives something back. The hypotheses of `NoStartIsTrue` and `NoProcessIsOrphaned` are the
two limits of section 3; without a journal there is nothing for `AnswersAreDurable` and
`JobEffect` to be about.

`LogInv` is about the journal alone and is inductive together with `JobInv`. The log of a
job is one that recovery accepts (`WellFormed`: besides `Recoverable`, one starting
operation, every end with its result, every record but `job.terminal` naming an
operation). The journal shard has one holder (`OneJournal`), and while it is free memory
is exactly what the log says; while it is held, what the log says without its last
record, which is the one the holder has in hand (`Follows`). `Mirrors` says this by
quantifying over the positions of the log, since `RecoverJob` and `RecoverOperation`
choose records; the lemmas about one appended record then serve all the
places that append. `ClaimLogged` and `ThreadLogged` keep what an append has to know of
its job: its start is logged, and nothing ends it twice.

`EffectInv` says what was done to the processes and what will be told about it, and is
inductive together with the other two. Of a job (`JobEffects`): what ran was spawned, what
the registry, the journal or the log call ended has exited, a control has acted at most
once, only after the spawn, and is remembered as long as the job runs. Of a start
(`StartEffects`) and of a control (`ControlEffects`): which of them have not acted yet,
which have, and that the outcome they report is in the log. A step is `Tame` if it neither
starts a process nor acts on one; one lemma (`TameKeeps`) then leaves only the thread that
moved to look at, and the spawn and the effect of a control are done directly.

The refinement first sorts the steps (`EveryStep`): a step appends one record that says
what is so (`Writes`), starts a process (`Starts`), applies a control (`Applies`) or ends
some processes, possibly none (`Ends`); it never does two of these. Each kind is then a
step of `JobEffect` or a stutter, an append by the kind of its record. That no job is
started after it was refused needs one more invariant, that only the end of an operation
carries a result (`ResultsAreEnds`).

`JobHostProofs`, for every pipeline of frames the client may send and every depth of the
channels, limit of the barrier, page, retention and number of jobs, waits and faults:

| Theorem | States |
|---|---|
| `TypesOK` | `TypeOK`: the state of the loop, the channels, the barrier, the core and the jobs keeps its types |
| `NothingLeapfrogs` | `NoLeapfrog` |
| `EveryFrameAnswered` | `AnsweredOnce` |
| `ReturnsComplete` | `ReturnIsComplete` |

Three invariants share a base. `Shape` ties the loop's position to the barrier: a barrier
that is not pending holds nothing back, a release exists only during the flush, and waits
set aside only during the poll of the waits. So whatever is held back is in one queue
(`Queue`, `Counted`), the barrier's or the release's. `InOrder` and `KnownIds` say that
frames come in the order they were read and that every id the loop has handled, in the log,
in a queue, on the way to the core or in a line coming back, is below the ids of the
frames still in the channel. A frame just received is therefore new everywhere.

`NoLeapfrog` needs to know which answer the barrier opens on. The barrier keeps two flags
and no ids; that the answer is the one to the frame that set the flag rests on the channels.
`Answering`: an ack answers a hello that was forwarded, an acceptance a turn that was.
`Pipeline`: ids grow from the lines in the log through the outer channel, the core's
lines and its channel up to the frame in hand, so an acceptance read now answers no
earlier turn. `Gates`: as long as nothing failed, what was forwarded and is not yet answered
is what the flags wait for, one hello and one turn at most; once the barrier has failed
nothing takes effect any more. `EffectsInOrder`: what is deferred is in order and later than
all that has taken effect. An effect is logged only when no flag is set, so all that was
forwarded is then answered.

`AnsweredOnce` counts places. `Single` says for each id that it is in one place only, of the
log, the queue, the count and the two lists of waits, and once in it; `Present` that with a
client attached a received job frame is in one of them. Each is stated of the five
containers as arguments, so that a step is one of few kinds of moves between them
(queue to log, queue to waits, waits to remaining, all the counted to the log, ...), with one
lemma for each.

`ReturnIsComplete` combines two arguments. For the jobs: `Told`, what was announced is what
the cursor has passed, so a gap that is not repeated was announced before; `Round`, if
no job was live at the sample then none is live now and, unless a poll left more behind,
the jobs polled since are told to their end. This is where the order of the sample and the
polls matters. For the core: `Closed`, a core that is closed has returned and no frame is
held back for it; `Ending`, the end of the input is the reader's last message and the core
sees it after all frames; `LinesFirst`, completion is the core's last message, so that a
core that ended with its input has no line in the channel when the loop has seen it end.
`Returned` is what these give at the return, and it stays so.

All theorems assume the named `ASSUME`s of the modules they are about, which TLC
evaluates on the runs.

**Only model-checked**: the liveness properties (`EveryCallReturns`, `ExecutionReturns`,
`ExitedJobIsReleased`, `TurnEnds`, `HostReturns`) and the absence of deadlock, since liveness
and `ENABLED` are outside what TLAPS handles here. What recursive definitions compute for
every input is also out of the prover's reach; the modules with theorems use none. **Only proved**: `HistoryIsContiguous`,
`HeldStreamsGrantNothing` and `AdmissionBound`; the stream window has no run
of its own, `stream_delivery` runs it inside the buffer that uses it.

## 6. Where the code disagrees with its documents

Each of these is a run in which TLC finds a violation.

- **An event id that is used twice closes the journal** (`turn_event_id`). A `host.error`
  inside a turn takes the next host_seq and event ordinal of the turn but is not stored
  (`deliver_host_error`, r5_control_host_v2.rs:1279); a `tool.cancel` for a call that is
  not registered is enough. After a crash `observe_replay` sets the ordinal to the number
  of stored frames (line 275), so the `turn.end` that closes the turn takes the id of a
  stored frame. The store answers `EventConflict`, `append_frame` disables the journal for
  the whole process and later turns are refused; a restart and the same `turn.start` do it
  again, so this turn is never closed. The comment at r5_control_host_v4/process.rs:213
  shows that reuse of an id was to be avoided, and the host's README promises an unknown
  outcome for a turn without terminal evidence. With dense ids, tested in
  `tests/r5_incomplete_recovery.rs`, recovery works.
- **A durable append of a reopened store** (`event_store_reopened`). `open` starts with
  no pending records (lib.rs:1049) and syncs nothing it recovered. A process appends,
  dies and is restarted; the retried `append_durable` finds its record and, with
  nothing pending, returns without an fsync. A power loss then removes it, against the
  comment at lib.rs:1608 and MOD-EVENT-STORE.md:76. The theorems about acknowledged
  records hold for what the present process appended.

Met while modelling, without a run:

- *A conflicting duplicate sets the durability latch*: `begin_control` (manager.rs:1230)
  treats every error of `begin_operation` as a journal failure, `JobConflict` included.
  With unjournaled effects off, one control that reuses an operation id with other content
  makes every later control of every job fail, although the store is fine and
  MOD-JOB-RUNTIME.md:156 says rejected input changes no state.
- *A slow client fails a turn*: the comment at r5_control_host_v4/process.rs:381 says slow
  clients do not authorize cancellation, but the core writes each frame before it takes
  the next message; a write that blocks for 30 seconds lets the receipt of the next
  event expire, and the turn fails.
- *A completed turn recorded as failed*: when `recv_timeout` expires and the worker sends
  `TurnComplete` and exits before `is_finished` is asked, the turn ends as `host_failed`,
  "exited without a terminal message" (process.rs:430), and the completion is dropped.
  `EndIsOwn` says that it at least ends no other turn.
- *A range of cursors that crosses two domains*: when the
  buffer overflows, `ResyncGap::from_buffer` (flow/types.rs:50) compares the domains of the
  first and the last frame only. Model output, job output, model output is announced as a
  complete numeric range of the transport domain; a resume past its end clears the gap with
  the job output in it. The comment of `cursor_range_complete` (flow/types.rs:35) says such
  bounds are not published, and `terminal_gap` (flow/queue.rs:75) names this very case
  and folds over every frame. Two jobs of one turn share a domain and have cursors of
  their own, which neither function can tell apart. `ResumeCoversGap` names these two cases
  and excludes every other; both are reached in `stream_delivery`.
- *One stray line fails the gate*: any line of the core other than `turn.accepted` while a
  turn.start is pending, the answer to a control sent before it too, sets the v7 barrier to
  failed for the rest of the connection (r5_control_host_v7/process.rs:732), although the
  turn is then accepted; so does a turn.start the core refuses. Job requests are refused
  from then on, as `AnsweredOnce` has it, and every later turn.start is too.
- *Two bounded queues in a circle*: the v7 host blocks in `core_sender.send` while the core
  blocks writing into the v7 host's own full queue; with enough pipelined frames neither
  moves again. This is the `Circle` that `HostReturns` excepts; `job_host` reaches it.
- *The last lines of a core that ended by itself*: when the core returns because its writer
  or its worker failed, a send to it fails and closes `core_open` although its last lines and
  the `CoreComplete` with its error are still in the channel; the loop may return without
  delivering them. `ReturnIsComplete` excepts the lines of such a core.
- *The slot outlives the published terminal*: a comment at manager.rs:1676 says the
  admission slot is released before the terminal observation is published; the event is
  pushed first (manager.rs:1710) and the `RunningJob` with its permit removed
  afterwards, so a caller that sees the terminal can still be refused for capacity.
- *A job that ran is called proven not started*: with unjournaled effects allowed and a
  journal that cannot be reopened, a retried start after a restart is accepted afresh,
  fenced, and reads `ProvenNotStartedAfterRestart`. `NoFalseNoStart` holds with
  unjournaled effects off.
- *An orphan segment*: `create_segment` may fail at the directory fsync
  (event-store lib.rs:2987) with the file in place. If the store goes on in the old
  segment and that one is torn later, it is not the last, and no policy opens the store
  (comment at lib.rs:1010). `CrashIsRecoverable` excepts exactly this history.
- *A leftover temporary sidecar*: after a crash between its creation and its rename every
  later flush refuses it (`open_sidecar_temp`, lib.rs:2235), the one at the end of a
  resumed import included, although `migrate_legacy` is called idempotent and resumable
  (lib.rs:1105).
- *Output out of order*: `submit` reserves credit for a new frame although older ones are
  queued, so a frame that still fits the credit overtakes the queue
  in front of which a larger frame waits.
- *A refused first control turns flow control on*: `apply_control` creates the window
  before it checks anything, so a turn whose first control was refused goes on with no
  credit; MOD-TRANSPORT.md says invalid input changes no state.
- *A frame with a malformed cursor* switches flow control off and is itself dropped; the
  notice counts only the frames that were released.

## 7. What is not modelled

- *Job process*: spawn, exit, kill and faults as the manager sees them; its grace
  periods and pty code are left to a later module.
- *Inside the process runtime*: a probe of the process group is one step, although
  the scan of `/proc` is not atomic (a member that forks and exits during the scan can
  hide its child if process ids wrap around); the environment, `/proc` parsing and a
  panicking sink are left out.
- *Provider, rest of the hosts, broker*: the provider is an environment of `TurnCore`; its
  line protocol is planned. `JobHost` and `TurnCore` each keep of the other what crosses the
  channels; they are not composed. The transport host's handshake gates, its
  broker binding router and a client that detaches are left to a module of their own.
- *The turn core's store*: `TurnCore` takes it as a log with a synced prefix whose appends may
  fail ambiguously. A restart that reads unsynced records and calls them durable
  (`event_store_reopened`) is in the model: a leftover of a failed append can be replayed
  and then be lost, which is why `ShownEndIsDurable` speaks of ends whose append succeeded.
- *The job journal's store*: `JobJournal` takes it as an append-only log whose appends
  may fail ambiguously, which is what `EventLog` states and `EventStore` implements;
  the two models are not composed.
- *Retention of job events* (`inspect` cursors, byte budgets): reads of resident
  state.
- *Types, telemetry, packaging, evidence, Android integration*: no state whose
  interleavings matter, or platform I/O.
- *Sealed crates, foundations and planned crates*: outside the default build. They hold
  most of the repository's lines, so the share of lines this project maps is small
  although the owner-open crates that run effects are largely covered.

## 8. Plan

Done: `CallRegistry` with proofs; `ToolBridge` composed with it; `JobRegistry`,
`JobJournal`, `JobManager` and the abstract `JobEffect`; `StreamWindow` with proofs;
`ProcessRuntime`; `EventStore` with proofs and the abstract `EventLog`; `StreamDelivery`
composed with `StreamWindow`; `TurnCore`; `JobHost`; proofs of all of these.

Next, in this order:

1. The rest of the transport host: handshake gates, deferred actions and the broker
   binding router; every admitted request is answered once, and nothing of a rejected
   turn reaches a later one.
2. `ProviderJsonl`: cancellation and provider time-out racing the answer.
3. `GlobalControl`: leases and fencing epochs. `Broker`: admission and convergence.

A composition of `JobHost` with `TurnCore` would replace what each now keeps of the other;
their proofs would then have to share the order of the core's lines.
