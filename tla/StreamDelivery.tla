--------------------------- MODULE StreamDelivery ---------------------------
(***************************************************************************)
(* Bounded delivery of one turn's output by the transport host,            *)
(* apps/trillionnium-owner-open-host/src/bin/r5_transport_host: the        *)
(* StreamDelivery buffer (flow/*.rs) over the StreamWindow it creates on   *)
(* the first stream control, and the handlers of process/run.rs that feed  *)
(* it with core frames and client controls.                                *)
(*                                                                         *)
(* The host is one thread.  A core frame is one step; a control is applied *)
(* in one step and the buffer drained frame by frame in the following      *)
(* ones, during which pc keeps everything else out.  While the window does *)
(* not exist the variables of StreamWindow have their initial values.      *)
(* The model starts when turn.accepted has been delivered.                 *)
(***************************************************************************)
EXTENDS StreamWindow, Functions

CONSTANTS
    MaxBuffer,  \* options.buffer_bytes
    MaxFrame,   \* the largest frame of the core; more than MaxChunk
    MaxFrames,  \* bounds the flow-controlled frames of a turn
    Sources,    \* what numbers its own frames: the turn, each job, a journal
    Domains,    \* cursor domains
    DomainOf,   \* the domain in which a source's cursors are labelled
    None        \* no cursor, no domain, no gap

\* ResyncGap.
Gaps == [domain : Domains \cup {None}, first : Nat \cup {None}, last : Nat \cup {None},
         complete : BOOLEAN, mixed : BOOLEAN, count : Nat]

ASSUME DeliveryAssumption ==
    /\ MaxBuffer \in Nat \ {0}
    /\ MaxFrame \in Nat \ {0}
    /\ MaxFrames \in Nat
    /\ DomainOf \in [Sources -> Domains]
    /\ None \notin Domains \cup Nat
    /\ None \notin Gaps

VARIABLES
    active,     \* window.is_some()
    durable,    \* durable_ready
    queue, queuedBytes, gap,
    phase,      \* "open" until turn.end
    pc,         \* "drain" while the handler of a control empties the queue
    terminal,   \* the gap attached to the last turn.end
    arrived,    \* ghost: number of frames the core sent in this turn
    sent,       \* ghost: numbers of the frames written to the client, in order
    lost,       \* ghost: frames suppressed by the present gap
    inside,     \* ghost: those that lay in the buffer behind its first frame
    recovered,  \* ghost: numbers of the frames of gaps the client resumed after
    forgotten,  \* ghost: how those a resume did not cover relate to its cursor
    rejected    \* ghost: numbers of the frames with a malformed cursor

bufferVars == <<queue, queuedBytes, gap>>
tallyVars == <<recovered, forgotten, rejected>>
hostVars == <<active, durable, bufferVars, phase, pc, terminal, arrived, sent, lost, inside, tallyVars>>
deliveryVars == <<windowVars, hostVars>>

\* BufferedFrame: what submit uses of a frame.  A cursor has a source, whose
\* domain labels it; a frame may also carry a domain alone, or nothing.  The
\* cursors of one source grow, and the frame's number stands for them; those
\* of two sources are not related.
Numbered(n, size, s) ==
    [n |-> n, size |-> size, source |-> s, domain |-> DomainOf[s], cursor |-> n]

Unnumbered(n, size, domain) ==
    [n |-> n, size |-> size, source |-> None, domain |-> domain, cursor |-> None]

\* ResyncGap::from_buffer.
GapOf(buffer, f) ==
    LET first == IF buffer = <<>> THEN f ELSE buffer[1]
        same == first.domain = f.domain
        complete == same /\ \A g \in Range(buffer) \cup {f} : g.cursor # None
    IN  [domain |-> IF same THEN first.domain ELSE None,
         first |-> IF complete THEN first.cursor ELSE None,
         last |-> IF complete THEN f.cursor ELSE None,
         complete |-> complete, mixed |-> ~same, count |-> Len(buffer) + 1]

\* Mutant: the range is not extended by a later suppressed frame.
ExtendedStale(g, f) == [g EXCEPT !.count = @ + 1]

\* ResyncGap::extend.
Extended(g, f) ==
    LET mixed == g.mixed \/ g.domain # f.domain
        complete == g.complete /\ ~mixed /\ f.cursor # None
    IN  [domain |-> IF mixed THEN None ELSE g.domain,
         first |-> IF complete THEN g.first ELSE None,
         last |-> IF complete THEN f.cursor ELSE None,
         complete |-> complete, mixed |-> mixed, count |-> g.count + 1]

\* terminal_gap: an open gap, or one made of whatever is still queued.
TerminalGap ==
    LET same == \A f \in Range(queue) : f.domain = queue[1].domain
        complete == same /\ \A f \in Range(queue) : f.cursor # None
    IN  IF gap # None \/ queue = <<>> THEN gap
        ELSE [domain |-> IF same THEN queue[1].domain ELSE None,
              first |-> IF complete THEN queue[1].cursor ELSE None,
              last |-> IF complete THEN queue[Len(queue)].cursor ELSE None,
              complete |-> complete, mixed |-> ~same, count |-> Len(queue)]

Numbers(q) == [i \in 1..Len(q) |-> q[i].n]

\* The window is dropped; the next one starts from its initial state.
DropWindow ==
    /\ active' = FALSE
    /\ available' = InitialCredit
    /\ granted' = 0
    /\ nextSeq' = 0
    /\ history' = <<>>
    /\ counted' = {}
    /\ extended' = 0
    /\ paused' = FALSE
    /\ UNCHANGED <<closed, forfeited, readerVars>>

ClearQueue == queue' = <<>> /\ queuedBytes' = 0

DeliveryInit ==
    /\ WindowInit
    /\ active = FALSE
    /\ durable = FALSE
    /\ queue = <<>>
    /\ queuedBytes = 0
    /\ gap = None
    /\ phase = "open"
    /\ pc = "idle"
    /\ terminal = None
    /\ arrived = 0
    /\ sent = <<>>
    /\ lost = {}
    /\ inside = {}
    /\ recovered = {}
    /\ forgotten = {}
    /\ rejected = {}

\* The loop is about to take its next message, and a turn is active.
Ready == phase = "open" /\ pc = "idle"

(***************************************************************************)
(* submit: one action for each of its results.                             *)
(***************************************************************************)
Submits(f) ==
    /\ Ready
    /\ arrived < MaxFrames
    /\ arrived' = arrived + 1
    /\ UNCHANGED <<durable, phase, pc, terminal, tallyVars>>

\* No window: the frame passes, also while an earlier gap is still open.
PassThrough(f) ==
    /\ Submits(f)
    /\ ~active
    /\ sent' = Append(sent, f.n)
    /\ UNCHANGED <<windowVars, active, bufferVars, lost, inside>>

Suppress(f) ==
    /\ Submits(f)
    /\ active
    /\ gap # None
    /\ gap' = Extended(gap, f)
    /\ lost' = lost \cup {f}
    /\ UNCHANGED <<windowVars, active, queue, queuedBytes, sent, inside>>

Overflows(f) == f.size > MaxBuffer \/ queuedBytes + f.size > MaxBuffer

\* The frame exceeds a chunk, or has no credit and no room: the whole buffer
\* is given up with it, and the client is told (write_resync_required).
StartGap(f) ==
    /\ Submits(f)
    /\ active
    /\ gap = None
    /\ f.size > MaxChunk \/ (~Reserves(f.size) /\ Overflows(f))
    /\ gap' = GapOf(queue, f)
    /\ ClearQueue
    /\ lost' = Range(queue) \cup {f}
    /\ inside' = {queue[i] : i \in 2..Len(queue)}
    /\ UNCHANGED <<windowVars, active, sent>>

\* Credit is reserved for the new frame even if older ones are queued.
DeliverGranted(f) ==
    /\ Submits(f)
    /\ active
    /\ gap = None
    /\ f.size <= MaxChunk
    /\ TryReserve(f.size)
    /\ sent' = Append(sent, f.n)
    /\ UNCHANGED <<active, bufferVars, lost, inside>>

Enqueue(f) ==
    /\ Submits(f)
    /\ active
    /\ gap = None
    /\ f.size <= MaxChunk
    /\ ~Reserves(f.size)
    /\ ~Overflows(f)
    /\ queue' = Append(queue, f)
    /\ queuedBytes' = queuedBytes + f.size
    /\ UNCHANGED <<windowVars, active, gap, sent, lost, inside>>

\* Mutant: the gap is dropped together with the window.
DisableForgettingGap ==
    /\ DropWindow
    /\ ClearQueue
    /\ sent' = sent \o Numbers(queue)
    /\ gap' = None
    /\ UNCHANGED <<lost, inside>>

\* disable_and_release, and the caller that sends what it released.  An open
\* gap stays.
DisableAndRelease ==
    /\ DropWindow
    /\ ClearQueue
    /\ sent' = sent \o Numbers(queue)
    /\ UNCHANGED <<gap, lost, inside>>

\* BufferedFrame::new fails: the stream becomes unbounded again and the frame
\* itself is not delivered.
RejectMalformed ==
    /\ Ready
    /\ active
    /\ arrived < MaxFrames
    /\ arrived' = arrived + 1
    /\ rejected' = rejected \cup {arrived + 1}
    /\ DisableAndRelease
    /\ UNCHANGED <<durable, phase, pc, terminal, recovered, forgotten>>

(***************************************************************************)
(* Core frames that are not flow controlled: they are sent at once, which  *)
(* only matters here for what they say of the event store or of the turn.  *)
(***************************************************************************)
StoreReady ==
    /\ Ready
    /\ ~durable
    /\ durable' = TRUE
    /\ UNCHANGED <<windowVars, active, bufferVars, phase, pc, terminal, arrived, sent, lost, inside, tallyVars>>

StoreLost ==
    /\ Ready
    /\ durable
    /\ durable' = FALSE
    /\ IF active THEN DisableAndRelease
       ELSE UNCHANGED <<windowVars, active, bufferVars, sent, lost, inside>>
    /\ UNCHANGED <<phase, pc, terminal, arrived, tallyVars>>

\* turn.end carries the gap, if any; finish_turn then resets the buffer.
TurnEnd ==
    /\ Ready
    /\ terminal' = TerminalGap
    /\ lost' = IF gap # None THEN lost ELSE Range(queue)
    /\ phase' = "ended"
    /\ gap' = None
    /\ ClearQueue
    /\ DropWindow
    /\ inside' = {}
    /\ UNCHANGED <<durable, pc, arrived, sent, tallyVars>>

\* The next turn.start, accepted.
BeginTurn ==
    /\ phase = "ended"
    /\ phase' = "open"
    /\ terminal' = None
    /\ gap' = None
    /\ ClearQueue
    /\ DropWindow
    /\ arrived' = 0
    /\ sent' = <<>>
    /\ lost' = {}
    /\ inside' = {}
    /\ recovered' = {}
    /\ forgotten' = {}
    /\ rejected' = {}
    /\ UNCHANGED <<durable, pc>>

(***************************************************************************)
(* handle_flow_control and StreamDelivery::apply_control.  A control that  *)
(* cannot be parsed changes nothing.                                       *)
(***************************************************************************)
ResumesGap(c) == c.kind = "resume" /\ gap # None

\* A gap is closed by a resume that names a cursor past its end, and only such
\* a resume names one.
CursorAccepted(c, through) ==
    IF ResumesGap(c)
    THEN gap.last # None /\ through # None /\ through >= gap.last + 1
    ELSE through = None

\* Mutant: only a resume empties the queue.
DrainsOnResume(c) == IF c.kind = "resume" THEN "drain" ELSE "idle"

AfterAck(c) == "drain"

\* The frame the gap ends with: its cursor is the one that is published.
LastLost == CHOOSE f \in lost : \A g \in lost : g.n <= f.n

\* A resume through a cursor means that the client has seen what its source
\* numbered below it, and says nothing of what another source numbered.
ResumedPast(f, through) ==
    f.cursor # None /\ f.cursor < through /\ f.source = LastLost.source

\* The carrier may deliver a control under any number.
ControlApplied(seq, c, through) ==
    /\ Ready
    /\ durable
    /\ CursorAccepted(c, through)
    /\ ApplyControl(seq, c)
    /\ active' = TRUE
    /\ pc' = AfterAck(c)
    /\ IF ResumesGap(c)
       THEN /\ gap' = None
            /\ lost' = {}
            /\ recovered' = recovered \cup {f.n : f \in lost}
            /\ forgotten' = forgotten \cup
                 {[source |-> f.source = LastLost.source,
                   domain |-> f.domain = LastLost.domain,
                   inside |-> f \in inside] :
                    f \in {g \in lost : ~ResumedPast(g, through)}}
            /\ inside' = {}
       ELSE UNCHANGED <<gap, lost, recovered, forgotten, inside>>
    /\ UNCHANGED <<durable, queue, queuedBytes, phase, terminal, arrived, sent, rejected>>

\* A retained control again, with the same fingerprint: acknowledged as
\* existing, and the queue drained.
ControlRepeated ==
    /\ Ready
    /\ durable
    /\ history # <<>>
    /\ pc' = "drain"
    /\ UNCHANGED <<windowVars, active, durable, bufferVars, phase, terminal, arrived, sent, lost, inside, tallyVars>>

\* A control that is refused (out of sequence, rebound, too much credit, or
\* with a wrong cursor) has by then created the window.
ControlRefused ==
    /\ Ready
    /\ durable
    /\ ~active
    /\ active' = TRUE
    /\ UNCHANGED <<windowVars, durable, bufferVars, phase, pc, terminal, arrived, sent, lost, inside, tallyVars>>

FrontGranted == gap = None /\ queue # <<>> /\ Reserves(queue[1].size)

\* One turn of the loop of drain.
DrainOne ==
    /\ pc = "drain"
    /\ FrontGranted
    /\ TryReserve(queue[1].size)
    /\ sent' = Append(sent, queue[1].n)
    /\ queue' = Tail(queue)
    /\ queuedBytes' = queuedBytes - queue[1].size
    /\ UNCHANGED <<active, durable, gap, phase, pc, terminal, arrived, lost, inside, tallyVars>>

DrainStops ==
    /\ pc = "drain"
    /\ ~FrontGranted
    /\ pc' = "idle"
    /\ UNCHANGED <<windowVars, active, durable, bufferVars, phase, terminal, arrived, sent, lost, inside, tallyVars>>

SubmitFrame(f) ==
    \/ PassThrough(f)
    \/ Suppress(f)
    \/ StartGap(f)
    \/ DeliverGranted(f)
    \/ Enqueue(f)

Cursors == 0..(MaxFrames + 1) \cup {None}

\* The commands parse_flow_control produces.
ClientCommand == {c \in Command : c.kind # "close"}

DeliveryNext ==
    \/ \E size \in 1..MaxFrame :
         \/ \E s \in Sources : SubmitFrame(Numbered(arrived + 1, size, s))
         \/ \E domain \in Domains \cup {None} : SubmitFrame(Unnumbered(arrived + 1, size, domain))
    \/ RejectMalformed
    \/ StoreReady
    \/ StoreLost
    \/ TurnEnd
    \/ BeginTurn
    \/ \E seq \in 0..SeqMax, c \in ClientCommand, through \in Cursors :
         ControlApplied(seq, c, through)
    \/ ControlRepeated
    \/ ControlRefused
    \/ DrainOne
    \/ DrainStops

DeliverySpec == DeliveryInit /\ [][DeliveryNext]_deliveryVars

(***************************************************************************)
(* Properties                                                              *)
(***************************************************************************)

\* total is the sum of the sizes of the frames of q.
SumsTo(q, total) ==
    \E sum \in [0..Len(q) -> 0..total] :
        /\ sum[0] = 0
        /\ \A i \in 1..Len(q) : sum[i] = sum[i - 1] + q[i].size
        /\ sum[Len(q)] = total

\* "bounded delivery never becomes silent observation loss" (usage text):
\* every frame the core sent was written once, or waits in the buffer, or is
\* counted by the gap the client knows of and the turn's terminal repeats, or
\* the client has resumed after it, or it had a malformed cursor.  The bytes
\* of the buffer are counted exactly and bounded.
EveryFrameAccounted ==
    LET waiting == Range(queue)
        reported == IF phase = "open" THEN gap ELSE terminal
    IN  /\ Range(sent) \cup {f.n : f \in waiting \cup lost} \cup recovered \cup rejected = 1..arrived
        /\ Len(sent) + Len(queue) + Cardinality(lost) + Cardinality(recovered)
             + Cardinality(rejected) = arrived
        /\ (IF reported = None THEN 0 ELSE reported.count) = Cardinality(lost)
        /\ SumsTo(queue, queuedBytes)
        /\ queuedBytes <= MaxBuffer

\* No frame waits for credit that is there: whenever the host goes back to
\* its loop with a frame queued, the window cannot grant the oldest one.
QueueWaitsForCredit ==
    pc = "idle" /\ queue # <<>> => active /\ gap = None /\ ~FrontGranted

\* A client that resumes after a gap, at the earliest cursor the host accepts,
\* has seen every frame of the source that numbered that cursor which the gap
\* swallowed, also the ones suppressed after it was announced.  What a resume
\* can leave out is a frame of another source, and in two cases only: a source
\* that shares the domain (the cursors of two jobs have one label), or a frame
\* inside the buffer the gap gave up, because from_buffer compares the domains
\* of the two ends.  Where a domain changes after that, extend lets no resume
\* through.
ResumeCoversGap ==
    \A r \in forgotten :
        /\ ~r.source
        /\ r.domain \/ r.inside
=============================================================================
