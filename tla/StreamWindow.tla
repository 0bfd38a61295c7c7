---------------------------- MODULE StreamWindow ----------------------------
(***************************************************************************)
(* Byte credit and control sequencing of one owner-open stream,            *)
(* crates/trillionnium-owner-open-stream-window/src/lib.rs.                *)
(*                                                                         *)
(* apply_control and try_reserve run under one mutex: each is one action.  *)
(* The carrier may deliver any control under any sequence number, again    *)
(* and out of order.  A reader follows the bounded control history with    *)
(* control_history_from and, told that its cursor is stale, goes on from   *)
(* the earliest retained one.                                              *)
(***************************************************************************)
EXTENDS Integers, Sequences, FiniteSets

CONSTANTS
    InitialCredit, MaxCredit, MaxChunk, MaxHistory,
    SeqMax,     \* stands for u64::MAX of the control sequence
    GrantedMax  \* stands for u64::MAX of total_granted_bytes

\* StreamWindowConfig::validate.
ASSUME ConfigAssumption ==
    /\ InitialCredit \in 0..MaxCredit
    /\ MaxCredit \in Nat \ {0}
    /\ MaxChunk \in 1..MaxCredit
    /\ MaxHistory \in Nat \ {0}
    /\ SeqMax \in Nat
    /\ GrantedMax \in Nat

VARIABLES
    available, paused, closed, granted, nextSeq, history,
    counted,    \* ghost: control numbers whose credit is in `extended'
    extended,   \* ghost: credit the client has extended, each number once
    forfeited,  \* ghost: credit a Close threw away
    cursor,     \* the reader's cursor
    reads,      \* the records the reader was given
    missed      \* sequence numbers a stale cursor told the reader it missed

stateVars == <<available, paused, closed, granted, nextSeq, history>>
ghostVars == <<counted, extended, forfeited>>
readerVars == <<cursor, reads, missed>>
windowVars == <<stateVars, ghostVars, readerVars>>

\* StreamControl, with the validated range of a window update.
Command == [kind : {"window_update"}, credit : 1..MaxCredit]
             \cup [kind : {"pause", "resume", "close"}, credit : {0}]

ControlRecord == [seq : 0..SeqMax, command : Command]

WindowInit ==
    /\ available = InitialCredit
    /\ paused = FALSE
    /\ closed = FALSE
    /\ granted = 0
    /\ nextSeq = 0
    /\ history = <<>>
    /\ counted = {}
    /\ extended = 0
    /\ forfeited = 0
    /\ cursor = 0
    /\ reads = {}
    /\ missed = {}

Earliest == IF history = <<>> THEN nextSeq ELSE history[1].seq

\* The bounded history.
Push(h, r) == Append(IF Len(h) = MaxHistory THEN Tail(h) ELSE h, r)

\* Mutant: a number whose record was evicted is taken for a new one.
AppliesEvicted(seq, c) ==
    /\ seq = nextSeq \/ seq < Earliest
    /\ nextSeq # SeqMax
    /\ closed => c.kind = "close"
    /\ c.kind = "window_update" => available + c.credit <= MaxCredit

\* apply_control gets past its early returns.  A number below nextSeq is
\* answered Existing, ControlConflict or StaleControl, one above it
\* SequenceGap; none of these changes anything.
Applies(seq, c) ==
    /\ seq = nextSeq
    /\ nextSeq # SeqMax
    /\ closed => c.kind = "close"
    /\ c.kind = "window_update" => available + c.credit <= MaxCredit

CreditAfter(c) == IF c.kind = "close" THEN 0 ELSE available + c.credit

ApplyControl(seq, c) ==
    /\ Applies(seq, c)
    /\ available' = CreditAfter(c)
    /\ paused' = IF c.kind = "window_update" THEN paused ELSE c.kind # "resume"
    /\ closed' = (closed \/ c.kind = "close")
    /\ nextSeq' = nextSeq + 1
    /\ history' = Push(history, [seq |-> seq, command |-> c])
    /\ counted' = counted \cup {seq}
    /\ extended' = IF seq \in counted THEN extended ELSE extended + c.credit
    /\ forfeited' = IF c.kind = "close" THEN forfeited + available ELSE forfeited
    /\ UNCHANGED <<granted, readerVars>>

Reserves(bytes) ==
    /\ ~closed
    /\ ~paused
    /\ available >= bytes
    /\ granted + bytes <= GrantedMax

TryReserve(bytes) ==
    /\ Reserves(bytes)
    /\ available' = available - bytes
    /\ granted' = granted + bytes
    /\ UNCHANGED <<paused, closed, nextSeq, history, ghostVars, readerVars>>

NextCursor(records) ==
    IF records = <<>> THEN cursor ELSE records[Len(records)].seq + 1

\* control_history_from: the retained records from the cursor on, at most limit.
RecordsFrom(limit) ==
    LET matching == SelectSeq(history, LAMBDA r : r.seq >= cursor)
    IN  SubSeq(matching, 1, IF limit < Len(matching) THEN limit ELSE Len(matching))

ReadHistory(limit) ==
    LET records == RecordsFrom(limit) IN
    /\ cursor >= Earliest
    /\ reads' = reads \cup {records[i] : i \in DOMAIN records}
    /\ cursor' = NextCursor(records)
    /\ UNCHANGED <<stateVars, ghostVars, missed>>

\* Its StaleControl answer names the earliest retained number.
ResyncReader ==
    /\ cursor < Earliest
    /\ missed' = missed \cup cursor..(Earliest - 1)
    /\ cursor' = Earliest
    /\ UNCHANGED <<stateVars, ghostVars, reads>>

WindowNext ==
    \/ \E seq \in 0..SeqMax, c \in Command : ApplyControl(seq, c)
    \/ \E bytes \in 1..MaxChunk : TryReserve(bytes)
    \/ \E limit \in 1..MaxHistory : ReadHistory(limit)
    \/ ResyncReader

WindowSpec == WindowInit /\ [][WindowNext]_windowVars

(***************************************************************************)
(* Properties                                                              *)
(***************************************************************************)

\* The window is well formed: credit never exceeds max_credit_bytes, and the
\* history never its bound.
WindowTypeOK ==
    /\ available \in 0..MaxCredit
    /\ paused \in BOOLEAN
    /\ closed \in BOOLEAN
    /\ granted \in 0..GrantedMax
    /\ nextSeq \in 0..SeqMax
    /\ history \in Seq(ControlRecord)
    /\ Len(history) <= MaxHistory
    /\ counted = 0..(nextSeq - 1)
    /\ extended \in Nat
    /\ forfeited \in Nat

\* The retained controls are the most recent ones, without a hole: number
\* nextSeq - 1 is last, and something is retained once anything was applied.
HistoryContiguous ==
    /\ \A i \in 1..Len(history) : history[i].seq = nextSeq - Len(history) + i - 1
    /\ Len(history) = IF nextSeq < MaxHistory THEN nextSeq ELSE MaxHistory

\* Every byte granted was covered by the initial credit or by a window update,
\* and an update counts once: delivered again, also after its record has left
\* the history, or with its number bound to another command, it adds nothing.
\* What has not been granted is still available, or a Close threw it away.
CreditConserved == available + granted + forfeited = InitialCredit + extended

\* A closed stream has no credit and stays paused.
ClosedIsDrained == closed => available = 0 /\ paused

WindowInv == WindowTypeOK /\ HistoryContiguous /\ CreditConserved /\ ClosedIsDrained

\* Nothing is granted while the stream is paused or closed, and a Close is
\* final.
NoGrantWhileHeld ==
    [][/\ granted' # granted => ~paused /\ ~closed
       /\ closed => closed' /\ paused' /\ available' = 0]_windowVars

=============================================================================
