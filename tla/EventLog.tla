------------------------------ MODULE EventLog ------------------------------
(***************************************************************************)
(* What an event store promises to the journals written on it: one log     *)
(* that grows at its end, at most one event for a key, a stable part that  *)
(* an fsync has covered, and the events some caller was told are durable.  *)
(* A power loss keeps the stable part and cuts the rest anywhere; an event *)
(* is acknowledged only from the stable part.                              *)
(***************************************************************************)
EXTENDS Naturals, Sequences

CONSTANT Events  \* records with a field key

VARIABLES
    log,    \* the events in store order
    stable, \* the positions of log that a power loss cannot take
    acked   \* events acknowledged behind a durability barrier

logVars == <<log, stable, acked>>

LogInit ==
    /\ log = <<>>
    /\ stable = {}
    /\ acked = {}

\* An event is added at the end, under a key the log does not hold.
LogAppend ==
    /\ \E e \in Events :
         /\ \A i \in DOMAIN log : log[i].key # e.key
         /\ log' = Append(log, e)
    /\ UNCHANGED <<stable, acked>>

\* A barrier makes everything written so far stable, and may acknowledge.
LogSync ==
    /\ stable' \in {stable, DOMAIN log}
    /\ \E A \in SUBSET {log[i] : i \in stable'} : acked' = acked \cup A
    /\ UNCHANGED log

\* A power loss takes any suffix that is not stable.
LogLose ==
    /\ \E n \in 0..Len(log) :
         /\ stable \subseteq 1..n
         /\ log' = SubSeq(log, 1, n)
         /\ stable' = 1..n
    /\ UNCHANGED acked

LogNext == LogAppend \/ LogSync \/ LogLose

LogSpec == LogInit /\ [][LogNext]_logVars
=============================================================================
