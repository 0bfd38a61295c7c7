---------------------------- MODULE MCToolBridge ----------------------------
(* ToolBridge for TLC: three callers, and the calls each of them may carry. *)
EXTENDS ToolBridge

CONSTANTS k1, k2, r1, r2, c1, c2, c3

Kinds == {"Exited", "Cancelled", "TimedOut", "IoError"}

\* Two callers of one call; a third that reuses its id for another request or
\* competes with a call of its own for the last entry.
MCCarries == [c \in Caller |->
    IF c = c3 THEN {[key |-> k1, request |-> r2], [key |-> k2, request |-> r1]}
              ELSE {[key |-> k1, request |-> r1]}]
=============================================================================
