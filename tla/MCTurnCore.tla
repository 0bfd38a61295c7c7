----------------------------- MODULE MCTurnCore -----------------------------
(* Instances of TurnCore for TLC.  The turns differ only in their names, so *)
(* the frames that cancel name the first: one that names another turn, or   *)
(* comes when no turn is active, is answered like "refused".                *)
EXTENDS TurnCore

CONSTANTS t1, t2, d1, d2

Cancellations ==
    {[type |-> "refused", turn |-> None], [type |-> "turn.cancel", turn |-> t1],
     [type |-> "tool.cancel", turn |-> t1]}

\* A turn, the same turn with another request, and a second turn.
Begin == [turn |-> t1, digest |-> d1]
Starts == {Begin, [turn |-> t1, digest |-> d2], [turn |-> t2, digest |-> d1]}
OneStart == {Begin}

Refusals == {[type |-> "refused", turn |-> None]}
=============================================================================
