---------------------------- MODULE MCJobManager ----------------------------
(***************************************************************************)
(* Instances of JobManager for TLC.  Callers are named for what they do;   *)
(* each .cfg picks which of them exist.                                    *)
(***************************************************************************)
EXTENDS JobManager

CONSTANTS a1, j1, j2, r1, r2, opStart, opControl, dStart, dWrite, dOther

Start1 == "start 1"
Start2 == "start 2"
StartOther == "start of another job"
StartClash == "start of the same job with another request"
Write1 == "write"
Write2 == "write again"
KillSameId == "kill under the id of another control"
Close1 == "close stdin"
Resize1 == "resize"

MCKeyOf == [t \in Thread |-> IF t = StartOther THEN j2 ELSE j1]
MCRequestOf == [s \in Starter |-> IF s \in {StartOther, StartClash} THEN r2 ELSE r1]
MCOperationOf == [t \in Thread |-> CASE t \in Starter -> opStart
                                     [] OTHER -> opControl]
MCContentOf == [t \in Thread |-> CASE t \in Starter \ {StartClash} -> dStart
                                   [] t \in {Write1, Write2, Close1} -> dWrite
                                   [] OTHER -> dOther]
MCKindOf == [c \in Controller |-> CASE c \in {Write1, Write2} -> "write"
                                    [] c = Close1 -> "close_stdin"
                                    [] c = Resize1 -> "resize"
                                    [] OTHER -> "kill"]

TwoStarts == {Start1, Start2}
ClashingStarts == {Start1, StartClash}
StartsOfTwoJobs == {Start1, StartOther}
OneResize == {Resize1}
TwoWrites == {Write1, Write2}
CloseAndConflict == {Close1, KillSameId}
=============================================================================
