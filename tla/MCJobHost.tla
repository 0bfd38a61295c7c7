----------------------------- MODULE MCJobHost -----------------------------
(***************************************************************************)
(* JobHost for TLC: what clients pipeline, cut off at any point.           *)
(***************************************************************************)
EXTENDS JobHost

MCScripts == {
    <<"hello", "start", "turn", "act">>,        \* both gates
    <<"turn", "start", "start", "start">>,      \* the deferred queue overflows
    <<"turn", "hello", "turn", "start">>,       \* refused boundaries, one of them counted
    <<"control", "turn", "start", "turn">>,     \* a late reply meets the next turn
    <<"start", "wait", "turn">>,                \* a wait and events across a gate
    <<"start", "wait", "wait">>,                \* one wait too many
    <<"control", "control", "control">>}        \* both channels fill up
=============================================================================
