-------------------------- MODULE MCProcessRuntime --------------------------
(* ProcessRuntime for TLC: a child, one process it may fork, one stream.   *)
EXTENDS ProcessRuntime
=============================================================================
