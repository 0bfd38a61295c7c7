--------------------------- MODULE MCCallRegistry ---------------------------
(* CallRegistry with small sets: see MCCallRegistry.cfg. *)
EXTENDS CallRegistry, TLC

KeySymmetry == Permutations(Key)
=============================================================================
