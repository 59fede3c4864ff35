---------------------------- MODULE MCOrderEngine ----------------------------
(* Model-checking instances of OrderEngine. *)
EXTENDS OrderEngine, TLC

Symmetry == Permutations(Workers)
=============================================================================
