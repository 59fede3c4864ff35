----------------------------- MODULE MCActivation -----------------------------
(* Model-checking instances of Activation. *)
EXTENDS Activation, TLC

Symmetry == Permutations(Orders) \cup Permutations(Workers)
===============================================================================
