------------------------------ MODULE MCBilling ------------------------------
(* Model-checking instances of Billing. *)
EXTENDS Billing, TLC

Symmetry == Permutations(Orders) \cup Permutations(Workers)
=============================================================================
