----------------------------- MODULE MCInventory -----------------------------
(* Model-checking instances of Inventory. *)
EXTENDS Inventory, TLC

Symmetry == Permutations(Subs) \cup Permutations(ESims)
=============================================================================
