------------------------------ MODULE MCAccounts ------------------------------
(* Model-checking instances of Accounts. *)
EXTENDS Accounts, TLC

Symmetry ==
  Permutations(Users) \cup Permutations(Emails) \cup Permutations(Passwords)
    \cup Permutations(Requests)
===============================================================================
