----------------------------- MODULE MCOnboarding -----------------------------
(* Model-checking instances of Onboarding. *)
EXTENDS Onboarding, TLC

(* The flow and the stages it asks for follow packages/core/prisma/seed.ts; *)
(* ORDER_MSISDN is like ORDER_SIM_TYPE with one check less.                 *)
SeededFlow == <<"ORDER_PLAN", "ADDRESS", "ORDER_SIM_TYPE", "ORDER_CONFIRM", "ORDER_PROCESS">>

ShortFlow == <<"ORDER_PLAN", "ADDRESS", "ORDER_CONFIRM", "ORDER_PROCESS">>

SeededList == {"ORDER_PLAN", "ADDRESS"}

Symmetry == Permutations(Jobs)
===============================================================================
