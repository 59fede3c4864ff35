---------------------------- MODULE MCSubscription ----------------------------
(* Model-checking instances of Subscription.  A renewal bills half a period *)
(* ahead and activates the plan when its period starts.                     *)
EXTENDS Subscription

BillAhead == -1
=============================================================================
