---------------------------- MODULE OrderLifecycle ----------------------------
(***************************************************************************)
(* What an order promises its owner, whatever the engine does behind it:   *)
(* its steps are recorded once each and in turn; it is done only when all  *)
(* are; once it is being reverted no further step is recorded, and steps   *)
(* are undone from the last to the first.  The promise ends when the order *)
(* is derailed, that is, when one of the races the engine leaves open hits *)
(* it.                                                                     *)
(***************************************************************************)
EXTENDS Integers

CONSTANTS Orders, NumSteps

Steps == 0 .. NumSteps - 1

VARIABLES
  phase,     \* where each order is in its life
  recorded,  \* the steps whose run has been recorded as done
  undone     \* the steps whose abort has been recorded as done

lifecycleVars == <<phase, recorded, undone>>

Phase == {"draft", "accepted", "reverting", "done", "aborted", "derailed"}

TypeOK ==
  /\ phase \in [Orders -> Phase]
  /\ recorded \in [Orders -> SUBSET Steps]
  /\ undone \in [Orders -> SUBSET Steps]

Init ==
  /\ phase \in [Orders -> {"draft", "accepted"}]
  /\ recorded = [o \in Orders |-> {}]
  /\ undone = [o \in Orders |-> {}]

Move(o, from, to) ==
  /\ phase[o] \in from
  /\ phase' = [phase EXCEPT ![o] = to]
  /\ UNCHANGED <<recorded, undone>>

Accept(o) == Move(o, {"draft"}, "accepted")

(* The steps before k have been recorded, k is next *)
Advance(o, k) ==
  /\ phase[o] = "accepted"
  /\ recorded[o] = {j \in Steps : j < k}
  /\ recorded' = [recorded EXCEPT ![o] = @ \cup {k}]
  /\ UNCHANGED <<phase, undone>>

Complete(o) ==
  /\ recorded[o] = Steps
  /\ Move(o, {"accepted"}, "done")

(* The retries are exhausted *)
GiveUp(o) == Move(o, {"accepted", "reverting"}, "aborted")

AbortUnstarted(o) ==
  /\ recorded[o] = {}
  /\ Move(o, {"draft", "accepted"}, "aborted")

StartReverting(o) == Move(o, {"accepted"}, "reverting")

(* The recorded steps after k are undone, k is next *)
Undo(o, k) ==
  /\ phase[o] = "reverting"
  /\ {j \in recorded[o] : j > k} \subseteq undone[o]
  /\ undone' = [undone EXCEPT ![o] = @ \cup {k}]
  /\ UNCHANGED <<phase, recorded>>

Derail(o) ==
  /\ phase' = [phase EXCEPT ![o] = "derailed"]
  /\ recorded' \in {[recorded EXCEPT ![o] = S] : S \in SUBSET Steps}
  /\ undone' \in {[undone EXCEPT ![o] = S] : S \in SUBSET Steps}

Next ==
  \E o \in Orders :
    \/ Accept(o) \/ Complete(o) \/ GiveUp(o) \/ AbortUnstarted(o)
    \/ StartReverting(o) \/ Derail(o)
    \/ \E k \in Steps : Advance(o, k) \/ Undo(o, k)

Spec == Init /\ [][Next]_lifecycleVars
=============================================================================
