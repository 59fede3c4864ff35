------------------------------ MODULE Redemption ------------------------------
(***************************************************************************)
(* What promotion codes promise: an order redeems one code, or none, when  *)
(* it is confirmed; that is settled for good; and no code is redeemed more *)
(* often than it may be.  Checkout implements it.                          *)
(***************************************************************************)
EXTENDS Naturals, FiniteSets

CONSTANTS
  Orders,         \* orders for a new plan
  Codes,          \* promotion codes
  NoCode,         \* the code of an order without one
  Open,           \* an order that is not confirmed
  MaxActivations, \* how often each code may be redeemed, or Unlimited
  Unlimited

VARIABLE redeemed

RoomFor(c) ==
  c # NoCode /\ MaxActivations[c] # Unlimited =>
    Cardinality({o \in Orders : redeemed[o] = c}) < MaxActivations[c]

Init == redeemed = [o \in Orders |-> Open]

Redeem(o, c) ==
  /\ redeemed[o] = Open
  /\ RoomFor(c)
  /\ redeemed' = [redeemed EXCEPT ![o] = c]

Next == \E o \in Orders, c \in Codes \cup {NoCode} : Redeem(o, c)

Spec == Init /\ [][Next]_redeemed
=============================================================================
