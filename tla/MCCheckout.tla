------------------------------ MODULE MCCheckout ------------------------------
(* Model-checking instances of Checkout. *)
EXTENDS Checkout, TLC

CONSTANTS c1, c2, public, private

(* The one code may be activated once, the other as often as one likes *)
OnceOrUnlimited == [c \in Codes |-> IF c = c1 THEN 1 ELSE Unlimited]

PrivateOrPublic == {<<private, c1>>, <<public, c2>>}

Symmetry == Permutations(Orders) \cup Permutations(Workers)
=============================================================================
