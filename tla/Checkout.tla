------------------------------- MODULE Checkout -------------------------------
(***************************************************************************)
(* Drafts of orders for a new plan and the promotion codes they redeem:    *)
(* MeController (createMyOrder, updateMyOrder), OrderService               *)
(* (createAddPlan, updateAddPlanDraft, confirmAddPlanDraft, abort) and     *)
(* PromoCodeService (promo-code/promo-code.service.ts).                    *)
(*                                                                         *)
(* Every call of the API is modelled one database call at a time, so that  *)
(* a user's two devices, other users and the staff act in between.  What   *)
(* confirmAddPlanDraft asks of the user's address, payment method and      *)
(* e-mail is left out: a call that is refused there changes nothing.       *)
(***************************************************************************)
EXTENDS Integers, FiniteSets

CONSTANTS
  Orders,         \* orders there may be
  NoOrder,        \* what an idle call works on
  Offers,         \* offers, and which of them
  PublicOffers,   \*   can be had without a code
  NoOffer,        \* the offer of an order that does not exist
  Codes,          \* promotion codes
  NoCode,         \* the code of an order without one
  MaxActivations, \* how often each code may be activated, or Unlimited
  Unlimited,
  Linked,         \* the pairs of offer and code that can be had to begin with
  Open,           \* see Redemption
  Workers,        \* calls in flight together
  MaxUpdates,     \* bound: updates of drafts asked for
  MaxEdits,       \* bound: edits of codes by the staff
  MaxStops,       \* bound: calls that die with the server
  MaxEvents       \* bound: all of these together

ASSUME CheckoutAssumption ==
  /\ IsFiniteSet(Orders)
  /\ NoOrder \notin Orders /\ NoOffer \notin Offers /\ NoCode \notin Codes
  /\ PublicOffers \subseteq Offers
  /\ MaxActivations \in [Codes -> Nat \cup {Unlimited}]
  /\ Unlimited \notin Nat
  /\ Linked \subseteq Offers \X Codes
  /\ Open \notin Codes \cup {NoCode}
  /\ MaxUpdates \in Nat /\ MaxEdits \in Nat /\ MaxStops \in Nat /\ MaxEvents \in Nat

VARIABLES
  order,       \* Order rows with their addPlan details
  redeemable,  \* the pairs of offer and code that are linked, active and in date
  used,        \* PromoCode.usedActivations
  activations, \* PromoCodeActivation rows, counted by order and code
  pc,          \* the next database call of each API call
  job,         \* its local variables
  spent,       \* how often the environment has used each bound
  wasOffered,  \* history: the pairs that were redeemable at some time
  mishaps      \* history: what happened to an order while it was confirmed

vars == <<order, redeemable, used, activations, pc, job, spent, wasOffered, mishaps>>

-----------------------------------------------------------------------------
(* The engine's statuses do not matter here: see OrderEngine *)
Status == {"ABSENT", "DRAFT", "CONFIRMED", "ABORTED"}

Pairs == Offers \X Codes

(* confirmed: confirmedAt is not null *)
OrderRow == [status : Status, offer : Offers \cup {NoOffer}, code : Codes \cup {NoCode},
             confirmed : BOOLEAN]

NoRow == [status |-> "ABSENT", offer |-> NoOffer, code |-> NoCode, confirmed |-> FALSE]

Place == {"idle", "create", "update", "activate", "confirm"}

Job == [order : Orders \cup {NoOrder}, offer : Offers \cup {NoOffer}, code : Codes \cup {NoCode}]

NoJob == [order |-> NoOrder, offer |-> NoOffer, code |-> NoCode]

Mishap == {"contested", "swapped", "aborted", "lost"}

TypeOK ==
  /\ order \in [Orders -> OrderRow]
  /\ redeemable \in SUBSET Pairs /\ wasOffered \in SUBSET Pairs
  /\ used \in [Codes -> Nat]
  /\ \A c \in Codes : MaxActivations[c] # Unlimited => used[c] <= MaxActivations[c]
  /\ activations \in [Orders -> [Codes -> Nat]]
  /\ pc \in [Workers -> Place]
  /\ job \in [Workers -> Job]
  /\ \A w \in Workers : pc[w] \in {"update", "activate", "confirm"} => job[w].order \in Orders
  /\ \A w \in Workers : pc[w] \in {"create", "update"} => job[w].offer \in Offers
  /\ \A w \in Workers : pc[w] = "activate" => job[w].code \in Codes
  /\ spent \in [{"update", "edit", "stop"} -> Nat]
  /\ mishaps \in [Orders -> SUBSET Mishap]

Init ==
  /\ order = [o \in Orders |-> NoRow]
  /\ redeemable = Linked /\ wasOffered = Linked
  /\ used = [c \in Codes |-> 0]
  /\ activations = [o \in Orders |-> [c \in Codes |-> 0]]
  /\ pc = [w \in Workers |-> "idle"]
  /\ job = [w \in Workers |-> NoJob]
  /\ spent = [e \in {"update", "edit", "stop"} |-> 0]
  /\ mishaps = [o \in Orders |-> {}]

-----------------------------------------------------------------------------
Spend(event, bound) ==
  /\ spent[event] < bound
  /\ spent["update"] + spent["edit"] + spent["stop"] < MaxEvents
  /\ spent' = [spent EXCEPT ![event] = @ + 1]

Begin(w, place, locals) ==
  /\ pc[w] = "idle"
  /\ pc' = [pc EXCEPT ![w] = place]
  /\ job' = [job EXCEPT ![w] = locals]

Return(w) == /\ pc' = [pc EXCEPT ![w] = "idle"]
             /\ job' = [job EXCEPT ![w] = NoJob]

(* Call w is confirming order o: it has read it and not yet answered *)
Confirming(w, o) == pc[w] \in {"activate", "confirm"} /\ job[w].order = o

(* Event e hits order o; it matters while the order is being confirmed *)
Disturb(o, e) ==
  mishaps' = IF \E v \in Workers : Confirming(v, o)
               THEN [mishaps EXCEPT ![o] = @ \cup {e}] ELSE mishaps

(* findOneWithPromoAndValid, or findOnePublicValid when there is no code *)
Offered(f, c) == IF c = NoCode THEN f \in PublicOffers ELSE <<f, c>> \in redeemable

-----------------------------------------------------------------------------
(* createMyOrder: the offer is looked up, then the draft created *)
BeginCreate(w, f, c) ==
  /\ Offered(f, c)
  /\ Begin(w, "create", [NoJob EXCEPT !.offer = f, !.code = c])
  /\ UNCHANGED <<order, redeemable, used, activations, spent, wasOffered, mishaps>>

Create(w, o) ==
  /\ pc[w] = "create"
  /\ order[o].status = "ABSENT"
  /\ order' = [order EXCEPT ![o] = [status |-> "DRAFT", offer |-> job[w].offer,
                                    code |-> job[w].code, confirmed |-> FALSE]]
  /\ Return(w)
  /\ UNCHANGED <<redeemable, used, activations, spent, wasOffered, mishaps>>

(* updateAddPlanDraft with an offer: the order is read and the offer looked *)
(* up, then both columns are written where the order is still a draft, so   *)
(* the two reads may be one.  Without an offer neither column changes,      *)
(* whatever code is given.                                                  *)
BeginUpdate(w, o, f, c) ==
  /\ order[o].status = "DRAFT"
  /\ Offered(f, c)
  /\ Spend("update", MaxUpdates)
  /\ Begin(w, "update", [order |-> o, offer |-> f, code |-> c])
  /\ UNCHANGED <<order, redeemable, used, activations, wasOffered, mishaps>>

(***************************************************************************)
(* Seeded bugs, here and below under the names Definition_Bug.  Each is a  *)
(* plausible slip in the definition it is named for; README.md says which  *)
(* property tells it from the code.                                        *)
(***************************************************************************)
Update_KeepsCode(w) ==
  LET o == job[w].order IN
  /\ pc[w] = "update"
  /\ order[o].status = "DRAFT"
  /\ order' = [order EXCEPT ![o].offer = job[w].offer,
                            ![o].code = IF job[w].code = NoCode THEN @ ELSE job[w].code]
  /\ Disturb(o, "swapped")
  /\ Return(w)
  /\ UNCHANGED <<redeemable, used, activations, spent, wasOffered>>

Update_AnyStatus(w) ==
  LET o == job[w].order IN
  /\ pc[w] = "update"
  /\ order' = [order EXCEPT ![o].offer = job[w].offer, ![o].code = job[w].code]
  /\ Disturb(o, "swapped")
  /\ Return(w)
  /\ UNCHANGED <<redeemable, used, activations, spent, wasOffered>>

Update(w) ==
  LET o == job[w].order IN
  /\ pc[w] = "update"
  /\ order[o].status = "DRAFT"
  /\ order' = [order EXCEPT ![o].offer = job[w].offer, ![o].code = job[w].code]
  /\ Disturb(o, "swapped")
  /\ Return(w)
  /\ UNCHANGED <<redeemable, used, activations, spent, wasOffered>>

UpdateFails(w) ==
  /\ pc[w] = "update"
  /\ order[job[w].order].status # "DRAFT"
  /\ Return(w)
  /\ UNCHANGED <<order, redeemable, used, activations, spent, wasOffered, mishaps>>

-----------------------------------------------------------------------------
BeginConfirm_AnyStatus(w, o) ==
  /\ order[o].status # "ABSENT"
  /\ Begin(w, IF order[o].code = NoCode THEN "confirm" ELSE "activate",
           [NoJob EXCEPT !.order = o, !.code = order[o].code])
  /\ Disturb(o, "contested")
  /\ UNCHANGED <<order, redeemable, used, activations, spent, wasOffered>>

(* confirmAddPlanDraft reads the draft with its code *)
BeginConfirm(w, o) ==
  /\ order[o].status = "DRAFT"
  /\ Begin(w, IF order[o].code = NoCode THEN "confirm" ELSE "activate",
           [NoJob EXCEPT !.order = o, !.code = order[o].code])
  /\ Disturb(o, "contested")
  /\ UNCHANGED <<order, redeemable, used, activations, spent, wasOffered>>

HasRoom_OneMore(c) == MaxActivations[c] # Unlimited => used[c] <= MaxActivations[c]

HasRoom(c) == MaxActivations[c] # Unlimited => used[c] < MaxActivations[c]

(* PromoCodeService.activate: one update, which also creates the activation *)
Activate(w) ==
  LET c == job[w].code
      o == job[w].order IN
  /\ pc[w] = "activate"
  /\ HasRoom(c)
  /\ used' = [used EXCEPT ![c] = @ + 1]
  /\ activations' = [activations EXCEPT ![o][c] = @ + 1]
  /\ pc' = [pc EXCEPT ![w] = "confirm"]
  /\ UNCHANGED <<order, redeemable, job, spent, wasOffered, mishaps>>

ActivateFails(w) ==
  /\ pc[w] = "activate"
  /\ ~HasRoom(job[w].code)
  /\ Return(w)
  /\ UNCHANGED <<order, redeemable, used, activations, spent, wasOffered, mishaps>>

(* The order is confirmed `where: { status: DRAFT }`, with the code it has  *)
(* by now.                                                                  *)
Confirm(w) ==
  LET o == job[w].order IN
  /\ pc[w] = "confirm"
  /\ order[o].status = "DRAFT"
  /\ order' = [order EXCEPT ![o].status = "CONFIRMED", ![o].confirmed = TRUE]
  /\ Return(w)
  /\ UNCHANGED <<redeemable, used, activations, spent, wasOffered, mishaps>>

(* What was activated stays activated *)
ConfirmFails(w) ==
  /\ pc[w] = "confirm"
  /\ order[job[w].order].status # "DRAFT"
  /\ Return(w)
  /\ UNCHANGED <<order, redeemable, used, activations, spent, wasOffered, mishaps>>

-----------------------------------------------------------------------------
(* abort of an order that has no steps yet; its update repeats the status   *)
Abort(o) ==
  /\ order[o].status \in {"DRAFT", "CONFIRMED"}
  /\ order' = [order EXCEPT ![o].status = "ABORTED"]
  /\ Disturb(o, "aborted")
  /\ UNCHANGED <<redeemable, used, activations, pc, job, spent, wasOffered>>

(* linkOffer, or update makes the code active *)
Link(f, c) ==
  /\ <<f, c>> \notin redeemable
  /\ Spend("edit", MaxEdits)
  /\ redeemable' = redeemable \cup {<<f, c>>}
  /\ wasOffered' = wasOffered \cup {<<f, c>>}
  /\ UNCHANGED <<order, used, activations, pc, job, mishaps>>

(* unlinkOffer, update makes the code inactive, or its time is over *)
Unlink(f, c) ==
  /\ <<f, c>> \in redeemable
  /\ Spend("edit", MaxEdits)
  /\ redeemable' = redeemable \ {<<f, c>>}
  /\ UNCHANGED <<order, used, activations, pc, job, wasOffered, mishaps>>

(* The server stops during a call; what the call did remains *)
Stop(w) ==
  /\ pc[w] # "idle"
  /\ Spend("stop", MaxStops)
  /\ mishaps' = IF pc[w] = "confirm"
       THEN [mishaps EXCEPT ![job[w].order] = @ \cup {"lost"}] ELSE mishaps
  /\ Return(w)
  /\ UNCHANGED <<order, redeemable, used, activations, wasOffered>>

CallStep(w) ==
  \/ \E o \in Orders : Create(w, o) \/ BeginConfirm(w, o)
  \/ Update(w) \/ UpdateFails(w)
  \/ Activate(w) \/ ActivateFails(w) \/ Confirm(w) \/ ConfirmFails(w)
  \/ Stop(w)

Next ==
  \/ \E w \in Workers : CallStep(w)
  \/ \E w \in Workers, f \in Offers, c \in Codes \cup {NoCode} :
       BeginCreate(w, f, c) \/ \E o \in Orders : BeginUpdate(w, o, f, c)
  \/ \E o \in Orders : Abort(o)
  \/ \E f \in Offers, c \in Codes : Link(f, c) \/ Unlink(f, c)

Spec == Init /\ [][Next]_vars

-----------------------------------------------------------------------------
(* Order o has been confirmed, or a call has activated its code and is      *)
(* about to confirm it                                                      *)
Redeeming(o) == order[o].confirmed \/ \E w \in Workers : pc[w] = "confirm" /\ job[w].order = o

(* An order uses up exactly one activation, of the code it carries, if it   *)
(* was confirmed, and none if it was not: unless a second confirmation, an  *)
(* update or an abort of it came between the reads and writes of a          *)
(* confirmation, or the server stopped there.                               *)
RedeemedOnce ==
  \A o \in Orders : mishaps[o] = {} =>
    \A c \in Codes : activations[o][c] = IF Redeeming(o) /\ c = order[o].code THEN 1 ELSE 0

(* No order has an offer it is not entitled to: its code was one for this   *)
(* very offer at some time, and without a code the offer is public; however *)
(* updates of the draft and edits of the codes are interleaved.             *)
OfferIsEntitled ==
  \A o \in Orders : order[o].status # "ABSENT" =>
    IF order[o].code = NoCode THEN order[o].offer \in PublicOffers
                              ELSE <<order[o].offer, order[o].code>> \in wasOffered

(* What an order redeems.  A draft whose code was swapped while it was      *)
(* being confirmed may carry a code that was never activated.               *)
RedeemedBy(o) ==
  IF ~order[o].confirmed THEN Open
  ELSE IF "swapped" \in mishaps[o] THEN NoCode ELSE order[o].code

Redeemed == [o \in Orders |-> RedeemedBy(o)]

Promise == INSTANCE Redemption WITH redeemed <- Redeemed

(* No code is redeemed by more orders than it may be, and what an order has *)
(* redeemed does not change once it is confirmed: Checkout implements       *)
(* Redemption.                                                              *)
RedemptionSpec == Promise!Spec
=============================================================================
