---------------------------- MODULE CheckoutProofs ----------------------------
(***************************************************************************)
(* Theorems about Checkout, for any orders, offers, codes and calls and    *)
(* any bounds on the environment.                                          *)
(***************************************************************************)
EXTENDS Checkout, FiniteSetTheorems, TLAPS

LEMMA NoJobType == NoJob \in Job /\ NoJob.order = NoOrder
BY DEF NoJob, Job

(* The calls in flight are well typed *)
CallsOK ==
  /\ pc \in [Workers -> Place]
  /\ job \in [Workers -> Job]
  /\ \A w \in Workers : pc[w] \in {"update", "activate", "confirm"} => job[w].order \in Orders
  /\ \A w \in Workers : pc[w] \in {"create", "update"} => job[w].offer \in Offers
  /\ \A w \in Workers : pc[w] = "activate" => job[w].code \in Codes

LEMMA BeginCalls ==
  ASSUME CallsOK, NEW w \in Workers, NEW place \in Place, NEW locals \in Job,
         Begin(w, place, locals),
         place \in {"update", "activate", "confirm"} => locals.order \in Orders,
         place \in {"create", "update"} => locals.offer \in Offers,
         place = "activate" => locals.code \in Codes
  PROVE  CallsOK'
BY DEF CallsOK, Begin

LEMMA ReturnCalls ==
  ASSUME CallsOK, NEW w \in Workers, Return(w)
  PROVE  CallsOK'
<1>1. pc' \in [Workers -> Place] /\ job' \in [Workers -> Job]
  BY NoJobType DEF CallsOK, Return, Place
<1>2. QED
  BY <1>1 DEF CallsOK, Return

LEMMA DisturbType ==
  ASSUME TypeOK, NEW o \in Orders, NEW e \in Mishap, Disturb(o, e)
  PROVE  mishaps' \in [Orders -> SUBSET Mishap]
BY DEF TypeOK, Disturb

LEMMA SpendType ==
  ASSUME TypeOK, NEW e \in {"update", "edit", "stop"}, NEW n, Spend(e, n)
  PROVE  spent' \in [{"update", "edit", "stop"} -> Nat]
BY DEF TypeOK, Spend

LEMMA TypeInit == Init => TypeOK
<1> SUFFICES ASSUME Init PROVE TypeOK
  OBVIOUS
<1>1. NoRow \in OrderRow
  BY DEF NoRow, OrderRow, Status
<1>2. \A c \in Codes : MaxActivations[c] # Unlimited => used[c] <= MaxActivations[c]
  BY CheckoutAssumption DEF Init
<1>3. QED
  BY <1>1, <1>2, NoJobType, CheckoutAssumption DEF Init, TypeOK, Pairs, Place

LEMMA TypeStep == TypeOK /\ [Next]_vars => TypeOK'
<1> SUFFICES ASSUME TypeOK, [Next]_vars PROVE TypeOK'
  OBVIOUS
<1>0. CallsOK
  BY DEF TypeOK, CallsOK
<1>1. ASSUME NEW w \in Workers, NEW o \in Orders, Create(w, o) PROVE TypeOK'
  <2>1. [status |-> "DRAFT", offer |-> job[w].offer, code |-> job[w].code, confirmed |-> FALSE]
          \in OrderRow
    BY <1>1 DEF TypeOK, Create, Job, OrderRow, Status
  <2>2. order' \in [Orders -> OrderRow]
    BY <1>1, <2>1 DEF TypeOK, Create
  <2>3. CallsOK'
    BY <1>0, <1>1, ReturnCalls DEF Create
  <2>4. QED
    BY <1>1, <2>2, <2>3 DEF TypeOK, Create, CallsOK
<1>2. ASSUME NEW w \in Workers, NEW o \in Orders, BeginConfirm(w, o) PROVE TypeOK'
  <2> DEFINE place == IF order[o].code = NoCode THEN "confirm" ELSE "activate"
             locals == [NoJob EXCEPT !.order = o, !.code = order[o].code]
  <2>1. /\ locals \in Job
        /\ locals.order = o
        /\ place = "activate" => locals.code \in Codes
    BY DEF TypeOK, OrderRow, Job, NoJob
  <2>2. place \in {"activate", "confirm"} /\ place \in Place
    BY DEF Place
  <2>3. Begin(w, place, locals)
    BY <1>2 DEF BeginConfirm
  <2> HIDE DEF place, locals
  <2>4. CallsOK'
    BY <1>0, <2>1, <2>2, <2>3, BeginCalls
  <2>5. mishaps' \in [Orders -> SUBSET Mishap]
    BY <1>2, DisturbType DEF BeginConfirm, Mishap
  <2>6. QED
    BY <1>2, <2>4, <2>5 DEF TypeOK, BeginConfirm, CallsOK
<1>3. ASSUME NEW w \in Workers, Update(w) PROVE TypeOK'
  <2>1. job[w].order \in Orders /\ job[w].offer \in Offers /\ job[w].code \in Codes \cup {NoCode}
    BY <1>3 DEF TypeOK, Update, Job
  <2>2. order' \in [Orders -> OrderRow]
    <3> DEFINE o == job[w].order
               row == [order[o] EXCEPT !.offer = job[w].offer, !.code = job[w].code]
    <3>1. row \in OrderRow
      <4>1. order[o] \in OrderRow
        BY <2>1 DEF TypeOK
      <4>2. QED
        BY <2>1, <4>1 DEF OrderRow
    <3>2. order' = [order EXCEPT ![o] = row]
      BY <1>3 DEF Update
    <3> HIDE DEF o, row
    <3>3. QED
      BY <3>1, <3>2 DEF TypeOK
  <2>3. CallsOK'
    BY <1>0, <1>3, ReturnCalls DEF Update
  <2>4. mishaps' \in [Orders -> SUBSET Mishap]
    BY <1>3, <2>1, DisturbType DEF Update, Mishap
  <2>5. QED
    BY <1>3, <2>2, <2>3, <2>4 DEF TypeOK, Update, CallsOK
<1>4. ASSUME NEW w \in Workers, UpdateFails(w) \/ ActivateFails(w) \/ ConfirmFails(w)
      PROVE  TypeOK'
  <2>1. CallsOK'
    BY <1>0, <1>4, ReturnCalls DEF UpdateFails, ActivateFails, ConfirmFails
  <2>2. QED
    BY <1>4, <2>1 DEF TypeOK, UpdateFails, ActivateFails, ConfirmFails, CallsOK
<1>5. ASSUME NEW w \in Workers, Activate(w) PROVE TypeOK'
  <2>1. job[w].order \in Orders /\ job[w].code \in Codes
    BY <1>5 DEF TypeOK, Activate
  <2>2. used' \in [Codes -> Nat] /\ activations' \in [Orders -> [Codes -> Nat]]
    BY <1>5, <2>1 DEF TypeOK, Activate
  <2>3. \A c \in Codes : MaxActivations[c] # Unlimited => used'[c] <= MaxActivations[c]
    <3> SUFFICES ASSUME NEW c \in Codes, MaxActivations[c] # Unlimited
                 PROVE  used'[c] <= MaxActivations[c]
      OBVIOUS
    <3>1. MaxActivations[c] \in Nat /\ used[c] \in Nat /\ used[c] <= MaxActivations[c]
      BY CheckoutAssumption DEF TypeOK
    <3>2. CASE c = job[w].code
      <4>1. used[c] < MaxActivations[c]
        BY <1>5, <3>2 DEF Activate, HasRoom
      <4>2. used'[c] = used[c] + 1
        BY <1>5, <3>2 DEF TypeOK, Activate
      <4>3. QED
        BY <3>1, <4>1, <4>2
    <3>3. CASE c # job[w].code
      BY <1>5, <3>1, <3>3 DEF TypeOK, Activate
    <3>4. QED
      BY <3>2, <3>3
  <2>4. pc' \in [Workers -> Place] /\ \A v \in Workers : pc'[v] = IF v = w THEN "confirm" ELSE pc[v]
    BY <1>5 DEF TypeOK, Activate, Place
  <2>5. QED
    BY <1>5, <2>1, <2>2, <2>3, <2>4 DEF TypeOK, Activate
<1>6. ASSUME NEW w \in Workers, Confirm(w) PROVE TypeOK'
  <2>1. order' \in [Orders -> OrderRow]
    <3> DEFINE o == job[w].order
               row == [order[o] EXCEPT !.status = "CONFIRMED", !.confirmed = TRUE]
    <3>1. row \in OrderRow
      <4>1. order[o] \in OrderRow
        BY <1>6 DEF TypeOK, Confirm
      <4>2. QED
        BY <4>1 DEF OrderRow, Status
    <3>2. order' = [order EXCEPT ![o] = row]
      BY <1>6 DEF Confirm
    <3> HIDE DEF o, row
    <3>3. QED
      BY <3>1, <3>2 DEF TypeOK
  <2>2. CallsOK'
    BY <1>0, <1>6, ReturnCalls DEF Confirm
  <2>3. QED
    BY <1>6, <2>1, <2>2 DEF TypeOK, Confirm, CallsOK
<1>7. ASSUME NEW w \in Workers, Stop(w) PROVE TypeOK'
  <2>1. CallsOK'
    BY <1>0, <1>7, ReturnCalls DEF Stop
  <2>2. mishaps' \in [Orders -> SUBSET Mishap]
    BY <1>7 DEF TypeOK, Stop, Mishap
  <2>3. spent' \in [{"update", "edit", "stop"} -> Nat]
    BY <1>7, SpendType DEF Stop
  <2>4. QED
    BY <1>7, <2>1, <2>2, <2>3 DEF TypeOK, Stop, CallsOK
<1>8. ASSUME NEW w \in Workers, NEW f \in Offers, NEW c \in Codes \cup {NoCode}, BeginCreate(w, f, c)
      PROVE  TypeOK'
  <2> DEFINE locals == [NoJob EXCEPT !.offer = f, !.code = c]
  <2>1. locals \in Job /\ locals.offer = f
    BY DEF Job, NoJob
  <2>2. Begin(w, "create", locals)
    BY <1>8 DEF BeginCreate
  <2> HIDE DEF locals
  <2>3. CallsOK'
    BY <1>0, <2>1, <2>2, BeginCalls DEF Place
  <2>4. QED
    BY <1>8, <2>3 DEF TypeOK, BeginCreate, CallsOK
<1>9. ASSUME NEW w \in Workers, NEW o \in Orders, NEW f \in Offers, NEW c \in Codes \cup {NoCode},
             BeginUpdate(w, o, f, c)
      PROVE  TypeOK'
  <2> DEFINE locals == [order |-> o, offer |-> f, code |-> c]
  <2>1. locals \in Job /\ locals.order = o /\ locals.offer = f
    BY DEF Job
  <2>2. Begin(w, "update", locals)
    BY <1>9 DEF BeginUpdate
  <2> HIDE DEF locals
  <2>3. CallsOK'
    BY <1>0, <2>1, <2>2, BeginCalls DEF Place
  <2>4. spent' \in [{"update", "edit", "stop"} -> Nat]
    BY <1>9, SpendType DEF BeginUpdate
  <2>5. QED
    BY <1>9, <2>3, <2>4 DEF TypeOK, BeginUpdate, CallsOK
<1>10. ASSUME NEW o \in Orders, Abort(o) PROVE TypeOK'
  <2>1. order' \in [Orders -> OrderRow]
    BY <1>10 DEF TypeOK, Abort, OrderRow, Status
  <2>2. mishaps' \in [Orders -> SUBSET Mishap]
    BY <1>10, DisturbType DEF Abort, Mishap
  <2>3. QED
    BY <1>10, <2>1, <2>2 DEF TypeOK, Abort
<1>11. ASSUME NEW f \in Offers, NEW c \in Codes, Link(f, c) \/ Unlink(f, c) PROVE TypeOK'
  <2>1. spent' \in [{"update", "edit", "stop"} -> Nat]
    BY <1>11, SpendType DEF Link, Unlink
  <2>2. redeemable' \in SUBSET Pairs /\ wasOffered' \in SUBSET Pairs
    BY <1>11 DEF TypeOK, Link, Unlink, Pairs
  <2>3. QED
    BY <1>11, <2>1, <2>2 DEF TypeOK, Link, Unlink
<1>12. CASE UNCHANGED vars
  BY <1>12 DEF TypeOK, vars
<1>13. QED
  BY <1>1, <1>2, <1>3, <1>4, <1>5, <1>6, <1>7, <1>8, <1>9, <1>10, <1>11, <1>12 DEF Next, CallStep

(* Rows and calls are well typed; in particular no code is ever activated   *)
(* beyond its maximum, however many calls activate it at once.              *)
THEOREM CheckoutTypeCorrect == Spec => []TypeOK
BY TypeInit, TypeStep, PTL DEF Spec

-----------------------------------------------------------------------------
(* Every way to give a draft an offer looks the pair up before it writes    *)
(* both columns at once.  A call in between holds a pair that was offered.  *)
Entitled(f, c) == IF c = NoCode THEN f \in PublicOffers ELSE <<f, c>> \in wasOffered

CallsEntitled ==
  /\ redeemable \subseteq wasOffered
  /\ \A w \in Workers : pc[w] \in {"create", "update"} => Entitled(job[w].offer, job[w].code)

EntitledInv == TypeOK /\ CallsEntitled /\ OfferIsEntitled

LEMMA EntitledStep == EntitledInv /\ [Next]_vars => CallsEntitled' /\ OfferIsEntitled'
<1> SUFFICES ASSUME EntitledInv, [Next]_vars PROVE CallsEntitled' /\ OfferIsEntitled'
  OBVIOUS
<1> USE DEF EntitledInv
<1>0. wasOffered \subseteq wasOffered' /\ redeemable' \subseteq wasOffered'
  BY DEF CallsEntitled, Next, CallStep, Create, BeginConfirm, Update, UpdateFails, Activate,
         ActivateFails, Confirm, ConfirmFails, Stop, BeginCreate, BeginUpdate, Abort, Link, Unlink, vars
<1>1. \A f, c : Entitled(f, c) => Entitled(f, c)'
  BY <1>0 DEF Entitled
<1>2. \A f, c : Offered(f, c) => Entitled(f, c)
  BY DEF Offered, Entitled, CallsEntitled
<1>3. ASSUME NEW w \in Workers, pc'[w] \in {"create", "update"}
      PROVE  Entitled(job[w].offer, job[w].code)'
  <2>1. CASE pc'[w] = pc[w] /\ job'[w] = job[w]
    BY <1>1, <1>3, <2>1 DEF CallsEntitled, Entitled
  <2>2. ASSUME NEW f \in Offers, NEW c \in Codes \cup {NoCode}, NEW o \in Orders,
               BeginUpdate(w, o, f, c)
        PROVE  Entitled(job[w].offer, job[w].code)'
    <3>1. job'[w].offer = f /\ job'[w].code = c
      BY <2>2 DEF TypeOK, BeginUpdate, Begin
    <3>2. Offered(f, c)
      BY <2>2 DEF BeginUpdate
    <3>3. QED
      BY <1>1, <1>2, <3>1, <3>2 DEF Entitled
  <2>3. ASSUME NEW f \in Offers, NEW c \in Codes \cup {NoCode}, BeginCreate(w, f, c)
        PROVE  Entitled(job[w].offer, job[w].code)'
    <3>1. job'[w].offer = f /\ job'[w].code = c
      BY <2>3 DEF TypeOK, BeginCreate, Begin, NoJob
    <3>2. Offered(f, c)
      BY <2>3 DEF BeginCreate
    <3>3. QED
      BY <1>1, <1>2, <3>1, <3>2 DEF Entitled
  <2>4. CASE ~(pc'[w] = pc[w] /\ job'[w] = job[w])
    <3>1. ASSUME NEW v \in Workers, CallStep(v) \/ \E f \in Offers, c \in Codes \cup {NoCode} :
                   BeginCreate(v, f, c) \/ \E o \in Orders : BeginUpdate(v, o, f, c)
          PROVE  v = w
      <4> SUFFICES ASSUME v # w PROVE pc'[w] = pc[w] /\ job'[w] = job[w]
        BY <2>4
      <4>1. QED
        BY <3>1 DEF TypeOK, CallStep, Create, BeginConfirm, Update, UpdateFails, Activate, ActivateFails,
             Confirm, ConfirmFails, Stop, BeginCreate, BeginUpdate, Begin, Return
    <3>2. ~CallStep(w)
      BY <1>3 DEF TypeOK, CallStep, Create, BeginConfirm, Update, UpdateFails, Activate, ActivateFails,
           Confirm, ConfirmFails, Stop, Begin, Return
    <3>3. \E v \in Workers, f \in Offers, c \in Codes \cup {NoCode} :
            BeginCreate(v, f, c) \/ \E o \in Orders : BeginUpdate(v, o, f, c)
      BY <2>4, <3>1, <3>2 DEF Next, Abort, Link, Unlink, vars
    <3>4. QED
      BY <2>2, <2>3, <3>1, <3>3
  <2>5. QED
    BY <2>1, <2>4
<1>4. ASSUME NEW o \in Orders, order'[o].status # "ABSENT"
      PROVE  Entitled(order[o].offer, order[o].code)'
  <2>1. CASE order[o].status # "ABSENT" /\ order'[o].offer = order[o].offer
             /\ order'[o].code = order[o].code
    BY <1>1, <2>1 DEF OfferIsEntitled, Entitled
  <2>2. ASSUME NEW w \in Workers, Create(w, o) \/ (Update(w) /\ job[w].order = o)
        PROVE  Entitled(order[o].offer, order[o].code)'
    <3>1. order'[o].offer = job[w].offer /\ order'[o].code = job[w].code
      BY <2>2 DEF TypeOK, Create, Update, OrderRow
    <3>2. Entitled(job[w].offer, job[w].code)
      BY <2>2 DEF CallsEntitled, Create, Update
    <3>3. QED
      BY <1>1, <3>1, <3>2 DEF Entitled
  <2>3. CASE \A w \in Workers : ~Create(w, o) /\ ~(Update(w) /\ job[w].order = o)
    <3>1. order'[o].offer = order[o].offer /\ order'[o].code = order[o].code
          /\ order[o].status # "ABSENT"
      <4>1. ASSUME NEW w \in Workers, NEW p \in Orders, Create(w, p) PROVE order'[o] = order[o]
        BY <2>3, <4>1 DEF TypeOK, Create
      <4>2. ASSUME NEW w \in Workers, Update(w) PROVE order'[o] = order[o]
        BY <2>3, <4>2 DEF TypeOK, Update
      <4>3. ASSUME NEW w \in Workers, Confirm(w)
            PROVE  /\ order'[o].offer = order[o].offer /\ order'[o].code = order[o].code
                   /\ order[o].status # "ABSENT"
        <5>1. order[job[w].order].status # "ABSENT"
          BY <4>3 DEF Confirm
        <5>2. QED
          BY <1>4, <4>3, <5>1 DEF TypeOK, Confirm, OrderRow
      <4>4. ASSUME NEW p \in Orders, Abort(p)
            PROVE  /\ order'[o].offer = order[o].offer /\ order'[o].code = order[o].code
                   /\ order[o].status # "ABSENT"
        BY <1>4, <4>4 DEF TypeOK, Abort, OrderRow
      <4>5. CASE UNCHANGED order
        BY <1>4, <4>5
      <4>6. QED
        BY <1>4, <4>1, <4>2, <4>3, <4>4, <4>5 DEF Next, CallStep, BeginConfirm, UpdateFails, Activate,
           ActivateFails, ConfirmFails, Stop, BeginCreate, BeginUpdate, Link, Unlink, vars
    <3>2. QED
      BY <2>1, <3>1
  <2>4. QED
    BY <2>2, <2>3
<1>5. QED
  BY <1>0, <1>3, <1>4 DEF CallsEntitled, OfferIsEntitled, Entitled

(* Every order has an offer it was entitled to when it was given it: the    *)
(* pair of offer and code of a row was redeemable at some time, although a  *)
(* call looks it up and writes it in two steps.                             *)
THEOREM OffersAreEntitled == Spec => []OfferIsEntitled
<1>1. Init => CallsEntitled /\ OfferIsEntitled
  BY DEF Init, CallsEntitled, OfferIsEntitled, NoRow
<1>2. EntitledInv /\ [Next]_vars => EntitledInv'
  BY TypeStep, EntitledStep DEF EntitledInv
<1>3. Init => EntitledInv
  BY <1>1, TypeInit DEF EntitledInv
<1>4. EntitledInv => OfferIsEntitled
  BY DEF EntitledInv
<1>5. QED
  BY <1>2, <1>3, <1>4, PTL DEF Spec

-----------------------------------------------------------------------------
(* What makes redemption exact.  As long as nothing has disturbed an order, *)
(* at most one call confirms it, that call knows the code the order has,    *)
(* and the order is a draft meanwhile.                                      *)
Quiet(o) == mishaps[o] = {}

Undisturbed(o) ==
  /\ order[o].status \in {"ABSENT", "DRAFT"} => ~order[o].confirmed
  /\ order[o].status = "ABSENT" => \A w \in Workers : ~Confirming(w, o)
  /\ Quiet(o) =>
       /\ \A v, w \in Workers : Confirming(v, o) /\ Confirming(w, o) => v = w
       /\ \A w \in Workers : Confirming(w, o) =>
            order[o].status = "DRAFT" /\ job[w].code = order[o].code
       /\ \A c \in Codes : activations[o][c] = IF Redeeming(o) /\ c = order[o].code THEN 1 ELSE 0

RedeemInv == TypeOK /\ \A o \in Orders : Undisturbed(o)

(* A call that neither begins, activates nor ends a confirmation of o, and  *)
(* leaves its row, changes nothing of this.                                 *)
LEMMA SameOrder ==
  ASSUME RedeemInv, NEW o \in Orders, TypeOK',
         order'[o] = order[o], activations'[o] = activations[o],
         mishaps[o] \subseteq mishaps'[o],
         \A w \in Workers : Confirming(w, o)' => Confirming(w, o) /\ job'[w] = job[w],
         Quiet(o)' => \A w \in Workers :
           (pc'[w] = "confirm" /\ job'[w].order = o) <=> (pc[w] = "confirm" /\ job[w].order = o)
  PROVE  Undisturbed(o)'
<1>1. Quiet(o)' => Quiet(o)
  BY DEF Quiet
<1>2. Undisturbed(o)
  BY DEF RedeemInv
<1>3. Quiet(o)' => (Redeeming(o)' <=> Redeeming(o))
  BY DEF Redeeming
<1>4. QED
  BY <1>1, <1>2, <1>3 DEF Undisturbed

(* A call on another order, or an event of one, is covered by SameOrder.    *)
LEMMA RedeemStep == RedeemInv /\ [Next]_vars => RedeemInv'
<1> SUFFICES ASSUME RedeemInv, [Next]_vars PROVE RedeemInv'
  OBVIOUS
<1>a. TypeOK'
  BY TypeStep DEF RedeemInv
<1> SUFFICES ASSUME NEW o \in Orders PROVE Undisturbed(o)'
  BY <1>a DEF RedeemInv
<1>0. TypeOK /\ TypeOK' /\ Undisturbed(o)
  BY <1>a DEF RedeemInv
<1>1. ASSUME NEW w \in Workers, NEW p \in Orders, Create(w, p) PROVE Undisturbed(o)'
  <2>1. \A v \in Workers : ~Confirming(v, o)' \/ (Confirming(v, o) /\ job'[v] = job[v])
    BY <1>0, <1>1 DEF TypeOK, Create, Return, Confirming
  <2>2. \A v \in Workers : (pc'[v] = "confirm" /\ job'[v].order = o) <=> (pc[v] = "confirm" /\ job[v].order = o)
    BY <1>0, <1>1 DEF TypeOK, Create, Return
  <2>3. CASE p = o
    <3>1. /\ \A v \in Workers : ~Confirming(v, o)
          /\ ~order[o].confirmed
      BY <1>0, <1>1, <2>3 DEF Undisturbed, Create
    <3>2. ~Redeeming(o)
      BY <3>1 DEF Redeeming, Confirming
    <3>3. order'[o].status = "DRAFT" /\ ~order'[o].confirmed
      BY <1>0, <1>1, <2>3 DEF TypeOK, Create
    <3>4. ~Redeeming(o)' /\ \A v \in Workers : ~Confirming(v, o)'
      BY <2>1, <2>2, <3>1, <3>2, <3>3 DEF Redeeming
    <3>5. Quiet(o)' => Quiet(o)
      BY <1>1 DEF Create, Quiet
    <3>6. activations' = activations
      BY <1>1 DEF Create
    <3>7. QED
      BY <1>0, <3>2, <3>3, <3>4, <3>5, <3>6 DEF Undisturbed
  <2>4. CASE p # o
    BY <1>0, <1>1, <2>1, <2>2, <2>4, SameOrder DEF TypeOK, Create
  <2>5. QED
    BY <2>3, <2>4
<1>2. ASSUME NEW w \in Workers, NEW p \in Orders, BeginConfirm(w, p) PROVE Undisturbed(o)'
  <2>1. \A v \in Workers : v # w => pc'[v] = pc[v] /\ job'[v] = job[v]
    BY <1>0, <1>2 DEF TypeOK, BeginConfirm, Begin
  <2>2. /\ pc[w] = "idle" /\ job'[w].order = p /\ job'[w].code = order[p].code
        /\ pc'[w] = IF order[p].code = NoCode THEN "confirm" ELSE "activate"
    BY <1>0, <1>2 DEF TypeOK, BeginConfirm, Begin, NoJob
  <2>3. CASE p = o
    <3>1. order' = order /\ activations' = activations /\ order[o].status = "DRAFT"
      BY <1>2, <2>3 DEF BeginConfirm
    <3>2. ASSUME Quiet(o)' PROVE Quiet(o) /\ \A v \in Workers : ~Confirming(v, o)
      BY <1>0, <1>2, <2>3, <3>2 DEF TypeOK, BeginConfirm, Disturb, Quiet
    <3>3. ASSUME Quiet(o)', NEW v \in Workers, Confirming(v, o)' PROVE v = w
      BY <2>1, <3>2, <3>3 DEF Confirming
    <3>4. ASSUME Quiet(o)', NEW c \in Codes
          PROVE  activations'[o][c] = IF Redeeming(o)' /\ c = order'[o].code THEN 1 ELSE 0
      <4>1. ~Redeeming(o)
        BY <1>0, <3>1, <3>2, <3>4 DEF Undisturbed, Redeeming, Confirming
      <4>2. activations[o][c] = 0
        BY <1>0, <3>2, <3>4, <4>1 DEF Undisturbed
      <4>3. CASE Redeeming(o)'
        <5>1. PICK v \in Workers : pc'[v] = "confirm" /\ job'[v].order = o
          BY <1>0, <3>1, <4>3 DEF Undisturbed, Redeeming
        <5>2. v = w
          BY <3>3, <3>4, <5>1 DEF Confirming
        <5>3. order[o].code = NoCode
          BY <2>2, <2>3, <5>1, <5>2
        <5>4. QED
          BY <3>1, <3>4, <4>2, <5>3, CheckoutAssumption
      <4>4. QED
        BY <3>1, <4>2, <4>3
    <3>5. QED
      BY <1>0, <2>2, <2>3, <3>1, <3>3, <3>4 DEF Undisturbed, Confirming
  <2>4. CASE p # o
    <3>1. mishaps[o] \subseteq mishaps'[o]
      BY <1>0, <1>2 DEF TypeOK, BeginConfirm, Disturb
    <3>2. order'[o] = order[o] /\ activations'[o] = activations[o]
      BY <1>2 DEF BeginConfirm
    <3>3. \A v \in Workers : Confirming(v, o)' => Confirming(v, o) /\ job'[v] = job[v]
      BY <2>1, <2>2, <2>4 DEF Confirming
    <3>4. \A v \in Workers : (pc'[v] = "confirm" /\ job'[v].order = o) <=> (pc[v] = "confirm" /\ job[v].order = o)
      BY <2>1, <2>2, <2>4
    <3>5. QED
      BY <1>0, <3>1, <3>2, <3>3, <3>4, SameOrder
  <2>5. QED
    BY <2>3, <2>4
<1>3. ASSUME NEW w \in Workers, Update(w) PROVE Undisturbed(o)'
  <2>1. \A v \in Workers : ~Confirming(v, o)' \/ (Confirming(v, o) /\ job'[v] = job[v])
    BY <1>0, <1>3 DEF TypeOK, Update, Return, Confirming
  <2>2. \A v \in Workers : (pc'[v] = "confirm" /\ job'[v].order = o) <=> (pc[v] = "confirm" /\ job[v].order = o)
    BY <1>0, <1>3 DEF TypeOK, Update, Return
  <2>3. CASE job[w].order = o
    <3>1. /\ order[o].status = "DRAFT" /\ activations' = activations
          /\ order'[o].status = "DRAFT" /\ order'[o].confirmed = order[o].confirmed
      BY <1>0, <1>3, <2>3 DEF TypeOK, Update, OrderRow
    <3>2. ASSUME Quiet(o)' PROVE Quiet(o) /\ \A v \in Workers : ~Confirming(v, o)
      BY <1>0, <1>3, <2>3, <3>2 DEF TypeOK, Update, Disturb, Quiet
    <3>3. ASSUME Quiet(o)', NEW c \in Codes PROVE activations'[o][c] = 0 /\ ~Redeeming(o)'
      <4>1. ~Redeeming(o)
        BY <1>0, <3>1, <3>2, <3>3 DEF Undisturbed, Redeeming, Confirming
      <4>2. activations[o][c] = 0
        BY <1>0, <3>2, <3>3, <4>1 DEF Undisturbed
      <4>3. QED
        BY <1>0, <2>2, <3>1, <4>1, <4>2 DEF Redeeming
    <3>4. QED
      BY <1>0, <2>1, <3>1, <3>2, <3>3 DEF Undisturbed
  <2>4. CASE job[w].order # o
    <3>1. mishaps[o] \subseteq mishaps'[o]
      BY <1>0, <1>3 DEF TypeOK, Update, Disturb
    <3>2. order'[o] = order[o] /\ activations'[o] = activations[o]
      BY <1>0, <1>3, <2>4 DEF TypeOK, Update
    <3>3. QED
      BY <1>0, <2>1, <2>2, <3>1, <3>2, SameOrder
  <2>5. QED
    BY <2>3, <2>4
<1>4. ASSUME NEW w \in Workers, UpdateFails(w) \/ ActivateFails(w) PROVE Undisturbed(o)'
  <2>1. \A v \in Workers : Confirming(v, o)' => Confirming(v, o) /\ job'[v] = job[v]
    BY <1>0, <1>4 DEF TypeOK, UpdateFails, ActivateFails, Return, Confirming
  <2>2. \A v \in Workers : (pc'[v] = "confirm" /\ job'[v].order = o) <=> (pc[v] = "confirm" /\ job[v].order = o)
    BY <1>0, <1>4 DEF TypeOK, UpdateFails, ActivateFails, Return
  <2>3. QED
    BY <1>0, <1>4, <2>1, <2>2, SameOrder DEF UpdateFails, ActivateFails
<1>5. ASSUME NEW w \in Workers, Activate(w) PROVE Undisturbed(o)'
  <2>1. /\ order' = order /\ job' = job /\ mishaps' = mishaps /\ pc[w] = "activate" /\ pc'[w] = "confirm"
        /\ \A v \in Workers : v # w => pc'[v] = pc[v]
    BY <1>0, <1>5 DEF TypeOK, Activate
  <2>2. \A v \in Workers : Confirming(v, o)' <=> Confirming(v, o)
    BY <2>1 DEF Confirming
  <2>3. CASE job[w].order = o
    <3>1. ASSUME Quiet(o)', NEW c \in Codes
          PROVE  activations'[o][c] = IF Redeeming(o)' /\ c = order'[o].code THEN 1 ELSE 0
      <4>1. order[o].status = "DRAFT" /\ job[w].code = order[o].code
        BY <1>0, <2>1, <2>3, <3>1 DEF Undisturbed, Quiet, Confirming
      <4>2. ~Redeeming(o)
        BY <1>0, <2>1, <2>3, <3>1, <4>1 DEF Undisturbed, Quiet, Redeeming, Confirming
      <4>3. activations[o][c] = 0
        BY <1>0, <2>1, <3>1, <4>2 DEF Undisturbed, Quiet
      <4>4. Redeeming(o)'
        BY <2>1, <2>3 DEF Redeeming
      <4>5. activations'[o][c] = IF c = job[w].code THEN 1 ELSE 0
        BY <1>0, <1>5, <2>3, <4>3 DEF TypeOK, Activate
      <4>6. QED
        BY <2>1, <4>1, <4>4, <4>5
    <3>2. QED
      BY <1>0, <2>1, <2>2, <3>1 DEF Undisturbed, Quiet
  <2>4. CASE job[w].order # o
    <3>1. activations'[o] = activations[o]
      BY <1>0, <1>5, <2>4 DEF TypeOK, Activate
    <3>2. \A v \in Workers : (pc'[v] = "confirm" /\ job'[v].order = o) <=> (pc[v] = "confirm" /\ job[v].order = o)
      BY <2>1, <2>4
    <3>3. QED
      BY <1>0, <2>1, <2>2, <3>1, <3>2, SameOrder
  <2>5. QED
    BY <2>3, <2>4
<1>6. ASSUME NEW w \in Workers, Confirm(w) PROVE Undisturbed(o)'
  <2>1. /\ activations' = activations /\ mishaps' = mishaps /\ pc[w] = "confirm" /\ pc'[w] = "idle"
        /\ \A v \in Workers : v # w => pc'[v] = pc[v] /\ job'[v] = job[v]
    BY <1>0, <1>6 DEF TypeOK, Confirm, Return
  <2>2. CASE job[w].order = o
    <3>1. /\ order'[o].status = "CONFIRMED" /\ order'[o].confirmed
          /\ order'[o].code = order[o].code
      BY <1>0, <1>6, <2>2 DEF TypeOK, Confirm, OrderRow
    <3>2. Redeeming(o) /\ Redeeming(o)'
      BY <2>1, <2>2, <3>1 DEF Redeeming
    <3>3. ASSUME Quiet(o)', NEW v \in Workers PROVE ~Confirming(v, o)'
      BY <1>0, <2>1, <2>2, <3>3 DEF Undisturbed, Quiet, Confirming
    <3>4. QED
      BY <1>0, <2>1, <3>1, <3>2, <3>3 DEF Undisturbed, Quiet
  <2>3. CASE job[w].order # o
    <3>1. order'[o] = order[o]
      BY <1>0, <1>6, <2>3 DEF TypeOK, Confirm
    <3>2. \A v \in Workers : Confirming(v, o)' => Confirming(v, o) /\ job'[v] = job[v]
      BY <2>1, <2>3 DEF Confirming
    <3>3. \A v \in Workers : (pc'[v] = "confirm" /\ job'[v].order = o) <=> (pc[v] = "confirm" /\ job[v].order = o)
      BY <1>0, <1>6, <2>1, <2>3 DEF TypeOK, Confirm, Return
    <3>4. QED
      BY <1>0, <2>1, <3>1, <3>2, <3>3, SameOrder
  <2>4. QED
    BY <2>2, <2>3
<1>7. ASSUME NEW w \in Workers, ConfirmFails(w) \/ Stop(w) PROVE Undisturbed(o)'
  <2>1. /\ order' = order /\ activations' = activations
        /\ \A v \in Workers : v # w => pc'[v] = pc[v] /\ job'[v] = job[v]
        /\ pc'[w] = "idle"
    BY <1>0, <1>7 DEF TypeOK, ConfirmFails, Stop, Return
  <2>2. mishaps[o] \subseteq mishaps'[o]
    BY <1>0, <1>7 DEF TypeOK, ConfirmFails, Stop
  <2>3. \A v \in Workers : Confirming(v, o)' => Confirming(v, o) /\ job'[v] = job[v]
    BY <2>1 DEF Confirming
  <2>4. ASSUME Quiet(o)' PROVE ~(pc[w] = "confirm" /\ job[w].order = o)
    <3> SUFFICES ASSUME pc[w] = "confirm", job[w].order = o PROVE FALSE
      OBVIOUS
    <3>1. CASE Stop(w)
      BY <1>0, <2>4, <3>1 DEF TypeOK, Stop, Quiet
    <3>2. CASE ConfirmFails(w)
      BY <1>0, <2>4, <3>2 DEF ConfirmFails, Undisturbed, Quiet, Confirming
    <3>3. QED
      BY <1>7, <3>1, <3>2
  <2>5. QED
    BY <1>0, <2>1, <2>2, <2>3, <2>4, SameOrder
<1>8. ASSUME NEW w \in Workers, NEW f \in Offers, NEW c \in Codes \cup {NoCode}, NEW p \in Orders,
             BeginCreate(w, f, c) \/ BeginUpdate(w, p, f, c)
      PROVE  Undisturbed(o)'
  <2>1. /\ order' = order /\ activations' = activations /\ mishaps' = mishaps
        /\ \A v \in Workers : v # w => pc'[v] = pc[v] /\ job'[v] = job[v]
        /\ pc[w] = "idle" /\ pc'[w] \in {"create", "update"}
    BY <1>0, <1>8 DEF TypeOK, BeginCreate, BeginUpdate, Begin
  <2>2. \A v \in Workers : Confirming(v, o)' => Confirming(v, o) /\ job'[v] = job[v]
    BY <2>1 DEF Confirming
  <2>3. QED
    BY <1>0, <2>1, <2>2, SameOrder
<1>9. ASSUME NEW p \in Orders, Abort(p) PROVE Undisturbed(o)'
  <2>1. /\ pc' = pc /\ job' = job /\ activations' = activations
        /\ mishaps[o] \subseteq mishaps'[o]
    BY <1>0, <1>9 DEF TypeOK, Abort, Disturb
  <2>2. CASE p = o
    <3>1. /\ order'[o].status = "ABORTED" /\ order'[o].confirmed = order[o].confirmed
          /\ order'[o].code = order[o].code
      BY <1>0, <1>9, <2>2 DEF TypeOK, Abort, OrderRow
    <3>2. Quiet(o)' => Quiet(o) /\ \A v \in Workers : ~Confirming(v, o)
      BY <1>0, <1>9, <2>2 DEF TypeOK, Abort, Disturb, Quiet
    <3>3. Redeeming(o)' <=> Redeeming(o)
      BY <2>1, <3>1 DEF Redeeming
    <3>4. \A v \in Workers : Confirming(v, o)' <=> Confirming(v, o)
      BY <2>1 DEF Confirming
    <3>5. QED
      BY <1>0, <2>1, <3>1, <3>2, <3>3, <3>4 DEF Undisturbed
  <2>3. CASE p # o
    <3>1. order'[o] = order[o]
      BY <1>0, <1>9, <2>3 DEF TypeOK, Abort
    <3>2. QED
      BY <1>0, <2>1, <3>1, SameOrder DEF Confirming
  <2>4. QED
    BY <2>2, <2>3
<1>10. CASE UNCHANGED <<order, activations, pc, job, mishaps>>
  BY <1>0, <1>10, SameOrder DEF Confirming
<1>11. QED
  BY <1>1, <1>2, <1>3, <1>4, <1>5, <1>6, <1>7, <1>8, <1>9, <1>10 DEF Next, CallStep, Link, Unlink, vars

(* An order that nothing disturbed while it was confirmed uses up exactly   *)
(* one activation of its code, for any number of orders, codes and calls.   *)
THEOREM RedemptionIsExact == Spec => []RedeemedOnce
<1>1. Init => RedeemInv
  BY TypeInit DEF Init, RedeemInv, Undisturbed, NoRow, Confirming, Redeeming
<1>2. RedeemInv => RedeemedOnce
  BY DEF RedeemInv, Undisturbed, Quiet, RedeemedOnce
<1>3. QED
  BY <1>1, <1>2, RedeemStep, PTL DEF Spec

-----------------------------------------------------------------------------
(* Why Checkout implements Redemption.  The orders that have redeemed a     *)
(* code, together with those a call has activated it for and is about to    *)
(* confirm, are never more than the activations the code has counted: some  *)
(* activations are wasted, but no order goes without.                       *)
Claims(c) == {o \in Orders : \/ RedeemedBy(o) = c
                             \/ \E w \in Workers : pc[w] = "confirm" /\ job[w].order = o /\ job[w].code = c}

Counted == \A c \in Codes : Cardinality(Claims(c)) <= used[c]

(* A call about to confirm a draft knows its code, unless it was swapped    *)
KnowsCode ==
  \A o \in Orders :
    /\ order[o].status \in {"ABSENT", "DRAFT"} => ~order[o].confirmed
    /\ order[o].status = "ABSENT" => \A w \in Workers : ~Confirming(w, o)
    /\ order[o].status = "DRAFT" /\ "swapped" \notin mishaps[o] =>
         \A w \in Workers : Confirming(w, o) => job[w].code = order[o].code

CountInv == TypeOK /\ KnowsCode /\ Counted

LEMMA KnowsStep == CountInv /\ [Next]_vars => KnowsCode'
<1> SUFFICES ASSUME CountInv, [Next]_vars, NEW o \in Orders
             PROVE  /\ order'[o].status \in {"ABSENT", "DRAFT"} => ~order'[o].confirmed
                    /\ order'[o].status = "ABSENT" => \A w \in Workers : ~Confirming(w, o)'
                    /\ order'[o].status = "DRAFT" /\ "swapped" \notin mishaps'[o] =>
                         \A w \in Workers : Confirming(w, o)' => job'[w].code = order'[o].code
  BY DEF KnowsCode
<1>0. TypeOK /\ KnowsCode
  BY DEF CountInv
<1>1. ASSUME NEW w \in Workers, NEW p \in Orders, Create(w, p) PROVE KnowsCode'
  <2>1. \A v \in Workers, q \in Orders : Confirming(v, q)' => Confirming(v, q) /\ job'[v] = job[v]
    BY <1>0, <1>1 DEF TypeOK, Create, Return, Confirming
  <2>2. /\ \A q \in Orders : q # p => order'[q] = order[q]
        /\ order[p].status = "ABSENT" /\ order'[p].status = "DRAFT" /\ ~order'[p].confirmed
        /\ mishaps' = mishaps
    BY <1>0, <1>1 DEF TypeOK, Create
  <2>3. QED
    BY <1>0, <2>1, <2>2 DEF KnowsCode
<1>2. ASSUME NEW w \in Workers, NEW p \in Orders, BeginConfirm(w, p) PROVE KnowsCode'
  <2>1. /\ \A v \in Workers : v # w => pc'[v] = pc[v] /\ job'[v] = job[v]
        /\ job'[w].order = p /\ job'[w].code = order[p].code /\ order' = order
        /\ order[p].status = "DRAFT"
    BY <1>0, <1>2 DEF TypeOK, BeginConfirm, Begin, NoJob
  <2>2. \A q \in Orders : mishaps[q] \subseteq mishaps'[q]
    BY <1>0, <1>2 DEF TypeOK, BeginConfirm, Disturb
  <2>3. \A v \in Workers, q \in Orders : v # w => (Confirming(v, q)' <=> Confirming(v, q))
    BY <2>1 DEF Confirming
  <2>4. \A q \in Orders : Confirming(w, q)' => q = p
    BY <2>1 DEF Confirming
  <2>5. QED
    BY <1>0, <2>1, <2>2, <2>3, <2>4 DEF KnowsCode
<1>3. ASSUME NEW w \in Workers, Update(w) PROVE KnowsCode'
  <2> DEFINE p == job[w].order
  <2>1. \A v \in Workers, q \in Orders : Confirming(v, q)' => Confirming(v, q) /\ job'[v] = job[v]
    BY <1>0, <1>3 DEF TypeOK, Update, Return, Confirming
  <2>2. /\ p \in Orders /\ order[p].status = "DRAFT"
        /\ \A q \in Orders : /\ q # p => order'[q] = order[q]
                             /\ order'[q].status = order[q].status
                             /\ order'[q].confirmed = order[q].confirmed
                             /\ mishaps[q] \subseteq mishaps'[q]
    BY <1>0, <1>3 DEF TypeOK, Update, OrderRow, Disturb
  <2>3. "swapped" \notin mishaps'[p] => \A v \in Workers : ~Confirming(v, p)
    BY <1>0, <1>3, <2>2 DEF TypeOK, Update, Disturb
  <2> HIDE DEF p
  <2>4. QED
    BY <1>0, <2>1, <2>2, <2>3 DEF KnowsCode
<1>4. ASSUME NEW w \in Workers,
             UpdateFails(w) \/ Activate(w) \/ ActivateFails(w) \/ ConfirmFails(w) \/ Stop(w)
      PROVE  KnowsCode'
  <2>1. \A v \in Workers, q \in Orders : Confirming(v, q)' => Confirming(v, q) /\ job'[v] = job[v]
    BY <1>0, <1>4 DEF TypeOK, UpdateFails, Activate, ActivateFails, ConfirmFails, Stop, Return, Confirming
  <2>2. order' = order /\ \A q \in Orders : mishaps[q] \subseteq mishaps'[q]
    BY <1>0, <1>4 DEF TypeOK, UpdateFails, Activate, ActivateFails, ConfirmFails, Stop
  <2>3. QED
    BY <1>0, <2>1, <2>2 DEF KnowsCode
<1>5. ASSUME NEW w \in Workers, Confirm(w) PROVE KnowsCode'
  <2>1. \A v \in Workers, q \in Orders : Confirming(v, q)' => Confirming(v, q) /\ job'[v] = job[v]
    BY <1>0, <1>5 DEF TypeOK, Confirm, Return, Confirming
  <2>2. /\ mishaps' = mishaps
        /\ \A q \in Orders : q # job[w].order => order'[q] = order[q]
        /\ \A q \in Orders : q = job[w].order => order'[q].status = "CONFIRMED"
    BY <1>0, <1>5 DEF TypeOK, Confirm, OrderRow
  <2>3. QED
    BY <1>0, <2>1, <2>2 DEF KnowsCode
<1>6. ASSUME NEW w \in Workers, NEW f \in Offers, NEW c \in Codes \cup {NoCode},
             BeginCreate(w, f, c) \/ \E p \in Orders : BeginUpdate(w, p, f, c)
      PROVE  KnowsCode'
  <2>1. \A v \in Workers, q \in Orders : Confirming(v, q)' => Confirming(v, q) /\ job'[v] = job[v]
    BY <1>0, <1>6 DEF TypeOK, BeginCreate, BeginUpdate, Begin, Confirming
  <2>2. order' = order /\ mishaps' = mishaps
    BY <1>6 DEF BeginCreate, BeginUpdate
  <2>3. QED
    BY <1>0, <2>1, <2>2 DEF KnowsCode
<1>7. ASSUME NEW p \in Orders, Abort(p) PROVE KnowsCode'
  <2>1. /\ pc' = pc /\ job' = job
        /\ \A q \in Orders : /\ q # p => order'[q] = order[q]
                             /\ q = p => order'[q].status = "ABORTED"
                             /\ mishaps[q] \subseteq mishaps'[q]
    BY <1>0, <1>7 DEF TypeOK, Abort, Disturb, OrderRow
  <2>2. QED
    BY <1>0, <2>1 DEF KnowsCode, Confirming
<1>8. ASSUME UNCHANGED <<order, pc, job, mishaps>> PROVE KnowsCode'
  BY <1>0, <1>8 DEF KnowsCode, Confirming
<1>9. KnowsCode'
  <2>1. CASE \E w \in Workers : CallStep(w)
    BY <2>1, <1>1, <1>2, <1>3, <1>4, <1>5 DEF CallStep
  <2>2. CASE ~\E w \in Workers : CallStep(w)
    <3>1. CASE \E w \in Workers, f \in Offers, c \in Codes \cup {NoCode} :
                 BeginCreate(w, f, c) \/ \E p \in Orders : BeginUpdate(w, p, f, c)
      BY <1>6, <3>1
    <3>2. CASE \E p \in Orders : Abort(p)
      BY <1>7, <3>2
    <3>3. CASE \E f \in Offers, c \in Codes : Link(f, c) \/ Unlink(f, c)
      BY <1>8, <3>3 DEF Link, Unlink
    <3>4. CASE UNCHANGED vars
      BY <1>8, <3>4 DEF vars
    <3>5. QED
      BY <2>2, <3>1, <3>2, <3>3, <3>4 DEF Next
  <2>3. QED
    BY <2>1, <2>2
<1>10. QED
  BY <1>9 DEF KnowsCode

(* Only a confirmation settles what an order redeems, and it settles what   *)
(* the call activated.                                                      *)
LEMMA OnlyConfirmRedeems ==
  ASSUME CountInv, [Next]_vars, NEW o \in Orders, \A w \in Workers : Confirm(w) => job[w].order # o
  PROVE  RedeemedBy(o)' = RedeemedBy(o)
<1>0. TypeOK /\ KnowsCode
  BY DEF CountInv
<1>1. ASSUME NEW w \in Workers, NEW p \in Orders, Create(w, p) PROVE RedeemedBy(o)' = RedeemedBy(o)
  <2>1. mishaps' = mishaps /\ (p # o => order'[o] = order[o])
        /\ (p = o => ~order'[o].confirmed /\ order[o].status = "ABSENT")
    BY <1>0, <1>1 DEF TypeOK, Create
  <2>2. QED
    BY <1>0, <2>1 DEF KnowsCode, RedeemedBy
<1>2. ASSUME NEW w \in Workers, Update(w) PROVE RedeemedBy(o)' = RedeemedBy(o)
  <2>1. CASE job[w].order = o
    <3>1. order[o].status = "DRAFT" /\ order'[o].confirmed = order[o].confirmed
      BY <1>0, <1>2, <2>1 DEF TypeOK, Update, OrderRow
    <3>2. QED
      BY <1>0, <3>1 DEF KnowsCode, RedeemedBy
  <2>2. CASE job[w].order # o
    <3>1. order'[o] = order[o] /\ mishaps'[o] = mishaps[o]
      BY <1>0, <1>2, <2>2 DEF TypeOK, Update, Disturb
    <3>2. QED
      BY <3>1 DEF RedeemedBy
  <2>3. QED
    BY <2>1, <2>2
<1>3. ASSUME NEW w \in Workers, Confirm(w) PROVE RedeemedBy(o)' = RedeemedBy(o)
  <2>1. order'[o] = order[o] /\ mishaps'[o] = mishaps[o]
    BY <1>0, <1>3 DEF TypeOK, Confirm
  <2>2. QED
    BY <2>1 DEF RedeemedBy
<1>4. ASSUME NEW p \in Orders, Abort(p) PROVE RedeemedBy(o)' = RedeemedBy(o)
  <2>1. /\ order'[o].confirmed = order[o].confirmed /\ order'[o].code = order[o].code
        /\ "swapped" \in mishaps'[o] <=> "swapped" \in mishaps[o]
    BY <1>0, <1>4 DEF TypeOK, Abort, OrderRow, Disturb
  <2>2. QED
    BY <2>1 DEF RedeemedBy
<1>5. ASSUME order' = order, "swapped" \in mishaps'[o] <=> "swapped" \in mishaps[o]
      PROVE  RedeemedBy(o)' = RedeemedBy(o)
  BY <1>5 DEF RedeemedBy
<1>6. ASSUME NEW w \in Workers, NEW p \in Orders, BeginConfirm(w, p)
      PROVE  RedeemedBy(o)' = RedeemedBy(o)
  BY <1>0, <1>5, <1>6 DEF TypeOK, BeginConfirm, Disturb
<1>7. ASSUME NEW w \in Workers, Stop(w) PROVE RedeemedBy(o)' = RedeemedBy(o)
  BY <1>0, <1>5, <1>7 DEF TypeOK, Stop
<1>8. CASE UNCHANGED <<order, mishaps>>
  BY <1>5, <1>8
<1>9. CASE \E w \in Workers : CallStep(w)
  BY <1>1, <1>2, <1>3, <1>6, <1>7, <1>8, <1>9 DEF CallStep, UpdateFails, Activate, ActivateFails, ConfirmFails
<1>10. CASE ~\E w \in Workers : CallStep(w)
  BY <1>4, <1>8, <1>10 DEF Next, BeginCreate, BeginUpdate, Link, Unlink, vars
<1>11. QED
  BY <1>9, <1>10

LEMMA ConfirmRedeems ==
  ASSUME CountInv, NEW w \in Workers, Confirm(w), NEW o \in Orders, job[w].order = o
  PROVE  /\ RedeemedBy(o) = Open
         /\ RedeemedBy(o)' \in {NoCode, job[w].code}
<1>1. order[o].status = "DRAFT" /\ Confirming(w, o)
  BY DEF CountInv, TypeOK, Confirm, Confirming
<1>2. ~order[o].confirmed
  BY <1>1 DEF CountInv, KnowsCode
<1>3. order'[o].confirmed /\ order'[o].code = order[o].code /\ mishaps' = mishaps
  BY <1>1 DEF CountInv, TypeOK, OrderRow, Confirm
<1>4. "swapped" \notin mishaps[o] => job[w].code = order[o].code
  BY <1>1 DEF CountInv, KnowsCode
<1>5. QED
  BY <1>2, <1>3, <1>4 DEF RedeemedBy

LEMMA ClaimsFinite == \A c : IsFiniteSet(Claims(c)) /\ Cardinality(Claims(c)) \in Nat
<1> SUFFICES ASSUME NEW c PROVE IsFiniteSet(Claims(c)) /\ Cardinality(Claims(c)) \in Nat
  OBVIOUS
<1>1. Claims(c) \in SUBSET Orders
  BY DEF Claims
<1>2. QED
  BY <1>1, FS_Subset, FS_CardinalityType, CheckoutAssumption

LEMMA CountedStep == CountInv /\ [Next]_vars => Counted'
<1> SUFFICES ASSUME CountInv, [Next]_vars, NEW c \in Codes PROVE Cardinality(Claims(c)') <= used'[c]
  BY DEF Counted
<1>0. TypeOK /\ KnowsCode /\ Cardinality(Claims(c)) <= used[c] /\ used[c] \in Nat
  BY DEF CountInv, Counted, TypeOK
<1>1. c # Open /\ c # NoCode
  BY CheckoutAssumption
<1>2. ASSUME NEW w \in Workers, Activate(w) PROVE Cardinality(Claims(c)') <= used'[c]
  <2> DEFINE o == job[w].order
  <2>1. o \in Orders /\ job[w].code \in Codes
    BY <1>0, <1>2 DEF TypeOK, Activate
  <2>2. \A p \in Orders : RedeemedBy(p)' = RedeemedBy(p)
    BY <1>2 DEF Activate, RedeemedBy
  <2>3. Claims(c)' \subseteq IF job[w].code = c THEN Claims(c) \cup {o} ELSE Claims(c)
    BY <1>0, <1>2, <2>2 DEF TypeOK, Activate, Claims
  <2>4. used'[c] = IF job[w].code = c THEN used[c] + 1 ELSE used[c]
    BY <1>0, <1>2 DEF TypeOK, Activate
  <2> HIDE DEF o
  <2>5. IsFiniteSet(Claims(c) \cup {o}) /\ Cardinality(Claims(c) \cup {o}) <= Cardinality(Claims(c)) + 1
    <3>1. IsFiniteSet(Claims(c)) /\ Cardinality(Claims(c)) \in Nat
      BY ClaimsFinite
    <3>2. /\ IsFiniteSet(Claims(c) \cup {o})
          /\ Cardinality(Claims(c) \cup {o}) =
               IF o \in Claims(c) THEN Cardinality(Claims(c)) ELSE Cardinality(Claims(c)) + 1
      BY <3>1, FS_AddElement
    <3>3. QED
      BY <3>1, <3>2
  <2>6. CASE job[w].code = c
    <3>1. Cardinality(Claims(c)') <= Cardinality(Claims(c) \cup {o})
      BY <2>3, <2>5, <2>6, FS_Subset
    <3>2. Cardinality(Claims(c)') \in Nat /\ Cardinality(Claims(c) \cup {o}) \in Nat
          /\ Cardinality(Claims(c)) \in Nat
      <4>1. IsFiniteSet(Claims(c)')
        BY <2>3, <2>5, <2>6, FS_Subset
      <4>2. QED
        BY <2>5, <4>1, ClaimsFinite, FS_CardinalityType
    <3>3. QED
      BY <1>0, <2>4, <2>5, <2>6, <3>1, <3>2
  <2>7. CASE job[w].code # c
    <3>1. Cardinality(Claims(c)') <= Cardinality(Claims(c))
      BY <2>3, <2>7, ClaimsFinite, FS_Subset
    <3>2. Cardinality(Claims(c)') \in Nat /\ Cardinality(Claims(c)) \in Nat
      BY <2>3, <2>7, ClaimsFinite, FS_Subset, FS_CardinalityType
    <3>3. QED
      BY <1>0, <2>4, <2>7, <3>1, <3>2
  <2>8. QED
    BY <2>6, <2>7
<1>3. CASE ~\E w \in Workers : Activate(w)
  <2>1. used' = used
    BY <1>3 DEF Next, CallStep, Create, BeginConfirm, Update, UpdateFails, ActivateFails, Confirm,
       ConfirmFails, Stop, BeginCreate, BeginUpdate, Abort, Link, Unlink, vars
  <2>2. ASSUME NEW w \in Workers, pc'[w] = "confirm", job'[w].code = c
        PROVE  pc[w] = "confirm" /\ job'[w] = job[w]
    <3>1. CASE pc'[w] = pc[w] /\ job'[w] = job[w]
      BY <2>2, <3>1
    <3>2. ASSUME NEW o \in Orders, BeginConfirm(w, o) PROVE FALSE
      BY <1>0, <1>1, <2>2, <3>2 DEF TypeOK, BeginConfirm, Begin, NoJob
    <3>3. ASSUME NEW v \in Workers, v # w, CallStep(v) PROVE pc'[w] = pc[w] /\ job'[w] = job[w]
      BY <1>0, <3>3 DEF TypeOK, CallStep, Create, BeginConfirm, Update, UpdateFails, Activate, ActivateFails,
         Confirm, ConfirmFails, Stop, Begin, Return
    <3>4. CASE CallStep(w)
      BY <1>0, <1>3, <2>2, <3>2, <3>4 DEF TypeOK, CallStep, Create, Update, UpdateFails, ActivateFails,
         Confirm, ConfirmFails, Stop, Return
    <3>5. CASE ~\E v \in Workers : CallStep(v)
      BY <1>0, <2>2, <3>1, <3>5 DEF TypeOK, Next, BeginCreate, BeginUpdate, Begin, Abort, Link, Unlink, vars
    <3>6. QED
      BY <3>1, <3>3, <3>4, <3>5
  <2>3. ASSUME NEW o \in Orders, RedeemedBy(o)' = c PROVE o \in Claims(c)
    <3>1. CASE \A w \in Workers : Confirm(w) => job[w].order # o
      BY <2>3, <3>1, OnlyConfirmRedeems DEF Claims
    <3>2. ASSUME NEW w \in Workers, Confirm(w), job[w].order = o PROVE o \in Claims(c)
      BY <1>1, <2>3, <3>2, ConfirmRedeems DEF Claims, Confirm
    <3>3. QED
      BY <3>1, <3>2
  <2>4. Claims(c)' \subseteq Claims(c)
    BY <2>2, <2>3 DEF Claims
  <2>5. Cardinality(Claims(c)') <= Cardinality(Claims(c))
    BY <2>4, ClaimsFinite, FS_Subset
  <2>6. IsFiniteSet(Claims(c)') /\ Cardinality(Claims(c)') \in Nat
    BY <2>4, ClaimsFinite, FS_Subset, FS_CardinalityType
  <2>7. QED
    BY <1>0, <2>1, <2>5, <2>6, ClaimsFinite
<1>4. QED
  BY <1>2, <1>3

LEMMA CountInit == Init => CountInv
<1> SUFFICES ASSUME Init PROVE CountInv
  OBVIOUS
<1>1. TypeOK
  BY TypeInit
<1>2. KnowsCode
  BY DEF Init, KnowsCode, NoRow, Confirming
<1>3. ASSUME NEW c \in Codes PROVE Cardinality(Claims(c)) <= used[c]
  <2>1. Claims(c) = {}
    BY CheckoutAssumption DEF Init, Claims, RedeemedBy, NoRow
  <2>2. QED
    BY <2>1, FS_EmptySet DEF Init
<1>4. QED
  BY <1>1, <1>2, <1>3 DEF CountInv, Counted

(* A step of Checkout is a step of Redemption: a confirmation redeems, and  *)
(* the call that makes it was counted among the claims of its code.         *)
LEMMA RedemptionStep == CountInv /\ [Next]_vars => [Promise!Next]_Redeemed
<1> SUFFICES ASSUME CountInv, [Next]_vars PROVE Promise!Next \/ Redeemed' = Redeemed
  OBVIOUS
<1>0. TypeOK /\ Counted
  BY DEF CountInv
<1>1. ASSUME NEW w \in Workers, Confirm(w) PROVE Promise!Next \/ Redeemed' = Redeemed
  <2>1. PICK o \in Orders : o = job[w].order
    BY <1>0, <1>1 DEF TypeOK, Confirm
  <2>2. PICK c \in Codes \cup {NoCode} : /\ RedeemedBy(o)' = c
                                         /\ c # NoCode => c = job[w].code
    <3>1. job[w].code \in Codes \cup {NoCode}
      BY <1>0 DEF TypeOK, Job
    <3>2. QED
      BY <1>1, <2>1, <3>1, ConfirmRedeems
  <2>3. RedeemedBy(o) = Open
    BY <1>1, <2>1, ConfirmRedeems
  <2>4. ASSUME NEW p \in Orders, p # o PROVE RedeemedBy(p)' = RedeemedBy(p)
    <3>1. order'[p] = order[p] /\ mishaps' = mishaps
      BY <1>0, <1>1, <2>1, <2>4 DEF TypeOK, Confirm
    <3>2. QED
      BY <3>1 DEF RedeemedBy
  <2>5. Redeemed' = [Redeemed EXCEPT ![o] = c]
    BY <2>1, <2>2, <2>4 DEF Redeemed
  <2>6. Promise!RoomFor(c)
    <3> SUFFICES ASSUME c # NoCode, MaxActivations[c] # Unlimited
                 PROVE  Cardinality({p \in Orders : Redeemed[p] = c}) < MaxActivations[c]
      BY DEF Promise!RoomFor, Promise!Cardinality, Cardinality
    <3> DEFINE S == {p \in Orders : Redeemed[p] = c}
    <3>1. c \in Codes /\ c # Open
      BY CheckoutAssumption
    <3>2. o \notin S /\ o \in Claims(c) /\ S \subseteq Claims(c)
      BY <1>1, <2>1, <2>2, <2>3, <3>1 DEF Redeemed, Claims, Confirm
    <3>3. S \cup {o} \in SUBSET Claims(c) /\ IsFiniteSet(Claims(c))
      BY <3>2, ClaimsFinite
    <3>4. IsFiniteSet(S)
      BY <3>2, <3>3, FS_Subset
    <3>5. Cardinality(S) \in Nat /\ Cardinality(S \cup {o}) = Cardinality(S) + 1
      BY <3>2, <3>4, FS_AddElement, FS_CardinalityType
    <3>6. Cardinality(S \cup {o}) <= Cardinality(Claims(c)) /\ Cardinality(Claims(c)) \in Nat
      BY <3>3, FS_Subset, FS_CardinalityType
    <3>7. /\ Cardinality(Claims(c)) <= used[c] /\ used[c] <= MaxActivations[c]
          /\ used[c] \in Nat /\ MaxActivations[c] \in Nat
      BY <1>0, <3>1, CheckoutAssumption DEF TypeOK, Counted
    <3> HIDE DEF S
    <3>8. Cardinality(S) < MaxActivations[c]
      BY <3>5, <3>6, <3>7
    <3>9. QED
      BY <3>8 DEF S
  <2>7. Promise!Redeem(o, c)
    BY <2>3, <2>5, <2>6 DEF Promise!Redeem, Redeemed
  <2>8. QED
    BY <2>7 DEF Promise!Next
<1>2. CASE ~\E w \in Workers : Confirm(w)
  <2>1. \A o \in Orders : RedeemedBy(o)' = RedeemedBy(o)
    BY <1>2, OnlyConfirmRedeems
  <2>2. QED
    BY <2>1 DEF Redeemed
<1>3. QED
  BY <1>1, <1>2

(* Checkout implements Redemption: what an order redeems is settled by its  *)
(* confirmation, and no code is redeemed by more orders than it may be, for *)
(* any number of orders, codes and calls; wasted activations and a server   *)
(* that stops do not matter.                                                *)
THEOREM ImplementsRedemption == Spec => RedemptionSpec
<1>1. Init => Promise!Init
  BY DEF Init, Promise!Init, Redeemed, RedeemedBy, NoRow
<1>2. CountInv /\ [Next]_vars => CountInv'
  BY TypeStep, KnowsStep, CountedStep DEF CountInv
<1>3. QED
  BY <1>1, <1>2, CountInit, RedemptionStep, PTL DEF Spec, RedemptionSpec, Promise!Spec
=============================================================================
