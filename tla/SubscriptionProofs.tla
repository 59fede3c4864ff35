---------------------------- MODULE SubscriptionProofs ----------------------------
(***************************************************************************)
(* Theorems about Subscription, for any number of periods and orders, any  *)
(* offers and offsets, and any bounds on the environment.                  *)
(*                                                                         *)
(* The inductive invariant has six parts, defined first.  Fit relates the  *)
(* rows and the local variables of invocations and operations; each of     *)
(* the others proves one property from it: Stops CancelledIsNotBilled,     *)
(* Paid BilledForService, Served PendingIsServed, and Shown (with Paid)    *)
(* and Kept OfferIsHonoured.  For each part there is a lemma for the steps *)
(* of invocations, of the cron jobs, of operations as they begin, and of   *)
(* what follows them; before those come lemmas on what each action does to *)
(* the rows.                                                               *)
(***************************************************************************)
EXTENDS Subscription, TLAPS, FiniteSetTheorems

(* The orders of period p, and the one about to be created.  There is one   *)
(* of them at most, unless an operation asked for more.                     *)
Used(o) == ~Unused(o)

Renewable(p) == \E f \in Offers : <<p, f>> \in renewing

OneOrder(p) ==
  /\ \A o, q \in Orders : Used(o) /\ Used(q) /\ order[o].period = p /\ order[q].period = p => o = q
  /\ \A f \in Offers : <<p, f>> \in renewing =>
       /\ \A g \in Offers : <<p, g>> \in renewing => f = g
       /\ \A o \in Orders : Used(o) => order[o].period # p

Final(o) == order[o].status \in FinalStati

(* A RUN, not an ABORT, of order o is between two steps of it *)
Running(o) == run[o]["cron"].pc = "step" /\ run[o]["cron"].action = "RUN"

(* Order o will run again from the step in its row *)
Again(o) ==
  \/ order[o].status \in {"CONFIRMED", "PENDING", "ERROR"}
  \/ /\ order[o].status = "PROCESSING"
     /\ run[o]["cron"].pc # "idle"
     /\ run[o]["cron"].pc = "final" => run[o]["cron"].out \notin FinalStati

AfterBilling == {DELAY_TELCO, TELCO}

-----------------------------------------------------------------------------
(***************************************************************************)
(* The parts of the inductive invariant.  Fit is what the rows and the     *)
(* local variables of an invocation say of each other.                     *)
(***************************************************************************)
OrderFits(o) ==
  /\ Exists(order[o].period)
  /\ o = AddPlan => Used(o) /\ order[o].period = 0 /\ order[o].action = "RUN"
  /\ Unused(o) \/ order[o].status = "CONFIRMED" =>
       /\ order[o].step = NoStep /\ order[o].action = "RUN"
       /\ run[o]["cron"].pc = "idle"
  /\ run[o]["op"].pc # "idle" => o \in op.abort /\ order[o].action = "ABORT"

InvocationFits(o, c) ==
  LET r == run[o][c] IN
  /\ r.pc = "step" /\ r.action = "ABORT" => r.i = SUBSCRIPTION /\ order[o].action = "ABORT"
  /\ r.pc = "step" /\ r.action = "RUN" => c = "cron"
  /\ r.pc = "active" => c = "cron" /\ r.i = TELCO
  /\ r.pc = "failed" => r.i = SUBSCRIPTION /\ order[o].action = "ABORT"
  /\ r.pc = "final" => r.out \in {"ERROR", "ABORTED"} \cup (IF c = "op" THEN {} ELSE {"PENDING", "DONE"})

OpFits ==
  /\ \A o, q \in Orders : run[o]["op"].pc # "idle" /\ run[q]["op"].pc # "idle" => o = q
  /\ op.abort # {} => op.move = {} /\ op.found = {}
  /\ \A o \in op.abort : o # AddPlan /\ Used(o) /\ order[o].period \in op.cancel
  /\ \A p \in op.cancel : p # 0 /\ Exists(p)
  /\ \A p, q \in op.cancel : p = q
  /\ op.renew \subseteq revived /\ op.reset \subseteq revived
  /\ \A p \in op.renew \cup op.reset \cup op.move : Exists(p)
  /\ \A p \in op.move : p # 0
  /\ \A o \in op.found : Used(o) /\ o # AddPlan

PeriodsFit ==
  /\ Exists(0)
  /\ period[0] # "CANCELLED"
  /\ \A p, q \in Periods : Future(p) /\ Future(q) => p = q
  /\ \A p \in Periods, f \in Offers : <<p, f>> \in renewing => p # 0 /\ Exists(p)
  /\ \A p \in Periods : p \notin revived => OneOrder(p)

Fit ==
  /\ \A o \in Orders : OrderFits(o)
  /\ \A o \in Orders, c \in Callers : InvocationFits(o, c)
  /\ OpFits /\ PeriodsFit

(* What an order has done is what its steps, in its row and in the locals   *)
(* of its invocation, say.                                                  *)
BillsFit(o) ==
  LET p == order[o].period IN
  /\ order[o].step \in AfterBilling => Billed(p)
  /\ Running(o) /\ run[o]["cron"].i \in AfterBilling => Billed(p)
  /\ run[o]["cron"].pc = "active" => Billed(p)
  /\ Used(o) /\ p \notin revived =>
       /\ Running(o) /\ run[o]["cron"].i \notin AfterBilling => ~Billed(p)
       /\ order[o].action = "RUN" /\ Again(o) /\ order[o].step \notin AfterBilling => ~Billed(p)
       /\ order[o].action = "RUN" /\ order[o].status \in {"CONFIRMED", "PENDING", "ERROR"} =>
            run[o]["cron"].pc = "idle"

Paid ==
  /\ \A o \in Orders : BillsFit(o)
  /\ \A p \in Periods : ~Exists(p) \/ (Renewable(p) /\ p \notin revived) => ~Billed(p)
  /\ BilledForService

(* Who a cancellation has not stopped has escaped it, or ended *)
Stopped(o) == o \in escaped \/ order[o].action = "ABORT" \/ Final(o)

StopsFit(o) ==
  /\ Running(o) /\ (order[o].action = "ABORT" \/ Final(o)) => o \in escaped
  /\ Used(o) /\ order[o].period \in op.cancel => o \in op.abort \/ Stopped(o)
  /\ Used(o) /\ period[order[o].period] = "CANCELLED" => Stopped(o)

Stops == \A o \in Orders : StopsFit(o)

(* Without crashes and failures, an order ends when its period does not     *)
(* wait any more, or is about to be cancelled.                              *)
Calm == spent["crash"] = 0 /\ spent["failure"] = 0

EndFits(o) ==
  LET p == order[o].period IN
  /\ order[o].step # DELAY_BILLING
  /\ Used(o) /\ p \notin revived =>
       /\ Final(o) /\ period[p] = "PENDING" => o \notin op.abort /\ p \in op.cancel
       /\ \A c \in Callers :
            \/ run[o][c].pc = "failed"
            \/ run[o][c].pc = "final" /\ run[o][c].out \in FinalStati
            => period[p] # "PENDING"

Served ==
  Calm =>
    /\ \A o \in Orders : EndFits(o)
    /\ \A p \in Periods : Exists(p) /\ p \notin revived =>
         Renewable(p) \/ \E o \in Orders : Used(o) /\ order[o].period = p

(* A period's offer is that of its order and of the invocation that bills   *)
(* it, or a change of offer is yet to reach them.                           *)
Settled(p) == p \notin revived \cup missed \cup Moving

WaitsFit(o) ==
  LET p == order[o].period IN
  Used(o) /\ p \notin revived =>
    /\ order[o].status \in {"CONFIRMED", "PENDING"} => run[o]["cron"].pc = "idle"
    /\ /\ \/ order[o].step \in {BILLING, DELAY_TELCO, TELCO}
          \/ Running(o) /\ run[o]["cron"].i \in {BILLING, DELAY_TELCO, TELCO}
       /\ p # 0
       => period[p] # "PENDING"

OffersFit(o) ==
  LET p == order[o].period IN
  Used(o) /\ Settled(p) =>
    /\ ~Final(o) => order[o].offer = offer[p]
    /\ Running(o) => run[o]["cron"].offer = offer[p]

Shown ==
  /\ \A o \in Orders : WaitsFit(o) /\ OffersFit(o)
  /\ \A p \in Periods :
       /\ p \notin revived /\ Billed(p) /\ p # 0 => period[p] # "PENDING"
       /\ p \in Moving => op.offer = offer[p]
       /\ Settled(p) => \A f \in Offers : <<p, f>> \in renewing => f = offer[p]
  /\ BilledAsShown

(* The periods that may still become the current one have the offer that is *)
(* shown, if the last change came in time.                                  *)
ToCome(p) ==
  /\ Exists(p)
  /\ IF sub.current # NoPeriod THEN p > sub.current ELSE p > change.next

Kept ==
  /\ change.pc = "idle" => change.next = NoPeriod
  /\ change.next # NoPeriod /\ sub.current # NoPeriod => change.next > sub.current
  /\ ~shown.late =>
       /\ sub.offer = shown.offer
       /\ change.next # NoPeriod => change.offer = shown.offer
       /\ sub.current # NoPeriod \/ change.next # NoPeriod =>
            \A p \in Periods : ToCome(p) => offer[p] = shown.offer

-----------------------------------------------------------------------------
(* How an action leaves the row of order o, and what invocation c of it does *)
(* next; every other row and invocation stays as it is.                      *)
RowBecomes(o, row) ==
  /\ order' \in [Orders -> OrderRow]
  /\ order'[o] = row
  /\ \A q \in Orders \ {o} : order'[q] = order[q]

RunBecomes(o, c, r) ==
  /\ run' \in [Orders -> [Callers -> Invocation]]
  /\ run'[o][c] = r
  /\ \A d \in Callers \ {c} : run'[o][d] = run[o][d]
  /\ \A q \in Orders \ {o} : run'[q] = run[q]

RowsType == order \in [Orders -> OrderRow] /\ run \in [Orders -> [Callers -> Invocation]]

LEMMA RowUpdate ==
  ASSUME RowsType, NEW o \in Orders, NEW row \in OrderRow, order' = [order EXCEPT ![o] = row]
  PROVE  RowBecomes(o, row)
BY DEF RowsType, RowBecomes

LEMMA RunUpdate ==
  ASSUME RowsType, NEW o \in Orders, NEW c \in Callers, NEW r \in Invocation,
         run' = [run EXCEPT ![o][c] = r]
  PROVE  RunBecomes(o, c, r)
<1> DEFINE f == [run[o] EXCEPT ![c] = r]
<1>1. run' = [run EXCEPT ![o] = f]
  OBVIOUS
<1>2. run[o] \in [Callers -> Invocation]
  BY DEF RowsType
<1>3. f \in [Callers -> Invocation] /\ f[c] = r /\ \A d \in Callers \ {c} : f[d] = run[o][d]
  BY <1>2
<1> HIDE DEF f
<1>4. QED
  BY <1>1, <1>3 DEF RowsType, RunBecomes

(* The rows and locals that the actions make of others *)
LEMMA StepRow ==
  ASSUME NEW row \in OrderRow, NEW s \in Steps \cup {NoStep}
  PROVE  LET new == [row EXCEPT !.step = s] IN
         /\ new \in OrderRow
         /\ new.period = row.period /\ new.status = row.status /\ new.action = row.action
         /\ new.offer = row.offer /\ new.step = s
BY DEF OrderRow

LEMMA StatusRow ==
  ASSUME NEW row \in OrderRow, NEW s \in OrderStatus, NEW a \in {"RUN", "ABORT"}
  PROVE  /\ LET new == [row EXCEPT !.status = s] IN
            /\ new \in OrderRow
            /\ new.period = row.period /\ new.status = s /\ new.action = row.action
            /\ new.offer = row.offer /\ new.step = row.step
         /\ LET new == [row EXCEPT !.status = s, !.action = a] IN
            /\ new \in OrderRow
            /\ new.period = row.period /\ new.status = s /\ new.action = a
            /\ new.offer = row.offer /\ new.step = row.step
BY DEF OrderRow

LEMMA IdleInvocation == Idle \in Invocation /\ Idle.pc = "idle"
BY SubscriptionAssumption DEF Idle, Invocation, Steps, DELAY_BILLING, TELCO, OrderStatus

LEMMA FinalInvocation ==
  ASSUME NEW out \in OrderStatus, NEW t \in Int
  PROVE  LET new == [Idle EXCEPT !.pc = "final", !.out = out, !.runAt = t] IN
         /\ new \in Invocation
         /\ new.pc = "final" /\ new.out = out /\ new.runAt = t
BY IdleInvocation DEF Invocation

LEMMA StepNumbers ==
  /\ Steps = {DELAY_BILLING, SUBSCRIPTION, BILLING, DELAY_TELCO, TELCO}
  /\ DELAY_BILLING = 0 /\ SUBSCRIPTION = 1 /\ BILLING = 2 /\ DELAY_TELCO = 3 /\ TELCO = 4
  /\ NoStep = -1 /\ AfterBilling = {3, 4}
  /\ \A i \in Steps \ {TELCO} : NextStep(i) \in Steps /\ NextStep(i) = i + 1
BY DEF Steps, DELAY_BILLING, SUBSCRIPTION, BILLING, DELAY_TELCO, TELCO, NoStep, AfterBilling, NextStep

(* What an invocation starts with *)
LEMMA ClaimedFits ==
  ASSUME RowsType, NEW o \in Orders, NEW action \in {"RUN", "ABORT"}
  PROVE  LET r == Claimed(o, action) IN
         /\ r \in Invocation /\ r.action = action /\ r.out = "ABORTED"
         /\ r.offer = order[o].offer
         /\ r.pc \in {"step", "final"}
         /\ action = "RUN" => /\ r.pc = "step"
                              /\ r.i = IF order[o].step = NoStep THEN DELAY_BILLING
                                       ELSE order[o].step
         /\ action = "ABORT" /\ r.pc = "step" => r.i = SUBSCRIPTION
         /\ r.pc = "final" => o = AddPlan \/ order[o].step = DELAY_BILLING
<1> DEFINE i == FirstStep(o, action)
           nothing == action = "ABORT" /\ (o = AddPlan \/ i < SUBSCRIPTION)
<1>1. order[o] \in OrderRow
  BY DEF RowsType
<1>2. i \in Steps
  BY <1>1, StepNumbers DEF FirstStep, OrderRow
<1>3. /\ order[o].step # NoStep => i = order[o].step
      /\ order[o].step = NoStep /\ action = "RUN" => i = DELAY_BILLING
      /\ order[o].step = NoStep /\ action = "ABORT" => i = TELCO
  BY DEF FirstStep
<1>4. Claimed(o, action) =
        [pc |-> IF nothing THEN "final" ELSE "step", action |-> action,
         i |-> IF action = "ABORT" /\ i > SUBSCRIPTION THEN SUBSCRIPTION ELSE i,
         out |-> "ABORTED", runAt |-> 0, offer |-> order[o].offer]
  BY DEF Claimed
<1> HIDE DEF i
<1>5. Claimed(o, action) \in Invocation
  BY <1>1, <1>2, <1>4, StepNumbers DEF Invocation, OrderRow, OrderStatus
<1>6. QED
  BY <1>2, <1>3, <1>4, <1>5, StepNumbers

(* How the actions move the two on *)
LEMMA FinishEffect ==
  ASSUME RowsType, NEW o \in Orders, NEW c \in Callers, NEW out \in OrderStatus,
         NEW s \in Steps \cup {NoStep}, NEW t \in Int, Finish(o, c, out, s, t)
  PROVE  /\ RowBecomes(o, order'[o])
         /\ order'[o].period = order[o].period /\ order'[o].status = order[o].status
         /\ order'[o].action = order[o].action /\ order'[o].offer = order[o].offer
         /\ order'[o].step = s
         /\ RunBecomes(o, c, run'[o][c])
         /\ run'[o][c].pc = "final" /\ run'[o][c].out = out /\ run'[o][c].runAt = t
<1> DEFINE row == [order[o] EXCEPT !.step = s]
           r == [Idle EXCEPT !.pc = "final", !.out = out, !.runAt = t]
<1>1. order[o] \in OrderRow
  BY DEF RowsType
<1>2. row \in OrderRow /\ r \in Invocation
  BY <1>1, StepRow, FinalInvocation
<1>3. order' = [order EXCEPT ![o] = row] /\ run' = [run EXCEPT ![o][c] = r]
  BY DEF Finish
<1>4. RowBecomes(o, row) /\ RunBecomes(o, c, r)
  <2> HIDE DEF row, r
  <2>1. QED
    BY <1>2, <1>3, RowUpdate, RunUpdate
<1>5. order'[o] = row /\ run'[o][c] = r
  BY <1>4 DEF RowBecomes, RunBecomes
<1>6. /\ row.period = order[o].period /\ row.status = order[o].status
      /\ row.action = order[o].action /\ row.offer = order[o].offer /\ row.step = s
  BY <1>1, StepRow
<1>7. r.pc = "final" /\ r.out = out /\ r.runAt = t
  BY FinalInvocation
<1> HIDE DEF row, r
<1>8. QED
  BY <1>4, <1>5, <1>6, <1>7

-----------------------------------------------------------------------------
(* What each action does to the rows and invocations *)

(* Order o's row keeps everything but its step, which becomes s *)
RowSteps(o, s) ==
  /\ RowBecomes(o, order'[o])
  /\ order'[o].period = order[o].period /\ order'[o].status = order[o].status
  /\ order'[o].action = order[o].action /\ order'[o].offer = order[o].offer
  /\ order'[o].step = s

(* Order o's row keeps everything but its status and action *)
RowMarked(o, status, action) ==
  /\ RowBecomes(o, order'[o])
  /\ order'[o].period = order[o].period /\ order'[o].offer = order[o].offer
  /\ order'[o].step = order[o].step
  /\ order'[o].status = status /\ order'[o].action = action

(* Invocation c of order o has finished *)
RunEnds(o, c, out) ==
  /\ RunBecomes(o, c, run'[o][c])
  /\ run'[o][c].pc = "final" /\ run'[o][c].out = out

(* Invocation c of order o goes on to step i, or another place in it *)
RunGoes(o, c, place, i) ==
  /\ RunBecomes(o, c, run'[o][c])
  /\ run'[o][c].pc = place /\ run'[o][c].i = i
  /\ run'[o][c].action = run[o][c].action /\ run'[o][c].offer = run[o][c].offer

(* A step is recorded in the row *)
LEMMA StepRecorded ==
  ASSUME RowsType, NEW o \in Orders, NEW s \in Steps, order' = [order EXCEPT ![o].step = s]
  PROVE  RowSteps(o, s)
<1> DEFINE row == [order[o] EXCEPT !.step = s]
<1>1. order[o] \in OrderRow
  BY DEF RowsType
<1>2. /\ row \in OrderRow
      /\ row.period = order[o].period /\ row.status = order[o].status
      /\ row.action = order[o].action /\ row.offer = order[o].offer /\ row.step = s
  BY <1>1, StepRow
<1>3. order' = [order EXCEPT ![o] = row]
  OBVIOUS
<1> HIDE DEF row
<1>4. RowBecomes(o, row)
  BY <1>2, <1>3, RowUpdate
<1>5. QED
  BY <1>2, <1>4 DEF RowBecomes, RowSteps

LEMMA TypeRows ==
  ASSUME TypeOK
  PROVE  /\ RowsType
         /\ \A o \in Orders : order[o] \in OrderRow
         /\ \A o \in Orders, c \in Callers : run[o][c] \in Invocation
BY DEF TypeOK, RowsType

LEMMA ProcessConfirmedEffect ==
  ASSUME TypeOK, NEW o \in Orders, ProcessConfirmed(o)
  PROVE  RowMarked(o, "PENDING", order[o].action) /\ order[o].status = "CONFIRMED"
<1> DEFINE row == [order[o] EXCEPT !.status = "PENDING"]
<1>1. RowsType /\ order[o] \in OrderRow /\ "PENDING" \in OrderStatus
  BY TypeRows DEF OrderStatus
<1>2. /\ row \in OrderRow
      /\ row.period = order[o].period /\ row.status = "PENDING" /\ row.action = order[o].action
      /\ row.offer = order[o].offer /\ row.step = order[o].step
  BY <1>1, StatusRow
<1>3. order' = [order EXCEPT ![o] = row]
  BY DEF ProcessConfirmed
<1> HIDE DEF row
<1>4. RowBecomes(o, row)
  BY <1>1, <1>2, <1>3, RowUpdate
<1>5. QED
  BY <1>2, <1>4 DEF RowBecomes, RowMarked, ProcessConfirmed

LEMMA ProcessPendingEffect ==
  ASSUME TypeOK, NEW o \in Orders, ProcessPending(o)
  PROVE  /\ RowMarked(o, "PROCESSING", order[o].action)
         /\ order[o].status \in {"PENDING", "ERROR"}
         /\ run[o]["cron"].pc = "idle"
         /\ RunBecomes(o, "cron", run'[o]["cron"])
         /\ run'[o]["cron"] = Claimed(o, order[o].action)
<1> DEFINE row == [order[o] EXCEPT !.status = "PROCESSING"]
<1>1. RowsType /\ order[o] \in OrderRow /\ "PROCESSING" \in OrderStatus
  BY TypeRows DEF OrderStatus
<1>2. /\ row \in OrderRow
      /\ row.period = order[o].period /\ row.status = "PROCESSING" /\ row.action = order[o].action
      /\ row.offer = order[o].offer /\ row.step = order[o].step
  BY <1>1, StatusRow
<1>3. order' = [order EXCEPT ![o] = row]
  BY DEF ProcessPending
<1> HIDE DEF row
<1>4. RowBecomes(o, row)
  BY <1>1, <1>2, <1>3, RowUpdate
<1>5. order[o].action \in {"RUN", "ABORT"} /\ "cron" \in Callers
  BY <1>1 DEF OrderRow, Callers
<1>6. Claimed(o, order[o].action) \in Invocation
  BY <1>1, <1>5, ClaimedFits
<1>7. run' = [run EXCEPT ![o]["cron"] = Claimed(o, order[o].action)]
  BY DEF ProcessPending
<1>8. RunBecomes(o, "cron", Claimed(o, order[o].action))
  BY <1>1, <1>5, <1>6, <1>7, RunUpdate
<1>9. QED
  BY <1>2, <1>4, <1>8 DEF RowBecomes, RowMarked, RunBecomes, ProcessPending, Due

LEMMA DelayEffect ==
  ASSUME TypeOK, NEW o \in Orders, NEW c \in Callers, Delay(o, c)
  PROVE  \E i \in {DELAY_BILLING, DELAY_TELCO} :
           At(o, c, "RUN", i) /\ RowSteps(o, i + 1) /\ RunEnds(o, c, "PENDING")
<1>1. PICK i \in {DELAY_BILLING, DELAY_TELCO} :
        At(o, c, "RUN", i) /\ Finish(o, c, "PENDING", NextStep(i), ScheduledAt(order[o].period, i))
  BY DEF Delay
<1>2. ScheduledAt(order[o].period, i) \in Int
  BY TypeRows, SubscriptionAssumption DEF ScheduledAt, StartsAt, OrderRow, Periods
<1>3. NextStep(i) \in Steps /\ NextStep(i) = i + 1 /\ "PENDING" \in OrderStatus
  BY StepNumbers DEF OrderStatus
<1>4. QED
  BY <1>1, <1>2, <1>3, TypeRows, FinishEffect DEF RowSteps, RunEnds

LEMMA GoOnEffect ==
  ASSUME TypeOK, NEW o \in Orders, NEW c \in Callers, NEW i \in Steps \ {TELCO},
         run[o][c].pc = "step", GoOn(o, c, i)
  PROVE  RowSteps(o, i + 1) /\ RunGoes(o, c, "step", i + 1)
<1> DEFINE r == [run[o][c] EXCEPT !.i = NextStep(i)]
<1>1. RowsType /\ run[o][c] \in Invocation /\ NextStep(i) \in Steps /\ NextStep(i) = i + 1
  BY TypeRows, StepNumbers
<1>2. /\ r \in Invocation
      /\ r.pc = "step" /\ r.action = run[o][c].action /\ r.i = i + 1 /\ r.offer = run[o][c].offer
  BY <1>1 DEF Invocation
<1>3. run' = [run EXCEPT ![o][c] = r] /\ order' = [order EXCEPT ![o].step = NextStep(i)]
  BY DEF GoOn
<1> HIDE DEF r
<1>4. QED
  <2>1. RowSteps(o, NextStep(i))
    BY <1>1, <1>3, StepRecorded
  <2>2. RunBecomes(o, c, r)
    BY <1>1, <1>2, <1>3, RunUpdate
  <2>3. QED
    BY <1>1, <1>2, <2>1, <2>2 DEF RunGoes, RunBecomes

LEMMA PlaceEffect ==
  ASSUME TypeOK, NEW o \in Orders, NEW c \in Callers, NEW s \in Steps,
         NEW place \in {"active", "failed"},
         run' = [run EXCEPT ![o][c].pc = place], order' = [order EXCEPT ![o].step = s]
  PROVE  RowSteps(o, s) /\ RunGoes(o, c, place, run[o][c].i)
<1> DEFINE r == [run[o][c] EXCEPT !.pc = place]
<1>1. RowsType /\ run[o][c] \in Invocation
  BY TypeRows
<1>2. /\ r \in Invocation
      /\ r.pc = place /\ r.action = run[o][c].action /\ r.i = run[o][c].i
      /\ r.offer = run[o][c].offer
  BY <1>1 DEF Invocation
<1>3. run' = [run EXCEPT ![o][c] = r]
  OBVIOUS
<1> HIDE DEF r
<1>4. QED
  <2>1. RowSteps(o, s)
    BY <1>1, <1>3, StepRecorded
  <2>2. RunBecomes(o, c, r)
    BY <1>1, <1>2, <1>3, RunUpdate
  <2>3. QED
    BY <1>1, <1>2, <2>1, <2>2 DEF RunGoes, RunBecomes

LEMMA EndEffect ==
  ASSUME TypeOK, NEW o \in Orders, NEW c \in Callers,
         MarkPeriodDone(o, c) \/ MarkSuspended(o, c)
  PROVE  \/ MarkPeriodDone(o, c) /\ RowSteps(o, NoStep) /\ RunEnds(o, c, "DONE")
         \/ MarkSuspended(o, c) /\ RowSteps(o, NoStep) /\ RunEnds(o, c, "ABORTED")
BY TypeRows, FinishEffect DEF RowSteps, RunEnds, MarkPeriodDone, MarkSuspended, OrderStatus

LEMMA StepFailsEffect ==
  ASSUME TypeOK, NEW o \in Orders, NEW c \in Callers, StepFails(o, c)
  PROVE  /\ run[o][c].pc \in {"step", "active", "failed"}
         /\ RowSteps(o, run[o][c].i)
         /\ RunEnds(o, c, "ERROR") \/ RunEnds(o, c, "ABORTED")
<1>1. PICK out \in {"ERROR", "ABORTED"} : Finish(o, c, out, run[o][c].i, 0)
  BY DEF StepFails
<1>2. run[o][c].i \in Steps /\ out \in OrderStatus
  BY TypeRows DEF Invocation, OrderStatus
<1>3. QED
  BY <1>1, <1>2, TypeRows, FinishEffect DEF RowSteps, RunEnds, StepFails

LEMMA FinalUpdateEffect ==
  ASSUME TypeOK, NEW o \in Orders, NEW c \in Callers, FinalUpdate(o, c)
  PROVE  /\ run[o][c].pc = "final"
         /\ RunBecomes(o, c, Idle)
         /\ order[o].status = "PROCESSING" =>
              /\ RowMarked(o, run[o][c].out, order[o].action)
              /\ op' = IF c = "op" THEN Left([op EXCEPT !.abort = @ \ {o}]) ELSE op
         /\ order[o].status # "PROCESSING" =>
              order' = order /\ op' = IF c = "op" THEN NoOp ELSE op
<1> DEFINE row == [order[o] EXCEPT !.status = run[o][c].out, !.runAt = run[o][c].runAt]
<1>1. RowsType /\ order[o] \in OrderRow
  BY TypeRows
<1>2. run[o][c].out \in OrderStatus /\ run[o][c].runAt \in Int
  BY TypeRows DEF Invocation
<1>3. /\ row \in OrderRow
      /\ row.period = order[o].period /\ row.status = run[o][c].out
      /\ row.action = order[o].action /\ row.offer = order[o].offer /\ row.step = order[o].step
  BY <1>1, <1>2 DEF OrderRow
<1>4. RunBecomes(o, c, Idle)
  BY <1>1, IdleInvocation, RunUpdate DEF FinalUpdate
<1>5. order[o].status = "PROCESSING" => order' = [order EXCEPT ![o] = row]
  BY DEF FinalUpdate
<1> HIDE DEF row
<1>6. order[o].status = "PROCESSING" => RowBecomes(o, row)
  BY <1>1, <1>3, <1>5, RowUpdate
<1>7. QED
  BY <1>3, <1>4, <1>6 DEF RowBecomes, RowMarked, FinalUpdate

LEMMA CreateEffect ==
  ASSUME TypeOK, NEW p \in Periods, NEW f \in Offers, CreateRenewPlan(p, f)
  PROVE  \E o \in Orders :
           /\ Unused(o)
           /\ RowBecomes(o, order'[o])
           /\ order'[o].period = p /\ order'[o].status = "CONFIRMED"
           /\ order'[o].action = order[o].action /\ order'[o].step = order[o].step
           /\ order'[o].offer = f
           /\ escaped' = IF p \in op.cancel \/ period[p] = "CANCELLED"
                         THEN escaped \cup {o} ELSE escaped
<1>1. PICK o \in Orders :
        /\ Unused(o)
        /\ order' = [order EXCEPT ![o] = [@ EXCEPT !.period = p, !.status = "CONFIRMED",
                                                    !.offer = f]]
        /\ escaped' = IF p \in op.cancel \/ period[p] = "CANCELLED"
                      THEN escaped \cup {o} ELSE escaped
  BY DEF CreateRenewPlan
<1> DEFINE row == [order[o] EXCEPT !.period = p, !.status = "CONFIRMED", !.offer = f]
<1>2. RowsType /\ order[o] \in OrderRow
  BY TypeRows
<1>3. /\ row \in OrderRow
      /\ row.period = p /\ row.status = "CONFIRMED" /\ row.action = order[o].action
      /\ row.offer = f /\ row.step = order[o].step
  BY <1>2 DEF OrderRow, OrderStatus
<1>4. order' = [order EXCEPT ![o] = row]
  BY <1>1
<1> HIDE DEF row
<1>5. RowBecomes(o, row)
  BY <1>2, <1>3, <1>4, RowUpdate
<1>6. order'[o] = row
  BY <1>5 DEF RowBecomes
<1>7. QED
  BY <1>1, <1>3, <1>5, <1>6
(* rerunPeriod retries one order at most: the period's last, a live one *)
LEMMA RerunEffect ==
  ASSUME TypeOK, NEW p \in Periods, RerunPeriod(p)
  PROVE  /\ op = NoOp
         /\ order' \in [Orders -> OrderRow]
         /\ \A o \in Orders :
              \/ order'[o] = order[o]
              \/ /\ o # AddPlan /\ Used(o) /\ ~Final(o) /\ order[o].period = p
                 /\ order'[o].period = p /\ order'[o].action = order[o].action
                 /\ order'[o].step = order[o].step /\ order'[o].offer = order[o].offer
                 /\ order'[o].status = "PENDING"
         /\ \/ op' = NoOp
            \/ op' = Left([NoOp EXCEPT !.renew = {p}, !.reset = {p}, !.offer = offer[p]])
<1> DEFINE last == {o \in Renewals(p) : \A q \in Renewals(p) : q <= o}
           new(o, t) == [order[o] EXCEPT !.status = "PENDING", !.runAt = t]
<1>1. /\ order \in [Orders -> OrderRow] /\ \A o \in Orders : order[o] \in OrderRow
      /\ op = NoOp
  BY DEF TypeOK, RerunPeriod, BeginOp
<1>2. CASE LiveOrders({p}) \cap last # {}
  <2>1. order' = [o \in Orders |-> IF o \notin last THEN order[o] ELSE new(o, 0)] /\ op' = NoOp
    BY <1>1, <1>2 DEF RerunPeriod
  <2>2. ASSUME NEW o \in Orders, NEW t \in Int
        PROVE  /\ new(o, t) \in OrderRow
               /\ new(o, t).period = order[o].period /\ new(o, t).action = order[o].action
               /\ new(o, t).step = order[o].step /\ new(o, t).offer = order[o].offer
               /\ new(o, t).status = "PENDING"
    <3>1. order[o] \in OrderRow /\ "PENDING" \in OrderStatus
      BY <1>1 DEF OrderStatus
    <3>2. QED
      BY <3>1 DEF OrderRow
  <2>3. ASSUME NEW o \in last PROVE o \in LiveOrders({p})
    <3>1. PICK q \in LiveOrders({p}) \cap last : TRUE
      BY <1>2
    <3>2. q <= o /\ o <= q /\ o \in Int /\ q \in Int
      BY <3>1 DEF Renewals, Orders
    <3>3. QED
      BY <3>1, <3>2
  <2> HIDE DEF new
  <2>4. order' \in [Orders -> OrderRow]
    BY <1>1, <2>1, <2>2
  <2>5. \A o \in last : o # AddPlan /\ Used(o) /\ ~Final(o) /\ order[o].period = p
    BY <2>3 DEF LiveOrders, Used, Final
  <2> HIDE DEF last
  <2>6. QED
    BY <1>1, <2>1, <2>2, <2>4, <2>5
<1>3. CASE ~(LiveOrders({p}) \cap last # {})
  BY <1>1, <1>3 DEF RerunPeriod, BeginOp
<1>4. QED
  BY <1>2, <1>3

LEMMA OpAbortEffect ==
  ASSUME TypeOK, NEW o \in Orders, OpAbort(o)
  PROVE  /\ o \in op.abort /\ NothingAwaited
         /\ \/ Final(o) /\ op' = NoOp /\ UNCHANGED <<order, run, escaped>>
            \/ /\ order[o].status = "CONFIRMED"
               /\ RowMarked(o, "ABORTED", "ABORT")
               /\ op' = Left([op EXCEPT !.abort = @ \ {o}])
               /\ UNCHANGED <<run, escaped>>
            \/ /\ ~Final(o) /\ order[o].status # "CONFIRMED"
               /\ RowMarked(o, "PROCESSING", "ABORT")
               /\ RunBecomes(o, "op", Claimed(o, "ABORT"))
               /\ escaped' = IF run[o]["cron"].pc # "idle" THEN escaped \cup {o} ELSE escaped
               /\ op' = op
<1>1. RowsType /\ order[o] \in OrderRow /\ "op" \in Callers
  BY TypeRows DEF Callers
<1>2. CASE Final(o)
  BY <1>2 DEF OpAbort, Final, FinalStati
<1>3. ASSUME NEW s \in {"ABORTED", "PROCESSING"},
             order' = [order EXCEPT ![o] = [@ EXCEPT !.status = s, !.action = "ABORT"]]
      PROVE  RowMarked(o, s, "ABORT")
  <2> DEFINE row == [order[o] EXCEPT !.status = s, !.action = "ABORT"]
  <2>1. s \in OrderStatus
    BY DEF OrderStatus
  <2>2. /\ row \in OrderRow
        /\ row.period = order[o].period /\ row.status = s /\ row.action = "ABORT"
        /\ row.offer = order[o].offer /\ row.step = order[o].step
    BY <1>1, <2>1 DEF OrderRow
  <2>3. order' = [order EXCEPT ![o] = row]
    BY <1>3
  <2> HIDE DEF row
  <2>4. RowBecomes(o, row)
    BY <1>1, <2>2, <2>3, RowUpdate
  <2>5. QED
    BY <2>2, <2>4 DEF RowBecomes, RowMarked
<1>4. CASE order[o].status = "CONFIRMED"
  <2>1. /\ order' = [order EXCEPT ![o] = [@ EXCEPT !.status = "ABORTED", !.action = "ABORT"]]
        /\ op' = Left([op EXCEPT !.abort = @ \ {o}])
        /\ UNCHANGED <<run, escaped>>
    BY <1>4 DEF OpAbort, FinalStati
  <2>2. QED
    BY <1>3, <1>4, <2>1 DEF OpAbort
<1>5. CASE ~Final(o) /\ order[o].status # "CONFIRMED"
  <2>1. /\ order' = [order EXCEPT ![o] = [@ EXCEPT !.status = "PROCESSING", !.action = "ABORT"]]
        /\ run' = [run EXCEPT ![o]["op"] = Claimed(o, "ABORT")]
        /\ escaped' = IF run[o]["cron"].pc # "idle" THEN escaped \cup {o} ELSE escaped
        /\ op' = op
    BY <1>5 DEF OpAbort, Final
  <2>2. Claimed(o, "ABORT") \in Invocation
    BY <1>1, ClaimedFits
  <2>3. RunBecomes(o, "op", Claimed(o, "ABORT"))
    BY <1>1, <2>1, <2>2, RunUpdate
  <2>4. QED
    BY <1>3, <1>5, <2>1, <2>3 DEF OpAbort
<1>6. QED
  BY <1>2, <1>4, <1>5

LEMMA MoveEffect ==
  ASSUME TypeOK, OpMoveOrders
  PROVE  /\ op.offer \in Offers /\ op.found # {}
         /\ order' \in [Orders -> OrderRow]
         /\ \A o \in Orders \ op.found : order'[o] = order[o]
         /\ \A o \in op.found :
              /\ order'[o].period = order[o].period /\ order'[o].status = order[o].status
              /\ order'[o].action = order[o].action /\ order'[o].step = order[o].step
              /\ order'[o].offer = op.offer
<1> DEFINE new(o) == [order[o] EXCEPT !.offer = op.offer]
<1>1. /\ order \in [Orders -> OrderRow] /\ \A o \in Orders : order[o] \in OrderRow
      /\ op.found # {} /\ op.offer \in Offers /\ op.found \subseteq Orders
  BY DEF TypeOK, OpMoveOrders
<1>2. ASSUME NEW o \in Orders
      PROVE  /\ new(o) \in OrderRow
             /\ new(o).period = order[o].period /\ new(o).status = order[o].status
             /\ new(o).action = order[o].action /\ new(o).step = order[o].step
             /\ new(o).offer = op.offer
  BY <1>1 DEF OrderRow
<1>3. order' = [o \in Orders |-> IF o \in op.found THEN new(o) ELSE order[o]]
  BY DEF OpMoveOrders
<1> HIDE DEF new
<1>4. QED
  BY <1>1, <1>2, <1>3

(* What is left of an operation is what it had to do *)
LEMMA LeftKeeps ==
  ASSUME NEW todo
  PROVE  /\ Left(todo) = todo \/ (Left(todo) = NoOp /\ Finished(todo))
         /\ Left(todo).abort = todo.abort /\ Left(todo).cancel = todo.cancel
         /\ Left(todo).renew = todo.renew /\ Left(todo).reset = todo.reset
         /\ Left(todo).move = todo.move /\ Left(todo).found = todo.found
BY DEF Left, NoOp, Finished
-----------------------------------------------------------------------------
(* Type correctness *)

OpRecord ==
  [abort : SUBSET Orders, cancel : SUBSET Periods, renew : SUBSET Periods,
   reset : SUBSET Periods, move : SUBSET Periods, found : SUBSET Orders,
   offer : Offers \cup {NoOffer}]

OpType(todo) ==
  todo \in OpRecord /\ (todo.renew \cup todo.move \cup todo.found # {} => todo.offer \in Offers)

LEMMA NoOpType == OpType(NoOp)
BY DEF OpType, OpRecord, NoOp

LEMMA LeftType ==
  ASSUME NEW todo, OpType(todo)
  PROVE  OpType(Left(todo))
BY NoOpType DEF Left

(* The rest of an operation, of which one part is done *)
LEMMA RestType ==
  ASSUME OpType(op), NEW o, NEW p, NEW found \in SUBSET Orders, op.move # {} \/ found = {}
  PROVE  /\ OpType([op EXCEPT !.abort = @ \ {o}]) /\ OpType([op EXCEPT !.cancel = @ \ {p}])
         /\ OpType([op EXCEPT !.renew = @ \ {p}]) /\ OpType([op EXCEPT !.reset = @ \ {p}])
         /\ OpType([op EXCEPT !.move = @ \ {p}, !.found = found])
         /\ OpType([op EXCEPT !.found = {}])
BY DEF OpType, OpRecord

LEMMA InitTypeOK == Init => TypeOK
<1> SUFFICES ASSUME Init PROVE TypeOK
  OBVIOUS
<1> USE SubscriptionAssumption
<1>1. now \in 0 .. EndOfTime /\ 0 \in Periods /\ AddPlan \in Orders
  BY DEF Init, EndOfTime, EndsAt, Periods, Orders, AddPlan
<1>2. sub \in [status : SubStatus, current : Periods \cup {NoPeriod}, offer : Offers]
  BY <1>1 DEF Init, SubStatus
<1>3. period \in [Periods -> PeriodStatus] /\ offer \in [Periods -> Offers]
  BY DEF Init, PeriodStatus
<1>4. order \in [Orders -> OrderRow]
  <2>1. order = [o \in Orders |->
          [period |-> 0, action |-> "RUN", runAt |-> 0, offer |-> InitialOffer,
           status |-> IF o # AddPlan THEN "ABSENT" ELSE IF Activated THEN "DONE" ELSE "PENDING",
           step |-> IF o = AddPlan /\ ~Activated THEN TELCO ELSE NoStep]]
    BY DEF Init
  <2>2. QED
    BY <1>1, <2>1, StepNumbers DEF OrderRow, OrderStatus
<1>5. run \in [Orders -> [Callers -> Invocation]]
  BY IdleInvocation DEF Init
<1>6. /\ op \in [abort : SUBSET Orders, cancel : SUBSET Periods,
                 renew : SUBSET Periods, reset : SUBSET Periods, move : SUBSET Periods,
                 found : SUBSET Orders, offer : Offers \cup {NoOffer}]
      /\ op.renew \cup op.move \cup op.found # {} => op.offer \in Offers
  BY NoOpType DEF Init, OpType, OpRecord
<1>7. /\ change \in [pc : {"idle", "apply"}, status : SubStatus,
                     next : Periods \cup {NoPeriod}, offer : Offers \cup {NoOffer}]
      /\ change.next # NoPeriod => change.offer \in Offers
  BY DEF Init, NoChange, SubStatus
<1>8. charged \in [Periods -> [Offers -> Nat]]
  BY DEF Init
<1>9. /\ renewing \subseteq Periods \X Offers /\ spent \in [{"op", "failure", "crash"} -> Nat]
      /\ revived \subseteq Periods /\ escaped \subseteq Orders
      /\ shown \in [offer : Offers, late : BOOLEAN] /\ missed \subseteq Periods
  BY DEF Init
<1>10. QED
  BY <1>1, <1>2, <1>3, <1>4, <1>5, <1>6, <1>7, <1>8, <1>9 DEF TypeOK

(* TypeOK in terms of the operators above *)
Histories ==
  /\ charged \in [Periods -> [Offers -> Nat]]
  /\ revived \subseteq Periods /\ escaped \subseteq Orders
  /\ shown \in [offer : Offers, late : BOOLEAN] /\ missed \subseteq Periods

Clock == now \in 0 .. EndOfTime /\ spent \in [{"op", "failure", "crash"} -> Nat]

Changes ==
  /\ sub \in [status : SubStatus, current : Periods \cup {NoPeriod}, offer : Offers]
  /\ change \in [pc : {"idle", "apply"}, status : SubStatus,
                 next : Periods \cup {NoPeriod}, offer : Offers \cup {NoOffer}]
  /\ change.next # NoPeriod => change.offer \in Offers

PeriodRows ==
  /\ period \in [Periods -> PeriodStatus] /\ offer \in [Periods -> Offers]
  /\ renewing \subseteq Periods \X Offers

LEMMA TypeParts ==
  TypeOK <=> RowsType /\ OpType(op) /\ Histories /\ Clock /\ Changes /\ PeriodRows
BY DEF TypeOK, RowsType, OpType, OpRecord, Histories, Clock, Changes, PeriodRows

LEMMA TypeNext ==
  ASSUME RowsType', OpType(op'), Histories', Clock', Changes', PeriodRows'
  PROVE  TypeOK'
BY DEF TypeOK, RowsType, OpType, OpRecord, Histories, Clock, Changes, PeriodRows

LEMMA SpendType ==
  ASSUME Clock, NEW event \in {"op", "failure", "crash"}, NEW bound \in Nat, Spend(event, bound)
  PROVE  spent' \in [{"op", "failure", "crash"} -> Nat]
BY DEF Clock, Spend

(* The steps of invocations *)
LEMMA InvocationType ==
  ASSUME TypeOK, NEW o \in Orders, NEW c \in Callers, InvocationStep(o, c) \/ StepFails(o, c)
  PROVE  TypeOK'
<1> USE TypeParts, TypeNext, SubscriptionAssumption
<1>1. order[o].period \in Periods /\ run[o][c].offer \in Offers
  BY TypeRows DEF OrderRow, Invocation
<1>2. ASSUME NEW s, RowSteps(o, s), NEW r, RunBecomes(o, c, r) PROVE RowsType'
  BY <1>2 DEF RowsType, RowSteps, RowBecomes, RunBecomes
<1>3. CASE Delay(o, c)
  <2>1. RowsType'
    BY <1>2, <1>3, DelayEffect DEF RunEnds
  <2>2. QED
    BY <1>3, <2>1 DEF Delay, history, offers, Histories, Clock, Changes, PeriodRows, OpType
<1>4. CASE MarkPeriodProcessing(o, c)
  <2>1. RowsType'
    <3>1. SUBSCRIPTION \in Steps \ {TELCO}
      BY StepNumbers
    <3>2. RowSteps(o, SUBSCRIPTION + 1) /\ RunGoes(o, c, "step", SUBSCRIPTION + 1)
      BY <1>4, <3>1, GoOnEffect DEF MarkPeriodProcessing, At
    <3>3. QED
      BY <1>2, <3>2 DEF RunGoes
  <2>2. PeriodRows'
    BY <1>1, <1>4 DEF MarkPeriodProcessing, PeriodRows, PeriodStatus, history, offers
  <2>3. QED
    BY <1>4, <2>1, <2>2
       DEF MarkPeriodProcessing, history, offers, Histories, Clock, Changes, OpType
<1>5. CASE Bill(o, c)
  <2>1. RowsType'
    <3>1. BILLING \in Steps \ {TELCO}
      BY StepNumbers
    <3>2. RowSteps(o, BILLING + 1) /\ RunGoes(o, c, "step", BILLING + 1)
      BY <1>5, <3>1, GoOnEffect DEF Bill, At
    <3>3. QED
      BY <1>2, <3>2 DEF RunGoes
  <2>2. charged' \in [Periods -> [Offers -> Nat]]
    BY <1>1, <1>5 DEF Bill, Histories
  <2>3. Histories'
    BY <1>1, <1>5, <2>2 DEF Bill, Histories
  <2>4. QED
    BY <1>5, <2>1, <2>3 DEF Bill, Clock, Changes, PeriodRows, OpType
<1>6. CASE MarkActive(o, c)
  <2>1. RowsType'
    BY <1>2, <1>6, PlaceEffect, StepNumbers DEF MarkActive, RunGoes
  <2>2. Changes'
    BY <1>6 DEF MarkActive, Changes, SubStatus
  <2>3. QED
    BY <1>6, <2>1, <2>2 DEF MarkActive, history, offers, Histories, Clock, PeriodRows, OpType
<1>7. CASE MarkPeriodDone(o, c)
  <2>1. RowsType'
    BY <1>2, <1>7, EndEffect DEF RunEnds
  <2>2. PeriodRows'
    BY <1>1, <1>7 DEF MarkPeriodDone, PeriodRows, PeriodStatus, history, offers
  <2>3. QED
    BY <1>7, <2>1, <2>2 DEF MarkPeriodDone, history, offers, Histories, Clock, Changes, OpType
<1>8. CASE MarkPeriodFailed(o, c)
  <2>1. RowsType'
    BY <1>2, <1>8, PlaceEffect, StepNumbers DEF MarkPeriodFailed, RunGoes
  <2>2. PeriodRows'
    BY <1>1, <1>8 DEF MarkPeriodFailed, PeriodRows, PeriodStatus, history, offers
  <2>3. QED
    BY <1>8, <2>1, <2>2 DEF MarkPeriodFailed, history, offers, Histories, Clock, Changes, OpType
<1>9. CASE MarkSuspended(o, c)
  <2>1. RowsType'
    BY <1>2, <1>9, EndEffect DEF RunEnds
  <2>2. Changes'
    BY <1>9 DEF MarkSuspended, Changes, SubStatus
  <2>3. QED
    BY <1>9, <2>1, <2>2 DEF MarkSuspended, history, offers, Histories, Clock, PeriodRows, OpType
<1>10. CASE StepFails(o, c)
  <2>1. RowsType'
    BY <1>2, <1>10, StepFailsEffect DEF RunEnds
  <2>2. Clock'
    BY <1>10, SpendType DEF StepFails, Clock
  <2>3. QED
    BY <1>10, <2>1, <2>2 DEF StepFails, history, offers, Histories, Changes, PeriodRows, OpType
<1>11. CASE FinalUpdate(o, c)
  <2>1. RowsType'
    BY <1>11, FinalUpdateEffect DEF RowsType, RowMarked, RowBecomes, RunBecomes
  <2>2. OpType(op')
    <3>1. OpType([op EXCEPT !.abort = @ \ {o}])
      BY RestType
    <3>2. QED
      BY <1>11, <3>1, NoOpType, LeftType, FinalUpdateEffect
  <2>3. QED
    BY <1>11, <2>1, <2>2
       DEF FinalUpdate, history, offers, Histories, Clock, Changes, PeriodRows, OpType
<1>12. QED
  BY <1>3, <1>4, <1>5, <1>6, <1>7, <1>8, <1>9, <1>10, <1>11 DEF InvocationStep

(* The cron jobs *)
LEMMA CronType ==
  ASSUME TypeOK,
         \/ \E o \in Orders : ProcessConfirmed(o) \/ ProcessPending(o)
         \/ Renewing \/ Changing
  PROVE  TypeOK'
<1> USE TypeParts, TypeNext, SubscriptionAssumption
<1>1. ASSUME NEW o \in Orders, ProcessConfirmed(o) PROVE TypeOK'
  <2>1. RowsType'
    BY <1>1, ProcessConfirmedEffect DEF RowsType, RowMarked, RowBecomes, ProcessConfirmed
  <2>2. QED
    BY <1>1, <2>1
       DEF ProcessConfirmed, history, offers, Histories, Clock, Changes, PeriodRows, OpType
<1>2. ASSUME NEW o \in Orders, ProcessPending(o) PROVE TypeOK'
  <2>1. RowsType'
    BY <1>2, ProcessPendingEffect DEF RowsType, RowMarked, RowBecomes, RunBecomes
  <2>2. QED
    BY <1>2, <2>1
       DEF ProcessPending, history, offers, Histories, Clock, Changes, PeriodRows, OpType
<1>3. ASSUME NEW p \in Periods, RenewPeriod(p) PROVE TypeOK'
  <2>1. sub.offer \in Offers
    BY DEF Changes
  <2>2. PeriodRows'
    BY <1>3, <2>1 DEF RenewPeriod, PeriodRows, PeriodStatus
  <2>3. QED
    BY <1>3, <2>2 DEF RenewPeriod, RowsType, Histories, Clock, Changes, OpType
<1>4. ASSUME NEW p \in Periods, RenewOrder(p) PROVE TypeOK'
  <2>1. PICK f \in Offers : /\ CreateRenewPlan(p, f) /\ renewing' = renewing \ {<<p, f>>}
                            /\ UNCHANGED <<now, sub, period, run, op, change, spent, charged,
                                           revived, offers>>
    BY <1>4 DEF RenewOrder
  <2>2. RowsType' /\ escaped' \subseteq Orders
    BY <2>1, CreateEffect DEF RowsType, RowBecomes, Histories
  <2>3. QED
    BY <2>1, <2>2 DEF offers, Histories, Clock, Changes, PeriodRows, OpType
<1>5. CASE ReadExpired
  <2> DEFINE next == IF Covering = {} THEN NoPeriod ELSE CHOOSE p \in Covering : TRUE
  <2>1. next \in Periods \cup {NoPeriod}
    BY DEF Covering
  <2>2. change' = [pc |-> "apply", status |-> sub.status, next |-> next,
                   offer |-> IF next = NoPeriod THEN NoOffer ELSE offer[next]]
    BY <1>5 DEF ReadExpired
  <2> HIDE DEF next
  <2>3. sub.status \in SubStatus /\ (next # NoPeriod => offer[next] \in Offers)
    BY <2>1 DEF Changes, PeriodRows
  <2>4. /\ change'.pc = "apply" /\ change'.status = sub.status /\ change'.next = next
        /\ change'.offer = IF next = NoPeriod THEN NoOffer ELSE offer[next]
        /\ change' \in [pc : {"idle", "apply"}, status : SubStatus,
                         next : Periods \cup {NoPeriod}, offer : Offers \cup {NoOffer}]
    BY <2>1, <2>2, <2>3
  <2>5. Changes'
    BY <1>5, <2>3, <2>4 DEF ReadExpired, Changes
  <2>6. QED
    BY <1>5, <2>5 DEF ReadExpired, history, offers, RowsType, Histories, Clock, PeriodRows, OpType
<1>6. CASE ChangePeriod \/ Expire
  <2>1. sub' \in [status : SubStatus, current : Periods \cup {NoPeriod}, offer : Offers]
    BY <1>6 DEF ChangePeriod, Expire, Changes, SubStatus
  <2>2. /\ NoChange.next = NoPeriod
        /\ NoChange \in [pc : {"idle", "apply"}, status : SubStatus,
                          next : Periods \cup {NoPeriod}, offer : Offers \cup {NoOffer}]
    BY DEF NoChange, SubStatus
  <2>3. Changes'
    BY <1>6, <2>1, <2>2 DEF ChangePeriod, Expire, Changes
  <2>4. QED
    BY <1>6, <2>3
       DEF ChangePeriod, Expire, history, offers, RowsType, Histories, Clock, PeriodRows, OpType
<1>7. QED
  BY <1>1, <1>2, <1>3, <1>4, <1>5, <1>6 DEF Renewing, Changing

LEMMA BeginOpType ==
  ASSUME TypeOK, NEW todo, OpType(todo), BeginOp(todo)
  PROVE  OpType(op') /\ spent' \in [{"op", "failure", "crash"} -> Nat]
BY LeftType, SpendType, TypeParts, SubscriptionAssumption DEF BeginOp

LEMMA StopFutureType == OpType(StopFuture)
BY DEF StopFuture, OpType, OpRecord, NoOp, LiveOrders, Upcoming

(* Operations and what follows them *)
LEMMA OperationType ==
  ASSUME TypeOK, Operation
  PROVE  TypeOK'
<1> USE TypeParts, TypeNext, SubscriptionAssumption
<1>1. CASE Cancel \/ Suspend \/ Deactivate
  <2>1. OpType(op') /\ spent' \in [{"op", "failure", "crash"} -> Nat]
    BY <1>1, BeginOpType, StopFutureType DEF Cancel, Suspend, Deactivate
  <2>2. Changes'
    BY <1>1 DEF Cancel, Suspend, Deactivate, Changes, SubStatus
  <2>3. QED
    BY <1>1, <2>1, <2>2
       DEF Cancel, Suspend, Deactivate, history, offers, RowsType, Histories, Clock, PeriodRows
<1>2. ASSUME NEW stati, Revive(stati) PROVE TypeOK'
  <2> DEFINE again == {p \in Periods : Future(p) /\ period[p] = "CANCELLED"}
             pending == again \cup {p \in Periods : period[p] = "PENDING"}
             todo == [NoOp EXCEPT !.renew = pending, !.offer = sub.offer]
  <2>1. again \subseteq Periods /\ pending \subseteq Periods /\ sub.offer \in Offers
    BY DEF Changes
  <2>2. BeginOp(todo) /\ revived' = revived \cup pending
        /\ period' = [p \in Periods |-> IF p \in again THEN "PENDING" ELSE period[p]]
        /\ sub' = [sub EXCEPT !.status = "ACTIVE"]
        /\ UNCHANGED <<now, order, run, renewing, change, charged, escaped, offers>>
    BY <1>2 DEF Revive
  <2> HIDE DEF pending, again
  <2>3. OpType(todo)
    BY <2>1 DEF OpType, OpRecord, NoOp
  <2> HIDE DEF todo
  <2>4. OpType(op') /\ spent' \in [{"op", "failure", "crash"} -> Nat]
    BY <2>2, <2>3, BeginOpType
  <2>5. Changes'
    BY <2>2 DEF Changes, SubStatus
  <2>6. PeriodRows'
    BY <2>2 DEF PeriodRows, PeriodStatus, offers
  <2>7. QED
    BY <2>1, <2>2, <2>4, <2>5, <2>6 DEF offers, RowsType, Histories, Clock
<1>3. ASSUME NEW p \in Periods, RerunPeriod(p) PROVE TypeOK'
  <2> DEFINE todo == [NoOp EXCEPT !.renew = {p}, !.reset = {p}, !.offer = offer[p]]
  <2>1. OpType(todo)
    BY DEF OpType, OpRecord, NoOp, PeriodRows
  <2>2. op' = NoOp \/ op' = Left(todo)
    BY <1>3, RerunEffect
  <2> HIDE DEF todo
  <2>3. OpType(op')
    BY <2>1, <2>2, NoOpType, LeftType
  <2>4. spent' \in [{"op", "failure", "crash"} -> Nat]
    BY <1>3, SpendType DEF RerunPeriod, BeginOp
  <2>5. RowsType' /\ revived' \subseteq Periods
    BY <1>3, RerunEffect DEF RerunPeriod, RowsType, Histories
  <2>6. QED
    BY <1>3, <2>3, <2>4, <2>5
       DEF RerunPeriod, offers, Histories, Clock, Changes, PeriodRows
<1>4. ASSUME NEW f \in Offers, ChangeOffer(f) PROVE TypeOK'
  <2> DEFINE todo == [NoOp EXCEPT !.move = Upcoming, !.offer = f]
  <2>1. OpType(todo)
    BY DEF OpType, OpRecord, NoOp, Upcoming
  <2>2. BeginOp(todo)
    BY <1>4 DEF ChangeOffer
  <2> HIDE DEF todo
  <2>3. OpType(op') /\ spent' \in [{"op", "failure", "crash"} -> Nat]
    BY <2>1, <2>2, BeginOpType
  <2>4. shown' \in [offer : Offers, late : BOOLEAN]
    BY <1>4 DEF ChangeOffer, TooLate
  <2>5. Changes'
    BY <1>4 DEF ChangeOffer, Changes
  <2>6. PeriodRows'
    BY <1>4 DEF ChangeOffer, PeriodRows
  <2>7. QED
    BY <1>4, <2>3, <2>4, <2>5, <2>6 DEF ChangeOffer, RowsType, Histories, Clock
<1>5. QED
  BY <1>1, <1>2, <1>3, <1>4 DEF Operation, Uncancel, Reactivate

LEMMA MovingType == TypeOK => Moving \subseteq Periods
BY DEF TypeOK, Moving, OrderRow

LEMMA OperationStepType ==
  ASSUME TypeOK, OperationStep \/ OpFails \/ Crash
  PROVE  TypeOK'
<1> USE TypeParts, TypeNext, SubscriptionAssumption
<1>1. ASSUME NEW o \in Orders, OpAbort(o) PROVE TypeOK'
  <2>1. OpType([op EXCEPT !.abort = @ \ {o}])
    BY RestType
  <2>2. OpType(op')
    BY <1>1, <2>1, OpAbortEffect, NoOpType, LeftType
  <2>3. RowsType' /\ escaped' \subseteq Orders
    <3>1. CASE UNCHANGED <<order, run, escaped>>
      BY <3>1 DEF RowsType, Histories
    <3>2. CASE RowMarked(o, "ABORTED", "ABORT") /\ UNCHANGED <<run, escaped>>
      BY <3>2 DEF RowsType, RowMarked, RowBecomes, Histories
    <3>3. CASE /\ RowMarked(o, "PROCESSING", "ABORT") /\ RunBecomes(o, "op", Claimed(o, "ABORT"))
               /\ escaped' = IF run[o]["cron"].pc # "idle" THEN escaped \cup {o} ELSE escaped
      BY <3>3 DEF RowsType, RowMarked, RowBecomes, RunBecomes, Histories
    <3>4. QED
      BY <1>1, <3>1, <3>2, <3>3, OpAbortEffect
  <2>4. QED
    BY <1>1, <2>2, <2>3 DEF OpAbort, offers, Histories, Clock, Changes, PeriodRows
<1>2. ASSUME NEW p \in Periods, OpCancelPeriod(p) PROVE TypeOK'
  <2>1. OpType([op EXCEPT !.cancel = @ \ {p}])
    BY RestType
  <2>2. OpType(op')
    BY <1>2, <2>1, LeftType DEF OpCancelPeriod
  <2>3. PeriodRows'
    BY <1>2 DEF OpCancelPeriod, PeriodRows, PeriodStatus, history, offers
  <2>4. QED
    BY <1>2, <2>2, <2>3 DEF OpCancelPeriod, history, offers, RowsType, Histories, Clock, Changes
<1>3. ASSUME NEW p \in Periods, OpRenew(p) PROVE TypeOK'
  <2>1. OpType([op EXCEPT !.renew = @ \ {p}])
    BY RestType
  <2>2. OpType(op')
    BY <1>3, <2>1, LeftType DEF OpRenew
  <2>3. op.offer \in Offers
    BY <1>3 DEF OpRenew, OpType
  <2>4. RowsType' /\ escaped' \subseteq Orders
    BY <1>3, <2>3, CreateEffect DEF OpRenew, RowsType, RowBecomes, Histories
  <2>5. QED
    BY <1>3, <2>2, <2>4 DEF OpRenew, offers, Histories, Clock, Changes, PeriodRows
<1>4. ASSUME NEW p \in Periods, OpReset(p) PROVE TypeOK'
  <2>1. OpType([op EXCEPT !.reset = @ \ {p}])
    BY RestType
  <2>2. OpType(op')
    BY <1>4, <2>1, LeftType DEF OpReset
  <2>3. PeriodRows'
    BY <1>4 DEF OpReset, PeriodRows, PeriodStatus, history, offers
  <2>4. QED
    BY <1>4, <2>2, <2>3 DEF OpReset, history, offers, RowsType, Histories, Clock, Changes
<1>5. ASSUME NEW p \in Periods, OpFindOrders(p) PROVE TypeOK'
  <2> DEFINE found == {o \in Renewals(p) : order[o].status = "PENDING"}
  <2>1. found \in SUBSET Orders /\ op.move # {}
    BY <1>5 DEF Renewals, OpFindOrders
  <2>2. op' = Left([op EXCEPT !.move = @ \ {p}, !.found = found])
    BY <1>5 DEF OpFindOrders
  <2>3. missed' \subseteq Periods
    BY <1>5 DEF OpFindOrders, Histories
  <2> HIDE DEF found
  <2>4. OpType(op')
    BY <2>1, <2>2, LeftType, RestType
  <2>5. QED
    BY <1>5, <2>3, <2>4 DEF OpFindOrders, RowsType, Histories, Clock, Changes, PeriodRows
<1>6. CASE OpMoveOrders
  <2>1. OpType([op EXCEPT !.found = {}])
    BY RestType
  <2>2. OpType(op')
    BY <1>6, <2>1, LeftType DEF OpMoveOrders
  <2>3. missed' \subseteq Periods
    BY <1>6, TypeRows DEF OpMoveOrders, Histories, OrderRow, OpType, OpRecord
  <2>4. RowsType'
    BY <1>6, MoveEffect DEF RowsType, OpMoveOrders
  <2>5. QED
    BY <1>6, <2>2, <2>3, <2>4 DEF OpMoveOrders, Histories, Clock, Changes, PeriodRows
<1>7. CASE OpFails
  <2>1. missed' \subseteq Periods
    BY <1>7, MovingType DEF OpFails, CutOff, Histories
  <2>2. Clock' /\ OpType(op')
    BY <1>7, SpendType, NoOpType DEF OpFails, Clock
  <2>3. QED
    BY <1>7, <2>1, <2>2 DEF OpFails, RowsType, Histories, Changes, PeriodRows
<1>8. CASE Crash
  <2>1. missed' \subseteq Periods
    BY <1>8, MovingType DEF Crash, CutOff, Histories
  <2>2. Clock' /\ OpType(op')
    BY <1>8, SpendType, NoOpType DEF Crash, Clock
  <2>3. Changes'
    BY <1>8 DEF Crash, Changes, NoChange, SubStatus
  <2>4. RowsType'
    BY <1>8, IdleInvocation DEF Crash, RowsType
  <2>5. QED
    BY <1>8, <2>1, <2>2, <2>3, <2>4 DEF Crash, Histories, PeriodRows
<1>9. QED
  BY <1>1, <1>2, <1>3, <1>4, <1>5, <1>6, <1>7, <1>8 DEF OperationStep

LEMMA NextTypeOK == TypeOK /\ [Next]_vars => TypeOK'
<1> SUFFICES ASSUME TypeOK, [Next]_vars PROVE TypeOK'
  OBVIOUS
<1>1. CASE Tick
  BY <1>1 DEF Tick, TypeOK, history, offers
<1>2. CASE UNCHANGED vars
  BY <1>2 DEF vars, TypeOK, offers
<1>3. QED
  BY <1>1, <1>2, InvocationType, CronType, OperationType, OperationStepType DEF Next

(* Every state of every behaviour has the right types: periods, orders, the *)
(* local variables of invocations and what an operation has still to do     *)
(* stay what the code takes them for, whatever crashes, fails or overlaps.  *)
THEOREM SubscriptionTypeCorrect == Spec => []TypeOK
<1>1. QED
  BY InitTypeOK, NextTypeOK, PTL DEF Spec
-----------------------------------------------------------------------------
(* Fit: the rows, the local variables and what an operation has still to do *)

(* Nothing that PeriodsFit and OpFits say of a row changes *)
RowsKept ==
  \A o \in Orders : order'[o].period = order[o].period /\ (Used(o)' <=> Used(o))

PeriodsKept ==
  /\ \A p \in Periods : Exists(p)' <=> Exists(p)
  /\ period'[0] # "CANCELLED"

LEMMA PeriodsStayFit ==
  ASSUME TypeOK, PeriodsFit, RowsKept, PeriodsKept, now' \in Int, now <= now',
         renewing' \subseteq renewing, revived \subseteq revived'
  PROVE  PeriodsFit'
<1>1. 0 \in Periods /\ now \in Int /\ \A p \in Periods : p \in Int
  BY SubscriptionAssumption DEF Periods, TypeOK, EndOfTime, EndsAt
<1>2. Exists(0)' /\ period'[0] # "CANCELLED"
  BY <1>1 DEF PeriodsFit, PeriodsKept
<1>3. \A p \in Periods : Future(p)' => Future(p)
  BY <1>1 DEF Future, StartsAt, PeriodsKept
<1>4. \A p \in Periods, f \in Offers : <<p, f>> \in renewing' => p # 0 /\ Exists(p)'
  BY DEF PeriodsFit, PeriodsKept
<1>5. ASSUME NEW p \in Periods, OneOrder(p) PROVE OneOrder(p)'
  BY <1>5 DEF OneOrder, RowsKept
<1>6. QED
  BY <1>2, <1>3, <1>4, <1>5 DEF PeriodsFit

LEMMA OpStaysFit ==
  ASSUME TypeOK, OpFits, RowsKept, PeriodsKept, UNCHANGED op, revived \subseteq revived',
         \A o \in Orders : run'[o]["op"].pc # "idle" => run[o]["op"].pc # "idle"
  PROVE  OpFits'
BY DEF OpFits, RowsKept, PeriodsKept, TypeOK

(* Nothing changes for order o *)
LEMMA OrderStaysFit ==
  ASSUME TypeOK, NEW o \in Orders, OrderFits(o), PeriodsKept,
         order'[o] = order[o], run'[o] = run[o], o \in op.abort => o \in op'.abort
  PROVE  OrderFits(o)'
BY DEF OrderFits, PeriodsKept, TypeOK, OrderRow, Used, Unused

LEMMA InvocationStaysFit ==
  ASSUME NEW o \in Orders, NEW c \in Callers, InvocationFits(o, c),
         run'[o][c] = run[o][c], order[o].action = "ABORT" => order'[o].action = "ABORT"
  PROVE  InvocationFits(o, c)'
BY DEF InvocationFits

(* A step of an invocation that is not its last *)
LEMMA StepStaysFit ==
  ASSUME TypeOK, Fit, NEW o \in Orders, NEW c \in Callers,
         run[o][c].pc \in {"step", "active", "failed"},
         NEW s, RowSteps(o, s), RunBecomes(o, c, run'[o][c]), run'[o][c].pc # "idle",
         InvocationFits(o, c)', PeriodsKept, UNCHANGED <<now, op, renewing, revived>>
  PROVE  Fit'
<1>1. RowsKept
  BY DEF RowsKept, RowSteps, RowBecomes, Used, Unused
<1>2. order[o].status # "CONFIRMED" /\ Used(o)
  <2>1. OrderFits(o) /\ c \in {"cron", "op"}
    BY DEF Fit, Callers
  <2>2. QED
    BY <2>1 DEF OrderFits, Used
<1>3. OrderFits(o)'
  <2>1. OrderFits(o) /\ c \in {"cron", "op"}
    BY DEF Fit, Callers
  <2>2. run'[o]["op"].pc # "idle" => run[o]["op"].pc # "idle"
    BY <2>1 DEF RunBecomes, Callers
  <2>3. Used(o)' /\ order'[o].status # "CONFIRMED"
    BY <1>2 DEF RowSteps, Used, Unused
  <2>4. order[o].period \in Periods
    BY TypeRows DEF OrderRow
  <2>5. QED
    BY <2>1, <2>2, <2>3, <2>4 DEF OrderFits, RowSteps, PeriodsKept, Used
<1>4. ASSUME NEW q \in Orders \ {o} PROVE OrderFits(q)'
  BY OrderStaysFit DEF Fit, RowSteps, RowBecomes, RunBecomes
<1>5. ASSUME NEW q \in Orders, NEW d \in Callers, q # o \/ d # c PROVE InvocationFits(q, d)'
  <2>1. run'[q][d] = run[q][d] /\ order'[q].action = order[q].action
    BY <1>5 DEF RowSteps, RowBecomes, RunBecomes
  <2>2. QED
    BY <2>1, InvocationStaysFit DEF Fit
<1>6. OpFits'
  <2>1. \A q \in Orders : run'[q]["op"].pc # "idle" => run[q]["op"].pc # "idle"
    BY DEF RunBecomes, Callers
  <2>2. QED
    BY <1>1, <2>1, OpStaysFit DEF Fit
<1>7. PeriodsFit'
  <2>1. now \in Int /\ now <= now /\ now' = now
    BY SubscriptionAssumption DEF TypeOK, EndOfTime, EndsAt
  <2>2. QED
    BY <1>1, <2>1, PeriodsStayFit DEF Fit
<1>8. QED
  BY <1>3, <1>4, <1>5, <1>6, <1>7 DEF Fit

(* A period that exists is given a status *)
LEMMA PeriodMarked ==
  ASSUME TypeOK, PeriodsFit, NEW p \in Periods, Exists(p), NEW s, s # "ABSENT",
         s = "CANCELLED" => p # 0, period' = [period EXCEPT ![p] = s]
  PROVE  PeriodsKept
<1>1. 0 \in Periods
  BY SubscriptionAssumption DEF Periods
<1>2. QED
  BY <1>1 DEF TypeOK, PeriodsFit, PeriodsKept, Exists

LEMMA PeriodsSame ==
  ASSUME PeriodsFit, UNCHANGED period
  PROVE  PeriodsKept
BY DEF PeriodsFit, PeriodsKept, Exists

LEMMA InvocationFit ==
  ASSUME TypeOK, Fit, NEW o \in Orders, NEW c \in Callers,
         \/ Delay(o, c) \/ MarkPeriodProcessing(o, c) \/ Bill(o, c)
         \/ MarkActive(o, c) \/ MarkPeriodDone(o, c)
         \/ MarkPeriodFailed(o, c) \/ MarkSuspended(o, c) \/ StepFails(o, c)
  PROVE  Fit'
<1>1. /\ InvocationFits(o, c) /\ OrderFits(o) /\ PeriodsFit /\ order[o].period \in Periods
      /\ Exists(order[o].period) /\ c \in {"cron", "op"}
  BY TypeRows DEF Fit, OrderFits, OrderRow, Callers
<1>2. CASE Delay(o, c)
  <2>1. PICK i \in {DELAY_BILLING, DELAY_TELCO} :
          At(o, c, "RUN", i) /\ RowSteps(o, i + 1) /\ RunEnds(o, c, "PENDING")
    BY <1>2, DelayEffect
  <2>2. InvocationFits(o, c)'
    BY <1>1, <2>1 DEF InvocationFits, At, RunEnds
  <2>3. PeriodsKept /\ UNCHANGED <<now, op, renewing, revived>>
    BY <1>1, <1>2, PeriodsSame DEF Delay, history
  <2>4. QED
    BY <2>1, <2>2, <2>3, StepStaysFit DEF At, RunEnds
<1>3. CASE MarkPeriodProcessing(o, c)
  <2>1. RowSteps(o, SUBSCRIPTION + 1) /\ RunGoes(o, c, "step", SUBSCRIPTION + 1)
    BY <1>3, GoOnEffect, StepNumbers DEF MarkPeriodProcessing, At
  <2>2. InvocationFits(o, c)'
    BY <1>1, <1>3, <2>1 DEF InvocationFits, MarkPeriodProcessing, At, RunGoes
  <2>3. PeriodsKept /\ UNCHANGED <<now, op, renewing, revived>>
    BY <1>1, <1>3, PeriodMarked DEF MarkPeriodProcessing, history
  <2>4. QED
    BY <1>3, <2>1, <2>2, <2>3, StepStaysFit DEF MarkPeriodProcessing, At, RunGoes
<1>4. CASE Bill(o, c)
  <2>1. RowSteps(o, BILLING + 1) /\ RunGoes(o, c, "step", BILLING + 1)
    BY <1>4, GoOnEffect, StepNumbers DEF Bill, At
  <2>2. InvocationFits(o, c)'
    BY <1>1, <1>4, <2>1 DEF InvocationFits, Bill, At, RunGoes
  <2>3. PeriodsKept /\ UNCHANGED <<now, op, renewing, revived>>
    BY <1>1, <1>4, PeriodsSame DEF Bill
  <2>4. QED
    BY <1>4, <2>1, <2>2, <2>3, StepStaysFit DEF Bill, At, RunGoes
<1>5. CASE MarkActive(o, c)
  <2>1. RowSteps(o, TELCO) /\ RunGoes(o, c, "active", run[o][c].i)
    BY <1>5, PlaceEffect, StepNumbers DEF MarkActive
  <2>2. InvocationFits(o, c)'
    BY <1>1, <1>5, <2>1 DEF InvocationFits, MarkActive, At, RunGoes
  <2>3. PeriodsKept /\ UNCHANGED <<now, op, renewing, revived>>
    BY <1>1, <1>5, PeriodsSame DEF MarkActive, history
  <2>4. QED
    BY <1>5, <2>1, <2>2, <2>3, StepStaysFit DEF MarkActive, At, RunGoes
<1>6. CASE MarkPeriodDone(o, c)
  <2>1. RowSteps(o, NoStep) /\ RunEnds(o, c, "DONE") /\ run[o][c].pc = "active"
    BY <1>6, EndEffect DEF MarkPeriodDone, MarkSuspended
  <2>2. InvocationFits(o, c)'
    BY <1>1, <2>1 DEF InvocationFits, RunEnds
  <2>3. PeriodsKept /\ UNCHANGED <<now, op, renewing, revived>>
    BY <1>1, <1>6, PeriodMarked DEF MarkPeriodDone, history
  <2>4. QED
    BY <2>1, <2>2, <2>3, StepStaysFit DEF RunEnds
<1>7. CASE MarkPeriodFailed(o, c)
  <2>1. RowSteps(o, SUBSCRIPTION) /\ RunGoes(o, c, "failed", run[o][c].i)
    BY <1>7, PlaceEffect, StepNumbers DEF MarkPeriodFailed
  <2>2. InvocationFits(o, c)'
    BY <1>1, <1>7, <2>1 DEF InvocationFits, MarkPeriodFailed, At, RunGoes, RowSteps
  <2>3. PeriodsKept /\ UNCHANGED <<now, op, renewing, revived>>
    BY <1>1, <1>7, PeriodMarked DEF MarkPeriodFailed, history
  <2>4. QED
    BY <1>7, <2>1, <2>2, <2>3, StepStaysFit DEF MarkPeriodFailed, At, RunGoes
<1>8. CASE MarkSuspended(o, c)
  <2>1. RowSteps(o, NoStep) /\ RunEnds(o, c, "ABORTED") /\ run[o][c].pc = "failed"
    BY <1>8, EndEffect DEF MarkPeriodDone, MarkSuspended
  <2>2. InvocationFits(o, c)'
    BY <1>1, <2>1 DEF InvocationFits, RunEnds
  <2>3. PeriodsKept /\ UNCHANGED <<now, op, renewing, revived>>
    BY <1>1, <1>8, PeriodsSame DEF MarkSuspended, history
  <2>4. QED
    BY <2>1, <2>2, <2>3, StepStaysFit DEF RunEnds
<1>9. CASE StepFails(o, c)
  <2>1. /\ run[o][c].pc \in {"step", "active", "failed"}
        /\ RowSteps(o, run[o][c].i)
        /\ RunEnds(o, c, "ERROR") \/ RunEnds(o, c, "ABORTED")
    BY <1>9, StepFailsEffect
  <2>2. InvocationFits(o, c)'
    BY <1>1, <2>1 DEF InvocationFits, RunEnds
  <2>3. PeriodsKept /\ UNCHANGED <<now, op, renewing, revived>>
    BY <1>1, <1>9, PeriodsSame DEF StepFails, history
  <2>4. QED
    BY <2>1, <2>2, <2>3, StepStaysFit DEF RunEnds
<1>10. QED
  BY <1>2, <1>3, <1>4, <1>5, <1>6, <1>7, <1>8, <1>9
(* Row o's status, or status and action, change; it is neither unused nor   *)
(* CONFIRMED afterwards.                                                     *)
LEMMA MarkedFits ==
  ASSUME TypeOK, NEW o \in Orders, OrderFits(o), NEW s \in OrderStatus \ {"ABSENT", "CONFIRMED"},
         NEW a, RowMarked(o, s, a), o = AddPlan => a = "RUN", PeriodsKept,
         run'[o]["op"].pc # "idle" => o \in op'.abort /\ a = "ABORT"
  PROVE  OrderFits(o)'
<1>1. order[o].period \in Periods
  BY TypeRows DEF OrderRow
<1>2. QED
  BY <1>1 DEF OrderFits, RowMarked, PeriodsKept, Used, Unused

LEMMA FinalUpdateFit ==
  ASSUME TypeOK, Fit, NEW o \in Orders, NEW c \in Callers, FinalUpdate(o, c)
  PROVE  Fit'
<1>1. /\ OrderFits(o) /\ InvocationFits(o, c) /\ OpFits /\ PeriodsFit /\ c \in {"cron", "op"}
      /\ order[o] \in OrderRow /\ Idle.pc = "idle"
  BY TypeRows, IdleInvocation DEF Fit, Callers
<1>2. /\ run[o][c].pc = "final" /\ RunBecomes(o, c, Idle)
      /\ \/ RowMarked(o, run[o][c].out, order[o].action) /\ order[o].status = "PROCESSING"
         \/ order' = order
      /\ \/ op' = op
         \/ c = "op" /\ (op' = NoOp \/ op' = Left([op EXCEPT !.abort = @ \ {o}]))
      /\ UNCHANGED <<now, period, renewing, revived>>
  BY FinalUpdateEffect DEF FinalUpdate, history
<1>3. PeriodsKept
  BY <1>1, <1>2, PeriodsSame
<1>4. run[o][c].out \in OrderStatus \ {"ABSENT", "CONFIRMED"}
  BY <1>1, <1>2 DEF InvocationFits, OrderStatus
<1>5. RowsKept
  BY <1>2, <1>4 DEF RowsKept, RowMarked, RowBecomes, Used, Unused
<1>6. /\ run'[o][c].pc = "idle"
      /\ \A q \in Orders, d \in Callers : run'[q][d] = run[q][d] \/ run'[q][d].pc = "idle"
  BY <1>1, <1>2 DEF RunBecomes
<1>7. ASSUME NEW q \in Orders, run'[q]["op"].pc # "idle"
      PROVE  q \in op'.abort /\ run[q]["op"].pc # "idle"
  <2>1. run[q]["op"].pc # "idle" /\ q \in op.abort
    BY <1>6, <1>7 DEF Fit, OrderFits, Callers
  <2>2. c = "op" => q = o
    BY <1>1, <1>2, <2>1 DEF OpFits
  <2>3. c # "op"
    BY <1>6, <1>7, <2>2
  <2>4. QED
    BY <1>2, <2>1, <2>3
<1>8. ASSUME NEW q \in Orders PROVE OrderFits(q)'
  <2>1. CASE q = o /\ RowMarked(o, run[o][c].out, order[o].action)
    BY <1>1, <1>3, <1>4, <1>7, <2>1, MarkedFits DEF OrderFits
  <2>2. CASE order'[q] = order[q]
    <3>1. OrderFits(q) /\ order[q].period \in Periods
      BY TypeRows DEF Fit, OrderRow
    <3>2. run[q]["cron"].pc = "idle" => run'[q]["cron"].pc = "idle"
      BY <1>6 DEF Callers
    <3>3. QED
      BY <1>3, <1>7, <2>2, <3>1, <3>2 DEF OrderFits, PeriodsKept, Used, Unused
  <2>3. QED
    BY <1>2, <2>1, <2>2 DEF RowMarked, RowBecomes
<1>9. ASSUME NEW q \in Orders, NEW d \in Callers PROVE InvocationFits(q, d)'
  <2>1. order'[q].action = order[q].action
    BY <1>2 DEF RowMarked, RowBecomes
  <2>2. InvocationFits(q, d)
    BY DEF Fit
  <2>3. QED
    BY <1>6, <2>1, <2>2 DEF InvocationFits
<1>10. OpFits'
  <2>1. CASE op' = op
    BY <1>1, <1>2, <1>3, <1>5, <1>7, <2>1, OpStaysFit
  <2>2. CASE op' = NoOp
    BY <1>1, <1>7, <2>2 DEF OpFits, NoOp
  <2>3. CASE op' = Left([op EXCEPT !.abort = @ \ {o}])
    <3> DEFINE todo == [op EXCEPT !.abort = @ \ {o}]
    <3>1. OpType(op)
      BY TypeParts
    <3>2. /\ todo.abort = op.abort \ {o} /\ todo.cancel = op.cancel /\ todo.renew = op.renew
          /\ todo.reset = op.reset /\ todo.move = op.move /\ todo.found = op.found
      BY <3>1 DEF OpType, OpRecord
    <3> HIDE DEF todo
    <3>3. /\ op'.abort = op.abort \ {o} /\ op'.cancel = op.cancel /\ op'.renew = op.renew
          /\ op'.reset = op.reset /\ op'.move = op.move /\ op'.found = op.found
      <4>1. op' = Left(todo)
        BY <2>3 DEF todo
      <4>2. QED
        BY <3>2, <4>1, LeftKeeps
    <3>4. op.abort \subseteq Orders /\ op.found \subseteq Orders /\ op.cancel \subseteq Periods
          /\ op.renew \subseteq Periods /\ op.reset \subseteq Periods /\ op.move \subseteq Periods
      BY DEF TypeOK
    <3>5. QED
      BY <1>1, <1>2, <1>3, <1>5, <1>7, <3>3, <3>4 DEF OpFits, RowsKept, PeriodsKept
  <2>4. QED
    BY <1>2, <2>1, <2>2, <2>3
<1>11. PeriodsFit'
  <2>1. now \in Int /\ now <= now /\ now' = now
    BY <1>2, SubscriptionAssumption DEF TypeOK, EndOfTime, EndsAt
  <2>2. QED
    BY <1>1, <1>2, <1>3, <1>5, <2>1, PeriodsStayFit
<1>12. QED
  BY <1>8, <1>9, <1>10, <1>11 DEF Fit

(* A new row: the order of a period that has none, or has been revived *)
LEMMA CreateFit ==
  ASSUME TypeOK, Fit, NEW p \in Periods, NEW f \in Offers, CreateRenewPlan(p, f),
         Exists(p), UNCHANGED <<now, period, run, revived>>,
         \/ p \in revived /\ UNCHANGED renewing
         \/ <<p, f>> \in renewing /\ renewing' = renewing \ {<<p, f>>},
         op'.abort = op.abort /\ op'.cancel = op.cancel, op'.move = op.move, op'.found = op.found,
         op'.renew \subseteq op.renew, op'.reset \subseteq op.reset
  PROVE  Fit'
<1>1. PICK o \in Orders :
        /\ Unused(o)
        /\ RowBecomes(o, order'[o])
        /\ order'[o].period = p /\ order'[o].status = "CONFIRMED"
        /\ order'[o].action = order[o].action /\ order'[o].step = order[o].step
  BY CreateEffect
<1>2. OrderFits(o) /\ OpFits /\ PeriodsFit /\ PeriodsKept
  BY PeriodsSame DEF Fit
<1>3. OrderFits(o)'
  <2>1. o # AddPlan /\ run[o]["op"].pc = "idle" /\ run' = run
    BY <1>1, <1>2 DEF OrderFits, Used
  <2>2. QED
    BY <1>1, <1>2, <2>1 DEF OrderFits, Exists
<1>4. ASSUME NEW q \in Orders \ {o} PROVE OrderFits(q)'
  BY <1>1, <1>2, OrderStaysFit DEF Fit, RowBecomes
<1>5. ASSUME NEW q \in Orders, NEW d \in Callers PROVE InvocationFits(q, d)'
  <2>1. order'[q].action = order[q].action
    BY <1>1 DEF RowBecomes
  <2>2. QED
    BY <2>1, InvocationStaysFit DEF Fit
<1>6. \A q \in Orders : Used(q) => q # o /\ order'[q] = order[q]
  BY <1>1 DEF RowBecomes, Used
<1>7. OpFits'
  <2>1. op.abort \subseteq Orders /\ op.found \subseteq Orders /\ op.cancel \subseteq Periods
        /\ op.renew \subseteq Periods /\ op.reset \subseteq Periods /\ op.move \subseteq Periods
    BY DEF TypeOK
  <2>2. QED
    BY <1>2, <1>6, <2>1 DEF OpFits, PeriodsKept, Used, Unused
<1>8. PeriodsFit'
  <2>1. ASSUME NEW r \in Periods, r \notin revived PROVE OneOrder(r)'
    <3>1. OneOrder(r)
      BY <1>2, <2>1 DEF PeriodsFit
    <3>2. \A q \in Orders : Used(q)' => q = o \/ (Used(q) /\ order'[q] = order[q])
      BY <1>1 DEF RowBecomes, Used, Unused
    <3>3. CASE r # p
      <4>1. \A g \in Offers : <<r, g>> \in renewing' => <<r, g>> \in renewing
        OBVIOUS
      <4>2. QED
        BY <1>1, <3>1, <3>2, <3>3, <4>1 DEF OneOrder
    <3>4. CASE r = p
      <4>1. <<p, f>> \in renewing /\ renewing' = renewing \ {<<p, f>>}
        BY <2>1, <3>4
      <4>2. \A g \in Offers : <<p, g>> \notin renewing'
        BY <3>1, <3>4, <4>1 DEF OneOrder
      <4>3. \A q \in Orders : Used(q)' /\ order'[q].period = p => q = o
        BY <3>1, <3>2, <3>4, <4>1 DEF OneOrder
      <4>4. QED
        BY <3>4, <4>2, <4>3 DEF OneOrder
    <3>5. QED
      BY <3>3, <3>4
  <2>2. \A r, q \in Periods : Future(r)' /\ Future(q)' => r = q
    BY <1>2 DEF PeriodsFit, Future, Exists
  <2>3. QED
    BY <1>2, <2>1, <2>2 DEF PeriodsFit, PeriodsKept, Exists
<1>9. QED
  BY <1>3, <1>4, <1>5, <1>7, <1>8 DEF Fit

LEMMA CronFit ==
  ASSUME TypeOK, Fit,
         \/ \E o \in Orders : ProcessConfirmed(o) \/ ProcessPending(o)
         \/ Renewing \/ Changing \/ Tick
  PROVE  Fit'
<1>0. OpFits /\ PeriodsFit /\ now \in Int /\ now <= now
  BY SubscriptionAssumption DEF Fit, TypeOK, EndOfTime, EndsAt
<1>1. ASSUME NEW o \in Orders, ProcessConfirmed(o) PROVE Fit'
  <2>1. /\ RowMarked(o, "PENDING", order[o].action) /\ order[o].status = "CONFIRMED"
        /\ UNCHANGED <<now, period, run, op, renewing, revived>>
    BY <1>1, ProcessConfirmedEffect DEF ProcessConfirmed, history
  <2>2. PeriodsKept /\ RowsKept
    BY <1>0, <2>1, PeriodsSame DEF RowsKept, RowMarked, RowBecomes, Used, Unused
  <2>3. OrderFits(o)'
    <3>1. OrderFits(o) /\ "PENDING" \in OrderStatus \ {"ABSENT", "CONFIRMED"}
      BY DEF Fit, OrderStatus
    <3>2. QED
      BY <2>1, <2>2, <3>1, MarkedFits DEF OrderFits
  <2>4. \A q \in Orders \ {o} : OrderFits(q)'
    BY <2>1, <2>2, OrderStaysFit DEF Fit, RowMarked, RowBecomes
  <2>5. ASSUME NEW q \in Orders, NEW d \in Callers PROVE InvocationFits(q, d)'
    BY <2>1, InvocationStaysFit DEF Fit, RowMarked, RowBecomes
  <2>6. OpFits' /\ PeriodsFit'
    BY <1>0, <2>1, <2>2, OpStaysFit, PeriodsStayFit
  <2>7. QED
    BY <2>3, <2>4, <2>5, <2>6 DEF Fit
<1>2. ASSUME NEW o \in Orders, ProcessPending(o) PROVE Fit'
  <2>1. /\ RowMarked(o, "PROCESSING", order[o].action)
        /\ order[o].status \in {"PENDING", "ERROR"}
        /\ RunBecomes(o, "cron", run'[o]["cron"])
        /\ run'[o]["cron"] = Claimed(o, order[o].action)
        /\ UNCHANGED <<now, period, op, renewing, revived>>
    BY <1>2, ProcessPendingEffect DEF ProcessPending, history
  <2>2. PeriodsKept /\ RowsKept
    BY <1>0, <2>1, PeriodsSame DEF RowsKept, RowMarked, RowBecomes, Used, Unused
  <2>3. \A q \in Orders : run'[q]["op"] = run[q]["op"]
    BY <2>1 DEF RunBecomes, Callers
  <2>4. OrderFits(o)'
    <3>1. OrderFits(o) /\ "PROCESSING" \in OrderStatus \ {"ABSENT", "CONFIRMED"}
      BY DEF Fit, OrderStatus
    <3>2. QED
      BY <2>1, <2>2, <2>3, <3>1, MarkedFits DEF OrderFits
  <2>5. \A q \in Orders \ {o} : OrderFits(q)'
    BY <2>1, <2>2, OrderStaysFit DEF Fit, RowMarked, RowBecomes, RunBecomes
  <2>6. InvocationFits(o, "cron")'
    <3>1. order[o].action \in {"RUN", "ABORT"} /\ RowsType
      BY TypeRows DEF OrderRow
    <3>2. LET r == Claimed(o, order[o].action) IN
          /\ r.action = order[o].action /\ r.out = "ABORTED" /\ r.pc \in {"step", "final"}
          /\ order[o].action = "RUN" => r.pc = "step"
          /\ order[o].action = "ABORT" /\ r.pc = "step" => r.i = SUBSCRIPTION
      BY <3>1, ClaimedFits
    <3>3. QED
      BY <2>1, <3>1, <3>2 DEF InvocationFits, RowMarked
  <2>7. ASSUME NEW q \in Orders, NEW d \in Callers, q # o \/ d # "cron" PROVE InvocationFits(q, d)'
    <3>1. run'[q][d] = run[q][d] /\ order'[q].action = order[q].action
      BY <2>1, <2>7 DEF RowMarked, RowBecomes, RunBecomes
    <3>2. QED
      BY <3>1, InvocationStaysFit DEF Fit
  <2>8. OpFits' /\ PeriodsFit'
    BY <1>0, <2>1, <2>2, <2>3, OpStaysFit, PeriodsStayFit
  <2>9. QED
    BY <2>4, <2>5, <2>6, <2>7, <2>8 DEF Fit
<1>3. ASSUME NEW p \in Periods \ {0}, RenewPeriod(p) PROVE Fit'
  <2>1. /\ ~Exists(p) /\ \A q \in Periods : ~Future(q)
        /\ period' = [period EXCEPT ![p] = "PENDING"]
        /\ renewing' = renewing \cup {<<p, sub.offer>>}
        /\ UNCHANGED <<now, order, run, op, revived>>
    BY <1>3 DEF RenewPeriod
  <2>2. /\ period' \in [Periods -> PeriodStatus] /\ Exists(p)'
        /\ \A q \in Periods \ {p} : period'[q] = period[q]
    BY <2>1 DEF TypeOK, Exists, PeriodStatus
  <2>3. \A q \in Periods : Exists(q) => Exists(q)'
    BY <2>2 DEF Exists
  <2>4. ASSUME NEW q \in Orders PROVE OrderFits(q)'
    <3>1. OrderFits(q) /\ order[q].period \in Periods
      BY TypeRows DEF Fit, OrderRow
    <3>2. QED
      BY <2>1, <2>3, <3>1 DEF OrderFits, Used, Unused
  <2>5. ASSUME NEW q \in Orders, NEW d \in Callers PROVE InvocationFits(q, d)'
    BY <2>1, InvocationStaysFit DEF Fit
  <2>6. OpFits'
    BY <1>0, <2>1, <2>3 DEF OpFits, TypeOK, Used, Unused
  <2>7. PeriodsFit'
    <3>1. 0 \in Periods
      BY SubscriptionAssumption DEF Periods
    <3>2. \A q \in Periods : Future(q)' => q = p
      BY <2>1, <2>2 DEF Future, Exists
    <3>3. \A q \in Periods, f \in Offers : <<q, f>> \in renewing' => q # 0 /\ Exists(q)'
      BY <1>0, <2>1, <2>2, <2>3 DEF PeriodsFit
    <3>4. ASSUME NEW q \in Periods, q \notin revived PROVE OneOrder(q)'
      <4>1. OneOrder(q)
        BY <1>0, <3>4 DEF PeriodsFit
      <4>2. CASE q # p
        <5>1. \A g \in Offers : <<q, g>> \in renewing' => <<q, g>> \in renewing
          BY <2>1, <4>2
        <5>2. QED
          BY <2>1, <4>1, <5>1 DEF OneOrder, Used, Unused
      <4>3. CASE q = p
        <5>1. \A g \in Offers : <<p, g>> \in renewing' => g = sub.offer
          BY <1>0, <2>1 DEF PeriodsFit
        <5>2. \A o \in Orders : order[o].period # p
          BY <2>1 DEF Fit, OrderFits
        <5>3. QED
          BY <2>1, <4>3, <5>1, <5>2 DEF OneOrder
      <4>4. QED
        BY <4>2, <4>3
    <3>5. QED
      BY <1>0, <2>1, <2>2, <2>3, <3>1, <3>2, <3>3, <3>4 DEF PeriodsFit
  <2>8. QED
    BY <2>4, <2>5, <2>6, <2>7 DEF Fit
<1>4. ASSUME NEW p \in Periods, RenewOrder(p) PROVE Fit'
  <2>1. PICK f \in Offers :
          /\ <<p, f>> \in renewing /\ renewing' = renewing \ {<<p, f>>}
          /\ CreateRenewPlan(p, f)
          /\ UNCHANGED <<now, period, run, op, revived>>
    BY <1>4 DEF RenewOrder
  <2>2. Exists(p)
    BY <1>0, <2>1 DEF PeriodsFit
  <2>3. QED
    BY <2>1, <2>2, CreateFit
<1>5. CASE Changing \/ Tick
  <2>1. /\ UNCHANGED <<period, order, run, op, renewing, revived>>
        /\ now' \in Int /\ now <= now'
    BY <1>0, <1>5 DEF Changing, ReadExpired, ChangePeriod, Expire, Tick, history
  <2>2. PeriodsKept /\ RowsKept
    BY <1>0, <2>1, PeriodsSame DEF RowsKept, Used, Unused
  <2>3. OpFits' /\ PeriodsFit'
    BY <1>0, <2>1, <2>2, OpStaysFit, PeriodsStayFit
  <2>4. \A q \in Orders : OrderFits(q)'
    BY <2>1, <2>2, OrderStaysFit DEF Fit
  <2>5. \A q \in Orders, d \in Callers : InvocationFits(q, d)'
    BY <2>1, InvocationStaysFit DEF Fit
  <2>6. QED
    BY <2>3, <2>4, <2>5 DEF Fit
<1>6. QED
  BY <1>1, <1>2, <1>3, <1>4, <1>5 DEF Renewing
(* No operation is under way: no abort is either *)
LEMMA NoOpRests ==
  ASSUME Fit, op = NoOp
  PROVE  \A o \in Orders : run[o]["op"].pc = "idle"
BY DEF Fit, OrderFits, NoOp

(* An operation begins, or ends: the rows it knows of stay the same *)
LEMMA OrdersStayFit ==
  ASSUME TypeOK, Fit, UNCHANGED <<order, run>>, PeriodsKept,
         \A o \in Orders : run[o]["op"].pc # "idle" => o \in op'.abort
  PROVE  (\A o \in Orders : OrderFits(o)') /\ \A o \in Orders, c \in Callers : InvocationFits(o, c)'
<1>1. ASSUME NEW o \in Orders PROVE OrderFits(o)'
  <2>1. OrderFits(o) /\ order[o].period \in Periods
    BY TypeRows DEF Fit, OrderRow
  <2>2. QED
    BY <2>1 DEF OrderFits, PeriodsKept, Used, Unused
<1>2. QED
  BY <1>1, InvocationStaysFit DEF Fit

LEMMA SamePeriodsFit ==
  ASSUME TypeOK, Fit, RowsKept, PeriodsKept, UNCHANGED <<now, renewing>>, revived \subseteq revived'
  PROVE  PeriodsFit'
<1>1. now \in Int /\ now <= now
  BY SubscriptionAssumption DEF TypeOK, EndOfTime, EndsAt
<1>2. QED
  BY <1>1, PeriodsStayFit DEF Fit

LEMMA OperationFit ==
  ASSUME TypeOK, Fit, Operation
  PROVE  Fit'
<1>0. OpFits /\ PeriodsFit /\ now \in Int /\ now >= 0
  BY SubscriptionAssumption DEF Fit, TypeOK, EndOfTime, EndsAt
<1>1. CASE Cancel \/ Suspend \/ Deactivate
  <2>1. /\ op = NoOp /\ op' = Left(StopFuture)
        /\ UNCHANGED <<now, period, order, run, renewing, revived>>
    BY <1>1 DEF Cancel, Suspend, Deactivate, BeginOp, history
  <2>2. /\ op'.abort = LiveOrders(Upcoming) /\ op'.cancel = Upcoming
        /\ op'.renew = {} /\ op'.reset = {} /\ op'.move = {} /\ op'.found = {}
    BY <2>1, LeftKeeps DEF StopFuture, NoOp
  <2>3. \A o \in Orders : run[o]["op"].pc = "idle"
    BY <2>1, NoOpRests
  <2>4. PeriodsKept /\ RowsKept
    BY <1>0, <2>1, PeriodsSame DEF RowsKept, Used, Unused
  <2>5. \A o \in LiveOrders(Upcoming) :
          o \in Orders /\ o # AddPlan /\ Used(o) /\ order[o].period \in Upcoming
    BY DEF LiveOrders, Used
  <2>6. \A p \in Upcoming : p \in Periods /\ p # 0 /\ Exists(p) /\ Future(p)
    BY <1>0 DEF Upcoming, Future, StartsAt
  <2>7. OpFits'
    <3>1. \A p, q \in Upcoming : p = q
      BY <1>0, <2>6 DEF PeriodsFit
    <3>2. QED
      BY <2>1, <2>2, <2>3, <2>5, <2>6, <3>1 DEF OpFits, Exists, Used, Unused
  <2>8. QED
    BY <2>1, <2>3, <2>4, <2>7, OrdersStayFit, SamePeriodsFit DEF Fit
<1>2. ASSUME NEW stati, Revive(stati) PROVE Fit'
  <2> DEFINE again == {p \in Periods : Future(p) /\ period[p] = "CANCELLED"}
             pending == again \cup {p \in Periods : period[p] = "PENDING"}
             todo == [NoOp EXCEPT !.renew = pending, !.offer = sub.offer]
  <2>1. /\ op = NoOp /\ op' = Left(todo) /\ revived' = revived \cup pending
        /\ period' = [p \in Periods |-> IF p \in again THEN "PENDING" ELSE period[p]]
        /\ UNCHANGED <<now, order, run, renewing>>
    BY <1>2 DEF Revive, BeginOp
  <2>2. \A p \in pending : p \in Periods /\ Exists(p)
    BY DEF Exists
  <2>3. \A p \in again : Exists(p)
    BY DEF Exists
  <2> HIDE DEF again, pending
  <2>4. /\ op'.renew = pending
        /\ op'.abort = {} /\ op'.cancel = {} /\ op'.reset = {} /\ op'.move = {} /\ op'.found = {}
    <3>1. /\ todo.renew = pending
          /\ todo.abort = {} /\ todo.cancel = {} /\ todo.reset = {} /\ todo.move = {}
          /\ todo.found = {}
      BY DEF NoOp
    <3> HIDE DEF todo
    <3>2. QED
      BY <2>1, <3>1, LeftKeeps
  <2>5. \A o \in Orders : run[o]["op"].pc = "idle"
    BY <2>1, NoOpRests
  <2>6. PeriodsKept
    <3>1. 0 \in Periods
      BY SubscriptionAssumption DEF Periods
    <3>2. QED
      BY <1>0, <2>1, <2>3, <3>1 DEF PeriodsKept, Exists, PeriodsFit
  <2>7. RowsKept
    BY <2>1 DEF RowsKept, Used, Unused
  <2>8. OpFits'
    BY <2>1, <2>2, <2>4, <2>5, <2>6 DEF OpFits, PeriodsKept
  <2>9. QED
    BY <2>1, <2>5, <2>6, <2>7, <2>8, OrdersStayFit, SamePeriodsFit DEF Fit
<1>3. ASSUME NEW p \in Periods, RerunPeriod(p) PROVE Fit'
  <2> DEFINE todo == [NoOp EXCEPT !.renew = {p}, !.reset = {p}, !.offer = offer[p]]
  <2>1. /\ op = NoOp /\ (op' = NoOp \/ op' = Left(todo)) /\ Exists(p)
        /\ revived' = revived \cup {p}
        /\ UNCHANGED <<now, period, run, renewing>>
    BY <1>3, RerunEffect DEF RerunPeriod
  <2>2. \A o \in Orders :
          \/ order'[o] = order[o]
          \/ /\ o # AddPlan /\ Used(o) /\ order[o].period = p
             /\ order'[o].period = p /\ order'[o].action = order[o].action
             /\ order'[o].status = "PENDING"
    BY <1>3, RerunEffect
  <2>3. /\ op'.renew \subseteq {p} /\ op'.reset \subseteq {p}
        /\ op'.abort = {} /\ op'.cancel = {} /\ op'.move = {} /\ op'.found = {}
    <3>1. /\ todo.renew = {p} /\ todo.reset = {p}
          /\ todo.abort = {} /\ todo.cancel = {} /\ todo.move = {} /\ todo.found = {}
      BY DEF NoOp
    <3> HIDE DEF todo
    <3>2. QED
      BY <2>1, <3>1, LeftKeeps DEF NoOp
  <2> HIDE DEF todo
  <2>4. \A o \in Orders : run[o]["op"].pc = "idle"
    BY <2>1, NoOpRests
  <2>5. PeriodsKept /\ RowsKept
    BY <1>0, <2>1, <2>2, PeriodsSame DEF RowsKept, Used, Unused
  <2>6. ASSUME NEW o \in Orders PROVE OrderFits(o)'
    <3>1. OrderFits(o) /\ order[o].period \in Periods
      BY TypeRows DEF Fit, OrderRow
    <3>2. QED
      BY <2>1, <2>2, <2>4, <2>5, <3>1 DEF OrderFits, PeriodsKept, Used, Unused
  <2>7. \A o \in Orders, c \in Callers : InvocationFits(o, c)'
    BY <2>1, <2>2, InvocationStaysFit DEF Fit
  <2>8. OpFits'
    BY <2>1, <2>3, <2>4 DEF OpFits, Exists
  <2>9. QED
    BY <2>1, <2>5, <2>6, <2>7, <2>8, SamePeriodsFit DEF Fit
<1>4. ASSUME NEW f \in Offers, ChangeOffer(f) PROVE Fit'
  <2> DEFINE todo == [NoOp EXCEPT !.move = Upcoming, !.offer = f]
  <2>1. /\ op = NoOp /\ op' = Left(todo)
        /\ UNCHANGED <<now, period, order, run, renewing, revived>>
    BY <1>4 DEF ChangeOffer, BeginOp
  <2>2. /\ op'.move = Upcoming
        /\ op'.renew = {} /\ op'.reset = {} /\ op'.abort = {} /\ op'.cancel = {} /\ op'.found = {}
    <3>1. /\ todo.move = Upcoming /\ todo.renew = {} /\ todo.reset = {}
          /\ todo.abort = {} /\ todo.cancel = {} /\ todo.found = {}
      BY DEF NoOp
    <3> HIDE DEF todo
    <3>2. QED
      BY <2>1, <3>1, LeftKeeps
  <2> HIDE DEF todo
  <2>3. \A o \in Orders : run[o]["op"].pc = "idle"
    BY <2>1, NoOpRests
  <2>4. PeriodsKept /\ RowsKept
    BY <1>0, <2>1, PeriodsSame DEF RowsKept, Used, Unused
  <2>5. \A p \in Upcoming : p \in Periods /\ p # 0 /\ Exists(p)
    BY <1>0 DEF Upcoming, Future, StartsAt
  <2>6. OpFits'
    BY <2>1, <2>2, <2>3, <2>5 DEF OpFits, Exists
  <2>7. QED
    BY <2>1, <2>3, <2>4, <2>6, OrdersStayFit, SamePeriodsFit DEF Fit
<1>5. QED
  BY <1>1, <1>2, <1>3, <1>4 DEF Operation, Uncancel, Reactivate

(* What is left of an operation after one more part of it *)
LEMMA AbortDone ==
  ASSUME TypeOK, NEW o, op' = Left([op EXCEPT !.abort = @ \ {o}])
  PROVE  /\ op'.abort = op.abort \ {o} /\ op'.cancel = op.cancel /\ op'.renew = op.renew
         /\ op'.reset = op.reset /\ op'.move = op.move /\ op'.found = op.found
<1>1. op \in OpRecord
  BY DEF TypeOK, OpRecord
<1>2. QED
  BY <1>1, LeftKeeps DEF OpRecord

LEMMA CancelDone ==
  ASSUME TypeOK, NEW p, op' = Left([op EXCEPT !.cancel = @ \ {p}])
  PROVE  /\ op'.abort = op.abort /\ op'.cancel = op.cancel \ {p} /\ op'.renew = op.renew
         /\ op'.reset = op.reset /\ op'.move = op.move /\ op'.found = op.found
<1>1. op \in OpRecord
  BY DEF TypeOK, OpRecord
<1>2. QED
  BY <1>1, LeftKeeps DEF OpRecord

LEMMA RenewDone ==
  ASSUME TypeOK, NEW p, op' = Left([op EXCEPT !.renew = @ \ {p}])
  PROVE  /\ op'.abort = op.abort /\ op'.cancel = op.cancel /\ op'.renew = op.renew \ {p}
         /\ op'.reset = op.reset /\ op'.move = op.move /\ op'.found = op.found
<1>1. op \in OpRecord
  BY DEF TypeOK, OpRecord
<1>2. QED
  BY <1>1, LeftKeeps DEF OpRecord

LEMMA ResetDone ==
  ASSUME TypeOK, NEW p, op' = Left([op EXCEPT !.reset = @ \ {p}])
  PROVE  /\ op'.abort = op.abort /\ op'.cancel = op.cancel /\ op'.renew = op.renew
         /\ op'.reset = op.reset \ {p} /\ op'.move = op.move /\ op'.found = op.found
<1>1. op \in OpRecord
  BY DEF TypeOK, OpRecord
<1>2. QED
  BY <1>1, LeftKeeps DEF OpRecord

LEMMA FindDone ==
  ASSUME TypeOK, NEW p, NEW found, op' = Left([op EXCEPT !.move = @ \ {p}, !.found = found])
  PROVE  /\ op'.abort = op.abort /\ op'.cancel = op.cancel /\ op'.renew = op.renew
         /\ op'.reset = op.reset /\ op'.move = op.move \ {p} /\ op'.found = found
<1>1. op \in OpRecord
  BY DEF TypeOK, OpRecord
<1>2. QED
  BY <1>1, LeftKeeps DEF OpRecord

LEMMA MoveDone ==
  ASSUME TypeOK, op' = Left([op EXCEPT !.found = {}])
  PROVE  /\ op'.abort = op.abort /\ op'.cancel = op.cancel /\ op'.renew = op.renew
         /\ op'.reset = op.reset /\ op'.move = op.move /\ op'.found = {}
<1>1. op \in OpRecord
  BY DEF TypeOK, OpRecord
<1>2. QED
  BY <1>1, LeftKeeps DEF OpRecord

LEMMA OperationStepFit ==
  ASSUME TypeOK, Fit, OperationStep \/ OpFails \/ Crash
  PROVE  Fit'
<1>0. OpFits /\ PeriodsFit
  BY DEF Fit
<1>a. op.abort \subseteq Orders /\ op.found \subseteq Orders /\ op.cancel \subseteq Periods
      /\ op.renew \subseteq Periods /\ op.reset \subseteq Periods /\ op.move \subseteq Periods
  BY DEF TypeOK
<1>1. ASSUME NEW o \in Orders, OpAbort(o) PROVE Fit'
  <2>0. /\ o \in op.abort /\ \A q \in Orders : run[q]["op"].pc = "idle"
        /\ UNCHANGED <<now, period, renewing, revived>>
        /\ o # AddPlan /\ Used(o) /\ order[o].period \in op.cancel
    BY <1>0, <1>1 DEF OpAbort, NothingAwaited, OpFits
  <2>1. CASE op' = NoOp /\ UNCHANGED <<order, run, escaped>>
    <3>1. PeriodsKept /\ RowsKept
      BY <1>0, <2>0, <2>1, PeriodsSame DEF RowsKept, Used, Unused
    <3>2. OpFits'
      BY <2>0, <2>1 DEF OpFits, NoOp
    <3>3. QED
      BY <2>0, <2>1, <3>1, <3>2, OrdersStayFit, SamePeriodsFit DEF Fit
  <2>2. CASE /\ order[o].status = "CONFIRMED"
             /\ RowMarked(o, "ABORTED", "ABORT")
             /\ op' = Left([op EXCEPT !.abort = @ \ {o}])
             /\ UNCHANGED <<run, escaped>>
    <3>1. PeriodsKept /\ RowsKept
      BY <1>0, <2>0, <2>2, PeriodsSame DEF RowsKept, RowMarked, RowBecomes, Used, Unused
    <3>2. /\ op'.abort = op.abort \ {o} /\ op'.cancel = op.cancel /\ op'.renew = op.renew
          /\ op'.reset = op.reset /\ op'.move = op.move /\ op'.found = op.found
      BY <2>2, AbortDone
    <3>3. OpFits'
      BY <1>0, <1>a, <2>0, <2>2, <3>1, <3>2 DEF OpFits, RowsKept, PeriodsKept
    <3>4. OrderFits(o)'
      <4>1. "ABORTED" \in OrderStatus \ {"ABSENT", "CONFIRMED"} /\ OrderFits(o)
        BY DEF OrderStatus, Fit
      <4>2. QED
        BY <2>0, <2>2, <3>1, <4>1, MarkedFits
    <3>5. ASSUME NEW q \in Orders \ {o} PROVE OrderFits(q)'
      <4>1. q \in op.abort => q \in op'.abort
        BY <3>2, <3>5
      <4>2. QED
        BY <2>2, <3>1, <4>1, OrderStaysFit DEF Fit, RowMarked, RowBecomes
    <3>6. ASSUME NEW q \in Orders, NEW d \in Callers PROVE InvocationFits(q, d)'
      BY <2>2, InvocationStaysFit DEF Fit, RowMarked, RowBecomes
    <3>7. QED
      BY <2>0, <3>1, <3>3, <3>4, <3>5, <3>6, SamePeriodsFit DEF Fit
  <2>3. CASE /\ RowMarked(o, "PROCESSING", "ABORT")
             /\ RunBecomes(o, "op", Claimed(o, "ABORT"))
             /\ op' = op
    <3>1. PeriodsKept /\ RowsKept
      BY <1>0, <2>0, <2>3, PeriodsSame DEF RowsKept, RowMarked, RowBecomes, Used, Unused
    <3>2. OpFits'
      <4>1. \A q \in Orders : run'[q]["op"].pc # "idle" => q = o
        BY <2>0, <2>3 DEF RunBecomes
      <4>2. QED
        BY <1>0, <1>a, <2>0, <2>3, <3>1, <4>1 DEF OpFits, RowsKept, PeriodsKept
    <3>3. OrderFits(o)'
      <4>1. "PROCESSING" \in OrderStatus \ {"ABSENT", "CONFIRMED"} /\ OrderFits(o)
        BY DEF OrderStatus, Fit
      <4>2. QED
        BY <2>0, <2>3, <3>1, <4>1, MarkedFits
    <3>4. ASSUME NEW q \in Orders \ {o} PROVE OrderFits(q)'
      BY <2>3, <3>1, OrderStaysFit DEF Fit, RowMarked, RowBecomes, RunBecomes
    <3>5. InvocationFits(o, "op")'
      <4>1. LET r == Claimed(o, "ABORT") IN
            /\ r.action = "ABORT" /\ r.out = "ABORTED" /\ r.pc \in {"step", "final"}
            /\ r.pc = "step" => r.i = SUBSCRIPTION
        BY TypeRows, ClaimedFits
      <4>2. run'[o]["op"] = Claimed(o, "ABORT") /\ order'[o].action = "ABORT"
        BY <2>3 DEF RunBecomes, RowMarked
      <4>3. QED
        BY <4>1, <4>2 DEF InvocationFits
    <3>6. ASSUME NEW q \in Orders, NEW d \in Callers, q # o \/ d # "op" PROVE InvocationFits(q, d)'
      <4>1. run'[q][d] = run[q][d] /\ (order'[q].action = order[q].action \/ order'[q].action = "ABORT")
        BY <2>3, <3>6 DEF RowMarked, RowBecomes, RunBecomes
      <4>2. QED
        BY <4>1, InvocationStaysFit DEF Fit
    <3>7. QED
      BY <2>0, <3>1, <3>2, <3>3, <3>4, <3>5, <3>6, SamePeriodsFit DEF Fit
  <2>4. QED
    BY <1>1, <2>1, <2>2, <2>3, OpAbortEffect
<1>2. ASSUME NEW p \in Periods, OpCancelPeriod(p) \/ OpReset(p) PROVE Fit'
  <2>1. /\ UNCHANGED <<now, order, run, renewing, revived>> /\ p \in op.cancel \cup op.reset
        /\ \/ p \in op.cancel /\ period' = [period EXCEPT ![p] = "CANCELLED"]
           \/ period' = [period EXCEPT ![p] = "PENDING"]
        /\ \/ op' = Left([op EXCEPT !.cancel = @ \ {p}])
           \/ op' = Left([op EXCEPT !.reset = @ \ {p}])
    BY <1>2 DEF OpCancelPeriod, OpReset, history
  <2>2. /\ op'.abort = op.abort /\ op'.cancel \subseteq op.cancel /\ op'.renew = op.renew
        /\ op'.reset \subseteq op.reset /\ op'.move = op.move /\ op'.found = op.found
        /\ op'.cancel = op.cancel \/ OpCancelPeriod(p)
    <3>1. OpCancelPeriod(p) => op' = Left([op EXCEPT !.cancel = @ \ {p}])
      BY DEF OpCancelPeriod
    <3>2. OpReset(p) => op' = Left([op EXCEPT !.reset = @ \ {p}])
      BY DEF OpReset
    <3>3. QED
      BY <1>2, <3>1, <3>2, CancelDone, ResetDone
  <2>3. Exists(p) /\ (p \in op.cancel => p # 0)
    BY <1>0, <2>1 DEF OpFits
  <2>4. PeriodsKept /\ RowsKept
    BY <1>0, <2>1, <2>3, PeriodMarked DEF RowsKept, Used, Unused
  <2>5. OpFits'
    <3>1. \A o \in op'.abort : order[o].period \in op'.cancel
      <4>1. CASE OpCancelPeriod(p)
        <5>1. op' = Left([op EXCEPT !.cancel = @ \ {p}]) /\ \A o \in op.abort : order[o].period # p
          BY <4>1 DEF OpCancelPeriod
        <5>2. op'.abort = op.abort /\ op'.cancel = op.cancel \ {p}
          BY <5>1, CancelDone
        <5>3. QED
          BY <1>0, <5>1, <5>2 DEF OpFits
      <4>2. CASE op'.cancel = op.cancel
        BY <1>0, <2>2, <4>2 DEF OpFits
      <4>3. QED
        BY <2>2, <4>1, <4>2
    <3>2. QED
      BY <1>0, <1>a, <2>1, <2>2, <2>4, <3>1 DEF OpFits, RowsKept, PeriodsKept
  <2>6. \A o \in Orders : run[o]["op"].pc # "idle" => o \in op'.abort
    BY <2>2 DEF Fit, OrderFits
  <2>7. QED
    BY <2>1, <2>4, <2>5, <2>6, OrdersStayFit, SamePeriodsFit DEF Fit
<1>3. ASSUME NEW p \in Periods, OpRenew(p) PROVE Fit'
  <2>1. /\ p \in op.renew /\ CreateRenewPlan(p, op.offer) /\ op.offer \in Offers
        /\ op' = Left([op EXCEPT !.renew = @ \ {p}])
        /\ UNCHANGED <<now, period, run, renewing, revived>>
    BY <1>3 DEF OpRenew, TypeOK
  <2>2. p \in revived /\ Exists(p)
    BY <1>0, <2>1 DEF OpFits
  <2>3. /\ op'.abort = op.abort /\ op'.cancel = op.cancel /\ op'.renew \subseteq op.renew
        /\ op'.reset = op.reset /\ op'.move = op.move /\ op'.found = op.found
    BY <2>1, RenewDone
  <2>4. QED
    BY <2>1, <2>2, <2>3, CreateFit
<1>4. ASSUME NEW p \in Periods, OpFindOrders(p) PROVE Fit'
  <2> DEFINE found == {o \in Renewals(p) : order[o].status = "PENDING"}
  <2>1. /\ p \in op.move /\ op' = Left([op EXCEPT !.move = @ \ {p}, !.found = found])
        /\ UNCHANGED <<now, period, order, run, renewing, revived>>
    BY <1>4 DEF OpFindOrders
  <2>2. \A o \in found : o \in Orders /\ o # AddPlan /\ Used(o)
    BY DEF Renewals, Used
  <2> HIDE DEF found
  <2>3. /\ op'.abort = op.abort /\ op'.cancel = op.cancel /\ op'.renew = op.renew
        /\ op'.reset = op.reset /\ op'.move = op.move \ {p} /\ op'.found = found
    BY <2>1, FindDone
  <2>4. PeriodsKept /\ RowsKept
    BY <1>0, <2>1, PeriodsSame DEF RowsKept, Used, Unused
  <2>5. OpFits'
    BY <1>0, <1>a, <2>1, <2>2, <2>3, <2>4 DEF OpFits, RowsKept, PeriodsKept
  <2>6. \A o \in Orders : run[o]["op"].pc # "idle" => o \in op'.abort
    BY <2>3 DEF Fit, OrderFits
  <2>7. QED
    BY <2>1, <2>4, <2>5, <2>6, OrdersStayFit, SamePeriodsFit DEF Fit
<1>5. CASE OpMoveOrders
  <2>1. /\ op' = Left([op EXCEPT !.found = {}])
        /\ UNCHANGED <<now, period, run, renewing, revived>>
    BY <1>5 DEF OpMoveOrders
  <2>2. /\ op'.abort = op.abort /\ op'.cancel = op.cancel /\ op'.renew = op.renew
        /\ op'.reset = op.reset /\ op'.move = op.move /\ op'.found = {}
    BY <2>1, MoveDone
  <2>3. ASSUME NEW o \in Orders
        PROVE  /\ order'[o].period = order[o].period /\ order'[o].status = order[o].status
               /\ order'[o].action = order[o].action /\ order'[o].step = order[o].step
    BY <1>5, MoveEffect
  <2>4. PeriodsKept /\ RowsKept
    BY <1>0, <2>1, <2>3, PeriodsSame DEF RowsKept, Used, Unused
  <2>5. OpFits'
    BY <1>0, <1>a, <2>1, <2>2, <2>4 DEF OpFits, RowsKept, PeriodsKept
  <2>6. ASSUME NEW o \in Orders PROVE OrderFits(o)'
    <3>1. OrderFits(o) /\ order[o].period \in Periods
      BY TypeRows DEF Fit, OrderRow
    <3>2. QED
      BY <2>1, <2>2, <2>3, <2>4, <3>1 DEF OrderFits, PeriodsKept, Used, Unused
  <2>7. \A o \in Orders, c \in Callers : InvocationFits(o, c)'
    BY <2>1, <2>3, InvocationStaysFit DEF Fit
  <2>8. QED
    BY <2>1, <2>4, <2>5, <2>6, <2>7, SamePeriodsFit DEF Fit
<1>6. CASE OpFails
  <2>1. /\ op' = NoOp /\ UNCHANGED <<now, period, order, run, renewing, revived>>
        /\ \A o \in Orders : run[o]["op"].pc = "idle"
    BY <1>6 DEF OpFails, NothingAwaited
  <2>2. PeriodsKept /\ RowsKept
    BY <1>0, <2>1, PeriodsSame DEF RowsKept, Used, Unused
  <2>3. OpFits'
    BY <2>1 DEF OpFits, NoOp
  <2>4. QED
    BY <2>1, <2>2, <2>3, OrdersStayFit, SamePeriodsFit DEF Fit
<1>7. CASE Crash
  <2>1. /\ op' = NoOp /\ UNCHANGED <<now, period, order, revived>> /\ renewing' = {}
        /\ \A o \in Orders, c \in Callers : run'[o][c].pc = "idle"
    BY <1>7, IdleInvocation DEF Crash
  <2>2. PeriodsKept /\ RowsKept
    BY <1>0, <2>1, PeriodsSame DEF RowsKept, Used, Unused
  <2>3. OpFits'
    BY <2>1 DEF OpFits, NoOp, Callers
  <2>4. ASSUME NEW o \in Orders PROVE OrderFits(o)'
    <3>1. OrderFits(o) /\ order[o].period \in Periods
      BY TypeRows DEF Fit, OrderRow
    <3>2. QED
      BY <2>1, <2>2, <3>1 DEF OrderFits, PeriodsKept, Used, Unused, Callers
  <2>5. \A o \in Orders, c \in Callers : InvocationFits(o, c)'
    BY <2>1 DEF InvocationFits
  <2>6. PeriodsFit'
    <3>1. now \in Int /\ now <= now
      BY SubscriptionAssumption DEF TypeOK, EndOfTime, EndsAt
    <3>2. QED
      BY <1>0, <2>1, <2>2, <3>1, PeriodsStayFit
  <2>7. QED
    BY <2>3, <2>4, <2>5, <2>6 DEF Fit
<1>8. QED
  BY <1>1, <1>2, <1>3, <1>4, <1>5, <1>6, <1>7 DEF OperationStep

LEMMA InitFit == Init => Fit
<1> SUFFICES ASSUME Init PROVE Fit
  OBVIOUS
<1>1. 0 \in Periods /\ AddPlan \in Orders
  BY SubscriptionAssumption DEF Periods, Orders, AddPlan
<1>2. /\ \A o \in Orders :
           /\ order[o].period = 0 /\ order[o].action = "RUN"
           /\ order[o].status = IF o # AddPlan THEN "ABSENT"
                                ELSE IF Activated THEN "DONE" ELSE "PENDING"
           /\ o # AddPlan => order[o].step = NoStep
      /\ \A o \in Orders, c \in Callers : run[o][c] = Idle /\ run[o][c].pc = "idle"
      /\ op = NoOp /\ renewing = {}
      /\ \A p \in Periods : Exists(p) => p = 0
      /\ Exists(0) /\ period[0] # "CANCELLED"
  BY <1>1, IdleInvocation DEF Init, Exists
<1>3. \A o \in Orders : OrderFits(o)
  BY <1>2 DEF OrderFits, Used, Unused, Callers
<1>4. \A o \in Orders, c \in Callers : InvocationFits(o, c)
  BY <1>2 DEF InvocationFits
<1>5. OpFits
  BY <1>2 DEF OpFits, NoOp, Callers
<1>6. PeriodsFit
  <2>1. \A o \in Orders : Used(o) => o = AddPlan
    BY <1>2 DEF Used, Unused
  <2>2. \A p \in Periods : OneOrder(p)
    BY <1>2, <2>1 DEF OneOrder
  <2>3. QED
    BY <1>2, <2>2 DEF PeriodsFit, Future
<1>7. QED
  BY <1>3, <1>4, <1>5, <1>6 DEF Fit

LEMMA NextFit == TypeOK /\ Fit /\ [Next]_vars => Fit'
<1> SUFFICES ASSUME TypeOK, Fit, [Next]_vars PROVE Fit'
  OBVIOUS
<1>1. CASE UNCHANGED vars
  BY <1>1 DEF vars, offers, Fit, OrderFits, InvocationFits, OpFits, PeriodsFit, OneOrder,
              Exists, Future, Used, Unused
<1>2. ASSUME NEW o \in Orders, NEW c \in Callers, InvocationStep(o, c) \/ StepFails(o, c) PROVE Fit'
  BY <1>2, InvocationFit, FinalUpdateFit DEF InvocationStep
<1>3. QED
  BY <1>1, <1>2, CronFit, OperationFit, OperationStepFit DEF Next
-----------------------------------------------------------------------------
(* What the steps of an invocation have in common *)
LEMMA InvocationFrame ==
  ASSUME TypeOK, Fit, NEW o \in Orders, NEW c \in Callers,
         \/ Delay(o, c) \/ MarkPeriodProcessing(o, c) \/ Bill(o, c)
         \/ MarkActive(o, c) \/ MarkPeriodDone(o, c)
         \/ MarkPeriodFailed(o, c) \/ MarkSuspended(o, c) \/ StepFails(o, c)
  PROVE  /\ RowSteps(o, order'[o].step) /\ RunBecomes(o, c, run'[o][c])
         /\ run[o][c].pc \in {"step", "active", "failed"} /\ run'[o][c].pc # "idle"
         /\ run'[o][c].pc = "step" => /\ run[o][c].pc = "step"
                                      /\ run'[o][c].action = run[o][c].action
                                      /\ run'[o][c].offer = run[o][c].offer
         /\ \A p \in Periods : \/ period'[p] = period[p]
                               \/ /\ p = order[o].period
                                  /\ period'[p] \in {"PROCESSING", "DONE", "FAILED"}
         /\ UNCHANGED <<now, op, renewing, revived, escaped, offer, shown>>
         /\ Used(o) /\ order[o].status # "CONFIRMED"
<1>0. /\ period \in [Periods -> PeriodStatus] /\ order[o].period \in Periods
      /\ OrderFits(o) /\ c \in {"cron", "op"}
  BY TypeRows DEF TypeOK, Fit, OrderRow, Callers
<1>a. run[o][c].pc # "idle" => Used(o) /\ order[o].status # "CONFIRMED"
  BY <1>0 DEF OrderFits, Used
<1>b. \A s : RowSteps(o, s) => RowSteps(o, order'[o].step)
  BY DEF RowSteps
<1>1. CASE Delay(o, c)
  <2>1. PICK i \in {DELAY_BILLING, DELAY_TELCO} :
          At(o, c, "RUN", i) /\ RowSteps(o, i + 1) /\ RunEnds(o, c, "PENDING")
    BY <1>1, DelayEffect
  <2>2. QED
    BY <1>1, <1>a, <1>b, <2>1 DEF Delay, history, offers, At, RunEnds
<1>2. CASE MarkPeriodProcessing(o, c)
  <2>1. RowSteps(o, SUBSCRIPTION + 1) /\ RunGoes(o, c, "step", SUBSCRIPTION + 1)
    BY <1>2, GoOnEffect, StepNumbers DEF MarkPeriodProcessing, At
  <2>2. QED
    BY <1>0, <1>2, <1>a, <1>b, <2>1 DEF MarkPeriodProcessing, history, offers, At, RunGoes
<1>3. CASE Bill(o, c)
  <2>1. RowSteps(o, BILLING + 1) /\ RunGoes(o, c, "step", BILLING + 1)
    BY <1>3, GoOnEffect, StepNumbers DEF Bill, At
  <2>2. QED
    BY <1>3, <1>a, <1>b, <2>1 DEF Bill, At, RunGoes
<1>4. CASE MarkActive(o, c)
  <2>1. RowSteps(o, TELCO) /\ RunGoes(o, c, "active", run[o][c].i)
    BY <1>4, PlaceEffect, StepNumbers DEF MarkActive
  <2>2. QED
    BY <1>4, <1>a, <1>b, <2>1 DEF MarkActive, history, offers, At, RunGoes
<1>5. CASE MarkPeriodDone(o, c)
  <2>1. RowSteps(o, NoStep) /\ RunEnds(o, c, "DONE") /\ run[o][c].pc = "active"
    BY <1>5, EndEffect DEF MarkPeriodDone, MarkSuspended
  <2>2. QED
    BY <1>0, <1>5, <1>a, <1>b, <2>1 DEF MarkPeriodDone, history, offers, RunEnds
<1>6. CASE MarkPeriodFailed(o, c)
  <2>1. RowSteps(o, SUBSCRIPTION) /\ RunGoes(o, c, "failed", run[o][c].i)
    BY <1>6, PlaceEffect, StepNumbers DEF MarkPeriodFailed
  <2>2. QED
    BY <1>0, <1>6, <1>a, <1>b, <2>1 DEF MarkPeriodFailed, history, offers, At, RunGoes
<1>7. CASE MarkSuspended(o, c)
  <2>1. RowSteps(o, NoStep) /\ RunEnds(o, c, "ABORTED") /\ run[o][c].pc = "failed"
    BY <1>7, EndEffect DEF MarkPeriodDone, MarkSuspended
  <2>2. QED
    BY <1>7, <1>a, <1>b, <2>1 DEF MarkSuspended, history, offers, RunEnds
<1>8. CASE StepFails(o, c)
  <2>1. /\ run[o][c].pc \in {"step", "active", "failed"}
        /\ RowSteps(o, run[o][c].i)
        /\ RunEnds(o, c, "ERROR") \/ RunEnds(o, c, "ABORTED")
    BY <1>8, StepFailsEffect
  <2>2. QED
    BY <1>8, <1>a, <1>b, <2>1 DEF StepFails, history, offers, RunEnds
<1>9. QED
  BY <1>1, <1>2, <1>3, <1>4, <1>5, <1>6, <1>7, <1>8

(* ... the last update of one ... *)
LEMMA FinalUpdateFrame ==
  ASSUME TypeOK, Fit, NEW o \in Orders, NEW c \in Callers, FinalUpdate(o, c)
  PROVE  /\ run[o][c].pc = "final" /\ RunBecomes(o, c, run'[o][c]) /\ run'[o][c].pc = "idle"
         /\ Used(o) /\ order[o].status # "CONFIRMED"
         /\ order'[o].period = order[o].period /\ order'[o].action = order[o].action
         /\ order'[o].step = order[o].step /\ order'[o].offer = order[o].offer
         /\ \A q \in Orders \ {o} : order'[q] = order[q]
         /\ \/ /\ order[o].status = "PROCESSING" /\ order'[o].status = run[o][c].out
               /\ run[o][c].out \in {"PENDING", "ERROR", "DONE", "ABORTED"}
            \/ order[o].status # "PROCESSING" /\ order' = order
         /\ c = "cron" => op' = op
         /\ c = "op" => /\ order[o].action = "ABORT" /\ o \in op.abort
                        /\ run[o][c].out \in {"ERROR", "ABORTED"}
                        /\ \/ op' = NoOp
                           \/ /\ op'.abort = op.abort \ {o} /\ op'.cancel = op.cancel
                              /\ op'.move = op.move /\ op'.found = op.found
                              /\ order[o].status = "PROCESSING"
         /\ UNCHANGED <<now, period, renewing, spent, charged, revived, escaped, offers>>
<1>0. OrderFits(o) /\ InvocationFits(o, c) /\ c \in {"cron", "op"}
  BY DEF Fit, Callers
<1>1. /\ run[o][c].pc = "final"
      /\ RunBecomes(o, c, Idle)
      /\ order[o].status = "PROCESSING" =>
           /\ RowMarked(o, run[o][c].out, order[o].action)
           /\ op' = IF c = "op" THEN Left([op EXCEPT !.abort = @ \ {o}]) ELSE op
      /\ order[o].status # "PROCESSING" =>
           order' = order /\ op' = IF c = "op" THEN NoOp ELSE op
      /\ UNCHANGED <<now, period, renewing, spent, charged, revived, escaped, offers>>
  BY FinalUpdateEffect DEF FinalUpdate, history
<1>2. Used(o) /\ order[o].status # "CONFIRMED"
  BY <1>0, <1>1 DEF OrderFits, Used
<1>3. run'[o][c].pc = "idle" /\ RunBecomes(o, c, run'[o][c])
  BY <1>1, IdleInvocation DEF RunBecomes
<1>4. /\ order'[o].period = order[o].period /\ order'[o].action = order[o].action
      /\ order'[o].step = order[o].step /\ order'[o].offer = order[o].offer
      /\ \A q \in Orders \ {o} : order'[q] = order[q]
      /\ order[o].status = "PROCESSING" => order'[o].status = run[o][c].out
  BY <1>1 DEF RowMarked, RowBecomes
<1>5. /\ run[o][c].out \in {"PENDING", "ERROR", "DONE", "ABORTED"}
      /\ c = "op" => run[o][c].out \in {"ERROR", "ABORTED"}
  BY <1>0, <1>1 DEF InvocationFits
<1>6. ASSUME c = "op"
      PROVE  /\ order[o].action = "ABORT" /\ o \in op.abort
             /\ \/ op' = NoOp
                \/ /\ op'.abort = op.abort \ {o} /\ op'.cancel = op.cancel
                   /\ op'.move = op.move /\ op'.found = op.found
                   /\ order[o].status = "PROCESSING"
  <2>1. order[o].action = "ABORT" /\ o \in op.abort
    BY <1>0, <1>1, <1>6 DEF OrderFits
  <2>2. QED
    BY <1>1, <1>6, <2>1, AbortDone
<1>7. QED
  BY <1>0, <1>1, <1>2, <1>3, <1>4, <1>5, <1>6

(* ... and of the cron job that claims an order *)
LEMMA ClaimFrame ==
  ASSUME TypeOK, NEW o \in Orders, ProcessPending(o)
  PROVE  /\ RowMarked(o, "PROCESSING", order[o].action)
         /\ order[o].status \in {"PENDING", "ERROR"} /\ order[o].action \in {"RUN", "ABORT"}
         /\ run[o]["cron"].pc = "idle" /\ RunBecomes(o, "cron", run'[o]["cron"])
         /\ LET r == run'[o]["cron"] IN
            /\ r.action = order[o].action /\ r.out = "ABORTED" /\ r.offer = order[o].offer
            /\ r.pc \in {"step", "final"}
            /\ order[o].action = "RUN" => r.pc = "step" /\ r.i = IF order[o].step = NoStep
                                                    THEN DELAY_BILLING ELSE order[o].step
            /\ order[o].action = "ABORT" /\ r.pc = "step" => r.i = SUBSCRIPTION
            /\ r.pc = "final" => o = AddPlan \/ order[o].step = DELAY_BILLING
         /\ UNCHANGED <<now, period, op, renewing, spent, charged, revived, escaped, offers>>
<1>1. order[o].action \in {"RUN", "ABORT"} /\ RowsType
  BY TypeRows DEF OrderRow
<1>2. run'[o]["cron"] = Claimed(o, order[o].action)
  BY ProcessPendingEffect
<1>3. LET r == Claimed(o, order[o].action) IN
      /\ r.action = order[o].action /\ r.out = "ABORTED" /\ r.offer = order[o].offer
      /\ r.pc \in {"step", "final"}
      /\ order[o].action = "RUN" => r.pc = "step" /\ r.i = IF order[o].step = NoStep
                                              THEN DELAY_BILLING ELSE order[o].step
      /\ order[o].action = "ABORT" /\ r.pc = "step" => r.i = SUBSCRIPTION
      /\ r.pc = "final" => o = AddPlan \/ order[o].step = DELAY_BILLING
  BY <1>1, ClaimedFits
<1>4. UNCHANGED <<now, period, op, renewing, spent, charged, revived, escaped, offers>>
  BY DEF ProcessPending, history
<1>5. /\ RowMarked(o, "PROCESSING", order[o].action)
      /\ order[o].status \in {"PENDING", "ERROR"}
      /\ run[o]["cron"].pc = "idle" /\ RunBecomes(o, "cron", run'[o]["cron"])
  BY ProcessPendingEffect
<1>6. QED
  BY <1>1, <1>2, <1>3, <1>4, <1>5

-----------------------------------------------------------------------------
(* Stops: who a cancellation has not stopped has escaped it *)

LEMMA StopsStay ==
  ASSUME NEW o \in Orders, StopsFit(o),
         order'[o].period = order[o].period /\ order'[o].status = order[o].status,
         order'[o].action = order[o].action,
         Running(o)' => Running(o), escaped \subseteq escaped',
         op'.cancel \subseteq op.cancel, op'.cancel = {} \/ op.abort \subseteq op'.abort,
         period'[order[o].period] = "CANCELLED" => period[order[o].period] = "CANCELLED"
  PROVE  StopsFit(o)'
BY DEF StopsFit, Stopped, Final, Used, Unused

LEMMA InvocationStops ==
  ASSUME TypeOK, Fit, Stops, NEW o \in Orders, NEW c \in Callers,
         InvocationStep(o, c) \/ StepFails(o, c)
  PROVE  Stops'
<1>0. c \in {"cron", "op"} /\ \A q \in Orders : order[q].period \in Periods
  BY TypeRows DEF Callers, OrderRow
<1>1. CASE FinalUpdate(o, c)
  <2>1. ASSUME NEW q \in Orders \ {o} PROVE StopsFit(q)'
    <3>1. /\ order'[q] = order[q] /\ run'[q] = run[q]
          /\ op'.cancel \subseteq op.cancel
          /\ op'.cancel = {} \/ op'.abort = op.abort \/ op'.abort = op.abort \ {o}
          /\ UNCHANGED <<escaped, period>>
      BY <1>0, <1>1, <2>1, FinalUpdateFrame DEF RunBecomes, NoOp
    <3>2. StopsFit(q)
      BY DEF Stops
    <3>3. op'.cancel = {} \/ (q \in op.abort => q \in op'.abort)
      BY <2>1, <3>1
    <3>4. QED
      BY <3>1, <3>2, <3>3 DEF StopsFit, Stopped, Final, Used, Unused, Running
  <2>2. StopsFit(o)'
    <3>1. StopsFit(o) /\ "cron" \in Callers
      BY DEF Stops, Callers
    <3>2. CASE c = "cron"
      <4>1. ~Running(o)' /\ op' = op /\ UNCHANGED <<escaped, period>> /\ Used(o)
        BY <1>1, <3>2, FinalUpdateFrame DEF Running
      <4>2. Stopped(o) => Stopped(o)'
        BY <1>1, <4>1, FinalUpdateFrame DEF Stopped, Final, FinalStati
      <4>3. order'[o].period = order[o].period
        BY <1>1, FinalUpdateFrame
      <4>4. QED
        BY <3>1, <4>1, <4>2, <4>3 DEF StopsFit
    <3>3. CASE c = "op"
      <4>1. /\ order[o].action = "ABORT" /\ order'[o].action = "ABORT"
            /\ run'[o]["cron"] = run[o]["cron"] /\ UNCHANGED escaped
        BY <1>1, <3>1, <3>3, FinalUpdateFrame DEF RunBecomes
      <4>2. QED
        BY <3>1, <4>1 DEF StopsFit, Stopped, Running
    <3>4. QED
      BY <1>0, <3>2, <3>3
  <2>3. QED
    BY <2>1, <2>2 DEF Stops
<1>2. CASE ~FinalUpdate(o, c)
  <2>1. /\ RowSteps(o, order'[o].step) /\ RunBecomes(o, c, run'[o][c])
        /\ run'[o][c].pc = "step" => /\ run[o][c].pc = "step"
                                     /\ run'[o][c].action = run[o][c].action
        /\ \A p \in Periods : \/ period'[p] = period[p]
                              \/ period'[p] \in {"PROCESSING", "DONE", "FAILED"}
        /\ UNCHANGED <<op, escaped>>
    BY <1>2, InvocationFrame DEF InvocationStep
  <2>2. ASSUME NEW q \in Orders PROVE StopsFit(q)'
    <3>1. /\ order'[q].period = order[q].period /\ order'[q].status = order[q].status
          /\ order'[q].action = order[q].action
      BY <2>1 DEF RowSteps, RowBecomes
    <3>2. Running(q)' => Running(q)
      BY <1>0, <2>1 DEF Running, RunBecomes, Callers
    <3>3. period'[order[q].period] = "CANCELLED" => period[order[q].period] = "CANCELLED"
      BY <1>0, <2>1
    <3>4. QED
      BY <2>1, <3>1, <3>2, <3>3, StopsStay DEF Stops
  <2>3. QED
    BY <2>2 DEF Stops
<1>3. QED
  BY <1>1, <1>2

(* A new row of a period that is cancelled, or is going to be, has escaped *)
LEMMA CreateStops ==
  ASSUME TypeOK, Fit, Stops, NEW p \in Periods, NEW f \in Offers, CreateRenewPlan(p, f),
         UNCHANGED <<period, run>>, op'.abort = op.abort, op'.cancel = op.cancel
  PROVE  Stops'
<1>1. PICK o \in Orders :
        /\ Unused(o) /\ RowBecomes(o, order'[o]) /\ order'[o].period = p
        /\ escaped' = IF p \in op.cancel \/ period[p] = "CANCELLED"
                      THEN escaped \cup {o} ELSE escaped
  BY CreateEffect
<1>2. StopsFit(o)'
  <2>1. run[o]["cron"].pc = "idle" /\ run' = run
    BY <1>1 DEF Fit, OrderFits
  <2>2. QED
    BY <1>1, <2>1 DEF StopsFit, Stopped, Running
<1>3. ASSUME NEW q \in Orders \ {o} PROVE StopsFit(q)'
  <2>1. order'[q] = order[q] /\ escaped \subseteq escaped'
    BY <1>1 DEF RowBecomes
  <2>2. QED
    BY <2>1, StopsStay DEF Stops, Running
<1>4. QED
  BY <1>2, <1>3 DEF Stops

LEMMA CronStops ==
  ASSUME TypeOK, Fit, Stops,
         \/ \E o \in Orders : ProcessConfirmed(o) \/ ProcessPending(o)
         \/ Renewing \/ Changing \/ Tick
  PROVE  Stops'
<1>0. \A q \in Orders : order[q].period \in Periods
  BY TypeRows DEF OrderRow
<1>1. ASSUME NEW o \in Orders, ProcessConfirmed(o) PROVE Stops'
  <2>1. /\ RowMarked(o, "PENDING", order[o].action) /\ order[o].status = "CONFIRMED"
        /\ UNCHANGED <<period, run, op, escaped>>
    BY <1>1, ProcessConfirmedEffect DEF ProcessConfirmed, history
  <2>2. StopsFit(o)'
    <3>1. StopsFit(o) /\ run[o]["cron"].pc = "idle"
      BY <2>1 DEF Stops, Fit, OrderFits
    <3>2. QED
      BY <2>1, <3>1 DEF StopsFit, Stopped, Final, FinalStati, Running, RowMarked, Used, Unused
  <2>3. \A q \in Orders \ {o} : StopsFit(q)'
    BY <2>1, StopsStay DEF Stops, Running, RowMarked, RowBecomes
  <2>4. QED
    BY <2>2, <2>3 DEF Stops
<1>2. ASSUME NEW o \in Orders, ProcessPending(o) PROVE Stops'
  <2>1. /\ RowMarked(o, "PROCESSING", order[o].action)
        /\ order[o].status \in {"PENDING", "ERROR"}
        /\ RunBecomes(o, "cron", run'[o]["cron"])
        /\ run'[o]["cron"].action = order[o].action
        /\ UNCHANGED <<period, op, escaped>>
    BY <1>2, ClaimFrame
  <2>2. StopsFit(o)'
    <3>1. StopsFit(o)
      BY DEF Stops
    <3>2. QED
      BY <2>1, <3>1 DEF StopsFit, Stopped, Final, FinalStati, Running, RowMarked, Used, Unused
  <2>3. \A q \in Orders \ {o} : StopsFit(q)'
    BY <2>1, StopsStay DEF Stops, Running, RowMarked, RowBecomes, RunBecomes
  <2>4. QED
    BY <2>2, <2>3 DEF Stops
<1>3. ASSUME NEW p \in Periods, RenewPeriod(p) PROVE Stops'
  <2>1. /\ UNCHANGED <<order, run, op, escaped>>
        /\ \A q \in Periods : period'[q] = "CANCELLED" => period[q] = "CANCELLED"
    BY <1>3 DEF RenewPeriod, TypeOK
  <2>2. QED
    BY <1>0, <2>1, StopsStay DEF Stops, Running
<1>4. ASSUME NEW p \in Periods, RenewOrder(p) PROVE Stops'
  BY <1>4, CreateStops DEF RenewOrder
<1>5. CASE Changing \/ Tick
  <2>1. UNCHANGED <<period, order, run, op, escaped>>
    BY <1>5 DEF Changing, ReadExpired, ChangePeriod, Expire, Tick, history
  <2>2. QED
    BY <1>0, <2>1, StopsStay DEF Stops, Running
<1>6. QED
  BY <1>1, <1>2, <1>3, <1>4, <1>5 DEF Renewing

LEMMA OperationStops ==
  ASSUME TypeOK, Fit, Stops, Operation
  PROVE  Stops'
<1>0. \A q \in Orders : order[q].period \in Periods
  BY TypeRows DEF OrderRow
<1>1. CASE Cancel \/ Suspend \/ Deactivate
  <2>1. /\ op'.abort = LiveOrders(Upcoming) /\ op'.cancel = Upcoming
        /\ UNCHANGED <<period, order, run, escaped>>
    <3>1. /\ op' = Left(StopFuture) /\ UNCHANGED <<period, order, run, escaped>>
      BY <1>1 DEF Cancel, Suspend, Deactivate, BeginOp, history
    <3>2. QED
      BY <3>1, LeftKeeps DEF StopFuture, NoOp
  <2>2. 0 \notin Upcoming
    BY SubscriptionAssumption DEF Upcoming, Future, StartsAt, TypeOK, EndOfTime, EndsAt
  <2>3. ASSUME NEW q \in Orders PROVE StopsFit(q)'
    <3>1. StopsFit(q) /\ OrderFits(q)
      BY DEF Stops, Fit
    <3>2. Used(q) /\ order[q].period \in Upcoming => q \in LiveOrders(Upcoming) \/ Final(q)
      BY <2>2, <3>1 DEF OrderFits, LiveOrders, Used, Final
    <3>3. QED
      BY <2>1, <3>1, <3>2 DEF StopsFit, Stopped, Final, Running, Used, Unused
  <2>4. QED
    BY <2>3 DEF Stops
<1>2. ASSUME NEW stati, Revive(stati) PROVE Stops'
  <2> DEFINE again == {p \in Periods : Future(p) /\ period[p] = "CANCELLED"}
             pending == again \cup {p \in Periods : period[p] = "PENDING"}
             todo == [NoOp EXCEPT !.renew = pending, !.offer = sub.offer]
  <2>1. /\ op' = Left(todo) /\ UNCHANGED <<order, run, escaped>>
        /\ period' = [p \in Periods |-> IF p \in again THEN "PENDING" ELSE period[p]]
    BY <1>2 DEF Revive, BeginOp
  <2>2. op'.cancel = {}
    <3>1. todo.cancel = {}
      BY DEF NoOp
    <3> HIDE DEF todo
    <3>2. QED
      BY <2>1, <3>1, LeftKeeps
  <2>3. \A p \in Periods : period'[p] = "CANCELLED" => period[p] = "CANCELLED"
    BY <2>1
  <2> HIDE DEF again, todo
  <2>4. QED
    BY <1>0, <2>1, <2>2, <2>3, StopsStay DEF Stops, Running
<1>3. ASSUME NEW p \in Periods, RerunPeriod(p) PROVE Stops'
  <2>1. /\ op'.cancel = {} /\ UNCHANGED <<period, run, escaped>>
    <3> DEFINE todo == [NoOp EXCEPT !.renew = {p}, !.reset = {p}, !.offer = offer[p]]
    <3>1. (op' = NoOp \/ op' = Left(todo)) /\ UNCHANGED <<period, run, escaped>>
      BY <1>3, RerunEffect DEF RerunPeriod
    <3>2. todo.cancel = {} /\ NoOp.cancel = {}
      BY DEF NoOp
    <3> HIDE DEF todo
    <3>3. QED
      BY <3>1, <3>2, LeftKeeps
  <2>2. ASSUME NEW q \in Orders PROVE StopsFit(q)'
    <3>1. \/ order'[q] = order[q]
          \/ /\ Used(q) /\ ~Final(q) /\ order'[q].period = order[q].period
             /\ order'[q].action = order[q].action /\ order'[q].status = "PENDING"
      BY <1>3, RerunEffect
    <3>2. StopsFit(q)
      BY DEF Stops
    <3>3. QED
      BY <2>1, <3>1, <3>2 DEF StopsFit, Stopped, Final, FinalStati, Running, Used, Unused
  <2>3. QED
    BY <2>2 DEF Stops
<1>4. ASSUME NEW f \in Offers, ChangeOffer(f) PROVE Stops'
  <2>1. op'.cancel = {} /\ UNCHANGED <<period, order, run, escaped>>
    <3> DEFINE todo == [NoOp EXCEPT !.move = Upcoming, !.offer = f]
    <3>1. op' = Left(todo) /\ UNCHANGED <<period, order, run, escaped>>
      BY <1>4 DEF ChangeOffer, BeginOp
    <3>2. todo.cancel = {}
      BY DEF NoOp
    <3> HIDE DEF todo
    <3>3. QED
      BY <3>1, <3>2, LeftKeeps
  <2>2. QED
    BY <1>0, <2>1, StopsStay DEF Stops, Running
<1>5. QED
  BY <1>1, <1>2, <1>3, <1>4 DEF Operation, Uncancel, Reactivate

LEMMA OperationStepStops ==
  ASSUME TypeOK, Fit, Stops, OperationStep \/ OpFails \/ Crash
  PROVE  Stops'
<1>0. \A q \in Orders : order[q].period \in Periods
  BY TypeRows DEF OrderRow
<1>1. ASSUME NEW o \in Orders, OpAbort(o) PROVE Stops'
  <2>0. UNCHANGED period /\ "op" # "cron" /\ StopsFit(o) /\ OrderFits(o) /\ "cron" \in Callers
    BY <1>1 DEF OpAbort, Stops, Fit, Callers
  <2>1. CASE op' = NoOp /\ UNCHANGED <<order, run, escaped>>
    BY <1>0, <2>0, <2>1, StopsStay DEF Stops, Running, NoOp
  <2>2. CASE /\ order[o].status = "CONFIRMED"
             /\ RowMarked(o, "ABORTED", "ABORT")
             /\ op' = Left([op EXCEPT !.abort = @ \ {o}])
             /\ UNCHANGED <<run, escaped>>
    <3>1. op'.abort = op.abort \ {o} /\ op'.cancel = op.cancel
      BY <2>2, AbortDone
    <3>2. StopsFit(o)'
      BY <2>0, <2>2 DEF OrderFits, StopsFit, Stopped, Running, RowMarked
    <3>3. ASSUME NEW q \in Orders \ {o} PROVE StopsFit(q)'
      <4>1. StopsFit(q) /\ order'[q] = order[q] /\ (q \in op.abort => q \in op'.abort)
        BY <2>2, <3>1, <3>3 DEF Stops, RowMarked, RowBecomes
      <4>2. QED
        BY <2>0, <2>2, <3>1, <4>1 DEF StopsFit, Stopped, Final, Running, Used, Unused
    <3>4. QED
      BY <3>2, <3>3 DEF Stops
  <2>3. CASE /\ RowMarked(o, "PROCESSING", "ABORT")
             /\ RunBecomes(o, "op", Claimed(o, "ABORT"))
             /\ escaped' = IF run[o]["cron"].pc # "idle" THEN escaped \cup {o} ELSE escaped
             /\ op' = op
    <3>1. \A q \in Orders : run'[q]["cron"] = run[q]["cron"]
      BY <2>0, <2>3 DEF RunBecomes
    <3>2. StopsFit(o)'
      BY <2>3, <3>1 DEF StopsFit, Stopped, Running, RowMarked
    <3>3. ASSUME NEW q \in Orders \ {o} PROVE StopsFit(q)'
      <4>1. order'[q] = order[q] /\ escaped \subseteq escaped'
        BY <2>3 DEF RowMarked, RowBecomes
      <4>2. QED
        BY <2>0, <2>3, <3>1, <4>1, StopsStay DEF Stops, Running
    <3>4. QED
      BY <3>2, <3>3 DEF Stops
  <2>4. QED
    BY <1>1, <2>1, <2>2, <2>3, OpAbortEffect
<1>2. ASSUME NEW p \in Periods, OpCancelPeriod(p) PROVE Stops'
  <2>1. /\ op' = Left([op EXCEPT !.cancel = @ \ {p}]) /\ \A o \in op.abort : order[o].period # p
        /\ p \in op.cancel
        /\ period' = [period EXCEPT ![p] = "CANCELLED"] /\ UNCHANGED <<order, run, escaped>>
    BY <1>2 DEF OpCancelPeriod, history
  <2>2. op'.abort = op.abort /\ op'.cancel = op.cancel \ {p}
    BY <2>1, CancelDone
  <2>3. ASSUME NEW q \in Orders PROVE StopsFit(q)'
    <3>1. \A r \in Periods : period'[r] = "CANCELLED" => period[r] = "CANCELLED" \/ r = p
      BY <2>1 DEF TypeOK
    <3>2. StopsFit(q) /\ (order[q].period = p => q \notin op.abort)
      BY <2>1 DEF Stops
    <3>3. QED
      BY <1>0, <2>1, <2>2, <3>1, <3>2 DEF StopsFit, Stopped, Final, Running, Used, Unused
  <2>4. QED
    BY <2>3 DEF Stops
<1>3. ASSUME NEW p \in Periods, OpRenew(p) PROVE Stops'
  <2>1. /\ CreateRenewPlan(p, op.offer) /\ op.offer \in Offers
        /\ op' = Left([op EXCEPT !.renew = @ \ {p}]) /\ UNCHANGED <<period, run>>
    BY <1>3 DEF OpRenew, TypeOK
  <2>2. op'.abort = op.abort /\ op'.cancel = op.cancel
    BY <2>1, RenewDone
  <2>3. QED
    BY <2>1, <2>2, CreateStops
<1>4. ASSUME NEW p \in Periods, OpReset(p) PROVE Stops'
  <2>1. /\ op' = Left([op EXCEPT !.reset = @ \ {p}])
        /\ period' = [period EXCEPT ![p] = "PENDING"] /\ UNCHANGED <<order, run, escaped>>
    BY <1>4 DEF OpReset, history
  <2>2. op'.abort = op.abort /\ op'.cancel = op.cancel
    BY <2>1, ResetDone
  <2>3. \A q \in Periods : period'[q] = "CANCELLED" => period[q] = "CANCELLED"
    BY <2>1 DEF TypeOK
  <2>4. QED
    BY <1>0, <2>1, <2>2, <2>3, StopsStay DEF Stops, Running
<1>5. ASSUME NEW p \in Periods, OpFindOrders(p) PROVE Stops'
  <2> DEFINE found == {o \in Renewals(p) : order[o].status = "PENDING"}
  <2>1. /\ op' = Left([op EXCEPT !.move = @ \ {p}, !.found = found])
        /\ UNCHANGED <<period, order, run, escaped>>
    BY <1>5 DEF OpFindOrders
  <2> HIDE DEF found
  <2>2. op'.abort = op.abort /\ op'.cancel = op.cancel
    BY <2>1, FindDone
  <2>3. QED
    BY <1>0, <2>1, <2>2, StopsStay DEF Stops, Running
<1>6. CASE OpMoveOrders
  <2>1. op' = Left([op EXCEPT !.found = {}]) /\ UNCHANGED <<period, run, escaped>>
    BY <1>6 DEF OpMoveOrders
  <2>2. op'.abort = op.abort /\ op'.cancel = op.cancel
    BY <2>1, MoveDone
  <2>3. ASSUME NEW o \in Orders
        PROVE  /\ order'[o].period = order[o].period /\ order'[o].status = order[o].status
               /\ order'[o].action = order[o].action
    BY <1>6, MoveEffect
  <2>4. QED
    BY <1>0, <2>1, <2>2, <2>3, StopsStay DEF Stops, Running
<1>7. CASE OpFails
  <2>1. op'.cancel = {} /\ UNCHANGED <<period, order, run, escaped>>
    BY <1>7 DEF OpFails, NoOp
  <2>2. QED
    BY <1>0, <2>1, StopsStay DEF Stops, Running
<1>8. CASE Crash
  <2>1. /\ op'.cancel = {} /\ UNCHANGED <<period, order, escaped>>
        /\ \A o \in Orders : run'[o]["cron"].pc = "idle"
    BY <1>8, IdleInvocation DEF Crash, NoOp, Callers
  <2>2. QED
    BY <1>0, <2>1, StopsStay DEF Stops, Running
<1>9. QED
  BY <1>1, <1>2, <1>3, <1>4, <1>5, <1>6, <1>7, <1>8 DEF OperationStep

LEMMA InitStops == Init => Stops
<1> SUFFICES ASSUME Init PROVE Stops
  OBVIOUS
<1>1. 0 \in Periods
  BY SubscriptionAssumption DEF Periods
<1>2. \A o \in Orders : order[o].period = 0 /\ run[o]["cron"].pc = "idle"
  BY IdleInvocation DEF Init, Callers
<1>3. op.cancel = {} /\ period[0] # "CANCELLED"
  BY <1>1 DEF Init, NoOp
<1>4. QED
  BY <1>2, <1>3 DEF Stops, StopsFit, Running

LEMMA NextStops == TypeOK /\ Fit /\ Stops /\ [Next]_vars => Stops'
<1> SUFFICES ASSUME TypeOK, Fit, Stops, [Next]_vars PROVE Stops'
  OBVIOUS
<1>1. CASE UNCHANGED vars
  BY <1>1 DEF vars, Stops, StopsFit, Stopped, Final, Running, Used, Unused
<1>2. QED
  BY <1>1, InvocationStops, CronStops, OperationStops, OperationStepStops DEF Next

(* Whatever bills a cancelled period, it is an order of it that escaped *)
LEMMA BillEscapes ==
  ASSUME TypeOK, Fit, Stops, NEW o \in Orders, NEW c \in Callers, Bill(o, c),
         NEW p \in Periods, period[p] = "CANCELLED", charged'[p] # charged[p]
  PROVE  \E q \in escaped : order[q].period = p
<1>1. order[o].period = p /\ escaped \subseteq Orders
  <2>1. charged' = [charged EXCEPT ![order[o].period][run[o][c].offer] = @ + 1]
    BY DEF Bill
  <2>2. charged \in [Periods -> [Offers -> Nat]] /\ order[o].period \in Periods
    BY TypeRows DEF TypeOK, OrderRow
  <2>3. QED
    BY <2>1, <2>2 DEF TypeOK
<1>2. Running(o)
  BY DEF Bill, At, Fit, InvocationFits, Running
<1>3. Used(o)
  BY InvocationFrame
<1>4. StopsFit(o)
  BY DEF Stops
<1>5. o \in escaped
  BY <1>1, <1>2, <1>3, <1>4 DEF StopsFit, Stopped
<1>6. QED
  BY <1>1, <1>5

(* No other step bills *)
LEMMA OthersDoNotBill ==
  ASSUME Next, \A o \in Orders, c \in Callers : ~Bill(o, c)
  PROVE  charged' = charged
<1>1. ASSUME NEW o \in Orders, ProcessConfirmed(o) \/ ProcessPending(o)
      PROVE  charged' = charged
  BY <1>1 DEF ProcessConfirmed, ProcessPending, history
<1>2. ASSUME NEW o \in Orders, NEW c \in Callers, InvocationStep(o, c) \/ StepFails(o, c)
      PROVE  charged' = charged
  BY <1>2 DEF InvocationStep, Delay, MarkPeriodProcessing, MarkActive, MarkPeriodDone,
              MarkPeriodFailed, MarkSuspended, FinalUpdate, StepFails, history
<1>3. CASE Renewing \/ Changing \/ Tick
  BY <1>3 DEF Renewing, RenewPeriod, RenewOrder, Changing, ReadExpired, ChangePeriod, Expire,
              Tick, history
<1>4. CASE Operation
  BY <1>4 DEF Operation, Cancel, Suspend, Deactivate, Uncancel, Reactivate, Revive, RerunPeriod,
              ChangeOffer, history
<1>5. CASE OperationStep \/ OpFails \/ Crash
  BY <1>5 DEF OperationStep, OpAbort, OpCancelPeriod, OpRenew, OpReset, OpFindOrders,
              OpMoveOrders, OpFails, Crash, history
<1>6. QED
  BY <1>1, <1>2, <1>3, <1>4, <1>5 DEF Next

(* A period that was cancelled is never paid for afterwards, unless an order*)
(* of it escaped the cancellation: it was running when it was aborted, or   *)
(* was created too late to be.                                              *)
THEOREM CancellationHolds == Spec => CancelledIsNotBilled
<1>1. TypeOK /\ Fit /\ Stops /\ [Next]_vars =>
        [\A p \in Periods : period[p] = "CANCELLED" /\ charged'[p] # charged[p] =>
           \E o \in escaped : order[o].period = p]_vars
  <2> SUFFICES ASSUME TypeOK, Fit, Stops, [Next]_vars,
                      NEW p \in Periods, period[p] = "CANCELLED", charged'[p] # charged[p]
               PROVE  \E o \in escaped : order[o].period = p
    OBVIOUS
  <2>1. PICK o \in Orders, c \in Callers : Bill(o, c)
    BY OthersDoNotBill DEF vars
  <2>2. QED
    BY <2>1, BillEscapes
<1>2. Init => TypeOK /\ Fit /\ Stops
  BY InitTypeOK, InitFit, InitStops
<1>3. TypeOK /\ Fit /\ Stops /\ [Next]_vars => (TypeOK /\ Fit /\ Stops)'
  BY NextTypeOK, NextFit, NextStops
<1>4. QED
  BY <1>1, <1>2, <1>3, PTL DEF Spec, CancelledIsNotBilled

-----------------------------------------------------------------------------
(* Paid: what an order has done is what its steps say *)

LEMMA BillsStay ==
  ASSUME NEW o \in Orders, BillsFit(o), order'[o].period = order[o].period,
         order'[o].status = order[o].status, order'[o].action = order[o].action,
         order'[o].step = order[o].step, run'[o]["cron"] = run[o]["cron"],
         UNCHANGED charged, revived \subseteq revived'
  PROVE  BillsFit(o)'
<1>1. Billed(order[o].period)' <=> Billed(order[o].period)
  BY DEF Billed
<1>2. QED
  BY <1>1 DEF BillsFit, Running, Again, Used, Unused

(* Periods do not disappear, and are not DONE for nothing *)
LEMMA PaidStays ==
  ASSUME Paid, UNCHANGED charged, revived \subseteq revived',
         \A o \in Orders : BillsFit(o)',
         \A p \in Periods : Exists(p) => Exists(p)',
         \A p \in Periods : Renewable(p)' => Renewable(p) \/ ~Exists(p),
         \A p \in Periods : period'[p] = "DONE" => period[p] = "DONE" \/ Billed(p)
  PROVE  Paid'
<1>1. \A p : Billed(p)' <=> Billed(p)
  BY DEF Billed
<1>2. \A p \in Periods : ~Exists(p)' \/ (Renewable(p)' /\ p \notin revived') => ~Billed(p)'
  BY <1>1 DEF Paid
<1>3. BilledOnce'
  BY DEF Paid, BilledForService, BilledOnce
<1>4. DoneWasBilled'
  BY <1>1 DEF Paid, BilledForService, DoneWasBilled
<1>5. QED
  BY <1>2, <1>3, <1>4 DEF Paid, BilledForService

(* The row says as much of a period as the invocation that works on it *)
LEMMA InvocationBills ==
  ASSUME TypeOK, Fit, Paid, NEW o \in Orders, NEW c \in Callers,
         \/ Delay(o, c) \/ MarkPeriodProcessing(o, c)
         \/ MarkActive(o, c) \/ MarkPeriodDone(o, c)
         \/ MarkPeriodFailed(o, c) \/ MarkSuspended(o, c) \/ StepFails(o, c)
  PROVE  BillsFit(o)' /\ UNCHANGED charged
<1>0. /\ OrderFits(o) /\ InvocationFits(o, c) /\ BillsFit(o) /\ c \in {"cron", "op"}
      /\ "cron" \in Callers /\ order[o].step \in {-1, 0, 1, 2, 3, 4} /\ run[o][c].i \in {0, 1, 2, 3, 4}
  BY TypeRows, StepNumbers DEF Paid, Fit, Callers, OrderRow, Invocation
<1>1. /\ RowSteps(o, order'[o].step) /\ RunBecomes(o, c, run'[o][c]) /\ UNCHANGED revived
      /\ Used(o)
  BY InvocationFrame
<1>2. UNCHANGED charged
  BY DEF Delay, MarkPeriodProcessing, MarkActive, MarkPeriodDone, MarkPeriodFailed,
         MarkSuspended, StepFails, history
<1>3. /\ Billed(order[o].period)' <=> Billed(order[o].period)
      /\ order'[o].period = order[o].period /\ order'[o].action = order[o].action
      /\ order'[o].status = order[o].status
  BY <1>1, <1>2 DEF Billed, RowSteps
<1>4. c = "op" => /\ order[o].action = "ABORT" /\ order[o].status # "CONFIRMED"
                  /\ run'[o]["cron"] = run[o]["cron"]
                  /\ run[o]["op"].pc # "step" \/ run[o]["op"].action = "ABORT"
                  /\ run[o]["op"].pc # "active"
  <2>1. run[o][c].pc # "idle" /\ run[o][c].action \in {"RUN", "ABORT"}
    BY InvocationFrame, TypeRows DEF Invocation
  <2>2. QED
    BY <1>0, <1>1, <2>1 DEF OrderFits, InvocationFits, RunBecomes
<1>5. CASE Delay(o, c)
  <2>1. PICK i \in {0, 3} :
          At(o, c, "RUN", i) /\ RowSteps(o, i + 1) /\ RunEnds(o, c, "PENDING")
    BY <1>5, DelayEffect, StepNumbers
  <2>2. c = "cron" /\ Running(o) /\ run[o]["cron"].i = i
    BY <1>0, <2>1 DEF At, InvocationFits, Running
  <2>3. order'[o].step = i + 1 /\ run'[o]["cron"].pc = "final" /\ run'[o]["cron"].out = "PENDING"
    BY <2>1, <2>2 DEF RowSteps, RunEnds
  <2>4. BillsFit(o)'
    BY <1>0, <1>1, <1>3, <2>2, <2>3, StepNumbers DEF BillsFit, Running, Again, Used, FinalStati
  <2>5. QED
    BY <1>2, <2>4
<1>6. CASE MarkPeriodProcessing(o, c)
  <2>1. RowSteps(o, 2) /\ RunGoes(o, c, "step", 2) /\ At(o, c, "RUN", 1)
    BY <1>6, GoOnEffect, StepNumbers DEF MarkPeriodProcessing, At
  <2>2. c = "cron" /\ Running(o) /\ run[o]["cron"].i = 1
    BY <1>0, <2>1 DEF At, InvocationFits, Running
  <2>3. order'[o].step = 2 /\ run'[o]["cron"].pc = "step" /\ run'[o]["cron"].i = 2
    BY <2>1, <2>2 DEF RowSteps, RunGoes
  <2>4. BillsFit(o)'
    BY <1>0, <1>1, <1>3, <2>2, <2>3, StepNumbers DEF BillsFit, Running, Again, Used
  <2>5. QED
    BY <1>2, <2>4
<1>7. CASE MarkActive(o, c)
  <2>1. RowSteps(o, 4) /\ RunGoes(o, c, "active", run[o][c].i) /\ At(o, c, "RUN", 4)
    BY <1>7, PlaceEffect, StepNumbers DEF MarkActive
  <2>2. c = "cron" /\ Running(o) /\ run[o]["cron"].i = 4
    BY <1>0, <2>1 DEF At, InvocationFits, Running
  <2>3. order'[o].step = 4 /\ run'[o]["cron"].pc = "active"
    BY <2>1, <2>2 DEF RowSteps, RunGoes
  <2>4. BillsFit(o)'
    BY <1>0, <1>1, <1>3, <2>2, <2>3, StepNumbers DEF BillsFit, Running, Again, Used
  <2>5. QED
    BY <1>2, <2>4
<1>8. CASE MarkPeriodDone(o, c)
  <2>1. RowSteps(o, -1) /\ RunEnds(o, c, "DONE") /\ run[o][c].pc = "active"
    BY <1>8, EndEffect, StepNumbers DEF MarkPeriodDone, MarkSuspended
  <2>2. c = "cron" /\ Billed(order[o].period)
    BY <1>0, <2>1 DEF InvocationFits, BillsFit
  <2>3. order'[o].step = -1 /\ run'[o]["cron"].pc = "final" /\ run'[o]["cron"].out = "DONE"
    BY <2>1, <2>2 DEF RowSteps, RunEnds
  <2>4. BillsFit(o)'
    BY <1>0, <1>1, <1>3, <2>1, <2>2, <2>3, StepNumbers
       DEF BillsFit, Running, Again, Used, FinalStati
  <2>5. QED
    BY <1>2, <2>4
<1>9. CASE MarkPeriodFailed(o, c) \/ MarkSuspended(o, c)
  <2>1. /\ order'[o].step \in {-1, 1} /\ order[o].action = "ABORT"
        /\ run'[o][c].pc \in {"failed", "final"}
    <3>1. CASE MarkPeriodFailed(o, c)
      <4>1. RowSteps(o, 1) /\ RunGoes(o, c, "failed", run[o][c].i) /\ At(o, c, "ABORT", 1)
        BY <3>1, PlaceEffect, StepNumbers DEF MarkPeriodFailed
      <4>2. QED
        BY <1>0, <4>1 DEF InvocationFits, At, RowSteps, RunGoes
    <3>2. CASE MarkSuspended(o, c)
      <4>1. RowSteps(o, -1) /\ RunEnds(o, c, "ABORTED") /\ run[o][c].pc = "failed"
        BY <3>2, EndEffect, StepNumbers DEF MarkPeriodDone, MarkSuspended
      <4>2. QED
        BY <1>0, <4>1 DEF InvocationFits, RowSteps, RunEnds
    <3>3. QED
      BY <1>9, <3>1, <3>2
  <2>2. run'[o]["cron"] = run[o]["cron"] \/ run'[o]["cron"].pc \in {"failed", "final"}
    BY <1>0, <1>4, <2>1
  <2>3. BillsFit(o)'
    BY <1>0, <1>1, <1>3, <2>1, <2>2, StepNumbers DEF BillsFit, Running, Used
  <2>4. QED
    BY <1>2, <2>3
<1>10. CASE StepFails(o, c)
  <2>1. /\ run[o][c].pc \in {"step", "active", "failed"}
        /\ order'[o].step = run[o][c].i
        /\ run'[o][c].pc = "final" /\ run'[o][c].out \in {"ERROR", "ABORTED"}
    BY <1>10, StepFailsEffect DEF RowSteps, RunEnds
  <2>2. CASE c = "op"
    <3>1. order[o].action = "ABORT" /\ order'[o].step = 1 /\ run'[o]["cron"] = run[o]["cron"]
      BY <1>0, <1>4, <2>1, <2>2, StepNumbers DEF InvocationFits
    <3>2. BillsFit(o)'
      BY <1>0, <1>1, <1>3, <3>1, StepNumbers DEF BillsFit, Running, Used
    <3>3. QED
      BY <1>2, <3>2
  <2>3. CASE c = "cron"
    <3>1. CASE run[o]["cron"].pc = "step" /\ run[o]["cron"].action = "RUN"
      <4>1. BillsFit(o)'
        BY <1>0, <1>1, <1>3, <2>1, <2>3, <3>1, StepNumbers DEF BillsFit, Running, Used
      <4>2. QED
        BY <1>2, <4>1
    <3>2. CASE run[o]["cron"].pc = "active"
      <4>1. order'[o].step = 4
        BY <1>0, <2>1, <2>3, <3>2, StepNumbers DEF InvocationFits
      <4>2. BillsFit(o)'
        BY <1>0, <1>1, <1>3, <2>1, <2>3, <3>2, <4>1, StepNumbers
           DEF BillsFit, Running, Again, Used
      <4>3. QED
        BY <1>2, <4>2
    <3>3. CASE order[o].action = "ABORT" /\ run[o]["cron"].i = SUBSCRIPTION
      <4>1. BillsFit(o)'
        BY <1>0, <1>1, <1>3, <2>1, <2>3, <3>3, StepNumbers DEF BillsFit, Running, Used
      <4>2. QED
        BY <1>2, <4>1
    <3>4. run[o]["cron"].action \in {"RUN", "ABORT"}
      BY <1>0, TypeRows DEF Invocation
    <3>5. QED
      BY <1>0, <2>1, <2>3, <3>1, <3>2, <3>3, <3>4 DEF InvocationFits
  <2>4. QED
    BY <1>0, <2>2, <2>3
<1>11. QED
  BY <1>5, <1>6, <1>7, <1>8, <1>9, <1>10

(* The bill itself: the first one of a period that no operation revived *)
LEMMA BillPaid ==
  ASSUME TypeOK, Fit, Paid, NEW o \in Orders, NEW c \in Callers, Bill(o, c)
  PROVE  Paid'
<1>a. PICK p \in Periods, f \in Offers : p = order[o].period /\ f = run[o][c].offer
  BY TypeRows DEF OrderRow, Invocation
<1>0. /\ OrderFits(o) /\ InvocationFits(o, c) /\ BillsFit(o) /\ "cron" \in Callers
      /\ PeriodsFit /\ charged \in [Periods -> [Offers -> Nat]]
  BY DEF TypeOK, Paid, Fit, Callers
<1>1. /\ At(o, c, "RUN", 2) /\ RowSteps(o, 3) /\ RunGoes(o, c, "step", 3)
      /\ charged' = [charged EXCEPT ![p][f] = @ + 1] /\ UNCHANGED <<period, renewing, revived>>
  BY <1>a, GoOnEffect, StepNumbers DEF Bill, At
<1>2. c = "cron" /\ Running(o) /\ run[o]["cron"].i = 2 /\ Used(o)
  BY <1>0, <1>1, InvocationFrame DEF At, InvocationFits, Running
<1>3. /\ charged'[p][f] = charged[p][f] + 1
      /\ \A g \in Offers \ {f} : charged'[p][g] = charged[p][g]
      /\ \A q \in Periods \ {p} : charged'[q] = charged[q]
  BY <1>0, <1>1
<1>4. Billed(p)' /\ \A q \in Periods \ {p} : Billed(q)' <=> Billed(q)
  <2>1. charged'[p][f] > 0
    <3>1. charged[p][f] \in Nat
      BY <1>0
    <3>2. QED
      BY <1>3, <3>1
  <2>2. QED
    BY <1>0, <1>3, <2>1 DEF Billed
<1>5. p \notin revived => ~Billed(p)
  BY <1>0, <1>2, <1>a, StepNumbers DEF BillsFit
<1>6. \A q \in Periods : Billed(q) => Billed(q)'
  BY <1>4 DEF Billed
<1>7. \A q \in Orders : /\ order'[q].period = order[q].period /\ order'[q].status = order[q].status
                        /\ order'[q].action = order[q].action /\ order[q].period \in Periods
  BY <1>1, TypeRows DEF RowSteps, RowBecomes, OrderRow
<1>8. BillsFit(o)'
  <2>1. /\ order'[o].step = 3 /\ run'[o]["cron"].pc = "step" /\ run'[o]["cron"].i = 3
    BY <1>1, <1>2 DEF RowSteps, RunGoes
  <2>2. QED
    BY <1>0, <1>1, <1>2, <1>a, <1>4, <1>7, <2>1, StepNumbers
       DEF BillsFit, Running, Used, Unused
<1>9. ASSUME NEW q \in Orders \ {o} PROVE BillsFit(q)'
  <2>1. order'[q] = order[q] /\ run'[q] = run[q] /\ BillsFit(q) /\ OrderFits(q)
    BY <1>1 DEF RowSteps, RowBecomes, RunGoes, RunBecomes, Paid, Fit
  <2>2. CASE order[q].period = p /\ p \notin revived
    <3>1. ~Used(q)
      BY <1>0, <1>2, <1>a, <2>2 DEF PeriodsFit, OneOrder
    <3>2. QED
      BY <1>1, <1>6, <1>7, <2>1, <3>1 DEF BillsFit, Running, Used, Unused
  <2>3. CASE ~(order[q].period = p /\ p \notin revived)
    BY <1>1, <1>4, <1>6, <1>7, <2>1, <2>3 DEF BillsFit, Running, Again, Used, Unused
  <2>4. QED
    BY <2>2, <2>3
<1>10. \A q \in Periods : ~Exists(q)' \/ (Renewable(q)' /\ q \notin revived') => ~Billed(q)'
  <2>1. Exists(p)
    BY <1>0, <1>a DEF OrderFits
  <2>2. p \notin revived => ~Renewable(p)
    BY <1>0, <1>2, <1>a DEF PeriodsFit, OneOrder, Renewable
  <2>3. QED
    BY <1>1, <1>4, <2>1, <2>2 DEF Paid, Exists, Renewable
<1>11. BilledOnce'
  <2>1. ASSUME NEW q \in Periods, q \notin revived, NEW g \in Offers, NEW h \in Offers
        PROVE  charged'[q][g] <= 1 /\ (charged'[q][g] * charged'[q][h] # 0 => g = h)
    <3>1. CASE q # p
      BY <1>3, <2>1, <3>1 DEF Paid, BilledForService, BilledOnce
    <3>2. CASE q = p
      <4>1. \A e \in Offers : charged[p][e] = 0
        BY <1>0, <1>5, <2>1, <3>2 DEF Billed
      <4>2. \A e \in Offers : charged'[p][e] = IF e = f THEN 1 ELSE 0
        BY <1>0, <1>3, <4>1
      <4>3. QED
        BY <3>2, <4>2
    <3>3. QED
      BY <3>1, <3>2
  <2>2. QED
    BY <1>1, <2>1 DEF BilledOnce
<1>12. DoneWasBilled'
  BY <1>1, <1>6 DEF Paid, BilledForService, DoneWasBilled
<1>13. QED
  BY <1>8, <1>9, <1>10, <1>11, <1>12 DEF Paid, BilledForService

LEMMA FinalUpdatePaid ==
  ASSUME TypeOK, Fit, Paid, NEW o \in Orders, NEW c \in Callers, FinalUpdate(o, c)
  PROVE  Paid'
<1>1. /\ run[o][c].pc = "final" /\ RunBecomes(o, c, run'[o][c]) /\ run'[o][c].pc = "idle"
      /\ Used(o) /\ order[o].status # "CONFIRMED"
      /\ order'[o].period = order[o].period /\ order'[o].action = order[o].action
      /\ order'[o].step = order[o].step
      /\ \A q \in Orders \ {o} : order'[q] = order[q]
      /\ \/ order[o].status = "PROCESSING" /\ order'[o].status = run[o][c].out
         \/ order[o].status # "PROCESSING" /\ order' = order
      /\ c = "op" => order[o].action = "ABORT"
      /\ UNCHANGED <<period, renewing, charged, revived>>
  BY FinalUpdateFrame
<1>2. /\ BillsFit(o) /\ "cron" \in Callers /\ c \in {"cron", "op"}
      /\ Billed(order[o].period)' <=> Billed(order[o].period)
  BY <1>1 DEF Paid, Callers, Billed
<1>3. BillsFit(o)'
  <2>1. CASE c = "cron"
    BY <1>1, <1>2, <2>1 DEF BillsFit, Running, Again, Used, FinalStati
  <2>2. CASE c = "op"
    <3>1. run'[o]["cron"] = run[o]["cron"]
      BY <1>1, <1>2, <2>2 DEF RunBecomes
    <3>2. QED
      BY <1>1, <1>2, <2>2, <3>1 DEF BillsFit, Running, Used
  <2>3. QED
    BY <1>2, <2>1, <2>2
<1>4. \A q \in Orders \ {o} : BillsFit(q)'
  BY <1>1, BillsStay DEF Paid, RunBecomes
<1>5. QED
  BY <1>1, <1>3, <1>4, PaidStays DEF Exists, Renewable

LEMMA InvocationPaid ==
  ASSUME TypeOK, Fit, Paid, NEW o \in Orders, NEW c \in Callers,
         InvocationStep(o, c) \/ StepFails(o, c)
  PROVE  Paid'
<1>1. CASE Bill(o, c) \/ FinalUpdate(o, c)
  BY <1>1, BillPaid, FinalUpdatePaid
<1>2. CASE ~(Bill(o, c) \/ FinalUpdate(o, c))
  <2>1. BillsFit(o)' /\ UNCHANGED charged
    BY <1>2, InvocationBills DEF InvocationStep
  <2>2. /\ RowSteps(o, order'[o].step) /\ RunBecomes(o, c, run'[o][c])
        /\ \A p \in Periods : \/ period'[p] = period[p]
                              \/ /\ p = order[o].period
                                 /\ period'[p] \in {"PROCESSING", "DONE", "FAILED"}
        /\ UNCHANGED <<renewing, revived>>
    BY <1>2, InvocationFrame DEF InvocationStep
  <2>3. \A q \in Orders \ {o} : BillsFit(q)'
    BY <2>1, <2>2, BillsStay DEF Paid, RowSteps, RowBecomes, RunBecomes
  <2>4. ASSUME NEW p \in Periods, period'[p] = "DONE", period[p] # "DONE" PROVE Billed(p)
    <3>1. MarkPeriodDone(o, c) /\ p = order[o].period
      <4>1. p = order[o].period
        BY <2>2, <2>4
      <4>2. period \in [Periods -> PeriodStatus] /\ period'[p] # period[p]
        BY <2>4 DEF TypeOK
      <4>3. CASE MarkPeriodProcessing(o, c)
        BY <2>4, <4>1, <4>2, <4>3 DEF MarkPeriodProcessing
      <4>4. CASE MarkPeriodFailed(o, c)
        BY <2>4, <4>1, <4>2, <4>4 DEF MarkPeriodFailed
      <4>5. ~(Delay(o, c) \/ MarkActive(o, c) \/ MarkSuspended(o, c) \/ StepFails(o, c))
        BY <4>2 DEF Delay, MarkActive, MarkSuspended, StepFails
      <4>6. QED
        BY <1>2, <4>1, <4>3, <4>4, <4>5 DEF InvocationStep
    <3>2. run[o]["cron"].pc = "active"
      BY <3>1 DEF MarkPeriodDone, Fit, InvocationFits
    <3>3. QED
      BY <3>1, <3>2 DEF Paid, BillsFit
  <2>5. \A p \in Periods : (Exists(p) => Exists(p)') /\ (Renewable(p)' => Renewable(p))
    BY <2>2 DEF Exists, Renewable
  <2>6. QED
    BY <2>1, <2>2, <2>3, <2>4, <2>5, PaidStays
<1>3. QED
  BY <1>1, <1>2

LEMMA CreatePaid ==
  ASSUME TypeOK, Fit, Paid, NEW p \in Periods, NEW f \in Offers, CreateRenewPlan(p, f), Exists(p),
         UNCHANGED <<period, run, charged, revived>>, renewing' \subseteq renewing,
         p \in revived \/ Renewable(p)
  PROVE  Paid'
<1>1. PICK o \in Orders :
        /\ Unused(o) /\ RowBecomes(o, order'[o]) /\ order'[o].period = p
        /\ order'[o].status = "CONFIRMED" /\ order'[o].action = order[o].action
        /\ order'[o].step = order[o].step
  BY CreateEffect
<1>2. BillsFit(o)'
  <2>1. order[o].step = NoStep /\ run[o]["cron"].pc = "idle" /\ run' = run
    BY <1>1 DEF Fit, OrderFits
  <2>2. p \notin revived => ~Billed(p)'
    BY DEF Paid, Billed
  <2>3. QED
    BY <1>1, <2>1, <2>2, StepNumbers DEF BillsFit, Running
<1>3. \A q \in Orders \ {o} : BillsFit(q)'
  BY <1>1, BillsStay DEF Paid, RowBecomes
<1>4. \A q \in Periods : (Exists(q) => Exists(q)') /\ (Renewable(q)' => Renewable(q))
  BY DEF Exists, Renewable
<1>5. QED
  BY <1>2, <1>3, <1>4, PaidStays

(* Nothing happens to the rows, or no more than a new period with its order *)
(* to be                                                                    *)
LEMMA RowsSamePaid ==
  ASSUME Paid, UNCHANGED <<order, charged>>, revived \subseteq revived',
         \A o \in Orders : run'[o]["cron"] = run[o]["cron"],
         \A p \in Periods : Exists(p) => Exists(p)',
         \A p \in Periods : Renewable(p)' => Renewable(p) \/ ~Exists(p),
         \A p \in Periods : period'[p] = "DONE" => period[p] = "DONE"
  PROVE  Paid'
BY BillsStay, PaidStays DEF Paid

LEMMA CronPaid ==
  ASSUME TypeOK, Fit, Paid,
         \/ \E o \in Orders : ProcessConfirmed(o) \/ ProcessPending(o)
         \/ Renewing \/ Changing \/ Tick
  PROVE  Paid'
<1>1. ASSUME NEW o \in Orders, ProcessConfirmed(o) PROVE Paid'
  <2>1. /\ RowMarked(o, "PENDING", order[o].action) /\ order[o].status = "CONFIRMED"
        /\ UNCHANGED <<period, run, renewing, charged, revived>>
    BY <1>1, ProcessConfirmedEffect DEF ProcessConfirmed, history
  <2>2. BillsFit(o)'
    <3>1. BillsFit(o) /\ OrderFits(o) /\ (Billed(order[o].period)' <=> Billed(order[o].period))
      BY <2>1 DEF Paid, Fit, Billed, RowMarked
    <3>2. QED
      BY <2>1, <3>1 DEF OrderFits, BillsFit, Running, Again, RowMarked, Used, Unused
  <2>3. \A q \in Orders \ {o} : BillsFit(q)'
    BY <2>1, BillsStay DEF Paid, RowMarked, RowBecomes
  <2>4. QED
    BY <2>1, <2>2, <2>3, PaidStays DEF Exists, Renewable
<1>2. ASSUME NEW o \in Orders, ProcessPending(o) PROVE Paid'
  <2>1. /\ RowMarked(o, "PROCESSING", order[o].action)
        /\ order[o].status \in {"PENDING", "ERROR"} /\ order[o].action \in {"RUN", "ABORT"}
        /\ RunBecomes(o, "cron", run'[o]["cron"])
        /\ UNCHANGED <<period, renewing, charged, revived>>
    BY <1>2, ClaimFrame
  <2>2. LET r == run'[o]["cron"] IN
        /\ r.action = order[o].action /\ r.pc \in {"step", "final"}
        /\ order[o].action = "RUN" => r.i = IF order[o].step = NoStep
                                            THEN DELAY_BILLING ELSE order[o].step
    BY <1>2, ClaimFrame
  <2>3. BillsFit(o)'
    <3>1. BillsFit(o) /\ (Billed(order[o].period)' <=> Billed(order[o].period))
      BY <2>1 DEF Paid, Billed, RowMarked
    <3>2. QED
      BY <2>1, <2>2, <3>1, StepNumbers DEF BillsFit, Running, Again, RowMarked, Used, Unused
  <2>4. \A q \in Orders \ {o} : BillsFit(q)'
    BY <2>1, BillsStay DEF Paid, RowMarked, RowBecomes, RunBecomes
  <2>5. QED
    BY <2>1, <2>3, <2>4, PaidStays DEF Exists, Renewable
<1>3. ASSUME NEW p \in Periods, RenewPeriod(p) PROVE Paid'
  <2>1. /\ ~Exists(p) /\ period' = [period EXCEPT ![p] = "PENDING"]
        /\ renewing' = renewing \cup {<<p, sub.offer>>}
        /\ UNCHANGED <<order, run, charged, revived>>
    BY <1>3 DEF RenewPeriod
  <2>2. \A q \in Periods : period'[q] = IF q = p THEN "PENDING" ELSE period[q]
    BY <2>1 DEF TypeOK
  <2>3. \A q \in Periods : Exists(q) => Exists(q)'
    BY <2>2 DEF Exists
  <2>4. \A q \in Periods : Renewable(q)' => Renewable(q) \/ ~Exists(q)
    BY <2>1 DEF Renewable
  <2>5. QED
    BY <2>1, <2>2, <2>3, <2>4, RowsSamePaid
<1>4. ASSUME NEW p \in Periods, RenewOrder(p) PROVE Paid'
  <2>1. PICK f \in Offers :
          /\ <<p, f>> \in renewing /\ renewing' = renewing \ {<<p, f>>}
          /\ CreateRenewPlan(p, f)
          /\ UNCHANGED <<period, run, charged, revived>>
    BY <1>4 DEF RenewOrder
  <2>2. Exists(p) /\ Renewable(p)
    BY <2>1 DEF Fit, PeriodsFit, Renewable
  <2>3. QED
    BY <2>1, <2>2, CreatePaid
<1>5. CASE Changing \/ Tick
  <2>1. UNCHANGED <<period, order, run, renewing, charged, revived>>
    BY <1>5 DEF Changing, ReadExpired, ChangePeriod, Expire, Tick, history
  <2>2. QED
    BY <2>1, RowsSamePaid DEF Exists, Renewable
<1>6. QED
  BY <1>1, <1>2, <1>3, <1>4, <1>5 DEF Renewing

LEMMA OperationPaid ==
  ASSUME TypeOK, Fit, Paid, Operation
  PROVE  Paid'
<1>1. CASE Cancel \/ Suspend \/ Deactivate \/ \E f \in Offers : ChangeOffer(f)
  <2>1. UNCHANGED <<period, order, run, renewing, charged, revived>>
    BY <1>1 DEF Cancel, Suspend, Deactivate, ChangeOffer, history
  <2>2. QED
    BY <2>1, RowsSamePaid DEF Exists, Renewable
<1>2. ASSUME NEW stati, Revive(stati) PROVE Paid'
  <2> DEFINE again == {p \in Periods : Future(p) /\ period[p] = "CANCELLED"}
  <2>1. /\ UNCHANGED <<order, run, renewing, charged>> /\ revived \subseteq revived'
        /\ period' = [p \in Periods |-> IF p \in again THEN "PENDING" ELSE period[p]]
    BY <1>2 DEF Revive
  <2> HIDE DEF again
  <2>2. \A p \in Periods : period'[p] = "PENDING" \/ period'[p] = period[p]
    BY <2>1
  <2>3. \A p \in Periods : Exists(p) => Exists(p)'
    BY <2>2 DEF Exists
  <2>4. QED
    BY <2>1, <2>2, <2>3, RowsSamePaid DEF Renewable
<1>3. ASSUME NEW p \in Periods, RerunPeriod(p) PROVE Paid'
  <2>1. /\ UNCHANGED <<period, run, renewing, charged>> /\ revived' = revived \cup {p}
    BY <1>3 DEF RerunPeriod
  <2>2. ASSUME NEW q \in Orders PROVE BillsFit(q)'
    <3>1. \/ order'[q] = order[q]
          \/ /\ order[q].period = p /\ order'[q].period = p /\ order'[q].step = order[q].step
      BY <1>3, RerunEffect
    <3>2. BillsFit(q) /\ (Billed(p)' <=> Billed(p))
      BY <2>1 DEF Paid, Billed
    <3>3. CASE order'[q] = order[q]
      BY <2>1, <3>2, <3>3, BillsStay
    <3>4. CASE order[q].period = p /\ order'[q].period = p /\ order'[q].step = order[q].step
      BY <2>1, <3>2, <3>4 DEF BillsFit, Running
    <3>5. QED
      BY <3>1, <3>3, <3>4
  <2>3. QED
    BY <2>1, <2>2, PaidStays DEF Exists, Renewable
<1>4. QED
  BY <1>1, <1>2, <1>3 DEF Operation, Uncancel, Reactivate

LEMMA OperationStepPaid ==
  ASSUME TypeOK, Fit, Paid, OperationStep \/ OpFails \/ Crash
  PROVE  Paid'
<1>1. ASSUME NEW o \in Orders, OpAbort(o) PROVE Paid'
  <2>1. /\ UNCHANGED <<period, renewing, charged, revived>> /\ "cron" \in Callers /\ "op" # "cron"
        /\ BillsFit(o) /\ \A p : Billed(p)' <=> Billed(p)
    BY <1>1 DEF OpAbort, Paid, Callers, Billed
  <2>2. \/ UNCHANGED <<order, run>>
        \/ /\ RowBecomes(o, order'[o]) /\ order'[o].period = order[o].period
           /\ order'[o].step = order[o].step /\ order'[o].action = "ABORT"
           /\ order'[o].status \in {"ABORTED", "PROCESSING"}
           /\ order[o].status # "ABSENT"
           /\ \A q \in Orders : run'[q]["cron"] = run[q]["cron"]
    <3>1. Used(o)
      BY <1>1 DEF OpAbort, Fit, OpFits
    <3>2. RunBecomes(o, "op", Claimed(o, "ABORT")) =>
            \A q \in Orders : run'[q]["cron"] = run[q]["cron"]
      BY <2>1 DEF RunBecomes
    <3>3. QED
      BY <1>1, <3>1, <3>2, OpAbortEffect DEF RowMarked, Used, Unused
  <2>3. CASE UNCHANGED <<order, run>>
    BY <2>1, <2>3, RowsSamePaid DEF Exists, Renewable
  <2>4. CASE ~UNCHANGED <<order, run>>
    <3>1. BillsFit(o)'
      BY <2>1, <2>2, <2>4 DEF BillsFit, Running, Used, Unused
    <3>2. \A q \in Orders \ {o} : BillsFit(q)'
      BY <2>1, <2>2, <2>4, BillsStay DEF Paid, RowBecomes
    <3>3. QED
      BY <2>1, <3>1, <3>2, PaidStays DEF Exists, Renewable
  <2>5. QED
    BY <2>3, <2>4
<1>2. ASSUME NEW p \in Periods, OpCancelPeriod(p) \/ OpReset(p) PROVE Paid'
  <2>1. PICK s \in {"CANCELLED", "PENDING"} :
          /\ period' = [period EXCEPT ![p] = s]
          /\ UNCHANGED <<order, run, renewing, charged, revived>>
    BY <1>2 DEF OpCancelPeriod, OpReset, history
  <2>2. \A q \in Periods : period'[q] = period[q] \/ period'[q] \in {"CANCELLED", "PENDING"}
    BY <2>1 DEF TypeOK
  <2>3. \A q \in Periods : Exists(q) => Exists(q)'
    BY <2>2 DEF Exists
  <2>4. QED
    BY <2>1, <2>2, <2>3, RowsSamePaid DEF Renewable
<1>3. ASSUME NEW p \in Periods, OpRenew(p) PROVE Paid'
  <2>1. /\ CreateRenewPlan(p, op.offer) /\ op.offer \in Offers /\ p \in op.renew
        /\ UNCHANGED <<period, run, renewing, charged, revived>>
    BY <1>3 DEF OpRenew, TypeOK
  <2>2. Exists(p) /\ p \in revived
    BY <2>1 DEF Fit, OpFits
  <2>3. QED
    BY <2>1, <2>2, CreatePaid
<1>4. CASE OpFails \/ \E p \in Periods : OpFindOrders(p)
  <2>1. UNCHANGED <<period, order, run, renewing, charged, revived>>
    BY <1>4 DEF OpFails, OpFindOrders
  <2>2. QED
    BY <2>1, RowsSamePaid DEF Exists, Renewable
<1>5. CASE OpMoveOrders
  <2>1. UNCHANGED <<period, run, renewing, charged, revived>>
    BY <1>5 DEF OpMoveOrders
  <2>2. ASSUME NEW q \in Orders PROVE BillsFit(q)'
    <3>1. /\ order'[q].period = order[q].period /\ order'[q].status = order[q].status
          /\ order'[q].action = order[q].action /\ order'[q].step = order[q].step
      BY <1>5, MoveEffect
    <3>2. QED
      BY <2>1, <3>1, BillsStay DEF Paid
  <2>3. QED
    BY <2>1, <2>2, PaidStays DEF Exists, Renewable
<1>6. CASE Crash
  <2>1. /\ UNCHANGED <<period, order, charged, revived>> /\ renewing' = {}
        /\ \A o \in Orders : run'[o]["cron"].pc = "idle"
    BY <1>6, IdleInvocation DEF Crash, Callers
  <2>2. ASSUME NEW o \in Orders PROVE BillsFit(o)'
    <3>1. BillsFit(o) /\ (Billed(order[o].period)' <=> Billed(order[o].period))
      BY <2>1 DEF Paid, Billed
    <3>2. QED
      BY <2>1, <3>1 DEF BillsFit, Running, Again, Used, Unused
  <2>3. QED
    BY <2>1, <2>2, PaidStays DEF Exists, Renewable
<1>7. QED
  BY <1>1, <1>2, <1>3, <1>4, <1>5, <1>6 DEF OperationStep

LEMMA InitPaid == Init => Paid
<1> SUFFICES ASSUME Init PROVE Paid
  OBVIOUS
<1>1. 0 \in Periods /\ InitialOffer \in Offers
  BY SubscriptionAssumption DEF Periods
<1>2. \A p \in Periods, f \in Offers :
        charged[p][f] = IF p = 0 /\ f = InitialOffer THEN 1 ELSE 0
  BY DEF Init
<1>3. Billed(0) /\ \A p \in Periods \ {0} : ~Billed(p)
  BY <1>1, <1>2 DEF Billed
<1>4. ASSUME NEW o \in Orders PROVE BillsFit(o)
  <2>1. /\ order[o].period = 0 /\ run[o]["cron"].pc = "idle"
        /\ order[o].status = IF o # AddPlan THEN "ABSENT"
                             ELSE IF Activated THEN "DONE" ELSE "PENDING"
        /\ order[o].step = IF o = AddPlan /\ ~Activated THEN TELCO ELSE NoStep
    BY IdleInvocation DEF Init, Callers
  <2>2. QED
    BY <1>3, <2>1, StepNumbers DEF BillsFit, Running, Again, Used, Unused
<1>5. \A p \in Periods : Exists(p) <=> p = 0
  BY <1>1 DEF Init, Exists
<1>6. renewing = {}
  BY DEF Init
<1>7. BilledOnce
  BY <1>2 DEF BilledOnce
<1>8. DoneWasBilled
  BY <1>1, <1>3, <1>5 DEF DoneWasBilled, Exists
<1>9. QED
  BY <1>3, <1>4, <1>5, <1>6, <1>7, <1>8 DEF Paid, BilledForService, Renewable

LEMMA NextPaid == TypeOK /\ Fit /\ Paid /\ [Next]_vars => Paid'
<1> SUFFICES ASSUME TypeOK, Fit, Paid, [Next]_vars PROVE Paid'
  OBVIOUS
<1>1. CASE UNCHANGED vars
  BY <1>1, RowsSamePaid DEF vars, Exists, Renewable
<1>2. QED
  BY <1>1, InvocationPaid, CronPaid, OperationPaid, OperationStepPaid DEF Next

(* A period is paid for at most once, and before it is served: what order   *)
(* of it runs, and from which step, follows from the step that was recorded *)
(* when it was billed.                                                      *)
THEOREM BillsMatchService == Spec => []BilledForService
<1>1. Init => TypeOK /\ Fit /\ Paid
  BY InitTypeOK, InitFit, InitPaid
<1>2. TypeOK /\ Fit /\ Paid /\ [Next]_vars => (TypeOK /\ Fit /\ Paid)'
  BY NextTypeOK, NextFit, NextPaid
<1>3. TypeOK /\ Fit /\ Paid => BilledForService
  BY DEF Paid
<1>4. QED
  BY <1>1, <1>2, <1>3, PTL DEF Spec

-----------------------------------------------------------------------------
(* Served: as long as nothing crashes or fails, an order ends when its      *)
(* period does not wait any more                                            *)

LEMMA CalmStays ==
  ASSUME TypeOK, UNCHANGED spent \/ Spend("op", MaxOps)
  PROVE  Calm' => Calm
BY DEF TypeOK, Spend, Calm

LEMMA EndStays ==
  ASSUME NEW o \in Orders, EndFits(o), order'[o].period = order[o].period,
         order'[o].status = order[o].status, order'[o].step = order[o].step,
         run'[o] = run[o], revived \subseteq revived',
         /\ order[o].period \notin revived' /\ period'[order[o].period] = "PENDING"
         => /\ period[order[o].period] = "PENDING"
            /\ order[o].period \in op.cancel =>
                 op'.abort \subseteq op.abort /\ order[o].period \in op'.cancel
  PROVE  EndFits(o)'
BY DEF EndFits, Final, Used, Unused

LEMMA ServedStays ==
  ASSUME Served, Calm' => Calm, revived \subseteq revived',
         Calm => \A o \in Orders : EndFits(o)',
         \A p \in Periods : Exists(p)' => Exists(p) \/ Renewable(p)',
         \A p \in Periods : Renewable(p) =>
           Renewable(p)' \/ \E o \in Orders : Used(o)' /\ order'[o].period = p,
         \A o \in Orders : Used(o) => Used(o)' /\ order'[o].period = order[o].period
  PROVE  Served'
<1> SUFFICES ASSUME Calm' PROVE Served'
  BY DEF Served
<1>1. ASSUME NEW p \in Periods, Exists(p)', p \notin revived'
      PROVE  Renewable(p)' \/ \E o \in Orders : Used(o)' /\ order'[o].period = p
  <2>1. CASE Renewable(p)'
    BY <2>1
  <2>2. CASE ~Renewable(p)'
    <3>1. Renewable(p) \/ \E o \in Orders : Used(o) /\ order[o].period = p
      BY <1>1, <2>2 DEF Served
    <3>2. QED
      BY <2>2, <3>1
  <2>3. QED
    BY <2>1, <2>2
<1>2. QED
  BY <1>1 DEF Served

LEMMA InvocationEnds ==
  ASSUME TypeOK, Fit, NEW o \in Orders, NEW c \in Callers, EndFits(o),
         \/ Delay(o, c) \/ MarkPeriodProcessing(o, c) \/ Bill(o, c)
         \/ MarkActive(o, c) \/ MarkPeriodDone(o, c)
         \/ MarkPeriodFailed(o, c) \/ MarkSuspended(o, c)
  PROVE  EndFits(o)'
<1>0. order[o].period \in Periods /\ period \in [Periods -> PeriodStatus]
  BY TypeRows DEF TypeOK, OrderRow
<1>1. /\ RowSteps(o, order'[o].step) /\ RunBecomes(o, c, run'[o][c])
      /\ \A p \in Periods : \/ period'[p] = period[p]
                            \/ period'[p] \in {"PROCESSING", "DONE", "FAILED"}
      /\ UNCHANGED <<op, revived>> /\ Used(o)
  BY InvocationFrame
<1>2. /\ order'[o].step # DELAY_BILLING
      /\ \/ run'[o][c].pc = "failed"
         \/ run'[o][c].pc = "final" /\ run'[o][c].out \in FinalStati
         => \/ period'[order[o].period] # "PENDING"
            \/ run[o][c].pc = "failed" /\ period' = period
  <2>1. CASE Delay(o, c)
    <3>1. PICK i \in {0, 3} : RowSteps(o, i + 1) /\ RunEnds(o, c, "PENDING")
      BY <2>1, DelayEffect, StepNumbers
    <3>2. QED
      BY <3>1, StepNumbers DEF RowSteps, RunEnds, FinalStati
  <2>2. CASE MarkPeriodProcessing(o, c)
    <3>1. RowSteps(o, 2) /\ RunGoes(o, c, "step", 2)
      BY <2>2, GoOnEffect, StepNumbers DEF MarkPeriodProcessing, At
    <3>2. QED
      BY <3>1, StepNumbers DEF RowSteps, RunGoes
  <2>3. CASE Bill(o, c)
    <3>1. RowSteps(o, 3) /\ RunGoes(o, c, "step", 3)
      BY <2>3, GoOnEffect, StepNumbers DEF Bill, At
    <3>2. QED
      BY <3>1, StepNumbers DEF RowSteps, RunGoes
  <2>4. CASE MarkActive(o, c)
    <3>1. RowSteps(o, 4) /\ RunGoes(o, c, "active", run[o][c].i)
      BY <2>4, PlaceEffect, StepNumbers DEF MarkActive
    <3>2. QED
      BY <3>1, StepNumbers DEF RowSteps, RunGoes
  <2>5. CASE MarkPeriodDone(o, c)
    <3>1. RowSteps(o, -1) /\ period'[order[o].period] = "DONE"
      BY <1>0, <2>5, EndEffect, StepNumbers DEF MarkPeriodDone, MarkSuspended
    <3>2. QED
      BY <3>1, StepNumbers DEF RowSteps
  <2>6. CASE MarkPeriodFailed(o, c)
    <3>1. RowSteps(o, 1) /\ period'[order[o].period] = "FAILED"
      BY <1>0, <2>6, PlaceEffect, StepNumbers DEF MarkPeriodFailed
    <3>2. QED
      BY <3>1, StepNumbers DEF RowSteps
  <2>7. CASE MarkSuspended(o, c)
    <3>1. RowSteps(o, -1) /\ run[o][c].pc = "failed" /\ period' = period
      BY <2>7, EndEffect, StepNumbers DEF MarkPeriodDone, MarkSuspended
    <3>2. QED
      BY <3>1, StepNumbers DEF RowSteps
  <2>8. QED
    BY <2>1, <2>2, <2>3, <2>4, <2>5, <2>6, <2>7
<1>3. /\ order'[o].period = order[o].period /\ order'[o].status = order[o].status
      /\ period'[order[o].period] = "PENDING" => period[order[o].period] = "PENDING"
      /\ \A d \in Callers \ {c} : run'[o][d] = run[o][d]
  BY <1>0, <1>1 DEF RowSteps, RunBecomes
<1>4. QED
  BY <1>1, <1>2, <1>3 DEF EndFits, Final

LEMMA FinalUpdateServed ==
  ASSUME TypeOK, Fit, Served, NEW o \in Orders, NEW c \in Callers, FinalUpdate(o, c)
  PROVE  Served'
<1>0. c \in {"cron", "op"} /\ OpFits /\ PeriodsFit
  BY DEF Fit, Callers
<1>1. /\ run[o][c].pc = "final" /\ RunBecomes(o, c, run'[o][c]) /\ run'[o][c].pc = "idle"
      /\ Used(o)
      /\ order'[o].period = order[o].period /\ order'[o].step = order[o].step
      /\ \A q \in Orders \ {o} : order'[q] = order[q]
      /\ \/ /\ order[o].status = "PROCESSING" /\ order'[o].status = run[o][c].out
            /\ run[o][c].out \in {"PENDING", "ERROR", "DONE", "ABORTED"}
         \/ order[o].status # "PROCESSING" /\ order' = order
      /\ c = "cron" => op' = op
      /\ c = "op" => /\ o \in op.abort
                     /\ \/ op' = NoOp
                        \/ op'.abort = op.abort \ {o} /\ op'.cancel = op.cancel
      /\ UNCHANGED <<period, renewing, spent, revived>>
  BY FinalUpdateFrame
<1>2. ASSUME Calm, NEW q \in Orders \ {o} PROVE EndFits(q)'
  <2>1. EndFits(q) /\ order'[q] = order[q] /\ run'[q] = run[q]
    BY <1>1, <1>2 DEF Served, RunBecomes
  <2>2. \/ op'.abort \subseteq op.abort /\ op'.cancel = op.cancel
        \/ o \in op.abort
    BY <1>0, <1>1
  <2>3. CASE op'.abort \subseteq op.abort /\ op'.cancel = op.cancel
    BY <1>1, <2>1, <2>3, EndStays
  <2>4. CASE o \in op.abort /\ op' = NoOp
    <3>1. /\ Used(o) /\ order[o].period \in op.cancel
          /\ \A p, r \in op.cancel : p = r
      BY <1>0, <2>4 DEF OpFits
    <3>2. Used(q) /\ order[q].period \notin revived => order[q].period \notin op.cancel
      <4>1. order[q].period \in Periods
        BY TypeRows DEF OrderRow
      <4>2. order[q].period = order[o].period /\ order[q].period \notin revived /\ Used(q) => q = o
        BY <1>0, <3>1, <4>1 DEF PeriodsFit, OneOrder
      <4>3. QED
        BY <3>1, <4>2
    <3>3. QED
      BY <1>1, <2>1, <3>2 DEF EndFits, Final, Used, Unused
  <2>5. QED
    BY <1>0, <1>1, <2>2, <2>3, <2>4
<1>3. ASSUME Calm PROVE EndFits(o)'
  <2>1. EndFits(o) /\ order[o].period \in Periods
    BY <1>3, TypeRows DEF Served, OrderRow
  <2>2. \A d \in Callers : \/ run'[o][d] = run[o][d]
                           \/ run'[o][d].pc = "idle"
    BY <1>1 DEF RunBecomes
  <2>3. /\ order[o].status = "PROCESSING" => ~Final(o)
        /\ order'[o].status = order[o].status \/ order[o].status = "PROCESSING"
    BY <1>1 DEF Final, FinalStati
  <2>4. ASSUME order[o].period \notin revived, period[order[o].period] = "PENDING", Final(o)'
        PROVE  o \notin op'.abort /\ order[o].period \in op'.cancel
    <3>1. order' = order /\ Final(o)
      BY <1>1, <2>1, <2>4 DEF EndFits, Final
    <3>2. o \notin op.abort /\ order[o].period \in op.cancel
      BY <1>1, <2>1, <2>4, <3>1 DEF EndFits
    <3>3. op' = op
      BY <1>0, <1>1, <3>2
    <3>4. QED
      BY <3>2, <3>3
  <2>5. QED
    BY <1>1, <2>1, <2>2, <2>4 DEF EndFits
<1>4. \A q \in Orders : Used(q) => Used(q)' /\ order'[q].period = order[q].period
  BY <1>1 DEF Used, Unused
<1>5. Calm' => Calm
  BY <1>1, CalmStays
<1>6. QED
  BY <1>1, <1>2, <1>3, <1>4, <1>5, ServedStays DEF Exists, Renewable

LEMMA InvocationServed ==
  ASSUME TypeOK, Fit, Served, NEW o \in Orders, NEW c \in Callers,
         InvocationStep(o, c) \/ StepFails(o, c)
  PROVE  Served'
<1>1. CASE FinalUpdate(o, c)
  BY <1>1, FinalUpdateServed
<1>2. CASE StepFails(o, c)
  <2>1. spent["failure"] \in Nat /\ spent'["failure"] = spent["failure"] + 1
    BY <1>2 DEF StepFails, Spend, TypeOK
  <2>2. ~Calm'
    BY <2>1 DEF Calm
  <2>3. QED
    BY <2>2 DEF Served
<1>3. CASE InvocationStep(o, c) /\ ~FinalUpdate(o, c)
  <2>1. /\ RowSteps(o, order'[o].step) /\ RunBecomes(o, c, run'[o][c])
        /\ \A p \in Periods : \/ period'[p] = period[p]
                              \/ /\ p = order[o].period
                                 /\ period'[p] \in {"PROCESSING", "DONE", "FAILED"}
        /\ UNCHANGED <<op, renewing, revived>>
    BY <1>3, InvocationFrame DEF InvocationStep
  <2>2. UNCHANGED spent
    BY <1>3 DEF InvocationStep, Delay, MarkPeriodProcessing, Bill, MarkActive, MarkPeriodDone,
                MarkPeriodFailed, MarkSuspended
  <2>3. \A q \in Orders : order[q].period \in Periods
    BY TypeRows DEF OrderRow
  <2>4. ASSUME Calm, NEW q \in Orders PROVE EndFits(q)'
    <3>1. EndFits(q)
      BY <2>4 DEF Served
    <3>2. CASE q = o
      BY <1>3, <3>1, <3>2, InvocationEnds DEF InvocationStep
    <3>3. CASE q # o
      <4>1. order'[q] = order[q] /\ run'[q] = run[q]
        BY <2>1, <3>3 DEF RowSteps, RowBecomes, RunBecomes
      <4>2. period'[order[q].period] = "PENDING" => period[order[q].period] = "PENDING"
        BY <2>1, <2>3
      <4>3. QED
        BY <2>1, <3>1, <4>1, <4>2, EndStays
    <3>4. QED
      BY <3>2, <3>3
  <2>5. \A q \in Orders : Used(q) => Used(q)' /\ order'[q].period = order[q].period
    BY <2>1 DEF RowSteps, RowBecomes, Used, Unused
  <2>6. \A p \in Periods : Exists(p)' => Exists(p)
    <3>1. \A q \in Orders : Exists(order[q].period)
      BY DEF Fit, OrderFits
    <3>2. QED
      BY <2>1, <3>1 DEF Exists
  <2>7. Calm' => Calm
    BY <2>2, CalmStays
  <2>8. QED
    BY <2>1, <2>4, <2>5, <2>6, <2>7, ServedStays DEF Renewable
<1>4. QED
  BY <1>1, <1>2, <1>3

LEMMA CreateServed ==
  ASSUME TypeOK, Fit, Served, NEW p \in Periods, NEW f \in Offers, CreateRenewPlan(p, f), Exists(p),
         UNCHANGED <<period, run, spent, revived>>,
         renewing' = renewing \/ renewing' = renewing \ {<<p, f>>},
         op'.abort = op.abort, op'.cancel = op.cancel
  PROVE  Served'
<1>1. PICK o \in Orders :
        /\ Unused(o) /\ RowBecomes(o, order'[o]) /\ order'[o].period = p
        /\ order'[o].status = "CONFIRMED" /\ order'[o].step = order[o].step
  BY CreateEffect
<1>2. EndFits(o)'
  <2>1. OrderFits(o) /\ OpFits
    BY DEF Fit
  <2>2. order[o].step = NoStep /\ run[o]["cron"].pc = "idle" /\ run[o]["op"].pc = "idle"
    BY <1>1, <2>1 DEF OrderFits, OpFits, Used
  <2>3. \A c \in Callers : run'[o][c].pc = "idle"
    BY <2>2 DEF Callers
  <2>4. QED
    BY <1>1, <2>2, <2>3, StepNumbers DEF EndFits, Final, FinalStati
<1>3. ASSUME Calm, NEW q \in Orders \ {o} PROVE EndFits(q)'
  BY <1>1, <1>3, EndStays DEF Served, RowBecomes
<1>4. Used(o)' /\ \A q \in Orders : Used(q) => Used(q)' /\ order'[q].period = order[q].period
  BY <1>1 DEF RowBecomes, Used, Unused
<1>5. \A q \in Periods : Renewable(q) => Renewable(q)' \/ q = p
  BY DEF Renewable
<1>6. Calm' => Calm
  BY CalmStays
<1>7. QED
  BY <1>1, <1>2, <1>3, <1>4, <1>5, <1>6, ServedStays DEF Exists

(* The rows of the orders stay, and so does the wait of the periods *)
LEMMA RowsSameServed ==
  ASSUME TypeOK, Served, UNCHANGED <<order, run, renewing>>, revived \subseteq revived',
         UNCHANGED spent \/ Spend("op", MaxOps),
         \A p \in Periods : Exists(p)' => Exists(p),
         \A p \in Periods : p \notin revived' /\ period'[p] = "PENDING" =>
           /\ period[p] = "PENDING"
           /\ p \in op.cancel => op'.abort \subseteq op.abort /\ p \in op'.cancel
  PROVE  Served'
<1>1. \A o \in Orders : order[o].period \in Periods
  BY TypeRows DEF OrderRow
<1>2. ASSUME Calm, NEW o \in Orders PROVE EndFits(o)'
  BY <1>1, <1>2, EndStays DEF Served
<1>3. Calm' => Calm
  BY CalmStays
<1>4. QED
  BY <1>2, <1>3, ServedStays DEF Renewable, Used, Unused

LEMMA CronServed ==
  ASSUME TypeOK, Fit, Served,
         \/ \E o \in Orders : ProcessConfirmed(o) \/ ProcessPending(o)
         \/ Renewing \/ Changing \/ Tick
  PROVE  Served'
<1>1. ASSUME NEW o \in Orders, ProcessConfirmed(o) PROVE Served'
  <2>1. /\ RowMarked(o, "PENDING", order[o].action) /\ order[o].status = "CONFIRMED"
        /\ UNCHANGED <<period, run, op, renewing, spent, revived>>
    BY <1>1, ProcessConfirmedEffect DEF ProcessConfirmed, history
  <2>2. ASSUME Calm PROVE EndFits(o)'
    <3>1. EndFits(o)
      BY <2>2 DEF Served
    <3>2. QED
      BY <2>1, <3>1 DEF EndFits, Final, FinalStati, RowMarked, Used, Unused
  <2>3. ASSUME Calm, NEW q \in Orders \ {o} PROVE EndFits(q)'
    BY <2>1, <2>3, EndStays DEF Served, RowMarked, RowBecomes
  <2>4. \A q \in Orders : Used(q) => Used(q)' /\ order'[q].period = order[q].period
    BY <2>1 DEF RowMarked, RowBecomes, Used, Unused
  <2>5. Calm' => Calm
    BY <2>1, CalmStays
  <2>6. QED
    BY <2>1, <2>2, <2>3, <2>4, <2>5, ServedStays DEF Exists, Renewable
<1>2. ASSUME NEW o \in Orders, ProcessPending(o) PROVE Served'
  <2>1. /\ RowMarked(o, "PROCESSING", order[o].action)
        /\ order[o].status \in {"PENDING", "ERROR"} /\ order[o].action \in {"RUN", "ABORT"}
        /\ RunBecomes(o, "cron", run'[o]["cron"])
        /\ UNCHANGED <<period, op, renewing, spent, revived>>
    BY <1>2, ClaimFrame
  <2>2. LET r == run'[o]["cron"] IN
        /\ r.pc \in {"step", "final"}
        /\ order[o].action = "RUN" => r.pc = "step"
        /\ r.pc = "final" => o = AddPlan \/ order[o].step = DELAY_BILLING
    BY <1>2, ClaimFrame
  <2>3. ASSUME Calm PROVE EndFits(o)'
    <3>1. EndFits(o) /\ OrderFits(o)
      BY <2>3 DEF Served, Fit
    <3>2. run'[o]["cron"].pc = "step"
      BY <2>2, <3>1 DEF EndFits, OrderFits
    <3>3. /\ run'[o]["op"] = run[o]["op"] /\ Callers = {"cron", "op"}
      BY <2>1 DEF RunBecomes, Callers
    <3>4. QED
      BY <2>1, <3>1, <3>2, <3>3 DEF EndFits, Final, FinalStati, RowMarked, Used, Unused
  <2>4. ASSUME Calm, NEW q \in Orders \ {o} PROVE EndFits(q)'
    BY <2>1, <2>4, EndStays DEF Served, RowMarked, RowBecomes, RunBecomes
  <2>5. \A q \in Orders : Used(q) => Used(q)' /\ order'[q].period = order[q].period
    BY <2>1 DEF RowMarked, RowBecomes, Used, Unused
  <2>6. Calm' => Calm
    BY <2>1, CalmStays
  <2>7. QED
    BY <2>1, <2>3, <2>4, <2>5, <2>6, ServedStays DEF Exists, Renewable
<1>3. ASSUME NEW p \in Periods, RenewPeriod(p) PROVE Served'
  <2>1. /\ ~Exists(p) /\ period' = [period EXCEPT ![p] = "PENDING"] /\ sub.offer \in Offers
        /\ renewing' = renewing \cup {<<p, sub.offer>>}
        /\ UNCHANGED <<order, run, op, spent, revived>>
    BY <1>3 DEF RenewPeriod, TypeOK
  <2>2. \A q \in Periods \ {p} : period'[q] = period[q]
    BY <2>1 DEF TypeOK
  <2>3. ASSUME Calm, NEW o \in Orders PROVE EndFits(o)'
    <3>1. EndFits(o) /\ order[o].period # p /\ order[o].period \in Periods
      BY <2>1, <2>3, TypeRows DEF Served, Fit, OrderFits, OrderRow
    <3>2. QED
      BY <2>1, <2>2, <3>1, EndStays
  <2>4. ASSUME Calm', NEW q \in Periods, Exists(q)', q \notin revived'
        PROVE  Renewable(q)' \/ \E o \in Orders : Used(o)' /\ order'[o].period = q
    <3>1. CASE q = p
      BY <2>1, <3>1 DEF Renewable
    <3>2. CASE q # p
      <4>1. Exists(q) /\ Calm
        BY <2>1, <2>2, <2>4, <3>2 DEF Exists, Calm
      <4>2. Renewable(q) \/ \E o \in Orders : Used(o) /\ order[o].period = q
        BY <2>1, <2>4, <4>1 DEF Served
      <4>3. QED
        BY <2>1, <4>2 DEF Renewable, Used, Unused
    <3>3. QED
      BY <3>1, <3>2
  <2>5. Calm' => Calm
    BY <2>1, CalmStays
  <2>6. QED
    BY <2>3, <2>4, <2>5 DEF Served
<1>4. ASSUME NEW p \in Periods, RenewOrder(p) PROVE Served'
  <2>1. PICK f \in Offers :
          /\ <<p, f>> \in renewing /\ renewing' = renewing \ {<<p, f>>}
          /\ CreateRenewPlan(p, f)
          /\ UNCHANGED <<period, run, op, spent, revived>>
    BY <1>4 DEF RenewOrder
  <2>2. Exists(p)
    BY <2>1 DEF Fit, PeriodsFit
  <2>3. QED
    BY <2>1, <2>2, CreateServed
<1>5. CASE Changing \/ Tick
  <2>1. UNCHANGED <<period, order, run, op, renewing, spent, revived>>
    BY <1>5 DEF Changing, ReadExpired, ChangePeriod, Expire, Tick, history
  <2>2. QED
    BY <2>1, RowsSameServed DEF Exists
<1>6. QED
  BY <1>1, <1>2, <1>3, <1>4, <1>5 DEF Renewing

LEMMA OperationServed ==
  ASSUME TypeOK, Fit, Served, Operation
  PROVE  Served'
<1>0. op.cancel = {} /\ Spend("op", MaxOps)
  <2>1. ASSUME NEW todo, BeginOp(todo) PROVE op = NoOp /\ Spend("op", MaxOps)
    BY <2>1 DEF BeginOp
  <2>2. ASSUME NEW stati, Revive(stati) PROVE op = NoOp /\ Spend("op", MaxOps)
    BY <2>1, <2>2 DEF Revive
  <2>3. ASSUME NEW p \in Periods, RerunPeriod(p) PROVE op = NoOp /\ Spend("op", MaxOps)
    BY <2>1, <2>3 DEF RerunPeriod
  <2>4. ASSUME Cancel \/ Suspend \/ Deactivate PROVE op = NoOp /\ Spend("op", MaxOps)
    BY <2>1, <2>4 DEF Cancel, Suspend, Deactivate
  <2>5. ASSUME NEW f \in Offers, ChangeOffer(f) PROVE op = NoOp /\ Spend("op", MaxOps)
    BY <2>1, <2>5 DEF ChangeOffer
  <2>6. op = NoOp /\ Spend("op", MaxOps)
    BY <2>2, <2>3, <2>4, <2>5 DEF Operation, Uncancel, Reactivate
  <2>7. QED
    BY <2>6 DEF NoOp
<1>1. CASE Cancel \/ Suspend \/ Deactivate \/ \E f \in Offers : ChangeOffer(f)
  <2>1. UNCHANGED <<period, order, run, renewing, revived>>
    BY <1>1 DEF Cancel, Suspend, Deactivate, ChangeOffer, history
  <2>2. QED
    BY <1>0, <2>1, RowsSameServed DEF Exists
<1>2. ASSUME NEW stati, Revive(stati) PROVE Served'
  <2> DEFINE again == {p \in Periods : Future(p) /\ period[p] = "CANCELLED"}
             pending == again \cup {p \in Periods : period[p] = "PENDING"}
  <2>1. /\ UNCHANGED <<order, run, renewing>> /\ revived' = revived \cup pending
        /\ period' = [p \in Periods |-> IF p \in again THEN "PENDING" ELSE period[p]]
    BY <1>2 DEF Revive
  <2>2. \A p \in Periods : /\ p \notin again => period'[p] = period[p]
                           /\ p \in again => Exists(p) /\ p \in pending
    BY <2>1 DEF Future
  <2> HIDE DEF again, pending
  <2>3. \A p \in Periods : Exists(p)' => Exists(p)
    BY <2>2 DEF Exists
  <2>4. \A p \in Periods : p \notin revived' => period'[p] = period[p]
    BY <2>1, <2>2
  <2>5. QED
    BY <1>0, <2>1, <2>3, <2>4, RowsSameServed
<1>3. ASSUME NEW p \in Periods, RerunPeriod(p) PROVE Served'
  <2>1. UNCHANGED <<period, run, renewing>> /\ revived' = revived \cup {p}
    BY <1>3 DEF RerunPeriod
  <2>2. \A q \in Orders :
          \/ order'[q] = order[q]
          \/ /\ order[q].period = p /\ order'[q].period = p /\ order'[q].step = order[q].step
             /\ Used(q)'
    BY <1>3, RerunEffect DEF Used, Unused
  <2>3. ASSUME Calm, NEW q \in Orders PROVE EndFits(q)'
    <3>1. EndFits(q)
      BY <2>3 DEF Served
    <3>2. CASE order'[q] = order[q]
      BY <1>0, <2>1, <3>1, <3>2, EndStays
    <3>3. CASE order'[q].period = p /\ order'[q].step = order[q].step
      BY <2>1, <3>1, <3>3 DEF EndFits
    <3>4. QED
      BY <2>2, <3>2, <3>3
  <2>4. \A q \in Orders : Used(q) => Used(q)' /\ order'[q].period = order[q].period
    BY <2>2 DEF Used, Unused
  <2>5. Calm' => Calm
    BY <1>0, CalmStays
  <2>6. QED
    BY <2>1, <2>3, <2>4, <2>5, ServedStays DEF Exists, Renewable
<1>4. QED
  BY <1>1, <1>2, <1>3 DEF Operation, Uncancel, Reactivate

LEMMA AbortServed ==
  ASSUME TypeOK, Fit, Served, NEW o \in Orders, OpAbort(o)
  PROVE  Served'
<1>0. /\ OpFits /\ PeriodsFit /\ o \in op.abort /\ Used(o) /\ o # AddPlan
      /\ order[o].period \in op.cancel /\ order[o].period \in Periods
      /\ \A p, r \in op.cancel : p = r
      /\ UNCHANGED <<period, renewing, spent, revived>>
  BY TypeRows DEF Fit, OpFits, OpAbort, OrderRow
<1>1. Calm' => Calm
  BY <1>0, CalmStays
<1>2. CASE Final(o) /\ op' = NoOp /\ UNCHANGED <<order, run>>
  <2>1. ASSUME Calm, NEW q \in Orders PROVE EndFits(q)'
    <3>1. EndFits(q) /\ EndFits(o) /\ order[q].period \in Periods
      BY <2>1, TypeRows DEF Served, OrderRow
    <3>2. /\ Used(q) /\ order[q].period \notin revived /\ Final(q)
          => period[order[q].period] # "PENDING"
      <4>1. order[q].period = order[o].period /\ order[q].period \notin revived /\ Used(q) => q = o
        BY <1>0, <3>1 DEF PeriodsFit, OneOrder
      <4>2. order[q].period # order[o].period => order[q].period \notin op.cancel
        BY <1>0
      <4>3. QED
        BY <1>0, <3>1, <4>1, <4>2 DEF EndFits
    <3>3. QED
      BY <1>0, <1>2, <3>1, <3>2 DEF EndFits, Final, Used, Unused
  <2>2. QED
    BY <1>0, <1>1, <1>2, <2>1, ServedStays DEF Exists, Renewable, Used, Unused
<1>3. CASE /\ order[o].status = "CONFIRMED" /\ RowMarked(o, "ABORTED", "ABORT")
           /\ op' = Left([op EXCEPT !.abort = @ \ {o}]) /\ UNCHANGED run
  <2>1. op'.abort = op.abort \ {o} /\ op'.cancel = op.cancel
    BY <1>3, AbortDone
  <2>2. ASSUME Calm, NEW q \in Orders \ {o} PROVE EndFits(q)'
    BY <1>0, <1>3, <2>1, <2>2, EndStays DEF Served, RowMarked, RowBecomes
  <2>3. ASSUME Calm PROVE EndFits(o)'
    <3>1. EndFits(o)
      BY <2>3 DEF Served
    <3>2. QED
      BY <1>0, <1>3, <2>1, <3>1 DEF EndFits, RowMarked
  <2>4. \A q \in Orders : Used(q) => Used(q)' /\ order'[q].period = order[q].period
    BY <1>3 DEF RowMarked, RowBecomes, Used, Unused
  <2>5. QED
    BY <1>0, <1>1, <2>2, <2>3, <2>4, ServedStays DEF Exists, Renewable
<1>4. CASE /\ RowMarked(o, "PROCESSING", "ABORT") /\ op' = op
           /\ RunBecomes(o, "op", Claimed(o, "ABORT"))
  <2>1. ASSUME Calm, NEW q \in Orders \ {o} PROVE EndFits(q)'
    BY <1>0, <1>4, <2>1, EndStays DEF Served, RowMarked, RowBecomes, RunBecomes
  <2>2. ASSUME Calm PROVE EndFits(o)'
    <3>1. EndFits(o) /\ Callers = {"cron", "op"}
      BY <2>2 DEF Served, Callers
    <3>2. LET r == Claimed(o, "ABORT") IN
          r.pc \in {"step", "final"} /\ (r.pc = "final" => o = AddPlan \/ order[o].step = DELAY_BILLING)
      BY TypeRows, ClaimedFits
    <3>3. run'[o]["op"].pc = "step" /\ run'[o]["cron"] = run[o]["cron"]
      BY <1>0, <1>4, <3>1, <3>2 DEF EndFits, RunBecomes
    <3>4. QED
      BY <1>0, <1>4, <3>1, <3>3 DEF EndFits, Final, FinalStati, RowMarked
  <2>3. \A q \in Orders : Used(q) => Used(q)' /\ order'[q].period = order[q].period
    BY <1>4 DEF RowMarked, RowBecomes, Used, Unused
  <2>4. QED
    BY <1>0, <1>1, <2>1, <2>2, <2>3, ServedStays DEF Exists, Renewable
<1>5. QED
  BY <1>2, <1>3, <1>4, OpAbortEffect

LEMMA OperationStepServed ==
  ASSUME TypeOK, Fit, Served, OperationStep \/ OpFails \/ Crash
  PROVE  Served'
<1>1. CASE \E o \in Orders : OpAbort(o)
  BY <1>1, AbortServed
<1>2. ASSUME NEW p \in Periods, OpCancelPeriod(p) PROVE Served'
  <2>1. /\ op' = Left([op EXCEPT !.cancel = @ \ {p}]) /\ p \in op.cancel
        /\ period' = [period EXCEPT ![p] = "CANCELLED"]
        /\ UNCHANGED <<order, run, renewing, spent, revived>>
    BY <1>2 DEF OpCancelPeriod, history
  <2>2. op'.abort = op.abort /\ op'.cancel = op.cancel \ {p}
    BY <2>1, CancelDone
  <2>3. \A q \in Periods : period'[q] = IF q = p THEN "CANCELLED" ELSE period[q]
    BY <2>1 DEF TypeOK
  <2>4. Exists(p)
    BY <2>1 DEF Fit, OpFits
  <2>5. \A q \in Periods : Exists(q)' => Exists(q)
    BY <2>3, <2>4 DEF Exists
  <2>6. QED
    BY <2>1, <2>2, <2>3, <2>5, RowsSameServed
<1>3. ASSUME NEW p \in Periods, OpRenew(p) PROVE Served'
  <2>1. /\ CreateRenewPlan(p, op.offer) /\ op.offer \in Offers /\ p \in op.renew
        /\ op' = Left([op EXCEPT !.renew = @ \ {p}])
        /\ UNCHANGED <<period, run, renewing, spent, revived>>
    BY <1>3 DEF OpRenew, TypeOK
  <2>2. Exists(p)
    BY <2>1 DEF Fit, OpFits
  <2>3. op'.abort = op.abort /\ op'.cancel = op.cancel
    BY <2>1, RenewDone
  <2>4. QED
    BY <2>1, <2>2, <2>3, CreateServed
<1>4. ASSUME NEW p \in Periods, OpReset(p) PROVE Served'
  <2>1. /\ op' = Left([op EXCEPT !.reset = @ \ {p}]) /\ p \in op.reset
        /\ period' = [period EXCEPT ![p] = "PENDING"]
        /\ UNCHANGED <<order, run, renewing, spent, revived>>
    BY <1>4 DEF OpReset, history
  <2>2. op'.abort = op.abort /\ op'.cancel = op.cancel
    BY <2>1, ResetDone
  <2>3. p \in revived /\ Exists(p)
    BY <2>1 DEF Fit, OpFits
  <2>4. \A q \in Periods \ {p} : period'[q] = period[q]
    BY <2>1 DEF TypeOK
  <2>5. \A q \in Periods : Exists(q)' => Exists(q)
    BY <2>3, <2>4 DEF Exists
  <2>6. QED
    BY <2>1, <2>2, <2>3, <2>4, <2>5, RowsSameServed
<1>5. ASSUME NEW p \in Periods, OpFindOrders(p) PROVE Served'
  <2> DEFINE found == {o \in Renewals(p) : order[o].status = "PENDING"}
  <2>1. /\ op' = Left([op EXCEPT !.move = @ \ {p}, !.found = found])
        /\ UNCHANGED <<period, order, run, renewing, spent, revived>>
    BY <1>5 DEF OpFindOrders
  <2> HIDE DEF found
  <2>2. op'.abort = op.abort /\ op'.cancel = op.cancel
    BY <2>1, FindDone
  <2>3. QED
    BY <2>1, <2>2, RowsSameServed DEF Exists
<1>6. CASE OpMoveOrders
  <2>1. op' = Left([op EXCEPT !.found = {}]) /\ UNCHANGED <<period, run, renewing, spent, revived>>
    BY <1>6 DEF OpMoveOrders
  <2>2. op'.abort = op.abort /\ op'.cancel = op.cancel
    BY <2>1, MoveDone
  <2>3. \A o \in Orders :
          /\ order'[o].period = order[o].period /\ order'[o].status = order[o].status
          /\ order'[o].step = order[o].step
    BY <1>6, MoveEffect
  <2>4. ASSUME Calm, NEW o \in Orders PROVE EndFits(o)'
    BY <2>1, <2>2, <2>3, <2>4, EndStays DEF Served
  <2>5. Calm' => Calm
    BY <2>1, CalmStays
  <2>6. QED
    BY <2>1, <2>3, <2>4, <2>5, ServedStays DEF Exists, Renewable, Used, Unused
<1>7. CASE OpFails \/ Crash
  <2>1. PICK e \in {"failure", "crash"} : spent' = [spent EXCEPT ![e] = @ + 1]
    BY <1>7 DEF OpFails, Crash, Spend
  <2>2. spent[e] \in Nat /\ spent'[e] = spent[e] + 1
    BY <2>1 DEF TypeOK
  <2>3. ~Calm'
    BY <2>2 DEF Calm
  <2>4. QED
    BY <2>3 DEF Served
<1>8. QED
  BY <1>1, <1>2, <1>3, <1>4, <1>5, <1>6, <1>7 DEF OperationStep

LEMMA InitServed == Init => Served
<1> SUFFICES ASSUME Init PROVE Served
  OBVIOUS
<1>1. 0 \in Periods /\ AddPlan \in Orders
  BY SubscriptionAssumption DEF Periods, Orders, AddPlan
<1>2. ASSUME NEW o \in Orders PROVE EndFits(o)
  <2>1. /\ order[o].period = 0 /\ \A c \in Callers : run[o][c].pc = "idle"
        /\ order[o].status = IF o # AddPlan THEN "ABSENT"
                             ELSE IF Activated THEN "DONE" ELSE "PENDING"
        /\ order[o].step = IF o = AddPlan /\ ~Activated THEN TELCO ELSE NoStep
        /\ period[0] = IF Activated THEN "DONE" ELSE "PENDING"
    BY <1>1, IdleInvocation DEF Init
  <2>2. QED
    BY <2>1, StepNumbers DEF EndFits, Final, FinalStati, Used, Unused
<1>3. Used(AddPlan) /\ order[AddPlan].period = 0
  BY <1>1 DEF Init, Used, Unused
<1>4. \A p \in Periods : Exists(p) => p = 0
  BY DEF Init, Exists
<1>5. QED
  BY <1>1, <1>2, <1>3, <1>4 DEF Served

LEMMA NextServed == TypeOK /\ Fit /\ Served /\ [Next]_vars => Served'
<1> SUFFICES ASSUME TypeOK, Fit, Served, [Next]_vars PROVE Served'
  OBVIOUS
<1>1. CASE UNCHANGED vars
  BY <1>1, RowsSameServed DEF vars, Exists
<1>2. QED
  BY <1>1, InvocationServed, CronServed, OperationServed, OperationStepServed DEF Next

(* While nothing crashes or fails, a period that waits is never left        *)
(* without an order that is going to serve it: an order ends only when its  *)
(* period does not wait any more, or is about to be cancelled.              *)
THEOREM WaitingIsServed == Spec => []PendingIsServed
<1>1. Init => TypeOK /\ Fit /\ Served
  BY InitTypeOK, InitFit, InitServed
<1>2. TypeOK /\ Fit /\ Served /\ [Next]_vars => (TypeOK /\ Fit /\ Served)'
  BY NextTypeOK, NextFit, NextServed
<1>3. TypeOK /\ Fit /\ Served => PendingIsServed
  <2> SUFFICES ASSUME Served, NEW p \in Periods, period[p] = "PENDING", p \notin revived, Calm,
                      p \notin op.cancel, ~Renewable(p)
               PROVE  \E o \in Orders : /\ order[o].period = p
                                        /\ order[o].status \notin FinalStati \cup {"ABSENT"}
    BY DEF PendingIsServed, Calm, Renewable
  <2>1. PICK o \in Orders : Used(o) /\ order[o].period = p
    BY DEF Served, Exists
  <2>2. ~Final(o)
    BY <2>1 DEF Served, EndFits
  <2>3. QED
    BY <2>1, <2>2 DEF Used, Unused, Final
<1>4. QED
  BY <1>1, <1>2, <1>3, PTL DEF Spec

-----------------------------------------------------------------------------
(* Kept: the periods that may still become the current one have the offer   *)
(* that is shown                                                            *)

(* Nothing that Kept speaks of changes, or no more than that periods and    *)
(* reads to come are forgotten                                              *)
LEMMA KeptStays ==
  ASSUME TypeOK, Kept, UNCHANGED <<offer, shown>>,
         sub'.offer = sub.offer, sub'.current \in {sub.current, NoPeriod},
         UNCHANGED change \/ change' = NoChange,
         \A p \in Periods : Exists(p)' => Exists(p)
  PROVE  Kept'
<1>1. /\ \A p \in Periods : p \in Int /\ p > NoPeriod
      /\ sub.current \in Periods \cup {NoPeriod} /\ change.next \in Periods \cup {NoPeriod}
  BY SubscriptionAssumption DEF TypeOK, Periods, NoPeriod
<1>2. NoChange.pc = "idle" /\ NoChange.next = NoPeriod
  BY DEF NoChange
<1>3. /\ change'.pc = "idle" => change'.next = NoPeriod
      /\ change'.next # NoPeriod => change' = change
  BY <1>2 DEF Kept
<1>4. change'.next # NoPeriod /\ sub'.current # NoPeriod => change'.next > sub'.current
  BY <1>3 DEF Kept
<1>5. ASSUME ~shown'.late
      PROVE  /\ sub'.offer = shown'.offer
             /\ change'.next # NoPeriod => change'.offer = shown'.offer
  BY <1>3, <1>5 DEF Kept
<1>6. ASSUME ~shown'.late, sub'.current # NoPeriod \/ change'.next # NoPeriod,
             NEW p \in Periods, ToCome(p)'
      PROVE  offer'[p] = shown'.offer
  <2>1. ToCome(p)
    BY <1>1, <1>3, <1>6 DEF ToCome, Kept
  <2>2. sub.current # NoPeriod \/ change.next # NoPeriod
    BY <1>3, <1>6
  <2>3. QED
    BY <1>6, <2>1, <2>2 DEF Kept
<1>7. QED
  BY <1>3, <1>4, <1>5, <1>6 DEF Kept

LEMMA InvocationKept ==
  ASSUME TypeOK, Fit, Kept, NEW o \in Orders, NEW c \in Callers,
         InvocationStep(o, c) \/ StepFails(o, c)
  PROVE  Kept'
<1>1. UNCHANGED <<offer, shown>> /\ \A p \in Periods : Exists(p)' => Exists(p)
  <2>1. \A q \in Orders : Exists(order[q].period)
    BY DEF Fit, OrderFits
  <2>2. CASE FinalUpdate(o, c)
    BY <2>2, FinalUpdateFrame DEF Exists, offers
  <2>3. CASE ~FinalUpdate(o, c)
    <3>1. /\ \A p \in Periods : period'[p] = period[p] \/ p = order[o].period
          /\ UNCHANGED <<offer, shown>>
      BY <2>3, InvocationFrame DEF InvocationStep
    <3>2. QED
      BY <2>1, <3>1 DEF Exists
  <2>4. QED
    BY <2>2, <2>3
<1>2. UNCHANGED sub \/ (\E s \in SubStatus : sub' = [sub EXCEPT !.status = s])
  BY DEF InvocationStep, Delay, MarkPeriodProcessing, Bill, MarkActive, MarkPeriodDone,
         MarkPeriodFailed, MarkSuspended, FinalUpdate, StepFails, SubStatus
<1>3. sub'.offer = sub.offer /\ sub'.current = sub.current
  BY <1>2 DEF TypeOK
<1>4. UNCHANGED change
  BY DEF InvocationStep, Delay, MarkPeriodProcessing, Bill, MarkActive, MarkPeriodDone,
         MarkPeriodFailed, MarkSuspended, FinalUpdate, StepFails
<1>5. QED
  BY <1>1, <1>3, <1>4, KeptStays

LEMMA CronKept ==
  ASSUME TypeOK, Kept,
         \/ \E o \in Orders : ProcessConfirmed(o) \/ ProcessPending(o)
         \/ Renewing \/ Changing \/ Tick
  PROVE  Kept'
<1>0. /\ now \in Int /\ \A p \in Periods : p \in Int /\ p # NoPeriod /\ p > NoPeriod
      /\ sub \in [status : SubStatus, current : Periods \cup {NoPeriod}, offer : Offers]
      /\ change.next \in Periods \cup {NoPeriod} /\ offer \in [Periods -> Offers]
  BY SubscriptionAssumption DEF TypeOK, Periods, NoPeriod, EndOfTime, EndsAt
<1>1. CASE (\E o \in Orders : ProcessConfirmed(o) \/ ProcessPending(o)) \/ Tick
  <2>1. UNCHANGED <<sub, period, offer, shown, change>>
    BY <1>1 DEF ProcessConfirmed, ProcessPending, Tick, history, offers
  <2>2. QED
    BY <2>1, KeptStays DEF Exists
<1>2. ASSUME NEW p \in Periods, RenewPeriod(p) PROVE Kept'
  <2>1. /\ period' = [period EXCEPT ![p] = "PENDING"] /\ offer' = [offer EXCEPT ![p] = sub.offer]
        /\ UNCHANGED <<sub, change, shown>>
    BY <1>2 DEF RenewPeriod
  <2>2. /\ \A q \in Periods : Exists(q)' => Exists(q) \/ q = p
        /\ offer'[p] = sub.offer /\ \A q \in Periods \ {p} : offer'[q] = offer[q]
    BY <1>0, <2>1 DEF TypeOK, Exists
  <2>3. ASSUME ~shown.late, sub.current # NoPeriod \/ change.next # NoPeriod,
               NEW q \in Periods, ToCome(q)'
        PROVE  offer'[q] = shown.offer
    <3>1. CASE q = p
      BY <2>2, <2>3, <3>1 DEF Kept
    <3>2. CASE q # p
      <4>1. ToCome(q)
        BY <2>1, <2>2, <2>3, <3>2 DEF ToCome
      <4>2. QED
        BY <2>2, <2>3, <3>2, <4>1 DEF Kept
    <3>3. QED
      BY <3>1, <3>2
  <2>4. QED
    BY <2>1, <2>3 DEF Kept
<1>3. ASSUME NEW p \in Periods, RenewOrder(p) PROVE Kept'
  BY <1>3, KeptStays DEF RenewOrder, offers, Exists
<1>4. CASE ReadExpired
  <2>1. /\ Expired /\ UNCHANGED <<now, sub, period, offer, shown>>
        /\ change'.pc = "apply" /\ change'.next \in Covering \cup {NoPeriod}
        /\ change'.next # NoPeriod => change'.offer = offer[change'.next]
    <3> DEFINE next == IF Covering = {} THEN NoPeriod ELSE CHOOSE p \in Covering : TRUE
    <3>1. change' = [pc |-> "apply", status |-> sub.status, next |-> next,
                     offer |-> IF next = NoPeriod THEN NoOffer ELSE offer[next]]
      BY <1>4 DEF ReadExpired
    <3>2. next \in Covering \cup {NoPeriod}
      OBVIOUS
    <3> HIDE DEF next
    <3>3. QED
      BY <1>4, <3>1, <3>2 DEF ReadExpired, history, offers
  <2>2. /\ sub.current \in Periods
        /\ change'.next # NoPeriod => /\ change'.next > sub.current /\ Exists(change'.next)
                                      /\ change'.next \in Periods
    BY <1>0, <2>1 DEF Expired, Covering, StartsAt, EndsAt
  <2>3. \A p \in Periods : ToCome(p)' <=> ToCome(p)
    BY <1>0, <2>1, <2>2 DEF ToCome, Exists
  <2>4. ~shown.late /\ change'.next # NoPeriod => change'.offer = shown.offer
    BY <1>0, <2>1, <2>2 DEF Kept, ToCome
  <2>5. QED
    BY <1>0, <2>1, <2>2, <2>3, <2>4 DEF Kept
<1>5. CASE ChangePeriod
  <2>1. /\ sub'.current = change.next /\ sub'.offer = change.offer
        /\ change'.pc = "idle" /\ change'.next = NoPeriod /\ change.next # NoPeriod
        /\ UNCHANGED <<period, offer, shown>>
    BY <1>0, <1>5 DEF ChangePeriod, NoChange, history, offers
  <2>2. \A p \in Periods : ToCome(p)' => ToCome(p)
    BY <1>0, <2>1 DEF ToCome, Exists, Kept
  <2>3. QED
    BY <2>1, <2>2 DEF Kept
<1>6. CASE Expire
  <2>1. /\ UNCHANGED <<period, offer, shown>> /\ change' = NoChange
        /\ sub' = sub \/ sub' = [sub EXCEPT !.status = "DEACTIVATED", !.current = NoPeriod]
    BY <1>6 DEF Expire, history, offers
  <2>2. sub'.offer = sub.offer /\ sub'.current \in {sub.current, NoPeriod}
    BY <1>0, <2>1
  <2>3. QED
    BY <2>1, <2>2, KeptStays DEF Exists
<1>7. QED
  BY <1>1, <1>2, <1>3, <1>4, <1>5, <1>6 DEF Renewing, Changing

LEMMA OperationKept ==
  ASSUME TypeOK, Kept, Operation
  PROVE  Kept'
<1>0. sub \in [status : SubStatus, current : Periods \cup {NoPeriod}, offer : Offers]
  BY DEF TypeOK
<1>1. CASE Cancel \/ Suspend \/ Deactivate
  <2>1. /\ UNCHANGED <<period, offer, shown, change>>
        /\ \/ \E s \in SubStatus : sub' = [sub EXCEPT !.status = s]
           \/ sub' = [sub EXCEPT !.status = "DEACTIVATED", !.current = NoPeriod]
    BY <1>1 DEF Cancel, Suspend, Deactivate, history, offers, SubStatus
  <2>2. sub'.offer = sub.offer /\ sub'.current \in {sub.current, NoPeriod}
    BY <1>0, <2>1
  <2>3. QED
    BY <2>1, <2>2, KeptStays DEF Exists
<1>2. ASSUME NEW stati, Revive(stati) PROVE Kept'
  <2> DEFINE again == {p \in Periods : Future(p) /\ period[p] = "CANCELLED"}
  <2>1. /\ UNCHANGED <<offer, shown, change>> /\ sub' = [sub EXCEPT !.status = "ACTIVE"]
        /\ period' = [p \in Periods |-> IF p \in again THEN "PENDING" ELSE period[p]]
    BY <1>2 DEF Revive, offers
  <2>2. \A p \in Periods : p \in again => Exists(p)
    BY DEF Future
  <2> HIDE DEF again
  <2>3. \A p \in Periods : Exists(p)' => Exists(p)
    BY <2>1, <2>2 DEF Exists
  <2>4. sub'.offer = sub.offer /\ sub'.current = sub.current
    BY <1>0, <2>1
  <2>5. QED
    BY <2>1, <2>3, <2>4, KeptStays
<1>3. ASSUME NEW p \in Periods, RerunPeriod(p) PROVE Kept'
  BY <1>3, KeptStays DEF RerunPeriod, offers, Exists
<1>4. ASSUME NEW f \in Offers, ChangeOffer(f) PROVE Kept'
  <2>1. /\ sub' = [sub EXCEPT !.offer = f] /\ UNCHANGED <<period, change>>
        /\ offer' = [p \in Periods |-> IF p \in Upcoming THEN f ELSE offer[p]]
        /\ shown'.offer = f /\ shown'.late = TooLate
    BY <1>4 DEF ChangeOffer
  <2>2. sub'.offer = f /\ sub'.current = sub.current
    BY <1>0, <2>1
  <2>3. ASSUME ~TooLate, sub.current # NoPeriod \/ change.next # NoPeriod,
               NEW p \in Periods, ToCome(p)'
        PROVE  offer'[p] = f
    BY <2>1, <2>2, <2>3 DEF TooLate, ToCome, Exists
  <2>4. ~TooLate => change.next = NoPeriod
    BY DEF TooLate
  <2>5. QED
    BY <2>1, <2>2, <2>3, <2>4 DEF Kept
<1>5. QED
  BY <1>1, <1>2, <1>3, <1>4 DEF Operation, Uncancel, Reactivate

LEMMA OperationStepKept ==
  ASSUME TypeOK, Fit, Kept, OperationStep \/ OpFails \/ Crash
  PROVE  Kept'
<1>1. UNCHANGED <<sub, offer, shown>> /\ (UNCHANGED change \/ change' = NoChange)
  <2>1. CASE OperationStep
    BY <2>1 DEF OperationStep, OpAbort, OpCancelPeriod, OpRenew, OpReset, OpFindOrders,
                OpMoveOrders, history, offers
  <2>2. CASE OpFails \/ Crash
    BY <2>2 DEF OpFails, Crash
  <2>3. QED
    BY <2>1, <2>2
<1>2. \A p \in Periods : Exists(p)' => Exists(p)
  <2>1. ASSUME NEW p \in Periods, OpCancelPeriod(p) \/ OpReset(p)
        PROVE  \A q \in Periods : Exists(q)' => Exists(q)
    <3>1. Exists(p) /\ \A q \in Periods \ {p} : period'[q] = period[q]
      BY <2>1 DEF OpCancelPeriod, OpReset, Fit, OpFits, TypeOK
    <3>2. QED
      BY <3>1 DEF Exists
  <2>2. CASE /\ OperationStep \/ OpFails \/ Crash
             /\ \A p \in Periods : ~OpCancelPeriod(p) /\ ~OpReset(p)
    <3>1. UNCHANGED period
      BY <2>2 DEF OperationStep, OpAbort, OpRenew, OpFindOrders, OpMoveOrders, OpFails, Crash
    <3>2. QED
      BY <3>1 DEF Exists
  <2>3. QED
    BY <2>1, <2>2
<1>3. QED
  BY <1>1, <1>2, KeptStays

LEMMA InitKept == Init => Kept
<1> SUFFICES ASSUME Init PROVE Kept
  OBVIOUS
<1>1. /\ change.pc = "idle" /\ change.next = NoPeriod
      /\ sub.offer = InitialOffer /\ shown.offer = InitialOffer
      /\ \A p \in Periods : offer[p] = InitialOffer
  BY DEF Init, NoChange
<1>2. QED
  BY <1>1 DEF Kept

LEMMA NextKept == TypeOK /\ Fit /\ Kept /\ [Next]_vars => Kept'
<1> SUFFICES ASSUME TypeOK, Fit, Kept, [Next]_vars PROVE Kept'
  OBVIOUS
<1>1. CASE UNCHANGED vars
  BY <1>1, KeptStays DEF vars, offers, Exists
<1>2. QED
  BY <1>1, InvocationKept, CronKept, OperationKept, OperationStepKept DEF Next

-----------------------------------------------------------------------------
(* Shown: a period's offer is that of its order and of its bill             *)

(* The periods that a change of offer has still to reach *)
LEMMA MovingStays ==
  ASSUME TypeOK, op'.move = op.move, op'.found = op.found,
         \A o \in op.found : order'[o].period = order[o].period
  PROVE  Moving' = Moving
BY DEF Moving

LEMMA NothingMoves ==
  ASSUME op'.move = {}, op'.found = {}
  PROVE  Moving' = {}
BY DEF Moving

LEMMA OfferLeft ==
  ASSUME TypeOK, NEW p, NEW found,
         \/ op' = Left([op EXCEPT !.abort = @ \ {p}]) \/ op' = Left([op EXCEPT !.cancel = @ \ {p}])
         \/ op' = Left([op EXCEPT !.renew = @ \ {p}]) \/ op' = Left([op EXCEPT !.reset = @ \ {p}])
         \/ op' = Left([op EXCEPT !.move = @ \ {p}, !.found = found])
         \/ op' = Left([op EXCEPT !.found = {}])
  PROVE  op'.offer = op.offer \/ op' = NoOp
<1>1. op \in OpRecord
  BY DEF TypeOK, OpRecord
<1>2. \A todo : Left(todo) = todo \/ Left(todo) = NoOp
  BY DEF Left
<1>3. QED
  BY <1>1, <1>2 DEF OpRecord

LEMMA ShownStays ==
  ASSUME NEW o \in Orders, NEW p \in Periods, p = order[o].period, WaitsFit(o), OffersFit(o),
         order'[o].period = p, order'[o].status = order[o].status,
         order'[o].step = order[o].step, order'[o].offer = order[o].offer,
         run'[o]["cron"] = run[o]["cron"] \/ run'[o]["cron"].pc = "idle",
         revived \subseteq revived',
         p \notin revived' /\ period'[p] = "PENDING" => period[p] = "PENDING",
         Settled(p)' => Settled(p) /\ offer'[p] = offer[p]
  PROVE  WaitsFit(o)' /\ OffersFit(o)'
<1>1. WaitsFit(o)'
  BY DEF WaitsFit, Running, Used, Unused
<1>2. OffersFit(o)'
  BY DEF OffersFit, Running, Final, Used, Unused
<1>3. QED
  BY <1>1, <1>2

(* What Shown says of the periods, when neither an offer nor a bill changes *)
LEMMA PeriodsShown ==
  ASSUME Shown, UNCHANGED <<offer, charged>>, revived \subseteq revived', missed \subseteq missed',
         \A o \in Orders : WaitsFit(o)' /\ OffersFit(o)',
         \A p \in Periods :
           /\ p \notin revived' /\ period'[p] = "PENDING" => period[p] = "PENDING"
           /\ p \in Moving' => op'.offer = offer[p]
           /\ Settled(p)' => Settled(p) \/ \A f \in Offers : <<p, f>> \notin renewing',
         renewing' \subseteq renewing
  PROVE  Shown'
<1>1. \A p : Billed(p)' <=> Billed(p)
  BY DEF Billed
<1>2. ASSUME NEW p \in Periods
      PROVE  /\ p \notin revived' /\ Billed(p)' /\ p # 0 => period'[p] # "PENDING"
             /\ p \in Moving' => op'.offer = offer'[p]
             /\ Settled(p)' => \A f \in Offers : <<p, f>> \in renewing' => f = offer'[p]
  BY <1>1 DEF Shown
<1>3. BilledAsShown'
  BY DEF Shown, BilledAsShown
<1>4. QED
  BY <1>2, <1>3 DEF Shown

(* The rows stay, and an operation has as much to move as before *)
LEMMA RowsSameShown ==
  ASSUME TypeOK, Shown, UNCHANGED <<order, offer, charged>>, revived \subseteq revived',
         \A o \in Orders : run'[o]["cron"] = run[o]["cron"] \/ run'[o]["cron"].pc = "idle",
         \A p \in Periods :
           /\ p \notin revived' /\ period'[p] = "PENDING" => period[p] = "PENDING"
           /\ p \in Moving' => op'.offer = offer[p],
         missed \subseteq missed', Moving \subseteq Moving' \cup missed',
         renewing' \subseteq renewing
  PROVE  Shown'
<1>1. \A p : Settled(p)' => Settled(p)
  BY DEF Settled
<1>2. ASSUME NEW o \in Orders PROVE WaitsFit(o)' /\ OffersFit(o)'
  <2>1. PICK p \in Periods : p = order[o].period
    BY TypeRows DEF OrderRow
  <2>2. WaitsFit(o) /\ OffersFit(o)
    BY DEF Shown
  <2>3. QED
    BY <1>1, <2>1, <2>2, ShownStays
<1>3. QED
  BY <1>1, <1>2, PeriodsShown

LEMMA InvocationWaits ==
  ASSUME TypeOK, Fit, Paid, Shown, NEW o \in Orders, NEW c \in Callers,
         \/ Delay(o, c) \/ MarkPeriodProcessing(o, c) \/ Bill(o, c)
         \/ MarkActive(o, c) \/ MarkPeriodDone(o, c)
         \/ MarkPeriodFailed(o, c) \/ MarkSuspended(o, c) \/ StepFails(o, c)
  PROVE  WaitsFit(o)' /\ OffersFit(o)'
<1>0. PICK p \in Periods : p = order[o].period
  BY TypeRows DEF OrderRow
<1>a. /\ WaitsFit(o) /\ OffersFit(o) /\ BillsFit(o) /\ InvocationFits(o, c) /\ OrderFits(o)
      /\ c \in {"cron", "op"} /\ "cron" \in Callers
      /\ order[o].step \in {-1, 0, 1, 2, 3, 4} /\ run[o][c].i \in {0, 1, 2, 3, 4}
      /\ period \in [Periods -> PeriodStatus]
  BY TypeRows, StepNumbers DEF TypeOK, Shown, Paid, Fit, Callers, OrderRow, Invocation
<1>1. /\ RowSteps(o, order'[o].step) /\ RunBecomes(o, c, run'[o][c])
      /\ run[o][c].pc \in {"step", "active", "failed"} /\ run'[o][c].pc # "idle"
      /\ run'[o][c].pc = "step" => /\ run[o][c].pc = "step"
                                   /\ run'[o][c].action = run[o][c].action
                                   /\ run'[o][c].offer = run[o][c].offer
      /\ \A q \in Periods : \/ period'[q] = period[q]
                            \/ period'[q] \in {"PROCESSING", "DONE", "FAILED"}
      /\ UNCHANGED <<op, revived, offer>> /\ Used(o) /\ order[o].status # "CONFIRMED"
  BY InvocationFrame
<1>2. /\ order'[o].period = p /\ order'[o].status = order[o].status
      /\ order'[o].offer = order[o].offer
      /\ \A d \in Callers \ {c} : run'[o][d] = run[o][d]
      /\ period'[p] = "PENDING" => period[p] = "PENDING"
  BY <1>0, <1>1 DEF RowSteps, RunBecomes
<1>3. Settled(p)' => Settled(p)
  <2>1. \A q \in op.found : order'[q].period = order[q].period
    BY <1>1 DEF RowSteps, RowBecomes, TypeOK
  <2>2. Moving' = Moving
    BY <1>1, <2>1, MovingStays
  <2>3. missed \subseteq missed'
    BY DEF Delay, MarkPeriodProcessing, Bill, MarkActive, MarkPeriodDone, MarkPeriodFailed,
           MarkSuspended, StepFails, history, offers
  <2>4. QED
    BY <1>1, <2>2, <2>3 DEF Settled
<1>4. OffersFit(o)'
  <2>1. Running(o)' => Running(o) /\ run'[o]["cron"].offer = run[o]["cron"].offer
    BY <1>1, <1>2, <1>a DEF Running
  <2>2. QED
    BY <1>0, <1>1, <1>2, <1>3, <1>a, <2>1 DEF OffersFit, Final, Used, Unused
(* A waiting row has no invocation of the cron job *)
<1>5. order[o].status = "PENDING" /\ p \notin revived => c = "op" /\ run'[o]["cron"].pc = "idle"
  BY <1>0, <1>1, <1>2, <1>a DEF WaitsFit
(* From BILLING on, the period does not wait *)
<1>6. ASSUME p \notin revived, p # 0,
             \/ order'[o].step \in {2, 3, 4}
             \/ Running(o)' /\ run'[o]["cron"].i \in {2, 3, 4}
      PROVE  period'[p] # "PENDING"
  <2>1. CASE Delay(o, c)
    <3>1. PICK i \in {0, 3} :
            At(o, c, "RUN", i) /\ RowSteps(o, i + 1) /\ RunEnds(o, c, "PENDING")
      BY <2>1, DelayEffect, StepNumbers
    <3>2. c = "cron" /\ Running(o) /\ run[o]["cron"].i = i /\ order'[o].step = i + 1 /\ ~Running(o)'
      BY <1>a, <3>1 DEF At, InvocationFits, Running, RowSteps, RunEnds
    <3>3. QED
      BY <1>0, <1>1, <1>2, <1>6, <1>a, <3>2, StepNumbers DEF WaitsFit
  <2>2. CASE MarkPeriodProcessing(o, c)
    BY <1>0, <1>a, <2>2 DEF MarkPeriodProcessing
  <2>3. CASE Bill(o, c)
    <3>1. At(o, c, "RUN", 2)
      BY <2>3, StepNumbers DEF Bill
    <3>2. c = "cron" /\ Running(o) /\ run[o]["cron"].i = 2
      BY <1>a, <3>1 DEF At, InvocationFits, Running
    <3>3. QED
      BY <1>0, <1>1, <1>2, <1>6, <1>a, <3>2, StepNumbers DEF WaitsFit
  <2>4. CASE MarkActive(o, c)
    <3>1. At(o, c, "RUN", 4)
      BY <2>4, StepNumbers DEF MarkActive
    <3>2. c = "cron" /\ Running(o) /\ run[o]["cron"].i = 4
      BY <1>a, <3>1 DEF At, InvocationFits, Running
    <3>3. QED
      BY <1>0, <1>1, <1>2, <1>6, <1>a, <3>2, StepNumbers DEF WaitsFit
  <2>5. CASE MarkPeriodDone(o, c)
    BY <1>0, <1>a, <2>5 DEF MarkPeriodDone
  <2>6. CASE MarkPeriodFailed(o, c)
    BY <1>0, <1>a, <2>6 DEF MarkPeriodFailed
  <2>7. CASE MarkSuspended(o, c)
    <3>1. RowSteps(o, -1) /\ RunEnds(o, c, "ABORTED")
      BY <2>7, EndEffect, StepNumbers DEF MarkPeriodDone, MarkSuspended
    <3>2. Running(o)' => Running(o) /\ run'[o]["cron"] = run[o]["cron"]
      BY <1>2, <1>a, <3>1 DEF RunEnds, Running
    <3>3. order'[o].step = -1
      BY <3>1 DEF RowSteps
    <3>4. QED
      BY <1>0, <1>1, <1>2, <1>6, <1>a, <3>2, <3>3, StepNumbers DEF WaitsFit
  <2>8. CASE StepFails(o, c)
    <3>1. order'[o].step = run[o][c].i /\ run'[o][c].pc = "final"
      BY <2>8, StepFailsEffect DEF RowSteps, RunEnds
    <3>2. Running(o)' => Running(o) /\ run'[o]["cron"] = run[o]["cron"]
      BY <1>2, <1>a, <3>1 DEF Running
    <3>3. \/ c = "cron" /\ Running(o)
          \/ c = "cron" /\ Billed(p)
          \/ run[o][c].i = 1
      <4>1. run[o][c].action \in {"RUN", "ABORT"}
        BY TypeRows DEF Invocation
      <4>2. QED
        BY <1>0, <1>1, <1>a, <4>1, StepNumbers DEF InvocationFits, BillsFit, Running
    <3>4. Billed(p) => period[p] # "PENDING"
      BY <1>6 DEF Shown
    <3>5. QED
      BY <1>0, <1>1, <1>2, <1>6, <1>a, <3>1, <3>2, <3>3, <3>4, StepNumbers DEF WaitsFit
  <2>9. QED
    BY <2>1, <2>2, <2>3, <2>4, <2>5, <2>6, <2>7, <2>8
<1>7. WaitsFit(o)'
  BY <1>1, <1>2, <1>5, <1>6, StepNumbers DEF WaitsFit
<1>8. QED
  BY <1>4, <1>7

LEMMA InvocationShown ==
  ASSUME TypeOK, Fit, Paid, Shown, NEW o \in Orders, NEW c \in Callers,
         \/ Delay(o, c) \/ MarkPeriodProcessing(o, c) \/ Bill(o, c)
         \/ MarkActive(o, c) \/ MarkPeriodDone(o, c)
         \/ MarkPeriodFailed(o, c) \/ MarkSuspended(o, c) \/ StepFails(o, c)
  PROVE  Shown'
<1>1. /\ RowSteps(o, order'[o].step) /\ RunBecomes(o, c, run'[o][c])
      /\ \A p \in Periods : \/ period'[p] = period[p]
                            \/ period'[p] \in {"PROCESSING", "DONE", "FAILED"}
      /\ UNCHANGED <<op, renewing, revived, offer>> /\ Used(o)
  BY InvocationFrame
<1>2. missed \subseteq missed'
  BY DEF Delay, MarkPeriodProcessing, Bill, MarkActive, MarkPeriodDone, MarkPeriodFailed,
         MarkSuspended, StepFails, history, offers
<1>3. Moving' = Moving
  <2>1. \A q \in op.found : order'[q].period = order[q].period
    BY <1>1 DEF RowSteps, RowBecomes, TypeOK
  <2>2. QED
    BY <1>1, <2>1, MovingStays
<1>4. \A p : Settled(p)' => Settled(p)
  BY <1>1, <1>2, <1>3 DEF Settled
<1>5. \A p \in Periods : period'[p] = "PENDING" => period[p] = "PENDING"
  BY <1>1
<1>6. ASSUME NEW q \in Orders PROVE WaitsFit(q)' /\ OffersFit(q)'
  <2>1. CASE q = o
    BY <2>1, InvocationWaits
  <2>2. CASE q # o
    <3>1. PICK p \in Periods : p = order[q].period
      BY TypeRows DEF OrderRow
    <3>2. /\ WaitsFit(q) /\ OffersFit(q) /\ order'[q] = order[q] /\ run'[q] = run[q]
      BY <1>1, <2>2 DEF Shown, RowSteps, RowBecomes, RunBecomes
    <3>3. QED
      BY <1>1, <1>4, <1>5, <3>1, <3>2, ShownStays
  <2>3. QED
    BY <2>1, <2>2
<1>7. CASE ~Bill(o, c)
  <2>1. UNCHANGED charged
    BY <1>7 DEF Delay, MarkPeriodProcessing, MarkActive, MarkPeriodDone, MarkPeriodFailed,
                MarkSuspended, StepFails, history
  <2>2. QED
    BY <1>1, <1>2, <1>3, <1>4, <1>5, <1>6, <2>1, PeriodsShown DEF Shown
<1>8. CASE Bill(o, c)
  <2>1. PICK p \in Periods, f \in Offers : p = order[o].period /\ f = run[o][c].offer
    BY TypeRows DEF OrderRow, Invocation
  <2>2. /\ At(o, c, "RUN", 2) /\ charged' = [charged EXCEPT ![p][f] = @ + 1]
        /\ missed' = IF p \in Moving THEN missed \cup {p} ELSE missed
        /\ UNCHANGED <<period, revived, offer>> /\ charged \in [Periods -> [Offers -> Nat]]
    BY <1>8, <2>1, StepNumbers DEF Bill, TypeOK
  <2>3. Running(o) /\ run[o]["cron"].i = 2 /\ f = run[o]["cron"].offer
    BY <2>1, <2>2 DEF Fit, InvocationFits, At, Running
  <2>4. p \notin revived' \cup missed' => f = offer[p]
    BY <1>1, <2>1, <2>2, <2>3 DEF Shown, OffersFit, Settled
  <2>5. p \notin revived /\ p # 0 => period[p] # "PENDING"
    BY <1>1, <2>1, <2>3, StepNumbers DEF Shown, WaitsFit
  <2>6. \A q \in Periods, g \in Offers :
          charged'[q][g] > 0 => charged[q][g] > 0 \/ (q = p /\ g = f)
    BY <2>2
  <2>7. BilledAsShown'
    BY <1>2, <2>2, <2>4, <2>6 DEF Shown, BilledAsShown
  <2>8. ASSUME NEW q \in Periods, q \notin revived', Billed(q)', q # 0
        PROVE  period'[q] # "PENDING"
    <3>1. Billed(q) \/ q = p
      BY <2>6, <2>8 DEF Billed
    <3>2. QED
      BY <2>2, <2>5, <2>8, <3>1 DEF Shown
  <2>9. \A q \in Periods :
          /\ q \in Moving' => op'.offer = offer'[q]
          /\ Settled(q)' => \A g \in Offers : <<q, g>> \in renewing' => g = offer'[q]
    BY <1>1, <1>3, <1>4 DEF Shown
  <2>10. QED
    BY <1>6, <2>7, <2>8, <2>9 DEF Shown
<1>9. QED
  BY <1>7, <1>8

LEMMA FinalUpdateShown ==
  ASSUME TypeOK, Fit, Shown, NEW o \in Orders, NEW c \in Callers, FinalUpdate(o, c)
  PROVE  Shown'
<1>0. c \in {"cron", "op"} /\ "cron" \in Callers /\ OpFits
  BY DEF Fit, Callers
<1>1. /\ run[o][c].pc = "final" /\ RunBecomes(o, c, run'[o][c]) /\ run'[o][c].pc = "idle"
      /\ order[o].status # "CONFIRMED"
      /\ order'[o].period = order[o].period /\ order'[o].step = order[o].step
      /\ order'[o].offer = order[o].offer
      /\ \A q \in Orders \ {o} : order'[q] = order[q]
      /\ \/ order[o].status = "PROCESSING" /\ order'[o].status = run[o][c].out
         \/ order[o].status # "PROCESSING" /\ order' = order
      /\ c = "cron" => op' = op
      /\ c = "op" => /\ o \in op.abort /\ run[o][c].out \in {"ERROR", "ABORTED"}
                     /\ op' = NoOp \/ (op'.move = op.move /\ op'.found = op.found)
      /\ UNCHANGED <<period, renewing, charged, revived, offer, missed>>
  BY FinalUpdateFrame DEF offers
<1>2. /\ Moving' = Moving /\ (op' = op \/ Moving' = {})
  <2>1. \A q \in op.found : order'[q].period = order[q].period
    BY <1>1 DEF TypeOK
  <2>2. CASE c = "cron"
    BY <1>1, <2>1, <2>2, MovingStays
  <2>3. CASE c = "op"
    <3>1. op.move = {} /\ op.found = {} /\ op'.move = {} /\ op'.found = {}
      BY <1>0, <1>1, <2>3 DEF OpFits, NoOp
    <3>2. QED
      BY <2>1, <3>1, MovingStays, NothingMoves
  <2>4. QED
    BY <1>0, <2>2, <2>3
<1>3. \A p : Settled(p)' <=> Settled(p)
  BY <1>1, <1>2 DEF Settled
<1>4. ASSUME NEW q \in Orders PROVE WaitsFit(q)' /\ OffersFit(q)'
  <2>1. PICK p \in Periods : p = order[q].period
    BY TypeRows DEF OrderRow
  <2>2. WaitsFit(q) /\ OffersFit(q)
    BY DEF Shown
  <2>3. run'[q]["cron"] = run[q]["cron"] \/ run'[q]["cron"].pc = "idle"
    BY <1>0, <1>1 DEF RunBecomes
  <2>4. CASE order'[q].status = order[q].status
    <3>1. order'[q].period = p /\ order'[q].step = order[q].step /\ order'[q].offer = order[q].offer
      BY <1>1, <2>1
    <3>2. QED
      BY <1>1, <1>3, <2>1, <2>2, <2>3, <2>4, <3>1, ShownStays
  <2>5. CASE order'[q].status # order[q].status
    <3>1. /\ q = o /\ order[q].status = "PROCESSING" /\ order'[q].status = run[o][c].out
      BY <1>1, <2>5
    <3>2. order'[q].status = "PENDING" => run'[q]["cron"].pc = "idle"
      BY <1>0, <1>1, <3>1
    <3>3. order'[q].status # "CONFIRMED"
      BY <1>0, <1>1, <3>1 DEF Fit, InvocationFits
    <3>4. Running(q)' => Running(q) /\ run'[q]["cron"] = run[q]["cron"]
      BY <2>3 DEF Running
    <3>5. WaitsFit(q)'
      BY <1>1, <2>2, <3>1, <3>2, <3>3, <3>4 DEF WaitsFit, Used, Unused
    <3>6. OffersFit(q)'
      <4>1. ~Final(q) /\ Used(q) /\ order'[q].offer = order[q].offer /\ order'[q].period = p
        BY <1>1, <2>1, <3>1 DEF Final, FinalStati, Used, Unused
      <4>2. Settled(p)' => order[q].offer = offer[p] /\ (Running(q) => run[q]["cron"].offer = offer[p])
        BY <1>3, <2>1, <2>2, <4>1 DEF OffersFit
      <4>3. QED
        BY <1>1, <3>4, <4>1, <4>2 DEF OffersFit
    <3>7. QED
      BY <3>5, <3>6
  <2>6. QED
    BY <2>4, <2>5
<1>5. QED
  BY <1>1, <1>2, <1>3, <1>4, PeriodsShown DEF Shown

LEMMA CreateShown ==
  ASSUME TypeOK, Fit, Shown, NEW p \in Periods, NEW f \in Offers, CreateRenewPlan(p, f),
         UNCHANGED <<period, run, charged, revived, offers>>, renewing' \subseteq renewing,
         p \in revived \/ <<p, f>> \in renewing,
         op'.move = op.move, op'.found = op.found, op'.offer = op.offer \/ op' = NoOp
  PROVE  Shown'
<1>1. PICK o \in Orders :
        /\ Unused(o) /\ RowBecomes(o, order'[o]) /\ order'[o].period = p
        /\ order'[o].status = "CONFIRMED" /\ order'[o].step = order[o].step
        /\ order'[o].offer = f
  BY CreateEffect
<1>2. /\ Moving' = Moving /\ UNCHANGED <<offer, missed>>
  <2>1. \A q \in op.found : order'[q].period = order[q].period
    BY <1>1 DEF Fit, OpFits, RowBecomes, TypeOK, Used
  <2>2. QED
    BY <2>1, MovingStays DEF offers
<1>3. \A q : Settled(q)' <=> Settled(q)
  BY <1>2 DEF Settled
<1>4. \A q \in Periods : q \in Moving' => op'.offer = offer[q]
  <2>1. op' = NoOp => Moving' = {}
    BY NothingMoves DEF NoOp
  <2>2. QED
    BY <1>2, <2>1 DEF Shown
<1>5. WaitsFit(o)' /\ OffersFit(o)'
  <2>1. order[o].step = NoStep /\ run[o]["cron"].pc = "idle" /\ run' = run
    BY <1>1 DEF Fit, OrderFits
  <2>2. WaitsFit(o)'
    BY <1>1, <2>1, StepNumbers DEF WaitsFit, Running
  <2>3. Settled(p)' => f = offer'[p]
    BY <1>2, <1>3 DEF Shown, Settled
  <2>4. OffersFit(o)'
    BY <1>1, <2>1, <2>3 DEF OffersFit, Running
  <2>5. QED
    BY <2>2, <2>4
<1>6. ASSUME NEW q \in Orders \ {o} PROVE WaitsFit(q)' /\ OffersFit(q)'
  <2>1. PICK r \in Periods : r = order[q].period
    BY TypeRows DEF OrderRow
  <2>2. WaitsFit(q) /\ OffersFit(q) /\ order'[q] = order[q] /\ run' = run
    BY <1>1 DEF Shown, RowBecomes
  <2>3. QED
    BY <1>2, <1>3, <2>1, <2>2, ShownStays
<1>7. QED
  BY <1>2, <1>3, <1>4, <1>5, <1>6, PeriodsShown

LEMMA CronShown ==
  ASSUME TypeOK, Fit, Paid, Shown,
         \/ \E o \in Orders : ProcessConfirmed(o) \/ ProcessPending(o)
         \/ Renewing \/ Changing \/ Tick
  PROVE  Shown'
<1>1. ASSUME NEW o \in Orders, ProcessConfirmed(o) \/ ProcessPending(o) PROVE Shown'
  <2>1. /\ RowBecomes(o, order'[o]) /\ order'[o].period = order[o].period
        /\ order'[o].step = order[o].step /\ order'[o].offer = order[o].offer
        /\ \/ /\ order[o].status = "CONFIRMED" /\ order'[o].status = "PENDING" /\ run' = run
           \/ /\ order[o].status \in {"PENDING", "ERROR"} /\ order'[o].status = "PROCESSING"
              /\ RunBecomes(o, "cron", run'[o]["cron"])
              /\ order[o].action \in {"RUN", "ABORT"}
              /\ LET r == run'[o]["cron"] IN
                 /\ r.action = order[o].action /\ r.offer = order[o].offer
                 /\ order[o].action = "RUN" => r.i = IF order[o].step = NoStep
                                                     THEN DELAY_BILLING ELSE order[o].step
        /\ UNCHANGED <<period, op, renewing, charged, revived, offer, missed>>
    <3>1. CASE ProcessConfirmed(o)
      BY <3>1, ProcessConfirmedEffect DEF ProcessConfirmed, RowMarked, history, offers
    <3>2. CASE ProcessPending(o)
      BY <3>2, ClaimFrame DEF RowMarked, offers
    <3>3. QED
      BY <1>1, <3>1, <3>2
  <2>2. Moving' = Moving
    <3>1. \A q \in op.found : order'[q].period = order[q].period
      BY <2>1 DEF RowBecomes, TypeOK
    <3>2. QED
      BY <2>1, <3>1, MovingStays
  <2>3. \A p : Settled(p)' <=> Settled(p)
    BY <2>1, <2>2 DEF Settled
  <2>4. WaitsFit(o)' /\ OffersFit(o)'
    <3>1. PICK p \in Periods : p = order[o].period
      BY TypeRows DEF OrderRow
    <3>2. WaitsFit(o) /\ OffersFit(o) /\ OrderFits(o)
      BY DEF Shown, Fit
    <3>3. Used(o) /\ ~Final(o) /\ order'[o].period = p
      BY <2>1, <3>1 DEF Used, Unused, Final, FinalStati
    <3>4. /\ order'[o].status = "PENDING" => run'[o]["cron"].pc = "idle"
          /\ order'[o].status # "CONFIRMED"
          /\ Running(o)' => /\ run'[o]["cron"].offer = order[o].offer
                            /\ run'[o]["cron"].i \in {DELAY_BILLING, order[o].step}
      BY <2>1, <3>2 DEF OrderFits, Running
    <3>5. WaitsFit(o)'
      BY <2>1, <3>1, <3>2, <3>3, <3>4, StepNumbers DEF WaitsFit
    <3>6. Settled(p)' => order[o].offer = offer[p]
      BY <2>3, <3>1, <3>2, <3>3 DEF OffersFit
    <3>7. OffersFit(o)'
      BY <2>1, <3>3, <3>4, <3>6 DEF OffersFit
    <3>8. QED
      BY <3>5, <3>7
  <2>5. ASSUME NEW q \in Orders \ {o} PROVE WaitsFit(q)' /\ OffersFit(q)'
    <3>1. PICK p \in Periods : p = order[q].period
      BY TypeRows DEF OrderRow
    <3>2. WaitsFit(q) /\ OffersFit(q) /\ order'[q] = order[q] /\ run'[q] = run[q]
      BY <2>1 DEF Shown, RowBecomes, RunBecomes
    <3>3. QED
      BY <2>1, <2>3, <3>1, <3>2, ShownStays
  <2>6. QED
    BY <2>1, <2>2, <2>3, <2>4, <2>5, PeriodsShown DEF Shown
<1>2. ASSUME NEW p \in Periods, RenewPeriod(p) PROVE Shown'
  <2>1. /\ ~Exists(p) /\ period' = [period EXCEPT ![p] = "PENDING"]
        /\ offer' = [offer EXCEPT ![p] = sub.offer]
        /\ renewing' = renewing \cup {<<p, sub.offer>>}
        /\ UNCHANGED <<order, run, op, charged, revived, missed>>
    BY <1>2 DEF RenewPeriod
  <2>2. /\ offer'[p] = sub.offer
        /\ \A q \in Periods \ {p} : offer'[q] = offer[q] /\ period'[q] = period[q]
    BY <2>1 DEF TypeOK
  <2>3. Moving' = Moving
    BY <2>1, MovingStays
  <2>4. \A q : Settled(q)' <=> Settled(q)
    BY <2>1, <2>3 DEF Settled
  <2>5. /\ \A o \in Orders : order[o].period # p
        /\ ~Billed(p)' /\ \A g \in Offers : <<p, g>> \notin renewing
        /\ p \notin Moving
    <3>1. \A o \in Orders : order[o].period # p
      BY <2>1 DEF Fit, OrderFits
    <3>2. ~Billed(p)'
      BY <2>1 DEF Paid, Billed
    <3>3. \A g \in Offers : <<p, g>> \notin renewing
      BY <2>1 DEF Fit, PeriodsFit
    <3>4. p \notin Moving
      BY <2>1, <3>1 DEF Moving, Fit, OpFits, TypeOK
    <3>5. QED
      BY <3>1, <3>2, <3>3, <3>4
  <2>6. ASSUME NEW o \in Orders PROVE WaitsFit(o)' /\ OffersFit(o)'
    <3>1. PICK q \in Periods : q = order[o].period
      BY TypeRows DEF OrderRow
    <3>2. WaitsFit(o) /\ OffersFit(o) /\ q # p
      BY <2>5, <3>1 DEF Shown
    <3>3. QED
      BY <2>1, <2>2, <2>4, <3>1, <3>2, ShownStays
  <2>7. BilledAsShown'
    <3>1. \A g \in Offers : ~(charged'[p][g] > 0)
      BY <2>5 DEF Billed
    <3>2. QED
      BY <2>1, <2>2, <3>1 DEF Shown, BilledAsShown
  <2>8. ASSUME NEW q \in Periods
        PROVE  /\ q \notin revived' /\ Billed(q)' /\ q # 0 => period'[q] # "PENDING"
               /\ q \in Moving' => op'.offer = offer'[q]
               /\ Settled(q)' => \A f \in Offers : <<q, f>> \in renewing' => f = offer'[q]
    <3>1. CASE q = p
      <4>1. Billed(q)' <=> Billed(p)'
        BY <3>1 DEF Billed
      <4>2. \A f \in Offers : <<q, f>> \in renewing' => f = offer'[q]
        BY <2>1, <2>2, <2>5, <3>1
      <4>3. QED
        BY <2>3, <2>5, <3>1, <4>1, <4>2
    <3>2. CASE q # p
      <4>1. (Billed(q)' <=> Billed(q)) /\ \A f : <<q, f>> \in renewing' => <<q, f>> \in renewing
        BY <2>1, <3>2 DEF Billed
      <4>2. QED
        BY <2>1, <2>2, <2>3, <2>4, <3>2, <4>1 DEF Shown
    <3>3. QED
      BY <3>1, <3>2
  <2>9. QED
    BY <2>6, <2>7, <2>8 DEF Shown
<1>3. ASSUME NEW p \in Periods, RenewOrder(p) PROVE Shown'
  <2>1. PICK f \in Offers :
          /\ <<p, f>> \in renewing /\ renewing' = renewing \ {<<p, f>>}
          /\ CreateRenewPlan(p, f)
          /\ UNCHANGED <<period, run, op, charged, revived, offers>>
    BY <1>3 DEF RenewOrder
  <2>2. QED
    BY <2>1, CreateShown
<1>4. CASE Changing \/ Tick
  <2>1. UNCHANGED <<period, order, run, op, renewing, charged, revived, offer, missed>>
    BY <1>4 DEF Changing, ReadExpired, ChangePeriod, Expire, Tick, history, offers
  <2>2. Moving' = Moving
    BY <2>1, MovingStays
  <2>3. QED
    BY <2>1, <2>2, RowsSameShown DEF Shown
<1>5. QED
  BY <1>1, <1>2, <1>3, <1>4 DEF Renewing

LEMMA OperationShown ==
  ASSUME TypeOK, Fit, Shown, Operation
  PROVE  Shown'
<1>1. CASE Cancel \/ Suspend \/ Deactivate
  <2>1. /\ op = NoOp /\ op' = Left(StopFuture)
        /\ UNCHANGED <<period, order, run, renewing, charged, revived, offer, missed>>
    BY <1>1 DEF Cancel, Suspend, Deactivate, BeginOp, history, offers
  <2>2. Moving = {} /\ Moving' = {}
    <3>1. op'.move = {} /\ op'.found = {} /\ op.move = {} /\ op.found = {}
      BY <2>1, LeftKeeps DEF StopFuture, NoOp
    <3>2. QED
      BY <3>1, NothingMoves DEF Moving
  <2>3. QED
    BY <2>1, <2>2, RowsSameShown
<1>2. ASSUME NEW stati, Revive(stati) PROVE Shown'
  <2> DEFINE again == {p \in Periods : Future(p) /\ period[p] = "CANCELLED"}
             pending == again \cup {p \in Periods : period[p] = "PENDING"}
             todo == [NoOp EXCEPT !.renew = pending, !.offer = sub.offer]
  <2>1. /\ op = NoOp /\ op' = Left(todo)
        /\ UNCHANGED <<order, run, renewing, charged, offer, missed>>
        /\ revived' = revived \cup pending
        /\ period' = [p \in Periods |-> IF p \in again THEN "PENDING" ELSE period[p]]
    BY <1>2 DEF Revive, BeginOp, offers
  <2>2. Moving = {} /\ Moving' = {}
    <3>1. todo.move = {} /\ todo.found = {} /\ op.move = {} /\ op.found = {}
      BY <2>1 DEF NoOp
    <3> HIDE DEF todo
    <3>2. op'.move = {} /\ op'.found = {}
      BY <2>1, <3>1, LeftKeeps
    <3>3. QED
      BY <3>1, <3>2, NothingMoves DEF Moving
  <2>3. \A p \in Periods : p \notin revived' /\ period'[p] = "PENDING" => period[p] = "PENDING"
    BY <2>1
  <2> HIDE DEF again, pending, todo
  <2>4. QED
    BY <2>1, <2>2, <2>3, RowsSameShown
<1>3. ASSUME NEW p \in Periods, RerunPeriod(p) PROVE Shown'
  <2> DEFINE todo == [NoOp EXCEPT !.renew = {p}, !.reset = {p}, !.offer = offer[p]]
  <2>1. /\ op = NoOp /\ (op' = NoOp \/ op' = Left(todo)) /\ revived' = revived \cup {p}
        /\ UNCHANGED <<period, run, renewing, charged, offer, missed>>
    BY <1>3, RerunEffect DEF RerunPeriod, offers
  <2>2. Moving = {} /\ Moving' = {}
    <3>1. /\ todo.move = {} /\ todo.found = {} /\ NoOp.move = {} /\ NoOp.found = {}
      BY DEF NoOp
    <3> HIDE DEF todo
    <3>2. op'.move = {} /\ op'.found = {} /\ op.move = {} /\ op.found = {}
      BY <2>1, <3>1, LeftKeeps
    <3>3. QED
      BY <3>2, NothingMoves DEF Moving
  <2> HIDE DEF todo
  <2>3. \A q : Settled(q)' => Settled(q) /\ q # p
    BY <2>1, <2>2 DEF Settled
  <2>4. ASSUME NEW q \in Orders PROVE WaitsFit(q)' /\ OffersFit(q)'
    <3>1. PICK r \in Periods : r = order[q].period
      BY TypeRows DEF OrderRow
    <3>2. WaitsFit(q) /\ OffersFit(q)
      BY DEF Shown
    <3>3. order'[q] = order[q] \/ order'[q].period = p
      BY <1>3, RerunEffect
    <3>4. CASE order'[q] = order[q]
      BY <2>1, <2>3, <3>1, <3>2, <3>4, ShownStays
    <3>5. CASE order'[q].period = p
      BY <2>1, <3>5 DEF WaitsFit, OffersFit, Settled
    <3>6. QED
      BY <3>3, <3>4, <3>5
  <2>5. QED
    BY <2>1, <2>2, <2>3, <2>4, PeriodsShown
<1>4. ASSUME NEW f \in Offers, ChangeOffer(f) PROVE Shown'
  <2> DEFINE todo == [NoOp EXCEPT !.move = Upcoming, !.offer = f]
  <2>1. /\ op = NoOp /\ op' = Left(todo)
        /\ offer' = [p \in Periods |-> IF p \in Upcoming THEN f ELSE offer[p]]
        /\ UNCHANGED <<period, order, run, renewing, charged, revived, missed>>
    BY <1>4 DEF ChangeOffer, BeginOp
  <2>2. Moving = {} /\ Moving' = Upcoming /\ (op'.offer = f \/ op' = NoOp)
    <3>1. /\ op.move = {} /\ op.found = {}
          /\ todo.move = Upcoming /\ todo.found = {} /\ todo.offer = f
      BY <2>1 DEF NoOp
    <3> HIDE DEF todo
    <3>2. op'.move = Upcoming /\ op'.found = {} /\ (op'.offer = f \/ op' = NoOp)
      BY <2>1, <3>1, LeftKeeps
    <3>3. QED
      BY <3>1, <3>2 DEF Moving
  <2> HIDE DEF todo
  <2>3. /\ op' = NoOp => Upcoming = {}
        /\ \A p \in Periods : p \in Moving' => op'.offer = offer'[p]
    <3>1. op' = NoOp => Upcoming = {}
      BY <2>2, NothingMoves DEF NoOp
    <3>2. QED
      BY <2>1, <2>2, <3>1
  <2>4. \A p \in Periods : /\ Settled(p)' => Settled(p) /\ offer'[p] = offer[p]
                           /\ p \notin Upcoming => offer'[p] = offer[p]
    BY <2>1, <2>2 DEF Settled
  <2>5. ASSUME NEW q \in Orders PROVE WaitsFit(q)' /\ OffersFit(q)'
    <3>1. PICK r \in Periods : r = order[q].period
      BY TypeRows DEF OrderRow
    <3>2. WaitsFit(q) /\ OffersFit(q)
      BY DEF Shown
    <3>3. QED
      BY <2>1, <2>4, <3>1, <3>2, ShownStays
  <2>6. \A p \in Upcoming : p \notin revived => ~Billed(p)
    <3>1. 0 \notin Upcoming /\ Upcoming \subseteq Periods
      BY SubscriptionAssumption DEF Upcoming, Future, StartsAt, TypeOK, EndOfTime, EndsAt
    <3>2. QED
      BY <3>1 DEF Shown, Upcoming
  <2>7. BilledAsShown'
    <3>1. ASSUME NEW p \in Periods, p \notin revived \cup missed, NEW g \in Offers, charged[p][g] > 0
          PROVE  g = offer'[p]
      <4>1. p \notin Upcoming
        BY <2>6, <3>1 DEF Billed
      <4>2. QED
        BY <2>4, <3>1, <4>1 DEF Shown, BilledAsShown
    <3>2. QED
      BY <2>1, <3>1 DEF BilledAsShown
  <2>8. \A p : Billed(p)' <=> Billed(p)
    BY <2>1 DEF Billed
  <2>9. QED
    BY <2>1, <2>3, <2>4, <2>5, <2>7, <2>8 DEF Shown
<1>5. QED
  BY <1>1, <1>2, <1>3, <1>4 DEF Operation, Uncancel, Reactivate

LEMMA AbortShown ==
  ASSUME TypeOK, Fit, Shown, NEW o \in Orders, OpAbort(o)
  PROVE  Shown'
<1>0. /\ UNCHANGED <<period, renewing, charged, revived, offer, missed>> /\ "op" # "cron"
      /\ o \in op.abort /\ op.move = {} /\ op.found = {} /\ "cron" \in Callers /\ Used(o)
  BY DEF OpAbort, Fit, OpFits, offers, Callers
<1>1. /\ \/ UNCHANGED <<order, run>> /\ op' = NoOp
         \/ /\ RowBecomes(o, order'[o]) /\ order'[o].period = order[o].period
            /\ order'[o].step = order[o].step /\ order'[o].offer = order[o].offer
            /\ order'[o].status \in {"ABORTED", "PROCESSING"} /\ ~Final(o)
            /\ \A q \in Orders : run'[q]["cron"] = run[q]["cron"]
      /\ op'.move = {} /\ op'.found = {}
  <2>1. RunBecomes(o, "op", Claimed(o, "ABORT")) =>
          \A q \in Orders : run'[q]["cron"] = run[q]["cron"]
    BY <1>0 DEF RunBecomes
  <2>2. op' = Left([op EXCEPT !.abort = @ \ {o}]) => op'.move = {} /\ op'.found = {}
    BY <1>0, AbortDone
  <2>3. op' \in {op, NoOp} => op'.move = {} /\ op'.found = {}
    BY <1>0 DEF NoOp
  <2>4. order[o].status = "CONFIRMED" => ~Final(o)
    BY DEF Final, FinalStati
  <2>5. QED
    BY <2>1, <2>2, <2>3, <2>4, OpAbortEffect DEF RowMarked
<1>2. Moving = {} /\ Moving' = {}
  BY <1>0, <1>1, NothingMoves DEF Moving
<1>3. \A p : Settled(p)' <=> Settled(p)
  BY <1>0, <1>2 DEF Settled
<1>4. CASE UNCHANGED <<order, run>>
  BY <1>0, <1>2, <1>4, RowsSameShown
<1>5. CASE ~UNCHANGED <<order, run>>
  <2>1. ASSUME NEW q \in Orders \ {o} PROVE WaitsFit(q)' /\ OffersFit(q)'
    <3>1. PICK p \in Periods : p = order[q].period
      BY TypeRows DEF OrderRow
    <3>2. WaitsFit(q) /\ OffersFit(q) /\ order'[q] = order[q] /\ run'[q]["cron"] = run[q]["cron"]
      BY <1>1, <1>5 DEF Shown, RowBecomes
    <3>3. QED
      BY <1>0, <1>3, <3>1, <3>2, ShownStays
  <2>2. WaitsFit(o)' /\ OffersFit(o)'
    <3>1. PICK p \in Periods : p = order[o].period
      BY TypeRows DEF OrderRow
    <3>2. /\ WaitsFit(o) /\ OffersFit(o) /\ order'[o].period = p /\ ~Final(o)
          /\ order'[o].step = order[o].step /\ order'[o].offer = order[o].offer
          /\ order'[o].status \in {"ABORTED", "PROCESSING"} /\ run'[o]["cron"] = run[o]["cron"]
      BY <1>1, <1>5, <3>1 DEF Shown
    <3>3. WaitsFit(o)'
      BY <1>0, <3>1, <3>2 DEF WaitsFit, Running
    <3>4. Settled(p)' => order[o].offer = offer[p] /\ (Running(o) => run[o]["cron"].offer = offer[p])
      BY <1>0, <1>3, <3>1, <3>2 DEF OffersFit
    <3>5. OffersFit(o)'
      BY <1>0, <3>2, <3>4 DEF OffersFit, Running
    <3>6. QED
      BY <3>3, <3>5
  <2>3. QED
    BY <1>0, <1>2, <1>3, <2>1, <2>2, PeriodsShown
<1>6. QED
  BY <1>4, <1>5

(* The orders found get the new offer; who was not PENDING is missed *)
LEMMA MoveShown ==
  ASSUME TypeOK, Fit, Shown, OpMoveOrders
  PROVE  Shown'
<1>1. /\ op' = Left([op EXCEPT !.found = {}])
      /\ missed' = missed \cup {order[o].period : o \in {q \in op.found : order[q].status # "PENDING"}}
      /\ UNCHANGED <<period, offer, run, renewing, charged, revived>>
  BY DEF OpMoveOrders
<1>2. /\ op'.move = op.move /\ op'.found = {} /\ (op'.offer = op.offer \/ op' = NoOp)
  BY <1>1, MoveDone, OfferLeft
<1>3. Moving' = op.move /\ op.move \subseteq Moving /\ missed \subseteq missed'
  BY <1>1, <1>2 DEF Moving
<1>4. \A p \in Periods : p \in Moving' => op'.offer = offer[p]
  <2>1. op' = NoOp => Moving' = {}
    BY NothingMoves DEF NoOp
  <2>2. QED
    BY <1>2, <1>3, <2>1 DEF Shown
(* A period that settles now had one order, which was found and waits *)
<1>5. ASSUME NEW p \in Periods, Settled(p)', ~Settled(p)
      PROVE  \E o \in op.found :
               /\ order[o].period = p /\ order[o].status = "PENDING" /\ Used(o)
               /\ \A q \in Orders : Used(q) /\ order[q].period = p => q = o
               /\ \A f \in Offers : <<p, f>> \notin renewing
               /\ op.offer = offer[p]
  <2>1. p \in Moving /\ p \notin op.move /\ p \notin revived /\ p \notin missed'
    BY <1>1, <1>3, <1>5 DEF Settled
  <2>2. PICK o \in op.found : order[o].period = p
    BY <2>1 DEF Moving
  <2>3. o \in Orders /\ Used(o) /\ order[o].status = "PENDING"
    BY <1>1, <2>1, <2>2 DEF TypeOK, Fit, OpFits
  <2>4. OneOrder(p) /\ op.offer = offer[p]
    BY <2>1 DEF Fit, PeriodsFit, Shown
  <2>5. QED
    BY <2>2, <2>3, <2>4 DEF OneOrder
<1>6. ASSUME NEW q \in Orders PROVE WaitsFit(q)' /\ OffersFit(q)'
  <2>1. PICK p \in Periods : p = order[q].period
    BY TypeRows DEF OrderRow
  <2>2. /\ WaitsFit(q) /\ OffersFit(q)
        /\ order'[q].period = p /\ order'[q].status = order[q].status
        /\ order'[q].step = order[q].step
        /\ q \in op.found => order'[q].offer = op.offer
        /\ q \notin op.found => order'[q].offer = order[q].offer
    BY <2>1, MoveEffect DEF Shown
  <2>3. WaitsFit(q)'
    BY <1>1, <2>1, <2>2 DEF WaitsFit, Running, Used, Unused
  <2>4. CASE ~Used(q)
    BY <2>2, <2>4 DEF OffersFit, Used, Unused, WaitsFit
  <2>5. CASE Used(q) /\ Settled(p)' /\ ~Settled(p)
    <3>1. q \in op.found /\ op.offer = offer[p] /\ order[q].status = "PENDING"
      BY <1>5, <2>1, <2>5
    <3>2. run[q]["cron"].pc = "idle"
      BY <1>1, <2>1, <2>2, <2>5, <3>1 DEF WaitsFit, Settled
    <3>3. QED
      BY <1>1, <2>2, <2>3, <3>1, <3>2 DEF OffersFit, Running
  <2>6. CASE Used(q) /\ Settled(p)' /\ Settled(p)
    <3>1. q \notin op.found
      BY <2>1, <2>6 DEF Settled, Moving
    <3>2. QED
      BY <1>1, <2>1, <2>2, <2>3, <2>6, <3>1 DEF OffersFit, Running, Final, Used, Unused
  <2>7. CASE ~Settled(p)'
    BY <2>2, <2>3, <2>7 DEF OffersFit
  <2>8. QED
    BY <2>4, <2>5, <2>6, <2>7
<1>7. \A p \in Periods : Settled(p)' => Settled(p) \/ \A f \in Offers : <<p, f>> \notin renewing'
  BY <1>1, <1>5
<1>8. QED
  BY <1>1, <1>3, <1>4, <1>6, <1>7, PeriodsShown

LEMMA OperationStepShown ==
  ASSUME TypeOK, Fit, Shown, OperationStep \/ OpFails \/ Crash
  PROVE  Shown'
<1>0. \A p \in Periods : op' = NoOp => p \notin Moving'
  BY NothingMoves DEF NoOp
<1>1. CASE (\E o \in Orders : OpAbort(o)) \/ OpMoveOrders
  BY <1>1, AbortShown, MoveShown
<1>2. ASSUME NEW p \in Periods, OpCancelPeriod(p) \/ OpReset(p) PROVE Shown'
  <2>1. /\ \/ /\ op' = Left([op EXCEPT !.cancel = @ \ {p}])
              /\ period' = [period EXCEPT ![p] = "CANCELLED"]
           \/ /\ op' = Left([op EXCEPT !.reset = @ \ {p}]) /\ p \in revived
              /\ period' = [period EXCEPT ![p] = "PENDING"]
        /\ UNCHANGED <<order, run, renewing, charged, revived, offer, missed>>
    BY <1>2 DEF OpCancelPeriod, OpReset, history, offers, Fit, OpFits
  <2>2. op'.move = op.move /\ op'.found = op.found /\ (op'.offer = op.offer \/ op' = NoOp)
    BY <2>1, CancelDone, ResetDone, OfferLeft
  <2>3. Moving' = Moving
    BY <2>1, <2>2, MovingStays
  <2>4. \A q \in Periods : /\ q \notin revived' /\ period'[q] = "PENDING" => period[q] = "PENDING"
    BY <2>1 DEF TypeOK
  <2>5. \A q \in Periods : q \in Moving' => op'.offer = offer[q]
    BY <1>0, <2>2, <2>3 DEF Shown
  <2>6. QED
    BY <2>1, <2>3, <2>4, <2>5, RowsSameShown
<1>3. ASSUME NEW p \in Periods, OpRenew(p) PROVE Shown'
  <2>1. /\ CreateRenewPlan(p, op.offer) /\ op.offer \in Offers /\ p \in revived
        /\ op' = Left([op EXCEPT !.renew = @ \ {p}])
        /\ UNCHANGED <<period, run, renewing, charged, revived, offers>>
    BY <1>3 DEF OpRenew, TypeOK, Fit, OpFits
  <2>2. op'.move = op.move /\ op'.found = op.found /\ (op'.offer = op.offer \/ op' = NoOp)
    BY <2>1, RenewDone, OfferLeft
  <2>3. QED
    BY <2>1, <2>2, CreateShown
<1>4. ASSUME NEW p \in Periods, OpFindOrders(p) PROVE Shown'
  <2>1. PICK found \in SUBSET Renewals(p) :
          /\ op' = Left([op EXCEPT !.move = @ \ {p}, !.found = found])
          /\ op.found = {}
          /\ missed \subseteq missed' /\ (found = {} => p \in missed')
          /\ UNCHANGED <<period, order, run, renewing, charged, revived, offer>>
    <3> DEFINE found == {o \in Renewals(p) : order[o].status = "PENDING"}
    <3>1. /\ op' = Left([op EXCEPT !.move = @ \ {p}, !.found = found])
          /\ op.found = {}
          /\ missed' = IF found = {} \/ LiveOrders({p}) # found THEN missed \cup {p} ELSE missed
          /\ UNCHANGED <<period, order, run, renewing, charged, revived, offer>>
      BY <1>4 DEF OpFindOrders
    <3>2. found \in SUBSET Renewals(p)
      OBVIOUS
    <3> HIDE DEF found
    <3>3. QED
      BY <3>1, <3>2
  <2>2. /\ op'.move = op.move \ {p} /\ op'.found = found /\ (op'.offer = op.offer \/ op' = NoOp)
    BY <2>1, FindDone, OfferLeft
  <2>3. \A o \in found : order'[o].period = p
    BY <2>1 DEF Renewals
  <2>4. Moving = op.move /\ p \in op.move
    BY <1>4, <2>1 DEF Moving, OpFindOrders
  <2>5. Moving' \subseteq Moving /\ Moving \subseteq Moving' \cup missed'
    <3>1. Moving' = (op.move \ {p}) \cup {order'[o].period : o \in found}
      BY <2>2 DEF Moving
    <3>2. found # {} => p \in Moving'
      BY <2>3, <3>1
    <3>3. QED
      BY <2>1, <2>3, <2>4, <3>1, <3>2
  <2>6. \A q \in Periods : q \in Moving' => op'.offer = offer[q]
    BY <1>0, <2>2, <2>5 DEF Shown
  <2>7. QED
    BY <2>1, <2>5, <2>6, RowsSameShown
<1>5. CASE OpFails \/ Crash
  <2>1. /\ op' = NoOp /\ missed' = missed \cup Moving /\ renewing' \subseteq renewing
        /\ UNCHANGED <<period, order, charged, revived, offer>>
        /\ run' = run \/ \A o \in Orders : run'[o]["cron"].pc = "idle"
    BY <1>5, IdleInvocation DEF OpFails, Crash, CutOff, Callers
  <2>2. QED
    BY <1>0, <2>1, RowsSameShown
<1>6. QED
  BY <1>1, <1>2, <1>3, <1>4, <1>5 DEF OperationStep

LEMMA InitShown == Init => Shown
<1> SUFFICES ASSUME Init PROVE Shown
  OBVIOUS
<1>1. /\ \A o \in Orders : /\ order[o].period = 0 /\ order[o].offer = InitialOffer
                           /\ run[o]["cron"].pc = "idle"
      /\ \A p \in Periods : offer[p] = InitialOffer
      /\ renewing = {} /\ 0 \in Periods
  BY SubscriptionAssumption, IdleInvocation DEF Init, Callers, Periods
<1>2. Moving = {}
  BY DEF Init, NoOp, Moving
<1>3. \A p \in Periods, f \in Offers : charged[p][f] > 0 => p = 0 /\ f = InitialOffer
  BY DEF Init
<1>4. \A o \in Orders : WaitsFit(o)
  BY <1>1 DEF WaitsFit, Running
<1>5. \A o \in Orders : OffersFit(o)
  BY <1>1 DEF OffersFit, Running
<1>6. BilledAsShown
  BY <1>1, <1>3 DEF BilledAsShown
<1>7. QED
  BY <1>1, <1>2, <1>3, <1>4, <1>5, <1>6 DEF Shown, Billed

LEMMA NextShown == TypeOK /\ Fit /\ Paid /\ Shown /\ [Next]_vars => Shown'
<1> SUFFICES ASSUME TypeOK, Fit, Paid, Shown, [Next]_vars PROVE Shown'
  OBVIOUS
<1>1. CASE UNCHANGED vars
  <2>1. UNCHANGED <<period, order, run, op, renewing, charged, revived, offer, missed>>
    BY <1>1 DEF vars, offers
  <2>2. Moving' = Moving
    BY <2>1, MovingStays
  <2>3. QED
    BY <2>1, <2>2, RowsSameShown DEF Shown
<1>2. QED
  BY <1>1, InvocationShown, FinalUpdateShown, CronShown, OperationShown, OperationStepShown
     DEF Next, InvocationStep

(* A change of offer that comes in time is honoured: the period is billed   *)
(* for the offer that it shows, and the subscription keeps the new offer    *)
(* through every period that begins afterwards.                             *)
THEOREM OffersAreHonoured == Spec => []OfferIsHonoured
<1>1. Init => TypeOK /\ Fit /\ Paid /\ Shown /\ Kept
  BY InitTypeOK, InitFit, InitPaid, InitShown, InitKept
<1>2. TypeOK /\ Fit /\ Paid /\ Shown /\ Kept /\ [Next]_vars
      => (TypeOK /\ Fit /\ Paid /\ Shown /\ Kept)'
  BY NextTypeOK, NextFit, NextPaid, NextShown, NextKept
<1>3. Shown /\ Kept => OfferIsHonoured
  BY DEF Shown, Kept, OfferIsHonoured, ChangeIsKept
<1>4. QED
  BY <1>1, <1>2, <1>3, PTL DEF Spec

=============================================================================
