---------------------------- MODULE Subscription -----------------------------
(***************************************************************************)
(* One subscription that renews itself: SubscriptionService                *)
(* (subscription/subscription.service.ts) and the renewal order it creates *)
(* for every period (order/processors/renew-plan.processor.ts).            *)
(*                                                                         *)
(* The subscription, its periods and its orders are rows.  They are        *)
(* written by the cron jobs that create the next period and move on to it, *)
(* by the operations of users and administrators, which are sequences of   *)
(* calls with nothing held in between, and by the steps of the orders.     *)
(* The order engine itself is the subject of OrderEngine: here an order is *)
(* worked on by at most one invocation of the cron job and one of abort,   *)
(* and a step with its bookkeeping is one action.                          *)
(*                                                                         *)
(* Time is counted in half periods: period p starts at 2p and ends at      *)
(* 2p + 2, and `now` stands for a moment after the now-th half began.      *)
(***************************************************************************)
EXTENDS Integers, FiniteSets

CONSTANTS
  LastPeriod,     \* bound: the last period there is room for
  MaxOrders,      \* bound: renewal orders that can be created
  BillingOffset,  \* when a renewal bills and when it activates the plan,
  TelcoOffset,    \*   in half periods from the start of its period
  Activated,      \* whether the ADD_PLAN order is done at the start
  Offers,         \* the offers of the plan, and
  InitialOffer,   \*   the one subscribed to
  NoOffer,        \* the offer of an operation that needs none
  MaxOps,         \* bound: operations of users and administrators
  MaxFailures,    \* bound: steps and calls that fail
  MaxCrashes      \* bound: crashes of the server

ASSUME SubscriptionAssumption ==
  /\ LastPeriod \in Nat /\ MaxOrders \in Nat
  /\ BillingOffset \in Int /\ TelcoOffset \in Int
  /\ Activated \in BOOLEAN
  /\ InitialOffer \in Offers /\ NoOffer \notin Offers
  /\ MaxOps \in Nat /\ MaxFailures \in Nat /\ MaxCrashes \in Nat

VARIABLES
  now,          \* the time
  sub,          \* the Subscription row
  period,       \* SubscriptionPeriod rows: the status of each
  offer,        \* SubscriptionPeriod.offerId
  order,        \* the ADD_PLAN order (number 0) and the RENEW_PLAN orders
  run,          \* the invocations of processOrder, by order and caller
  op,           \* what the operation under way still has to do
  renewing,     \* periods processRenewals created and has no order for yet,
                \*   each with the offer of the order to be
  change,       \* the local state of processPeriodChanges
  spent,        \* how often the environment has used each bound
  charged,      \* history: how often each period has been paid for
  revived,      \* history: periods an operation made an order for or retried
  escaped,      \* history: orders that a cancellation could not stop
  shown,        \* history: the offer last asked for, and whether too late
  missed        \* history: periods whose orders a change of offer did not reach

offers == <<offer, shown, missed>>

vars == <<now, sub, period, order, run, op, renewing, change,
          spent, charged, revived, escaped, offers>>
history == <<charged, revived, escaped, offers>>

-----------------------------------------------------------------------------
Periods == 0 .. LastPeriod
NoPeriod == -1
Orders == 0 .. MaxOrders
AddPlan == 0                          \* the order that created the subscription

StartsAt(p) == 2 * p
EndsAt(p) == 2 * p + 2
EndOfTime == EndsAt(LastPeriod)

SubStatus == {"PENDING", "ACTIVE", "CANCELLED", "DEACTIVATED", "SUSPENDED"}
PeriodStatus == {"ABSENT", "PENDING", "PROCESSING", "DONE", "CANCELLED", "FAILED"}
OrderStatus == {"ABSENT", "CONFIRMED", "PENDING", "PROCESSING", "ERROR", "DONE", "ABORTED"}
FinalStati == {"DONE", "ABORTED"}

(* The steps of a renewal, INVOICE and BILLING taken together.  REWARDS and  *)
(* CERTIFICATES follow TELCO and do not touch the subscription.              *)
DELAY_BILLING == 0
SUBSCRIPTION == 1
BILLING == 2
DELAY_TELCO == 3
TELCO == 4
Steps == DELAY_BILLING .. TELCO
NoStep == -1

Callers == {"cron", "op"}

OrderRow == [period : Periods, status : OrderStatus, action : {"RUN", "ABORT"},
             step : Steps \cup {NoStep}, runAt : Int, offer : Offers]

(* "active" and "failed": between the two calls of the TELCO step and of the *)
(* abort of SUBSCRIPTION                                                     *)
Invocation == [pc : {"idle", "step", "active", "failed", "final"}, action : {"RUN", "ABORT"},
               i : Steps, out : OrderStatus, runAt : Int, offer : Offers]

Idle == [pc |-> "idle", action |-> "RUN", i |-> 0, out |-> "DONE", runAt |-> 0,
         offer |-> InitialOffer]

(* abort: orders to abort; cancel: periods to mark CANCELLED after that;     *)
(* renew: periods to create an order for; reset: periods to mark PENDING     *)
(* after that; move: periods whose orders get the new offer; found: orders   *)
(* that were found for it                                                    *)
NoOp == [abort |-> {}, cancel |-> {}, renew |-> {}, reset |-> {}, move |-> {}, found |-> {},
         offer |-> NoOffer]

Finished(todo) == {todo.abort, todo.cancel, todo.renew, todo.reset, todo.move, todo.found} = {{}}

(* What is left of an operation *)
Left(todo) == IF Finished(todo) THEN NoOp ELSE todo

NoChange == [pc |-> "idle", status |-> "ACTIVE", next |-> NoPeriod, offer |-> NoOffer]

TypeOK ==
  /\ now \in 0 .. EndOfTime
  /\ sub \in [status : SubStatus, current : Periods \cup {NoPeriod}, offer : Offers]
  /\ period \in [Periods -> PeriodStatus] /\ offer \in [Periods -> Offers]
  /\ order \in [Orders -> OrderRow]
  /\ run \in [Orders -> [Callers -> Invocation]]
  /\ op \in [abort : SUBSET Orders, cancel : SUBSET Periods,
             renew : SUBSET Periods, reset : SUBSET Periods, move : SUBSET Periods,
             found : SUBSET Orders, offer : Offers \cup {NoOffer}]
  /\ op.renew \cup op.move \cup op.found # {} => op.offer \in Offers
  /\ renewing \subseteq Periods \X Offers
  /\ change \in [pc : {"idle", "apply"}, status : SubStatus,
                 next : Periods \cup {NoPeriod}, offer : Offers \cup {NoOffer}]
  /\ change.next # NoPeriod => change.offer \in Offers
  /\ spent \in [{"op", "failure", "crash"} -> Nat]
  /\ charged \in [Periods -> [Offers -> Nat]]
  /\ revived \subseteq Periods
  /\ escaped \subseteq Orders
  /\ shown \in [offer : Offers, late : BOOLEAN] /\ missed \subseteq Periods

(* The ADD_PLAN order has created the subscription, with its first period,  *)
(* and billed it; it has activated it, or is to do so (after SHIPPING).     *)
Init ==
  /\ now = 0
  /\ sub = [status |-> IF Activated THEN "ACTIVE" ELSE "PENDING", current |-> 0,
            offer |-> InitialOffer]
  /\ period = [p \in Periods |->
       IF p # 0 THEN "ABSENT" ELSE IF Activated THEN "DONE" ELSE "PENDING"]
  /\ offer = [p \in Periods |-> InitialOffer]
  /\ order = [o \in Orders |->
       [period |-> 0, action |-> "RUN", runAt |-> 0, offer |-> InitialOffer,
        status |-> IF o # AddPlan THEN "ABSENT" ELSE IF Activated THEN "DONE" ELSE "PENDING",
        step |-> IF o = AddPlan /\ ~Activated THEN TELCO ELSE NoStep]]
  /\ run = [o \in Orders |-> [c \in Callers |-> Idle]]
  /\ op = NoOp
  /\ renewing = {}
  /\ change = NoChange
  /\ spent = [e \in {"op", "failure", "crash"} |-> 0]
  /\ charged = [p \in Periods |-> [f \in Offers |-> IF p = 0 /\ f = InitialOffer THEN 1 ELSE 0]]
  /\ revived = {}
  /\ escaped = {}
  /\ shown = [offer |-> InitialOffer, late |-> FALSE]
  /\ missed = {}

Spend(event, bound) ==
  /\ spent[event] < bound
  /\ spent' = [spent EXCEPT ![event] = @ + 1]

-----------------------------------------------------------------------------
(***************************************************************************)
(* Seeded bugs.  Each is a plausible slip in one of the definitions below; *)
(* README.md says which property tells it from the code.                   *)
(***************************************************************************)
FirstStep_NullNotChecked(o, action) == order[o].step

FirstStep_Restarts(o, action) == IF action = "RUN" THEN DELAY_BILLING ELSE TELCO

FirstStep_RepeatsBilling(o, action) ==
  CASE order[o].step \in {BILLING, DELAY_TELCO, TELCO} -> BILLING
    [] order[o].step = NoStep /\ action = "RUN" -> DELAY_BILLING
    [] order[o].step = NoStep /\ action = "ABORT" -> TELCO
    [] OTHER -> order[o].step

LiveOrders_PendingOnly(P) ==
  {o \in Orders \ {AddPlan} : order[o].period \in P /\ order[o].status = "PENDING"}

-----------------------------------------------------------------------------
(* Orders *)

Unused(o) == order[o].status = "ABSENT"

Renewals(p) == {o \in Orders \ {AddPlan} : ~Unused(o) /\ order[o].period = p}

(* createRenewPlan: confirmed from the start *)
CreateRenewPlan(p, f) ==
  \E o \in Orders :
    /\ Unused(o) /\ \A q \in Orders : q < o => ~Unused(q)
    /\ order' = [order EXCEPT ![o] = [@ EXCEPT !.period = p, !.status = "CONFIRMED", !.offer = f]]
    /\ escaped' = IF p \in op.cancel \/ period[p] = "CANCELLED" THEN escaped \cup {o} ELSE escaped

ProcessConfirmed(o) ==
  /\ order[o].status = "CONFIRMED"
  /\ order' = [order EXCEPT ![o].status = "PENDING"]
  /\ UNCHANGED <<now, sub, period, run, op, renewing, change, spent, history>>

FirstStep(o, action) ==
  CASE order[o].step # NoStep -> order[o].step
    [] order[o].step = NoStep /\ action = "RUN" -> DELAY_BILLING
    [] OTHER -> TELCO

(* An invocation claims the order and starts its loop.  Only the abort of    *)
(* SUBSCRIPTION does anything here, so an abort goes to it at once.          *)
Claimed(o, action) ==
  LET i == FirstStep(o, action)
      nothing == action = "ABORT" /\ (o = AddPlan \/ i < SUBSCRIPTION)
  IN [pc |-> IF nothing THEN "final" ELSE "step",
      action |-> action,
      i |-> IF action = "ABORT" /\ i > SUBSCRIPTION THEN SUBSCRIPTION ELSE i,
      out |-> "ABORTED",
      runAt |-> 0,
      offer |-> order[o].offer]

Due(o) == order[o].status \in {"PENDING", "ERROR"} /\ order[o].runAt <= now

ProcessPending(o) ==
  /\ Due(o)
  /\ run[o]["cron"].pc = "idle"
  /\ run' = [run EXCEPT ![o]["cron"] = Claimed(o, order[o].action)]
  /\ order' = [order EXCEPT ![o].status = "PROCESSING"]
  /\ UNCHANGED <<now, sub, period, op, renewing, change, spent, history>>

(* getScheduledDate of the two delays.  It returns the present for a date   *)
(* that has passed, which makes the order due just as the past date does.   *)
ScheduledAt(p, i) ==
  StartsAt(p) + (IF i = DELAY_BILLING THEN BillingOffset ELSE TelcoOffset)

NextStep(i) == i + 1

At(o, c, action, i) ==
  /\ run[o][c].pc = "step"
  /\ run[o][c].action = action
  /\ run[o][c].i = i

GoOn(o, c, i) ==
  /\ run' = [run EXCEPT ![o][c] = [@ EXCEPT !.i = NextStep(i)]]
  /\ order' = [order EXCEPT ![o].step = NextStep(i)]

Finish(o, c, out, step, runAt) ==
  /\ run' = [run EXCEPT ![o][c] = [Idle EXCEPT !.pc = "final", !.out = out, !.runAt = runAt]]
  /\ order' = [order EXCEPT ![o].step = step]

Delay(o, c) ==
  \E i \in {DELAY_BILLING, DELAY_TELCO} :
    /\ At(o, c, "RUN", i)
    /\ Finish(o, c, "PENDING", NextStep(i), ScheduledAt(order[o].period, i))
    /\ UNCHANGED <<now, sub, period, op, renewing, change, spent, history>>

MarkPeriodProcessing(o, c) ==
  /\ At(o, c, "RUN", SUBSCRIPTION)
  /\ period' = [period EXCEPT ![order[o].period] = "PROCESSING"]
  /\ GoOn(o, c, SUBSCRIPTION)
  /\ UNCHANGED <<now, sub, op, renewing, change, spent, history>>

(* Periods whose orders a change of offer under way is yet to reach *)
Moving == op.move \cup {order[o].period : o \in op.found}

Bill(o, c) ==
  /\ At(o, c, "RUN", BILLING)
  /\ charged' = [charged EXCEPT ![order[o].period][run[o][c].offer] = @ + 1]
  /\ missed' = IF order[o].period \in Moving THEN missed \cup {order[o].period} ELSE missed
  /\ GoOn(o, c, BILLING)
  /\ UNCHANGED <<now, sub, period, offer, op, renewing, change, spent, revived, escaped, shown>>

(* TELCO: markActive, whatever the subscription is by now, then              *)
(* markPeriodDone                                                            *)
MarkActive(o, c) ==
  /\ At(o, c, "RUN", TELCO)
  /\ sub' = [sub EXCEPT !.status = "ACTIVE"]
  /\ run' = [run EXCEPT ![o][c].pc = "active"]
  /\ order' = [order EXCEPT ![o].step = TELCO]
  /\ UNCHANGED <<now, period, op, renewing, change, spent, history>>

MarkPeriodDone(o, c) ==
  /\ run[o][c].pc = "active"
  /\ period' = [period EXCEPT ![order[o].period] = "DONE"]
  /\ Finish(o, c, "DONE", NoStep, 0)
  /\ UNCHANGED <<now, sub, op, renewing, change, spent, history>>

(* SUBSCRIPTION's abort: markPeriodFailed, then markSuspended *)
MarkPeriodFailed(o, c) ==
  /\ At(o, c, "ABORT", SUBSCRIPTION)
  /\ period' = [period EXCEPT ![order[o].period] = "FAILED"]
  /\ run' = [run EXCEPT ![o][c].pc = "failed"]
  /\ order' = [order EXCEPT ![o].step = SUBSCRIPTION]
  /\ UNCHANGED <<now, sub, op, renewing, change, spent, history>>

MarkSuspended(o, c) ==
  /\ run[o][c].pc = "failed"
  /\ sub' = [sub EXCEPT !.status = "SUSPENDED"]
  /\ Finish(o, c, "ABORTED", NoStep, 0)
  /\ UNCHANGED <<now, period, op, renewing, change, spent, history>>

(* A step throws: the order is retried later or given up. *)
StepFails(o, c) ==
  /\ run[o][c].pc \in {"step", "active", "failed"}
  /\ Spend("failure", MaxFailures)
  /\ \E out \in {"ERROR", "ABORTED"} : Finish(o, c, out, run[o][c].i, 0)
  /\ UNCHANGED <<now, sub, period, op, renewing, change, history>>

(* The final update of processOrder asks for a PROCESSING order; without one *)
(* it throws, to the caller of abort too.                                    *)
FinalUpdate(o, c) ==
  LET r == run[o][c] IN
  /\ run[o][c].pc = "final"
  /\ run' = [run EXCEPT ![o][c] = Idle]
  /\ IF order[o].status = "PROCESSING"
       THEN /\ order' = [order EXCEPT ![o] = [@ EXCEPT !.status = r.out, !.runAt = r.runAt]]
            /\ op' = IF c = "op" THEN Left([op EXCEPT !.abort = @ \ {o}]) ELSE op
       ELSE /\ op' = IF c = "op" THEN NoOp ELSE op
            /\ UNCHANGED order
  /\ UNCHANGED <<now, sub, period, renewing, change, spent, history>>

-----------------------------------------------------------------------------
(* Cron jobs *)

Exists(p) == period[p] # "ABSENT"

Future(p) == Exists(p) /\ StartsAt(p) > now

(* processRenewals, its transaction and then its call of createRenewPlan.   *)
(* First, a seeded bug in it: the period is forgotten.                      *)
RenewPeriod_Forgets(p) ==
  /\ sub.status = "ACTIVE"
  /\ \A q \in Periods : ~Future(q)
  /\ ~Exists(p) /\ Exists(p - 1)
  /\ period' = [period EXCEPT ![p] = "PENDING"]
  /\ offer' = [offer EXCEPT ![p] = sub.offer]
  /\ UNCHANGED <<now, sub, order, run, op, renewing, change, spent, charged, revived, escaped,
                 shown, missed>>

RenewPeriod(p) ==
  /\ sub.status = "ACTIVE"
  /\ \A q \in Periods : ~Future(q)
  /\ ~Exists(p) /\ Exists(p - 1)
  /\ period' = [period EXCEPT ![p] = "PENDING"]
  /\ offer' = [offer EXCEPT ![p] = sub.offer]
  /\ renewing' = renewing \cup {<<p, sub.offer>>}
  /\ UNCHANGED <<now, sub, order, run, op, change, spent, charged, revived, escaped, shown, missed>>

RenewOrder(p) ==
  \E f \in Offers :
    /\ <<p, f>> \in renewing
    /\ renewing' = renewing \ {<<p, f>>}
    /\ CreateRenewPlan(p, f)
    /\ UNCHANGED <<now, sub, period, run, op, change, spent, charged, revived, offers>>

(* A seeded bug: only active subscriptions move on or end *)
Expired_ActiveOnly ==
  sub.current # NoPeriod /\ sub.status = "ACTIVE" /\ EndsAt(sub.current) <= now

Expired == sub.current # NoPeriod /\ EndsAt(sub.current) <= now

(* The period that has begun and not ended, whatever its status *)
Covering == {p \in Periods : Exists(p) /\ StartsAt(p) <= now /\ EndsAt(p) > now}

(* processPeriodChanges reads, then writes *)
ReadExpired ==
  /\ Expired
  /\ change.pc = "idle"
  /\ LET next == IF Covering = {} THEN NoPeriod ELSE CHOOSE p \in Covering : TRUE IN
       change' = [pc |-> "apply", status |-> sub.status, next |-> next,
                  offer |-> IF next = NoPeriod THEN NoOffer ELSE offer[next]]
  /\ UNCHANGED <<now, sub, period, order, run, op, renewing, spent, history>>

ChangePeriod ==
  /\ change.pc = "apply"
  /\ change.next # NoPeriod
  /\ sub' = [sub EXCEPT !.current = change.next, !.offer = change.offer]
  /\ change' = NoChange
  /\ UNCHANGED <<now, period, order, run, op, renewing, spent, history>>

(* `where: { status: sub.status }`, the optimistic update clause.  The order *)
(* that createDeactivatePlan creates next does not write these rows.         *)
Expire ==
  /\ change.pc = "apply"
  /\ change.next = NoPeriod
  /\ change' = NoChange
  /\ IF sub.status = change.status
       THEN sub' = [sub EXCEPT !.status = "DEACTIVATED", !.current = NoPeriod]
       ELSE UNCHANGED sub
  /\ UNCHANGED <<now, period, order, run, op, renewing, spent, history>>

-----------------------------------------------------------------------------
(* Operations: each begins with one update of the subscription, which also  *)
(* reads the periods and orders the rest of it works on                     *)

BeginOp(todo) ==
  /\ op = NoOp
  /\ op' = Left(todo)
  /\ Spend("op", MaxOps)

(* Periods to come that wait for their order *)
Upcoming == {p \in Periods : Future(p) /\ period[p] = "PENDING"}

LiveOrders(P) == {o \in Orders \ {AddPlan} : ~Unused(o) /\ order[o].period \in P
                                              /\ order[o].status \notin FinalStati}

StopFuture == [NoOp EXCEPT !.abort = LiveOrders(Upcoming), !.cancel = Upcoming]

Cancel ==
  /\ sub.status = "ACTIVE"
  /\ sub' = [sub EXCEPT !.status = "CANCELLED"]
  /\ BeginOp(StopFuture)
  /\ UNCHANGED <<now, period, order, run, renewing, change, history>>

Suspend ==
  /\ sub' = [sub EXCEPT !.status = "SUSPENDED"]
  /\ BeginOp(StopFuture)
  /\ UNCHANGED <<now, period, order, run, renewing, change, history>>

Deactivate ==
  /\ sub' = [sub EXCEPT !.status = "DEACTIVATED", !.current = NoPeriod]
  /\ BeginOp(StopFuture)
  /\ UNCHANGED <<now, period, order, run, renewing, change, history>>

(* uncancel and reactivate: the cancelled periods to come are PENDING again, *)
(* and every PENDING period gets an order, those already begun too           *)
Revive(stati) ==
  LET again == {p \in Periods : Future(p) /\ period[p] = "CANCELLED"}
      pending == again \cup {p \in Periods : period[p] = "PENDING"}
  IN
  /\ sub.status \in stati
  /\ sub' = [sub EXCEPT !.status = "ACTIVE"]
  /\ period' = [p \in Periods |-> IF p \in again THEN "PENDING" ELSE period[p]]
  /\ BeginOp([NoOp EXCEPT !.renew = pending, !.offer = sub.offer])
  /\ revived' = revived \cup pending
  /\ UNCHANGED <<now, order, run, renewing, change, charged, escaped, offers>>

Uncancel == Revive({"CANCELLED"})

Reactivate == Revive({"PENDING", "CANCELLED", "SUSPENDED", "DEACTIVATED"})

(* rerunPeriod retries the period's last order if there is one that has not *)
(* ended, and creates one otherwise                                         *)
RerunPeriod(p) ==
  LET last == {o \in Renewals(p) : \A q \in Renewals(p) : q <= o} IN
  /\ Exists(p)
  /\ revived' = revived \cup {p}
  /\ IF LiveOrders({p}) \cap last # {}
       THEN /\ order' = [o \in Orders |-> IF o \notin last THEN order[o] ELSE
                           [order[o] EXCEPT !.status = "PENDING", !.runAt = 0]]
            /\ op = NoOp /\ UNCHANGED op
            /\ Spend("op", MaxOps)
       ELSE /\ BeginOp([NoOp EXCEPT !.renew = {p}, !.reset = {p}, !.offer = offer[p]])
            /\ UNCHANGED order
  /\ UNCHANGED <<now, sub, period, run, renewing, change, charged, escaped, offers>>

(* changeOffer: the subscription and its periods to come change at once.  A *)
(* period that is about to become the current one is not among them if it   *)
(* has begun, is being billed, or has been read by processPeriodChanges.    *)
TooLate ==
  \/ change.next # NoPeriod
  \/ sub.current # NoPeriod /\ \E p \in Periods \ Upcoming : Exists(p) /\ p > sub.current

ChangeOffer_KeepsPeriods(f) ==
  /\ f # sub.offer
  /\ sub' = [sub EXCEPT !.offer = f]
  /\ BeginOp([NoOp EXCEPT !.move = Upcoming, !.offer = f])
  /\ shown' = [offer |-> f, late |-> TooLate]
  /\ UNCHANGED <<now, period, offer, order, run, renewing, change, charged, revived, escaped,
                 missed>>

ChangeOffer(f) ==
  /\ f # sub.offer
  /\ sub' = [sub EXCEPT !.offer = f]
  /\ offer' = [p \in Periods |-> IF p \in Upcoming THEN f ELSE offer[p]]
  /\ BeginOp([NoOp EXCEPT !.move = Upcoming, !.offer = f])
  /\ shown' = [offer |-> f, late |-> TooLate]
  /\ UNCHANGED <<now, period, order, run, renewing, change, charged, revived, escaped, missed>>

(* What follows the first update, one call at a time: no call is made while  *)
(* an abort is awaited.  (The call of createDeactivatePlan in deactivate     *)
(* does not touch these rows; that it may fail is OpFails.)                  *)
NothingAwaited == \A o \in Orders : run[o]["op"].pc = "idle"

OpAbort(o) ==
  /\ o \in op.abort
  /\ NothingAwaited
  /\ CASE order[o].status \in FinalStati ->
            /\ op' = NoOp
            /\ UNCHANGED <<order, run, escaped>>
       [] order[o].status = "CONFIRMED" ->
            /\ order' = [order EXCEPT ![o] = [@ EXCEPT !.status = "ABORTED", !.action = "ABORT"]]
            /\ op' = Left([op EXCEPT !.abort = @ \ {o}])
            /\ UNCHANGED <<run, escaped>>
       [] OTHER ->
            /\ order' = [order EXCEPT ![o] = [@ EXCEPT !.status = "PROCESSING", !.action = "ABORT"]]
            /\ run' = [run EXCEPT ![o]["op"] = Claimed(o, "ABORT")]
            /\ escaped' = IF run[o]["cron"].pc # "idle" THEN escaped \cup {o} ELSE escaped
            /\ UNCHANGED op
  /\ UNCHANGED <<now, sub, period, renewing, change, spent, charged, revived, offers>>

OpCancelPeriod(p) ==
  /\ p \in op.cancel
  /\ NothingAwaited
  /\ \A o \in op.abort : order[o].period # p
  /\ period' = [period EXCEPT ![p] = "CANCELLED"]
  /\ op' = Left([op EXCEPT !.cancel = @ \ {p}])
  /\ UNCHANGED <<now, sub, order, run, renewing, change, spent, history>>

OpRenew(p) ==
  /\ p \in op.renew
  /\ CreateRenewPlan(p, op.offer)
  /\ op' = Left([op EXCEPT !.renew = @ \ {p}])
  /\ UNCHANGED <<now, sub, period, run, renewing, change, spent, charged, revived, offers>>

OpReset(p) ==
  /\ p \in op.reset /\ op.renew = {}
  /\ period' = [period EXCEPT ![p] = "PENDING"]
  /\ op' = Left([op EXCEPT !.reset = @ \ {p}])
  /\ UNCHANGED <<now, sub, order, run, renewing, change, spent, history>>

(* The PENDING orders of a period that is changed are found, and then get   *)
(* the new offer, whatever they are by then; those in another status, and   *)
(* one yet to be created, do not.                                           *)
OpFindOrders(p) ==
  LET found == {o \in Renewals(p) : order[o].status = "PENDING"} IN
  /\ p \in op.move /\ op.found = {}
  /\ op' = Left([op EXCEPT !.move = @ \ {p}, !.found = found])
  /\ missed' = IF found = {} \/ LiveOrders({p}) # found THEN missed \cup {p} ELSE missed
  /\ UNCHANGED <<now, sub, period, offer, order, run, renewing, change, spent, charged, revived,
                 escaped, shown>>

OpMoveOrders ==
  /\ op.found # {}
  /\ order' = [o \in Orders |-> IF o \in op.found THEN [order[o] EXCEPT !.offer = op.offer]
                                                   ELSE order[o]]
  /\ op' = Left([op EXCEPT !.found = {}])
  /\ missed' = missed \cup {order[o].period : o \in {q \in op.found : order[q].status # "PENDING"}}
  /\ UNCHANGED <<now, sub, period, offer, run, renewing, change, spent, charged, revived, escaped,
                 shown>>

(* What a change of offer leaves undone when it is cut off *)
CutOff == missed' = missed \cup Moving

(* A call of the operation fails: the rest of it is not done *)
OpFails ==
  /\ op # NoOp
  /\ NothingAwaited
  /\ op' = NoOp
  /\ CutOff
  /\ Spend("failure", MaxFailures)
  /\ UNCHANGED <<now, sub, period, offer, order, run, renewing, change, charged, revived, escaped,
                 shown>>

-----------------------------------------------------------------------------
(* The server stops: everything under way is gone, the rows stay *)
Crash ==
  /\ Spend("crash", MaxCrashes)
  /\ run' = [o \in Orders |-> [c \in Callers |-> Idle]]
  /\ op' = NoOp
  /\ renewing' = {}
  /\ change' = NoChange
  /\ CutOff
  /\ UNCHANGED <<now, sub, period, offer, order, charged, revived, escaped, shown>>

(* The moments that a condition compares the time with: between two of them *)
(* time makes no difference                                                 *)
Moments == {StartsAt(p) : p \in Periods} \cup {EndsAt(p) : p \in Periods}
           \cup {ScheduledAt(p, i) : p \in Periods, i \in {DELAY_BILLING, DELAY_TELCO}}

Tick ==
  /\ \E t \in Moments :
       /\ t \in now + 1 .. EndOfTime
       /\ \A m \in Moments : m > now => t <= m
       /\ now' = t
  /\ UNCHANGED <<sub, period, order, run, op, renewing, change, spent, history>>

InvocationStep(o, c) ==
  \/ Delay(o, c) \/ MarkPeriodProcessing(o, c) \/ Bill(o, c)
  \/ MarkActive(o, c) \/ MarkPeriodDone(o, c)
  \/ MarkPeriodFailed(o, c) \/ MarkSuspended(o, c)
  \/ FinalUpdate(o, c)

Operation ==
  \/ Cancel \/ Suspend \/ Deactivate \/ Uncancel \/ Reactivate
  \/ \E p \in Periods : RerunPeriod(p)
  \/ \E f \in Offers : ChangeOffer(f)

OperationStep ==
  \/ \E o \in Orders : OpAbort(o)
  \/ \E p \in Periods : OpCancelPeriod(p) \/ OpRenew(p) \/ OpReset(p) \/ OpFindOrders(p)
  \/ OpMoveOrders

Renewing == \E p \in Periods \ {0} : RenewPeriod(p) \/ RenewOrder(p)

Changing == ReadExpired \/ ChangePeriod \/ Expire

Next ==
  \/ \E o \in Orders : ProcessConfirmed(o) \/ ProcessPending(o)
  \/ \E o \in Orders, c \in Callers : InvocationStep(o, c) \/ StepFails(o, c)
  \/ Renewing \/ Changing
  \/ Operation \/ OperationStep \/ OpFails
  \/ Crash \/ Tick

Spec == Init /\ [][Next]_vars

(* The cron jobs keep ticking, an awaited call answers, time goes on.  It is *)
(* enough that some order moves: none has steps without end.                 *)
Fairness ==
  /\ WF_vars(\E o \in Orders : ProcessConfirmed(o))
  /\ WF_vars(\E o \in Orders : ProcessPending(o))
  /\ WF_vars(\E o \in Orders, c \in Callers : InvocationStep(o, c))
  /\ WF_vars(Renewing) /\ WF_vars(Changing)
  /\ WF_vars(OperationStep)
  /\ WF_vars(Tick)

FairSpec == Spec /\ Fairness

-----------------------------------------------------------------------------
Billed(p) == \E f \in Offers : charged[p][f] > 0

(* A period is billed at most once, through crashes, failures, retries and  *)
(* cancellations, unless an operation asked for another order of it.        *)
BilledOnce ==
  \A p \in Periods : p \notin revived =>
    \A f, g \in Offers : charged[p][f] <= 1 /\ (charged[p][f] * charged[p][g] # 0 => f = g)

(* Service is given for periods that were paid for. *)
DoneWasBilled ==
  \A p \in Periods : period[p] = "DONE" => Billed(p)

(* Service and bills go together *)
BilledForService == BilledOnce /\ DoneWasBilled

(* A period that was cancelled is not billed, unless its order was being    *)
(* run when the cancellation aborted it, or was created after.              *)
CancelledIsNotBilled ==
  [][\A p \in Periods : period[p] = "CANCELLED" /\ charged'[p] # charged[p] =>
       \E o \in escaped : order[o].period = p]_vars

(* A period that waits has an order that is going to serve it, or a call    *)
(* that is about to create or stop it, unless a crash or a failure lost it. *)
PendingIsServed ==
  \A p \in Periods :
    /\ period[p] = "PENDING" /\ p \notin revived
    /\ spent["crash"] = 0 /\ spent["failure"] = 0
    => \/ p \in op.cancel \/ \E f \in Offers : <<p, f>> \in renewing
       \/ \E o \in Orders : order[o].period = p /\ order[o].status \notin FinalStati \cup {"ABSENT"}

(* A period is billed for the offer it shows, unless a change of offer came *)
(* between the reads and writes of its order: it had none yet, or one that  *)
(* was not PENDING.                                                         *)
BilledAsShown ==
  \A p \in Periods \ (revived \cup missed) :
    \A f \in Offers : charged[p][f] > 0 => f = offer[p]

(* The subscription has the offer it was last changed to, through every     *)
(* period that begins afterwards, unless the next period had begun to take  *)
(* over by then: processPeriodChanges then brings the old offer back.       *)
ChangeIsKept == ~shown.late => sub.offer = shown.offer

(* A change of offer is honoured *)
OfferIsHonoured == BilledAsShown /\ ChangeIsKept

(* Every period that waits is eventually served, or stopped by an operation,*)
(* unless one revived it: rerunPeriod may mark it PENDING after its order   *)
(* has served it.                                                           *)
PendingSettles ==
  \A p \in Periods : period[p] = "PENDING" ~>
    \/ period[p] \in {"DONE", "CANCELLED", "FAILED"}
    \/ p \in revived
    \/ spent["failure"] + spent["crash"] > 0

(* A cancelled subscription ends, or an operation or an order that had      *)
(* begun makes it active again.                                             *)
CancelledEnds ==
  sub.status = "CANCELLED" /\ sub.current # NoPeriod ~>
    sub.status \in {"DEACTIVATED", "ACTIVE"}
=============================================================================
