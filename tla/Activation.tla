------------------------------ MODULE Activation ------------------------------
(***************************************************************************)
(* What a user gets for an ADD_PLAN order: the steps SUBSCRIPTION,         *)
(* PROMO_CODES, CREDITS, TELCO and REWARDS of AddPlanProcessor             *)
(* (order/processors/add-plan.processor.ts, steps/rewards.step.ts), with   *)
(* SubscriptionService, CreditService, PromoCodeService, RewardService     *)
(* (reward/reward.service.ts) and the payout of WalletService.             *)
(*                                                                         *)
(* A run of an order claims it, then works through the steps that were not *)
(* completed when it did, on the order row as it has it in memory.  A step *)
(* that throws, or dies with the server, is run again; two runs of one     *)
(* order may overlap (see OrderEngine, Exclusive).  The steps between      *)
(* these are in Billing and Inventory.                                     *)
(***************************************************************************)
EXTENDS Integers, FiniteSets, Sequences

CONSTANTS
  Orders,       \* orders of one user, all of one offer that has one reward
  NoOrder,      \* what an idle worker works on
  Workers,      \* runs under way together
  MaxSubs,      \* bound: subscriptions there is room for
  MaxStops,     \* bound: runs that throw or die with the server
  MaxOverlaps,  \* bound: runs begun on an order already worked on
  MaxCancels    \* bound: subscriptions cancelled or suspended

ASSUME ActivationAssumption ==
  /\ NoOrder \notin Orders
  /\ MaxSubs \in Nat /\ MaxStops \in Nat /\ MaxOverlaps \in Nat /\ MaxCancels \in Nat

VARIABLES
  recorded,    \* how many steps of each order are completed
  orderSub,    \* Order.subscriptionId
  sub,         \* Subscription rows
  activation,  \* PromoCodeActivation.subscriptionId of each order's code
  credits,     \* Credit rows of each subscription
  plans,       \* external: how often the provider was asked to activate each subscription
  wallet,      \* whether the user has a wallet
  transfers,   \* external: payouts made through the wallet
  payouts,     \* RewardPayout rows of the user, the reward and the offer, by factor
  pc,          \* the next call of each run
  job,         \* its local variables
  spent,       \* how often the environment has used each bound
  mishaps      \* history: the unusual events of each order

vars == <<recorded, orderSub, sub, activation, credits, plans, wallet, transfers, payouts,
          pc, job, spent, mishaps>>

-----------------------------------------------------------------------------
Steps == <<"SUBSCRIPTION", "PROMO_CODES", "CREDITS", "TELCO", "REWARDS">>

(* The first call of each step *)
Call == <<"create", "attach", "credit", "activate", "lookup">>

Subs == 1 .. MaxSubs
NoSub == 0

(* PENDING, ACTIVE, or cancelled or suspended *)
SubRow == [order : Orders \cup {NoOrder}, status : {"ABSENT", "PENDING", "ACTIVE", "OVER"}]

(* 0, 5 or 10 per cent: for no, one or more active subscriptions *)
Factors == {"none", "single", "multi"}

Factor(n) == IF n = 0 THEN "none" ELSE IF n = 1 THEN "single" ELSE "multi"

Place == {"idle", "create", "attach", "credit", "activate", "markActive", "lookup", "count",
          "transfer", "payout", "record"}

Job == [order : Orders \cup {NoOrder}, step : DOMAIN Steps, sub : Subs \cup {NoSub},
        factor : Factors]

NoJob == [order |-> NoOrder, step |-> 1, sub |-> NoSub, factor |-> "none"]

(* A step's name: its effect was made but not recorded *)
Mishap == {"overlap", "raced", "noWallet", "over"} \cup {Steps[k] : k \in DOMAIN Steps}

TypeOK ==
  /\ recorded \in [Orders -> 0 .. Len(Steps)]
  /\ orderSub \in [Orders -> Subs \cup {NoSub}]
  /\ sub \in [Subs -> SubRow]
  /\ activation \in [Orders -> Subs \cup {NoSub}]
  /\ credits \in [Subs -> Nat] /\ plans \in [Subs -> Nat]
  /\ wallet \in BOOLEAN /\ transfers \in Nat /\ payouts \in [Factors -> Nat]
  /\ pc \in [Workers -> Place] /\ job \in [Workers -> Job]
  /\ \A w \in Workers : pc[w] # "idle" => job[w].order \in Orders
  /\ \A w \in Workers : pc[w] \notin {"idle", "create"} => job[w].sub \in Subs
  /\ spent \in [{"stop", "overlap", "cancel"} -> Nat]
  /\ mishaps \in [Orders -> SUBSET Mishap]

Init ==
  /\ recorded = [o \in Orders |-> 0]
  /\ orderSub = [o \in Orders |-> NoSub] /\ activation = [o \in Orders |-> NoSub]
  /\ sub = [s \in Subs |-> [order |-> NoOrder, status |-> "ABSENT"]]
  /\ credits = [s \in Subs |-> 0] /\ plans = [s \in Subs |-> 0]
  /\ wallet \in BOOLEAN /\ transfers = 0 /\ payouts = [f \in Factors |-> 0]
  /\ pc = [w \in Workers |-> "idle"] /\ job = [w \in Workers |-> NoJob]
  /\ spent = [e \in {"stop", "overlap", "cancel"} |-> 0]
  /\ mishaps = [o \in Orders |-> {}]

-----------------------------------------------------------------------------
Spend(event, bound) ==
  /\ spent[event] < bound
  /\ spent' = [spent EXCEPT ![event] = @ + 1]

Mark(o, e) == mishaps' = [mishaps EXCEPT ![o] = @ \cup {e}]

Goto(w, place) == pc' = [pc EXCEPT ![w] = place]

Return(w) == /\ pc' = [pc EXCEPT ![w] = "idle"]
             /\ job' = [job EXCEPT ![w] = NoJob]

(* A run claims order o and reads it, with the steps it has completed *)
Begin(w, o) ==
  /\ pc[w] = "idle"
  /\ recorded[o] < Len(Steps)
  /\ Goto(w, Call[recorded[o] + 1])
  /\ job' = [job EXCEPT ![w] = [NoJob EXCEPT !.order = o, !.step = recorded[o] + 1,
                                             !.sub = orderSub[o]]]
  /\ IF \E v \in Workers : job[v].order = o
       THEN Spend("overlap", MaxOverlaps) /\ Mark(o, "overlap")
       ELSE UNCHANGED <<spent, mishaps>>
  /\ UNCHANGED <<recorded, orderSub, sub, activation, credits, plans, wallet, transfers, payouts>>

(***************************************************************************)
(* Seeded bugs, here and below under the names Definition_Bug.  Each is a  *)
(* plausible slip in the definition it is named for; README.md says which  *)
(* property tells it from the code.                                        *)
(***************************************************************************)
Record_RunsTwice(w) ==
  LET k == job[w].step IN
  /\ pc[w] = "record"
  /\ IF k = Len(Steps)
       THEN Return(w)
       ELSE Goto(w, Call[k + 1]) /\ job' = [job EXCEPT ![w].step = k + 1]
  /\ recorded' = [recorded EXCEPT ![job[w].order] = k - 1]
  /\ UNCHANGED <<orderSub, sub, activation, credits, plans, wallet, transfers, payouts, spent,
                 mishaps>>

(* OrderProcessor.process: the step is recorded as completed, and the run  *)
(* goes on with the next                                                   *)
Record(w) ==
  LET k == job[w].step
      o == job[w].order IN
  /\ pc[w] = "record"
  /\ recorded' = [recorded EXCEPT ![o] = IF @ < k THEN k ELSE @]
  /\ IF k = Len(Steps)
       THEN Return(w)
       ELSE Goto(w, Call[k + 1]) /\ job' = [job EXCEPT ![w].step = k + 1]
  /\ UNCHANGED <<orderSub, sub, activation, credits, plans, wallet, transfers, payouts, spent,
                 mishaps>>

-----------------------------------------------------------------------------
(* SUBSCRIPTION: subService.create, one transaction that also points the   *)
(* order at its subscription; the run's own copy is updated as well        *)
NewSub(s) == sub[s].status = "ABSENT" /\ \A r \in Subs : r < s => sub[r].status # "ABSENT"

Create_NotInMemory(w) ==
  /\ pc[w] = "create"
  /\ \E s \in Subs :
       /\ NewSub(s)
       /\ sub' = [sub EXCEPT ![s] = [order |-> job[w].order, status |-> "PENDING"]]
       /\ orderSub' = [orderSub EXCEPT ![job[w].order] = s]
  /\ Goto(w, "record")
  /\ UNCHANGED <<recorded, activation, credits, plans, wallet, transfers, payouts, job, spent,
                 mishaps>>

Create_NotLinked(w) ==
  /\ pc[w] = "create"
  /\ \E s \in Subs :
       /\ NewSub(s)
       /\ sub' = [sub EXCEPT ![s] = [order |-> job[w].order, status |-> "PENDING"]]
       /\ job' = [job EXCEPT ![w].sub = s]
  /\ Goto(w, "record")
  /\ UNCHANGED <<recorded, orderSub, activation, credits, plans, wallet, transfers, payouts, spent,
                 mishaps>>

Create(w) ==
  /\ pc[w] = "create"
  /\ \E s \in Subs :
       /\ NewSub(s)
       /\ sub' = [sub EXCEPT ![s] = [order |-> job[w].order, status |-> "PENDING"]]
       /\ orderSub' = [orderSub EXCEPT ![job[w].order] = s]
       /\ job' = [job EXCEPT ![w].sub = s]
  /\ Goto(w, "record")
  /\ UNCHANGED <<recorded, activation, credits, plans, wallet, transfers, payouts, spent, mishaps>>

(* PROMO_CODES: attachActivationToSubscription *)
Attach(w) ==
  /\ pc[w] = "attach"
  /\ activation' = [activation EXCEPT ![job[w].order] = job[w].sub]
  /\ Goto(w, "record")
  /\ UNCHANGED <<recorded, orderSub, sub, credits, plans, wallet, transfers, payouts, job, spent,
                 mishaps>>

(* CREDITS: creditService.create, "TODO: Make this idempotent" *)
Credit(w) ==
  /\ pc[w] = "credit"
  /\ credits' = [credits EXCEPT ![job[w].sub] = @ + 1]
  /\ Goto(w, "record")
  /\ UNCHANGED <<recorded, orderSub, sub, activation, plans, wallet, transfers, payouts, job, spent,
                 mishaps>>

(* TELCO: the provider activates the plan, then markActive *)
Activate(w) ==
  /\ pc[w] = "activate"
  /\ plans' = [plans EXCEPT ![job[w].sub] = @ + 1]
  /\ Goto(w, "markActive")
  /\ UNCHANGED <<recorded, orderSub, sub, activation, credits, wallet, transfers, payouts, job,
                 spent, mishaps>>

MarkActive(w) ==
  /\ pc[w] = "markActive"
  /\ sub' = [sub EXCEPT ![job[w].sub].status = "ACTIVE"]
  /\ Goto(w, "record")
  /\ UNCHANGED <<recorded, orderSub, activation, credits, plans, wallet, transfers, payouts, job,
                 spent, mishaps>>

-----------------------------------------------------------------------------
(* REWARDS: processReward looks for an earlier payout ... *)
PaidOut == \E f \in Factors : payouts[f] > 0

(* Another run has looked, and will pay *)
Paying(w) == \E v \in Workers \ {w} : pc[v] \in {"count", "transfer", "payout"}

Lookup_Never(w) ==
  /\ pc[w] = "lookup"
  /\ Goto(w, "count")
  /\ UNCHANGED <<recorded, orderSub, sub, activation, credits, plans, wallet, transfers, payouts,
                 job, spent, mishaps>>

Lookup(w) ==
  /\ pc[w] = "lookup"
  /\ Goto(w, IF PaidOut THEN "record" ELSE "count")
  /\ IF ~PaidOut /\ Paying(w) THEN Mark(job[w].order, "raced") ELSE UNCHANGED mishaps
  /\ UNCHANGED <<recorded, orderSub, sub, activation, credits, plans, wallet, transfers, payouts,
                 job, spent>>

(* ... counts the active standalone subscriptions of the user ... *)
Count(w) ==
  /\ pc[w] = "count"
  /\ job' = [job EXCEPT ![w].factor =
                Factor(Cardinality({s \in Subs : sub[s].status = "ACTIVE"}))]
  /\ Goto(w, "transfer")
  /\ UNCHANGED <<recorded, orderSub, sub, activation, credits, plans, wallet, transfers, payouts,
                 spent, mishaps>>

(* ... has the wallet pay (cashback), if there is one ... *)
Transfer(w) ==
  /\ pc[w] = "transfer"
  /\ transfers' = IF wallet THEN transfers + 1 ELSE transfers
  /\ IF wallet THEN UNCHANGED mishaps ELSE Mark(job[w].order, "noWallet")
  /\ Goto(w, "payout")
  /\ UNCHANGED <<recorded, orderSub, sub, activation, credits, plans, wallet, payouts, job, spent>>

(* ... and records the payout *)
Payout(w) ==
  /\ pc[w] = "payout"
  /\ payouts' = [payouts EXCEPT ![job[w].factor] = @ + 1]
  /\ Goto(w, "record")
  /\ UNCHANGED <<recorded, orderSub, sub, activation, credits, plans, wallet, transfers, job, spent,
                 mishaps>>

-----------------------------------------------------------------------------
(* A run throws, or dies with the server.  What it has done, but not yet   *)
(* recorded, will be done again; of REWARDS that is the transfer.          *)
Unrecorded(w) ==
  \/ pc[w] \in {"markActive", "payout"}
  \/ pc[w] = "record" /\ Steps[job[w].step] # "REWARDS"

Stop(w) ==
  /\ pc[w] # "idle"
  /\ Spend("stop", MaxStops)
  /\ IF Unrecorded(w)
       THEN Mark(job[w].order, Steps[job[w].step]) ELSE UNCHANGED mishaps
  /\ Return(w)
  /\ UNCHANGED <<recorded, orderSub, sub, activation, credits, plans, wallet, transfers, payouts>>

(* cancel, or markSuspended, of an active subscription *)
Over(s) ==
  /\ sub[s].status = "ACTIVE"
  /\ Spend("cancel", MaxCancels)
  /\ sub' = [sub EXCEPT ![s].status = "OVER"]
  /\ Mark(sub[s].order, "over")
  /\ UNCHANGED <<recorded, orderSub, activation, credits, plans, wallet, transfers, payouts, pc, job>>

SetUpWallet ==
  /\ ~wallet
  /\ wallet' = TRUE
  /\ UNCHANGED <<recorded, orderSub, sub, activation, credits, plans, transfers, payouts, pc, job,
                 spent, mishaps>>

-----------------------------------------------------------------------------
Run(w) ==
  \/ Record(w) \/ Create(w) \/ Attach(w) \/ Credit(w) \/ Activate(w) \/ MarkActive(w)
  \/ Lookup(w) \/ Count(w) \/ Transfer(w) \/ Payout(w)

Next ==
  \/ \E w \in Workers : Run(w) \/ Stop(w) \/ \E o \in Orders : Begin(w, o)
  \/ \E s \in Subs : Over(s)
  \/ SetUpWallet

Spec == Init /\ [][Next]_vars

-----------------------------------------------------------------------------
SubsOf(o) == {s \in Subs : sub[s].order = o}

(* What an order gives its user it gives to one subscription, the one the   *)
(* order points at, even if a run that had created another was lost: the    *)
(* code's activation, the credit, the plan at the provider.  What is        *)
(* recorded as completed is there, and an orphan gets nothing.  Only runs   *)
(* that overlap may break it: each goes on with the subscription it has in  *)
(* memory.                                                                  *)
EntitlementsFollow ==
  \A o \in Orders : "overlap" \notin mishaps[o] =>
    /\ recorded[o] >= 1 => orderSub[o] \in SubsOf(o)
    /\ recorded[o] >= 2 => activation[o] = orderSub[o]
    /\ recorded[o] >= 3 => credits[orderSub[o]] > 0
    /\ recorded[o] >= 4 => plans[orderSub[o]] > 0 /\ sub[orderSub[o]].status \in {"ACTIVE", "OVER"}
    /\ \A s \in SubsOf(o) : credits[s] > 0 \/ plans[s] > 0 \/ sub[s].status # "PENDING" =>
         s = orderSub[o]

(* A retry does not repeat the steps that were recorded: a subscription, a  *)
(* credit or an activation is doubled only by a run that was lost between   *)
(* the step's effect and its record, or by runs that overlap.               *)
DoneOnce ==
  \A o \in Orders : "overlap" \notin mishaps[o] =>
    /\ "SUBSCRIPTION" \notin mishaps[o] => Cardinality(SubsOf(o)) <= 1
    /\ \A s \in SubsOf(o) : /\ "CREDITS" \notin mishaps[o] => credits[s] <= 1
                            /\ "TELCO" \notin mishaps[o] => plans[s] <= 1

Ever(e) == \E o \in Orders : e \in mishaps[o]

(* The reward of an offer is paid to a user once, however many orders ask   *)
(* for it and however often they are retried, and nothing is recorded as    *)
(* paid that was not.  The exceptions: two runs that both look before       *)
(* either has paid, a run lost after the transfer, a user without a wallet. *)
PaidOnce ==
  LET rows == payouts["none"] + payouts["single"] + payouts["multi"] IN
  /\ ~Ever("raced") /\ ~Ever("REWARDS") => transfers <= 1 /\ rows <= 1
  /\ ~Ever("noWallet") => rows <= transfers

(* A payout of nothing, which would stand in the way of any later one, is   *)
(* recorded only if a subscription ended before the count; the higher rate  *)
(* is paid only to a user with two activated subscriptions.                 *)
RewardIsEarned ==
  /\ payouts["none"] > 0 => Ever("over")
  /\ payouts["multi"] > 0 => Cardinality({s \in Subs : plans[s] > 0}) > 1

(* A reward is paid once, and as earned *)
RewardIsSound == PaidOnce /\ RewardIsEarned
=============================================================================
