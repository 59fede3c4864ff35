--------------------------- MODULE ActivationProofs ---------------------------
(***************************************************************************)
(* Theorems about Activation, for any orders, workers and subscriptions,   *)
(* and any bounds on the environment.                                      *)
(***************************************************************************)
EXTENDS Activation, TLAPS, FiniteSetTheorems

(* The step that each place belongs to; "record" belongs to every one *)
AtStep(place, k) ==
  CASE place = "create" -> k = 1
    [] place = "attach" -> k = 2
    [] place = "credit" -> k = 3
    [] place \in {"activate", "markActive"} -> k = 4
    [] place \in {"lookup", "count", "transfer", "payout"} -> k = 5
    [] OTHER -> k \in 1 .. 5

WorksOn(w, o) == pc[w] # "idle" /\ job[w].order = o

(* The effect of step k of order o has been made *)
Done(o, k) ==
  \/ recorded[o] >= k
  \/ \E w \in Workers : WorksOn(w, o) /\ pc[w] = "record" /\ job[w].step = k

-----------------------------------------------------------------------------
(***************************************************************************)
(* The inductive invariant.  JobsFit says what a run's place says of its   *)
(* local variables, and RowsFit which rows of sub are there, even if runs  *)
(* overlap.  Alone, Given, Orphans and Once are about orders whose runs    *)
(* never overlapped; Once is lost with a run that has not recorded what it *)
(* did.  The others are about the reward, which all the orders share.      *)
(***************************************************************************)
JobFits(w) ==
  /\ pc[w] = "idle" => job[w] = NoJob
  /\ pc[w] # "idle" => AtStep(pc[w], job[w].step)
  /\ pc[w] \notin {"idle", "create"} =>
       orderSub[job[w].order] \in Subs /\ sub[job[w].sub].order = job[w].order
  /\ pc[w] = "markActive" => plans[job[w].sub] > 0

JobsFit == \A w \in Workers : JobFits(w)

RowsFit ==
  /\ \A s \in Subs : /\ sub[s].status = "ABSENT" <=> sub[s].order = NoOrder
                     /\ sub[s].status = "ABSENT" => credits[s] = 0 /\ plans[s] = 0
                     /\ sub[s].status \in {"ACTIVE", "OVER"} => plans[s] > 0
  /\ \A o \in Orders : /\ recorded[o] >= 1 => orderSub[o] \in Subs
                       /\ orderSub[o] \in Subs => sub[orderSub[o]].order = o

Alone(o) ==
  /\ \A v, w \in Workers : WorksOn(v, o) /\ WorksOn(w, o) => v = w
  /\ \A w \in Workers : WorksOn(w, o) => recorded[o] = job[w].step - 1 /\ job[w].sub = orderSub[o]

Given(o) ==
  /\ Done(o, 2) => activation[o] = orderSub[o]
  /\ Done(o, 3) => credits[orderSub[o]] > 0
  /\ Done(o, 4) => plans[orderSub[o]] > 0 /\ sub[orderSub[o]].status \in {"ACTIVE", "OVER"}

Orphans(o) ==
  \A s \in SubsOf(o) : credits[s] > 0 \/ plans[s] > 0 \/ sub[s].status # "PENDING" =>
    s = orderSub[o] /\ recorded[o] >= 1

Once(o) ==
  /\ "SUBSCRIPTION" \notin mishaps[o] => \A s \in SubsOf(o) : s = orderSub[o] /\ Done(o, 1)
  /\ \A s \in SubsOf(o) :
       /\ "CREDITS" \notin mishaps[o] => credits[s] <= 1 /\ (credits[s] > 0 => Done(o, 3))
       /\ "TELCO" \notin mishaps[o] =>
            /\ plans[s] <= 1
            /\ plans[s] > 0 => \/ Done(o, 4)
                               \/ \E w \in Workers : WorksOn(w, o) /\ pc[w] = "markActive"

InTurn == \A o \in Orders : "overlap" \notin mishaps[o] => Alone(o) /\ Given(o) /\ Orphans(o) /\ Once(o)

Rows == payouts["none"] + payouts["single"] + payouts["multi"]

Payers == {w \in Workers : pc[w] \in {"count", "transfer", "payout"}}
Payees == {w \in Workers : pc[w] = "payout"}

PaysOnce ==
  ~Ever("raced") /\ ~Ever("REWARDS") =>
    /\ transfers <= 1 /\ Rows <= 1
    /\ \A v, w \in Payers : v = w
    /\ Payers # {} => Rows = 0
    /\ transfers > 0 => Rows > 0 \/ Payees # {}

(* Every payout that is recorded, or about to be, has its transfer *)
PaysFirst ==
  /\ IsFiniteSet(Payees)
  /\ ~Ever("noWallet") => Rows + Cardinality(Payees) <= transfers

Active == {s \in Subs : sub[s].status = "ACTIVE"}
Planned == {s \in Subs : plans[s] > 0}

AfterTelco(w) == pc[w] \in {"lookup", "count", "transfer", "payout"} \/ (pc[w] = "record" /\ job[w].step >= 4)

Earned ==
  /\ ~Ever("over") => /\ \A o \in Orders : recorded[o] >= 4 => Active # {}
                      /\ \A w \in Workers : AfterTelco(w) => Active # {}
  /\ \A w \in Workers : pc[w] \in {"transfer", "payout"} =>
       /\ job[w].factor = "none" => Ever("over")
       /\ job[w].factor = "multi" => Cardinality(Planned) > 1
  /\ RewardIsEarned

Safe == TypeOK /\ JobsFit /\ RowsFit /\ InTurn /\ PaysOnce /\ PaysFirst /\ Earned

-----------------------------------------------------------------------------
(* What a call does to the place and the local variables of its run *)
Others(w) == \A v \in Workers \ {w} : pc'[v] = pc[v] /\ job'[v] = job[v]

LEMMA StepNames ==
  /\ Len(Steps) = 5 /\ DOMAIN Steps = 1 .. 5
  /\ Call[1] = "create" /\ Call[2] = "attach" /\ Call[3] = "credit" /\ Call[4] = "activate"
  /\ Call[5] = "lookup"
  /\ Steps[1] = "SUBSCRIPTION" /\ Steps[2] = "PROMO_CODES" /\ Steps[3] = "CREDITS"
  /\ Steps[4] = "TELCO" /\ Steps[5] = "REWARDS"
BY DEF Steps, Call

LEMMA CallIsPlace ==
  ASSUME NEW k \in 1 .. 5
  PROVE  /\ Call[k] \in Place \ {"idle", "markActive", "count", "transfer", "payout", "record"}
         /\ AtStep(Call[k], k) /\ (Call[k] = "create" => k = 1) /\ (Call[k] = "lookup" => k = 5)
<1>1. k = 1 \/ k = 2 \/ k = 3 \/ k = 4 \/ k = 5
  OBVIOUS
<1>2. QED
  BY <1>1, StepNames DEF Place, AtStep

LEMMA MoveEffect ==
  ASSUME TypeOK, NEW w \in Workers, NEW place \in Place, Goto(w, place), job' = job
  PROVE  /\ pc' \in [Workers -> Place] /\ job' \in [Workers -> Job] /\ Others(w)
         /\ pc'[w] = place /\ job'[w] = job[w]
BY DEF TypeOK, Goto, Others

LEMMA ReturnEffect ==
  ASSUME TypeOK, NEW w \in Workers, Return(w)
  PROVE  /\ pc' \in [Workers -> Place] /\ job' \in [Workers -> Job] /\ Others(w)
         /\ pc'[w] = "idle" /\ job'[w] = NoJob
<1>1. NoJob \in Job
  BY StepNames DEF NoJob, Job, Factors, NoSub
<1>2. QED
  BY <1>1 DEF TypeOK, Return, Others, Place

LEMMA JobEffect ==
  ASSUME TypeOK, NEW w \in Workers, NEW place \in Place, NEW j \in Job, Goto(w, place),
         job' = [job EXCEPT ![w] = j]
  PROVE  /\ pc' \in [Workers -> Place] /\ job' \in [Workers -> Job] /\ Others(w)
         /\ pc'[w] = place /\ job'[w] = j
BY DEF TypeOK, Goto, Others

LEMMA BeginEffect ==
  ASSUME TypeOK, NEW w \in Workers, NEW o \in Orders, Begin(w, o)
  PROVE  /\ pc[w] = "idle" /\ recorded[o] \in 0 .. 4
         /\ pc' \in [Workers -> Place] /\ job' \in [Workers -> Job] /\ Others(w)
         /\ pc'[w] = Call[recorded[o] + 1] /\ job'[w] \in Job
         /\ job'[w].order = o /\ job'[w].step = recorded[o] + 1 /\ job'[w].sub = orderSub[o]
<1> DEFINE j == [NoJob EXCEPT !.order = o, !.step = recorded[o] + 1, !.sub = orderSub[o]]
<1>1. recorded[o] \in 0 .. 4 /\ recorded[o] + 1 \in 1 .. 5
  BY StepNames DEF Begin, TypeOK
<1>2. /\ j \in Job /\ j.order = o /\ j.step = recorded[o] + 1 /\ j.sub = orderSub[o]
  BY <1>1, StepNames DEF NoJob, Job, Factors, NoSub, TypeOK
<1>3. job' = [job EXCEPT ![w] = j] /\ Goto(w, Call[recorded[o] + 1]) /\ pc[w] = "idle"
  BY DEF Begin
<1> HIDE DEF j
<1>4. QED
  BY <1>1, <1>2, <1>3, CallIsPlace, JobEffect

LEMMA RecordEffect ==
  ASSUME TypeOK, NEW w \in Workers, Record(w)
  PROVE  /\ pc[w] = "record" /\ job[w].step \in 1 .. 5 /\ job[w].order \in Orders
         /\ recorded' \in [Orders -> 0 .. 5]
         /\ recorded'[job[w].order] = IF recorded[job[w].order] < job[w].step
                                        THEN job[w].step ELSE recorded[job[w].order]
         /\ \A o \in Orders \ {job[w].order} : recorded'[o] = recorded[o]
         /\ pc' \in [Workers -> Place] /\ job' \in [Workers -> Job] /\ Others(w)
         /\ job[w].step = 5 => pc'[w] = "idle" /\ job'[w] = NoJob
         /\ job[w].step < 5 =>
              /\ pc'[w] = Call[job[w].step + 1] /\ job'[w].step = job[w].step + 1
              /\ job'[w].order = job[w].order /\ job'[w].sub = job[w].sub
              /\ job'[w].factor = job[w].factor
<1> DEFINE j == [job[w] EXCEPT !.step = job[w].step + 1]
           k == job[w].step
<1>1. pc[w] = "record" /\ job[w] \in Job /\ k \in 1 .. 5 /\ job[w].order \in Orders
  BY StepNames DEF Record, TypeOK, Job
<1>2. /\ recorded' \in [Orders -> 0 .. 5]
      /\ recorded'[job[w].order] = IF recorded[job[w].order] < k THEN k ELSE recorded[job[w].order]
      /\ \A o \in Orders \ {job[w].order} : recorded'[o] = recorded[o]
  BY <1>1, StepNames DEF Record, TypeOK
<1>3. ASSUME k = 5
      PROVE  /\ pc' \in [Workers -> Place] /\ job' \in [Workers -> Job] /\ Others(w)
             /\ pc'[w] = "idle" /\ job'[w] = NoJob
  <2>1. Return(w)
    BY <1>3, StepNames DEF Record
  <2>2. QED
    BY <2>1, ReturnEffect
<1>4. ASSUME k < 5
      PROVE  /\ pc' \in [Workers -> Place] /\ job' \in [Workers -> Job] /\ Others(w)
             /\ pc'[w] = Call[k + 1] /\ job'[w].step = k + 1
             /\ job'[w].order = job[w].order /\ job'[w].sub = job[w].sub
             /\ job'[w].factor = job[w].factor
  <2>1. Goto(w, Call[k + 1]) /\ job' = [job EXCEPT ![w] = j]
    BY <1>1, <1>4, StepNames DEF Record
  <2>2. j \in Job /\ j.step = k + 1 /\ j.order = job[w].order /\ j.sub = job[w].sub
        /\ j.factor = job[w].factor
    BY <1>1, <1>4, StepNames DEF Job
  <2> HIDE DEF j
  <2>3. Call[k + 1] \in Place
    BY <1>1, <1>4, CallIsPlace
  <2>4. QED
    BY <2>1, <2>2, <2>3, JobEffect
<1> HIDE DEF j
<1>5. k = 5 \/ k < 5
  BY <1>1
<1>6. QED
  BY <1>1, <1>2, <1>3, <1>4, <1>5

LEMMA CreateEffect ==
  ASSUME TypeOK, NEW w \in Workers, Create(w)
  PROVE  \E s \in Subs :
           /\ pc[w] = "create" /\ job[w].order \in Orders /\ NewSub(s)
           /\ sub' \in [Subs -> SubRow] /\ sub'[s].order = job[w].order /\ sub'[s].status = "PENDING"
           /\ \A r \in Subs \ {s} : sub'[r] = sub[r]
           /\ orderSub' \in [Orders -> Subs \cup {NoSub}] /\ orderSub'[job[w].order] = s
           /\ \A o \in Orders \ {job[w].order} : orderSub'[o] = orderSub[o]
           /\ pc' \in [Workers -> Place] /\ job' \in [Workers -> Job] /\ Others(w)
           /\ pc'[w] = "record" /\ job'[w].order = job[w].order /\ job'[w].step = job[w].step
           /\ job'[w].sub = s
<1>1. PICK s \in Subs :
        /\ NewSub(s)
        /\ sub' = [sub EXCEPT ![s] = [order |-> job[w].order, status |-> "PENDING"]]
        /\ orderSub' = [orderSub EXCEPT ![job[w].order] = s]
        /\ job' = [job EXCEPT ![w].sub = s]
  BY DEF Create
<1> DEFINE j == [job[w] EXCEPT !.sub = s]
<1>2. pc[w] = "create" /\ job[w] \in Job /\ job[w].order \in Orders /\ Goto(w, "record")
  BY DEF Create, TypeOK
<1>3. j \in Job /\ j.order = job[w].order /\ j.step = job[w].step /\ j.sub = s
  BY <1>2 DEF Job
<1>4. job' = [job EXCEPT ![w] = j]
  BY <1>1
<1> HIDE DEF j
<1>5. /\ pc' \in [Workers -> Place] /\ job' \in [Workers -> Job] /\ Others(w)
      /\ pc'[w] = "record" /\ job'[w] = j
  BY <1>2, <1>3, <1>4, JobEffect DEF Place
<1>6. /\ sub' \in [Subs -> SubRow] /\ sub'[s].order = job[w].order /\ sub'[s].status = "PENDING"
      /\ \A r \in Subs \ {s} : sub'[r] = sub[r]
  BY <1>1, <1>2 DEF TypeOK, SubRow
<1>7. /\ orderSub' \in [Orders -> Subs \cup {NoSub}] /\ orderSub'[job[w].order] = s
      /\ \A o \in Orders \ {job[w].order} : orderSub'[o] = orderSub[o]
  BY <1>1, <1>2 DEF TypeOK
<1>8. QED
  BY <1>1, <1>2, <1>3, <1>5, <1>6, <1>7

LEMMA CountEffect ==
  ASSUME TypeOK, NEW w \in Workers, Count(w)
  PROVE  /\ pc[w] = "count" /\ job[w].order \in Orders
         /\ pc' \in [Workers -> Place] /\ job' \in [Workers -> Job] /\ Others(w)
         /\ pc'[w] = "transfer" /\ job'[w].order = job[w].order /\ job'[w].step = job[w].step
         /\ job'[w].sub = job[w].sub /\ job'[w].factor = Factor(Cardinality(Active))
<1> DEFINE f == Factor(Cardinality(Active))
           j == [job[w] EXCEPT !.factor = f]
<1>1. f \in Factors
  BY DEF Factor, Factors
<1>2. /\ pc[w] = "count" /\ job[w] \in Job /\ job[w].order \in Orders /\ Goto(w, "transfer")
      /\ job' = [job EXCEPT ![w] = j]
  BY DEF Count, TypeOK, Active
<1> HIDE DEF f
<1>3. /\ j \in Job /\ j.order = job[w].order /\ j.step = job[w].step /\ j.sub = job[w].sub
      /\ j.factor = f
  BY <1>1, <1>2 DEF Job
<1> HIDE DEF j
<1>4. QED
  BY <1>2, <1>3, JobEffect DEF Place, f

-----------------------------------------------------------------------------
(* A step of a run, by what it writes; Paying steps are those of REWARDS    *)
(* after lookup                                                            *)
MovesTo(w, place) ==
  /\ pc' \in [Workers -> Place] /\ job' \in [Workers -> Job] /\ Others(w)
  /\ pc'[w] = place /\ job'[w] = job[w]

LEMMA MarkEffect ==
  ASSUME TypeOK, NEW o \in Orders, NEW e \in Mishap, Mark(o, e)
  PROVE  /\ mishaps' \in [Orders -> SUBSET Mishap]
         /\ e \in mishaps'[o] /\ \A p \in Orders : mishaps[p] \subseteq mishaps'[p]
         /\ \A p \in Orders \ {o} : mishaps'[p] = mishaps[p]
         /\ mishaps'[o] = mishaps[o] \cup {e}
BY DEF TypeOK, Mark

LEMMA SpendType ==
  ASSUME TypeOK, NEW e \in {"stop", "overlap", "cancel"}, NEW n, Spend(e, n)
  PROVE  spent' \in [{"stop", "overlap", "cancel"} -> Nat]
BY DEF TypeOK, Spend

(* The steps that only make something of the order's subscription *)
LEMMA AttachEffect ==
  ASSUME TypeOK, NEW w \in Workers, Attach(w)
  PROVE  /\ pc[w] = "attach" /\ job[w].order \in Orders /\ job[w].sub \in Subs
         /\ activation' \in [Orders -> Subs \cup {NoSub}]
         /\ activation'[job[w].order] = job[w].sub
         /\ \A o \in Orders \ {job[w].order} : activation'[o] = activation[o]
         /\ MovesTo(w, "record")
<1>1. pc[w] = "attach" /\ job[w].order \in Orders /\ job[w].sub \in Subs
  BY DEF TypeOK, Attach
<1>2. MovesTo(w, "record")
  BY MoveEffect DEF Attach, MovesTo, Place
<1>3. QED
  BY <1>1, <1>2 DEF TypeOK, Attach

LEMMA CreditEffect ==
  ASSUME TypeOK, NEW w \in Workers, Credit(w)
  PROVE  /\ pc[w] = "credit" /\ job[w].order \in Orders /\ job[w].sub \in Subs
         /\ credits' \in [Subs -> Nat] /\ credits'[job[w].sub] = credits[job[w].sub] + 1
         /\ \A s \in Subs \ {job[w].sub} : credits'[s] = credits[s]
         /\ MovesTo(w, "record")
<1>1. pc[w] = "credit" /\ job[w].order \in Orders /\ job[w].sub \in Subs
  BY DEF TypeOK, Credit
<1>2. MovesTo(w, "record")
  BY MoveEffect DEF Credit, MovesTo, Place
<1>3. QED
  BY <1>1, <1>2 DEF TypeOK, Credit

LEMMA ActivateEffect ==
  ASSUME TypeOK, NEW w \in Workers, Activate(w)
  PROVE  /\ pc[w] = "activate" /\ job[w].order \in Orders /\ job[w].sub \in Subs
         /\ plans' \in [Subs -> Nat] /\ plans'[job[w].sub] = plans[job[w].sub] + 1
         /\ \A s \in Subs \ {job[w].sub} : plans'[s] = plans[s]
         /\ MovesTo(w, "markActive")
<1>1. pc[w] = "activate" /\ job[w].order \in Orders /\ job[w].sub \in Subs
  BY DEF TypeOK, Activate
<1>2. MovesTo(w, "markActive")
  BY MoveEffect DEF Activate, MovesTo, Place
<1>3. QED
  BY <1>1, <1>2 DEF TypeOK, Activate

LEMMA MarkActiveEffect ==
  ASSUME TypeOK, NEW w \in Workers, MarkActive(w)
  PROVE  /\ pc[w] = "markActive" /\ job[w].order \in Orders /\ job[w].sub \in Subs
         /\ sub' \in [Subs -> SubRow] /\ sub'[job[w].sub].status = "ACTIVE"
         /\ sub'[job[w].sub].order = sub[job[w].sub].order
         /\ \A s \in Subs \ {job[w].sub} : sub'[s] = sub[s]
         /\ MovesTo(w, "record")
<1>1. pc[w] = "markActive" /\ job[w].order \in Orders /\ job[w].sub \in Subs
  BY DEF TypeOK, MarkActive
<1>2. MovesTo(w, "record")
  BY MoveEffect DEF MarkActive, MovesTo, Place
<1>3. /\ sub' \in [Subs -> SubRow] /\ sub'[job[w].sub].status = "ACTIVE"
      /\ sub'[job[w].sub].order = sub[job[w].sub].order
      /\ \A s \in Subs \ {job[w].sub} : sub'[s] = sub[s]
  <2> DEFINE r == job[w].sub
  <2>1. r \in Subs /\ sub \in [Subs -> SubRow] /\ sub' = [sub EXCEPT ![r].status = "ACTIVE"]
    BY <1>1 DEF TypeOK, MarkActive
  <2> HIDE DEF r
  <2>2. QED
    BY <2>1 DEF SubRow, r
<1>4. QED
  BY <1>1, <1>2, <1>3

LEMMA OverEffect ==
  ASSUME TypeOK, RowsFit, NEW s \in Subs, Over(s)
  PROVE  /\ sub[s].status = "ACTIVE" /\ sub[s].order \in Orders
         /\ sub' \in [Subs -> SubRow] /\ sub'[s].status = "OVER" /\ sub'[s].order = sub[s].order
         /\ \A r \in Subs \ {s} : sub'[r] = sub[r]
         /\ mishaps' \in [Orders -> SUBSET Mishap]
         /\ mishaps'[sub[s].order] = mishaps[sub[s].order] \cup {"over"}
         /\ \A o \in Orders \ {sub[s].order} : mishaps'[o] = mishaps[o]
         /\ spent' \in [{"stop", "overlap", "cancel"} -> Nat]
<1>1. sub[s].status = "ACTIVE" /\ sub[s].order \in Orders
  BY DEF TypeOK, RowsFit, Over, SubRow
<1>2. /\ sub' \in [Subs -> SubRow] /\ sub'[s].status = "OVER" /\ sub'[s].order = sub[s].order
      /\ \A r \in Subs \ {s} : sub'[r] = sub[r]
  BY <1>1 DEF TypeOK, Over, SubRow
<1>3. Mark(sub[s].order, "over") /\ Spend("cancel", MaxCancels)
  BY DEF Over
<1>4. QED
  BY <1>1, <1>2, <1>3, MarkEffect, SpendType DEF Mishap

(* The steps of REWARDS touch none of the rows of a subscription *)
PayingStep(w) == Lookup(w) \/ Count(w) \/ Transfer(w) \/ Payout(w)

LEMMA PayingEffect ==
  ASSUME TypeOK, NEW w \in Workers, PayingStep(w)
  PROVE  /\ pc[w] \in {"lookup", "count", "transfer", "payout"} /\ job[w].order \in Orders
         /\ pc' \in [Workers -> Place] /\ job' \in [Workers -> Job] /\ Others(w)
         /\ pc'[w] \in {"count", "transfer", "payout", "record"}
         /\ job'[w].order = job[w].order /\ job'[w].step = job[w].step /\ job'[w].sub = job[w].sub
         /\ mishaps' \in [Orders -> SUBSET Mishap]
         /\ \A o \in Orders : /\ mishaps[o] \subseteq mishaps'[o]
                              /\ mishaps'[o] \subseteq mishaps[o] \cup {"raced", "noWallet"}
         /\ transfers' \in Nat /\ payouts' \in [Factors -> Nat]
         /\ UNCHANGED <<recorded, orderSub, sub, activation, credits, plans, wallet, spent>>
<1>1. CASE Lookup(w)
  <2>1. /\ pc[w] = "lookup" /\ job[w].order \in Orders /\ job' = job
        /\ Goto(w, IF PaidOut THEN "record" ELSE "count")
        /\ UNCHANGED <<recorded, orderSub, sub, activation, credits, plans, wallet, transfers, payouts, spent>>
        /\ mishaps' = mishaps \/ Mark(job[w].order, "raced")
    BY <1>1 DEF Lookup, TypeOK
  <2>2. /\ pc' \in [Workers -> Place] /\ job' \in [Workers -> Job] /\ Others(w)
        /\ pc'[w] \in {"count", "record"} /\ job'[w] = job[w]
    BY <2>1, MoveEffect DEF Place
  <2>3. /\ mishaps' \in [Orders -> SUBSET Mishap]
        /\ \A o \in Orders : /\ mishaps[o] \subseteq mishaps'[o]
                             /\ mishaps'[o] \subseteq mishaps[o] \cup {"raced"}
    <3>1. "raced" \in Mishap
      BY DEF Mishap
    <3>2. CASE mishaps' = mishaps
      BY <3>2 DEF TypeOK
    <3>3. CASE Mark(job[w].order, "raced")
      <4>1. /\ mishaps' \in [Orders -> SUBSET Mishap]
            /\ mishaps'[job[w].order] = mishaps[job[w].order] \cup {"raced"}
            /\ \A o \in Orders \ {job[w].order} : mishaps'[o] = mishaps[o]
        BY <2>1, <3>1, <3>3, MarkEffect
      <4>2. QED
        BY <2>1, <4>1
    <3>4. QED
      BY <2>1, <3>2, <3>3
  <2>4. QED
    BY <2>1, <2>2, <2>3 DEF TypeOK
<1>2. CASE Count(w)
  <2>1. UNCHANGED <<recorded, orderSub, sub, activation, credits, plans, wallet, transfers, payouts, spent, mishaps>>
    BY <1>2 DEF Count
  <2>2. QED
    BY <1>2, <2>1, CountEffect DEF TypeOK
<1>3. CASE Transfer(w)
  <2>1. /\ pc[w] = "transfer" /\ job[w].order \in Orders /\ job' = job /\ Goto(w, "payout")
        /\ UNCHANGED <<recorded, orderSub, sub, activation, credits, plans, wallet, payouts, spent>>
        /\ mishaps' = mishaps \/ Mark(job[w].order, "noWallet")
        /\ transfers' \in Nat
    BY <1>3 DEF Transfer, TypeOK
  <2>2. MovesTo(w, "payout")
    BY <2>1, MoveEffect DEF Place, MovesTo
  <2>3. /\ mishaps' \in [Orders -> SUBSET Mishap]
        /\ \A o \in Orders : /\ mishaps[o] \subseteq mishaps'[o]
                             /\ mishaps'[o] \subseteq mishaps[o] \cup {"noWallet"}
    <3>1. "noWallet" \in Mishap
      BY DEF Mishap
    <3>2. CASE mishaps' = mishaps
      BY <3>2 DEF TypeOK
    <3>3. CASE Mark(job[w].order, "noWallet")
      <4>1. /\ mishaps' \in [Orders -> SUBSET Mishap]
            /\ mishaps'[job[w].order] = mishaps[job[w].order] \cup {"noWallet"}
            /\ \A o \in Orders \ {job[w].order} : mishaps'[o] = mishaps[o]
        BY <2>1, <3>1, <3>3, MarkEffect
      <4>2. QED
        BY <2>1, <4>1
    <3>4. QED
      BY <2>1, <3>2, <3>3
  <2>4. QED
    BY <2>1, <2>2, <2>3 DEF TypeOK, MovesTo
<1>4. CASE Payout(w)
  <2>1. /\ pc[w] = "payout" /\ job[w].order \in Orders /\ job' = job /\ Goto(w, "record")
        /\ UNCHANGED <<recorded, orderSub, sub, activation, credits, plans, wallet, transfers, spent, mishaps>>
        /\ payouts' = [payouts EXCEPT ![job[w].factor] = @ + 1]
    BY <1>4 DEF Payout, TypeOK
  <2>2. MovesTo(w, "record")
    BY <2>1, MoveEffect DEF Place, MovesTo
  <2>3. payouts' \in [Factors -> Nat]
    BY <2>1 DEF TypeOK, Job
  <2>4. QED
    BY <2>1, <2>2, <2>3 DEF TypeOK, MovesTo
<1>5. QED
  BY <1>1, <1>2, <1>3, <1>4 DEF PayingStep

LEMMA StopEffect ==
  ASSUME TypeOK, NEW w \in Workers, Stop(w)
  PROVE  /\ pc[w] # "idle" /\ job[w].order \in Orders
         /\ pc' \in [Workers -> Place] /\ job' \in [Workers -> Job] /\ Others(w)
         /\ pc'[w] = "idle" /\ job'[w] = NoJob
         /\ mishaps' \in [Orders -> SUBSET Mishap]
         /\ \A o \in Orders : mishaps[o] \subseteq mishaps'[o]
         /\ \A o \in Orders \ {job[w].order} : mishaps'[o] = mishaps[o]
         /\ Unrecorded(w) => Steps[job[w].step] \in mishaps'[job[w].order]
         /\ spent' \in [{"stop", "overlap", "cancel"} -> Nat]
         /\ UNCHANGED <<recorded, orderSub, sub, activation, credits, plans, wallet, transfers, payouts>>
<1>1. pc[w] # "idle" /\ job[w].order \in Orders /\ Return(w) /\ Spend("stop", MaxStops)
  BY DEF Stop, TypeOK
<1>2. CASE Unrecorded(w)
  <2>1. Steps[job[w].step] \in Mishap
    BY DEF TypeOK, Job, Mishap
  <2>2. Mark(job[w].order, Steps[job[w].step])
    BY <1>2 DEF Stop
  <2>3. QED
    BY <1>1, <2>1, <2>2, MarkEffect, ReturnEffect, SpendType DEF Stop
<1>3. CASE ~Unrecorded(w)
  BY <1>1, <1>3, ReturnEffect, SpendType DEF Stop, TypeOK
<1>4. QED
  BY <1>2, <1>3

-----------------------------------------------------------------------------
(* A row of sub keeps its order, an order keeps having a subscription, and  *)
(* plans are only ever added                                               *)
RowsKept ==
  /\ \A s \in Subs : /\ sub[s].order # NoOrder => sub'[s].order = sub[s].order
                     /\ plans[s] > 0 => plans'[s] > 0
  /\ \A o \in Orders : orderSub[o] \in Subs => orderSub'[o] \in Subs

LEMMA RowsStay ==
  ASSUME TypeOK, RowsFit, [Next]_vars
  PROVE  RowsKept
<1>1. ASSUME UNCHANGED <<sub, plans, orderSub>> PROVE RowsKept
  BY <1>1 DEF RowsKept
<1>2. ASSUME NEW w \in Workers, NEW o \in Orders, Begin(w, o) PROVE RowsKept
  BY <1>1, <1>2 DEF Begin
<1>3. ASSUME NEW w \in Workers, Record(w) \/ Attach(w) \/ Credit(w) \/ Stop(w) PROVE RowsKept
  BY <1>1, <1>3 DEF Record, Attach, Credit, Stop
<1>4. ASSUME NEW w \in Workers, PayingStep(w) PROVE RowsKept
  BY <1>1, <1>4, PayingEffect
<1>5. ASSUME NEW w \in Workers, Create(w) PROVE RowsKept
  <2>1. PICK s \in Subs : /\ NewSub(s) /\ orderSub'[job[w].order] = s
                          /\ \A r \in Subs \ {s} : sub'[r] = sub[r]
                          /\ \A o \in Orders \ {job[w].order} : orderSub'[o] = orderSub[o]
    BY <1>5, CreateEffect
  <2>2. sub[s].order = NoOrder /\ plans' = plans
    BY <1>5, <2>1 DEF RowsFit, NewSub, Create
  <2>3. QED
    BY <2>1, <2>2 DEF RowsKept
<1>6. ASSUME NEW w \in Workers, Activate(w) PROVE RowsKept
  <2>1. sub' = sub /\ orderSub' = orderSub
    BY <1>6 DEF Activate
  <2>2. \A s \in Subs : plans[s] > 0 => plans'[s] > 0
    <3>1. /\ plans'[job[w].sub] = plans[job[w].sub] + 1
          /\ \A s \in Subs \ {job[w].sub} : plans'[s] = plans[s]
      BY <1>6, ActivateEffect
    <3>2. \A s \in Subs : plans[s] \in Nat
      BY DEF TypeOK
    <3>3. QED
      BY <3>1, <3>2
  <2>3. QED
    BY <2>1, <2>2 DEF RowsKept
<1>7. ASSUME NEW w \in Workers, MarkActive(w) PROVE RowsKept
  <2>1. plans' = plans /\ orderSub' = orderSub
    BY <1>7 DEF MarkActive
  <2>2. \A s \in Subs : sub'[s].order = sub[s].order
    BY <1>7, MarkActiveEffect
  <2>3. QED
    BY <2>1, <2>2 DEF RowsKept
<1>8. ASSUME NEW s \in Subs, Over(s) PROVE RowsKept
  <2>1. plans' = plans /\ orderSub' = orderSub
    BY <1>8 DEF Over
  <2>2. \A r \in Subs : sub'[r].order = sub[r].order
    BY <1>8, OverEffect
  <2>3. QED
    BY <2>1, <2>2 DEF RowsKept
<1>9. CASE SetUpWallet
  BY <1>1, <1>9 DEF SetUpWallet
<1>10. CASE UNCHANGED vars
  BY <1>1, <1>10 DEF vars
<1>11. QED
  BY <1>2, <1>3, <1>4, <1>5, <1>6, <1>7, <1>8, <1>9, <1>10 DEF Next, Run, PayingStep

Placed(w) ==
  /\ pc[w] # "idle" => job[w].order \in Orders
  /\ pc[w] \notin {"idle", "create"} => job[w].sub \in Subs

LEMMA OthersFit ==
  ASSUME TypeOK, JobsFit, RowsFit, [Next]_vars, NEW v \in Workers, pc'[v] = pc[v], job'[v] = job[v]
  PROVE  Placed(v)' /\ JobFits(v)'
<1>1. Placed(v) /\ JobFits(v)
  BY DEF TypeOK, JobsFit, Placed
<1>2. RowsKept
  BY RowsStay
<1>3. Placed(v)'
  BY <1>1 DEF Placed
<1>4. pc'[v] \notin {"idle", "create"} =>
        orderSub'[job'[v].order] \in Subs /\ sub'[job'[v].sub].order = job'[v].order
  BY <1>1, <1>2, ActivationAssumption DEF JobFits, Placed, RowsKept
<1>5. pc'[v] = "markActive" => plans'[job'[v].sub] > 0
  BY <1>1, <1>2 DEF JobFits, Placed, RowsKept
<1>6. QED
  BY <1>1, <1>3, <1>4, <1>5 DEF JobFits

LEMMA NextTyped ==
  ASSUME TypeOK, JobsFit, RowsFit, [Next]_vars
  PROVE  TypeOK' /\ JobsFit' /\ RowsFit'
<1> DEFINE Typed == TypeOK' /\ JobsFit' /\ RowsFit'
<1> SUFFICES Typed
  OBVIOUS
<1>1. /\ recorded \in [Orders -> 0 .. 5] /\ orderSub \in [Orders -> Subs \cup {NoSub}]
      /\ sub \in [Subs -> SubRow] /\ activation \in [Orders -> Subs \cup {NoSub}]
      /\ credits \in [Subs -> Nat] /\ plans \in [Subs -> Nat]
      /\ wallet \in BOOLEAN /\ transfers \in Nat /\ payouts \in [Factors -> Nat]
      /\ pc \in [Workers -> Place] /\ job \in [Workers -> Job]
      /\ spent \in [{"stop", "overlap", "cancel"} -> Nat]
      /\ mishaps \in [Orders -> SUBSET Mishap]
      /\ \A w \in Workers : Placed(w) /\ JobFits(w)
  BY StepNames DEF TypeOK, JobsFit, Placed
<1>2. ASSUME NEW w \in Workers, Others(w), Placed(w)', JobFits(w)'
      PROVE  JobsFit' /\ \A v \in Workers : Placed(v)'
  BY <1>2, OthersFit DEF JobsFit, Others
<1>3. ASSUME UNCHANGED <<pc, job>>
      PROVE  JobsFit' /\ \A v \in Workers : Placed(v)'
  BY <1>3, OthersFit DEF JobsFit
<1>4. RowsKept
  BY RowsStay
<1>5. ASSUME NEW w \in Workers, NEW o \in Orders, Begin(w, o) PROVE Typed
  <2>1. /\ recorded[o] \in 0 .. 4
        /\ pc' \in [Workers -> Place] /\ job' \in [Workers -> Job] /\ Others(w)
        /\ pc'[w] = Call[recorded[o] + 1]
        /\ job'[w].order = o /\ job'[w].step = recorded[o] + 1 /\ job'[w].sub = orderSub[o]
    BY <1>5, BeginEffect
  <2>2. UNCHANGED <<recorded, orderSub, sub, activation, credits, plans, wallet, transfers, payouts>>
    BY <1>5 DEF Begin
  <2>3. recorded[o] + 1 \in 1 .. 5
    BY <2>1
  <2>4. /\ pc'[w] \in Place \ {"idle", "markActive"} /\ AtStep(pc'[w], recorded[o] + 1)
        /\ pc'[w] = "create" \/ recorded[o] >= 1
    BY <2>1, <2>3, CallIsPlace, StepNames
  <2>5. recorded[o] >= 1 => orderSub[o] \in Subs /\ sub[orderSub[o]].order = o
    BY DEF RowsFit
  <2>6. Placed(w)'
    BY <2>1, <2>4, <2>5 DEF Placed
  <2>7. JobFits(w)'
    BY <2>1, <2>2, <2>4, <2>5 DEF JobFits
  <2>8. RowsFit'
    BY <2>2 DEF RowsFit
  <2>9. spent' \in [{"stop", "overlap", "cancel"} -> Nat] /\ mishaps' \in [Orders -> SUBSET Mishap]
    BY <1>1, <1>5, SpendType, MarkEffect DEF Begin, Mishap
  <2>10. QED
    BY <1>1, <1>2, <2>1, <2>2, <2>6, <2>7, <2>8, <2>9, StepNames DEF TypeOK, Placed
<1>6. ASSUME NEW w \in Workers, Record(w) PROVE Typed
  <2> DEFINE k == job[w].step
             o == job[w].order
  <2>1. /\ pc[w] = "record" /\ k \in 1 .. 5 /\ o \in Orders
        /\ recorded' \in [Orders -> 0 .. 5]
        /\ recorded'[o] = IF recorded[o] < k THEN k ELSE recorded[o]
        /\ \A p \in Orders \ {o} : recorded'[p] = recorded[p]
        /\ pc' \in [Workers -> Place] /\ job' \in [Workers -> Job] /\ Others(w)
        /\ k = 5 => pc'[w] = "idle" /\ job'[w] = NoJob
        /\ k < 5 => /\ pc'[w] = Call[k + 1] /\ job'[w].step = k + 1
                    /\ job'[w].order = o /\ job'[w].sub = job[w].sub
    BY <1>6, RecordEffect
  <2>2. UNCHANGED <<orderSub, sub, activation, credits, plans, wallet, transfers, payouts, spent, mishaps>>
    BY <1>6 DEF Record
  <2>3. job[w].sub \in Subs /\ orderSub[o] \in Subs /\ sub[job[w].sub].order = o
    BY <1>1, <2>1 DEF Placed, JobFits
  <2>4. Placed(w)' /\ JobFits(w)'
    <3>1. CASE k = 5
      BY <2>1, <3>1 DEF Placed, JobFits
    <3>2. CASE k < 5
      <4>1. k + 1 \in 1 .. 5
        BY <2>1, <3>2
      <4>2. pc'[w] \in Place \ {"idle", "markActive"} /\ AtStep(pc'[w], k + 1)
        BY <2>1, <3>2, <4>1, CallIsPlace
      <4>3. Placed(w)'
        BY <2>1, <2>3, <3>2 DEF Placed
      <4>4. JobFits(w)'
        BY <2>1, <2>2, <2>3, <3>2, <4>2 DEF JobFits
      <4>5. QED
        BY <4>3, <4>4
    <3>3. QED
      BY <2>1, <3>1, <3>2
  <2>5. RowsFit'
    BY <2>1, <2>2, <2>3 DEF RowsFit
  <2>6. QED
    BY <1>1, <1>2, <2>1, <2>2, <2>4, <2>5, StepNames DEF TypeOK, Placed
<1>7. ASSUME NEW w \in Workers, Create(w) PROVE Typed
  <2> DEFINE o == job[w].order
  <2>1. PICK s \in Subs :
           /\ pc[w] = "create" /\ o \in Orders /\ NewSub(s)
           /\ sub' \in [Subs -> SubRow] /\ sub'[s].order = o /\ sub'[s].status = "PENDING"
           /\ \A r \in Subs \ {s} : sub'[r] = sub[r]
           /\ orderSub' \in [Orders -> Subs \cup {NoSub}] /\ orderSub'[o] = s
           /\ \A p \in Orders \ {o} : orderSub'[p] = orderSub[p]
           /\ pc' \in [Workers -> Place] /\ job' \in [Workers -> Job] /\ Others(w)
           /\ pc'[w] = "record" /\ job'[w].order = o /\ job'[w].step = job[w].step
           /\ job'[w].sub = s
    BY <1>7, CreateEffect
  <2>2. UNCHANGED <<recorded, activation, credits, plans, wallet, transfers, payouts, spent, mishaps>>
    BY <1>7 DEF Create
  <2>3. Placed(w)'
    BY <2>1 DEF Placed
  <2>4. job[w].step \in 1 .. 5
    BY <1>1, StepNames DEF Job
  <2>5. JobFits(w)'
    BY <2>1, <2>4 DEF JobFits, AtStep
  <2>6. sub[s].order = NoOrder /\ credits[s] = 0 /\ plans[s] = 0
    BY <2>1 DEF RowsFit, NewSub
  <2>7. RowsFit'
    <3>1. \A r \in Subs : /\ sub'[r].status = "ABSENT" <=> sub'[r].order = NoOrder
                          /\ sub'[r].status = "ABSENT" => credits'[r] = 0 /\ plans'[r] = 0
                          /\ sub'[r].status \in {"ACTIVE", "OVER"} => plans'[r] > 0
      BY <2>1, <2>2, ActivationAssumption DEF RowsFit
    <3>2. \A p \in Orders : /\ recorded'[p] >= 1 => orderSub'[p] \in Subs
                            /\ orderSub'[p] \in Subs => sub'[orderSub'[p]].order = p
      BY <2>1, <2>2, <2>6, ActivationAssumption DEF RowsFit
    <3>3. QED
      BY <3>1, <3>2 DEF RowsFit
  <2>8. QED
    BY <1>1, <1>2, <2>1, <2>2, <2>3, <2>5, <2>7, StepNames DEF TypeOK, Placed
<1>8. ASSUME NEW w \in Workers, NEW place \in {"record", "markActive"}, MovesTo(w, place),
             pc[w] \notin {"idle", "create", "record"}, place = "record" \/ pc[w] = "activate",
             place = "markActive" => plans'[job[w].sub] > 0
      PROVE  Placed(w)' /\ JobFits(w)'
  <2>1. Placed(w)'
    BY <1>1, <1>8 DEF Placed, MovesTo
  <2>2. job[w].step \in 1 .. 5
    BY <1>1, StepNames DEF Job
  <2>3. job[w].order \in Orders /\ job[w].sub \in Subs
    BY <1>1, <1>8 DEF Placed
  <2>4. orderSub'[job[w].order] \in Subs /\ sub'[job[w].sub].order = job[w].order
    BY <1>1, <1>4, <1>8, <2>3, ActivationAssumption DEF JobFits, RowsKept
  <2>5. AtStep(place, job[w].step)
    BY <1>1, <1>8, <2>2 DEF JobFits, AtStep
  <2>6. QED
    BY <1>8, <2>1, <2>4, <2>5 DEF JobFits, MovesTo
<1>9. ASSUME NEW w \in Workers, Attach(w) PROVE Typed
  <2>1. /\ pc[w] = "attach" /\ MovesTo(w, "record") /\ activation' \in [Orders -> Subs \cup {NoSub}]
        /\ UNCHANGED <<recorded, orderSub, sub, credits, plans, wallet, transfers, payouts, spent, mishaps>>
    BY <1>9, AttachEffect DEF Attach
  <2>2. Placed(w)' /\ JobFits(w)' /\ Others(w)
    BY <1>8, <2>1 DEF MovesTo
  <2>3. RowsFit'
    BY <2>1 DEF RowsFit
  <2>4. QED
    BY <1>1, <1>2, <2>1, <2>2, <2>3, StepNames DEF TypeOK, Placed, MovesTo
<1>10. ASSUME NEW w \in Workers, Credit(w) PROVE Typed
  <2>1. /\ pc[w] = "credit" /\ MovesTo(w, "record") /\ credits' \in [Subs -> Nat] /\ job[w].sub \in Subs
        /\ job[w].order \in Orders
        /\ \A s \in Subs \ {job[w].sub} : credits'[s] = credits[s]
        /\ UNCHANGED <<recorded, orderSub, sub, activation, plans, wallet, transfers, payouts, spent, mishaps>>
    BY <1>10, CreditEffect DEF Credit
  <2>2. Placed(w)' /\ JobFits(w)' /\ Others(w)
    BY <1>8, <2>1 DEF MovesTo
  <2>3. sub[job[w].sub].status # "ABSENT"
    BY <1>1, <2>1, ActivationAssumption DEF JobFits, RowsFit
  <2>4. RowsFit'
    BY <2>1, <2>3 DEF RowsFit
  <2>5. QED
    BY <1>1, <1>2, <2>1, <2>2, <2>4, StepNames DEF TypeOK, Placed, MovesTo
<1>11. ASSUME NEW w \in Workers, Activate(w) PROVE Typed
  <2>1. /\ pc[w] = "activate" /\ MovesTo(w, "markActive") /\ plans' \in [Subs -> Nat]
        /\ job[w].sub \in Subs /\ job[w].order \in Orders /\ plans'[job[w].sub] = plans[job[w].sub] + 1
        /\ \A s \in Subs \ {job[w].sub} : plans'[s] = plans[s]
        /\ UNCHANGED <<recorded, orderSub, sub, activation, credits, wallet, transfers, payouts, spent, mishaps>>
    BY <1>11, ActivateEffect DEF Activate
  <2>2. plans'[job[w].sub] > 0
    BY <1>1, <2>1
  <2>3. Placed(w)' /\ JobFits(w)' /\ Others(w)
    BY <1>8, <2>1, <2>2 DEF MovesTo
  <2>4. sub[job[w].sub].status # "ABSENT"
    BY <1>1, <2>1, ActivationAssumption DEF JobFits, RowsFit
  <2>5. RowsFit'
    BY <2>1, <2>2, <2>4 DEF RowsFit
  <2>6. QED
    BY <1>1, <1>2, <2>1, <2>3, <2>5, StepNames DEF TypeOK, Placed, MovesTo
<1>12. ASSUME NEW w \in Workers, MarkActive(w) PROVE Typed
  <2>1. /\ pc[w] = "markActive" /\ MovesTo(w, "record") /\ sub' \in [Subs -> SubRow]
        /\ job[w].sub \in Subs /\ job[w].order \in Orders
        /\ sub'[job[w].sub].status = "ACTIVE" /\ sub'[job[w].sub].order = sub[job[w].sub].order
        /\ \A s \in Subs \ {job[w].sub} : sub'[s] = sub[s]
        /\ UNCHANGED <<recorded, orderSub, activation, credits, plans, wallet, transfers, payouts, spent, mishaps>>
    BY <1>12, MarkActiveEffect DEF MarkActive
  <2>2. Placed(w)' /\ JobFits(w)' /\ Others(w)
    BY <1>8, <2>1 DEF MovesTo
  <2>3. sub[job[w].sub].order # NoOrder /\ plans[job[w].sub] > 0
    BY <1>1, <2>1, ActivationAssumption DEF JobFits
  <2>4. RowsFit'
    <3>1. \A r \in Subs : /\ sub'[r].status = "ABSENT" <=> sub'[r].order = NoOrder
                          /\ sub'[r].status = "ABSENT" => credits'[r] = 0 /\ plans'[r] = 0
                          /\ sub'[r].status \in {"ACTIVE", "OVER"} => plans'[r] > 0
      BY <2>1, <2>3 DEF RowsFit
    <3>2. \A r \in Subs : sub'[r].order = sub[r].order
      BY <2>1
    <3>3. QED
      BY <2>1, <3>1, <3>2 DEF RowsFit
  <2>5. QED
    BY <1>1, <1>2, <2>1, <2>2, <2>4, StepNames DEF TypeOK, Placed, MovesTo
<1>13. ASSUME NEW w \in Workers, PayingStep(w) PROVE Typed
  <2>1. /\ pc[w] \in {"lookup", "count", "transfer", "payout"}
        /\ pc' \in [Workers -> Place] /\ job' \in [Workers -> Job] /\ Others(w)
        /\ pc'[w] \in {"count", "transfer", "payout", "record"}
        /\ job'[w].order = job[w].order /\ job'[w].step = job[w].step /\ job'[w].sub = job[w].sub
        /\ mishaps' \in [Orders -> SUBSET Mishap]
        /\ transfers' \in Nat /\ payouts' \in [Factors -> Nat]
        /\ UNCHANGED <<recorded, orderSub, sub, activation, credits, plans, wallet, spent>>
    BY <1>13, PayingEffect
  <2>2. Placed(w)'
    BY <1>1, <2>1 DEF Placed
  <2>3. job[w].step = 5
    BY <1>1, <2>1 DEF JobFits, AtStep
  <2>4. JobFits(w)'
    BY <1>1, <2>1, <2>3 DEF JobFits, AtStep
  <2>5. RowsFit'
    BY <2>1 DEF RowsFit
  <2>6. QED
    BY <1>1, <1>2, <2>1, <2>2, <2>4, <2>5, StepNames DEF TypeOK, Placed
<1>14. ASSUME NEW w \in Workers, Stop(w) PROVE Typed
  <2>1. /\ pc' \in [Workers -> Place] /\ job' \in [Workers -> Job] /\ Others(w)
        /\ pc'[w] = "idle" /\ job'[w] = NoJob
        /\ mishaps' \in [Orders -> SUBSET Mishap]
        /\ spent' \in [{"stop", "overlap", "cancel"} -> Nat]
        /\ UNCHANGED <<recorded, orderSub, sub, activation, credits, plans, wallet, transfers, payouts>>
    BY <1>14, StopEffect
  <2>2. Placed(w)' /\ JobFits(w)'
    BY <2>1 DEF Placed, JobFits
  <2>3. RowsFit'
    BY <2>1 DEF RowsFit
  <2>4. QED
    BY <1>1, <1>2, <2>1, <2>2, <2>3, StepNames DEF TypeOK, Placed
<1>15. ASSUME NEW s \in Subs, Over(s) PROVE Typed
  <2>1. /\ sub[s].status = "ACTIVE" /\ sub[s].order \in Orders
        /\ sub' \in [Subs -> SubRow] /\ sub'[s].status = "OVER" /\ sub'[s].order = sub[s].order
        /\ \A r \in Subs \ {s} : sub'[r] = sub[r]
        /\ mishaps' \in [Orders -> SUBSET Mishap]
        /\ spent' \in [{"stop", "overlap", "cancel"} -> Nat]
        /\ UNCHANGED <<recorded, orderSub, activation, credits, plans, wallet, transfers, payouts, pc, job>>
    BY <1>15, OverEffect DEF Over
  <2>2. RowsFit'
    <3>1. \A r \in Subs : /\ sub'[r].status = "ABSENT" <=> sub'[r].order = NoOrder
                          /\ sub'[r].status = "ABSENT" => credits'[r] = 0 /\ plans'[r] = 0
                          /\ sub'[r].status \in {"ACTIVE", "OVER"} => plans'[r] > 0
      BY <2>1, ActivationAssumption DEF RowsFit
    <3>2. \A r \in Subs : sub'[r].order = sub[r].order
      BY <2>1
    <3>3. QED
      BY <2>1, <3>1, <3>2 DEF RowsFit
  <2>3. QED
    BY <1>1, <1>3, <2>1, <2>2, StepNames DEF TypeOK, Placed
<1>16. CASE SetUpWallet
  <2>1. RowsFit'
    BY <1>16 DEF SetUpWallet, RowsFit
  <2>2. QED
    BY <1>1, <1>3, <1>16, <2>1, StepNames DEF SetUpWallet, TypeOK, Placed
<1>17. CASE UNCHANGED vars
  <2>1. RowsFit'
    BY <1>17 DEF vars, RowsFit
  <2>2. QED
    BY <1>1, <1>3, <1>17, <2>1, StepNames DEF vars, TypeOK, Placed
<1>18. QED
  BY <1>5, <1>6, <1>7, <1>9, <1>10, <1>11, <1>12, <1>13, <1>14, <1>15, <1>16, <1>17
     DEF Next, Run, PayingStep

-----------------------------------------------------------------------------
(* What is true of an order's own rows and runs, step by step *)
Order(o) == Alone(o) /\ Given(o) /\ Orphans(o) /\ Once(o)

(* The step is one of another order *)
Untouched(o) ==
  /\ recorded'[o] = recorded[o] /\ orderSub'[o] = orderSub[o] /\ activation'[o] = activation[o]
  /\ mishaps[o] \subseteq mishaps'[o]
  /\ SubsOf(o)' = SubsOf(o)
  /\ \A s \in SubsOf(o) :
       /\ credits'[s] = credits[s] /\ plans'[s] = plans[s]
       /\ sub'[s] = sub[s]
  /\ \A v \in Workers : /\ WorksOn(v, o)' <=> WorksOn(v, o)
                        /\ WorksOn(v, o) => pc'[v] = pc[v] /\ job'[v] = job[v]

LEMMA UntouchedStays ==
  ASSUME TypeOK, JobsFit, RowsFit, NEW o \in Orders, Untouched(o), Order(o)
  PROVE  Order(o)'
<1>1. \A k \in 1 .. 5 : Done(o, k)' <=> Done(o, k)
  BY DEF Untouched, Done
<1>2. Alone(o)'
  BY DEF Untouched, Order, Alone
<1>3. Done(o, 3) \/ Done(o, 4) => orderSub[o] \in SubsOf(o)
  <2>1. CASE recorded[o] >= 3 \/ recorded[o] >= 4
    <3>1. recorded[o] >= 1
      BY <2>1 DEF TypeOK
    <3>2. QED
      BY <3>1 DEF RowsFit, SubsOf
  <2>2. ASSUME NEW w \in Workers, WorksOn(w, o), pc[w] = "record" PROVE orderSub[o] \in SubsOf(o)
    BY <2>2 DEF JobsFit, JobFits, WorksOn, RowsFit, SubsOf
  <2>3. QED
    BY <2>1, <2>2 DEF Done
<1>4. Given(o)'
  BY <1>1, <1>3 DEF Untouched, Order, Given
<1>5. Orphans(o)'
  BY DEF Untouched, Order, Orphans
<1>6. Once(o)'
  <2>1. ASSUME NEW s \in SubsOf(o)', "SUBSCRIPTION" \notin mishaps'[o]
        PROVE  s = orderSub'[o] /\ Done(o, 1)'
    BY <1>1, <2>1 DEF Untouched, Order, Once
  <2>2. ASSUME NEW s \in SubsOf(o)', "CREDITS" \notin mishaps'[o]
        PROVE  credits'[s] <= 1 /\ (credits'[s] > 0 => Done(o, 3)')
    BY <1>1, <2>2 DEF Untouched, Order, Once
  <2>3. ASSUME NEW s \in SubsOf(o)', "TELCO" \notin mishaps'[o]
        PROVE  /\ plans'[s] <= 1
               /\ plans'[s] > 0 => Done(o, 4)' \/ \E w \in Workers : WorksOn(w, o)' /\ pc'[w] = "markActive"
    BY <1>1, <2>3 DEF Untouched, Order, Once
  <2>4. QED
    BY <2>1, <2>2, <2>3 DEF Once
<1>7. QED
  BY <1>2, <1>4, <1>5, <1>6 DEF Order

LEMMA OthersUntouched ==
  ASSUME TypeOK, NEW w \in Workers, Others(w), NEW o \in Orders, ~WorksOn(w, o), ~WorksOn(w, o)'
  PROVE  \A v \in Workers : /\ WorksOn(v, o)' <=> WorksOn(v, o)
                            /\ WorksOn(v, o) => pc'[v] = pc[v] /\ job'[v] = job[v]
BY DEF Others, WorksOn

(* With one run, what is done is what the run and the record say *)
LEMMA OneRun ==
  ASSUME NEW o \in Orders, NEW w \in Workers, Alone(o), WorksOn(w, o), Others(w)
  PROVE  /\ recorded[o] = job[w].step - 1 /\ job[w].sub = orderSub[o]
         /\ \A v \in Workers : (WorksOn(v, o) => v = w) /\ (WorksOn(v, o)' => v = w)
         /\ \A k \in 1 .. 5 : Done(o, k) <=> recorded[o] >= k \/ (pc[w] = "record" /\ job[w].step = k)
         /\ \A k \in 1 .. 5 :
              Done(o, k)' <=> recorded'[o] >= k \/ (WorksOn(w, o)' /\ pc'[w] = "record" /\ job'[w].step = k)
<1>1. \A v \in Workers : (WorksOn(v, o) => v = w) /\ (WorksOn(v, o)' => v = w)
  BY DEF Alone, Others, WorksOn
<1>2. \A k \in 1 .. 5 : Done(o, k) <=> recorded[o] >= k \/ (pc[w] = "record" /\ job[w].step = k)
  BY <1>1 DEF Done
<1>3. \A k \in 1 .. 5 :
        Done(o, k)' <=> recorded'[o] >= k \/ (WorksOn(w, o)' /\ pc'[w] = "record" /\ job'[w].step = k)
  BY <1>1 DEF Done
<1>4. QED
  BY <1>1, <1>2, <1>3 DEF Alone

-----------------------------------------------------------------------------
(* Each call keeps what is true of an order *)
LEMMA OrphansAreEmpty ==
  ASSUME TypeOK, RowsFit, NEW o \in Orders, Order(o), NEW s \in SubsOf(o), recorded[o] = 0 \/ s # orderSub[o]
  PROVE  credits[s] = 0 /\ plans[s] = 0 /\ sub[s].status = "PENDING"
BY DEF Order, Orphans, TypeOK, SubsOf

LEMMA BeginOrder ==
  ASSUME TypeOK, JobsFit, RowsFit, NEW o \in Orders, Order(o), "overlap" \notin mishaps'[o],
         NEW w \in Workers, NEW p \in Orders, Begin(w, p)
  PROVE  Order(o)'
<1>1. /\ pc[w] = "idle" /\ recorded[p] \in 0 .. 4 /\ Others(w)
      /\ pc'[w] = Call[recorded[p] + 1] /\ job'[w].order = p /\ job'[w].step = recorded[p] + 1
      /\ job'[w].sub = orderSub[p]
  BY BeginEffect
<1>2. UNCHANGED <<recorded, orderSub, sub, activation, credits, plans>>
  BY DEF Begin
<1>3. \A q \in Orders : mishaps[q] \subseteq mishaps'[q]
  BY MarkEffect DEF Begin, Mishap
<1>4. CASE o # p
  <2>1. ~WorksOn(w, o) /\ ~WorksOn(w, o)'
    BY <1>1, <1>4 DEF WorksOn
  <2>2. Untouched(o)
    BY <1>1, <1>2, <1>3, <2>1, OthersUntouched DEF Untouched, SubsOf
  <2>3. QED
    BY <2>2, UntouchedStays
<1>5. CASE o = p
  <2>1. \A v \in Workers : ~WorksOn(v, o)
    <3>1. CASE \E v \in Workers : job[v].order = o
      <4>1. Mark(o, "overlap")
        BY <1>5, <3>1 DEF Begin
      <4>2. QED
        BY <4>1, MarkEffect DEF Mishap
    <3>2. QED
      BY <3>1 DEF WorksOn
  <2>2. \A v \in Workers : WorksOn(v, o)' => v = w
    BY <1>1, <2>1 DEF Others, WorksOn
  <2>3. pc'[w] # "record"
    BY <1>1, CallIsPlace
  <2>4. \A k \in 1 .. 5 : Done(o, k)' <=> Done(o, k)
    BY <1>2, <2>1, <2>2, <2>3 DEF Done
  <2>5. Alone(o)'
    BY <1>1, <1>2, <1>5, <2>2 DEF Alone, WorksOn, TypeOK
  <2>6. Given(o)' /\ Orphans(o)'
    BY <1>2, <2>4 DEF Order, Given, Orphans, SubsOf
  <2>7. Once(o)'
    BY <1>2, <1>3, <2>1, <2>4 DEF Order, Once, SubsOf
  <2>8. QED
    BY <2>5, <2>6, <2>7 DEF Order
<1>6. QED
  BY <1>4, <1>5

LEMMA RecordOrder ==
  ASSUME TypeOK, JobsFit, RowsFit, NEW o \in Orders, Order(o), NEW w \in Workers, Record(w)
  PROVE  Order(o)'
<1> DEFINE k == job[w].step
           p == job[w].order
<1>1. /\ pc[w] = "record" /\ k \in 1 .. 5 /\ p \in Orders
      /\ recorded'[p] = IF recorded[p] < k THEN k ELSE recorded[p]
      /\ \A q \in Orders \ {p} : recorded'[q] = recorded[q]
      /\ Others(w)
      /\ k = 5 => pc'[w] = "idle"
      /\ k < 5 => /\ pc'[w] = Call[k + 1] /\ job'[w].step = k + 1
                  /\ job'[w].order = p /\ job'[w].sub = job[w].sub
  BY RecordEffect
<1>2. UNCHANGED <<orderSub, sub, activation, credits, plans, mishaps>>
  BY DEF Record
<1>3. CASE o # p
  <2>1. ~WorksOn(w, o) /\ ~WorksOn(w, o)'
    BY <1>1, <1>3 DEF WorksOn
  <2>2. Untouched(o)
    BY <1>1, <1>2, <1>3, <2>1, OthersUntouched DEF Untouched, SubsOf
  <2>3. QED
    BY <2>2, UntouchedStays
<1>4. CASE o = p
  <2>1. WorksOn(w, o) /\ Alone(o)
    BY <1>1, <1>4 DEF WorksOn, Order
  <2>2. /\ recorded[o] = k - 1 /\ job[w].sub = orderSub[o]
        /\ \A v \in Workers : (WorksOn(v, o) => v = w) /\ (WorksOn(v, o)' => v = w)
        /\ \A i \in 1 .. 5 : Done(o, i) <=> recorded[o] >= i \/ (pc[w] = "record" /\ k = i)
        /\ \A i \in 1 .. 5 :
             Done(o, i)' <=> recorded'[o] >= i \/ (WorksOn(w, o)' /\ pc'[w] = "record" /\ job'[w].step = i)
    BY <1>1, <2>1, OneRun
  <2>3. recorded'[o] = k
    BY <1>1, <1>4, <2>2
  <2>4. pc'[w] \notin {"record", "markActive"}
    <3>1. CASE k = 5
      BY <1>1, <3>1
    <3>2. CASE k < 5
      <4>1. k + 1 \in 1 .. 5
        BY <1>1, <3>2
      <4>2. QED
        BY <1>1, <3>2, <4>1, CallIsPlace
    <3>3. QED
      BY <1>1, <3>1, <3>2
  <2>5. \A i \in 1 .. 5 : Done(o, i)' <=> Done(o, i)
    BY <1>1, <2>2, <2>3, <2>4
  <2>6. Alone(o)'
    BY <1>1, <1>2, <1>4, <2>2, <2>3 DEF Alone, WorksOn
  <2>7. Given(o)' /\ Orphans(o)'
    BY <1>1, <1>2, <2>3, <2>5 DEF Order, Given, Orphans, SubsOf
  <2>8. \A v \in Workers : WorksOn(v, o) => pc[v] # "markActive"
    BY <1>1, <2>2
  <2>9. Once(o)'
    BY <1>2, <2>5, <2>8 DEF Order, Once, SubsOf
  <2>10. QED
    BY <2>6, <2>7, <2>9 DEF Order
<1>5. QED
  BY <1>3, <1>4

LEMMA CreateOrder ==
  ASSUME TypeOK, JobsFit, RowsFit, NEW o \in Orders, Order(o), NEW w \in Workers, Create(w)
  PROVE  Order(o)'
<1> DEFINE p == job[w].order
<1>1. PICK s \in Subs :
        /\ pc[w] = "create" /\ p \in Orders /\ NewSub(s)
        /\ sub'[s].order = p /\ sub'[s].status = "PENDING"
        /\ \A r \in Subs \ {s} : sub'[r] = sub[r]
        /\ orderSub'[p] = s
        /\ \A q \in Orders \ {p} : orderSub'[q] = orderSub[q]
        /\ Others(w) /\ pc'[w] = "record" /\ job'[w].order = p /\ job'[w].step = job[w].step
        /\ job'[w].sub = s
  BY CreateEffect
<1>2. UNCHANGED <<recorded, activation, credits, plans, mishaps>>
  BY DEF Create
<1>3. sub[s].order = NoOrder /\ credits[s] = 0 /\ plans[s] = 0
  BY <1>1 DEF RowsFit, NewSub
<1>4. CASE o # p
  <2>1. ~WorksOn(w, o) /\ ~WorksOn(w, o)'
    BY <1>1, <1>4 DEF WorksOn
  <2>2. SubsOf(o)' = SubsOf(o) /\ s \notin SubsOf(o)
    BY <1>1, <1>3, <1>4, ActivationAssumption DEF SubsOf
  <2>3. Untouched(o)
    BY <1>1, <1>2, <1>4, <2>1, <2>2, OthersUntouched DEF Untouched, SubsOf
  <2>4. QED
    BY <2>3, UntouchedStays
<1>5. CASE o = p
  <2>1. WorksOn(w, o) /\ Alone(o) /\ job[w].step = 1
    BY <1>1, <1>5 DEF WorksOn, Order, JobsFit, JobFits, AtStep
  <2>2. /\ recorded[o] = job[w].step - 1 /\ job[w].sub = orderSub[o]
        /\ \A v \in Workers : (WorksOn(v, o) => v = w) /\ (WorksOn(v, o)' => v = w)
        /\ \A i \in 1 .. 5 : Done(o, i) <=> recorded[o] >= i \/ (pc[w] = "record" /\ job[w].step = i)
        /\ \A i \in 1 .. 5 :
             Done(o, i)' <=> recorded'[o] >= i \/ (WorksOn(w, o)' /\ pc'[w] = "record" /\ job'[w].step = i)
    BY <1>1, <2>1, OneRun
  <2>3. recorded[o] = 0 /\ recorded'[o] = 0 /\ WorksOn(w, o)'
    BY <1>1, <1>2, <1>5, <2>1, <2>2 DEF WorksOn
  <2>4. Done(o, 1)' /\ ~Done(o, 1) /\ \A i \in 2 .. 5 : ~Done(o, i)'
    BY <1>1, <2>1, <2>2, <2>3
  <2>5. Alone(o)'
    BY <1>1, <1>5, <2>1, <2>2, <2>3 DEF Alone
  <2>6. Given(o)'
    BY <2>4 DEF Given
  <2>7. \A r \in SubsOf(o)' : credits'[r] = 0 /\ plans'[r] = 0 /\ sub'[r].status = "PENDING"
    <3>1. ASSUME NEW r \in SubsOf(o)', r # s PROVE credits'[r] = 0 /\ plans'[r] = 0 /\ sub'[r].status = "PENDING"
      <4>1. r \in SubsOf(o) /\ sub'[r] = sub[r]
        BY <1>1, <3>1 DEF SubsOf
      <4>2. credits[r] = 0 /\ plans[r] = 0 /\ sub[r].status = "PENDING"
        BY <2>3, <4>1, OrphansAreEmpty
      <4>3. QED
        BY <1>2, <4>1, <4>2
    <3>2. credits'[s] = 0 /\ plans'[s] = 0 /\ sub'[s].status = "PENDING"
      BY <1>1, <1>2, <1>3
    <3>3. QED
      BY <3>1, <3>2
  <2>8. Orphans(o)'
    BY <2>7 DEF Orphans
  <2>9. "SUBSCRIPTION" \notin mishaps'[o] => \A r \in SubsOf(o)' : r = orderSub'[o] /\ Done(o, 1)'
    BY <1>1, <1>2, <1>5, <2>4 DEF Order, Once, SubsOf
  <2>10. Once(o)'
    BY <2>7, <2>9 DEF Once
  <2>11. QED
    BY <2>5, <2>6, <2>8, <2>10 DEF Order
<1>6. QED
  BY <1>4, <1>5

(* The row that a run alone works on is its order's *)
LEMMA OwnRow ==
  ASSUME TypeOK, JobsFit, NEW o \in Orders, NEW w \in Workers, pc[w] \notin {"idle", "create"}
  PROVE  job[w].sub \in SubsOf(o) <=> job[w].order = o
BY DEF TypeOK, JobsFit, JobFits, SubsOf

LEMMA AttachOrder ==
  ASSUME TypeOK, JobsFit, RowsFit, NEW o \in Orders, Order(o), NEW w \in Workers, Attach(w)
  PROVE  Order(o)'
<1> DEFINE p == job[w].order
<1>1. /\ pc[w] = "attach" /\ p \in Orders /\ activation'[p] = job[w].sub
      /\ \A q \in Orders \ {p} : activation'[q] = activation[q]
      /\ Others(w) /\ pc'[w] = "record" /\ job'[w] = job[w]
  BY AttachEffect DEF MovesTo
<1>2. UNCHANGED <<recorded, orderSub, sub, credits, plans, mishaps>>
  BY DEF Attach
<1>3. CASE o # p
  <2>1. ~WorksOn(w, o) /\ ~WorksOn(w, o)'
    BY <1>1, <1>3 DEF WorksOn
  <2>2. Untouched(o)
    BY <1>1, <1>2, <1>3, <2>1, OthersUntouched DEF Untouched, SubsOf
  <2>3. QED
    BY <2>2, UntouchedStays
<1>4. CASE o = p
  <2>1. WorksOn(w, o) /\ WorksOn(w, o)' /\ Alone(o) /\ job[w].step = 2
    BY <1>1, <1>4 DEF WorksOn, Order, JobsFit, JobFits, AtStep
  <2>2. /\ recorded[o] = job[w].step - 1 /\ job[w].sub = orderSub[o]
        /\ \A v \in Workers : (WorksOn(v, o) => v = w) /\ (WorksOn(v, o)' => v = w)
        /\ \A i \in 1 .. 5 : Done(o, i) <=> recorded[o] >= i \/ (pc[w] = "record" /\ job[w].step = i)
        /\ \A i \in 1 .. 5 :
             Done(o, i)' <=> recorded'[o] >= i \/ (WorksOn(w, o)' /\ pc'[w] = "record" /\ job'[w].step = i)
    BY <1>1, <2>1, OneRun
  <2>3. \A i \in 1 .. 5 : Done(o, i)' <=> Done(o, i) \/ i = 2
    BY <1>1, <1>2, <2>1, <2>2
  <2>4. Alone(o)'
    BY <1>1, <1>2, <2>2 DEF Alone
  <2>5. Given(o)' /\ Orphans(o)'
    BY <1>1, <1>2, <1>4, <2>2, <2>3 DEF Order, Given, Orphans, SubsOf
  <2>6. \A v \in Workers : WorksOn(v, o) => pc[v] # "markActive"
    BY <1>1, <2>2
  <2>7. Once(o)'
    BY <1>2, <2>3, <2>6 DEF Order, Once, SubsOf
  <2>8. QED
    BY <2>4, <2>5, <2>7 DEF Order
<1>5. QED
  BY <1>3, <1>4

LEMMA CreditOrder ==
  ASSUME TypeOK, JobsFit, RowsFit, NEW o \in Orders, Order(o), NEW w \in Workers, Credit(w)
  PROVE  Order(o)'
<1> DEFINE p == job[w].order
           s == job[w].sub
<1>1. /\ pc[w] = "credit" /\ p \in Orders /\ s \in Subs /\ credits'[s] = credits[s] + 1
      /\ \A r \in Subs \ {s} : credits'[r] = credits[r]
      /\ Others(w) /\ pc'[w] = "record" /\ job'[w] = job[w]
  BY CreditEffect DEF MovesTo
<1>2. UNCHANGED <<recorded, orderSub, sub, activation, plans, mishaps>>
  BY DEF Credit
<1>3. s \in SubsOf(o) <=> p = o
  BY <1>1, OwnRow
<1>4. CASE o # p
  <2>1. ~WorksOn(w, o) /\ ~WorksOn(w, o)'
    BY <1>1, <1>4 DEF WorksOn
  <2>2. Untouched(o)
    BY <1>1, <1>2, <1>3, <1>4, <2>1, OthersUntouched DEF Untouched, SubsOf
  <2>3. QED
    BY <2>2, UntouchedStays
<1>5. CASE o = p
  <2>1. WorksOn(w, o) /\ WorksOn(w, o)' /\ Alone(o) /\ job[w].step = 3
    BY <1>1, <1>5 DEF WorksOn, Order, JobsFit, JobFits, AtStep
  <2>2. /\ recorded[o] = job[w].step - 1 /\ s = orderSub[o]
        /\ \A v \in Workers : (WorksOn(v, o) => v = w) /\ (WorksOn(v, o)' => v = w)
        /\ \A i \in 1 .. 5 : Done(o, i) <=> recorded[o] >= i \/ (pc[w] = "record" /\ job[w].step = i)
        /\ \A i \in 1 .. 5 :
             Done(o, i)' <=> recorded'[o] >= i \/ (WorksOn(w, o)' /\ pc'[w] = "record" /\ job'[w].step = i)
    BY <1>1, <2>1, OneRun
  <2>3. \A i \in 1 .. 5 : Done(o, i)' <=> Done(o, i) \/ i = 3
    BY <1>1, <1>2, <2>1, <2>2
  <2>4. Alone(o)'
    BY <1>1, <1>2, <2>2 DEF Alone
  <2>5. \A r \in Subs : credits[r] \in Nat
    BY DEF TypeOK
  <2>6. Given(o)'
    BY <1>1, <1>2, <2>2, <2>3, <2>5 DEF Order, Given
  <2>7. Orphans(o)'
    BY <1>1, <1>2, <2>1, <2>2 DEF Order, Orphans, SubsOf
  <2>8. "CREDITS" \notin mishaps'[o] => \A r \in SubsOf(o)' : credits'[r] <= 1 /\ (credits'[r] > 0 => Done(o, 3)')
    <3>1. ~Done(o, 3) /\ Done(o, 3)'
      BY <1>1, <2>1, <2>2, <2>3
    <3>2. "CREDITS" \notin mishaps[o] => \A r \in SubsOf(o) : credits[r] = 0
      BY <2>5, <3>1 DEF Order, Once, SubsOf
    <3>3. QED
      BY <1>1, <1>2, <3>1, <3>2 DEF SubsOf
  <2>9. \A v \in Workers : WorksOn(v, o) => pc[v] # "markActive"
    BY <1>1, <2>2
  <2>10. Once(o)'
    BY <1>2, <2>3, <2>8, <2>9 DEF Order, Once, SubsOf
  <2>11. QED
    BY <2>4, <2>6, <2>7, <2>10 DEF Order
<1>6. QED
  BY <1>4, <1>5

LEMMA ActivateOrder ==
  ASSUME TypeOK, JobsFit, RowsFit, NEW o \in Orders, Order(o), NEW w \in Workers, Activate(w)
  PROVE  Order(o)'
<1> DEFINE p == job[w].order
           s == job[w].sub
<1>1. /\ pc[w] = "activate" /\ p \in Orders /\ s \in Subs /\ plans'[s] = plans[s] + 1
      /\ \A r \in Subs \ {s} : plans'[r] = plans[r]
      /\ Others(w) /\ pc'[w] = "markActive" /\ job'[w] = job[w]
  BY ActivateEffect DEF MovesTo
<1>2. UNCHANGED <<recorded, orderSub, sub, activation, credits, mishaps>>
  BY DEF Activate
<1>3. s \in SubsOf(o) <=> p = o
  BY <1>1, OwnRow
<1>4. CASE o # p
  <2>1. ~WorksOn(w, o) /\ ~WorksOn(w, o)'
    BY <1>1, <1>4 DEF WorksOn
  <2>2. Untouched(o)
    BY <1>1, <1>2, <1>3, <1>4, <2>1, OthersUntouched DEF Untouched, SubsOf
  <2>3. QED
    BY <2>2, UntouchedStays
<1>5. CASE o = p
  <2>1. WorksOn(w, o) /\ WorksOn(w, o)' /\ Alone(o) /\ job[w].step = 4
    BY <1>1, <1>5 DEF WorksOn, Order, JobsFit, JobFits, AtStep
  <2>2. /\ recorded[o] = job[w].step - 1 /\ s = orderSub[o]
        /\ \A v \in Workers : (WorksOn(v, o) => v = w) /\ (WorksOn(v, o)' => v = w)
        /\ \A i \in 1 .. 5 : Done(o, i) <=> recorded[o] >= i \/ (pc[w] = "record" /\ job[w].step = i)
        /\ \A i \in 1 .. 5 :
             Done(o, i)' <=> recorded'[o] >= i \/ (WorksOn(w, o)' /\ pc'[w] = "record" /\ job'[w].step = i)
    BY <1>1, <2>1, OneRun
  <2>3. \A i \in 1 .. 5 : Done(o, i)' <=> Done(o, i)
    BY <1>1, <1>2, <2>1, <2>2
  <2>4. Alone(o)'
    BY <1>1, <1>2, <2>2 DEF Alone
  <2>5. \A r \in Subs : plans[r] \in Nat
    BY DEF TypeOK
  <2>6. ~Done(o, 4)
    BY <1>1, <2>1, <2>2
  <2>7. Given(o)'
    BY <1>2, <2>3, <2>6 DEF Order, Given
  <2>8. Orphans(o)'
    BY <1>1, <1>2, <2>1, <2>2 DEF Order, Orphans, SubsOf
  <2>9. "TELCO" \notin mishaps'[o] => \A r \in SubsOf(o)' : plans'[r] <= 1
    <3>1. \A v \in Workers : WorksOn(v, o) => pc[v] # "markActive"
      BY <1>1, <2>2
    <3>2. "TELCO" \notin mishaps[o] => \A r \in SubsOf(o) : plans[r] = 0
      BY <2>5, <2>6, <3>1 DEF Order, Once, SubsOf
    <3>3. QED
      BY <1>1, <1>2, <3>2 DEF SubsOf
  <2>10. Once(o)'
    BY <1>1, <1>2, <2>1, <2>3, <2>9 DEF Order, Once, SubsOf
  <2>11. QED
    BY <2>4, <2>7, <2>8, <2>10 DEF Order
<1>6. QED
  BY <1>4, <1>5

LEMMA MarkActiveOrder ==
  ASSUME TypeOK, JobsFit, RowsFit, NEW o \in Orders, Order(o), NEW w \in Workers, MarkActive(w)
  PROVE  Order(o)'
<1> DEFINE p == job[w].order
           s == job[w].sub
<1>1. /\ pc[w] = "markActive" /\ p \in Orders /\ s \in Subs
      /\ sub'[s].status = "ACTIVE" /\ sub'[s].order = sub[s].order
      /\ \A r \in Subs \ {s} : sub'[r] = sub[r]
      /\ Others(w) /\ pc'[w] = "record" /\ job'[w] = job[w]
  BY MarkActiveEffect DEF MovesTo
<1>2. UNCHANGED <<recorded, orderSub, activation, credits, plans, mishaps>>
  BY DEF MarkActive
<1>3. (s \in SubsOf(o) <=> p = o) /\ SubsOf(o)' = SubsOf(o) /\ plans[s] > 0
  BY <1>1, OwnRow DEF SubsOf, JobsFit, JobFits
<1>4. CASE o # p
  <2>1. ~WorksOn(w, o) /\ ~WorksOn(w, o)'
    BY <1>1, <1>4 DEF WorksOn
  <2>2. Untouched(o)
    BY <1>1, <1>2, <1>3, <1>4, <2>1, OthersUntouched DEF Untouched, SubsOf
  <2>3. QED
    BY <2>2, UntouchedStays
<1>5. CASE o = p
  <2>1. WorksOn(w, o) /\ WorksOn(w, o)' /\ Alone(o) /\ job[w].step = 4
    BY <1>1, <1>5 DEF WorksOn, Order, JobsFit, JobFits, AtStep
  <2>2. /\ recorded[o] = job[w].step - 1 /\ s = orderSub[o]
        /\ \A v \in Workers : (WorksOn(v, o) => v = w) /\ (WorksOn(v, o)' => v = w)
        /\ \A i \in 1 .. 5 : Done(o, i) <=> recorded[o] >= i \/ (pc[w] = "record" /\ job[w].step = i)
        /\ \A i \in 1 .. 5 :
             Done(o, i)' <=> recorded'[o] >= i \/ (WorksOn(w, o)' /\ pc'[w] = "record" /\ job'[w].step = i)
    BY <1>1, <2>1, OneRun
  <2>3. \A i \in 1 .. 5 : Done(o, i)' <=> Done(o, i) \/ i = 4
    BY <1>1, <1>2, <2>1, <2>2
  <2>4. Alone(o)'
    BY <1>1, <1>2, <2>2 DEF Alone
  <2>5. Given(o)'
    BY <1>1, <1>2, <1>3, <2>2, <2>3 DEF Order, Given
  <2>6. Orphans(o)'
    <3>1. ASSUME NEW r \in SubsOf(o), credits[r] > 0 \/ plans[r] > 0 \/ sub'[r].status # "PENDING"
          PROVE  r = orderSub[o] /\ recorded[o] >= 1
      <4>1. CASE r = s
        BY <2>1, <2>2, <4>1
      <4>2. CASE r # s
        BY <1>1, <3>1, <4>2 DEF Order, Orphans, SubsOf
      <4>3. QED
        BY <4>1, <4>2
    <3>2. QED
      BY <1>2, <1>3, <3>1 DEF Orphans
  <2>7. Once(o)'
    BY <1>2, <1>3, <2>3 DEF Order, Once
  <2>8. QED
    BY <2>4, <2>5, <2>6, <2>7 DEF Order
<1>6. QED
  BY <1>4, <1>5

LEMMA PayingOrder ==
  ASSUME TypeOK, JobsFit, RowsFit, NEW o \in Orders, Order(o), NEW w \in Workers, PayingStep(w)
  PROVE  Order(o)'
<1> DEFINE p == job[w].order
<1>1. /\ pc[w] \in {"lookup", "count", "transfer", "payout"} /\ p \in Orders /\ Others(w)
      /\ pc'[w] \in {"count", "transfer", "payout", "record"}
      /\ job'[w].order = job[w].order /\ job'[w].step = job[w].step /\ job'[w].sub = job[w].sub
      /\ mishaps[o] \subseteq mishaps'[o]
      /\ UNCHANGED <<recorded, orderSub, sub, activation, credits, plans>>
  BY PayingEffect
<1>2. CASE o # p
  <2>1. ~WorksOn(w, o) /\ ~WorksOn(w, o)'
    BY <1>1, <1>2 DEF WorksOn
  <2>2. Untouched(o)
    BY <1>1, <1>2, <2>1, OthersUntouched DEF Untouched, SubsOf
  <2>3. QED
    BY <2>2, UntouchedStays
<1>3. CASE o = p
  <2>1. WorksOn(w, o) /\ WorksOn(w, o)' /\ Alone(o) /\ job[w].step = 5
    BY <1>1, <1>3 DEF WorksOn, Order, JobsFit, JobFits, AtStep
  <2>2. /\ recorded[o] = job[w].step - 1 /\ job[w].sub = orderSub[o]
        /\ \A v \in Workers : (WorksOn(v, o) => v = w) /\ (WorksOn(v, o)' => v = w)
        /\ \A i \in 1 .. 5 : Done(o, i) <=> recorded[o] >= i \/ (pc[w] = "record" /\ job[w].step = i)
        /\ \A i \in 1 .. 5 :
             Done(o, i)' <=> recorded'[o] >= i \/ (WorksOn(w, o)' /\ pc'[w] = "record" /\ job'[w].step = i)
    BY <1>1, <2>1, OneRun
  <2>3. \A i \in 1 .. 4 : Done(o, i)' /\ Done(o, i)
    BY <1>1, <2>1, <2>2
  <2>4. Alone(o)'
    BY <1>1, <2>2 DEF Alone
  <2>5. Given(o)' /\ Orphans(o)'
    BY <1>1, <2>3 DEF Order, Given, Orphans, SubsOf
  <2>6. Once(o)'
    BY <1>1, <2>3 DEF Order, Once, SubsOf
  <2>7. QED
    BY <2>4, <2>5, <2>6 DEF Order
<1>4. QED
  BY <1>2, <1>3

LEMMA StopOrder ==
  ASSUME TypeOK, JobsFit, RowsFit, NEW o \in Orders, Order(o), NEW w \in Workers, Stop(w)
  PROVE  Order(o)'
<1> DEFINE p == job[w].order
<1>1. /\ pc[w] # "idle" /\ p \in Orders /\ Others(w) /\ pc'[w] = "idle"
      /\ mishaps[o] \subseteq mishaps'[o]
      /\ Unrecorded(w) => Steps[job[w].step] \in mishaps'[p]
      /\ UNCHANGED <<recorded, orderSub, sub, activation, credits, plans>>
  BY StopEffect
<1>2. CASE o # p
  <2>1. ~WorksOn(w, o) /\ ~WorksOn(w, o)'
    BY <1>1, <1>2 DEF WorksOn
  <2>2. Untouched(o)
    BY <1>1, <1>2, <2>1, OthersUntouched DEF Untouched, SubsOf
  <2>3. QED
    BY <2>2, UntouchedStays
<1>3. CASE o = p
  <2>1. WorksOn(w, o) /\ ~WorksOn(w, o)' /\ Alone(o)
    BY <1>1, <1>3 DEF WorksOn, Order
  <2>2. /\ \A v \in Workers : (WorksOn(v, o) => v = w) /\ (WorksOn(v, o)' => v = w)
        /\ \A i \in 1 .. 5 : Done(o, i) <=> recorded[o] >= i \/ (pc[w] = "record" /\ job[w].step = i)
        /\ \A i \in 1 .. 5 :
             Done(o, i)' <=> recorded'[o] >= i \/ (WorksOn(w, o)' /\ pc'[w] = "record" /\ job'[w].step = i)
    BY <1>1, <2>1, OneRun
  <2>3. \A i \in 1 .. 5 : Done(o, i)' => Done(o, i)
    BY <1>1, <2>1, <2>2
  <2>4. \A i \in 1 .. 4 : Done(o, i) => Done(o, i)' \/ Steps[i] \in mishaps'[o]
    <3>1. ASSUME NEW i \in 1 .. 4, pc[w] = "record", job[w].step = i PROVE Steps[i] \in mishaps'[o]
      <4>1. Steps[i] # "REWARDS"
        <5>1. i = 1 \/ i = 2 \/ i = 3 \/ i = 4
          OBVIOUS
        <5>2. QED
          BY <5>1, StepNames
      <4>2. QED
        BY <1>1, <1>3, <3>1, <4>1 DEF Unrecorded
    <3>2. QED
      BY <1>1, <2>1, <2>2, <3>1
  <2>5. Alone(o)'
    BY <2>1, <2>2 DEF Alone
  <2>6. Given(o)' /\ Orphans(o)'
    BY <1>1, <2>3 DEF Order, Given, Orphans, SubsOf
  <2>7. (\E v \in Workers : WorksOn(v, o) /\ pc[v] = "markActive") => "TELCO" \in mishaps'[o]
    <3>1. ASSUME pc[w] = "markActive" PROVE "TELCO" \in mishaps'[o]
      <4>1. job[w].step = 4
        BY <3>1 DEF JobsFit, JobFits, AtStep
      <4>2. QED
        BY <1>1, <1>3, <3>1, <4>1, StepNames DEF Unrecorded
    <3>2. QED
      BY <2>2, <3>1
  <2>8. Once(o)'
    <3>1. /\ "SUBSCRIPTION" \notin mishaps'[o] /\ Done(o, 1) => Done(o, 1)'
          /\ "CREDITS" \notin mishaps'[o] /\ Done(o, 3) => Done(o, 3)'
          /\ "TELCO" \notin mishaps'[o] /\ Done(o, 4) => Done(o, 4)'
      BY <2>4, StepNames
    <3>2. QED
      BY <1>1, <2>7, <3>1 DEF Order, Once, SubsOf
  <2>9. QED
    BY <2>5, <2>6, <2>8 DEF Order
<1>4. QED
  BY <1>2, <1>3

LEMMA OverOrder ==
  ASSUME TypeOK, JobsFit, RowsFit, NEW o \in Orders, Order(o), NEW s \in Subs, Over(s)
  PROVE  Order(o)'
<1>1. /\ sub[s].status = "ACTIVE" /\ sub'[s].status = "OVER" /\ sub'[s].order = sub[s].order
      /\ \A r \in Subs \ {s} : sub'[r] = sub[r]
      /\ UNCHANGED <<recorded, orderSub, activation, credits, plans, pc, job>>
  BY OverEffect DEF Over
<1>2. mishaps[o] \subseteq mishaps'[o]
  BY OverEffect
<1>3. SubsOf(o)' = SubsOf(o)
  BY <1>1 DEF SubsOf
<1>4. \A k \in 1 .. 5 : Done(o, k)' <=> Done(o, k)
  BY <1>1 DEF Done, WorksOn
<1>5. Alone(o)'
  BY <1>1 DEF Order, Alone, WorksOn
<1>6. Done(o, 4) => sub'[orderSub[o]].status \in {"ACTIVE", "OVER"}
  <2>1. CASE orderSub[o] \in Subs
    BY <1>1, <2>1 DEF Order, Given
  <2>2. ASSUME Done(o, 4) PROVE orderSub[o] \in Subs
    BY <2>2 DEF Done, JobsFit, JobFits, WorksOn, RowsFit, TypeOK
  <2>3. QED
    BY <2>1, <2>2
<1>7. Given(o)'
  BY <1>1, <1>4, <1>6 DEF Order, Given
<1>8. Orphans(o)'
  <2>1. ASSUME NEW r \in SubsOf(o), credits[r] > 0 \/ plans[r] > 0 \/ sub'[r].status # "PENDING"
        PROVE  r = orderSub[o] /\ recorded[o] >= 1
    <3>1. sub'[r].status # "PENDING" => sub[r].status # "PENDING"
      BY <1>1 DEF SubsOf
    <3>2. QED
      BY <2>1, <3>1 DEF Order, Orphans
  <2>2. QED
    BY <1>1, <1>3, <2>1 DEF Orphans
<1>9. Once(o)'
  BY <1>1, <1>2, <1>3, <1>4 DEF Order, Once, WorksOn
<1>10. QED
  BY <1>5, <1>7, <1>8, <1>9 DEF Order

LEMMA StillOrder ==
  ASSUME TypeOK, JobsFit, RowsFit, NEW o \in Orders, Order(o),
         UNCHANGED <<recorded, orderSub, sub, activation, credits, plans, pc, job, mishaps>>
  PROVE  Order(o)'
<1>1. Untouched(o)
  BY DEF Untouched, SubsOf, WorksOn
<1>2. QED
  BY <1>1, UntouchedStays

(* The history of an order is not forgotten *)
LEMMA MishapsGrow ==
  ASSUME TypeOK, RowsFit, [Next]_vars, NEW o \in Orders
  PROVE  mishaps[o] \subseteq mishaps'[o]
<1>1. ASSUME NEW w \in Workers, NEW p \in Orders, Begin(w, p) PROVE mishaps[o] \subseteq mishaps'[o]
  BY <1>1, MarkEffect DEF Begin, Mishap
<1>2. ASSUME NEW w \in Workers,
             Record(w) \/ Create(w) \/ Attach(w) \/ Credit(w) \/ Activate(w) \/ MarkActive(w)
      PROVE  mishaps' = mishaps
  BY <1>2 DEF Record, Create, Attach, Credit, Activate, MarkActive
<1>3. ASSUME NEW w \in Workers, PayingStep(w) PROVE mishaps[o] \subseteq mishaps'[o]
  BY <1>3, PayingEffect
<1>4. ASSUME NEW w \in Workers, Stop(w) PROVE mishaps[o] \subseteq mishaps'[o]
  BY <1>4, StopEffect
<1>5. ASSUME NEW s \in Subs, Over(s) PROVE mishaps[o] \subseteq mishaps'[o]
  BY <1>5, OverEffect
<1>6. CASE SetUpWallet \/ UNCHANGED vars
  BY <1>6 DEF SetUpWallet, vars
<1>7. QED
  BY <1>1, <1>2, <1>3, <1>4, <1>5, <1>6 DEF Next, Run, PayingStep

LEMMA NextInTurn ==
  ASSUME TypeOK, JobsFit, RowsFit, InTurn, [Next]_vars
  PROVE  InTurn'
<1> SUFFICES ASSUME NEW o \in Orders, "overlap" \notin mishaps'[o] PROVE Order(o)'
  BY DEF InTurn, Order
<1>1. Order(o)
  BY MishapsGrow DEF InTurn, Order
<1>2. ASSUME NEW w \in Workers, NEW p \in Orders, Begin(w, p) PROVE Order(o)'
  BY <1>1, <1>2, BeginOrder
<1>3. ASSUME NEW w \in Workers, Run(w) PROVE Order(o)'
  BY <1>1, <1>3, RecordOrder, CreateOrder, AttachOrder, CreditOrder, ActivateOrder, MarkActiveOrder,
     PayingOrder DEF Run, PayingStep
<1>4. ASSUME NEW w \in Workers, Stop(w) PROVE Order(o)'
  BY <1>1, <1>4, StopOrder
<1>5. ASSUME NEW s \in Subs, Over(s) PROVE Order(o)'
  BY <1>1, <1>5, OverOrder
<1>6. CASE SetUpWallet
  BY <1>1, <1>6, StillOrder DEF SetUpWallet
<1>7. CASE UNCHANGED vars
  BY <1>1, <1>7, StillOrder DEF vars
<1>8. QED
  BY <1>2, <1>3, <1>4, <1>5, <1>6, <1>7 DEF Next

-----------------------------------------------------------------------------
(* What an order may claim of the reward *)
LEMMA EverStays ==
  ASSUME TypeOK, RowsFit, [Next]_vars, NEW e, Ever(e)
  PROVE  Ever(e)'
<1>1. PICK o \in Orders : e \in mishaps[o]
  BY DEF Ever
<1>2. e \in mishaps'[o]
  BY <1>1, MishapsGrow
<1>3. QED
  BY <1>2 DEF Ever

LEMMA FiniteRows ==
  ASSUME TypeOK
  PROVE  IsFiniteSet(Active) /\ IsFiniteSet(Planned) /\ Cardinality(Active) \in Nat
<1>1. IsFiniteSet(Subs)
  BY ActivationAssumption, FS_Interval DEF Subs
<1>2. Active \in SUBSET Subs /\ Planned \in SUBSET Subs
  BY DEF Active, Planned
<1>3. IsFiniteSet(Active) /\ IsFiniteSet(Planned)
  BY <1>1, <1>2, FS_Subset
<1>4. QED
  BY <1>3, FS_CardinalityType

(* An active subscription stays so until it is cancelled *)
LEMMA ActiveStays ==
  ASSUME TypeOK, JobsFit, RowsFit, [Next]_vars, Active # {}
  PROVE  Active' # {} \/ Ever("over")'
<1>1. PICK s \in Subs : sub[s].status = "ACTIVE"
  BY DEF Active
<1>2. ASSUME sub'[s].status = "ACTIVE" PROVE Active' # {}
  BY <1>2 DEF Active
<1>3. ASSUME UNCHANGED sub PROVE Active' # {}
  BY <1>1, <1>2, <1>3
<1>4. ASSUME NEW w \in Workers, NEW o \in Orders, Begin(w, o) PROVE Active' # {}
  BY <1>3, <1>4 DEF Begin
<1>5. ASSUME NEW w \in Workers, Record(w) \/ Attach(w) \/ Credit(w) \/ Activate(w) \/ Stop(w)
      PROVE  Active' # {}
  BY <1>3, <1>5 DEF Record, Attach, Credit, Activate, Stop
<1>6. ASSUME NEW w \in Workers, PayingStep(w) PROVE Active' # {}
  BY <1>3, <1>6, PayingEffect
<1>7. ASSUME NEW w \in Workers, Create(w) PROVE Active' # {}
  <2>1. PICK r \in Subs : NewSub(r) /\ \A q \in Subs \ {r} : sub'[q] = sub[q]
    BY <1>7, CreateEffect
  <2>2. QED
    BY <1>1, <1>2, <2>1 DEF NewSub
<1>8. ASSUME NEW w \in Workers, MarkActive(w) PROVE Active' # {}
  BY <1>1, <1>2, <1>8, MarkActiveEffect
<1>9. ASSUME NEW r \in Subs, Over(r) PROVE Ever("over")'
  <2>1. sub[r].order \in Orders /\ "over" \in mishaps'[sub[r].order]
    BY <1>9, OverEffect
  <2>2. QED
    BY <2>1 DEF Ever
<1>10. CASE SetUpWallet \/ UNCHANGED vars
  BY <1>3, <1>10 DEF SetUpWallet, vars
<1>11. QED
  BY <1>4, <1>5, <1>6, <1>7, <1>8, <1>9, <1>10 DEF Next, Run, PayingStep

TelcoDone == (\E o \in Orders : recorded[o] >= 4) \/ \E w \in Workers : AfterTelco(w)

(* Nothing is beyond the step TELCO without a subscription made active *)
LEMMA TelcoBefore ==
  ASSUME TypeOK, JobsFit, RowsFit, [Next]_vars, TelcoDone'
  PROVE  TelcoDone \/ Active' # {}
<1> DEFINE Goal == TelcoDone \/ Active' # {}
<1>1. ASSUME NEW w \in Workers, Others(w), UNCHANGED recorded, ~AfterTelco(w)' PROVE TelcoDone
  <2>1. CASE \E o \in Orders : recorded'[o] >= 4
    BY <1>1, <2>1 DEF TelcoDone
  <2>2. CASE \E v \in Workers : AfterTelco(v)'
    BY <1>1, <2>2 DEF TelcoDone, AfterTelco, Others
  <2>3. QED
    BY <2>1, <2>2 DEF TelcoDone
<1>2. ASSUME UNCHANGED <<recorded, pc, job>> PROVE TelcoDone
  BY <1>2 DEF TelcoDone, AfterTelco
<1>3. ASSUME NEW w \in Workers, NEW o \in Orders, Begin(w, o) PROVE TelcoDone
  <2>1. /\ recorded[o] \in 0 .. 4 /\ Others(w) /\ pc'[w] = Call[recorded[o] + 1]
        /\ UNCHANGED recorded
    BY <1>3, BeginEffect DEF Begin
  <2>2. recorded[o] + 1 \in 1 .. 5
    BY <2>1
  <2>3. AfterTelco(w)' => recorded[o] + 1 = 5
    BY <2>1, <2>2, CallIsPlace DEF AfterTelco
  <2>4. CASE AfterTelco(w)'
    BY <2>1, <2>3, <2>4 DEF TelcoDone
  <2>5. CASE ~AfterTelco(w)'
    BY <1>1, <2>1, <2>5
  <2>6. QED
    BY <2>4, <2>5
<1>4. ASSUME NEW w \in Workers, Record(w) PROVE TelcoDone
  <2> DEFINE k == job[w].step
  <2>1. /\ pc[w] = "record" /\ k \in 1 .. 5 /\ job[w].order \in Orders
        /\ recorded'[job[w].order] = IF recorded[job[w].order] < k THEN k ELSE recorded[job[w].order]
        /\ \A o \in Orders \ {job[w].order} : recorded'[o] = recorded[o]
        /\ Others(w)
        /\ k = 5 => pc'[w] = "idle"
        /\ k < 5 => pc'[w] = Call[k + 1]
    BY <1>4, RecordEffect
  <2>2. CASE k >= 4
    BY <2>1, <2>2 DEF TelcoDone, AfterTelco
  <2>3. CASE k < 4
    <3>1. k + 1 \in 1 .. 5 /\ k + 1 # 5
      BY <2>1, <2>3
    <3>2. ~AfterTelco(w)'
      BY <2>1, <2>3, <3>1, CallIsPlace DEF AfterTelco
    <3>3. CASE \E o \in Orders : recorded'[o] >= 4
      <4>1. PICK o \in Orders : recorded'[o] >= 4
        BY <3>3
      <4>2. recorded[o] >= 4
        <5>1. CASE o = job[w].order
          BY <2>1, <2>3, <4>1, <5>1
        <5>2. CASE o # job[w].order
          BY <2>1, <4>1, <5>2
        <5>3. QED
          BY <5>1, <5>2
      <4>3. QED
        BY <4>2 DEF TelcoDone
    <3>4. CASE \E v \in Workers : AfterTelco(v)'
      BY <2>1, <3>2, <3>4 DEF TelcoDone, AfterTelco, Others
    <3>5. QED
      BY <3>3, <3>4 DEF TelcoDone
  <2>4. QED
    BY <2>1, <2>2, <2>3
<1>5. ASSUME NEW w \in Workers, Create(w) PROVE TelcoDone
  <2>1. job[w].step = 1
    BY <1>5 DEF Create, JobsFit, JobFits, AtStep
  <2>2. Others(w) /\ pc'[w] = "record" /\ job'[w].step = 1 /\ UNCHANGED recorded
    BY <1>5, <2>1, CreateEffect DEF Create
  <2>3. QED
    BY <1>1, <2>2 DEF AfterTelco
<1>6. ASSUME NEW w \in Workers, Attach(w) \/ Credit(w) PROVE TelcoDone
  <2>1. pc[w] \in {"attach", "credit"} /\ Others(w) /\ pc'[w] = "record" /\ job'[w] = job[w]
    BY <1>6, AttachEffect, CreditEffect DEF MovesTo
  <2>2. job[w].step \in {2, 3}
    BY <2>1 DEF JobsFit, JobFits, AtStep
  <2>3. UNCHANGED recorded
    BY <1>6 DEF Attach, Credit
  <2>4. QED
    BY <1>1, <2>1, <2>2, <2>3 DEF AfterTelco
<1>7. ASSUME NEW w \in Workers, Activate(w) PROVE TelcoDone
  <2>1. Others(w) /\ pc'[w] = "markActive" /\ UNCHANGED recorded
    BY <1>7, ActivateEffect DEF MovesTo, Activate
  <2>2. QED
    BY <1>1, <2>1 DEF AfterTelco
<1>8. ASSUME NEW w \in Workers, MarkActive(w) PROVE Active' # {}
  BY <1>8, MarkActiveEffect DEF Active
<1>9. ASSUME NEW w \in Workers, PayingStep(w) PROVE TelcoDone
  BY <1>9, PayingEffect DEF TelcoDone, AfterTelco
<1>10. ASSUME NEW w \in Workers, Stop(w) PROVE TelcoDone
  BY <1>1, <1>10, StopEffect DEF AfterTelco
<1>11. ASSUME NEW s \in Subs, Over(s) PROVE TelcoDone
  BY <1>2, <1>11 DEF Over
<1>12. CASE SetUpWallet \/ UNCHANGED vars
  BY <1>2, <1>12 DEF SetUpWallet, vars
<1>13. QED
  BY <1>3, <1>4, <1>5, <1>6, <1>7, <1>8, <1>9, <1>10, <1>11, <1>12 DEF Next, Run, PayingStep

LEMMA PlannedGrows ==
  ASSUME TypeOK, JobsFit, RowsFit, [Next]_vars, Cardinality(Planned) > 1
  PROVE  Cardinality(Planned') > 1
<1>1. RowsKept
  BY RowsStay
<1>2. Planned \in SUBSET Planned'
  BY <1>1 DEF RowsKept, Planned
<1>3. IsFiniteSet(Planned')
  <2>1. IsFiniteSet(Subs)
    BY ActivationAssumption, FS_Interval DEF Subs
  <2>2. Planned' \in SUBSET Subs
    BY DEF Planned
  <2>3. QED
    BY <2>1, <2>2, FS_Subset
<1>4. Cardinality(Planned) <= Cardinality(Planned') /\ Cardinality(Planned') \in Nat
  BY <1>2, <1>3, FS_Subset, FS_CardinalityType
<1>5. Cardinality(Planned) \in Nat
  BY FiniteRows, FS_CardinalityType
<1>6. QED
  BY <1>4, <1>5

LEMMA NextEarned ==
  ASSUME TypeOK, JobsFit, RowsFit, Earned, [Next]_vars
  PROVE  Earned'
<1>1. ~Ever("over")' => /\ \A o \in Orders : recorded'[o] >= 4 => Active' # {}
                        /\ \A w \in Workers : AfterTelco(w)' => Active' # {}
  <2>1. ASSUME ~Ever("over")', TelcoDone' PROVE Active' # {}
    <3>1. ~Ever("over")
      BY <2>1, EverStays
    <3>2. CASE TelcoDone
      <4>1. Active # {}
        BY <3>1, <3>2 DEF Earned, TelcoDone
      <4>2. QED
        BY <2>1, <4>1, ActiveStays
    <3>3. QED
      BY <2>1, <3>2, TelcoBefore
  <2>2. QED
    BY <2>1 DEF TelcoDone
<1> DEFINE Paid(f) == /\ f = "none" => Ever("over")
                      /\ f = "multi" => Cardinality(Planned) > 1
<1>2. ASSUME NEW f, Paid(f)
      PROVE  /\ f = "none" => Ever("over")'
             /\ f = "multi" => Cardinality(Planned') > 1
  BY <1>2, EverStays, PlannedGrows
<1>3. ASSUME NEW w \in Workers, pc[w] \in {"transfer", "payout"} PROVE Paid(job[w].factor)
  BY <1>3 DEF Earned
<1>4. ASSUME NEW w \in Workers, Count(w) PROVE Paid(job'[w].factor)
  <2>1. pc[w] = "count" /\ job'[w].factor = Factor(Cardinality(Active))
    BY <1>4, CountEffect
  <2>2. Active # {} \/ Ever("over")
    BY <2>1 DEF Earned, AfterTelco
  <2>3. /\ IsFiniteSet(Active) /\ IsFiniteSet(Planned) /\ Cardinality(Active) \in Nat
    BY FiniteRows
  <2>4. Active \in SUBSET Planned
    BY DEF Active, Planned, RowsFit
  <2>5. Cardinality(Active) <= Cardinality(Planned) /\ Cardinality(Planned) \in Nat
    BY <2>3, <2>4, FS_Subset, FS_CardinalityType
  <2>6. job'[w].factor = "none" => Cardinality(Active) = 0
    BY <2>1 DEF Factor
  <2>7. job'[w].factor = "multi" => Cardinality(Active) > 1
    BY <2>1, <2>3 DEF Factor
  <2>8. Cardinality(Active) = 0 => Active = {}
    BY <2>3, FS_EmptySet
  <2>9. QED
    BY <2>2, <2>3, <2>5, <2>6, <2>7, <2>8
<1>5. ASSUME NEW w \in Workers, pc'[w] \in {"transfer", "payout"} PROVE Paid(job'[w].factor)
  <2>1. CASE pc'[w] = pc[w] /\ job'[w] = job[w]
    BY <1>3, <1>5, <2>1
  <2>2. ASSUME NEW v \in Workers, NEW o \in Orders, Begin(v, o), pc'[v] \in {"transfer", "payout"} PROVE FALSE
    <3>1. recorded[o] \in 0 .. 4 /\ pc'[v] = Call[recorded[o] + 1]
      BY <2>2, BeginEffect
    <3>2. recorded[o] + 1 \in 1 .. 5
      BY <3>1
    <3>3. QED
      BY <2>2, <3>1, <3>2, CallIsPlace
  <2>3. ASSUME NEW v \in Workers, Record(v), pc'[v] \in {"transfer", "payout"} PROVE FALSE
    <3>1. /\ job[v].step \in 1 .. 5 /\ (job[v].step = 5 => pc'[v] = "idle")
          /\ job[v].step < 5 => pc'[v] = Call[job[v].step + 1]
      BY <2>3, RecordEffect
    <3>2. job[v].step < 5 /\ job[v].step + 1 \in 1 .. 5
      BY <2>3, <3>1
    <3>3. QED
      BY <2>3, <3>1, <3>2, CallIsPlace
  <2>4. ASSUME NEW v \in Workers, Others(v), pc'[v] \notin {"transfer", "payout"} PROVE Paid(job'[w].factor)
    <3>1. v # w
      BY <1>5, <2>4
    <3>2. QED
      BY <2>1, <2>4, <3>1 DEF Others
  <2>5. ASSUME NEW v \in Workers, NEW o \in Orders, Begin(v, o) PROVE Paid(job'[w].factor)
    BY <2>2, <2>4, <2>5, BeginEffect
  <2>6. ASSUME NEW v \in Workers, Record(v) PROVE Paid(job'[w].factor)
    BY <2>3, <2>4, <2>6, RecordEffect
  <2>7. ASSUME NEW v \in Workers, Create(v) PROVE Paid(job'[w].factor)
    <3>1. Others(v) /\ pc'[v] = "record"
      BY <2>7, CreateEffect
    <3>2. QED
      BY <2>4, <3>1
  <2>8. ASSUME NEW v \in Workers, Attach(v) \/ Credit(v) \/ Activate(v) \/ MarkActive(v)
        PROVE  Paid(job'[w].factor)
    <3>1. Others(v) /\ pc'[v] \in {"record", "markActive"}
      BY <2>8, AttachEffect, CreditEffect, ActivateEffect, MarkActiveEffect DEF MovesTo
    <3>2. QED
      BY <2>4, <3>1
  <2>9. ASSUME NEW v \in Workers, Lookup(v) \/ Payout(v) PROVE Paid(job'[w].factor)
    <3>1. Others(v)
      BY <2>9, PayingEffect DEF PayingStep
    <3>2. pc'[v] \in {"record", "count"}
      BY <2>9 DEF Lookup, Payout, Goto, TypeOK
    <3>3. QED
      BY <2>4, <3>1, <3>2
  <2>10. ASSUME NEW v \in Workers, Count(v) PROVE Paid(job'[w].factor)
    <3>1. CASE w = v
      BY <1>4, <2>10, <3>1
    <3>2. CASE w # v
      BY <2>1, <2>10, <3>2, CountEffect DEF Others
    <3>3. QED
      BY <3>1, <3>2
  <2>11. ASSUME NEW v \in Workers, Transfer(v) PROVE Paid(job'[w].factor)
    <3>1. CASE w = v
      <4>1. pc[w] = "transfer" /\ job'[w] = job[w]
        BY <2>11, <3>1 DEF Transfer
      <4>2. QED
        BY <1>3, <4>1
    <3>2. CASE w # v
      BY <2>1, <2>11, <3>2, PayingEffect DEF PayingStep, Others
    <3>3. QED
      BY <3>1, <3>2
  <2>12. ASSUME NEW v \in Workers, Stop(v) PROVE Paid(job'[w].factor)
    <3>1. Others(v) /\ pc'[v] = "idle"
      BY <2>12, StopEffect
    <3>2. QED
      BY <2>4, <3>1
  <2>13. ASSUME NEW s \in Subs, Over(s) PROVE Paid(job'[w].factor)
    BY <2>1, <2>13 DEF Over
  <2>14. CASE SetUpWallet \/ UNCHANGED vars
    BY <2>1, <2>14 DEF SetUpWallet, vars
  <2>15. QED
    BY <2>5, <2>6, <2>7, <2>8, <2>9, <2>10, <2>11, <2>12, <2>13, <2>14 DEF Next, Run
<1>6. \A w \in Workers : pc'[w] \in {"transfer", "payout"} =>
        /\ job'[w].factor = "none" => Ever("over")'
        /\ job'[w].factor = "multi" => Cardinality(Planned') > 1
  BY <1>2, <1>5
<1>7. RewardIsEarned'
  <2>1. \A f \in {"none", "multi"} : payouts[f] > 0 => Paid(f)
    BY DEF Earned, RewardIsEarned, Planned
  <2>2. \A f \in {"none", "multi"} : payouts'[f] > 0 => Paid(f)
    <3>1. CASE UNCHANGED payouts
      BY <2>1, <3>1
    <3>2. ASSUME NEW w \in Workers, Payout(w) PROVE \A f \in {"none", "multi"} : payouts'[f] > 0 => Paid(f)
      <4>1. Paid(job[w].factor)
        BY <1>3, <3>2 DEF Payout
      <4>2. \A f \in {"none", "multi"} : f # job[w].factor => payouts'[f] = payouts[f]
        BY <3>2 DEF Payout, TypeOK, Factors
      <4>3. QED
        BY <2>1, <4>1, <4>2
    <3>3. ASSUME NEW w \in Workers, NEW o \in Orders, Begin(w, o) PROVE UNCHANGED payouts
      BY <3>3 DEF Begin
    <3>4. ASSUME NEW w \in Workers, Record(w) \/ Create(w) \/ Attach(w) \/ Credit(w) \/ Activate(w)
                                      \/ MarkActive(w) \/ Lookup(w) \/ Count(w) \/ Transfer(w) \/ Stop(w)
          PROVE  UNCHANGED payouts
      BY <3>4 DEF Record, Create, Attach, Credit, Activate, MarkActive, Lookup, Count, Transfer, Stop
    <3>5. ASSUME NEW s \in Subs, Over(s) PROVE UNCHANGED payouts
      BY <3>5 DEF Over
    <3>6. CASE SetUpWallet \/ UNCHANGED vars
      BY <3>1, <3>6 DEF SetUpWallet, vars
    <3>7. QED
      BY <3>1, <3>2, <3>3, <3>4, <3>5, <3>6 DEF Next, Run
  <2>3. (payouts'["none"] > 0 => Ever("over")') /\ (payouts'["multi"] > 0 => Cardinality(Planned') > 1)
    BY <1>2, <2>2
  <2>4. QED
    BY <2>3 DEF RewardIsEarned, Planned
<1>8. QED
  BY <1>1, <1>6, <1>7 DEF Earned

-----------------------------------------------------------------------------
(* The steps outside REWARDS leave the payers and what they have paid *)
SamePayers == /\ Payers' = Payers /\ Payees' = Payees /\ UNCHANGED <<transfers, payouts>>

LEMMA PayersStep ==
  ASSUME TypeOK, JobsFit, RowsFit, [Next]_vars
  PROVE  \/ SamePayers
         \/ \E w \in Workers : Lookup(w) \/ Transfer(w) \/ Payout(w) \/ Stop(w)
<1>1. ASSUME NEW w \in Workers, Others(w),
             pc[w] \in {"count", "transfer", "payout"} <=> pc'[w] \in {"count", "transfer", "payout"},
             pc[w] = "payout" <=> pc'[w] = "payout"
      PROVE  Payers' = Payers /\ Payees' = Payees
  <2>1. \A v \in Workers : /\ v \in Payers' <=> v \in Payers
                           /\ v \in Payees' <=> v \in Payees
    BY <1>1 DEF Payers, Payees, Others
  <2>2. QED
    BY <2>1 DEF Payers, Payees
<1>2. ASSUME NEW w \in Workers, NEW o \in Orders, Begin(w, o) PROVE SamePayers
  <2>1. pc[w] = "idle" /\ Others(w) /\ recorded[o] \in 0 .. 4 /\ pc'[w] = Call[recorded[o] + 1]
    BY <1>2, BeginEffect
  <2>2. recorded[o] + 1 \in 1 .. 5
    BY <2>1
  <2>3. pc'[w] \notin {"count", "transfer", "payout"}
    BY <2>1, <2>2, CallIsPlace
  <2>4. UNCHANGED <<transfers, payouts>>
    BY <1>2 DEF Begin
  <2>5. QED
    BY <1>1, <2>1, <2>3, <2>4 DEF SamePayers
<1>3. ASSUME NEW w \in Workers, Record(w) PROVE SamePayers
  <2>1. /\ pc[w] = "record" /\ job[w].step \in 1 .. 5 /\ Others(w)
        /\ job[w].step = 5 => pc'[w] = "idle"
        /\ job[w].step < 5 => pc'[w] = Call[job[w].step + 1]
    BY <1>3, RecordEffect
  <2>2. pc'[w] \notin {"count", "transfer", "payout"}
    <3>1. CASE job[w].step = 5
      BY <2>1, <3>1
    <3>2. CASE job[w].step < 5
      <4>1. job[w].step + 1 \in 1 .. 5
        BY <2>1, <3>2
      <4>2. QED
        BY <2>1, <3>2, <4>1, CallIsPlace
    <3>3. QED
      BY <2>1, <3>1, <3>2
  <2>3. UNCHANGED <<transfers, payouts>>
    BY <1>3 DEF Record
  <2>4. QED
    BY <1>1, <2>1, <2>2, <2>3 DEF SamePayers
<1>4. ASSUME NEW w \in Workers, Create(w) PROVE SamePayers
  <2>1. pc[w] = "create" /\ Others(w) /\ pc'[w] = "record"
    BY <1>4, CreateEffect
  <2>2. UNCHANGED <<transfers, payouts>>
    BY <1>4 DEF Create
  <2>3. QED
    BY <1>1, <2>1, <2>2 DEF SamePayers
<1>5. ASSUME NEW w \in Workers, Attach(w) \/ Credit(w) \/ Activate(w) \/ MarkActive(w) PROVE SamePayers
  <2>1. /\ pc[w] \in {"attach", "credit", "activate", "markActive"} /\ Others(w)
        /\ pc'[w] \in {"record", "markActive"}
    BY <1>5, AttachEffect, CreditEffect, ActivateEffect, MarkActiveEffect DEF MovesTo
  <2>2. UNCHANGED <<transfers, payouts>>
    BY <1>5 DEF Attach, Credit, Activate, MarkActive
  <2>3. QED
    BY <1>1, <2>1, <2>2 DEF SamePayers
<1>6. ASSUME NEW w \in Workers, Count(w) PROVE SamePayers
  <2>1. pc[w] = "count" /\ Others(w) /\ pc'[w] = "transfer"
    BY <1>6, CountEffect
  <2>2. UNCHANGED <<transfers, payouts>>
    BY <1>6 DEF Count
  <2>3. QED
    BY <1>1, <2>1, <2>2 DEF SamePayers
<1>7. ASSUME UNCHANGED <<pc, transfers, payouts>> PROVE SamePayers
  BY <1>7 DEF SamePayers, Payers, Payees
<1>8. ASSUME NEW s \in Subs, Over(s) PROVE SamePayers
  BY <1>7, <1>8 DEF Over
<1>9. CASE SetUpWallet \/ UNCHANGED vars
  BY <1>7, <1>9 DEF SetUpWallet, vars
<1>10. QED
  BY <1>2, <1>3, <1>4, <1>5, <1>6, <1>8, <1>9 DEF Next, Run

(* ... and those of REWARDS, one by one *)
LEMMA RowsType == TypeOK => Rows \in Nat /\ (PaidOut <=> Rows > 0)
<1> SUFFICES ASSUME TypeOK PROVE Rows \in Nat /\ (PaidOut <=> Rows > 0)
  OBVIOUS
<1>1. payouts["none"] \in Nat /\ payouts["single"] \in Nat /\ payouts["multi"] \in Nat
  BY DEF TypeOK, Factors
<1>2. QED
  BY <1>1 DEF Rows, PaidOut, Factors

LEMMA LookupEffect ==
  ASSUME TypeOK, NEW w \in Workers, Lookup(w)
  PROVE  /\ UNCHANGED <<transfers, payouts>> /\ Payees' = Payees
         /\ \/ Payers' = Payers
            \/ /\ Rows = 0 /\ Payers' = Payers \cup {w}
               /\ Payers = {} \/ Ever("raced")'
<1>1. /\ pc[w] = "lookup" /\ job[w].order \in Orders /\ job' = job
      /\ Goto(w, IF PaidOut THEN "record" ELSE "count")
      /\ UNCHANGED <<transfers, payouts>>
  BY DEF Lookup, TypeOK
<1>2. Others(w) /\ pc'[w] = IF PaidOut THEN "record" ELSE "count"
  BY <1>1, MoveEffect DEF Place
<1>3. Payees' = Payees
  BY <1>1, <1>2 DEF Payees, Others
<1>4. CASE PaidOut
  <2>1. Payers' = Payers
    BY <1>1, <1>2, <1>4 DEF Payers, Others
  <2>2. QED
    BY <1>1, <1>3, <2>1
<1>5. CASE ~PaidOut
  <2>1. Payers' = Payers \cup {w}
    BY <1>1, <1>2, <1>5 DEF Payers, Others
  <2>2. Rows = 0
    BY <1>5, RowsType
  <2>3. CASE Paying(w)
    <3>1. "raced" \in mishaps'[job[w].order]
      BY <1>1, <1>5, <2>3, MarkEffect DEF Lookup, Mishap
    <3>2. QED
      BY <1>1, <1>3, <2>1, <2>2, <3>1 DEF Ever
  <2>4. CASE ~Paying(w)
    <3>1. Payers = {}
      BY <1>1, <2>4 DEF Paying, Payers
    <3>2. QED
      BY <1>1, <1>3, <2>1, <2>2, <3>1
  <2>5. QED
    BY <2>3, <2>4
<1>6. QED
  BY <1>4, <1>5

LEMMA TransferEffect ==
  ASSUME TypeOK, NEW w \in Workers, Transfer(w)
  PROVE  /\ payouts' = payouts /\ Payers' = Payers /\ Payees' = Payees \cup {w}
         /\ w \in Payers /\ w \notin Payees
         /\ transfers' \in {transfers, transfers + 1}
         /\ transfers' = transfers + 1 \/ Ever("noWallet")'
<1>1. /\ pc[w] = "transfer" /\ job[w].order \in Orders /\ job' = job
      /\ Goto(w, "payout") /\ payouts' = payouts
      /\ transfers' = IF wallet THEN transfers + 1 ELSE transfers
      /\ ~wallet => Mark(job[w].order, "noWallet")
  BY DEF Transfer, TypeOK
<1>2. Others(w) /\ pc'[w] = "payout"
  BY <1>1, MoveEffect DEF Place
<1>3. Payers' = Payers /\ Payees' = Payees \cup {w} /\ w \in Payers /\ w \notin Payees
  BY <1>1, <1>2 DEF Payers, Payees, Others
<1>4. ~wallet => Ever("noWallet")'
  BY <1>1, MarkEffect DEF Mishap, Ever
<1>5. QED
  BY <1>1, <1>3, <1>4

LEMMA PayoutEffect ==
  ASSUME TypeOK, NEW w \in Workers, Payout(w)
  PROVE  /\ transfers' = transfers /\ Payers' = Payers \ {w} /\ Payees' = Payees \ {w}
         /\ w \in Payers /\ w \in Payees /\ Rows' = Rows + 1
<1>1. /\ pc[w] = "payout" /\ job' = job /\ Goto(w, "record") /\ transfers' = transfers
      /\ payouts' = [payouts EXCEPT ![job[w].factor] = @ + 1]
  BY DEF Payout
<1>2. Others(w) /\ pc'[w] = "record"
  BY <1>1, MoveEffect DEF Place
<1>3. Payers' = Payers \ {w} /\ Payees' = Payees \ {w} /\ w \in Payers /\ w \in Payees
  BY <1>1, <1>2 DEF Payers, Payees, Others
<1>4. /\ payouts["none"] \in Nat /\ payouts["single"] \in Nat /\ payouts["multi"] \in Nat
      /\ job[w].factor \in Factors
  BY DEF TypeOK, Factors, Job
<1>5. Rows' = Rows + 1
  <2>1. payouts \in [Factors -> Nat]
    BY DEF TypeOK
  <2>2. CASE job[w].factor = "none"
    <3>1. /\ payouts'["none"] = payouts["none"] + 1 /\ payouts'["single"] = payouts["single"]
          /\ payouts'["multi"] = payouts["multi"]
      BY <1>1, <2>1, <2>2 DEF Factors
    <3>2. QED
      BY <1>4, <3>1 DEF Rows
  <2>3. CASE job[w].factor = "single"
    <3>1. /\ payouts'["none"] = payouts["none"] /\ payouts'["single"] = payouts["single"] + 1
          /\ payouts'["multi"] = payouts["multi"]
      BY <1>1, <2>1, <2>3 DEF Factors
    <3>2. QED
      BY <1>4, <3>1 DEF Rows
  <2>4. CASE job[w].factor = "multi"
    <3>1. /\ payouts'["none"] = payouts["none"] /\ payouts'["single"] = payouts["single"]
          /\ payouts'["multi"] = payouts["multi"] + 1
      BY <1>1, <2>1, <2>4 DEF Factors
    <3>2. QED
      BY <1>4, <3>1 DEF Rows
  <2>5. QED
    BY <1>4, <2>2, <2>3, <2>4 DEF Factors
<1>6. QED
  BY <1>1, <1>3, <1>5

LEMMA StopPayers ==
  ASSUME TypeOK, JobsFit, NEW w \in Workers, Stop(w)
  PROVE  /\ UNCHANGED <<transfers, payouts>> /\ Payers' = Payers \ {w} /\ Payees' = Payees \ {w}
         /\ w \in Payees => Ever("REWARDS")'
<1>1. /\ Others(w) /\ pc'[w] = "idle" /\ job[w].order \in Orders
      /\ Unrecorded(w) => Steps[job[w].step] \in mishaps'[job[w].order]
      /\ UNCHANGED <<transfers, payouts>>
  BY StopEffect
<1>2. Payers' = Payers \ {w} /\ Payees' = Payees \ {w}
  BY <1>1 DEF Payers, Payees, Others
<1>3. ASSUME w \in Payees PROVE Ever("REWARDS")'
  <2>1. pc[w] = "payout" /\ job[w].step = 5
    BY <1>3 DEF Payees, JobsFit, JobFits, AtStep
  <2>2. "REWARDS" \in mishaps'[job[w].order]
    BY <1>1, <2>1, StepNames DEF Unrecorded
  <2>3. QED
    BY <1>1, <2>2 DEF Ever
<1>4. QED
  BY <1>1, <1>2, <1>3

LEMMA NextPaysOnce ==
  ASSUME TypeOK, JobsFit, RowsFit, PaysOnce, [Next]_vars
  PROVE  PaysOnce'
<1> DEFINE Goal == /\ transfers' <= 1 /\ Rows' <= 1
                   /\ \A v, w \in Payers' : v = w
                   /\ Payers' # {} => Rows' = 0
                   /\ transfers' > 0 => Rows' > 0 \/ Payees' # {}
<1> SUFFICES ASSUME ~Ever("raced")', ~Ever("REWARDS")' PROVE Goal
  BY DEF PaysOnce
<1>1. /\ transfers <= 1 /\ Rows <= 1
      /\ \A v, w \in Payers : v = w
      /\ Payers # {} => Rows = 0
      /\ transfers > 0 => Rows > 0 \/ Payees # {}
  BY EverStays DEF PaysOnce
<1>2. Rows \in Nat /\ transfers \in Nat /\ Payees \subseteq Payers
  BY RowsType DEF TypeOK, Payees, Payers
<1>3. payouts' = payouts => Rows' = Rows
  BY DEF Rows
<1>4. CASE SamePayers
  BY <1>1, <1>3, <1>4 DEF SamePayers
<1>5. ASSUME NEW w \in Workers, Lookup(w) PROVE Goal
  <2>1. /\ UNCHANGED <<transfers, payouts>> /\ Payees' = Payees
        /\ \/ Payers' = Payers
           \/ Rows = 0 /\ Payers' = Payers \cup {w} /\ Payers = {}
    BY <1>5, LookupEffect
  <2>2. QED
    BY <1>1, <1>3, <2>1
<1>6. ASSUME NEW w \in Workers, Transfer(w) PROVE Goal
  <2>1. /\ payouts' = payouts /\ Payers' = Payers /\ Payees' = Payees \cup {w}
        /\ w \in Payers /\ w \notin Payees /\ transfers' \in {transfers, transfers + 1}
    BY <1>6, TransferEffect
  <2>2. Rows = 0 /\ Payees = {}
    BY <1>1, <1>2, <2>1
  <2>3. transfers = 0
    BY <1>1, <1>2, <2>2
  <2>4. QED
    BY <1>1, <1>3, <2>1, <2>2, <2>3
<1>7. ASSUME NEW w \in Workers, Payout(w) PROVE Goal
  <2>1. /\ transfers' = transfers /\ Payers' = Payers \ {w} /\ w \in Payers /\ Rows' = Rows + 1
    BY <1>7, PayoutEffect
  <2>2. Rows = 0 /\ Payers' = {}
    BY <1>1, <2>1
  <2>3. QED
    BY <1>1, <2>1, <2>2
<1>8. ASSUME NEW w \in Workers, Stop(w) PROVE Goal
  <2>1. /\ UNCHANGED <<transfers, payouts>> /\ Payers' = Payers \ {w} /\ Payees' = Payees
    BY <1>8, StopPayers
  <2>2. QED
    BY <1>1, <1>3, <2>1
<1>9. QED
  BY <1>4, <1>5, <1>6, <1>7, <1>8, PayersStep

LEMMA NextPaysFirst ==
  ASSUME TypeOK, JobsFit, RowsFit, PaysFirst, [Next]_vars
  PROVE  PaysFirst'
<1> DEFINE Goal == /\ IsFiniteSet(Payees')
                   /\ ~Ever("noWallet")' => Rows' + Cardinality(Payees') <= transfers'
<1> SUFFICES Goal
  BY DEF PaysFirst
<1>1. /\ IsFiniteSet(Payees) /\ Cardinality(Payees) \in Nat
      /\ ~Ever("noWallet")' => Rows + Cardinality(Payees) <= transfers
  BY EverStays, FS_CardinalityType DEF PaysFirst
<1>2. Rows \in Nat /\ transfers \in Nat
  BY RowsType DEF TypeOK
<1>3. payouts' = payouts => Rows' = Rows
  BY DEF Rows
<1>4. ASSUME UNCHANGED <<transfers, payouts>>, Payees' = Payees PROVE Goal
  BY <1>1, <1>3, <1>4
<1>5. CASE SamePayers
  BY <1>4, <1>5 DEF SamePayers
<1>6. ASSUME NEW w \in Workers, Lookup(w) PROVE Goal
  BY <1>4, <1>6, LookupEffect
<1>7. ASSUME NEW w \in Workers, Transfer(w) PROVE Goal
  <2>1. /\ payouts' = payouts /\ Payees' = Payees \cup {w} /\ w \notin Payees
        /\ transfers' = transfers + 1 \/ Ever("noWallet")'
    BY <1>7, TransferEffect
  <2>2. IsFiniteSet(Payees') /\ Cardinality(Payees') = Cardinality(Payees) + 1
    BY <1>1, <2>1, FS_AddElement
  <2>3. QED
    BY <1>1, <1>2, <1>3, <2>1, <2>2
<1>8. ASSUME NEW w \in Workers, Payout(w) PROVE Goal
  <2>1. transfers' = transfers /\ Payees' = Payees \ {w} /\ w \in Payees /\ Rows' = Rows + 1
    BY <1>8, PayoutEffect
  <2>2. IsFiniteSet(Payees') /\ Cardinality(Payees') = Cardinality(Payees) - 1
    BY <1>1, <2>1, FS_RemoveElement
  <2>3. QED
    BY <1>1, <1>2, <2>1, <2>2
<1>9. ASSUME NEW w \in Workers, Stop(w) PROVE Goal
  <2>1. UNCHANGED <<transfers, payouts>> /\ Payees' = Payees \ {w}
    BY <1>9, StopPayers
  <2>2. IsFiniteSet(Payees') /\ Cardinality(Payees') <= Cardinality(Payees) /\ Cardinality(Payees') \in Nat
    BY <1>1, <2>1, FS_RemoveElement, FS_CardinalityType
  <2>3. QED
    BY <1>1, <1>2, <1>3, <2>1, <2>2
<1>10. QED
  BY <1>5, <1>6, <1>7, <1>8, <1>9, PayersStep

-----------------------------------------------------------------------------
LEMMA InitSafe == Init => Safe
<1> SUFFICES ASSUME Init PROVE Safe
  OBVIOUS
<1> USE DEF Init
<1>1. \A w \in Workers : pc[w] = "idle" /\ job[w] = NoJob
  OBVIOUS
<1>2. NoJob \in Job
  BY StepNames DEF NoJob, Job, Factors, NoSub
<1>3. TypeOK
  BY <1>2, StepNames DEF TypeOK, SubRow, NoSub, Factors, Place
<1>4. JobsFit
  BY <1>1 DEF JobsFit, JobFits
<1>5. NoSub \notin Subs
  BY DEF NoSub, Subs
<1>6. RowsFit
  BY <1>5 DEF RowsFit
<1>7. \A o \in Orders, k \in 1 .. 5 : ~Done(o, k)
  BY <1>1 DEF Done, WorksOn
<1>8. \A o \in Orders : SubsOf(o) = {}
  BY ActivationAssumption DEF SubsOf
<1>9. InTurn
  BY <1>1, <1>7, <1>8 DEF InTurn, Alone, Given, Orphans, Once, WorksOn
<1>10. Payers = {} /\ Payees = {} /\ Rows = 0
  BY <1>1 DEF Payers, Payees, Rows, Factors
<1>11. PaysOnce
  BY <1>10 DEF PaysOnce
<1>12. PaysFirst
  BY <1>10, FS_EmptySet DEF PaysFirst
<1>13. \A w \in Workers : ~AfterTelco(w)
  BY <1>1 DEF AfterTelco
<1>14. Earned
  BY <1>1, <1>13 DEF Earned, RewardIsEarned, Factors
<1>15. QED
  BY <1>3, <1>4, <1>6, <1>9, <1>11, <1>12, <1>14 DEF Safe

LEMMA NextSafe == Safe /\ [Next]_vars => Safe'
BY NextTyped, NextInTurn, NextPaysOnce, NextPaysFirst, NextEarned DEF Safe

(* However runs overlap, throw and are begun again, AddPlanProcessor goes   *)
(* on with a subscription that exists, at a step it has, and every row it   *)
(* writes is one that the code knows: nothing is attached, credited or      *)
(* activated before the order has its subscription.                         *)
THEOREM ActivationTypeCorrect == Spec => []TypeOK
<1>1. Safe => TypeOK
  BY DEF Safe
<1>2. QED
  BY <1>1, InitSafe, NextSafe, PTL DEF Spec

(* The code's activation, the credit and the plan of an order all belong to *)
(* the one subscription the order points at, and what is recorded as        *)
(* completed is there, however many runs of it were lost (SUBSCRIPTION,     *)
(* PROMO_CODES, CREDITS and TELCO of AddPlanProcessor).                     *)
THEOREM EntitlementsBelong == Spec => []EntitlementsFollow
<1>1. ASSUME Safe, NEW o \in Orders, "overlap" \notin mishaps[o]
      PROVE  /\ recorded[o] >= 1 => orderSub[o] \in SubsOf(o)
             /\ recorded[o] >= 2 => activation[o] = orderSub[o]
             /\ recorded[o] >= 3 => credits[orderSub[o]] > 0
             /\ recorded[o] >= 4 => plans[orderSub[o]] > 0 /\ sub[orderSub[o]].status \in {"ACTIVE", "OVER"}
             /\ \A s \in SubsOf(o) : credits[s] > 0 \/ plans[s] > 0 \/ sub[s].status # "PENDING" =>
                  s = orderSub[o]
  <2>1. Given(o) /\ Orphans(o) /\ RowsFit
    BY <1>1 DEF Safe, InTurn
  <2>2. QED
    BY <2>1 DEF Given, Orphans, RowsFit, Done, SubsOf
<1>2. Safe => EntitlementsFollow
  BY <1>1 DEF EntitlementsFollow
<1>3. QED
  BY <1>2, InitSafe, NextSafe, PTL DEF Spec

(* No number of retries repeats a recorded step: a second subscription,     *)
(* credit or plan of an order comes only of a run that was lost between a   *)
(* step's effect and its record, or of runs that overlapped.                *)
THEOREM NothingTwice == Spec => []DoneOnce
<1>1. ASSUME Safe, NEW o \in Orders, "overlap" \notin mishaps[o]
      PROVE  /\ "SUBSCRIPTION" \notin mishaps[o] => Cardinality(SubsOf(o)) <= 1
             /\ \A s \in SubsOf(o) : /\ "CREDITS" \notin mishaps[o] => credits[s] <= 1
                                     /\ "TELCO" \notin mishaps[o] => plans[s] <= 1
  <2>1. Once(o)
    BY <1>1 DEF Safe, InTurn
  <2>2. ASSUME "SUBSCRIPTION" \notin mishaps[o] PROVE Cardinality(SubsOf(o)) <= 1
    <3>1. SubsOf(o) = {} \/ SubsOf(o) = {orderSub[o]}
      BY <2>1, <2>2 DEF Once
    <3>2. Cardinality({}) = 0 /\ Cardinality({orderSub[o]}) = 1
      BY FS_EmptySet, FS_Singleton
    <3>3. QED
      BY <3>1, <3>2
  <2>3. QED
    BY <2>1, <2>2 DEF Once
<1>2. Safe => DoneOnce
  BY <1>1 DEF DoneOnce
<1>3. QED
  BY <1>2, InitSafe, NextSafe, PTL DEF Spec

(* RewardService.processReward pays a user once for an offer, and never     *)
(* less than was recorded, for any number of orders and retries, unless two *)
(* runs looked before either had paid, a run was lost between the transfer  *)
(* and the payout, or the user had no wallet; and at the rate that was      *)
(* earned.                                                                  *)
THEOREM RewardsAreSound == Spec => []RewardIsSound
<1>1. ASSUME Safe PROVE RewardIsSound
  <2>1. ASSUME ~Ever("noWallet") PROVE Rows <= transfers
    <3>1. Rows + Cardinality(Payees) <= transfers /\ IsFiniteSet(Payees)
      BY <1>1, <2>1 DEF Safe, PaysFirst
    <3>2. Cardinality(Payees) \in Nat /\ Rows \in Nat /\ transfers \in Nat
      BY <1>1, <3>1, FS_CardinalityType, RowsType DEF Safe, TypeOK
    <3>3. QED
      BY <3>1, <3>2
  <2>2. ~Ever("raced") /\ ~Ever("REWARDS") => transfers <= 1 /\ Rows <= 1
    BY <1>1 DEF Safe, PaysOnce
  <2>3. PaidOnce
    BY <2>1, <2>2 DEF PaidOnce, Rows
  <2>4. RewardIsEarned
    BY <1>1 DEF Safe, Earned
  <2>5. QED
    BY <2>3, <2>4 DEF RewardIsSound
<1>2. Safe => RewardIsSound
  BY <1>1
<1>3. QED
  BY <1>2, InitSafe, NextSafe, PTL DEF Spec

==============================================================================
