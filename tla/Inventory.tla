------------------------------ MODULE Inventory ------------------------------
(***************************************************************************)
(* The SIMs of the operator and the orders that hand them to subscriptions:*)
(* SimService (sim/sim.service.ts) and the steps SIM and TELCO of the      *)
(* orders ADD_PLAN (order/processors/add-plan.processor.ts) and CHANGE_SIM *)
(* (order/processors/change-sim.processor.ts).                             *)
(*                                                                         *)
(* A SIM has a status, and there are two records of who has it: the        *)
(* assignments that are not deleted and the subscription's simIccid.  The  *)
(* telco provider keeps a third.  Orders of all subscriptions take SIMs at *)
(* once, a user may scan one and staff may change a status or order a      *)
(* change of SIM.  An order is worked on by one invocation at a time (what *)
(* else can happen is the subject of OrderEngine), one call after the      *)
(* other, and a step that throws or is lost in a crash begins again.       *)
(***************************************************************************)
EXTENDS Integers, FiniteSets

CONSTANTS
  Subs,         \* subscriptions without a parent
  ESims, PSims, \* E_SIM and P_SIM
  NoSim,        \* simIccid = null
  MaxFailures,  \* bound: invocations that throw or die with the server
  MaxByHand     \* bound: statuses changed and changes of SIM ordered by staff

ASSUME InventoryAssumption ==
  /\ ESims \cap PSims = {}
  /\ NoSim \notin ESims \cup PSims
  /\ MaxFailures \in Nat /\ MaxByHand \in Nat

VARIABLES
  sim,       \* Sim rows: the status of each
  assigned,  \* SimAssignment rows not deleted: pairs of subscription and SIM
  current,   \* Subscription.simIccid
  provider,  \* external: the SIM each subscription has at the telco provider
  order,     \* the ADD_PLAN and CHANGE_SIM order of each subscription
  pc,        \* the next call of each order's invocation
  job,       \* its local variables
  spent,     \* how often the environment has used each bound
  raced,     \* history: SIMs that were not one order's to take
  crossed    \* history: subscriptions whose two orders ran or failed together

vars == <<sim, assigned, current, provider, order, pc, job, spent, raced, crossed>>
owners == <<assigned, current>>

-----------------------------------------------------------------------------
Sims == ESims \cup PSims
SimStatus == {"INITIAL", "RESERVED", "AVAILABLE", "ASSIGNED"}
Kinds == {"ADD_PLAN", "CHANGE_SIM"}
Orders == Kinds \X Subs
KindOf(o) == o[1]
SubOf(o) == o[2]

(* "NEW": not there yet; one that was given up stays in ERROR here.  iccid  *)
(* is the one in the order's details.                                       *)
OrderRow == [status : {"NEW", "PENDING", "ERROR", "DONE"}, step : {"SIM", "TELCO"},
             type : {"E_SIM", "P_SIM"}, iccid : Sims \cup {NoSim}]

Place == {"idle", "reserve", "attach", "persist", "activate", "complete"}

(* The SIM in hand, and the subscription's as it was read *)
Job == [sim : Sims \cup {NoSim}, old : Sims \cup {NoSim}]

NoJob == [sim |-> NoSim, old |-> NoSim]

TypeOK ==
  /\ sim \in [Sims -> SimStatus]
  /\ assigned \subseteq Subs \X Sims
  /\ current \in [Subs -> Sims \cup {NoSim}]
  /\ provider \in [Subs -> Sims \cup {NoSim}]
  /\ order \in [Orders -> OrderRow]
  /\ pc \in [Orders -> Place]
  /\ job \in [Orders -> Job]
  /\ \A o \in Orders : /\ pc[o] \notin {"idle", "complete"} => job[o].sim \in Sims
                       /\ pc[o] = "reserve" => job[o].sim \in ESims
  /\ spent \in [{"failure", "hand"} -> Nat]
  /\ raced \subseteq Sims
  /\ crossed \subseteq Subs

(* Every SIM is in stock and every subscription about to be activated, some *)
(* with the SIM that their user selected in the draft.                      *)
Init ==
  /\ sim = [s \in Sims |-> "AVAILABLE"]
  /\ assigned = {}
  /\ current = [b \in Subs |-> NoSim]
  /\ provider = [b \in Subs |-> NoSim]
  /\ \E type \in [Subs -> {"E_SIM", "P_SIM"}],
        iccid \in [Subs -> Sims \cup {NoSim}] :
       order = [o \in Orders |->
         IF KindOf(o) = "ADD_PLAN"
           THEN [status |-> "PENDING", step |-> "SIM", type |-> type[SubOf(o)], iccid |-> iccid[SubOf(o)]]
           ELSE [status |-> "NEW", step |-> "SIM", type |-> "E_SIM", iccid |-> NoSim]]
  /\ pc = [o \in Orders |-> "idle"]
  /\ job = [o \in Orders |-> NoJob]
  /\ spent = [e \in {"failure", "hand"} |-> 0]
  /\ raced = {}
  /\ crossed = {}

-----------------------------------------------------------------------------
(***************************************************************************)
(* Seeded bugs, here and below under the names Definition_Bug.  Each is a  *)
(* plausible slip in the definition it is named for; README.md says which  *)
(* property tells it from the code.                                        *)
(***************************************************************************)
Free_NotAssigned(type) ==
  {s \in (IF type = "E_SIM" THEN ESims ELSE PSims) : sim[s] # "ASSIGNED"}

Free_AnyType(type) == {s \in Sims : sim[s] = "AVAILABLE"}

(* findFirst of reserveOneFree *)
Free(type) == {s \in (IF type = "E_SIM" THEN ESims ELSE PSims) : sim[s] = "AVAILABLE"}

Spend(event, bound) ==
  /\ spent[event] < bound
  /\ spent' = [spent EXCEPT ![event] = @ + 1]

Goto(o, place) == pc' = [pc EXCEPT ![o] = place]

Due(o, step) == order[o].status \in {"PENDING", "ERROR"} /\ order[o].step = step /\ pc[o] = "idle"

(* An invocation of o begins a step with a SIM and its subscription's SIM   *)
Begin(o, place, s, old) ==
  /\ Goto(o, place)
  /\ job' = [job EXCEPT ![o] = [sim |-> s, old |-> old]]
  /\ order' = [order EXCEPT ![o].status = "PENDING"]
  /\ crossed' = IF \E p \in Orders \ {o} : SubOf(p) = SubOf(o) /\ order[p].status \in {"PENDING", "ERROR"}
                  THEN crossed \cup {SubOf(o)} ELSE crossed
  /\ UNCHANGED <<sim, owners, provider, spent>>

(* SIMs that o takes for AVAILABLE while another order that took it for     *)
(* AVAILABLE has not marked it yet                                          *)
TakeUp(o, s) ==
  raced' = IF \E p \in Orders \ {o} : pc[p] \in {"reserve", "attach"} /\ job[p].sim = s
             THEN raced \cup {s} ELSE raced

-----------------------------------------------------------------------------
(* SIM *)

(* The SIM selected or scanned has to be AVAILABLE *)
SimGiven(o) ==
  LET s == order[o].iccid IN
  /\ Due(o, "SIM") /\ KindOf(o) = "ADD_PLAN"
  /\ s # NoSim /\ sim[s] = "AVAILABLE"
  /\ Begin(o, "attach", s, NoSim)
  /\ TakeUp(o, s)

(* reserveOneFree reads a free SIM, *)
FindFree(o) ==
  /\ Due(o, "SIM")
  /\ IF KindOf(o) = "ADD_PLAN" THEN order[o].iccid = NoSim ELSE TRUE
  /\ order[o].type = "E_SIM"
  /\ \E s \in Free(order[o].type) : Begin(o, "reserve", s, NoSim) /\ TakeUp(o, s)

(* and marks it, whatever it has become *)
Reserve(o) ==
  /\ pc[o] = "reserve"
  /\ sim' = [sim EXCEPT ![job[o].sim] = "RESERVED"]
  /\ Goto(o, IF KindOf(o) = "ADD_PLAN" THEN "attach" ELSE "persist")
  /\ UNCHANGED <<owners, provider, order, job, spent, raced, crossed>>

(* CHANGE_SIM keeps the reserved SIM in its details *)
Persist(o) ==
  /\ pc[o] = "persist"
  /\ order' = [order EXCEPT ![o].iccid = job[o].sim]
  /\ Goto(o, "complete")
  /\ UNCHANGED <<sim, owners, provider, job, spent, raced, crossed>>

(* CHANGE_SIM has nothing to do for a physical SIM staff named *)
SimNamed(o) ==
  /\ Due(o, "SIM") /\ KindOf(o) = "CHANGE_SIM"
  /\ order[o].type = "P_SIM" /\ order[o].iccid # NoSim
  /\ Begin(o, "complete", NoSim, NoSim)
  /\ UNCHANGED raced

(* The step throws at once: the physical SIM is yet to be scanned, the SIM  *)
(* given is not AVAILABLE, or none is free                                  *)
SimThrows(o) ==
  /\ Due(o, "SIM")
  /\ \/ order[o].type = "P_SIM" /\ order[o].iccid = NoSim
     \/ KindOf(o) = "ADD_PLAN" /\ order[o].iccid # NoSim /\ sim[order[o].iccid] # "AVAILABLE"
     \/ order[o].type = "E_SIM" /\ Free("E_SIM") = {}
          /\ (KindOf(o) = "CHANGE_SIM" \/ order[o].iccid = NoSim)
  /\ order' = [order EXCEPT ![o].status = "ERROR"]
  /\ UNCHANGED <<sim, owners, provider, pc, job, spent, raced, crossed>>

-----------------------------------------------------------------------------
(* attachToSubscription, a transaction: the SIMs that the subscription or   *)
(* this SIM are assigned with become RESERVED, those assignments deleted,   *)
(* and the SIM is assigned if it is AVAILABLE or RESERVED now.  (If it is   *)
(* not, upsert tries to create it and throws.)                              *)
Former(b, s) == {x \in assigned : x[1] = b \/ x[2] = s}

Attachable(b, s) == sim[s] \in {"AVAILABLE", "RESERVED"} \/ \E x \in assigned : x[2] = s

Attach_KeepsOthers(o) ==
  LET b == SubOf(o)
      s == job[o].sim
  IN
  /\ pc[o] = "attach"
  /\ Attachable(b, s)
  /\ sim' = [t \in Sims |-> IF t = s THEN "ASSIGNED"
                            ELSE IF \E x \in Former(b, s) : x[2] = t THEN "RESERVED" ELSE sim[t]]
  /\ assigned' = {x \in assigned : x[1] # b} \cup {<<b, s>>}
  /\ current' = [c \in Subs |-> IF c = b THEN s ELSE IF current[c] = s THEN NoSim ELSE current[c]]
  /\ Goto(o, "complete")
  /\ UNCHANGED <<provider, order, job, spent, raced, crossed>>

Attach(o) ==
  LET b == SubOf(o)
      s == job[o].sim
  IN
  /\ pc[o] = "attach"
  /\ Attachable(b, s)
  /\ sim' = [t \in Sims |-> IF t = s THEN "ASSIGNED"
                            ELSE IF \E x \in Former(b, s) : x[2] = t THEN "RESERVED" ELSE sim[t]]
  /\ assigned' = (assigned \ Former(b, s)) \cup {<<b, s>>}
  /\ current' = [c \in Subs |-> IF c = b THEN s ELSE IF current[c] = s THEN NoSim ELSE current[c]]
  /\ Goto(o, "complete")
  /\ UNCHANGED <<provider, order, job, spent, raced, crossed>>

AttachThrows(o) ==
  /\ pc[o] = "attach"
  /\ ~Attachable(SubOf(o), job[o].sim)
  /\ order' = [order EXCEPT ![o].status = "ERROR"]
  /\ Goto(o, "idle")
  /\ job' = [job EXCEPT ![o] = NoJob]
  /\ crossed' = crossed \cup {SubOf(o)}
  /\ UNCHANGED <<sim, owners, provider, spent, raced>>

(* The engine records the step and goes on to the next *)
Complete(o) ==
  /\ pc[o] = "complete"
  /\ order' = [order EXCEPT ![o] = [@ EXCEPT
       !.step = "TELCO",
       !.status = IF order[o].step = "SIM" THEN "PENDING" ELSE "DONE"]]
  /\ Goto(o, "idle")
  /\ job' = [job EXCEPT ![o] = NoJob]
  /\ UNCHANGED <<sim, owners, provider, spent, raced, crossed>>

-----------------------------------------------------------------------------
(* TELCO *)

(* ADD_PLAN activates the SIM of its details before that of the             *)
(* subscription; CHANGE_SIM the one of its details.                         *)
SimToActivate(o) ==
  IF order[o].iccid # NoSim \/ KindOf(o) = "CHANGE_SIM" THEN order[o].iccid ELSE current[SubOf(o)]

ReadSub(o) ==
  LET s == SimToActivate(o) IN
  /\ Due(o, "TELCO")
  /\ s # NoSim
  /\ KindOf(o) = "CHANGE_SIM" => current[SubOf(o)] # NoSim
  /\ Begin(o, "activate", s, current[SubOf(o)])
  /\ UNCHANGED raced

(* CHANGE_SIM throws without both SIMs.  Without any, the provider invents  *)
(* one for ADD_PLAN, which throws as no row is found for it.                *)
TelcoThrows(o) ==
  /\ Due(o, "TELCO")
  /\ \/ SimToActivate(o) = NoSim
     \/ KindOf(o) = "CHANGE_SIM" /\ current[SubOf(o)] = NoSim
  /\ order' = [order EXCEPT ![o].status = "ERROR"]
  /\ UNCHANGED <<sim, owners, provider, pc, job, spent, raced, crossed>>

Activate_OldSim(o) ==
  /\ pc[o] = "activate"
  /\ provider' = [provider EXCEPT ![SubOf(o)] = IF job[o].old = NoSim THEN job[o].sim ELSE job[o].old]
  /\ Goto(o, IF KindOf(o) = "CHANGE_SIM" \/ job[o].sim # job[o].old THEN "attach" ELSE "complete")
  /\ UNCHANGED <<sim, owners, order, job, spent, raced, crossed>>

(* activatePlan and changeSim; the first is followed by an attachment only  *)
(* if the SIM is another one than the subscription had                      *)
Activate(o) ==
  /\ pc[o] = "activate"
  /\ provider' = [provider EXCEPT ![SubOf(o)] = job[o].sim]
  /\ Goto(o, IF KindOf(o) = "CHANGE_SIM" \/ job[o].sim # job[o].old THEN "attach" ELSE "complete")
  /\ UNCHANGED <<sim, owners, order, job, spent, raced, crossed>>

-----------------------------------------------------------------------------
(* The environment *)

(* A call throws or the server stops: the step begins again, or never does. *)
(* What the invocation did remains.                                         *)
Fail(o) ==
  /\ pc[o] # "idle"
  /\ Spend("failure", MaxFailures)
  /\ order' = [order EXCEPT ![o].status = "ERROR"]
  /\ Goto(o, "idle")
  /\ job' = [job EXCEPT ![o] = NoJob]
  /\ crossed' = crossed \cup {SubOf(o)}
  /\ UNCHANGED <<sim, owners, provider, raced>>

(* updateMyOrderSimSelection: the user scans a physical SIM.  Past the SIM  *)
(* step nobody checks it again.                                             *)
Scan(o, s) ==
  /\ KindOf(o) = "ADD_PLAN"
  /\ order[o].status = "ERROR" /\ pc[o] = "idle"
  /\ s \in PSims /\ sim[s] = "AVAILABLE"
  /\ order' = [order EXCEPT ![o].iccid = s]
  /\ raced' = IF order[o].step = "TELCO" THEN raced \cup {s} ELSE raced
  /\ UNCHANGED <<sim, owners, provider, pc, job, spent, crossed>>

(* changeSubscriptionSim: nobody checks the SIM staff names *)
OrderChange(b, type, s) ==
  LET o == <<"CHANGE_SIM", b>> IN
  /\ order[o].status = "NEW"
  /\ Spend("hand", MaxByHand)
  /\ order' = [order EXCEPT ![o] = [status |-> "PENDING", step |-> "SIM", type |-> type, iccid |-> s]]
  /\ raced' = IF type = "P_SIM" /\ s # NoSim THEN raced \cup {s} ELSE raced
  /\ UNCHANGED <<sim, owners, provider, pc, job, crossed>>

(* changeStatus, of a SIM that is not ASSIGNED *)
ChangeStatus(s, status) ==
  /\ sim[s] \in {"INITIAL", "AVAILABLE", "RESERVED"}
  /\ Spend("hand", MaxByHand)
  /\ sim' = [sim EXCEPT ![s] = status]
  /\ raced' = IF sim[s] = "RESERVED" THEN raced \cup {s} ELSE raced
  /\ UNCHANGED <<owners, provider, order, pc, job, crossed>>

SimStep(o) ==
  \/ SimGiven(o) \/ FindFree(o) \/ Reserve(o) \/ Persist(o) \/ SimNamed(o) \/ SimThrows(o)

TelcoStep(o) == ReadSub(o) \/ TelcoThrows(o) \/ Activate(o)

Next ==
  \/ \E o \in Orders : \/ SimStep(o) \/ TelcoStep(o)
                       \/ Attach(o) \/ AttachThrows(o) \/ Complete(o)
                       \/ Fail(o)
  \/ \E o \in Orders, s \in Sims : Scan(o, s)
  \/ \E b \in Subs, type \in {"E_SIM", "P_SIM"}, s \in Sims \cup {NoSim} : OrderChange(b, type, s)
  \/ \E s \in Sims, status \in SimStatus : ChangeStatus(s, status)

Spec == Init /\ [][Next]_vars

-----------------------------------------------------------------------------
(* The two records of who has which SIM agree, no SIM is with two           *)
(* subscriptions and no subscription has two, whatever orders, users and    *)
(* staff do at once.                                                        *)
OneOwner ==
  /\ \A b \in Subs, s \in Sims : <<b, s>> \in assigned <=> current[b] = s
  /\ \A b, c \in Subs : current[b] # NoSim /\ current[b] = current[c] => b = c

(* A SIM that is with a subscription is ASSIGNED, so that no order takes it *)
(* for free, unless reserveOneFree had found it AVAILABLE before another    *)
(* order attached it, and marks it RESERVED after.                          *)
HeldIsAssigned ==
  \A b \in Subs : current[b] # NoSim => sim[current[b]] = "ASSIGNED" \/ current[b] \in raced

(* A subscription's SIM is never given to another one, unless two orders    *)
(* took it for AVAILABLE at once, staff named it for a change or changed    *)
(* its status while it was RESERVED, or a user scanned it after the check.  *)
NotTaken ==
  [][\A b \in Subs : current[b] # NoSim /\ current'[b] = NoSim => current[b] \in raced]_vars

(* Once a subscription is activated, its SIM is the one that works at the   *)
(* provider, unless an invocation was lost on the way, two orders of the    *)
(* subscription ran at once, or the SIM was taken in one of the ways above. *)
ProviderAgrees ==
  \A b \in Subs \ crossed :
    (\A o \in Orders : SubOf(o) = b => pc[o] = "idle") /\ order[<<"ADD_PLAN", b>>].status = "DONE"
      => provider[b] = current[b] \/ provider[b] \in raced

(* Stock, subscription and provider name the same SIM *)
SimIsServed == HeldIsAssigned /\ ProviderAgrees
=============================================================================
