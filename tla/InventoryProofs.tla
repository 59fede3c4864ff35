--------------------------- MODULE InventoryProofs ---------------------------
(***************************************************************************)
(* Theorems about Inventory, for any subscriptions and SIMs and any bounds *)
(* on the environment.                                                     *)
(***************************************************************************)
EXTENDS Inventory, TLAPS

LEMMA NoJobType == NoJob \in Job
BY DEF NoJob, Job

(* What every step's beginning leaves well-typed *)
LEMMA BeginType ==
  ASSUME TypeOK, NEW o \in Orders, NEW place \in Place,
         NEW s \in Sims \cup {NoSim}, NEW old \in Sims \cup {NoSim},
         place \notin {"idle", "complete"} => s \in Sims,
         place = "reserve" => s \in ESims,
         Begin(o, place, s, old), raced' \subseteq Sims
  PROVE  TypeOK'
<1>1. [sim |-> s, old |-> old] \in Job
  BY DEF Job
<1>2. pc' \in [Orders -> Place] /\ job' \in [Orders -> Job]
  BY <1>1 DEF TypeOK, Begin, Goto
<1>3. \A p \in Orders : /\ pc'[p] \notin {"idle", "complete"} => job'[p].sim \in Sims
                        /\ pc'[p] = "reserve" => job'[p].sim \in ESims
  BY DEF TypeOK, Begin, Goto
<1>4. order' \in [Orders -> OrderRow]
  BY DEF TypeOK, Begin, OrderRow
<1>5. crossed' \subseteq Subs
  <2>1. SubOf(o) \in Subs
    BY DEF Orders, SubOf
  <2>2. QED
    BY <2>1 DEF TypeOK, Begin
<1>6. QED
  BY <1>2, <1>3, <1>4, <1>5 DEF TypeOK, Begin, owners

(* and what an order's going on, back to idle or failing leaves *)
LEMMA GotoType ==
  ASSUME TypeOK, NEW o \in Orders, NEW place \in Place, Goto(o, place), UNCHANGED job,
         place \notin {"idle", "complete"} => job[o].sim \in Sims,
         place = "reserve" => job[o].sim \in ESims
  PROVE  /\ pc' \in [Orders -> Place]
         /\ \A p \in Orders : /\ pc'[p] \notin {"idle", "complete"} => job'[p].sim \in Sims
                              /\ pc'[p] = "reserve" => job'[p].sim \in ESims
BY DEF TypeOK, Goto

LEMMA StopType ==
  ASSUME TypeOK, NEW o \in Orders, Goto(o, "idle"), job' = [job EXCEPT ![o] = NoJob]
  PROVE  /\ pc' \in [Orders -> Place]
         /\ job' \in [Orders -> Job]
         /\ \A p \in Orders : /\ pc'[p] \notin {"idle", "complete"} => job'[p].sim \in Sims
                              /\ pc'[p] = "reserve" => job'[p].sim \in ESims
<1>1. pc' \in [Orders -> Place] /\ job' \in [Orders -> Job]
  BY NoJobType DEF TypeOK, Goto, Place
<1>2. QED
  BY <1>1 DEF TypeOK, Goto

LEMMA TakeUpType ==
  ASSUME TypeOK, NEW o \in Orders, NEW s \in Sims, TakeUp(o, s)
  PROVE  raced' \subseteq Sims
BY DEF TypeOK, TakeUp

-----------------------------------------------------------------------------
LEMMA TypeStep == TypeOK /\ [Next]_vars => TypeOK'
<1> SUFFICES ASSUME TypeOK, [Next]_vars PROVE TypeOK'
  OBVIOUS
<1> USE DEF owners
<1>1. ASSUME NEW o \in Orders, SimGiven(o) PROVE TypeOK'
  <2>1. order[o].iccid \in Sims
    BY <1>1 DEF TypeOK, SimGiven, OrderRow
  <2>2. raced' \subseteq Sims
    BY <1>1, <2>1, TakeUpType DEF SimGiven
  <2>3. QED
    BY <1>1, <2>1, <2>2, BeginType DEF SimGiven, Place
<1>2. ASSUME NEW o \in Orders, FindFree(o) PROVE TypeOK'
  <2>1. PICK s \in Free(order[o].type) : Begin(o, "reserve", s, NoSim) /\ TakeUp(o, s)
    BY <1>2 DEF FindFree
  <2>2. s \in ESims /\ s \in Sims
    BY <1>2, <2>1 DEF FindFree, Free, Sims
  <2>3. raced' \subseteq Sims
    BY <2>1, <2>2, TakeUpType
  <2>4. QED
    BY <2>1, <2>2, <2>3, BeginType DEF Place
<1>3. ASSUME NEW o \in Orders, Reserve(o) PROVE TypeOK'
  <2> DEFINE place == IF KindOf(o) = "ADD_PLAN" THEN "attach" ELSE "persist"
  <2>1. job[o].sim \in Sims
    BY <1>3 DEF TypeOK, Reserve
  <2>2. sim' \in [Sims -> SimStatus]
    BY <1>3 DEF TypeOK, Reserve, SimStatus
  <2>3. place \in Place \ {"reserve"}
    BY DEF Place
  <2>4. Goto(o, place) /\ UNCHANGED <<assigned, current, provider, order, job, spent, raced, crossed>>
    BY <1>3 DEF Reserve
  <2> HIDE DEF place
  <2>5. /\ pc' \in [Orders -> Place]
        /\ \A p \in Orders : /\ pc'[p] \notin {"idle", "complete"} => job'[p].sim \in Sims
                             /\ pc'[p] = "reserve" => job'[p].sim \in ESims
    BY <2>1, <2>3, <2>4, GotoType
  <2>6. QED
    BY <2>2, <2>4, <2>5 DEF TypeOK
<1>4. ASSUME NEW o \in Orders, Persist(o) PROVE TypeOK'
  <2>1. job[o].sim \in Sims
    BY <1>4 DEF TypeOK, Persist
  <2>2. order' \in [Orders -> OrderRow]
    BY <1>4, <2>1 DEF TypeOK, Persist, OrderRow
  <2>3. /\ pc' \in [Orders -> Place]
        /\ \A p \in Orders : /\ pc'[p] \notin {"idle", "complete"} => job'[p].sim \in Sims
                             /\ pc'[p] = "reserve" => job'[p].sim \in ESims
    BY <1>4, GotoType DEF Persist, Place
  <2>4. QED
    BY <1>4, <2>2, <2>3 DEF TypeOK, Persist
<1>5. ASSUME NEW o \in Orders, SimNamed(o) PROVE TypeOK'
  <2>1. raced' \subseteq Sims
    BY <1>5 DEF TypeOK, SimNamed
  <2>2. QED
    BY <1>5, <2>1, BeginType DEF SimNamed, Place
<1>6. ASSUME NEW o \in Orders, SimThrows(o) \/ TelcoThrows(o) PROVE TypeOK'
  <2>1. order' \in [Orders -> OrderRow]
    BY <1>6 DEF TypeOK, SimThrows, TelcoThrows, OrderRow
  <2>2. QED
    BY <1>6, <2>1 DEF TypeOK, SimThrows, TelcoThrows
<1>7. ASSUME NEW o \in Orders, ReadSub(o) PROVE TypeOK'
  <2>1. SubOf(o) \in Subs
    BY DEF Orders, SubOf
  <2>2. current[SubOf(o)] \in Sims \cup {NoSim} /\ SimToActivate(o) \in Sims
    BY <1>7, <2>1 DEF TypeOK, ReadSub, SimToActivate, OrderRow
  <2>3. raced' \subseteq Sims
    BY <1>7 DEF TypeOK, ReadSub
  <2>4. QED
    BY <1>7, <2>2, <2>3, BeginType DEF ReadSub, Place
<1>8. ASSUME NEW o \in Orders, Activate(o) PROVE TypeOK'
  <2> DEFINE place == IF KindOf(o) = "CHANGE_SIM" \/ job[o].sim # job[o].old THEN "attach" ELSE "complete"
  <2>1. job[o].sim \in Sims
    BY <1>8 DEF TypeOK, Activate
  <2>2. provider' \in [Subs -> Sims \cup {NoSim}]
    BY <1>8, <2>1 DEF TypeOK, Activate
  <2>3. place \in Place \ {"reserve"}
    BY DEF Place
  <2>4. Goto(o, place) /\ UNCHANGED <<sim, assigned, current, order, job, spent, raced, crossed>>
    BY <1>8 DEF Activate
  <2> HIDE DEF place
  <2>5. /\ pc' \in [Orders -> Place]
        /\ \A p \in Orders : /\ pc'[p] \notin {"idle", "complete"} => job'[p].sim \in Sims
                             /\ pc'[p] = "reserve" => job'[p].sim \in ESims
    BY <2>1, <2>3, <2>4, GotoType
  <2>6. QED
    BY <2>2, <2>4, <2>5 DEF TypeOK
<1>9. ASSUME NEW o \in Orders, Attach(o) PROVE TypeOK'
  <2>1. job[o].sim \in Sims /\ SubOf(o) \in Subs
    BY <1>9 DEF TypeOK, Attach, Orders, SubOf
  <2>2. sim' \in [Sims -> SimStatus]
    BY <1>9, <2>1 DEF TypeOK, Attach, SimStatus
  <2>3. assigned' \subseteq Subs \X Sims
    BY <1>9, <2>1 DEF TypeOK, Attach
  <2>4. current' \in [Subs -> Sims \cup {NoSim}]
    BY <1>9, <2>1 DEF TypeOK, Attach
  <2>5. /\ pc' \in [Orders -> Place]
        /\ \A p \in Orders : /\ pc'[p] \notin {"idle", "complete"} => job'[p].sim \in Sims
                             /\ pc'[p] = "reserve" => job'[p].sim \in ESims
    BY <1>9, GotoType DEF Attach, Place
  <2>6. QED
    BY <1>9, <2>2, <2>3, <2>4, <2>5 DEF TypeOK, Attach
<1>10. ASSUME NEW o \in Orders, AttachThrows(o) \/ Complete(o) \/ Fail(o) PROVE TypeOK'
  <2>1. order' \in [Orders -> OrderRow]
    <3>1. CASE Complete(o)
      <4>1. [order[o] EXCEPT !.step = "TELCO",
                             !.status = IF order[o].step = "SIM" THEN "PENDING" ELSE "DONE"] \in OrderRow
        BY DEF TypeOK, OrderRow
      <4>2. QED
        BY <3>1, <4>1 DEF TypeOK, Complete
    <3>2. CASE AttachThrows(o) \/ Fail(o)
      <4>1. order' = [order EXCEPT ![o].status = "ERROR"]
        BY <3>2 DEF AttachThrows, Fail
      <4>2. QED
        BY <4>1 DEF TypeOK, OrderRow
    <3>3. QED
      BY <1>10, <3>1, <3>2
  <2>2. crossed' \subseteq Subs
    BY <1>10 DEF TypeOK, AttachThrows, Complete, Fail, Orders, SubOf
  <2>3. spent' \in [{"failure", "hand"} -> Nat]
    BY <1>10 DEF TypeOK, AttachThrows, Complete, Fail, Spend
  <2>4. Goto(o, "idle") /\ job' = [job EXCEPT ![o] = NoJob]
    BY <1>10 DEF AttachThrows, Complete, Fail
  <2>5. QED
    BY <1>10, <2>1, <2>2, <2>3, <2>4, StopType DEF TypeOK, AttachThrows, Complete, Fail
<1>11. ASSUME NEW o \in Orders, NEW s \in Sims, Scan(o, s) PROVE TypeOK'
  <2>1. order' \in [Orders -> OrderRow]
    BY <1>11 DEF TypeOK, Scan, OrderRow
  <2>2. QED
    BY <1>11, <2>1 DEF TypeOK, Scan
<1>12. ASSUME NEW b \in Subs, NEW type \in {"E_SIM", "P_SIM"}, NEW s \in Sims \cup {NoSim},
              OrderChange(b, type, s)
       PROVE  TypeOK'
  <2>1. order' \in [Orders -> OrderRow]
    BY <1>12 DEF TypeOK, OrderChange, OrderRow
  <2>2. spent' \in [{"failure", "hand"} -> Nat] /\ raced' \subseteq Sims
    BY <1>12 DEF TypeOK, OrderChange, Spend
  <2>3. QED
    BY <1>12, <2>1, <2>2 DEF TypeOK, OrderChange
<1>13. ASSUME NEW s \in Sims, NEW status \in SimStatus, ChangeStatus(s, status) PROVE TypeOK'
  <2>1. spent' \in [{"failure", "hand"} -> Nat] /\ raced' \subseteq Sims
    BY <1>13 DEF TypeOK, ChangeStatus, Spend
  <2>2. QED
    BY <1>13, <2>1 DEF TypeOK, ChangeStatus
<1>14. CASE UNCHANGED vars
  BY <1>14 DEF TypeOK, vars
<1>15. QED
  BY <1>1, <1>2, <1>3, <1>4, <1>5, <1>6, <1>7, <1>8, <1>9, <1>10, <1>11, <1>12, <1>13, <1>14
     DEF Next, SimStep, TelcoStep

LEMMA TypeInit == Init => TypeOK
<1> SUFFICES ASSUME Init PROVE TypeOK
  OBVIOUS
<1>1. order \in [Orders -> OrderRow]
  <2>1. PICK type \in [Subs -> {"E_SIM", "P_SIM"}], iccid \in [Subs -> Sims \cup {NoSim}] :
       order = [o \in Orders |->
         IF KindOf(o) = "ADD_PLAN"
           THEN [status |-> "PENDING", step |-> "SIM", type |-> type[SubOf(o)], iccid |-> iccid[SubOf(o)]]
           ELSE [status |-> "NEW", step |-> "SIM", type |-> "E_SIM", iccid |-> NoSim]]
    BY DEF Init
  <2>2. \A o \in Orders : SubOf(o) \in Subs
    BY DEF Orders, SubOf
  <2>3. QED
    BY <2>1, <2>2 DEF OrderRow
<1>2. QED
  BY <1>1, NoJobType DEF Init, TypeOK, SimStatus, Place

(* The rows of SIMs, assignments, subscriptions and orders, and every local *)
(* variable of an invocation, have the types they are declared with, and    *)
(* what is reserved is an E_SIM.                                            *)
THEOREM InventoryTypeCorrect == Spec => []TypeOK
BY TypeInit, TypeStep, PTL DEF Spec

-----------------------------------------------------------------------------
(* Only the attachment changes who has which SIM, and it ends what both its *)
(* subscription and its SIM were part of.                                   *)
LEMMA OneOwnerStep == TypeOK /\ OneOwner /\ [Next]_vars => OneOwner'
<1> SUFFICES ASSUME TypeOK, OneOwner, [Next]_vars PROVE OneOwner'
  OBVIOUS
<1>1. CASE UNCHANGED owners
  BY <1>1 DEF OneOwner, owners
<1>2. ASSUME NEW o \in Orders, Attach(o) PROVE OneOwner'
  <2> DEFINE b == SubOf(o)
             s == job[o].sim
  <2>1. b \in Subs /\ s \in Sims /\ s # NoSim
    BY <1>2, InventoryAssumption DEF TypeOK, Attach, Orders, SubOf, Sims
  <2>2. /\ assigned' = (assigned \ Former(b, s)) \cup {<<b, s>>}
        /\ current' = [c \in Subs |-> IF c = b THEN s ELSE IF current[c] = s THEN NoSim ELSE current[c]]
    BY <1>2 DEF Attach
  <2> HIDE DEF b, s
  <2>3. ASSUME NEW c \in Subs, NEW t \in Sims PROVE <<c, t>> \in assigned' <=> current'[c] = t
    <3>1. t # NoSim
      BY InventoryAssumption DEF Sims
    <3>2. <<c, t>> \in assigned <=> current[c] = t
      BY DEF OneOwner
    <3>3. CASE c = b
      BY <2>1, <2>2, <3>3 DEF Former
    <3>4. CASE c # b
      BY <2>1, <2>2, <3>1, <3>2, <3>4 DEF Former
    <3>5. QED
      BY <3>3, <3>4
  <2>4. ASSUME NEW c \in Subs, NEW d \in Subs, current'[c] # NoSim, current'[c] = current'[d]
        PROVE  c = d
    BY <2>1, <2>2, <2>4 DEF OneOwner
  <2>5. QED
    BY <2>3, <2>4 DEF OneOwner
<1>3. CASE \E o \in Orders : Attach(o)
  BY <1>2, <1>3
<1>4. CASE Next /\ ~ \E o \in Orders : Attach(o)
  <2>1. UNCHANGED owners
    BY <1>4 DEF Next, SimStep, TelcoStep, SimGiven, FindFree, Reserve, Persist, SimNamed, SimThrows,
                ReadSub, TelcoThrows, Activate, AttachThrows, Complete, Fail, Scan, OrderChange,
                ChangeStatus, Begin
  <2>2. QED
    BY <1>1, <2>1
<1>5. CASE UNCHANGED vars
  BY <1>1, <1>5 DEF vars, owners
<1>6. QED
  BY <1>3, <1>4, <1>5

LEMMA InitOneOwner == Init => OneOwner
BY InventoryAssumption DEF Init, OneOwner, Sims

(* No SIM is with two subscriptions and no subscription with two SIMs, and  *)
(* the assignments say what the subscriptions say, however many orders      *)
(* attach SIMs, staff name them and users scan them at once.                *)
THEOREM SimsHaveOneOwner == Spec => []OneOwner
BY InitOneOwner, InventoryTypeCorrect, OneOwnerStep, PTL DEF Spec
-----------------------------------------------------------------------------
(***************************************************************************)
(* Whose a SIM is.  An order past the point where nobody checks its SIM any *)
(* more is bound to it; one that may yet attach or mark a SIM claims it.  Of *)
(* a SIM that is not in raced, the invariant Unraced says that the SIM of a *)
(* bound order is never AVAILABLE again, that one order at most claims it,  *)
(* and that who has it is who claims it.                                    *)
(***************************************************************************)
Bound(o, s) == order[o].iccid = s /\ (order[o].step = "TELCO" \/ pc[o] = "complete")

Firm(o, s) == Bound(o, s) \/ (pc[o] = "persist" /\ job[o].sim = s)

Claims(o, s) == Bound(o, s) \/ (pc[o] \in {"reserve", "attach", "persist"} /\ job[o].sim = s)

OrderFits(o) ==
  /\ pc[o] # "idle" => order[o].status = "PENDING"
  /\ KindOf(o) = "ADD_PLAN" => order[o].status # "NEW"
  /\ pc[o] = "reserve" => /\ order[o].step = "SIM" /\ order[o].type = "E_SIM"
                          /\ KindOf(o) = "ADD_PLAN" => order[o].iccid = NoSim
  /\ pc[o] = "persist" =>
       order[o].step = "SIM" /\ order[o].type = "E_SIM" /\ KindOf(o) = "CHANGE_SIM"
  /\ pc[o] = "attach" =>
       \/ order[o].iccid = job[o].sim
       \/ order[o].iccid = NoSim /\ order[o].step = "SIM"
  /\ pc[o] = "attach" /\ order[o].step = "SIM" => KindOf(o) = "ADD_PLAN"
  /\ pc[o] = "activate" =>
       /\ order[o].step = "TELCO"
       /\ order[o].iccid = job[o].sim \/ (KindOf(o) = "ADD_PLAN" /\ job[o].sim = job[o].old)
  /\ KindOf(o) = "CHANGE_SIM" /\ order[o].type = "P_SIM" /\ order[o].iccid # NoSim =>
       order[o].iccid \in raced

Unraced(s) ==
  /\ \A o \in Orders : Firm(o, s) => sim[s] \in {"RESERVED", "ASSIGNED"}
  /\ \A o, p \in Orders : Claims(o, s) /\ Claims(p, s) => o = p
  /\ \A b \in Subs : current[b] = s =>
       /\ sim[s] = "ASSIGNED"
       /\ \A o \in Orders : Claims(o, s) => SubOf(o) = b /\ pc[o] # "reserve"

Add(b) == <<"ADD_PLAN", b>>
Change(b) == <<"CHANGE_SIM", b>>

(* What the provider knows of a subscription whose orders did not cross: the *)
(* change of SIM begins when the activation is done, and whoever is about to *)
(* attach a SIM has told the provider.                                      *)
Agrees(b) == provider[b] = current[b] \/ provider[b] \in raced

Uncrossed(b) ==
  /\ pc[Change(b)] # "idle" \/ order[Change(b)].step = "TELCO" => order[Add(b)].status = "DONE"
  /\ \A o \in {Add(b), Change(b)} :
       pc[o] = "attach" /\ order[o].step = "TELCO" => provider[b] = job[o].sim
  /\ pc[Add(b)] = "activate" => job[Add(b)].old \in {current[b], NoSim} \cup raced
  /\ \/ order[Add(b)].status = "DONE" /\ pc[Change(b)] # "attach"
     \/ pc[Add(b)] = "complete" /\ order[Add(b)].step = "TELCO"
     => Agrees(b)

Tracked ==
  /\ \A o \in Orders : OrderFits(o)
  /\ \A s \in Sims \ raced : Unraced(s)
  /\ \A b \in Subs \ crossed : Uncrossed(b)

LEMMA Parts ==
  /\ \A o \in Orders : KindOf(o) \in Kinds /\ SubOf(o) \in Subs
  /\ \A o \in Orders, b \in Subs :
       SubOf(o) = b => IF KindOf(o) = "ADD_PLAN" THEN o = Add(b) ELSE o = Change(b) /\ KindOf(o) = "CHANGE_SIM"
  /\ \A b \in Subs : /\ Add(b) \in Orders /\ KindOf(Add(b)) = "ADD_PLAN" /\ SubOf(Add(b)) = b
                     /\ Change(b) \in Orders /\ KindOf(Change(b)) = "CHANGE_SIM" /\ SubOf(Change(b)) = b
                     /\ Add(b) # Change(b)
BY DEF Orders, Kinds, KindOf, SubOf, Add, Change

-----------------------------------------------------------------------------
(* What the actions do, value by value.  Order o goes to a place, with these *)
(* local variables, and no other order moves.                               *)
Moves(o, place, s, old) ==
  /\ pc'[o] = place /\ job'[o].sim = s /\ job'[o].old = old
  /\ \A p \in Orders \ {o} : pc'[p] = pc[p] /\ job'[p] = job[p] /\ order'[p] = order[p]

Keeps(o) ==
  order'[o].step = order[o].step /\ order'[o].type = order[o].type /\ order'[o].iccid = order[o].iccid

Stock == UNCHANGED <<sim, assigned, current, provider>>

LEMMA BeginEffect ==
  ASSUME TypeOK, NEW o \in Orders, NEW place, NEW s, NEW old, Begin(o, place, s, old)
  PROVE  /\ Moves(o, place, s, old) /\ Keeps(o) /\ order'[o].status = "PENDING" /\ Stock
         /\ crossed \subseteq crossed'
         /\ \A p \in Orders \ {o} : SubOf(p) = SubOf(o) /\ order[p].status \in {"PENDING", "ERROR"} =>
              SubOf(o) \in crossed'
<1>1. pc'[o] = place /\ job'[o] = [sim |-> s, old |-> old]
  BY DEF TypeOK, Begin, Goto
<1>2. \A p \in Orders \ {o} : pc'[p] = pc[p] /\ job'[p] = job[p] /\ order'[p] = order[p]
  BY DEF TypeOK, Begin, Goto
<1>3. Keeps(o) /\ order'[o].status = "PENDING"
  BY DEF TypeOK, Begin, OrderRow, Keeps
<1>4. Stock /\ crossed \subseteq crossed'
  BY DEF Begin, Stock, owners
<1>5. QED
  BY <1>1, <1>2, <1>3, <1>4 DEF Begin, Moves

LEMMA GoEffect ==
  ASSUME TypeOK, NEW o \in Orders, NEW place, Goto(o, place), UNCHANGED <<order, job>>
  PROVE  Moves(o, place, job[o].sim, job[o].old) /\ Keeps(o) /\ order'[o].status = order[o].status
BY DEF TypeOK, Goto, Moves, Keeps

LEMMA EndEffect ==
  ASSUME TypeOK, NEW o \in Orders, Goto(o, "idle"), job' = [job EXCEPT ![o] = NoJob],
         order' = [order EXCEPT ![o].status = "ERROR"]
  PROVE  Moves(o, "idle", NoSim, NoSim) /\ Keeps(o) /\ order'[o].status = "ERROR"
<1>1. pc'[o] = "idle" /\ job'[o] = NoJob /\ NoJob.sim = NoSim /\ NoJob.old = NoSim
  BY DEF TypeOK, Goto, NoJob
<1>2. Keeps(o) /\ order'[o].status = "ERROR"
  BY DEF TypeOK, OrderRow, Keeps
<1>3. QED
  BY <1>1, <1>2 DEF TypeOK, Goto, Moves

(* A SIM step begins: *)
LEMMA SimGivenEffect ==
  ASSUME TypeOK, NEW o \in Orders, SimGiven(o)
  PROVE  /\ Due(o, "SIM") /\ KindOf(o) = "ADD_PLAN"
         /\ order[o].iccid \in Sims /\ sim[order[o].iccid] = "AVAILABLE"
         /\ Begin(o, "attach", order[o].iccid, NoSim) /\ TakeUp(o, order[o].iccid)
BY DEF SimGiven, TypeOK, OrderRow

LEMMA FindFreeEffect ==
  ASSUME TypeOK, NEW o \in Orders, FindFree(o)
  PROVE  /\ Due(o, "SIM") /\ order[o].type = "E_SIM"
         /\ KindOf(o) = "ADD_PLAN" => order[o].iccid = NoSim
         /\ \E s \in Sims : sim[s] = "AVAILABLE" /\ Begin(o, "reserve", s, NoSim) /\ TakeUp(o, s)
BY DEF FindFree, Free, Sims

LEMMA SimNamedEffect ==
  ASSUME TypeOK, NEW o \in Orders, SimNamed(o)
  PROVE  /\ Due(o, "SIM") /\ KindOf(o) = "CHANGE_SIM" /\ order[o].type = "P_SIM" /\ order[o].iccid # NoSim
         /\ Begin(o, "complete", NoSim, NoSim) /\ raced' = raced
BY DEF SimNamed

(* The TELCO step reads the subscription *)
LEMMA ReadSubEffect ==
  ASSUME TypeOK, NEW o \in Orders, ReadSub(o)
  PROVE  /\ Due(o, "TELCO") /\ raced' = raced
         /\ \E s \in Sims : /\ order[o].iccid = s \/ (KindOf(o) = "ADD_PLAN" /\ s = current[SubOf(o)])
                            /\ Begin(o, "activate", s, current[SubOf(o)])
<1>1. SubOf(o) \in Subs
  BY Parts
<1>2. SimToActivate(o) \in Sims
  BY <1>1 DEF ReadSub, SimToActivate, TypeOK, OrderRow
<1>3. /\ order[o].iccid = SimToActivate(o)
         \/ (KindOf(o) = "ADD_PLAN" /\ SimToActivate(o) = current[SubOf(o)])
  BY Parts DEF SimToActivate, Kinds
<1>4. QED
  BY <1>2, <1>3 DEF ReadSub

(* A step goes on *)
LEMMA ReserveEffect ==
  ASSUME TypeOK, NEW o \in Orders, Reserve(o)
  PROVE  /\ pc[o] = "reserve" /\ job[o].sim \in Sims
         /\ Moves(o, IF KindOf(o) = "ADD_PLAN" THEN "attach" ELSE "persist", job[o].sim, job[o].old)
         /\ Keeps(o) /\ order'[o].status = order[o].status
         /\ \A s \in Sims : sim'[s] = IF s = job[o].sim THEN "RESERVED" ELSE sim[s]
         /\ UNCHANGED <<assigned, current, provider, raced, crossed>>
<1>1. Moves(o, IF KindOf(o) = "ADD_PLAN" THEN "attach" ELSE "persist", job[o].sim, job[o].old)
      /\ Keeps(o) /\ order'[o].status = order[o].status
  BY GoEffect DEF Reserve
<1>2. QED
  BY <1>1 DEF Reserve, TypeOK, owners

LEMMA PersistEffect ==
  ASSUME TypeOK, NEW o \in Orders, Persist(o)
  PROVE  /\ pc[o] = "persist" /\ Moves(o, "complete", job[o].sim, job[o].old)
         /\ order'[o].status = order[o].status /\ order'[o].step = order[o].step
         /\ order'[o].type = order[o].type /\ order'[o].iccid = job[o].sim
         /\ Stock /\ UNCHANGED <<raced, crossed>>
<1>1. order'[o] = [order[o] EXCEPT !.iccid = job[o].sim] /\ order[o] \in OrderRow
  BY DEF Persist, TypeOK
<1>2. /\ order'[o].status = order[o].status /\ order'[o].step = order[o].step
      /\ order'[o].type = order[o].type /\ order'[o].iccid = job[o].sim
  BY <1>1 DEF OrderRow
<1>3. Moves(o, "complete", job[o].sim, job[o].old)
  BY DEF Persist, TypeOK, Goto, Moves
<1>4. QED
  BY <1>2, <1>3 DEF Persist, Stock, owners

LEMMA ActivateEffect ==
  ASSUME TypeOK, NEW o \in Orders, Activate(o)
  PROVE  /\ pc[o] = "activate" /\ job[o].sim \in Sims
         /\ Moves(o, IF KindOf(o) = "CHANGE_SIM" \/ job[o].sim # job[o].old THEN "attach" ELSE "complete",
                  job[o].sim, job[o].old)
         /\ Keeps(o) /\ order'[o].status = order[o].status
         /\ \A b \in Subs : provider'[b] = IF b = SubOf(o) THEN job[o].sim ELSE provider[b]
         /\ UNCHANGED <<sim, assigned, current, raced, crossed>>
<1>1. Moves(o, IF KindOf(o) = "CHANGE_SIM" \/ job[o].sim # job[o].old THEN "attach" ELSE "complete",
            job[o].sim, job[o].old)
      /\ Keeps(o) /\ order'[o].status = order[o].status
  BY GoEffect DEF Activate
<1>2. QED
  BY <1>1 DEF Activate, TypeOK, owners

LEMMA AttachEffect ==
  ASSUME TypeOK, NEW o \in Orders, Attach(o)
  PROVE  /\ pc[o] = "attach" /\ job[o].sim \in Sims
         /\ Moves(o, "complete", job[o].sim, job[o].old)
         /\ Keeps(o) /\ order'[o].status = order[o].status
         /\ \A t \in Sims : sim'[t] = IF t = job[o].sim THEN "ASSIGNED"
                                      ELSE IF \E x \in Former(SubOf(o), job[o].sim) : x[2] = t
                                             THEN "RESERVED" ELSE sim[t]
         /\ \A c \in Subs : current'[c] = IF c = SubOf(o) THEN job[o].sim
                                          ELSE IF current[c] = job[o].sim THEN NoSim ELSE current[c]
         /\ UNCHANGED <<provider, raced, crossed>>
<1>1. Moves(o, "complete", job[o].sim, job[o].old) /\ Keeps(o) /\ order'[o].status = order[o].status
  BY GoEffect DEF Attach
<1>2. job[o].sim \in Sims
  BY DEF Attach, TypeOK
<1>3. QED
  BY <1>1, <1>2 DEF Attach

LEMMA CompleteEffect ==
  ASSUME TypeOK, NEW o \in Orders, Complete(o)
  PROVE  /\ pc[o] = "complete" /\ Moves(o, "idle", NoSim, NoSim)
         /\ order'[o].status = IF order[o].step = "SIM" THEN "PENDING" ELSE "DONE"
         /\ order'[o].step = "TELCO"
         /\ order'[o].type = order[o].type /\ order'[o].iccid = order[o].iccid
         /\ Stock /\ UNCHANGED <<raced, crossed>>
<1> DEFINE row == [order[o] EXCEPT !.step = "TELCO",
                                   !.status = IF order[o].step = "SIM" THEN "PENDING" ELSE "DONE"]
<1>1. /\ row.status = IF order[o].step = "SIM" THEN "PENDING" ELSE "DONE"
      /\ row.step = "TELCO" /\ row.type = order[o].type /\ row.iccid = order[o].iccid
  BY DEF TypeOK, OrderRow
<1>2. order' = [order EXCEPT ![o] = row]
  BY DEF Complete
<1> HIDE DEF row
<1>3. order'[o] = row /\ \A p \in Orders \ {o} : order'[p] = order[p]
  BY <1>2 DEF TypeOK
<1>4. Moves(o, "idle", NoSim, NoSim)
  BY <1>3 DEF Complete, Goto, NoJob, Moves, TypeOK
<1>5. QED
  BY <1>1, <1>3, <1>4 DEF Complete, Stock, owners

(* A step is given up *)
LEMMA GivesUpEffect ==
  ASSUME TypeOK, NEW o \in Orders
  PROVE  /\ SimThrows(o) \/ TelcoThrows(o) =>
              /\ order[o].status \in {"PENDING", "ERROR"}
              /\ pc[o] = "idle" /\ Moves(o, "idle", job[o].sim, job[o].old) /\ Keeps(o)
              /\ order'[o].status = "ERROR" /\ Stock /\ UNCHANGED <<raced, crossed>>
         /\ AttachThrows(o) \/ Fail(o) =>
              /\ pc[o] # "idle" /\ Moves(o, "idle", NoSim, NoSim) /\ Keeps(o)
              /\ order'[o].status = "ERROR" /\ Stock /\ UNCHANGED raced
              /\ crossed' = crossed \cup {SubOf(o)}
<1>1. ASSUME SimThrows(o) \/ TelcoThrows(o)
      PROVE  /\ order[o].status \in {"PENDING", "ERROR"}
             /\ pc[o] = "idle" /\ Moves(o, "idle", job[o].sim, job[o].old) /\ Keeps(o)
             /\ order'[o].status = "ERROR" /\ Stock /\ UNCHANGED <<raced, crossed>>
  <2>1. order' = [order EXCEPT ![o].status = "ERROR"] /\ pc[o] = "idle" /\ UNCHANGED <<pc, job>>
    BY <1>1 DEF SimThrows, TelcoThrows, Due
  <2>2. Moves(o, "idle", job[o].sim, job[o].old)
    BY <2>1 DEF Moves, TypeOK
  <2>3. Keeps(o) /\ order'[o].status = "ERROR"
    BY <2>1 DEF Keeps, TypeOK, OrderRow
  <2>4. QED
    BY <1>1, <2>1, <2>2, <2>3 DEF SimThrows, TelcoThrows, Due, Stock, owners
<1>2. ASSUME AttachThrows(o) \/ Fail(o)
      PROVE  /\ pc[o] # "idle" /\ Moves(o, "idle", NoSim, NoSim) /\ Keeps(o)
             /\ order'[o].status = "ERROR" /\ Stock /\ UNCHANGED raced
             /\ crossed' = crossed \cup {SubOf(o)}
  <2>1. Moves(o, "idle", NoSim, NoSim) /\ Keeps(o) /\ order'[o].status = "ERROR"
    BY <1>2, EndEffect DEF AttachThrows, Fail
  <2>2. QED
    BY <1>2, <2>1 DEF AttachThrows, Fail, Stock, owners
<1>3. QED
  BY <1>1, <1>2

(* What users and staff do *)
LEMMA ScanEffect ==
  ASSUME TypeOK, NEW o \in Orders, NEW s \in Sims, Scan(o, s)
  PROVE  /\ KindOf(o) = "ADD_PLAN" /\ order[o].status = "ERROR"
         /\ pc[o] = "idle" /\ Moves(o, "idle", job[o].sim, job[o].old)
         /\ order'[o].status = "ERROR" /\ order'[o].step = order[o].step /\ order'[o].iccid = s
         /\ order[o].step = "TELCO" => s \in raced'
         /\ raced \subseteq raced' /\ Stock /\ crossed' = crossed
<1>1. order' = [order EXCEPT ![o].iccid = s] /\ pc[o] = "idle" /\ UNCHANGED <<pc, job>>
  BY DEF Scan
<1>2. Moves(o, "idle", job[o].sim, job[o].old)
  BY <1>1 DEF Moves, TypeOK
<1>3. order'[o].status = order[o].status /\ order'[o].step = order[o].step /\ order'[o].iccid = s
  BY <1>1 DEF TypeOK, OrderRow
<1>4. QED
  BY <1>1, <1>2, <1>3 DEF Scan, Stock, owners

LEMMA OrderChangeEffect ==
  ASSUME TypeOK, NEW b \in Subs, NEW type \in {"E_SIM", "P_SIM"}, NEW s \in Sims \cup {NoSim},
         OrderChange(b, type, s)
  PROVE  LET o == Change(b) IN
         /\ order[o].status = "NEW"
         /\ Moves(o, pc[o], job[o].sim, job[o].old)
         /\ order'[o].status = "PENDING" /\ order'[o].step = "SIM"
         /\ order'[o].iccid = s /\ order'[o].type = type
         /\ type = "P_SIM" /\ s # NoSim => s \in raced'
         /\ raced \subseteq raced' /\ Stock /\ crossed' = crossed
<1> DEFINE o == Change(b)
<1>1. o \in Orders /\ o = <<"CHANGE_SIM", b>>
  BY Parts DEF Change
<1>2. /\ order' = [order EXCEPT ![o] = [status |-> "PENDING", step |-> "SIM", type |-> type, iccid |-> s]]
      /\ order[o].status = "NEW" /\ UNCHANGED <<pc, job, sim, assigned, current, provider, crossed>>
      /\ raced' = IF type = "P_SIM" /\ s # NoSim THEN raced \cup {s} ELSE raced
  BY <1>1 DEF OrderChange, owners
<1> HIDE DEF o
<1>3. /\ order'[o].status = "PENDING" /\ order'[o].step = "SIM"
      /\ order'[o].iccid = s /\ order'[o].type = type
  BY <1>1, <1>2 DEF TypeOK
<1>4. Moves(o, pc[o], job[o].sim, job[o].old)
  BY <1>1, <1>2 DEF TypeOK, Moves
<1>5. QED
  BY <1>2, <1>3, <1>4 DEF Stock, o

LEMMA ChangeStatusEffect ==
  ASSUME TypeOK, NEW s \in Sims, NEW status \in SimStatus, ChangeStatus(s, status)
  PROVE  /\ sim[s] # "ASSIGNED" /\ \A t \in Sims \ {s} : sim'[t] = sim[t]
         /\ raced \subseteq raced'
         /\ sim[s] = "RESERVED" => s \in raced'
         /\ UNCHANGED <<assigned, current, provider, order, pc, job, crossed>>
BY DEF ChangeStatus, TypeOK, owners

-----------------------------------------------------------------------------
(* Which actions remain, when one is none of those                          *)
Begins(o) == SimGiven(o) \/ FindFree(o) \/ SimNamed(o) \/ ReadSub(o)
GoesOn(o) == Reserve(o) \/ Persist(o) \/ Activate(o) \/ Attach(o) \/ Complete(o)
GivesUp(o) == SimThrows(o) \/ TelcoThrows(o) \/ AttachThrows(o) \/ Fail(o)
ByHand ==
  \/ \E o \in Orders, s \in Sims : Scan(o, s)
  \/ \E b \in Subs, type \in {"E_SIM", "P_SIM"}, s \in Sims \cup {NoSim} : OrderChange(b, type, s)
  \/ \E s \in Sims, status \in SimStatus : ChangeStatus(s, status)

LEMMA ActionsOfNext == Next => (\E o \in Orders : Begins(o) \/ GoesOn(o) \/ GivesUp(o)) \/ ByHand
BY DEF Next, SimStep, TelcoStep, Begins, GoesOn, GivesUp, ByHand

(* Histories only grow *)
LEMMA TakeUpGrows ==
  ASSUME TypeOK, NEW o \in Orders, NEW s \in Sims, TakeUp(o, s)
  PROVE  /\ raced \subseteq raced'
         /\ (\E p \in Orders \ {o} : pc[p] \in {"reserve", "attach"} /\ job[p].sim = s) => s \in raced'
BY DEF TakeUp

LEMMA HistoryGrows == TypeOK /\ [Next]_vars => raced \subseteq raced' /\ crossed \subseteq crossed'
<1> SUFFICES ASSUME TypeOK, [Next]_vars PROVE raced \subseteq raced' /\ crossed \subseteq crossed'
  OBVIOUS
<1>1. ASSUME NEW o \in Orders, Begins(o) PROVE raced \subseteq raced' /\ crossed \subseteq crossed'
  <2>1. raced \subseteq raced'
    BY <1>1, SimGivenEffect, FindFreeEffect, SimNamedEffect, ReadSubEffect, TakeUpGrows DEF Begins
  <2>2. PICK place, s, old : Begin(o, place, s, old)
    BY <1>1, SimGivenEffect, FindFreeEffect, SimNamedEffect, ReadSubEffect DEF Begins
  <2>3. QED
    BY <2>1, <2>2, BeginEffect
<1>2. ASSUME NEW o \in Orders, GoesOn(o) PROVE raced \subseteq raced' /\ crossed \subseteq crossed'
  BY <1>2, ReserveEffect, PersistEffect, ActivateEffect, AttachEffect, CompleteEffect DEF GoesOn
<1>3. ASSUME NEW o \in Orders, GivesUp(o) PROVE raced \subseteq raced' /\ crossed \subseteq crossed'
  BY <1>3, GivesUpEffect DEF GivesUp
<1>4. CASE ByHand
  BY <1>4, ScanEffect, OrderChangeEffect, ChangeStatusEffect DEF ByHand
<1>5. CASE UNCHANGED vars
  BY <1>5 DEF vars
<1>6. QED
  BY <1>1, <1>2, <1>3, <1>4, <1>5, ActionsOfNext

-----------------------------------------------------------------------------
(* OrderFits: what the row and the local variables of an order say of each  *)
(* other                                                                    *)
LEMMA OthersFit ==
  ASSUME NEW p \in Orders, OrderFits(p), pc'[p] = pc[p], job'[p] = job[p], order'[p] = order[p],
         raced \subseteq raced'
  PROVE  OrderFits(p)'
BY DEF OrderFits

LEMMA NextOrderFits ==
  TypeOK /\ (\A o \in Orders : OrderFits(o)) /\ [Next]_vars => \A o \in Orders : OrderFits(o)'
<1> SUFFICES ASSUME TypeOK, \A o \in Orders : OrderFits(o), [Next]_vars
             PROVE  \A o \in Orders : OrderFits(o)'
  OBVIOUS
<1> DEFINE Goal == \A o \in Orders : OrderFits(o)'
<1>1. raced \subseteq raced'
  BY HistoryGrows
<1>2. ASSUME NEW o \in Orders, NEW place, NEW s, NEW old, Moves(o, place, s, old), OrderFits(o)'
      PROVE  Goal
  BY <1>1, <1>2, OthersFit DEF Moves
<1> SUFFICES Goal
  OBVIOUS
<1> HIDE DEF Goal
<1>3. ASSUME NEW o \in Orders, Begins(o) PROVE Goal
  <2>1. CASE SimGiven(o)
    <3>1. /\ order[o].step = "SIM" /\ KindOf(o) = "ADD_PLAN"
          /\ Moves(o, "attach", order[o].iccid, NoSim) /\ Keeps(o) /\ order'[o].status = "PENDING"
      BY <2>1, SimGivenEffect, BeginEffect DEF Due
    <3>2. OrderFits(o)'
      BY <3>1 DEF OrderFits, Moves, Keeps
    <3>3. QED
      BY <1>2, <3>1, <3>2
  <2>2. CASE FindFree(o)
    <3>1. PICK s \in Sims : Begin(o, "reserve", s, NoSim)
      BY <2>2, FindFreeEffect
    <3>2. /\ order[o].step = "SIM" /\ order[o].type = "E_SIM"
          /\ KindOf(o) = "ADD_PLAN" => order[o].iccid = NoSim
          /\ Moves(o, "reserve", s, NoSim) /\ Keeps(o) /\ order'[o].status = "PENDING"
      BY <2>2, <3>1, FindFreeEffect, BeginEffect DEF Due
    <3>3. OrderFits(o)'
      BY <3>2 DEF OrderFits, Moves, Keeps
    <3>4. QED
      BY <1>2, <3>2, <3>3
  <2>3. CASE SimNamed(o)
    <3>1. /\ Moves(o, "complete", NoSim, NoSim) /\ Keeps(o) /\ order'[o].status = "PENDING"
      BY <2>3, SimNamedEffect, BeginEffect
    <3>2. OrderFits(o)'
      BY <1>1, <3>1 DEF OrderFits, Moves, Keeps
    <3>3. QED
      BY <1>2, <3>1, <3>2
  <2>4. CASE ReadSub(o)
    <3>1. PICK s \in Sims : /\ order[o].iccid = s \/ (KindOf(o) = "ADD_PLAN" /\ s = current[SubOf(o)])
                            /\ Begin(o, "activate", s, current[SubOf(o)])
      BY <2>4, ReadSubEffect
    <3>2. /\ order[o].step = "TELCO"
          /\ Moves(o, "activate", s, current[SubOf(o)]) /\ Keeps(o) /\ order'[o].status = "PENDING"
      BY <2>4, <3>1, ReadSubEffect, BeginEffect DEF Due
    <3>3. OrderFits(o)'
      BY <1>1, <3>1, <3>2 DEF OrderFits, Moves, Keeps
    <3>4. QED
      BY <1>2, <3>2, <3>3
  <2>5. QED
    BY <1>3, <2>1, <2>2, <2>3, <2>4 DEF Begins
<1>4. ASSUME NEW o \in Orders, GoesOn(o) PROVE Goal
  <2>1. CASE Reserve(o)
    <3>1. OrderFits(o)'
      BY <1>1, <2>1, ReserveEffect, Parts DEF OrderFits, Moves, Keeps, Kinds
    <3>2. QED
      BY <1>2, <2>1, <3>1, ReserveEffect
  <2>2. CASE Persist(o)
    <3>1. OrderFits(o)'
      BY <1>1, <2>2, PersistEffect DEF OrderFits, Moves
    <3>2. QED
      BY <1>2, <2>2, <3>1, PersistEffect
  <2>3. CASE Activate(o)
    <3>1. OrderFits(o)'
      BY <1>1, <2>3, ActivateEffect DEF OrderFits, Moves, Keeps
    <3>2. QED
      BY <1>2, <2>3, <3>1, ActivateEffect
  <2>4. CASE Attach(o)
    <3>1. OrderFits(o)'
      BY <1>1, <2>4, AttachEffect DEF OrderFits, Moves, Keeps
    <3>2. QED
      BY <1>2, <2>4, <3>1, AttachEffect
  <2>5. CASE Complete(o)
    <3>1. OrderFits(o)'
      BY <1>1, <2>5, CompleteEffect DEF OrderFits, Moves
    <3>2. QED
      BY <1>2, <2>5, <3>1, CompleteEffect
  <2>6. QED
    BY <1>4, <2>1, <2>2, <2>3, <2>4, <2>5 DEF GoesOn
<1>5. ASSUME NEW o \in Orders, GivesUp(o) PROVE Goal
  <2>1. PICK s, old : Moves(o, "idle", s, old) /\ Keeps(o) /\ order'[o].status = "ERROR"
    BY <1>5, GivesUpEffect DEF GivesUp
  <2>2. OrderFits(o)'
    BY <1>1, <2>1 DEF OrderFits, Moves, Keeps
  <2>3. QED
    BY <1>2, <2>1, <2>2
<1>6. CASE ByHand
  <2>1. ASSUME NEW o \in Orders, NEW s \in Sims, Scan(o, s) PROVE Goal
    <3>1. OrderFits(o)'
      BY <2>1, ScanEffect, Parts DEF OrderFits, Moves
    <3>2. QED
      BY <1>2, <2>1, <3>1, ScanEffect
  <2>2. ASSUME NEW b \in Subs, NEW type \in {"E_SIM", "P_SIM"}, NEW s \in Sims \cup {NoSim},
               OrderChange(b, type, s)
        PROVE  Goal
    <3>1. PICK o \in Orders : o = Change(b) /\ KindOf(o) = "CHANGE_SIM"
      BY Parts
    <3>2. /\ order[o].status = "NEW" /\ Moves(o, pc[o], job[o].sim, job[o].old)
          /\ order'[o].status = "PENDING" /\ order'[o].step = "SIM"
          /\ order'[o].iccid = s /\ order'[o].type = type
          /\ type = "P_SIM" /\ s # NoSim => s \in raced'
      BY <2>2, <3>1, OrderChangeEffect
    <3>3. pc[o] = "idle"
      BY <3>2 DEF OrderFits
    <3>4. OrderFits(o)'
      BY <3>1, <3>2, <3>3 DEF OrderFits, Moves
    <3>5. QED
      BY <1>2, <3>2, <3>4
  <2>3. ASSUME NEW s \in Sims, NEW status \in SimStatus, ChangeStatus(s, status) PROVE Goal
    BY <1>1, <2>3, ChangeStatusEffect, OthersFit DEF Goal
  <2>4. QED
    BY <1>6, <2>1, <2>2, <2>3 DEF ByHand
<1>7. CASE UNCHANGED vars
  BY <1>1, <1>7, OthersFit DEF vars, Goal
<1>8. QED
  BY <1>3, <1>4, <1>5, <1>6, <1>7, ActionsOfNext

-----------------------------------------------------------------------------
(* Unraced: whose a SIM is                                                  *)
LEMMA SameClaims ==
  ASSUME NEW p \in Orders, NEW s, pc'[p] = pc[p], job'[p] = job[p], order'[p] = order[p]
  PROVE  (Claims(p, s)' <=> Claims(p, s)) /\ (Firm(p, s)' <=> Firm(p, s))
BY DEF Claims, Firm, Bound

(* No new claim, and the stock of s as before *)
LEMMA UnracedStays ==
  ASSUME NEW s \in Sims, Unraced(s), sim'[s] = sim[s],
         \A b \in Subs : current'[b] = s => current[b] = s,
         \A p \in Orders : /\ Claims(p, s)' => Claims(p, s) /\ (pc'[p] = "reserve" => pc[p] = "reserve")
                           /\ Firm(p, s)' => Firm(p, s)
  PROVE  Unraced(s)'
<1>1. \A p \in Orders : Firm(p, s)' => sim'[s] \in {"RESERVED", "ASSIGNED"}
  BY DEF Unraced
<1>2. \A p, q \in Orders : Claims(p, s)' /\ Claims(q, s)' => p = q
  BY DEF Unraced
<1>3. ASSUME NEW b \in Subs, current'[b] = s
      PROVE  /\ sim'[s] = "ASSIGNED"
             /\ \A p \in Orders : Claims(p, s)' => SubOf(p) = b /\ pc'[p] # "reserve"
  BY <1>3 DEF Unraced
<1>4. QED
  BY <1>1, <1>2, <1>3 DEF Unraced

LEMMA UnracedMoves ==
  ASSUME NEW s \in Sims, Unraced(s), sim'[s] = sim[s],
         \A b \in Subs : current'[b] = s => current[b] = s,
         NEW o \in Orders, NEW place, NEW mine, NEW old, Moves(o, place, mine, old),
         Claims(o, s)' => Claims(o, s) /\ (place = "reserve" => pc[o] = "reserve"),
         Firm(o, s)' => Firm(o, s)
  PROVE  Unraced(s)'
<1>1. ASSUME NEW p \in Orders
      PROVE  /\ Claims(p, s)' => Claims(p, s) /\ (pc'[p] = "reserve" => pc[p] = "reserve")
             /\ Firm(p, s)' => Firm(p, s)
  <2>1. CASE p = o
    BY <2>1 DEF Moves
  <2>2. CASE p # o
    BY <2>2, SameClaims DEF Moves
  <2>3. QED
    BY <2>1, <2>2
<1>2. QED
  BY <1>1, UnracedStays

(* An order takes s for AVAILABLE, the first to do so *)
LEMMA UnracedTaken ==
  ASSUME TypeOK, NEW s \in Sims, Unraced(s), sim[s] = "AVAILABLE", NEW o \in Orders,
         NEW place \in {"reserve", "attach"}, Begin(o, place, s, NoSim), Due(o, "SIM"),
         TakeUp(o, s), s \notin raced'
  PROVE  Unraced(s)'
<1>1. /\ Moves(o, place, s, NoSim) /\ Keeps(o) /\ Stock
      /\ order[o].step = "SIM"
  BY BeginEffect DEF Due
<1>2. \A b \in Subs : current[b] # s
  BY DEF Unraced
<1>3. \A p \in Orders : ~Firm(p, s)
  BY DEF Unraced
<1>4. \A p \in Orders \ {o} : ~(pc[p] \in {"reserve", "attach"} /\ job[p].sim = s)
  BY TakeUpGrows
<1>5. \A p \in Orders \ {o} : ~Claims(p, s)
  BY <1>3, <1>4 DEF Claims, Firm
<1>6. \A p \in Orders \ {o} : ~Claims(p, s)' /\ ~Firm(p, s)'
  BY <1>1, <1>3, <1>5, SameClaims DEF Moves
<1>7. ~Firm(o, s)'
  BY <1>1 DEF Firm, Bound, Moves, Keeps
<1>8. QED
  BY <1>1, <1>2, <1>6, <1>7 DEF Unraced, Stock

(* The SIM that an order marks RESERVED has nobody *)
LEMMA UnracedReserved ==
  ASSUME TypeOK, NEW o \in Orders, OrderFits(o), Reserve(o), NEW s \in Sims, Unraced(s)
  PROVE  Unraced(s)'
<1>1. /\ pc[o] = "reserve" /\ job[o].sim \in Sims
      /\ Moves(o, IF KindOf(o) = "ADD_PLAN" THEN "attach" ELSE "persist", job[o].sim, job[o].old)
      /\ Keeps(o) /\ \A t \in Sims : sim'[t] = IF t = job[o].sim THEN "RESERVED" ELSE sim[t]
      /\ current' = current
  BY ReserveEffect
<1>2. order[o].step = "SIM"
  BY <1>1 DEF OrderFits
<1>3. CASE s = job[o].sim
  <2>1. Claims(o, s)
    BY <1>1, <1>3 DEF Claims
  <2>2. \A b \in Subs : current[b] # s
    BY <1>1, <2>1 DEF Unraced
  <2>3. \A p \in Orders \ {o} : ~Claims(p, s)' /\ ~Firm(p, s)'
    BY <1>1, <2>1, SameClaims DEF Unraced, Claims, Firm, Moves
  <2>4. sim'[s] = "RESERVED"
    BY <1>1, <1>3
  <2>5. QED
    BY <1>1, <2>2, <2>3, <2>4 DEF Unraced
<1>4. CASE s # job[o].sim
  <2>1. ~Claims(o, s)' /\ ~Firm(o, s)'
    BY <1>1, <1>2, <1>4 DEF Claims, Firm, Bound, Moves, Keeps
  <2>2. sim'[s] = sim[s] /\ \A b \in Subs : current'[b] = s => current[b] = s
    BY <1>1, <1>4
  <2>3. QED
    BY <1>1, <2>1, <2>2, UnracedMoves
<1>5. QED
  BY <1>3, <1>4

LEMMA UnracedAttached ==
  ASSUME TypeOK, OneOwner, NEW o \in Orders, OrderFits(o), Attach(o), NEW s \in Sims, Unraced(s)
  PROVE  Unraced(s)'
<1> DEFINE b == SubOf(o)
<1>1. /\ pc[o] = "attach" /\ job[o].sim \in Sims
      /\ Moves(o, "complete", job[o].sim, job[o].old) /\ Keeps(o)
      /\ sim'[s] = IF s = job[o].sim THEN "ASSIGNED"
                   ELSE IF \E x \in Former(b, job[o].sim) : x[2] = s THEN "RESERVED" ELSE sim[s]
      /\ \A c \in Subs : current'[c] = IF c = b THEN job[o].sim
                                       ELSE IF current[c] = job[o].sim THEN NoSim ELSE current[c]
  BY AttachEffect
<1>2. b \in Subs /\ s # NoSim
  BY Parts, InventoryAssumption DEF Sims
<1>3. order[o].iccid \in {job[o].sim, NoSim}
  BY <1>1 DEF OrderFits
<1> HIDE DEF b
<1>4. CASE s = job[o].sim
  <2>1. Claims(o, s)
    BY <1>1, <1>4 DEF Claims
  <2>2. \A p \in Orders \ {o} : ~Claims(p, s)' /\ ~Firm(p, s)'
    BY <1>1, <2>1, SameClaims DEF Unraced, Claims, Firm, Moves
  <2>3. sim'[s] = "ASSIGNED"
    BY <1>1, <1>4
  <2>4. \A c \in Subs : current'[c] = s => c = b
    BY <1>1, <1>2, <1>4
  <2>5. SubOf(o) = b /\ pc'[o] # "reserve"
    BY <1>1 DEF Moves, b
  <2>6. QED
    BY <2>2, <2>3, <2>4, <2>5 DEF Unraced
<1>5. CASE s # job[o].sim
  <2>1. ~Claims(o, s)' /\ ~Firm(o, s)'
    BY <1>1, <1>2, <1>3, <1>5 DEF Claims, Firm, Bound, Moves, Keeps
  <2>2. \A c \in Subs : current'[c] = s => current[c] = s /\ c # b
    BY <1>1, <1>2, <1>5
  <2>3. CASE \E x \in Former(b, job[o].sim) : x[2] = s
    <3>1. <<b, s>> \in assigned
      BY <1>5, <2>3 DEF Former, TypeOK
    <3>2. current[b] = s
      BY <1>2, <3>1 DEF OneOwner
    <3>3. \A c \in Subs : current'[c] # s
      BY <1>2, <2>2, <3>2 DEF OneOwner
    <3>4. sim'[s] = "RESERVED"
      BY <1>1, <1>5, <2>3
    <3>5. \A p \in Orders : Claims(p, s)' => Claims(p, s)
      BY <1>1, <2>1, SameClaims DEF Moves
    <3>6. QED
      BY <3>3, <3>4, <3>5 DEF Unraced
  <2>4. CASE ~ \E x \in Former(b, job[o].sim) : x[2] = s
    <3>1. sim'[s] = sim[s]
      BY <1>1, <1>5, <2>4
    <3>2. QED
      BY <1>1, <2>1, <2>2, <3>1, UnracedMoves
  <2>5. QED
    BY <2>3, <2>4
<1>6. QED
  BY <1>4, <1>5

LEMMA NextUnraced ==
  ASSUME TypeOK, OneOwner, Tracked, [Next]_vars, NEW s \in Sims, s \notin raced'
  PROVE  Unraced(s)'
<1>1. s \notin raced /\ Unraced(s)
  BY HistoryGrows DEF Tracked
<1>2. \A o \in Orders : OrderFits(o)
  BY DEF Tracked
<1>3. s # NoSim
  BY InventoryAssumption DEF Sims
<1>4. ASSUME Stock,
             NEW o \in Orders, NEW place, NEW mine, NEW old, Moves(o, place, mine, old),
             Claims(o, s)' => Claims(o, s) /\ (place = "reserve" => pc[o] = "reserve"),
             Firm(o, s)' => Firm(o, s)
      PROVE  Unraced(s)'
  BY <1>1, <1>4, UnracedMoves DEF Stock
<1>5. ASSUME NEW o \in Orders, Begins(o) PROVE Unraced(s)'
  <2>1. ASSUME NEW mine \in Sims, NEW place \in {"reserve", "attach"}, Begin(o, place, mine, NoSim),
               sim[mine] = "AVAILABLE", Due(o, "SIM"), TakeUp(o, mine)
        PROVE  Unraced(s)'
    <3>1. CASE s = mine
      BY <1>1, <2>1, <3>1, UnracedTaken
    <3>2. CASE s # mine
      <4>1. Moves(o, place, mine, NoSim) /\ Keeps(o) /\ Stock /\ order[o].step = "SIM"
        BY <2>1, BeginEffect DEF Due
      <4>2. ~Claims(o, s)' /\ ~Firm(o, s)'
        BY <3>2, <4>1 DEF Claims, Firm, Bound, Moves, Keeps
      <4>3. QED
        BY <1>4, <4>1, <4>2
    <3>3. QED
      BY <3>1, <3>2
  <2>2. CASE SimGiven(o)
    BY <2>1, <2>2, SimGivenEffect
  <2>3. CASE FindFree(o)
    BY <2>1, <2>3, FindFreeEffect
  <2>4. CASE SimNamed(o)
    <3>1. Moves(o, "complete", NoSim, NoSim) /\ Keeps(o) /\ Stock
      BY <2>4, SimNamedEffect, BeginEffect
    <3>2. order[o].iccid # s
      BY <1>1, <1>2, <2>4, SimNamedEffect DEF OrderFits
    <3>3. ~Claims(o, s)' /\ ~Firm(o, s)'
      BY <3>1, <3>2 DEF Claims, Firm, Bound, Moves, Keeps
    <3>4. QED
      BY <1>4, <3>1, <3>3
  <2>5. CASE ReadSub(o)
    <3>1. PICK mine, old : Begin(o, "activate", mine, old)
      BY <2>5, ReadSubEffect
    <3>2. Moves(o, "activate", mine, old) /\ Keeps(o) /\ Stock
      BY <3>1, BeginEffect
    <3>3. (Claims(o, s)' => Claims(o, s)) /\ (Firm(o, s)' => Firm(o, s))
      BY <3>2 DEF Claims, Firm, Bound, Moves, Keeps
    <3>4. QED
      BY <1>4, <3>2, <3>3
  <2>6. QED
    BY <1>5, <2>2, <2>3, <2>4, <2>5 DEF Begins
<1>6. ASSUME NEW o \in Orders, GoesOn(o) PROVE Unraced(s)'
  <2>1. CASE Reserve(o)
    BY <1>1, <1>2, <2>1, UnracedReserved
  <2>2. CASE Attach(o)
    BY <1>1, <1>2, <2>2, UnracedAttached
  <2>3. CASE Persist(o)
    <3>1. /\ pc[o] = "persist" /\ Moves(o, "complete", job[o].sim, job[o].old)
          /\ order'[o].step = order[o].step /\ order'[o].iccid = job[o].sim /\ Stock
      BY <2>3, PersistEffect
    <3>2. (Claims(o, s)' => Claims(o, s)) /\ (Firm(o, s)' => Firm(o, s))
      BY <3>1 DEF Claims, Firm, Bound, Moves
    <3>3. QED
      BY <1>4, <3>1, <3>2
  <2>4. CASE Activate(o)
    <3>1. PICK place \in {"attach", "complete"} :
            /\ pc[o] = "activate" /\ Moves(o, place, job[o].sim, job[o].old) /\ Keeps(o)
            /\ place = "attach" => KindOf(o) = "CHANGE_SIM" \/ job[o].sim # job[o].old
            /\ sim' = sim /\ current' = current
      BY <2>4, ActivateEffect
    <3>2. order[o].step = "TELCO" /\ (place = "attach" => order[o].iccid = job[o].sim)
      BY <1>2, <3>1 DEF OrderFits
    <3>3. (Claims(o, s)' => Claims(o, s)) /\ (Firm(o, s)' => Firm(o, s))
      BY <3>1, <3>2 DEF Claims, Firm, Bound, Moves, Keeps
    <3>4. QED
      BY <1>1, <3>1, <3>3, UnracedMoves
  <2>5. CASE Complete(o)
    <3>1. /\ pc[o] = "complete" /\ Moves(o, "idle", NoSim, NoSim)
          /\ order'[o].iccid = order[o].iccid /\ Stock
      BY <2>5, CompleteEffect
    <3>2. (Claims(o, s)' => Claims(o, s)) /\ (Firm(o, s)' => Firm(o, s))
      BY <3>1 DEF Claims, Firm, Bound, Moves
    <3>3. QED
      BY <1>4, <3>1, <3>2
  <2>6. QED
    BY <1>6, <2>1, <2>2, <2>3, <2>4, <2>5 DEF GoesOn
<1>7. ASSUME NEW o \in Orders, GivesUp(o) PROVE Unraced(s)'
  <2>1. PICK mine, old : Moves(o, "idle", mine, old) /\ Keeps(o) /\ Stock
    BY <1>7, GivesUpEffect DEF GivesUp
  <2>2. (Claims(o, s)' => Claims(o, s)) /\ (Firm(o, s)' => Firm(o, s))
    BY <2>1 DEF Claims, Firm, Bound, Moves, Keeps
  <2>3. QED
    BY <1>4, <2>1, <2>2
<1>8. CASE ByHand
  <2>1. ASSUME NEW o \in Orders, NEW t \in Sims, Scan(o, t) PROVE Unraced(s)'
    <3>1. /\ Moves(o, "idle", job[o].sim, job[o].old) /\ Stock
          /\ order'[o].step = order[o].step /\ order'[o].iccid = t
          /\ order[o].step = "TELCO" => t \in raced'
      BY <2>1, ScanEffect
    <3>2. ~Claims(o, s)' /\ ~Firm(o, s)'
      BY <3>1 DEF Claims, Firm, Bound, Moves
    <3>3. QED
      BY <1>4, <3>1, <3>2
  <2>2. ASSUME NEW b \in Subs, NEW type \in {"E_SIM", "P_SIM"}, NEW t \in Sims \cup {NoSim},
               OrderChange(b, type, t)
        PROVE  Unraced(s)'
    <3>1. PICK o \in Orders : o = Change(b)
      BY Parts
    <3>2. /\ order[o].status = "NEW" /\ Moves(o, pc[o], job[o].sim, job[o].old) /\ Stock
          /\ order'[o].step = "SIM"
      BY <2>2, <3>1, OrderChangeEffect
    <3>3. pc[o] = "idle"
      BY <1>2, <3>2 DEF OrderFits
    <3>4. ~Claims(o, s)' /\ ~Firm(o, s)'
      BY <3>2, <3>3 DEF Claims, Firm, Bound, Moves
    <3>5. QED
      BY <1>4, <3>2, <3>4
  <2>3. ASSUME NEW t \in Sims, NEW status \in SimStatus, ChangeStatus(t, status) PROVE Unraced(s)'
    <3>1. /\ \A x \in Sims \ {t} : sim'[x] = sim[x]
          /\ UNCHANGED <<current, order, pc, job>>
      BY <2>3, ChangeStatusEffect
    <3>2. \A p \in Orders : (Claims(p, s)' <=> Claims(p, s)) /\ (Firm(p, s)' <=> Firm(p, s))
      BY <3>1, SameClaims
    <3>3. CASE s = t
      <4>1. /\ \A p \in Orders : ~Firm(p, s)
            /\ \A b \in Subs : current[b] # s
        BY <1>1, <2>3, <3>3, ChangeStatusEffect DEF Unraced
      <4>2. QED
        BY <1>1, <3>1, <3>2, <4>1 DEF Unraced
    <3>4. CASE s # t
      BY <1>1, <3>1, <3>2, <3>4, UnracedStays
    <3>5. QED
      BY <3>3, <3>4
  <2>4. QED
    BY <1>8, <2>1, <2>2, <2>3 DEF ByHand
<1>9. CASE UNCHANGED vars
  <2>1. UNCHANGED <<sim, current, pc, job, order>>
    BY <1>9 DEF vars
  <2>2. \A p \in Orders : (Claims(p, s)' <=> Claims(p, s)) /\ (Firm(p, s)' <=> Firm(p, s))
    BY <2>1, SameClaims
  <2>3. QED
    BY <1>1, <2>1, <2>2, UnracedStays
<1>10. QED
  BY <1>5, <1>6, <1>7, <1>8, <1>9, ActionsOfNext

-----------------------------------------------------------------------------
(* NotTaken: who attaches a SIM that another subscription has claims it, so  *)
(* that it is in raced                                                      *)
LEMMA Taking ==
  ASSUME TypeOK, Tracked, NEW o \in Orders, Attach(o), NEW b \in Subs, b # SubOf(o)
  PROVE  current'[b] = current[b] \/ (current'[b] = NoSim /\ current[b] \in raced)
<1>1. /\ pc[o] = "attach" /\ job[o].sim \in Sims
      /\ current'[b] = IF current[b] = job[o].sim THEN NoSim ELSE current[b]
  BY AttachEffect
<1>2. Claims(o, job[o].sim)
  BY <1>1 DEF Claims
<1>3. current[b] = job[o].sim => job[o].sim \in raced
  BY <1>1, <1>2 DEF Tracked, Unraced
<1>4. QED
  BY <1>1, <1>3

LEMMA CurrentChanges ==
  ASSUME TypeOK, Tracked, [Next]_vars, NEW b \in Subs
  PROVE  \/ current'[b] = current[b]
         \/ current'[b] = NoSim /\ current[b] \in raced
         \/ \E o \in Orders : Attach(o) /\ SubOf(o) = b /\ current'[b] \in Sims
<1>1. ASSUME NEW o \in Orders, Attach(o) PROVE
         \/ current'[b] = current[b]
         \/ current'[b] = NoSim /\ current[b] \in raced
         \/ Attach(o) /\ SubOf(o) = b /\ current'[b] \in Sims
  BY <1>1, Taking, AttachEffect
<1>2. CASE Next /\ ~ \E o \in Orders : Attach(o)
  BY <1>2 DEF Next, SimStep, TelcoStep, SimGiven, FindFree, Reserve, Persist, SimNamed, SimThrows,
              ReadSub, TelcoThrows, Activate, AttachThrows, Complete, Fail, Scan, OrderChange,
              ChangeStatus, Begin, owners
<1>3. CASE UNCHANGED vars
  BY <1>3 DEF vars
<1>4. QED
  BY <1>1, <1>2, <1>3

-----------------------------------------------------------------------------
(* Uncrossed: what the provider knows.  An order of b that moves is the only *)
(* one that does, and for the rest of b nothing changes but that its SIM may *)
(* be taken.                                                                *)
SameProvider(b) == provider'[b] = provider[b]

SameSim(b) == current'[b] = current[b] \/ (current'[b] = NoSim /\ current[b] \in raced)

LEMMA AgreesStays ==
  ASSUME NEW b \in Subs, SameProvider(b), SameSim(b), raced \subseteq raced', Agrees(b)
  PROVE  Agrees(b)'
BY DEF Agrees, SameProvider, SameSim

LEMMA UncrossedStays ==
  ASSUME NEW b \in Subs, Uncrossed(b), SameProvider(b), SameSim(b), raced \subseteq raced',
         \A o \in {Add(b), Change(b)} :
           /\ pc'[o] = pc[o] /\ job'[o].sim = job[o].sim /\ job'[o].old = job[o].old
           /\ order'[o].step \in {order[o].step, "SIM"},
         order'[Add(b)].step = order[Add(b)].step, order'[Add(b)].status = order[Add(b)].status
  PROVE  Uncrossed(b)'
<1>1. Agrees(b) => Agrees(b)'
  BY AgreesStays
<1>2. job[Add(b)].old \in {current[b], NoSim} \cup raced
        => job'[Add(b)].old \in {current'[b], NoSim} \cup raced'
  BY DEF SameSim
<1>3. QED
  BY <1>1, <1>2 DEF Uncrossed, SameProvider

(* An order of b begins a step *)
LEMMA UncrossedBegins ==
  ASSUME TypeOK, NEW b \in Subs, Uncrossed(b), OrderFits(Add(b)), OrderFits(Change(b)),
         NEW o \in Orders, SubOf(o) = b, Begins(o), b \notin crossed', raced \subseteq raced'
  PROVE  Uncrossed(b)'
<1>1. PICK place, s, old :
        /\ place \in {"attach", "reserve", "complete", "activate"}
        /\ Begin(o, place, s, old)
        /\ order[o].status \in {"PENDING", "ERROR"} /\ pc[o] = "idle"
        /\ place = "attach" => KindOf(o) = "ADD_PLAN" /\ order[o].step = "SIM"
        /\ place = "complete" => KindOf(o) = "CHANGE_SIM"
        /\ place = "activate" => old = current[b]
  BY SimGivenEffect, FindFreeEffect, SimNamedEffect, ReadSubEffect DEF Begins, Due
<1>2. /\ Moves(o, place, s, old) /\ Keeps(o) /\ order'[o].status = "PENDING" /\ Stock
      /\ \A p \in Orders \ {o} : SubOf(p) = SubOf(o) => order[p].status \notin {"PENDING", "ERROR"}
  BY <1>1, BeginEffect
<1>3. /\ Add(b) \in Orders /\ SubOf(Add(b)) = b /\ Change(b) \in Orders /\ SubOf(Change(b)) = b
      /\ Add(b) # Change(b) /\ KindOf(Add(b)) = "ADD_PLAN" /\ KindOf(Change(b)) = "CHANGE_SIM"
      /\ o \in {Add(b), Change(b)}
  BY Parts
<1>4. Agrees(b) => Agrees(b)'
  BY <1>2, AgreesStays DEF Stock, SameProvider, SameSim
<1>5. CASE o = Add(b)
  <2>1. pc[Change(b)] = "idle" /\ order[Change(b)].step # "TELCO"
    BY <1>1, <1>5 DEF Uncrossed
  <2>2. pc'[Change(b)] = pc[Change(b)] /\ order'[Change(b)] = order[Change(b)]
    BY <1>2, <1>3, <1>5 DEF Moves
  <2>3. QED
    BY <1>1, <1>2, <1>3, <1>5, <2>1, <2>2 DEF Uncrossed, Moves, Keeps, Stock
<1>6. CASE o = Change(b)
  <2>1. order[Add(b)].status = "DONE"
    BY <1>2, <1>3, <1>6 DEF OrderFits, TypeOK, OrderRow
  <2>2. pc[Add(b)] = "idle"
    BY <1>3, <2>1 DEF OrderFits
  <2>3. Agrees(b)'
    BY <1>1, <1>4, <1>6, <2>1 DEF Uncrossed
  <2>4. pc'[Add(b)] = "idle" /\ order'[Add(b)] = order[Add(b)]
    BY <1>2, <1>3, <1>6, <2>2 DEF Moves
  <2>5. QED
    BY <1>1, <1>2, <1>3, <1>6, <2>1, <2>3, <2>4 DEF Uncrossed, Moves
<1>7. QED
  BY <1>3, <1>5, <1>6

(* and goes on *)
LEMMA UncrossedGoesOn ==
  ASSUME TypeOK, NEW b \in Subs, Uncrossed(b), \A p \in Orders : OrderFits(p),
         NEW o \in Orders, SubOf(o) = b, GoesOn(o)
  PROVE  Uncrossed(b)'
<1>1. /\ Add(b) \in Orders /\ SubOf(Add(b)) = b /\ Change(b) \in Orders /\ SubOf(Change(b)) = b
      /\ Add(b) # Change(b) /\ KindOf(Add(b)) = "ADD_PLAN" /\ KindOf(Change(b)) = "CHANGE_SIM"
      /\ o \in {Add(b), Change(b)}
  BY Parts
<1>2. order[o].status = "PENDING"
  BY DEF OrderFits, GoesOn, Reserve, Persist, Activate, Attach, Complete
<1>3. pc[o] # "idle"
  BY DEF GoesOn, Reserve, Persist, Activate, Attach, Complete
<1>4. o = Add(b) => pc[Change(b)] = "idle" /\ order[Change(b)].step # "TELCO"
  BY <1>2 DEF Uncrossed
<1>5. o = Change(b) => order[Add(b)].status = "DONE" /\ pc[Add(b)] = "idle"
  BY <1>1, <1>3 DEF Uncrossed, OrderFits
<1>6. ASSUME NEW p \in {Add(b), Change(b)}, p # o, NEW place, NEW s, NEW old, Moves(o, place, s, old)
      PROVE  pc'[p] = pc[p] /\ job'[p] = job[p] /\ order'[p] = order[p]
  BY <1>1, <1>6 DEF Moves
<1>7. CASE Reserve(o)
  <2>1. PICK place \in {"attach", "persist"} :
          /\ pc[o] = "reserve" /\ Moves(o, place, job[o].sim, job[o].old)
          /\ Keeps(o) /\ order'[o].status = order[o].status
          /\ place = "attach" => KindOf(o) = "ADD_PLAN"
          /\ UNCHANGED <<current, provider, raced>>
    BY <1>7, ReserveEffect
  <2>2. order[o].step = "SIM"
    BY <2>1 DEF OrderFits
  <2>3. pc'[o] = place /\ order'[o].step = "SIM" /\ order'[o].status = "PENDING"
    BY <1>2, <2>1, <2>2 DEF Moves, Keeps
  <2>4. Agrees(b)' <=> Agrees(b)
    BY <2>1 DEF Agrees
  <2>5. CASE o = Add(b)
    BY <1>1, <1>4, <1>6, <2>1, <2>3, <2>5 DEF Uncrossed
  <2>6. CASE o = Change(b)
    BY <1>1, <1>5, <1>6, <2>1, <2>3, <2>4, <2>6 DEF Uncrossed
  <2>7. QED
    BY <1>1, <2>5, <2>6
<1>8. CASE Persist(o)
  <2>1. /\ pc[o] = "persist" /\ Moves(o, "complete", job[o].sim, job[o].old)
        /\ order'[o].status = order[o].status /\ order'[o].step = order[o].step
        /\ UNCHANGED <<current, provider, raced>>
    BY <1>8, PersistEffect DEF Stock
  <2>2. o = Change(b)
    BY <1>1, <2>1 DEF OrderFits
  <2>3. pc'[o] = "complete" /\ (Agrees(b)' <=> Agrees(b))
    BY <2>1 DEF Moves, Agrees
  <2>4. QED
    BY <1>1, <1>5, <1>6, <2>1, <2>2, <2>3 DEF Uncrossed
<1>9. CASE Activate(o)
  <2>1. PICK place \in {"attach", "complete"} :
          /\ pc[o] = "activate" /\ job[o].sim \in Sims /\ Moves(o, place, job[o].sim, job[o].old)
          /\ Keeps(o) /\ order'[o].status = order[o].status
          /\ place = "complete" => KindOf(o) = "ADD_PLAN" /\ job[o].sim = job[o].old
          /\ provider'[b] = job[o].sim
          /\ UNCHANGED <<current, raced>>
    BY <1>1, <1>9, ActivateEffect
  <2>2. pc'[o] = place /\ job'[o].sim = job[o].sim /\ order'[o].status = "PENDING"
    BY <1>2, <2>1 DEF Moves
  <2>3. CASE o = Add(b)
    <3>1. place = "complete" => Agrees(b)'
      BY <2>1, <2>3, InventoryAssumption DEF Uncrossed, Agrees, Sims
    <3>2. QED
      BY <1>1, <1>4, <1>6, <2>1, <2>2, <2>3, <3>1 DEF Uncrossed
  <2>4. CASE o = Change(b)
    <3>1. place = "attach"
      BY <1>1, <2>1, <2>4
    <3>2. QED
      BY <1>1, <1>5, <1>6, <2>1, <2>2, <2>4, <3>1 DEF Uncrossed
  <2>5. QED
    BY <1>1, <2>3, <2>4
<1>10. CASE Attach(o)
  <2>1. /\ pc[o] = "attach" /\ Moves(o, "complete", job[o].sim, job[o].old)
        /\ Keeps(o) /\ order'[o].status = order[o].status
        /\ current'[b] = job[o].sim /\ provider' = provider
    BY <1>1, <1>10, AttachEffect
  <2>2. pc'[o] = "complete" /\ order'[o].status = "PENDING" /\ order'[o].step = order[o].step
    BY <1>2, <2>1 DEF Moves, Keeps
  <2>3. order[o].step = "TELCO" => Agrees(b)'
    BY <1>1, <2>1 DEF Uncrossed, Agrees
  <2>4. order[o].step \in {"SIM", "TELCO"}
    BY DEF TypeOK, OrderRow
  <2>5. CASE o = Add(b)
    BY <1>1, <1>4, <1>6, <2>1, <2>2, <2>3, <2>4, <2>5 DEF Uncrossed
  <2>6. CASE o = Change(b)
    <3>1. order[o].step = "TELCO"
      BY <1>1, <2>1, <2>4, <2>6 DEF OrderFits
    <3>2. QED
      BY <1>1, <1>5, <1>6, <2>1, <2>2, <2>3, <2>6, <3>1 DEF Uncrossed
  <2>7. QED
    BY <1>1, <2>5, <2>6
<1>11. CASE Complete(o)
  <2>1. /\ pc[o] = "complete" /\ Moves(o, "idle", NoSim, NoSim)
        /\ order'[o].status = IF order[o].step = "SIM" THEN "PENDING" ELSE "DONE"
        /\ order'[o].step = "TELCO"
        /\ UNCHANGED <<current, provider, raced>>
    BY <1>11, CompleteEffect DEF Stock
  <2>2. order[o].step \in {"SIM", "TELCO"}
    BY DEF TypeOK, OrderRow
  <2>3. pc'[o] = "idle" /\ (Agrees(b)' <=> Agrees(b))
    BY <2>1 DEF Moves, Agrees
  <2>4. CASE o = Add(b)
    BY <1>1, <1>4, <1>6, <2>1, <2>2, <2>3, <2>4 DEF Uncrossed
  <2>5. CASE o = Change(b)
    BY <1>1, <1>5, <1>6, <2>1, <2>3, <2>5 DEF Uncrossed
  <2>6. QED
    BY <1>1, <2>4, <2>5
<1>12. QED
  BY <1>7, <1>8, <1>9, <1>10, <1>11 DEF GoesOn

LEMMA NextUncrossed ==
  ASSUME TypeOK, Tracked, [Next]_vars, NEW b \in Subs, b \notin crossed'
  PROVE  Uncrossed(b)'
<1>1. b \notin crossed /\ Uncrossed(b) /\ raced \subseteq raced'
  BY HistoryGrows DEF Tracked
<1>2. /\ Add(b) \in Orders /\ SubOf(Add(b)) = b /\ KindOf(Add(b)) = "ADD_PLAN"
      /\ Change(b) \in Orders /\ SubOf(Change(b)) = b /\ KindOf(Change(b)) = "CHANGE_SIM"
      /\ Add(b) # Change(b) /\ \A o \in Orders : SubOf(o) = b => o \in {Add(b), Change(b)}
  BY Parts
<1>3. \A o \in Orders : OrderFits(o)
  BY DEF Tracked
<1>4. ASSUME NEW o \in Orders, SubOf(o) # b, NEW place, NEW s, NEW old, Moves(o, place, s, old),
             SameProvider(b), SameSim(b)
      PROVE  Uncrossed(b)'
  <2>1. \A p \in {Add(b), Change(b)} : pc'[p] = pc[p] /\ job'[p] = job[p] /\ order'[p] = order[p]
    BY <1>2, <1>4 DEF Moves
  <2>2. QED
    BY <1>1, <1>4, <2>1, UncrossedStays
<1>5. ASSUME NEW o \in Orders, Begins(o) PROVE Uncrossed(b)'
  <2>1. CASE SubOf(o) = b
    BY <1>1, <1>2, <1>3, <1>5, <2>1, UncrossedBegins
  <2>2. CASE SubOf(o) # b
    <3>1. PICK place, s, old : Begin(o, place, s, old)
      BY <1>5, SimGivenEffect, FindFreeEffect, SimNamedEffect, ReadSubEffect DEF Begins
    <3>2. Moves(o, place, s, old) /\ SameProvider(b) /\ SameSim(b)
      BY <3>1, BeginEffect DEF Stock, SameProvider, SameSim
    <3>3. QED
      BY <1>4, <2>2, <3>2
  <2>3. QED
    BY <2>1, <2>2
<1>6. ASSUME NEW o \in Orders, GoesOn(o) PROVE Uncrossed(b)'
  <2>1. CASE SubOf(o) = b
    BY <1>1, <1>3, <1>6, <2>1, UncrossedGoesOn
  <2>2. CASE SubOf(o) # b
    <3>1. SameProvider(b)
      BY <1>6, <2>2, ReserveEffect, PersistEffect, ActivateEffect, AttachEffect, CompleteEffect
         DEF GoesOn, SameProvider, Stock
    <3>2. SameSim(b)
      BY <1>6, <2>2, ReserveEffect, PersistEffect, ActivateEffect, Taking, CompleteEffect
         DEF GoesOn, SameSim, Stock
    <3>3. \E place, s, old : Moves(o, place, s, old)
      BY <1>6, ReserveEffect, PersistEffect, ActivateEffect, AttachEffect, CompleteEffect DEF GoesOn
    <3>4. QED
      BY <1>4, <2>2, <3>1, <3>2, <3>3
  <2>3. QED
    BY <2>1, <2>2
<1>7. ASSUME NEW o \in Orders, GivesUp(o) PROVE Uncrossed(b)'
  <2>1. SameProvider(b) /\ SameSim(b)
    BY <1>7, GivesUpEffect DEF GivesUp, Stock, SameProvider, SameSim
  <2>2. CASE SubOf(o) # b
    <3>1. \E place, s, old : Moves(o, place, s, old)
      BY <1>7, GivesUpEffect DEF GivesUp
    <3>2. QED
      BY <1>4, <2>1, <2>2, <3>1
  <2>3. CASE SubOf(o) = b
    <3>1. /\ order[o].status \in {"PENDING", "ERROR"}
          /\ pc[o] = "idle" /\ Moves(o, "idle", job[o].sim, job[o].old) /\ Keeps(o)
          /\ order'[o].status = "ERROR" /\ UNCHANGED <<current, provider, raced>>
      BY <1>1, <1>7, <2>3, GivesUpEffect DEF GivesUp, Stock
    <3>2. pc'[o] = "idle" /\ (Agrees(b)' <=> Agrees(b))
      BY <3>1 DEF Moves, Agrees
    <3>3. CASE o = Add(b)
      <4>1. pc'[Change(b)] = pc[Change(b)] /\ order'[Change(b)] = order[Change(b)] /\ job'[Change(b)] = job[Change(b)]
        BY <1>2, <3>1, <3>3 DEF Moves
      <4>2. QED
        BY <1>1, <3>1, <3>2, <3>3, <4>1 DEF Uncrossed, Keeps
    <3>4. CASE o = Change(b)
      <4>1. pc'[Add(b)] = pc[Add(b)] /\ order'[Add(b)] = order[Add(b)] /\ job'[Add(b)] = job[Add(b)]
        BY <1>2, <3>1, <3>4 DEF Moves
      <4>2. QED
        BY <1>1, <3>1, <3>2, <3>4, <4>1 DEF Uncrossed, Keeps
    <3>5. QED
      BY <1>2, <2>3, <3>3, <3>4
  <2>4. QED
    BY <2>2, <2>3
<1>8. CASE ByHand
  <2>1. ASSUME NEW o \in Orders, NEW s \in Sims, Scan(o, s) PROVE Uncrossed(b)'
    <3>1. /\ pc[o] = "idle" /\ Moves(o, "idle", job[o].sim, job[o].old) /\ SameProvider(b) /\ SameSim(b)
          /\ order'[o].status = order[o].status /\ order'[o].step = order[o].step
      BY <2>1, ScanEffect DEF Stock, SameProvider, SameSim
    <3>2. CASE SubOf(o) # b
      BY <1>4, <3>1, <3>2
    <3>3. CASE SubOf(o) = b
      <4>1. \A p \in {Add(b), Change(b)} :
              /\ pc'[p] = pc[p] /\ job'[p].sim = job[p].sim /\ job'[p].old = job[p].old
              /\ order'[p].step = order[p].step /\ order'[p].status = order[p].status
        BY <1>2, <3>1 DEF Moves
      <4>2. QED
        BY <1>1, <3>1, <4>1, UncrossedStays
    <3>4. QED
      BY <3>2, <3>3
  <2>2. ASSUME NEW c \in Subs, NEW type \in {"E_SIM", "P_SIM"}, NEW s \in Sims \cup {NoSim},
               OrderChange(c, type, s)
        PROVE  Uncrossed(b)'
    <3>1. PICK o \in Orders : o = Change(c) /\ SubOf(o) = c
      BY Parts
    <3>2. /\ Moves(o, pc[o], job[o].sim, job[o].old) /\ SameProvider(b) /\ SameSim(b)
          /\ order'[o].step = "SIM"
      BY <2>2, <3>1, OrderChangeEffect DEF Stock, SameProvider, SameSim
    <3>3. CASE c # b
      BY <1>4, <3>1, <3>2, <3>3
    <3>4. CASE c = b
      <4>1. \A p \in {Add(b), Change(b)} :
              /\ pc'[p] = pc[p] /\ job'[p].sim = job[p].sim /\ job'[p].old = job[p].old
              /\ order'[p].step \in {order[p].step, "SIM"}
        BY <1>2, <3>1, <3>2, <3>4 DEF Moves
      <4>2. order'[Add(b)] = order[Add(b)]
        BY <1>2, <3>1, <3>2, <3>4 DEF Moves
      <4>3. QED
        BY <1>1, <3>2, <4>1, <4>2, UncrossedStays
    <3>5. QED
      BY <3>3, <3>4
  <2>3. ASSUME NEW s \in Sims, NEW status \in SimStatus, ChangeStatus(s, status) PROVE Uncrossed(b)'
    <3>1. UNCHANGED <<current, provider, order, pc, job>>
      BY <2>3, ChangeStatusEffect
    <3>2. QED
      BY <1>1, <3>1, UncrossedStays DEF SameProvider, SameSim
  <2>4. QED
    BY <1>8, <2>1, <2>2, <2>3 DEF ByHand
<1>9. CASE UNCHANGED vars
  <2>1. UNCHANGED <<current, provider, order, pc, job>>
    BY <1>9 DEF vars
  <2>2. QED
    BY <1>1, <2>1, UncrossedStays DEF SameProvider, SameSim
<1>10. QED
  BY <1>5, <1>6, <1>7, <1>8, <1>9, ActionsOfNext

-----------------------------------------------------------------------------
LEMMA NextTracked == TypeOK /\ OneOwner /\ Tracked /\ [Next]_vars => Tracked'
<1> SUFFICES ASSUME TypeOK, OneOwner, Tracked, [Next]_vars PROVE Tracked'
  OBVIOUS
<1>1. \A o \in Orders : OrderFits(o)'
  BY NextOrderFits DEF Tracked
<1>2. \A s \in Sims \ raced' : Unraced(s)'
  BY NextUnraced
<1>3. \A b \in Subs \ crossed' : Uncrossed(b)'
  BY NextUncrossed
<1>4. QED
  BY <1>1, <1>2, <1>3 DEF Tracked

LEMMA InitTracked == Init => Tracked
<1> SUFFICES ASSUME Init PROVE Tracked
  OBVIOUS
<1>1. \A o \in Orders :
        /\ order[o].step = "SIM" /\ pc[o] = "idle" /\ order[o].status \in {"NEW", "PENDING"}
        /\ KindOf(o) = "ADD_PLAN" => order[o].status = "PENDING"
        /\ KindOf(o) = "CHANGE_SIM" => order[o].iccid = NoSim
  BY DEF Init
<1>2. \A b \in Subs : current[b] = NoSim
  BY DEF Init
<1>3. \A o \in Orders : OrderFits(o)
  BY <1>1 DEF OrderFits
<1>4. \A s \in Sims : Unraced(s)
  BY <1>1, <1>2, InventoryAssumption DEF Unraced, Claims, Firm, Bound, Sims
<1>5. \A b \in Subs : Uncrossed(b)
  BY <1>1, Parts DEF Uncrossed
<1>6. QED
  BY <1>3, <1>4, <1>5 DEF Tracked

LEMMA TrackedAlways == Spec => [](TypeOK /\ OneOwner /\ Tracked)
<1>1. Init => TypeOK /\ OneOwner /\ Tracked
  BY TypeInit, InitOneOwner, InitTracked
<1>2. TypeOK /\ OneOwner /\ Tracked /\ [Next]_vars => (TypeOK /\ OneOwner /\ Tracked)'
  BY TypeStep, OneOwnerStep, NextTracked
<1>3. QED
  BY <1>1, <1>2, PTL DEF Spec

(* Stock, subscription and provider name the same SIM: what a subscription  *)
(* has is ASSIGNED, and after its activation it is what works at the        *)
(* provider, however many orders take SIMs at once, unless a SIM was raced  *)
(* for or the subscription's own two orders crossed or failed half-way.     *)
THEOREM SimsAreServed == Spec => []SimIsServed
<1>1. TypeOK /\ Tracked => HeldIsAssigned
  BY DEF TypeOK, Tracked, Unraced, HeldIsAssigned
<1>2. TypeOK /\ Tracked => ProviderAgrees
  <2> SUFFICES ASSUME Tracked, NEW b \in Subs \ crossed,
                      \A o \in Orders : SubOf(o) = b => pc[o] = "idle",
                      order[<<"ADD_PLAN", b>>].status = "DONE"
               PROVE  provider[b] = current[b] \/ provider[b] \in raced
    BY DEF ProviderAgrees
  <2>1. pc[Change(b)] = "idle" /\ order[Add(b)].status = "DONE" /\ Uncrossed(b)
    BY Parts DEF Tracked, Add
  <2>2. QED
    BY <2>1 DEF Uncrossed, Agrees
<1>3. QED
  BY <1>1, <1>2, TrackedAlways, PTL DEF SimIsServed

(* No subscription loses its SIM to another one, however many orders take   *)
(* SIMs at once, except a SIM that two orders took for AVAILABLE at once,   *)
(* that staff named or released while it was RESERVED, or that a user       *)
(* scanned after the check.                                                 *)
THEOREM SimsAreNotTaken == Spec => NotTaken
<1> DEFINE Kept == \A b \in Subs : current[b] # NoSim /\ current'[b] = NoSim => current[b] \in raced
<1>1. TypeOK /\ Tracked /\ [Next]_vars => [Kept]_vars
  <2> SUFFICES ASSUME TypeOK, Tracked, [Next]_vars, NEW b \in Subs,
                      current[b] # NoSim, current'[b] = NoSim
               PROVE  current[b] \in raced
    OBVIOUS
  <2>1. NoSim \notin Sims
    BY InventoryAssumption DEF Sims
  <2>2. QED
    BY <2>1, CurrentChanges
<1>2. QED
  BY <1>1, TrackedAlways, PTL DEF Spec, NotTaken
=============================================================================
