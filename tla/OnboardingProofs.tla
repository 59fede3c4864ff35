--------------------------- MODULE OnboardingProofs ---------------------------
(***************************************************************************)
(* Theorems about Onboarding, for any flow of the known stages, any orders *)
(* and any number of jobs and mishaps.                                     *)
(***************************************************************************)
EXTENDS Onboarding, TLAPS, FiniteSetTheorems

Known(s) == s \in {"ORDER_PLAN", "ADDRESS", "ORDER_MSISDN", "ORDER_SIM_TYPE",
                   "ORDER_CONFIRM", "ORDER_PROCESS"}

(* The flow as the proofs use it: every stage once, and none is the mount *)
LEMMA FlowFacts ==
  /\ DOMAIN Flow \subseteq Nat /\ Len(Flow) \in Nat /\ DOMAIN Flow = 1..Len(Flow)
  /\ \A i \in DOMAIN Flow : Flow[i] \in Stages /\ Flow[i] # NoStage /\ Known(Flow[i])
  /\ \A i, h \in DOMAIN Flow : Flow[i] = Flow[h] => i = h
<1>1. Flow \in Seq({"ORDER_PLAN", "ADDRESS", "ORDER_MSISDN", "ORDER_SIM_TYPE",
                    "ORDER_CONFIRM", "ORDER_PROCESS"})
  BY OnboardingAssumption
<1>2. DOMAIN Flow = 1..Len(Flow) /\ Len(Flow) \in Nat
  BY <1>1
<1>3. \A i \in DOMAIN Flow : Flow[i] \in Stages /\ Flow[i] # NoStage /\ Known(Flow[i])
  BY <1>1, <1>2 DEF Stages, NoStage, Known
<1>4. QED
  BY <1>2, <1>3, OnboardingAssumption

LEMMA IndexFacts ==
  ASSUME NEW s \in Stages
  PROVE  Index(s) \in DOMAIN Flow /\ Flow[Index(s)] = s
BY DEF Stages, Index

-----------------------------------------------------------------------------
JobsOK ==
  /\ job \in [Jobs -> Job]
  /\ \A j \in Jobs : job[j].place \in {"update", "confirm", "order"} => job[j].order \in Orders
  /\ \A j \in Jobs : job[j].place \notin {"idle", "orders", "mounted"} => job[j].stage \in Stages

LEMMA IdleType == Idle \in Job /\ Idle.place = "idle" /\ Idle.stage = NoStage
BY DEF Idle, Job

LEMMA MountType == Mount \in Job /\ Mount.place = "orders" /\ Mount.stage = NoStage /\ ~Mount.done
BY DEF Mount, Idle, Job, AtServer

LEMMA StartType ==
  ASSUME NEW s \in Stages
  PROVE  Start(s) \in Job /\ Start(s).place = "read" /\ Start(s).stage = s
BY DEF Start, Idle, Job, AtServer

(* One job is replaced by a well-typed one *)
LEMMA ReplaceJob ==
  ASSUME JobsOK, NEW j \in Jobs, NEW new \in Job,
         new.place \in {"update", "confirm", "order"} => new.order \in Orders,
         new.place \notin {"idle", "orders", "mounted"} => new.stage \in Stages,
         job' = [job EXCEPT ![j] = new]
  PROVE  JobsOK'
BY DEF JobsOK

LEMMA EndType ==
  ASSUME JobsOK, NEW j \in Jobs, End(j)
  PROVE  JobsOK'
BY IdleType, ReplaceJob DEF End

LEMMA AnswerType ==
  ASSUME JobsOK, NEW j \in Jobs, NEW place \in {"order", "read", "refresh", "mounted"},
         NEW o \in Orders \cup {NoOrder}, Answer(j, place, o),
         place = "order" => o \in Orders,
         place # "mounted" => job[j].stage \in Stages
  PROVE  JobsOK'
<1>1. job[j] \in Job
  BY DEF JobsOK
<1>2. CASE job[j].heard
  <2> DEFINE new == [job[j] EXCEPT !.place = place, !.order = o]
  <2>1. /\ new \in Job
        /\ new.place = place /\ new.order = o /\ new.stage = job[j].stage
    BY <1>1 DEF Job, ToApp, AtServer
  <2>2. job' = [job EXCEPT ![j] = new]
    BY <1>2 DEF Answer
  <2> HIDE DEF new
  <2>3. QED
    BY <2>1, <2>2, ReplaceJob
<1>3. CASE ~job[j].heard
  <2>1. End(j)
    BY <1>3 DEF Answer, End
  <2>2. QED
    BY <2>1, EndType
<1>4. QED
  BY <1>2, <1>3

LEMMA TypeInit == Init => TypeOK
<1> SUFFICES ASSUME Init PROVE TypeOK
  OBVIOUS
<1>1. JobsOK
  BY IdleType, MountType DEF Init, JobsOK
<1>2. QED
  <2>1. [status |-> "ABSENT", simType |-> FALSE] \in OrderRow /\ "none" \in Progress
    BY DEF OrderRow, Progress
  <2>2. /\ order \in [Orders -> OrderRow]
        /\ progress \in [Stages -> Progress] /\ seen \in [Stages -> Progress]
    BY <2>1 DEF Init
  <2>3. /\ mishaps \in 0..MaxMishaps
        /\ history \in SUBSET Events
        /\ address \in BOOLEAN /\ cur \in Orders \cup {NoOrder}
    <3>1. MaxMishaps \in Nat /\ mishaps = 0
      BY OnboardingAssumption DEF Init
    <3>2. mishaps \in 0..MaxMishaps
      BY <3>1
    <3>3. history = {} /\ address = FALSE /\ cur = NoOrder
      BY DEF Init
    <3>4. QED
      BY <3>2, <3>3
  <2>4. QED
    BY <1>1, <2>2, <2>3 DEF TypeOK, JobsOK

LEMMA TypeStep == TypeOK /\ [Next]_vars => TypeOK'
<1> SUFFICES ASSUME TypeOK, [Next]_vars PROVE TypeOK'
  OBVIOUS
<1>0. JobsOK
  BY DEF TypeOK, JobsOK
<1>1. ASSUME NEW j \in Jobs, NEW i \in DOMAIN Flow, Show(j, i) PROVE TypeOK'
  <2>1. JobsOK'
    BY <1>0, <1>1, StartType, FlowFacts, ReplaceJob DEF Show
  <2>2. QED
    BY <1>1, <2>1 DEF Show, TypeOK, JobsOK
<1>2. ASSUME NEW j \in Jobs, NEW i \in DOMAIN Flow, Press(j, i) PROVE TypeOK'
  <2>1. PICK r \in Request(Flow[i]) :
          /\ job' = [job EXCEPT ![j] = [place |-> r, done |-> TRUE, stage |-> Flow[i],
                       order |-> IF r \in {"update", "confirm"} THEN cur ELSE NoOrder,
                       heard |-> TRUE]]
          /\ history' = IF r = "create" /\ OrderAwaited THEN history \cup {"overlapped"} ELSE history
    BY <1>2 DEF Press
  <2>2. /\ r \in {"create", "update", "address", "confirm", "read"}
        /\ r \in {"update", "confirm"} => cur \in Orders
    BY <2>1, FlowFacts, Zenon DEF Request, Known, TypeOK
  <2> DEFINE new == [place |-> r, done |-> TRUE, stage |-> Flow[i],
                     order |-> IF r \in {"update", "confirm"} THEN cur ELSE NoOrder, heard |-> TRUE]
  <2>3. /\ new \in Job /\ new.place = r /\ new.stage = Flow[i]
        /\ r \in {"update", "confirm"} => new.order \in Orders
    BY <2>2, FlowFacts DEF Job, AtServer
  <2>4. JobsOK'
    <3>1. job' = [job EXCEPT ![j] = new]
      BY <2>1
    <3> HIDE DEF new
    <3>2. QED
      BY <1>0, <2>2, <2>3, <3>1, FlowFacts, ReplaceJob
  <2>5. history' \in SUBSET Events
    BY <2>1 DEF TypeOK, Events
  <2>6. QED
    BY <1>2, <2>4, <2>5 DEF Press, TypeOK, JobsOK
<1>3. ASSUME NEW j \in Jobs, Create(j) PROVE TypeOK'
  <2>1. PICK o \in Orders : order' = [order EXCEPT ![o].status = "DRAFT"] /\ Answer(j, "order", o)
    BY <1>3 DEF Create
  <2>2. JobsOK'
    BY <1>0, <1>3, <2>1, AnswerType DEF Create, JobsOK
  <2>3. order' \in [Orders -> OrderRow]
    <3>1. order[o] \in OrderRow
      BY DEF TypeOK
    <3>2. QED
      BY <2>1, <3>1 DEF TypeOK, OrderRow
  <2>4. QED
    BY <1>3, <2>2, <2>3 DEF Create, TypeOK, JobsOK
<1>4. ASSUME NEW j \in Jobs, UpdateOrder(j) PROVE TypeOK'
  <2> DEFINE o == job[j].order
  <2>1. o \in Orders /\ order[o] \in OrderRow /\ job[j].stage \in Stages
    BY <1>4 DEF UpdateOrder, TypeOK
  <2>2. JobsOK'
    BY <1>0, <1>4, <2>1, AnswerType, EndType DEF UpdateOrder
  <2>3. order' \in [Orders -> OrderRow]
    <3>1. (order[o].simType \/ job[j].stage = "ORDER_SIM_TYPE") \in BOOLEAN
      OBVIOUS
    <3>2. [order[o] EXCEPT !.simType = @ \/ job[j].stage = "ORDER_SIM_TYPE"] \in OrderRow
      BY <2>1, <3>1 DEF OrderRow
    <3> HIDE DEF o
    <3>3. CASE order' = [order EXCEPT ![o].simType = @ \/ job[j].stage = "ORDER_SIM_TYPE"]
      BY <2>1, <3>2, <3>3 DEF TypeOK
    <3>4. CASE order' = order
      BY <3>4 DEF TypeOK
    <3>5. QED
      BY <1>4, <3>3, <3>4 DEF UpdateOrder, o
  <2>4. QED
    BY <1>4, <2>2, <2>3 DEF UpdateOrder, TypeOK, JobsOK
<1>5. ASSUME NEW j \in Jobs, ChangeAddress(j) PROVE TypeOK'
  <2>1. JobsOK'
    BY <1>0, <1>5, AnswerType DEF ChangeAddress, JobsOK
  <2>2. QED
    BY <1>5, <2>1 DEF ChangeAddress, TypeOK, JobsOK
<1>6. ASSUME NEW j \in Jobs, ConfirmOrder(j) PROVE TypeOK'
  <2> DEFINE o == job[j].order
  <2>1. o \in Orders /\ order[o] \in OrderRow /\ job[j].stage \in Stages
    BY <1>6 DEF ConfirmOrder, TypeOK
  <2>2. JobsOK'
    <3>1. Answer(j, "read", NoOrder) \/ End(j)
      BY <1>6 DEF ConfirmOrder
    <3>2. CASE Answer(j, "read", NoOrder)
      BY <1>0, <2>1, <3>2, AnswerType
    <3>3. CASE End(j)
      BY <1>0, <3>3, EndType
    <3>4. QED
      BY <3>1, <3>2, <3>3
  <2>3. order' \in [Orders -> OrderRow]
    BY <1>6, <2>1 DEF ConfirmOrder, TypeOK, OrderRow
  <2>4. QED
    BY <1>6, <2>2, <2>3 DEF ConfirmOrder, TypeOK, JobsOK
<1>7. ASSUME NEW o \in Orders, EngineEnds(o) PROVE TypeOK'
  <2>1. order[o] \in OrderRow
    BY DEF TypeOK
  <2>2. QED
    BY <1>7, <2>1 DEF EngineEnds, TypeOK, OrderRow
<1>8. ASSUME NEW j \in Jobs, FindOrder(j) PROVE TypeOK'
  <2>1. JobsOK'
    BY <1>0, <1>8, AnswerType DEF FindOrder
  <2>2. QED
    BY <1>8, <2>1 DEF FindOrder, TypeOK, JobsOK
<1>9. ASSUME NEW j \in Jobs, ReadProgress(j) PROVE TypeOK'
  <2>1. job[j] \in Job /\ job[j].stage \in Stages
    BY <1>9 DEF ReadProgress, TypeOK
  <2> DEFINE new == [job[j] EXCEPT !.place = "write"]
  <2>2. new \in Job /\ new.place = "write" /\ new.stage = job[j].stage
    BY <2>1 DEF Job, AtServer
  <2>3. job' = [job EXCEPT ![j] = new] \/ job' = [job EXCEPT ![j] = Idle]
    BY <1>9, <1>0 DEF ReadProgress, JobsOK
  <2>4. JobsOK'
    <3> HIDE DEF new
    <3>1. QED
      BY <1>0, <2>1, <2>2, <2>3, IdleType, ReplaceJob
  <2>5. QED
    BY <1>9, <2>4 DEF ReadProgress, TypeOK, JobsOK
<1>10. ASSUME NEW j \in Jobs, WriteProgress(j) PROVE TypeOK'
  <2>1. JobsOK'
    BY <1>0, <1>10, AnswerType DEF WriteProgress, JobsOK
  <2>2. progress' \in [Stages -> Progress]
    BY <1>10 DEF WriteProgress, TypeOK, Progress
  <2>3. history' \in SUBSET Events
    BY <1>10 DEF WriteProgress, TypeOK, Events
  <2>4. QED
    BY <1>10, <2>1, <2>2, <2>3 DEF WriteProgress, TypeOK, JobsOK
<1>11. ASSUME NEW j \in Jobs, KeepOrder(j) PROVE TypeOK'
  <2> DEFINE new == [job[j] EXCEPT !.place = "read", !.order = NoOrder]
  <2>1. job[j] \in Job /\ job[j].stage \in Stages /\ job[j].order \in Orders
    BY <1>11 DEF KeepOrder, TypeOK
  <2>2. new \in Job /\ new.place = "read" /\ new.stage = job[j].stage
    BY <2>1 DEF Job, AtServer
  <2>3. job' = [job EXCEPT ![j] = new]
    BY <1>0, <1>11 DEF KeepOrder, JobsOK
  <2>4. JobsOK'
    <3> HIDE DEF new
    <3>1. QED
      BY <1>0, <2>1, <2>2, <2>3, ReplaceJob
  <2>5. QED
    BY <1>11, <2>1, <2>4 DEF KeepOrder, TypeOK, JobsOK
<1>12. ASSUME NEW j \in Jobs, Mounted(j) PROVE TypeOK'
  <2>1. JobsOK' /\ job[j].order \in Orders \cup {NoOrder}
    BY <1>0, <1>12, EndType DEF Mounted, JobsOK, Job
  <2>2. QED
    BY <1>12, <2>1 DEF Mounted, TypeOK, JobsOK
<1>13. ASSUME NEW j \in Jobs, Refresh(j) PROVE TypeOK'
  <2>1. job[j].stage \in Stages
    BY <1>13 DEF Refresh, TypeOK
  <2>2. Index(job[j].stage) < Len(Flow) => Flow[Index(job[j].stage) + 1] \in Stages
    BY <2>1, IndexFacts, FlowFacts
  <2>3. JobsOK'
    BY <1>0, <1>13, <2>2, StartType, IdleType, ReplaceJob DEF Refresh
  <2>4. QED
    BY <1>13, <2>3 DEF Refresh, TypeOK, JobsOK
<1>h. ASSUME NEW e \in Events, Happens(e)
      PROVE  mishaps' \in 0..MaxMishaps /\ history' \in SUBSET Events
  BY <1>h, OnboardingAssumption DEF Happens, TypeOK
<1>14. ASSUME NEW j \in Jobs, Lose(j) PROVE TypeOK'
  <2> DEFINE new == [job[j] EXCEPT !.heard = FALSE]
  <2>1. new \in Job /\ new.place = job[j].place /\ new.stage = job[j].stage /\ new.order = job[j].order
    BY <1>0 DEF JobsOK, Job
  <2>2. End(j) \/ job' = [job EXCEPT ![j] = new]
    BY <1>14, <1>0 DEF Lose, JobsOK
  <2>3. JobsOK'
    <3>1. CASE End(j)
      BY <1>0, <3>1, EndType
    <3>2. CASE job' = [job EXCEPT ![j] = new]
      <4> HIDE DEF new
      <4>1. QED
        BY <1>0, <2>1, <3>2, ReplaceJob DEF JobsOK
    <3>3. QED
      BY <2>2, <3>1, <3>2
  <2>4. mishaps' \in 0..MaxMishaps /\ history' \in SUBSET Events
    BY <1>14, <1>h DEF Lose, Events
  <2>5. QED
    BY <1>14, <2>3, <2>4 DEF Lose, TypeOK, JobsOK
<1>15. ASSUME ForgetOrder PROVE TypeOK'
  <2>1. mishaps' \in 0..MaxMishaps /\ history' \in SUBSET Events
    BY <1>15, <1>h DEF ForgetOrder, Events
  <2>2. QED
    BY <1>15, <2>1 DEF ForgetOrder, TypeOK
<1>16. ASSUME Restart PROVE TypeOK'
  <2>1. PICK j \in Jobs : job' = [k \in Jobs |->
            IF k = j THEN Mount
            ELSE IF job[k].place \in AtServer THEN [job[k] EXCEPT !.heard = FALSE] ELSE Idle]
    BY <1>16 DEF Restart
  <2>2. ASSUME NEW k \in Jobs
        PROVE  /\ job'[k] \in Job
               /\ job'[k].place \in {"update", "confirm", "order"} => job'[k].order \in Orders
               /\ job'[k].place \notin {"idle", "orders", "mounted"} => job'[k].stage \in Stages
    <3>1. job[k] \in Job
      BY <1>0 DEF JobsOK
    <3>2. /\ [job[k] EXCEPT !.heard = FALSE] \in Job
          /\ [job[k] EXCEPT !.heard = FALSE].place = job[k].place
          /\ [job[k] EXCEPT !.heard = FALSE].order = job[k].order
          /\ [job[k] EXCEPT !.heard = FALSE].stage = job[k].stage
      BY <3>1 DEF Job
    <3>3. job'[k] \in {Mount, Idle, [job[k] EXCEPT !.heard = FALSE]}
      BY <2>1
    <3>4. QED
      BY <1>0, <3>2, <3>3, MountType, IdleType DEF JobsOK
  <2>3. JobsOK'
    BY <2>1, <2>2 DEF JobsOK
  <2>4. mishaps' \in 0..MaxMishaps /\ history' \in SUBSET Events
    BY <1>16, <1>h DEF Restart, Events
  <2>5. QED
    BY <1>16, <2>3, <2>4 DEF Restart, TypeOK, JobsOK
<1>17. ASSUME NEW o \in Orders, AbortOrder(o) PROVE TypeOK'
  <2>1. order[o] \in OrderRow
    BY DEF TypeOK
  <2>2. mishaps' \in 0..MaxMishaps /\ history' \in SUBSET Events
    BY <1>17, <1>h DEF AbortOrder, Events
  <2>3. QED
    BY <1>17, <2>1, <2>2 DEF AbortOrder, TypeOK, OrderRow
<1>18. CASE UNCHANGED vars
  BY <1>18 DEF vars, TypeOK
<1>19. QED
  BY <1>1, <1>2, <1>3, <1>4, <1>5, <1>6, <1>7, <1>8, <1>9, <1>10, <1>11, <1>12, <1>13, <1>14,
     <1>15, <1>16, <1>17, <1>18 DEF Next, Server, App, User

(* TypeOK: of what the server and the app keep, and of what is under way;  *)
(* no update or confirmation is sent without an order.                     *)
THEOREM OnboardingTypeCorrect == Spec => []TypeOK
<1>1. QED
  BY TypeInit, TypeStep, PTL DEF Spec

-----------------------------------------------------------------------------
(***************************************************************************)
(* Why the stages are completed in order.  Unless a stage was opened again *)
(* progress only grows, so what the app has seen stays true, and a screen  *)
(* that it lets the user into has all its predecessors completed for good. *)
(***************************************************************************)
Ahead(i) == \A h \in DOMAIN Flow : h < i => progress[Flow[h]] = "completed"

JobsInOrder ==
  /\ \A j \in Jobs, i \in DOMAIN Flow : job[j].stage = Flow[i] => Ahead(i)
  /\ \A j \in Jobs : job[j].place = "refresh" /\ job[j].done => progress[job[j].stage] = "completed"

ProgressInOrder ==
  /\ \A i \in DOMAIN Flow : progress[Flow[i]] # "none" => Ahead(i)
  /\ \A i \in DOMAIN Flow : seen[Flow[i]] # "none" => progress[Flow[i]] # "none"
  /\ \A i \in DOMAIN Flow : seen[Flow[i]] = "completed" => progress[Flow[i]] = "completed"

OrderInv == "reopened" \notin history => ProgressInOrder /\ JobsInOrder

LEMMA ReachableAhead ==
  ASSUME TypeOK, ProgressInOrder, NEW i \in DOMAIN Flow, Reachable(i)
  PROVE  Ahead(i)
<1>1. CASE i = 1
  BY <1>1, FlowFacts DEF Ahead
<1>2. CASE i # 1
  <2>1. i \in 2..i /\ i - 1 \in DOMAIN Flow
    BY <1>2, FlowFacts
  <2>2. seen[Flow[i]] # "none" \/ seen[Flow[i - 1]] = "completed"
    BY <2>1 DEF Reachable
  <2>3. CASE seen[Flow[i]] # "none"
    BY <2>3 DEF ProgressInOrder
  <2>4. CASE seen[Flow[i - 1]] = "completed"
    <3>1. progress[Flow[i - 1]] = "completed" /\ Ahead(i - 1)
      BY <2>1, <2>4 DEF ProgressInOrder
    <3>2. \A h \in DOMAIN Flow : h < i => h < i - 1 \/ h = i - 1
      BY FlowFacts
    <3>3. QED
      BY <3>1, <3>2 DEF Ahead
  <2>5. QED
    BY <2>2, <2>3, <2>4
<1>3. QED
  BY <1>1, <1>2

(* A step that leaves progress alone, as all but one do *)
LEMMA QuietInOrder ==
  ASSUME OrderInv, progress' = progress, seen' = seen \/ seen' = progress,
         history \subseteq history',
         "reopened" \notin history /\ ProgressInOrder /\ JobsInOrder => JobsInOrder'
  PROVE  OrderInv'
<1> SUFFICES ASSUME "reopened" \notin history' PROVE ProgressInOrder' /\ JobsInOrder'
  BY DEF OrderInv
<1>1. ProgressInOrder /\ JobsInOrder /\ "reopened" \notin history
  BY DEF OrderInv
<1>2. ProgressInOrder'
  BY <1>1 DEF ProgressInOrder, Ahead
<1>3. QED
  BY <1>1, <1>2

(* One job is replaced by one of the same stage, or none *)
LEMMA SameStage ==
  ASSUME JobsOK, JobsInOrder, progress' = progress, NEW j \in Jobs, NEW new \in Job,
         new.stage \in {job[j].stage, NoStage}, new.place # "refresh",
         job' = [job EXCEPT ![j] = new]
  PROVE  JobsInOrder'
<1>1. \A k \in Jobs : job'[k] = IF k = j THEN new ELSE job[k]
  BY DEF JobsOK
<1>2. QED
  BY <1>1, FlowFacts DEF JobsInOrder, Ahead

(* One job is replaced by one of a stage whose predecessors are completed *)
LEMMA NewStage ==
  ASSUME JobsOK, JobsInOrder, progress' = progress, NEW j \in Jobs, NEW new \in Job,
         NEW i \in DOMAIN Flow, Ahead(i), new.stage = Flow[i], new.place # "refresh",
         job' = [job EXCEPT ![j] = new]
  PROVE  JobsInOrder'
<1>1. \A k \in Jobs : job'[k] = IF k = j THEN new ELSE job[k]
  BY DEF JobsOK
<1>2. \A h \in DOMAIN Flow : new.stage = Flow[h] => h = i
  BY FlowFacts
<1>3. QED
  BY <1>1, <1>2 DEF JobsInOrder, Ahead

LEMMA AnswerInOrder ==
  ASSUME JobsOK, JobsInOrder, progress' = progress, NEW j \in Jobs,
         NEW place \in {"order", "read", "mounted"}, NEW o \in Orders \cup {NoOrder},
         Answer(j, place, o)
  PROVE  JobsInOrder'
<1> DEFINE new == [job[j] EXCEPT !.place = place, !.order = o]
<1>1. job[j] \in Job
  BY DEF JobsOK
<1>2. new \in Job /\ new.place = place /\ new.stage = job[j].stage
  BY <1>1 DEF Job, ToApp, AtServer
<1>3. job' = [job EXCEPT ![j] = new] \/ job' = [job EXCEPT ![j] = Idle]
  BY DEF Answer
<1> HIDE DEF new
<1>4. QED
  BY <1>2, <1>3, IdleType, SameStage

LEMMA EndInOrder ==
  ASSUME JobsOK, JobsInOrder, progress' = progress, NEW j \in Jobs, End(j)
  PROVE  JobsInOrder'
BY IdleType, SameStage DEF End

LEMMA OrderInit == Init => OrderInv
<1> SUFFICES ASSUME Init PROVE ProgressInOrder /\ JobsInOrder
  BY DEF OrderInv
<1>1. \A j \in Jobs : job[j].stage = NoStage /\ ~job[j].done
  BY DEF Init, Mount, Idle
<1>2. QED
  BY <1>1, FlowFacts DEF Init, ProgressInOrder, JobsInOrder

LEMMA OrderStep == TypeOK /\ OrderInv /\ [Next]_vars => OrderInv'
<1> SUFFICES ASSUME TypeOK, OrderInv, [Next]_vars PROVE OrderInv'
  OBVIOUS
<1>0. JobsOK
  BY DEF TypeOK, JobsOK
<1>1. ASSUME NEW j \in Jobs, NEW i \in DOMAIN Flow, Show(j, i) PROVE OrderInv'
  <2>1. ASSUME ProgressInOrder, JobsInOrder PROVE JobsInOrder'
    <3>1. Ahead(i)
      BY <1>1, <2>1, ReachableAhead DEF Show
    <3>2. Start(Flow[i]) \in Job /\ Start(Flow[i]).stage = Flow[i] /\ Start(Flow[i]).place = "read"
      BY FlowFacts, StartType
    <3>3. QED
      BY <1>0, <1>1, <2>1, <3>1, <3>2, NewStage DEF Show
  <2>2. QED
    BY <1>1, <2>1, QuietInOrder DEF Show
<1>2. ASSUME NEW j \in Jobs, NEW i \in DOMAIN Flow, Press(j, i) PROVE OrderInv'
  <2>1. ASSUME ProgressInOrder, JobsInOrder PROVE JobsInOrder'
    <3>1. Ahead(i)
      BY <1>2, <2>1, ReachableAhead DEF Press
    <3>2. PICK r \in Request(Flow[i]) :
            job' = [job EXCEPT ![j] = [place |-> r, done |-> TRUE, stage |-> Flow[i],
                       order |-> IF r \in {"update", "confirm"} THEN cur ELSE NoOrder,
                       heard |-> TRUE]]
      BY <1>2 DEF Press
    <3>3. r \in {"create", "update", "address", "confirm", "read"}
      BY <3>2, FlowFacts, Zenon DEF Request, Known
    <3> DEFINE new == [place |-> r, done |-> TRUE, stage |-> Flow[i],
                       order |-> IF r \in {"update", "confirm"} THEN cur ELSE NoOrder,
                       heard |-> TRUE]
    <3>4. new \in Job /\ new.place = r /\ new.stage = Flow[i]
      BY <3>3, FlowFacts DEF Job, AtServer, TypeOK
    <3>5. job' = [job EXCEPT ![j] = new]
      BY <3>2
    <3> HIDE DEF new
    <3>6. QED
      BY <1>0, <1>2, <2>1, <3>1, <3>3, <3>4, <3>5, NewStage DEF Press
  <2>2. history \subseteq history'
    BY <1>2 DEF Press
  <2>3. QED
    BY <1>2, <2>1, <2>2, QuietInOrder DEF Press
<1>3. ASSUME NEW j \in Jobs, Create(j) PROVE OrderInv'
  <2>1. ASSUME JobsInOrder PROVE JobsInOrder'
    BY <1>0, <1>3, <2>1, AnswerInOrder DEF Create
  <2>2. QED
    BY <1>3, <2>1, QuietInOrder DEF Create
<1>4. ASSUME NEW j \in Jobs, UpdateOrder(j) PROVE OrderInv'
  <2>1. ASSUME JobsInOrder PROVE JobsInOrder'
    <3>1. job[j].order \in Orders
      BY <1>4 DEF UpdateOrder, TypeOK
    <3>2. Answer(j, "order", job[j].order) \/ End(j)
      BY <1>4 DEF UpdateOrder
    <3>3. QED
      BY <1>0, <1>4, <2>1, <3>1, <3>2, AnswerInOrder, EndInOrder DEF UpdateOrder
  <2>2. QED
    BY <1>4, <2>1, QuietInOrder DEF UpdateOrder
<1>5. ASSUME NEW j \in Jobs, ChangeAddress(j) PROVE OrderInv'
  <2>1. ASSUME JobsInOrder PROVE JobsInOrder'
    BY <1>0, <1>5, <2>1, AnswerInOrder DEF ChangeAddress
  <2>2. QED
    BY <1>5, <2>1, QuietInOrder DEF ChangeAddress
<1>6. ASSUME NEW j \in Jobs, ConfirmOrder(j) PROVE OrderInv'
  <2>1. ASSUME JobsInOrder PROVE JobsInOrder'
    <3>1. Answer(j, "read", NoOrder) \/ End(j)
      BY <1>6 DEF ConfirmOrder
    <3>2. QED
      BY <1>0, <1>6, <2>1, <3>1, AnswerInOrder, EndInOrder DEF ConfirmOrder
  <2>2. QED
    BY <1>6, <2>1, QuietInOrder DEF ConfirmOrder
<1>7. ASSUME NEW o \in Orders, EngineEnds(o) \/ AbortOrder(o) PROVE OrderInv'
  <2>1. ASSUME JobsInOrder PROVE JobsInOrder'
    BY <1>7, <2>1 DEF EngineEnds, AbortOrder, JobsInOrder, Ahead
  <2>2. QED
    BY <1>7, <2>1, QuietInOrder DEF EngineEnds, AbortOrder, Happens
<1>8. ASSUME NEW j \in Jobs, FindOrder(j) PROVE OrderInv'
  <2>1. ASSUME JobsInOrder PROVE JobsInOrder'
    BY <1>0, <1>8, <2>1, AnswerInOrder DEF FindOrder
  <2>2. QED
    BY <1>8, <2>1, QuietInOrder DEF FindOrder
<1>9. ASSUME NEW j \in Jobs, ReadProgress(j) PROVE OrderInv'
  <2>1. ASSUME JobsInOrder PROVE JobsInOrder'
    <3> DEFINE new == [job[j] EXCEPT !.place = "write"]
    <3>1. job[j] \in Job
      BY DEF TypeOK
    <3>2. new \in Job /\ new.place = "write" /\ new.stage = job[j].stage
      BY <3>1 DEF Job, AtServer
    <3>3. job' = [job EXCEPT ![j] = new] \/ job' = [job EXCEPT ![j] = Idle]
      BY <1>9, <1>0 DEF ReadProgress, JobsOK
    <3> HIDE DEF new
    <3>4. QED
      BY <1>0, <1>9, <2>1, <3>2, <3>3, IdleType, SameStage DEF ReadProgress
  <2>2. QED
    BY <1>9, <2>1, QuietInOrder DEF ReadProgress
<1>10. ASSUME NEW j \in Jobs, WriteProgress(j) PROVE OrderInv'
  <2> SUFFICES ASSUME "reopened" \notin history' PROVE ProgressInOrder' /\ JobsInOrder'
    BY DEF OrderInv
  <2> DEFINE s == job[j].stage
             new == [job[j] EXCEPT !.place = "refresh", !.order = NoOrder]
  <2>1. "reopened" \notin history /\ (~job[j].done => progress[s] # "completed")
    BY <1>10 DEF WriteProgress
  <2>2. ProgressInOrder /\ JobsInOrder
    BY <2>1 DEF OrderInv
  <2>3. s \in Stages /\ job[j] \in Job
    BY <1>10 DEF WriteProgress, TypeOK
  <2>4. PICK i \in DOMAIN Flow : s = Flow[i]
    BY <2>3, IndexFacts
  <2>5. /\ \A r \in Stages : progress[r] = "completed" => progress'[r] = "completed"
        /\ \A r \in Stages : progress[r] # "none" => progress'[r] # "none"
        /\ \A r \in Stages : r # s => progress'[r] = progress[r]
        /\ progress'[s] # "none"
        /\ job[j].done => progress'[s] = "completed"
        /\ seen' = seen
    BY <1>10, <2>1, <2>3 DEF WriteProgress, TypeOK
  <2>6. \A h \in DOMAIN Flow : Ahead(h) => Ahead(h)'
    BY <2>5, FlowFacts DEF Ahead
  <2>7. Ahead(i)
    BY <2>2, <2>4 DEF JobsInOrder
  <2>8. ProgressInOrder'
    BY <2>2, <2>4, <2>5, <2>6, <2>7, FlowFacts DEF ProgressInOrder
  <2>9. /\ new.stage = s /\ new.done = job[j].done
        /\ \A k \in Jobs : job'[k] = IF k = j THEN (IF job[j].heard THEN new ELSE Idle) ELSE job[k]
    BY <1>10, <1>0, <2>3 DEF WriteProgress, Answer, JobsOK, Job
  <2>10. ASSUME NEW k \in Jobs, NEW h \in DOMAIN Flow, job'[k].stage = Flow[h] PROVE Ahead(h)
    <3>1. job'[k].stage = job[k].stage \/ job'[k].stage = NoStage
      BY <2>9, IdleType
    <3>2. job[k].stage = Flow[h]
      BY <2>10, <3>1, FlowFacts
    <3>3. QED
      BY <2>2, <3>2 DEF JobsInOrder
  <2>11. ASSUME NEW k \in Jobs, job'[k].place = "refresh", job'[k].done
         PROVE  progress'[job'[k].stage] = "completed"
    <3>1. CASE k = j
      BY <2>5, <2>9, <2>11, <3>1, IdleType
    <3>2. CASE k # j
      <4>1. job'[k] = job[k] /\ job[k].stage \in Stages
        BY <2>9, <2>11, <3>2 DEF TypeOK
      <4>2. QED
        BY <2>2, <2>5, <2>11, <4>1 DEF JobsInOrder
    <3>3. QED
      BY <3>1, <3>2
  <2>12. JobsInOrder'
    BY <2>6, <2>10, <2>11 DEF JobsInOrder
  <2>13. QED
    BY <2>8, <2>12
<1>11. ASSUME NEW j \in Jobs, KeepOrder(j) PROVE OrderInv'
  <2>1. ASSUME JobsInOrder PROVE JobsInOrder'
    <3> DEFINE new == [job[j] EXCEPT !.place = "read", !.order = NoOrder]
    <3>1. job[j] \in Job
      BY DEF TypeOK
    <3>2. new \in Job /\ new.place = "read" /\ new.stage = job[j].stage
      BY <3>1 DEF Job, AtServer
    <3>3. job' = [job EXCEPT ![j] = new]
      BY <1>11, <1>0 DEF KeepOrder, JobsOK
    <3> HIDE DEF new
    <3>4. QED
      BY <1>0, <1>11, <2>1, <3>2, <3>3, SameStage DEF KeepOrder
  <2>2. QED
    BY <1>11, <2>1, QuietInOrder DEF KeepOrder
<1>12. ASSUME NEW j \in Jobs, Mounted(j) PROVE OrderInv'
  <2>1. ASSUME JobsInOrder PROVE JobsInOrder'
    BY <1>0, <1>12, <2>1, EndInOrder DEF Mounted
  <2>2. QED
    BY <1>12, <2>1, QuietInOrder DEF Mounted
<1>13. ASSUME NEW j \in Jobs, Refresh(j) PROVE OrderInv'
  <2>1. ASSUME JobsInOrder PROVE JobsInOrder'
    <3> DEFINE s == job[j].stage
               i == Index(s)
    <3>1. s \in Stages /\ job[j].place = "refresh"
      BY <1>13 DEF Refresh, TypeOK
    <3>2. i \in DOMAIN Flow /\ Flow[i] = s
      BY <3>1, IndexFacts
    <3>3. CASE job[j].done /\ i < Len(Flow)
      <4>1. i + 1 \in DOMAIN Flow /\ \A h \in DOMAIN Flow : h < i + 1 => h < i \/ h = i
        BY <3>2, <3>3, FlowFacts
      <4>2. Ahead(i) /\ progress[s] = "completed"
        BY <2>1, <3>1, <3>2, <3>3 DEF JobsInOrder
      <4>3. Ahead(i + 1)
        BY <3>2, <4>1, <4>2 DEF Ahead
      <4>4. job' = [job EXCEPT ![j] = Start(Flow[i + 1])]
        BY <1>13, <3>3 DEF Refresh
      <4>5. /\ Start(Flow[i + 1]) \in Job /\ Start(Flow[i + 1]).stage = Flow[i + 1]
            /\ Start(Flow[i + 1]).place = "read"
        BY <4>1, FlowFacts, StartType
      <4>6. progress' = progress
        BY <1>13 DEF Refresh
      <4> HIDE DEF i
      <4>7. QED
        BY <1>0, <2>1, <4>1, <4>3, <4>4, <4>5, <4>6, NewStage
    <3>4. CASE ~(job[j].done /\ i < Len(Flow))
      <4>1. End(j) /\ progress' = progress
        BY <1>13, <3>4 DEF Refresh, End
      <4>2. QED
        BY <1>0, <2>1, <4>1, EndInOrder
    <3>5. QED
      BY <3>3, <3>4
  <2>2. QED
    BY <1>13, <2>1, QuietInOrder DEF Refresh
<1>14. ASSUME NEW j \in Jobs, Lose(j) PROVE OrderInv'
  <2>1. ASSUME JobsInOrder PROVE JobsInOrder'
    <3> DEFINE new == [job[j] EXCEPT !.heard = FALSE]
    <3>1. new \in Job /\ new.place = job[j].place /\ new.stage = job[j].stage
      BY <1>0 DEF JobsOK, Job
    <3>2. End(j) \/ (job[j].place \in AtServer /\ job' = [job EXCEPT ![j] = new])
      BY <1>14, <1>0 DEF Lose, JobsOK
    <3>3. "refresh" \notin AtServer
      BY DEF AtServer
    <3> HIDE DEF new
    <3>4. QED
      BY <1>0, <1>14, <2>1, <3>1, <3>2, <3>3, EndInOrder, SameStage DEF Lose
  <2>2. QED
    BY <1>14, <2>1, QuietInOrder DEF Lose, Happens
<1>15. ASSUME ForgetOrder PROVE OrderInv'
  <2>1. ASSUME JobsInOrder PROVE JobsInOrder'
    BY <1>15, <2>1 DEF ForgetOrder, JobsInOrder, Ahead
  <2>2. QED
    BY <1>15, <2>1, QuietInOrder DEF ForgetOrder, Happens
<1>16. ASSUME Restart PROVE OrderInv'
  <2>1. ASSUME JobsInOrder PROVE JobsInOrder'
    <3>1. PICK j \in Jobs : job' = [k \in Jobs |->
              IF k = j THEN Mount
              ELSE IF job[k].place \in AtServer THEN [job[k] EXCEPT !.heard = FALSE] ELSE Idle]
      BY <1>16 DEF Restart
    <3>2. ASSUME NEW k \in Jobs
          PROVE  job'[k].stage \in {job[k].stage, NoStage} /\ job'[k].place # "refresh"
      <4>1. job[k] \in Job
        BY <1>0 DEF JobsOK
      <4>2. /\ [job[k] EXCEPT !.heard = FALSE].place = job[k].place
            /\ [job[k] EXCEPT !.heard = FALSE].stage = job[k].stage
        BY <4>1 DEF Job
      <4>3. QED
        BY <3>1, <4>2, MountType, IdleType DEF AtServer
    <3>3. progress' = progress
      BY <1>16 DEF Restart
    <3>4. QED
      BY <2>1, <3>2, <3>3, FlowFacts DEF JobsInOrder, Ahead
  <2>2. QED
    BY <1>16, <2>1, QuietInOrder DEF Restart, Happens
<1>17. CASE UNCHANGED vars
  BY <1>17 DEF vars, OrderInv, ProgressInOrder, JobsInOrder, Ahead
<1>18. QED
  BY <1>1, <1>2, <1>3, <1>4, <1>5, <1>6, <1>7, <1>8, <1>9, <1>10, <1>11, <1>12, <1>13, <1>14,
     <1>15, <1>16, <1>17 DEF Next, Server, App, User

(* InOrder: whatever is lost, repeated or restarted, the stages are         *)
(* completed in the order of the flow, as long as no answer to a start      *)
(* opens a completed stage again.                                           *)
THEOREM StagesInOrder == Spec => []InOrder
<1>1. OrderInv => InOrder
  BY DEF OrderInv, ProgressInOrder, Ahead, InOrder
<1>2. QED
  BY <1>1, TypeInit, TypeStep, OrderInit, OrderStep, PTL DEF Spec

-----------------------------------------------------------------------------
(***************************************************************************)
(* Why progress is backed by orders.  An order never goes back, so what    *)
(* changeProgress has found holds when it writes, and ever after.          *)
(***************************************************************************)
Confirmed == Existing \ Drafts # {}

Ended == \E o \in Orders : order[o].status = "ENDED"

Completing(s) == \E j \in Jobs : job[j].place = "write" /\ job[j].done /\ job[j].stage = s

BackedInv ==
  /\ "ORDER_CONFIRM" \in Stages =>
       (progress["ORDER_CONFIRM"] = "completed" \/ Completing("ORDER_CONFIRM") => Confirmed)
  /\ "ORDER_PROCESS" \in Stages =>
       (   progress["ORDER_PROCESS"] = "completed" \/ seen["ORDER_PROCESS"] = "completed"
        \/ Completing("ORDER_PROCESS") => Ended)

(* Orders advance: none is a draft, or open, again *)
LEMMA OrdersAdvance ==
  ASSUME TypeOK, [Next]_vars
  PROVE  (Confirmed => Confirmed') /\ (Ended => Ended')
<1> DEFINE Forward == \A o \in Orders :
             /\ order[o].status \notin {"ABSENT", "DRAFT"} => order'[o].status \notin {"ABSENT", "DRAFT"}
             /\ order[o].status = "ENDED" => order'[o].status = "ENDED"
<1>0. ASSUME order' = order PROVE Forward
  BY <1>0
<1>a. ASSUME NEW o \in Orders, NEW st \in {"DRAFT", "OPEN", "ENDED"},
             order' = [order EXCEPT ![o].status = st],
             order[o].status # "ENDED", st = "DRAFT" => order[o].status \in {"ABSENT", "DRAFT"}
      PROVE  Forward
  BY <1>a DEF TypeOK, OrderRow
<1>1. ASSUME NEW j \in Jobs, Create(j) PROVE Forward
  <2>1. PICK o \in Orders : IsNext(o) /\ order' = [order EXCEPT ![o].status = "DRAFT"]
    BY <1>1 DEF Create
  <2>2. order[o].status = "ABSENT"
    BY <2>1 DEF IsNext, Existing
  <2>3. QED
    BY <1>a, <2>1, <2>2
<1>2. ASSUME NEW j \in Jobs, UpdateOrder(j) PROVE Forward
  <2>1. \A o \in Orders : order'[o].status = order[o].status
    BY <1>2 DEF UpdateOrder, TypeOK, OrderRow
  <2>2. QED
    BY <2>1
<1>3. ASSUME NEW j \in Jobs, ConfirmOrder(j) PROVE Forward
  <2>1. job[j].order \in Orders
    BY <1>3 DEF ConfirmOrder, TypeOK
  <2>2. CASE order' = order
    BY <2>2, <1>0
  <2>3. CASE order' # order
    BY <1>3, <1>a, <2>1, <2>3 DEF ConfirmOrder
  <2>4. QED
    BY <2>2, <2>3
<1>4. ASSUME NEW o \in Orders, EngineEnds(o) \/ AbortOrder(o) PROVE Forward
  BY <1>4, <1>a DEF EngineEnds, AbortOrder
<1>5. ASSUME [\/ \E j \in Jobs : \/ ChangeAddress(j) \/ FindOrder(j) \/ ReadProgress(j)
                                 \/ WriteProgress(j) \/ App(j) \/ Lose(j)
                                 \/ \E i \in DOMAIN Flow : User(j, i)
              \/ ForgetOrder \/ Restart]_vars
      PROVE  Forward
  <2>1. order' = order
    BY <1>5 DEF ChangeAddress, FindOrder, ReadProgress, WriteProgress, App, KeepOrder, Mounted,
                Refresh, Lose, User, Show, Press, ForgetOrder, Restart, vars
  <2>2. QED
    BY <2>1, <1>0
<1>6. Forward
  BY <1>1, <1>2, <1>3, <1>4, <1>5 DEF Next, Server
<1>7. QED
  BY <1>6 DEF Confirmed, Ended, Existing, Drafts

(* Only changeProgress itself brings a job to where it writes *)
LEMMA OnlyReadCompletes ==
  ASSUME TypeOK, [Next]_vars, NEW s \in Stages, Completing(s)',
         \A j \in Jobs : ~ReadProgress(j)
  PROVE  Completing(s)
<1>1. PICK k \in Jobs : job'[k].place = "write" /\ job'[k].done /\ job'[k].stage = s
  BY DEF Completing
<1>0. JobsOK /\ job[k] \in Job
  BY DEF TypeOK, JobsOK
<1> DEFINE Same == job[k].place = "write" /\ job[k].done = job'[k].done /\ job[k].stage = job'[k].stage
<1>a. ASSUME NEW j \in Jobs, NEW new, new.place # "write", job' = [job EXCEPT ![j] = new] PROVE Same
  BY <1>0, <1>1, <1>a DEF JobsOK
<1>b. ASSUME NEW j \in Jobs, NEW o, NEW place \in {"order", "read", "refresh", "mounted"},
             Answer(j, place, o)
      PROVE  Same
  <2> DEFINE new == IF job[j].heard THEN [job[j] EXCEPT !.place = place, !.order = o] ELSE Idle
  <2>1. job[j] \in Job
    BY DEF TypeOK
  <2>2. new.place # "write"
    BY <2>1, IdleType DEF Job
  <2>3. job' = [job EXCEPT ![j] = new]
    BY <1>b DEF Answer
  <2> HIDE DEF new
  <2>4. QED
    BY <1>a, <2>2, <2>3
<1>c. ASSUME NEW j \in Jobs, End(j) PROVE Same
  BY <1>a, <1>c, IdleType DEF End
<1>2. ASSUME NEW j \in Jobs, NEW i \in DOMAIN Flow, Show(j, i) PROVE Same
  BY <1>2, <1>a, StartType, FlowFacts DEF Show
<1>3. ASSUME NEW j \in Jobs, NEW i \in DOMAIN Flow, Press(j, i) PROVE Same
  <2>1. PICK r \in Request(Flow[i]) :
            job' = [job EXCEPT ![j] = [place |-> r, done |-> TRUE, stage |-> Flow[i],
                       order |-> IF r \in {"update", "confirm"} THEN cur ELSE NoOrder,
                       heard |-> TRUE]]
    BY <1>3 DEF Press
  <2>2. r # "write"
    BY <2>1, FlowFacts, Zenon DEF Request, Known
  <2>3. QED
    BY <1>a, <2>1, <2>2
<1>4. ASSUME NEW j \in Jobs, Create(j) \/ ChangeAddress(j) \/ FindOrder(j) \/ WriteProgress(j) PROVE Same
  BY <1>4, <1>b DEF Create, ChangeAddress, FindOrder, WriteProgress
<1>5. ASSUME NEW j \in Jobs, UpdateOrder(j) \/ ConfirmOrder(j) PROVE Same
  BY <1>5, <1>b, <1>c DEF UpdateOrder, ConfirmOrder
<1>6. ASSUME NEW j \in Jobs, KeepOrder(j) PROVE Same
  <2>1. job[j] \in Job
    BY DEF TypeOK
  <2> DEFINE new == [job[j] EXCEPT !.place = "read", !.order = NoOrder]
  <2>2. new.place # "write"
    BY <2>1 DEF Job
  <2>3. job' = [job EXCEPT ![j] = new]
    BY <1>6, <1>0 DEF KeepOrder, JobsOK
  <2> HIDE DEF new
  <2>4. QED
    BY <1>a, <2>2, <2>3
<1>7. ASSUME NEW j \in Jobs, Mounted(j) PROVE Same
  BY <1>7, <1>c DEF Mounted
<1>8. ASSUME NEW j \in Jobs, Refresh(j) PROVE Same
  <2>1. job[j].stage \in Stages
    BY <1>8 DEF Refresh, TypeOK
  <2>2. Index(job[j].stage) < Len(Flow) => Flow[Index(job[j].stage) + 1] \in Stages
    BY <2>1, IndexFacts, FlowFacts
  <2>3. QED
    BY <1>8, <1>a, <2>2, StartType, IdleType DEF Refresh
<1>9. ASSUME NEW j \in Jobs, Lose(j) PROVE Same
  <2>1. CASE End(j)
    BY <2>1, <1>c
  <2>2. CASE job' = [job EXCEPT ![j].heard = FALSE]
    BY <2>2, <1>0, <1>1 DEF JobsOK, Job
  <2>3. QED
    BY <1>9, <2>1, <2>2 DEF Lose
<1>10. ASSUME Restart PROVE Same
  BY <1>10, <1>0, <1>1, MountType, IdleType DEF Restart, Job
<1>11. ASSUME (\E o \in Orders : EngineEnds(o) \/ AbortOrder(o)) \/ ForgetOrder \/ UNCHANGED vars PROVE Same
  BY <1>11, <1>1 DEF EngineEnds, AbortOrder, ForgetOrder, vars
<1>12. Same
  BY <1>2, <1>3, <1>4, <1>5, <1>6, <1>7, <1>8, <1>9, <1>10, <1>11 DEF Next, Server, App, User
<1>13. QED
  BY <1>1, <1>12 DEF Completing

LEMMA BackedStep == TypeOK /\ BackedInv /\ [Next]_vars => BackedInv'
<1> SUFFICES ASSUME TypeOK, BackedInv, [Next]_vars PROVE BackedInv'
  OBVIOUS
<1>1. (Confirmed => Confirmed') /\ (Ended => Ended')
  BY OrdersAdvance
<1>2. ASSUME NEW j \in Jobs, ReadProgress(j) PROVE BackedInv'
  <2> DEFINE s == job[j].stage
  <2>1. UNCHANGED <<progress, order, seen>> /\ s \in Stages /\ job[j] \in Job
    BY <1>2 DEF ReadProgress, TypeOK
  <2>2. ASSUME job[j].done, s \in {"ORDER_CONFIRM", "ORDER_PROCESS"}, job'[j].place = "write"
        PROVE  /\ s = "ORDER_CONFIRM" => Confirmed
               /\ s = "ORDER_PROCESS" => Ended
    <3>1. PICK accepted \in Verdicts(s) :
            job' = [job EXCEPT ![j] = IF accepted THEN [@ EXCEPT !.place = "write"] ELSE Idle]
      BY <1>2, <2>2 DEF ReadProgress
    <3>2. accepted
      BY <2>2, <3>1, IdleType DEF TypeOK
    <3>3. PICK o \in Existing : Suits(s, o)
      BY <2>2, <3>1, <3>2, Zenon DEF Verdicts, Found
    <3>4. s = "ORDER_CONFIRM" => order[o].status # "DRAFT"
      BY <3>3 DEF Suits
    <3>5. s = "ORDER_PROCESS" => order[o].status = "ENDED"
      BY <3>3 DEF Suits
    <3>6. QED
      BY <3>3, <3>4, <3>5 DEF Confirmed, Ended, Existing, Drafts
  <2>3. ASSUME NEW r \in Stages, Completing(r)'
        PROVE  Completing(r) \/ (job[j].done /\ s = r /\ job'[j].place = "write")
    <3>1. PICK k \in Jobs : job'[k].place = "write" /\ job'[k].done /\ job'[k].stage = r
      BY <2>3 DEF Completing
    <3>2. CASE k = j
      <4>1. job'[j] \in {Idle, [job[j] EXCEPT !.place = "write"]}
        BY <1>2 DEF ReadProgress, TypeOK
      <4>2. job'[j] = [job[j] EXCEPT !.place = "write"]
        BY <3>1, <3>2, <4>1, IdleType
      <4>3. QED
        BY <2>1, <3>1, <3>2, <4>2 DEF Job
    <3>3. CASE k # j
      <4>1. job'[k] = job[k]
        BY <1>2, <3>3 DEF ReadProgress, TypeOK
      <4>2. QED
        BY <3>1, <4>1 DEF Completing
    <3>4. QED
      BY <3>2, <3>3
  <2>4. QED
    BY <1>1, <2>1, <2>2, <2>3 DEF BackedInv
<1>3. ASSUME \A j \in Jobs : ~ReadProgress(j) PROVE BackedInv'
  <2>1. \A s \in Stages : Completing(s)' => Completing(s)
    BY <1>3, OnlyReadCompletes
  <2>2. ASSUME NEW s \in Stages
        PROVE  /\ progress'[s] = "completed" => progress[s] = "completed" \/ Completing(s)
               /\ seen'[s] = "completed" => seen[s] = "completed" \/ progress[s] = "completed"
    <3>1. CASE \E j \in Jobs : WriteProgress(j)
      BY <2>2, <3>1 DEF WriteProgress, Completing, TypeOK
    <3>2. CASE ~\E j \in Jobs : WriteProgress(j)
      <4>1. progress' = progress /\ (seen' = seen \/ seen' = progress)
        BY <1>3, <3>2 DEF Next, Server, App, User, Show, Press, Create, UpdateOrder, ChangeAddress,
           ConfirmOrder, EngineEnds, FindOrder, KeepOrder, Mounted, Refresh, Lose, ForgetOrder,
           Restart, AbortOrder, vars
      <4>2. QED
        BY <4>1
    <3>3. QED
      BY <3>1, <3>2
  <2>3. QED
    BY <1>1, <2>1, <2>2 DEF BackedInv
<1>4. QED
  BY <1>2, <1>3

(* ProgressIsBacked: whoever is past ORDER_CONFIRM, or let into the main    *)
(* screens, has an order that is confirmed, or that has ended.              *)
THEOREM ProgressBacked == Spec => []ProgressIsBacked
<1>1. Init => BackedInv
  BY FlowFacts DEF Init, Mount, Idle, BackedInv, Completing
<1>2. BackedInv => ProgressIsBacked
  BY DEF BackedInv, ProgressIsBacked, Confirmed, Ended
<1>3. QED
  BY <1>1, <1>2, TypeInit, TypeStep, BackedStep, PTL DEF Spec

-----------------------------------------------------------------------------
(***************************************************************************)
(* Why a user gets one order.  As long as no answer was lost, no press     *)
(* overlapped another and no stage was opened again, the app has the order *)
(* there is, or its answer is on its way; it lets go of it only when every *)
(* stage is completed, and then its screens are gone.                      *)
(***************************************************************************)
Harmless == history \cap {"lost", "overlapped", "reopened"} = {}

Awaited == {"create", "order", "orders", "mounted"}

(* A creation under way is the only one, and nothing else sets the order *)
Alone(j) == /\ job[j].heard /\ Existing = {}
            /\ \A k \in Jobs \ {j} : job[k].place \notin Awaited

(* An answer with an order in it *)
Brings(j) == \/ job[j].place = "order"
             \/ job[j].place = "mounted" /\ job[j].order # NoOrder

OnTheWay == /\ \E j \in Jobs : job[j].place = "order"
            /\ \A j \in Jobs : job[j].place \notin {"orders", "mounted"}

OrderKept ==
  /\ \A o, p \in Existing : o = p
  /\ Existing # {} /\ cur = NoOrder => AllSeen \/ OnTheWay
  /\ cur # NoOrder => Existing # {}
  /\ \A j \in Jobs : job[j].place = "create" => Alone(j)
  /\ \A j \in Jobs : Brings(j) => Existing # {}
  /\ \A j \in Jobs : job[j].place = "mounted" /\ ~Brings(j) => Existing = {} \/ AllSeen

SingleInv == Harmless => OrderKept

(* A flow that ends where the app lets go of the order *)
ProcessLast == \A i \in DOMAIN Flow : Flow[i] = "ORDER_PROCESS" => i = Len(Flow)

(* Nothing but a creation adds an order *)
LEMMA RowsStay ==
  ASSUME TypeOK, NEW o \in Orders, NEW st \in {"OPEN", "ENDED"},
         order' = [order EXCEPT ![o].status = st], order[o].status # "ABSENT"
  PROVE  Existing' = Existing
BY DEF Existing, TypeOK, OrderRow

(* Where the app has seen every stage completed it stays so *)
LEMMA SeenStays ==
  ASSUME OrderInv, Harmless, AllSeen, seen' \in {seen, progress}
  PROVE  AllSeen'
<1>1. \A s \in Stages : \E i \in DOMAIN Flow : Flow[i] = s
  BY DEF Stages
<1>2. \A s \in Stages : seen[s] = "completed" /\ progress[s] = "completed"
  BY <1>1 DEF OrderInv, Harmless, ProgressInOrder, AllSeen
<1>3. QED
  BY <1>2 DEF AllSeen

(* A step of one job that keeps the current order and brings none of its own *)
LEMMA OneJobKeeps ==
  ASSUME OrderKept, cur' = cur, Existing' = Existing, AllSeen => AllSeen',
         NEW j \in Jobs, NEW new, \A k \in Jobs : job'[k] = IF k = j THEN new ELSE job[k],
         job[j].place # "order", new.place \notin {"create", "orders"},
         new.place = "order" => Existing # {},
         new.place = "mounted" =>
           /\ job[j].place = "orders"
           /\ IF new.order # NoOrder THEN Existing # {} ELSE Existing = {} \/ AllSeen
  PROVE  OrderKept'
<1>1. OnTheWay => OnTheWay'
  BY DEF OnTheWay
<1>2. ASSUME NEW k \in Jobs, job'[k].place = "create" PROVE Alone(k)'
  <2>1. k # j /\ job'[k] = job[k] /\ Alone(k)
    BY <1>2 DEF OrderKept
  <2>2. new.place \notin Awaited
    BY <2>1 DEF Alone, Awaited
  <2>3. QED
    BY <2>1, <2>2 DEF Alone
<1>3. \A k \in Jobs : Brings(k)' => Existing # {}
  BY DEF OrderKept, Brings
<1>4. \A k \in Jobs : job'[k].place = "mounted" /\ ~Brings(k)' => Existing = {} \/ AllSeen
  BY DEF OrderKept, Brings
<1>5. QED
  BY <1>1, <1>2, <1>3, <1>4 DEF OrderKept

LEMMA AnswerKeeps ==
  ASSUME TypeOK, OrderKept, cur' = cur, Existing' = Existing, AllSeen => AllSeen',
         NEW j \in Jobs, NEW place \in {"order", "read", "refresh", "mounted"}, NEW o,
         Answer(j, place, o), job[j].place # "order",
         place = "order" => Existing # {},
         place = "mounted" =>
           /\ job[j].place = "orders"
           /\ IF o # NoOrder THEN Existing # {} ELSE Existing = {} \/ AllSeen
  PROVE  OrderKept'
<1> DEFINE new == IF job[j].heard THEN [job[j] EXCEPT !.place = place, !.order = o] ELSE Idle
<1>1. job[j] \in Job
  BY DEF TypeOK
<1>2. /\ \A k \in Jobs : job'[k] = IF k = j THEN new ELSE job[k]
      /\ new.place \in {place, "idle"} /\ (new.place = place => new.order = o)
  BY <1>1, IdleType DEF Answer, TypeOK, Job
<1> HIDE DEF new
<1>3. QED
  BY <1>2, OneJobKeeps

LEMMA EndKeeps ==
  ASSUME TypeOK, OrderKept, cur' = cur, Existing' = Existing, AllSeen => AllSeen',
         NEW j \in Jobs, End(j), job[j].place # "order"
  PROVE  OrderKept'
BY IdleType, OneJobKeeps DEF End, TypeOK

-----------------------------------------------------------------------------
(* A press creates an order only where none is known or on its way *)
LEMMA PressKeeps ==
  ASSUME TypeOK, OrderKept, NEW j \in Jobs, NEW i \in DOMAIN Flow, Press(j, i), Harmless'
  PROVE  OrderKept'
<1>1. PICK r \in Request(Flow[i]) :
        /\ job' = [job EXCEPT ![j] = [place |-> r, done |-> TRUE, stage |-> Flow[i],
                       order |-> IF r \in {"update", "confirm"} THEN cur ELSE NoOrder,
                       heard |-> TRUE]]
        /\ history' = IF r = "create" /\ OrderAwaited THEN history \cup {"overlapped"} ELSE history
  BY DEF Press
<1>2. /\ r \in {"create", "update", "address", "confirm", "read"}
      /\ r = "create" => cur = NoOrder
  BY <1>1, FlowFacts, Zenon DEF Request, Known
<1> DEFINE new == [place |-> r, done |-> TRUE, stage |-> Flow[i],
                   order |-> IF r \in {"update", "confirm"} THEN cur ELSE NoOrder, heard |-> TRUE]
<1>3. /\ \A k \in Jobs : job'[k] = IF k = j THEN new ELSE job[k]
      /\ new.place = r /\ new.heard
  BY <1>1 DEF TypeOK
<1>4. /\ cur' = cur /\ Existing' = Existing /\ AllSeen' = AllSeen
      /\ job[j].place = "idle" /\ ~AllSeen
  BY DEF Press, Existing, AllSeen, Reachable
<1> HIDE DEF new
<1>5. CASE r # "create"
  BY <1>2, <1>3, <1>4, <1>5, OneJobKeeps
<1>6. CASE r = "create"
  <2>1. \A k \in Jobs : job[k].place \notin Awaited
    BY <1>1, <1>6 DEF Harmless, OrderAwaited, Awaited
  <2>2. Existing = {}
    BY <1>2, <1>4, <1>6, <2>1 DEF OrderKept, OnTheWay, Awaited
  <2>3. \A k \in Jobs : job'[k].place \in Awaited => k = j
    BY <1>3, <2>1
  <2>4. \A k \in Jobs : ~Brings(k)' /\ job'[k].place # "mounted"
    BY <1>3, <1>6, <2>3 DEF Brings, Awaited
  <2>5. \A k \in Jobs : job'[k].place = "create" => Alone(k)'
    BY <1>3, <1>4, <2>2, <2>3 DEF Alone, Awaited
  <2>6. QED
    BY <1>2, <1>4, <1>6, <2>2, <2>4, <2>5 DEF OrderKept
<1>7. QED
  BY <1>5, <1>6

LEMMA CreateKeeps ==
  ASSUME TypeOK, OrderKept, NEW j \in Jobs, Create(j)
  PROVE  OrderKept'
<1>1. PICK o \in Orders : /\ order' = [order EXCEPT ![o].status = "DRAFT"]
                          /\ Answer(j, "order", o)
  BY DEF Create
<1>2. Alone(j) /\ job[j].place = "create" /\ job[j] \in Job /\ cur' = cur
  BY DEF Create, OrderKept, TypeOK
<1>3. Existing' = {o}
  BY <1>1, <1>2 DEF Alone, Existing, TypeOK, OrderRow
<1>4. /\ job'[j].place = "order"
      /\ \A k \in Jobs \ {j} : job'[k] = job[k] /\ job[k].place \notin Awaited
  BY <1>1, <1>2 DEF Answer, Alone, TypeOK, Job
<1>5. \A k \in Jobs : job'[k].place \in Awaited => k = j
  BY <1>4
<1>6. OnTheWay'
  BY <1>4, <1>5 DEF OnTheWay, Awaited
<1>7. \A k \in Jobs : job'[k].place \notin {"create", "mounted"}
  BY <1>4, <1>5 DEF Awaited
<1>8. QED
  BY <1>3, <1>6, <1>7 DEF OrderKept

LEMMA KeepOrderKeeps ==
  ASSUME TypeOK, OrderKept, NEW j \in Jobs, KeepOrder(j)
  PROVE  OrderKept'
<1>1. /\ Existing' = Existing /\ AllSeen' = AllSeen /\ cur' \in Orders /\ Existing # {}
  BY DEF KeepOrder, Existing, AllSeen, TypeOK, OrderKept, Brings
<1>2. cur' # NoOrder
  BY <1>1, OnboardingAssumption
<1>3. \A k \in Jobs : \/ job'[k].place = "read"
                      \/ job'[k] = job[k]
  BY DEF KeepOrder, TypeOK, Job
<1>4. \A k \in Jobs : job'[k].place # "create"
  BY <1>1, <1>3 DEF OrderKept, Alone
<1>5. QED
  BY <1>1, <1>2, <1>3, <1>4 DEF OrderKept, Brings

LEMMA MountedKeeps ==
  ASSUME TypeOK, OrderKept, AllSeen => AllSeen', NEW j \in Jobs, Mounted(j)
  PROVE  OrderKept'
<1>1. /\ Existing' = Existing /\ cur' = job[j].order /\ job[j].place = "mounted"
      /\ \A k \in Jobs : job'[k] = IF k = j THEN Idle ELSE job[k]
  BY DEF Mounted, Existing, End, TypeOK
<1>2. \A k \in Jobs : job'[k].place # "create"
  <2>1. \A k \in Jobs \ {j} : job[k].place # "create"
    BY <1>1 DEF OrderKept, Alone, Awaited
  <2>2. QED
    BY <1>1, <2>1, IdleType
<1>3. cur' # NoOrder => Existing # {}
  BY <1>1 DEF OrderKept, Brings
<1>4. cur' = NoOrder => Existing = {} \/ AllSeen
  BY <1>1 DEF OrderKept, Brings
<1>5. \A k \in Jobs : /\ Brings(k)' => Brings(k)
                      /\ job'[k].place = "mounted" /\ ~Brings(k)' => job[k].place = "mounted" /\ ~Brings(k)
  BY <1>1, IdleType DEF Brings
<1>6. QED
  BY <1>1, <1>2, <1>3, <1>4, <1>5 DEF OrderKept

(* ORDER_PROCESS is the last stage: the order is let go of with all completed *)
LEMMA RefreshKeeps ==
  ASSUME ProcessLast, TypeOK, OrderInv, Harmless, OrderKept, NEW j \in Jobs, Refresh(j)
  PROVE  OrderKept'
<1> DEFINE s == job[j].stage
           new == IF job[j].done /\ Index(s) < Len(Flow) THEN Start(Flow[Index(s) + 1]) ELSE Idle
<1>1. s \in Stages /\ job[j].place = "refresh" /\ Existing' = Existing /\ seen' = progress
  BY DEF Refresh, TypeOK, Existing
<1>2. Index(s) \in DOMAIN Flow /\ Flow[Index(s)] = s
  BY <1>1, IndexFacts
<1>3. new.place \in {"read", "idle"}
  <2>1. job[j].done /\ Index(s) < Len(Flow) => Flow[Index(s) + 1] \in Stages
    BY <1>2, FlowFacts
  <2>2. QED
    BY <2>1, StartType, IdleType
<1>4. \A k \in Jobs : job'[k] = IF k = j THEN new ELSE job[k]
  BY DEF Refresh, TypeOK
<1>5. AllSeen => AllSeen'
  BY <1>1, SeenStays
<1>6. ProgressInOrder /\ JobsInOrder
  BY DEF OrderInv, Harmless
<1>7. CASE job[j].done /\ s = "ORDER_PROCESS"
  <2>1. Index(s) = Len(Flow) /\ progress[s] = "completed"
    BY <1>1, <1>2, <1>6, <1>7 DEF ProcessLast, JobsInOrder
  <2>2. Ahead(Index(s))
    BY <1>2, <1>6 DEF JobsInOrder
  <2>3. \A h \in DOMAIN Flow : h < Len(Flow) \/ h = Len(Flow)
    BY FlowFacts
  <2>4. \A h \in DOMAIN Flow : progress[Flow[h]] = "completed"
    BY <1>2, <2>1, <2>2, <2>3 DEF Ahead
  <2>5. AllSeen'
    BY <1>1, <2>4 DEF AllSeen, Stages
  <2>6. cur' = NoOrder
    BY <1>7 DEF Refresh
  <2> HIDE DEF new
  <2>7. \A k \in Jobs : job'[k].place = "create" => Alone(k)'
    BY <1>1, <1>3, <1>4 DEF OrderKept, Alone, Awaited
  <2>8. \A k \in Jobs : Brings(k)' => Existing # {}
    BY <1>3, <1>4 DEF OrderKept, Brings
  <2>9. QED
    BY <1>1, <2>5, <2>6, <2>7, <2>8 DEF OrderKept
<1>8. CASE ~(job[j].done /\ s = "ORDER_PROCESS")
  <2>1. cur' = cur
    BY <1>8 DEF Refresh
  <2> HIDE DEF new
  <2>2. QED
    BY <1>1, <1>3, <1>4, <1>5, <2>1, OneJobKeeps
<1>9. QED
  BY <1>7, <1>8

(* No creation and no answer to one is under way at a harmless restart *)
LEMMA RestartKeeps ==
  ASSUME TypeOK, OrderKept, Restart, Harmless'
  PROVE  OrderKept'
<1>1. PICK j \in Jobs :
        job' = [k \in Jobs |->
            IF k = j THEN Mount
            ELSE IF job[k].place \in AtServer THEN [job[k] EXCEPT !.heard = FALSE] ELSE Idle]
  BY DEF Restart
<1>2. /\ Existing' = Existing /\ AllSeen' = AllSeen /\ cur' = cur
  BY DEF Restart, Existing, AllSeen
<1>3. \A k \in Jobs : job[k].place \notin {"create", "order"}
  BY DEF Restart, Happens, Harmless
<1>4. ASSUME NEW k \in Jobs
      PROVE  job'[k].place \notin {"create", "order", "mounted"}
  <2>1. job[k] \in Job
    BY DEF TypeOK
  <2>2. job[k].place \in AtServer =>
            [job[k] EXCEPT !.heard = FALSE].place \notin {"create", "order", "mounted"}
    BY <1>3, <2>1 DEF AtServer, Job
  <2>3. QED
    BY <1>1, <2>2, MountType, IdleType
<1>5. Existing # {} /\ cur = NoOrder => AllSeen
  BY <1>3 DEF OrderKept, OnTheWay
<1>6. QED
  BY <1>2, <1>4, <1>5 DEF OrderKept, Brings

-----------------------------------------------------------------------------
LEMMA SingleStep ==
  ASSUME ProcessLast
  PROVE  TypeOK /\ OrderInv /\ SingleInv /\ [Next]_vars => SingleInv'
<1> SUFFICES ASSUME TypeOK, OrderInv, SingleInv, [Next]_vars, Harmless' PROVE OrderKept'
  BY DEF SingleInv
<1>1. Harmless /\ OrderKept
  <2>1. history \subseteq history'
    BY DEF Next, Server, App, User, Show, Press, Create, UpdateOrder, ChangeAddress, ConfirmOrder,
       EngineEnds, FindOrder, ReadProgress, WriteProgress, KeepOrder, Mounted, Refresh, Lose,
       ForgetOrder, Restart, AbortOrder, Happens, vars
  <2>2. QED
    BY <2>1 DEF Harmless, SingleInv
<1>2. ASSUME NEW j \in Jobs, NEW i \in DOMAIN Flow, Show(j, i) PROVE OrderKept'
  <2>1. /\ Existing' = Existing /\ AllSeen' = AllSeen /\ cur' = cur /\ job[j].place = "idle"
        /\ \A k \in Jobs : job'[k] = IF k = j THEN Start(Flow[i]) ELSE job[k]
    BY <1>2 DEF Show, Existing, AllSeen, TypeOK
  <2>2. Start(Flow[i]).place = "read"
    BY StartType, FlowFacts
  <2>3. QED
    BY <1>1, <2>1, <2>2, OneJobKeeps
<1>3. ASSUME NEW j \in Jobs, NEW i \in DOMAIN Flow, Press(j, i) PROVE OrderKept'
  BY <1>1, <1>3, PressKeeps
<1>4. ASSUME NEW j \in Jobs, Create(j) PROVE OrderKept'
  BY <1>1, <1>4, CreateKeeps
<1>5. ASSUME NEW j \in Jobs, UpdateOrder(j) PROVE OrderKept'
  <2> DEFINE o == job[j].order
  <2>1. /\ AllSeen' = AllSeen /\ cur' = cur /\ job[j].place = "update" /\ o \in Orders
    BY <1>5 DEF UpdateOrder, AllSeen, TypeOK
  <2>2. Existing' = Existing
    BY <1>5 DEF UpdateOrder, Existing, TypeOK, OrderRow
  <2>3. CASE order[o].status = "DRAFT"
    <3>1. Answer(j, "order", o) /\ Existing # {}
      BY <1>5, <2>1, <2>3 DEF UpdateOrder, Existing
    <3>2. QED
      BY <1>1, <2>1, <2>2, <3>1, AnswerKeeps
  <2>4. CASE order[o].status # "DRAFT"
    BY <1>1, <1>5, <2>1, <2>2, <2>4, EndKeeps DEF UpdateOrder
  <2>5. QED
    BY <2>3, <2>4
<1>6. ASSUME NEW j \in Jobs, ChangeAddress(j) PROVE OrderKept'
  BY <1>1, <1>6, AnswerKeeps DEF ChangeAddress, Existing, AllSeen
<1>7. ASSUME NEW j \in Jobs, ConfirmOrder(j) PROVE OrderKept'
  <2>1. /\ AllSeen' = AllSeen /\ cur' = cur /\ job[j].place = "confirm" /\ job[j].order \in Orders
        /\ Answer(j, "read", NoOrder) \/ End(j)
    BY <1>7 DEF ConfirmOrder, AllSeen, TypeOK
  <2>2. Existing' = Existing
    BY <1>7, <2>1, RowsStay DEF ConfirmOrder, Existing
  <2>3. QED
    BY <1>1, <2>1, <2>2, AnswerKeeps, EndKeeps
<1>8. ASSUME NEW o \in Orders, EngineEnds(o) \/ AbortOrder(o) PROVE OrderKept'
  <2>1. Existing' = Existing
    BY <1>8, RowsStay DEF EngineEnds, AbortOrder
  <2>2. UNCHANGED <<cur, job, seen>>
    BY <1>8 DEF EngineEnds, AbortOrder
  <2>3. QED
    BY <1>1, <2>1, <2>2 DEF OrderKept, Alone, Brings, OnTheWay, AllSeen
<1>9. ASSUME NEW j \in Jobs, FindOrder(j) PROVE OrderKept'
  <2>1. PICK o \in Orders \cup {NoOrder} : Fetched(o) /\ Answer(j, "mounted", o)
    BY <1>9 DEF FindOrder
  <2>2. /\ Existing' = Existing /\ AllSeen' = AllSeen /\ cur' = cur /\ job[j].place = "orders"
    BY <1>9 DEF FindOrder, Existing, AllSeen
  <2>3. o # NoOrder => Existing # {}
    BY <1>1, <2>1 DEF Fetched, Drafts, Existing, OrderKept
  <2>4. o = NoOrder => Existing = {} \/ AllSeen
    <3>1. o = NoOrder => cur = NoOrder
      BY <2>1, OnboardingAssumption DEF Fetched
    <3>2. QED
      BY <1>1, <2>2, <3>1 DEF OrderKept, OnTheWay
  <2>5. QED
    BY <1>1, <2>1, <2>2, <2>3, <2>4, AnswerKeeps
<1>10. ASSUME NEW j \in Jobs, ReadProgress(j) PROVE OrderKept'
  <2>1. /\ Existing' = Existing /\ AllSeen' = AllSeen /\ cur' = cur /\ job[j].place = "read"
    BY <1>10 DEF ReadProgress, Existing, AllSeen
  <2>2. \/ job' = [job EXCEPT ![j] = [@ EXCEPT !.place = "write"]]
        \/ job' = [job EXCEPT ![j] = Idle]
    BY <1>10 DEF ReadProgress
  <2>3. PICK new : /\ job' = [job EXCEPT ![j] = new]
                   /\ new.place \in {"write", "idle"}
    BY <2>2, IdleType DEF TypeOK, Job
  <2>4. \A k \in Jobs : job'[k] = IF k = j THEN new ELSE job[k]
    BY <2>3 DEF TypeOK
  <2>5. QED
    BY <1>1, <2>1, <2>3, <2>4, OneJobKeeps
<1>11. ASSUME NEW j \in Jobs, WriteProgress(j) PROVE OrderKept'
  BY <1>1, <1>11, AnswerKeeps DEF WriteProgress, Existing, AllSeen
<1>12. ASSUME NEW j \in Jobs, KeepOrder(j) PROVE OrderKept'
  BY <1>1, <1>12, KeepOrderKeeps
<1>13. ASSUME NEW j \in Jobs, Mounted(j) PROVE OrderKept'
  <2>1. AllSeen => AllSeen'
    BY <1>1, <1>13, SeenStays DEF Mounted
  <2>2. QED
    BY <1>1, <1>13, <2>1, MountedKeeps
<1>14. ASSUME NEW j \in Jobs, Refresh(j) PROVE OrderKept'
  BY <1>1, <1>14, RefreshKeeps
<1>15. ASSUME (\E j \in Jobs : Lose(j)) \/ ForgetOrder PROVE OrderKept'
  BY <1>15 DEF Lose, ForgetOrder, Happens, Harmless
<1>16. ASSUME Restart PROVE OrderKept'
  BY <1>1, <1>16, RestartKeeps
<1>17. CASE UNCHANGED vars
  BY <1>1, <1>17 DEF vars, OrderKept, Alone, Brings, OnTheWay, AllSeen, Existing
<1>18. QED
  BY <1>2, <1>3, <1>4, <1>5, <1>6, <1>7, <1>8, <1>9, <1>10, <1>11, <1>12, <1>13, <1>14, <1>15,
     <1>16, <1>17 DEF Next, Server, App, User

(* SingleOrder: in a flow that ends with ORDER_PROCESS, as the seeded one   *)
(* does, the app makes one order for a user, whatever restarts and aborts   *)
(* there are, unless an answer was lost, a press came before the answer to  *)
(* the one before, or a completed stage was opened again.                   *)
THEOREM OneOrderMade ==
  ASSUME ProcessLast
  PROVE  Spec => []SingleOrder
<1>1. Init => SingleInv
  <2>1. Init => Existing = {}
    BY DEF Init, Existing
  <2>2. Init => \A j \in Jobs : job[j].place \in {"orders", "idle"}
    BY MountType, IdleType DEF Init
  <2>3. Init => cur = NoOrder
    BY DEF Init
  <2>4. QED
    BY <2>1, <2>2, <2>3 DEF SingleInv, OrderKept, Brings
<1>2. SingleInv => SingleOrder
  <2>1. ASSUME OrderKept PROVE ~(Cardinality(Existing) > 1)
    <3>1. CASE Existing = {}
      <4>1. Cardinality({}) = 0
        BY FS_EmptySet, Zenon
      <4>2. QED
        BY <3>1, <4>1
    <3>2. CASE Existing # {}
      <4>1. PICK o : Existing = {o}
        BY <2>1, <3>2 DEF OrderKept
      <4>2. Cardinality({o}) = 1
        BY FS_Singleton, Zenon
      <4>3. QED
        BY <4>1, <4>2
    <3>3. QED
      BY <3>1, <3>2
  <2>2. QED
    BY <2>1 DEF SingleInv, SingleOrder, Harmless
<1>3. TypeOK /\ OrderInv /\ SingleInv /\ [Next]_vars => SingleInv'
  BY SingleStep
<1>4. QED
  BY <1>1, <1>2, <1>3, TypeInit, TypeStep, OrderInit, OrderStep, PTL DEF Spec
===============================================================================
