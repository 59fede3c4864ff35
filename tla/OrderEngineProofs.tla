-------------------------- MODULE OrderEngineProofs --------------------------
(***************************************************************************)
(* Theorems about OrderEngine, for any number of orders, invocations and   *)
(* steps, any retries setting and any bounds on the environment.           *)
(***************************************************************************)
EXTENDS OrderEngine, TLAPS

(* Types of the operators that compute a value to store *)
LEMMA FirstStepType ==
  ASSUME TypeOK, NEW o \in Orders, NEW a \in Action
  PROVE  FirstStep(o, a) \in Steps
BY EngineAssumption DEF TypeOK, OrderRow, FirstStep, Steps, NoStep, Action

LEMMA NextStepType ==
  ASSUME TypeOK, NEW w \in Workers
  PROVE  NextStep(w) \in Steps \cup {NoStep}
<1>1. inv[w] \in Invocation
  BY DEF TypeOK
<1>2. inv[w].i \in Steps
  BY <1>1 DEF Invocation
<1>3. inv[w].i < NumSteps - 1 => inv[w].i + 1 \in Steps
  BY <1>2, EngineAssumption DEF Steps
<1>4. inv[w].i > 0 => inv[w].i - 1 \in Steps
  BY <1>2, EngineAssumption DEF Steps
<1>5. QED
  BY <1>3, <1>4 DEF NextStep

LEMMA IdleInvType == IdleInv \in Invocation
BY EngineAssumption DEF IdleInv, Invocation, Read, Status, Action, RunStatus, Steps

(* The updates of an Order row that set several columns *)
LEMMA AbortRow ==
  ASSUME NEW r \in OrderRow, NEW s \in Status, NEW a \in Action
  PROVE  [r EXCEPT !.status = s, !.action = a] \in OrderRow
BY DEF OrderRow

LEMMA CatchRow ==
  ASSUME NEW r \in OrderRow, NEW s \in Status, NEW d \in BOOLEAN
  PROVE  [r EXCEPT !.status = s, !.due = d] \in OrderRow
BY DEF OrderRow

LEMMA FinalRow ==
  ASSUME NEW r \in OrderRow, NEW s \in Status, NEW d \in BOOLEAN, NEW n \in Int
  PROVE  [r EXCEPT !.status = s, !.due = d, !.attempts = n] \in OrderRow
BY DEF OrderRow

LEMMA ClaimRow ==
  ASSUME NEW r \in OrderRow, NEW s \in Status, NEW a \in Action, NEW n \in Int
  PROVE  [r EXCEPT !.status = s, !.action = a, !.attempts = n] \in OrderRow
BY DEF OrderRow

LEMMA InitTypeOK == Init => TypeOK
<1> SUFFICES ASSUME Init PROVE TypeOK
  OBVIOUS
<1>1. \A s \in {"DRAFT", "CONFIRMED"} :
        [status |-> s, action |-> "RUN", stepNo |-> NoStep, attempts |-> 0, due |-> TRUE] \in OrderRow
  BY DEF OrderRow, Status, Action, NoStep
<1>2. order \in [Orders -> OrderRow]
  BY <1>1 DEF Init
<1>3. inv \in [Workers -> Invocation]
  BY IdleInvType DEF Init
<1>4. QED
  BY <1>2, <1>3 DEF Init, TypeOK, StepStatus, Place

LEMMA NextTypeOK == TypeOK /\ [Next]_vars => TypeOK'
<1> SUFFICES ASSUME TypeOK, [Next]_vars PROVE TypeOK'
  OBVIOUS
<1> USE EngineAssumption, IdleInvType DEF TypeOK, rows, history
<1>1. ASSUME NEW o \in Orders, ConfirmDraft(o) PROVE TypeOK'
  BY <1>1 DEF ConfirmDraft, OrderRow, Status
<1>2. ASSUME NEW o \in Orders, ProcessConfirmed(o) PROVE TypeOK'
  BY <1>2 DEF ProcessConfirmed, OrderRow, Status, StepStatus
<1>3. ASSUME NEW o \in Orders, TimePasses(o) PROVE TypeOK'
  BY <1>3 DEF TimePasses, OrderRow
<1>4. ASSUME NEW o \in Orders, AbortDirectly(o) PROVE TypeOK'
  <2> DEFINE row == [order[o] EXCEPT !.status = "ABORTED", !.action = "ABORT"]
  <2>1. row \in OrderRow
    <3>1. "ABORTED" \in Status /\ "ABORT" \in Action /\ order[o] \in OrderRow
      BY DEF Status, Action
    <3>2. QED
      BY <3>1, AbortRow
  <2>2. order' = [order EXCEPT ![o] = row]
    BY <1>4 DEF AbortDirectly
  <2> HIDE DEF row
  <2>3. order' \in [Orders -> OrderRow]
    BY <2>1, <2>2
  <2>4. QED
    BY <1>4, <2>3 DEF AbortDirectly
<1>5. ASSUME NEW o \in Orders, Retry(o) PROVE TypeOK'
  BY <1>5 DEF Retry, Spend
<1>6. ASSUME NEW o \in Orders, RetryUpdate(o) PROVE TypeOK'
  <2> DEFINE row == [order[o] EXCEPT !.status = "PENDING", !.due = TRUE, !.attempts = 0]
  <2>1. row \in OrderRow
    <3>1. "PENDING" \in Status /\ 0 \in Int /\ order[o] \in OrderRow
      BY DEF Status
    <3>2. QED
      BY <3>1, FinalRow
  <2>2. order' = [order EXCEPT ![o] = row]
    BY <1>6 DEF RetryUpdate
  <2> HIDE DEF row
  <2>3. order' \in [Orders -> OrderRow]
    BY <2>1, <2>2
  <2>4. QED
    BY <1>6, <2>3 DEF RetryUpdate, Suffer, Mishap
<1>7. ASSUME NEW w \in Workers, NEW o \in Orders, Pick(w, o) PROVE TypeOK'
  <2>1. inv' \in [Workers -> Invocation]
    BY <1>7 DEF Pick, Begin, Invocation, IdleInv, OrderRow, Read, RunStatus
  <2>2. QED
    BY <1>7, <2>1 DEF Pick, Begin, Goto, Place
<1>8. ASSUME NEW w \in Workers, NEW o \in Orders, Abort(w, o) PROVE TypeOK'
  <2>1. "ABORT" \in Action
    BY DEF Action
  <2>2. inv' \in [Workers -> Invocation]
    BY <1>8, <2>1 DEF Abort, Begin, Invocation, IdleInv, OrderRow, Read, RunStatus
  <2>3. QED
    BY <1>8, <2>2 DEF Abort, Begin, Goto, Spend, Place
<1>9. ASSUME NEW w \in Workers, Claim(w) PROVE TypeOK'
  <2> DEFINE o == inv[w].order
             row == [order[o] EXCEPT
                       !.status = "PROCESSING",
                       !.action = inv[w].action,
                       !.attempts = IF inv[w].read.action = inv[w].action THEN order[o].attempts + 1 ELSE 0]
  <2>1. o \in Orders /\ inv[w].action \in Action
    BY <1>9 DEF Claim, Invocation
  <2>2. row \in OrderRow
    <3>1. "PROCESSING" \in Status /\ order[o] \in OrderRow
      BY <2>1 DEF Status
    <3>2. (IF inv[w].read.action = inv[w].action THEN order[o].attempts + 1 ELSE 0) \in Int
      BY <3>1 DEF OrderRow
    <3>3. QED
      BY <2>1, <3>1, <3>2, ClaimRow
  <2>3. order' = [order EXCEPT ![o] = row]
    BY <1>9 DEF Claim
  <2>4. FirstStep(o, inv[w].action) \in Steps
    BY <2>1, FirstStepType
  <2>5. inv' \in [Workers -> Invocation]
    BY <1>9, <2>4 DEF Claim, Invocation, RunStatus
  <2>6. ClaimMishaps(w, order[o]) \subseteq Mishap
    BY DEF ClaimMishaps, Mishap
  <2>7. mishaps' \in [Orders -> SUBSET Mishap]
    BY <1>9, <2>1, <2>6 DEF Claim
  <2> HIDE DEF row
  <2>8. order' \in [Orders -> OrderRow]
    BY <2>1, <2>2, <2>3
  <2>9. QED
    BY <1>9, <2>1, <2>5, <2>7, <2>8 DEF Claim, Goto, Place
<1>10. ASSUME NEW w \in Workers, ClaimFails(w) PROVE TypeOK'
  BY <1>10 DEF ClaimFails, Goto, Place
<1>11. ASSUME NEW w \in Workers, CreateRun(w) PROVE TypeOK'
  BY <1>11 DEF CreateRun, Goto, Place, Invocation, RunStatus
<1>12. ASSUME NEW w \in Workers, StartStep(w) PROVE TypeOK'
  <2> DEFINE o == inv[w].order
  <2>1. o \in Orders /\ inv[w].i \in Steps
    BY <1>12 DEF StartStep, Invocation
  <2>2. order' \in [Orders -> OrderRow]
    BY <1>12, <2>1 DEF StartStep, OrderRow
  <2>3. steps' \in [Orders -> [Steps -> StepStatus]]
    BY <1>12, <2>1 DEF StartStep, StepStatus
  <2>4. QED
    BY <1>12, <2>2, <2>3 DEF StartStep, Goto, Place
<1>13. ASSUME NEW w \in Workers, CompleteStep(w) PROVE TypeOK'
  <2> DEFINE o == inv[w].order
             k == inv[w].i
  <2>1. o \in Orders /\ k \in Steps
    BY <1>13 DEF CompleteStep, Invocation
  <2>2. order' \in [Orders -> OrderRow]
    <3>1. order' = [order EXCEPT ![o].stepNo = NextStep(w)]
      BY <1>13 DEF CompleteStep
    <3>2. QED
      BY <3>1, <2>1, NextStepType DEF OrderRow
  <2>3. steps' \in [Orders -> [Steps -> StepStatus]]
    BY <1>13, <2>1 DEF CompleteStep, StepStatus
  <2>4. completions' \in [Orders -> [Steps -> 0 .. 2]]
    <3>1. \/ completions' = [completions EXCEPT ![o][k] = IF @ = 2 THEN 2 ELSE @ + 1]
          \/ completions' = completions
      BY <1>13 DEF CompleteStep
    <3>2. completions[o] \in [Steps -> 0 .. 2] /\ completions[o][k] \in 0 .. 2
      BY <2>1
    <3>3. (IF completions[o][k] = 2 THEN 2 ELSE completions[o][k] + 1) \in 0 .. 2
      BY <3>2
    <3>4. QED
      <4> DEFINE n == IF completions[o][k] = 2 THEN 2 ELSE completions[o][k] + 1
                 row == [completions[o] EXCEPT ![k] = n]
      <4>1. row \in [Steps -> 0 .. 2]
        BY <3>2, <3>3
      <4>2. completions' = [completions EXCEPT ![o] = row] \/ completions' = completions
        BY <3>1
      <4> HIDE DEF row
      <4>3. QED
        BY <2>1, <4>1, <4>2
  <2>5. undone' \in [Orders -> SUBSET Steps]
    <3>1. undone' = [undone EXCEPT ![o] = @ \cup {k}] \/ undone' = undone
      BY <1>13 DEF CompleteStep
    <3>2. QED
      BY <2>1, <3>1
  <2>6. inv' \in [Workers -> Invocation]
    <3>1. \/ NextStep(w) # NoStep /\ inv' = [inv EXCEPT ![w].i = NextStep(w)]
          \/ inv' = [inv EXCEPT ![w].out = Outcome(w)]
      BY <1>13 DEF CompleteStep
    <3>2. Outcome(w) \in {"PENDING", "DONE", "ABORTED"}
      BY DEF Outcome
    <3>3. CASE NextStep(w) # NoStep /\ inv' = [inv EXCEPT ![w].i = NextStep(w)]
      BY <3>3, NextStepType DEF Invocation
    <3>4. CASE inv' = [inv EXCEPT ![w].out = Outcome(w)]
      BY <3>4, <3>2 DEF Invocation
    <3>5. QED
      BY <3>1, <3>3, <3>4
  <2>7. \A v \in Workers : pc'[v] # "idle" => inv'[v].order \in Orders
    <3>1. inv'[w].order = o /\ \A v \in Workers \ {w} : inv'[v] = inv[v] /\ pc'[v] = pc[v]
      BY <1>13 DEF CompleteStep, Goto, Invocation
    <3>2. QED
      BY <2>1, <3>1
  <2>8. pc' \in [Workers -> Place]
    BY <1>13 DEF CompleteStep, Goto, Place
  <2>9. UNCHANGED <<rerunning, spent, mishaps>>
    BY <1>13 DEF CompleteStep
  <2>10. QED
    BY <2>2, <2>3, <2>4, <2>5, <2>6, <2>7, <2>8, <2>9
<1>14. ASSUME NEW w \in Workers, StepThrows(w) PROVE TypeOK'
  BY <1>14 DEF StepThrows, Goto, Place
<1>15. ASSUME NEW w \in Workers, FinishRun(w) PROVE TypeOK'
  <2> DEFINE i == [inv[w] EXCEPT
                     !.run = "DONE",
                     !.out = IF HasSteps(inv[w].order) THEN inv[w].out
                             ELSE IF inv[w].action = "RUN" THEN "DONE" ELSE "ABORTED"]
  <2>1. i \in Invocation /\ i.order = inv[w].order
    BY DEF Invocation, RunStatus
  <2>2. inv' = [inv EXCEPT ![w] = i]
    BY <1>15 DEF FinishRun
  <2> HIDE DEF i
  <2>3. QED
    BY <1>15, <2>1, <2>2 DEF FinishRun, Goto, Place
<1>16. ASSUME NEW w \in Workers, FailRun(w) PROVE TypeOK'
  <2> DEFINE i == [inv[w] EXCEPT !.run = "ERROR",
                                 !.out = IF ShouldRetry(w) THEN "ERROR" ELSE "ABORTED"]
  <2>1. i \in Invocation /\ i.order = inv[w].order
    BY DEF Invocation, RunStatus
  <2>2. inv' = [inv EXCEPT ![w] = i]
    BY <1>16 DEF FailRun
  <2>3. inv[w].order \in Orders
    BY <1>16 DEF FailRun
  <2>4. steps' \in [Orders -> [Steps -> StepStatus]]
    BY <1>16, <2>3 DEF FailRun, StepStatus
  <2> HIDE DEF i
  <2>5. QED
    BY <1>16, <2>1, <2>2, <2>4 DEF FailRun, Goto, Place
<1>17. ASSUME NEW w \in Workers, FinalUpdate(w) PROVE TypeOK'
  <2> DEFINE o == inv[w].order
             out == inv[w].out
             row == [order[o] EXCEPT !.status = out,
                                     !.due = out \in FinalStati,
                                     !.attempts = AttemptsAfter(o, out)]
  <2>1. o \in Orders /\ out \in {"PENDING", "ERROR", "DONE", "ABORTED"}
    BY <1>17 DEF FinalUpdate, Invocation
  <2>2. AttemptsAfter(o, out) \in Int
    BY <2>1 DEF AttemptsAfter, OrderRow
  <2>3. row \in OrderRow
    <3>1. out \in Status /\ order[o] \in OrderRow /\ (out \in FinalStati) \in BOOLEAN
      BY <2>1 DEF Status
    <3>2. QED
      BY <3>1, <2>2, FinalRow
  <2>4. order' = [order EXCEPT ![o] = row]
    BY <1>17 DEF FinalUpdate
  <2>5. steps' \in [Orders -> [Steps -> StepStatus]]
    BY <1>17, <2>1 DEF FinalUpdate, StepStatus
  <2> HIDE DEF row
  <2>6. order' \in [Orders -> OrderRow]
    BY <2>1, <2>3, <2>4
  <2>7. QED
    BY <1>17, <2>5, <2>6 DEF FinalUpdate, Return, Place
<1>18. ASSUME NEW w \in Workers, FinalUpdateFails(w) PROVE TypeOK'
  BY <1>18 DEF FinalUpdateFails, Goto, Place
<1>19. ASSUME NEW w \in Workers, OuterCatch(w) PROVE TypeOK'
  <2> DEFINE o == inv[w].order
             row == [order[o] EXCEPT !.status = IF ShouldRetry(w) THEN "ERROR" ELSE "ABORTED",
                                     !.due = ~ShouldRetry(w)]
  <2>1. o \in Orders
    BY <1>19 DEF OuterCatch
  <2>2. row \in OrderRow
    <3>1. /\ (IF ShouldRetry(w) THEN "ERROR" ELSE "ABORTED") \in Status
          /\ (~ShouldRetry(w)) \in BOOLEAN
          /\ order[o] \in OrderRow
      BY <2>1 DEF Status
    <3>2. QED
      BY <3>1, CatchRow
  <2>3. order' = [order EXCEPT ![o] = row]
    BY <1>19 DEF OuterCatch
  <2>4. mishaps' \in [Orders -> SUBSET Mishap]
    BY <1>19, <2>1 DEF OuterCatch, Mishap
  <2> HIDE DEF row
  <2>5. order' \in [Orders -> OrderRow]
    BY <2>1, <2>2, <2>3
  <2>6. QED
    BY <1>19, <2>4, <2>5 DEF OuterCatch, Return, Place
<1>20. ASSUME NEW w \in Workers, OuterCatchThrows(w) PROVE TypeOK'
  BY <1>20 DEF OuterCatchThrows, Return, Place
<1>21. ASSUME NEW w \in Workers, Fault(w) PROVE TypeOK'
  <2>1. inv[w].order \in Orders
    BY <1>21 DEF Fault
  <2>2. mishaps' \in [Orders -> SUBSET Mishap]
    BY <1>21, <2>1 DEF Fault, Suffer, Mishap
  <2>3. pc' \in [Workers -> Place] /\ inv' \in [Workers -> Invocation]
    BY <1>21 DEF Fault, Return, Goto, Place
  <2>4. \A v \in Workers : pc'[v] # "idle" => inv'[v].order \in Orders
    BY <1>21 DEF Fault, Return, Goto, Place
  <2>5. QED
    BY <1>21, <2>2, <2>3, <2>4 DEF Fault, Spend
<1>22. ASSUME NEW W \in SUBSET Workers, Crash(W) PROVE TypeOK'
  BY <1>22 DEF Crash, Spend, Place, Mishap
<1>23. CASE UNCHANGED vars
  BY <1>23 DEF vars
<1>24. QED
  BY <1>1, <1>2, <1>3, <1>4, <1>5, <1>6, <1>7, <1>8, <1>9, <1>10, <1>11, <1>12, <1>13,
     <1>14, <1>15, <1>16, <1>17, <1>18, <1>19, <1>20, <1>21, <1>22, <1>23
  DEF Next, InvocationStep

(* Every row, local variable and history is of its type in every reachable *)
(* state, whatever the constants.                                          *)
THEOREM TypeCorrect == Spec => []TypeOK
BY InitTypeOK, NextTypeOK, PTL DEF Spec

-----------------------------------------------------------------------------
(***************************************************************************)
(* Exclusion.  The invariant that carries it: what an invocation's place   *)
(* says of its claim, and that an order somebody holds is PROCESSING, so   *)
(* that a second claim of it is one that overlaps knowingly.               *)
(***************************************************************************)
Working == {"createRun", "start", "exec", "finishRun", "failRun", "final"}

RunPlaces ==
  \A w \in Workers : /\ pc[w] = "claim" => inv[w].run = "none"
                     /\ pc[w] \in Working => inv[w].run # "none"

HeldIsProcessing ==
  \A o \in Orders : Spared(o, Overlapping) =>
    \A w \in Workers : Holds(w, o) => order[o].status = "PROCESSING"

ExclusionInv == TypeOK /\ RunPlaces /\ HeldIsProcessing /\ Exclusive

(* What has happened to an order is not forgotten. *)
LEMMA MishapsGrow ==
  ASSUME TypeOK, [Next]_vars, NEW o \in Orders
  PROVE  mishaps[o] \subseteq mishaps'[o]
<1> USE DEF TypeOK, history, rows
<1>1. ASSUME NEW p \in Orders, RetryUpdate(p) PROVE mishaps[o] \subseteq mishaps'[o]
  BY <1>1 DEF RetryUpdate, Suffer
<1>2. ASSUME NEW w \in Workers, Claim(w) PROVE mishaps[o] \subseteq mishaps'[o]
  BY <1>2 DEF Claim
<1>3. ASSUME NEW w \in Workers, OuterCatch(w) PROVE mishaps[o] \subseteq mishaps'[o]
  BY <1>3 DEF OuterCatch
<1>4. ASSUME NEW w \in Workers, Fault(w) PROVE mishaps[o] \subseteq mishaps'[o]
  BY <1>4 DEF Fault, Suffer
<1>5. ASSUME NEW W \in SUBSET Workers, Crash(W) PROVE mishaps[o] \subseteq mishaps'[o]
  BY <1>5 DEF Crash
<1>6. CASE UNCHANGED mishaps
  BY <1>6
<1>7. QED
  BY <1>1, <1>2, <1>3, <1>4, <1>5, <1>6
  DEF Next, vars, InvocationStep, ConfirmDraft, ProcessConfirmed, TimePasses, AbortDirectly, Retry,
      Pick, Abort, Begin, ClaimFails, CreateRun, StartStep, CompleteStep, StepThrows, FinishRun,
      FailRun, FinalUpdate, FinalUpdateFails, OuterCatchThrows

LEMMA SparedBefore ==
  ASSUME TypeOK, [Next]_vars, NEW o \in Orders, NEW E, Spared(o, E)'
  PROVE  Spared(o, E)
BY MishapsGrow DEF Spared

(* The two ends of a run leave the invocation its order and a claim. *)
LEMMA RunEnds ==
  ASSUME TypeOK, NEW w \in Workers, FinishRun(w) \/ FailRun(w)
  PROVE  inv'[w].run \in {"DONE", "ERROR"} /\ inv'[w].order = inv[w].order
<1> USE DEF TypeOK
<1>1. CASE FinishRun(w)
  <2> DEFINE i == [inv[w] EXCEPT
                     !.run = "DONE",
                     !.out = IF HasSteps(inv[w].order) THEN inv[w].out
                             ELSE IF inv[w].action = "RUN" THEN "DONE" ELSE "ABORTED"]
  <2>1. i.run = "DONE" /\ i.order = inv[w].order
    BY DEF Invocation
  <2>2. inv' = [inv EXCEPT ![w] = i]
    BY <1>1 DEF FinishRun
  <2> HIDE DEF i
  <2>3. QED
    BY <2>1, <2>2
<1>2. CASE FailRun(w)
  <2> DEFINE i == [inv[w] EXCEPT !.run = "ERROR",
                                 !.out = IF ShouldRetry(w) THEN "ERROR" ELSE "ABORTED"]
  <2>1. i.run = "ERROR" /\ i.order = inv[w].order
    BY DEF Invocation
  <2>2. inv' = [inv EXCEPT ![w] = i]
    BY <1>2 DEF FailRun
  <2> HIDE DEF i
  <2>3. QED
    BY <2>1, <2>2
<1>3. QED
  BY <1>1, <1>2

LEMMA NextRunPlaces == TypeOK /\ RunPlaces /\ [Next]_vars => RunPlaces'
<1> SUFFICES ASSUME TypeOK, RunPlaces, [Next]_vars PROVE RunPlaces'
  OBVIOUS
<1> USE DEF TypeOK, RunPlaces, Working, Goto, Return, rows, history
<1>1. ASSUME NEW w \in Workers, NEW o \in Orders, Pick(w, o) \/ Abort(w, o) PROVE RunPlaces'
  <2>1. pc'[w] = "claim" /\ inv'[w].run = "none"
    BY <1>1 DEF Pick, Abort, Begin, IdleInv
  <2>2. \A v \in Workers \ {w} : pc'[v] = pc[v] /\ inv'[v] = inv[v]
    BY <1>1 DEF Pick, Abort, Begin
  <2>3. QED
    BY <2>1, <2>2
<1>2. ASSUME NEW w \in Workers, Claim(w) PROVE RunPlaces'
  <2>1. pc'[w] = "createRun" /\ inv'[w].run = "claimed"
    BY <1>2 DEF Claim, Invocation
  <2>2. \A v \in Workers \ {w} : pc'[v] = pc[v] /\ inv'[v] = inv[v]
    BY <1>2 DEF Claim
  <2>3. QED
    BY <2>1, <2>2
<1>3. ASSUME NEW w \in Workers, ClaimFails(w) PROVE RunPlaces'
  BY <1>3 DEF ClaimFails
<1>4. ASSUME NEW w \in Workers, CreateRun(w) PROVE RunPlaces'
  BY <1>4 DEF CreateRun
<1>5. ASSUME NEW w \in Workers, StartStep(w) \/ CompleteStep(w) \/ StepThrows(w) PROVE RunPlaces'
  <2>1. pc[w] \in Working /\ inv'[w].run = inv[w].run /\ pc'[w] # "claim"
    BY <1>5 DEF StartStep, CompleteStep, StepThrows, Invocation
  <2>2. \A v \in Workers \ {w} : pc'[v] = pc[v] /\ inv'[v] = inv[v]
    BY <1>5 DEF StartStep, CompleteStep, StepThrows
  <2>3. QED
    BY <2>1, <2>2
<1>6. ASSUME NEW w \in Workers, FinishRun(w) \/ FailRun(w) PROVE RunPlaces'
  <2>1. pc'[w] = "final" /\ inv'[w].run \in {"DONE", "ERROR"}
    BY <1>6, RunEnds DEF FinishRun, FailRun
  <2>2. \A v \in Workers \ {w} : pc'[v] = pc[v] /\ inv'[v] = inv[v]
    BY <1>6 DEF FinishRun, FailRun
  <2>3. QED
    BY <2>1, <2>2
<1>7. ASSUME NEW w \in Workers, FinalUpdate(w) \/ FinalUpdateFails(w) PROVE RunPlaces'
  BY <1>7 DEF FinalUpdate, FinalUpdateFails
<1>8. ASSUME NEW w \in Workers, OuterCatch(w) \/ OuterCatchThrows(w) PROVE RunPlaces'
  BY <1>8 DEF OuterCatch, OuterCatchThrows
<1>9. ASSUME NEW w \in Workers, Fault(w) PROVE RunPlaces'
  BY <1>9 DEF Fault
<1>10. ASSUME NEW W \in SUBSET Workers, Crash(W) PROVE RunPlaces'
  BY <1>10 DEF Crash
<1>11. CASE UNCHANGED <<pc, inv>>
  BY <1>11
<1>12. QED
  BY <1>1, <1>2, <1>3, <1>4, <1>5, <1>6, <1>7, <1>8, <1>9, <1>10, <1>11
  DEF Next, vars, InvocationStep, ConfirmDraft, ProcessConfirmed, TimePasses, AbortDirectly,
      Retry, RetryUpdate

(* Only a claim, the end of an invocation, and operators change a status. *)
LEMMA StepKeepsStatus ==
  ASSUME TypeOK, NEW w \in Workers, StartStep(w) \/ CompleteStep(w) \/ StepThrows(w), NEW o \in Orders
  PROVE  order'[o].status = order[o].status
<1>1. \/ order' = order
      \/ \E n : order' = [order EXCEPT ![inv[w].order].stepNo = n]
  BY DEF StartStep, CompleteStep, StepThrows, rows
<1>2. ASSUME NEW n, order' = [order EXCEPT ![inv[w].order].stepNo = n]
      PROVE  order'[o].status = order[o].status
  <2>1. [order[o] EXCEPT !.stepNo = n].status = order[o].status
    BY DEF TypeOK, OrderRow
  <2>2. order'[o] \in {order[o], [order[o] EXCEPT !.stepNo = n]}
    BY <1>2 DEF TypeOK
  <2>3. QED
    BY <2>1, <2>2
<1>3. QED
  BY <1>1, <1>2

(* An invocation that ends with an update takes its order out of PROCESSING. *)
LEMMA GivenBack ==
  ASSUME TypeOK, NEW w \in Workers, FinalUpdate(w) \/ OuterCatch(w)
  PROVE  order'[inv[w].order].status # "PROCESSING"
<1> DEFINE o == inv[w].order
<1> USE DEF TypeOK
<1>1. o \in Orders
  BY DEF FinalUpdate, OuterCatch
<1>2. CASE FinalUpdate(w)
  <2> DEFINE row == [order[o] EXCEPT !.status = inv[w].out,
                                     !.due = inv[w].out \in FinalStati,
                                     !.attempts = AttemptsAfter(o, inv[w].out)]
  <2>1. row.status # "PROCESSING"
    <3>1. inv[w].out # "PROCESSING"
      BY DEF Invocation
    <3>2. row.status = inv[w].out
      BY <1>1 DEF OrderRow
    <3>3. QED
      BY <3>1, <3>2
  <2>2. order' = [order EXCEPT ![o] = row]
    BY <1>2 DEF FinalUpdate
  <2> HIDE DEF row
  <2>3. QED
    BY <1>1, <2>1, <2>2
<1>3. CASE OuterCatch(w)
  <2> DEFINE row == [order[o] EXCEPT !.status = IF ShouldRetry(w) THEN "ERROR" ELSE "ABORTED",
                                     !.due = ~ShouldRetry(w)]
  <2>1. row.status # "PROCESSING"
    BY <1>1 DEF OrderRow
  <2>2. order' = [order EXCEPT ![o] = row]
    BY <1>3 DEF OuterCatch
  <2> HIDE DEF row
  <2>3. QED
    BY <1>1, <2>1, <2>2
<1>4. QED
  BY <1>2, <1>3

(* One order: whoever holds it holds it alone, and it is PROCESSING. *)
Sole(o) == /\ \A w \in Workers : Holds(w, o) => order[o].status = "PROCESSING"
           /\ \A v, w \in Workers : Holds(v, o) /\ Holds(w, o) => v = w

LEMMA NextSole ==
  ASSUME TypeOK, RunPlaces, [Next]_vars, NEW o \in Orders, Sole(o), Spared(o, Overlapping)'
  PROVE  Sole(o)'
<1> USE DEF TypeOK, rows, history, Sole, Holds
<1>1. ASSUME NEW p \in Orders, ConfirmDraft(p) \/ ProcessConfirmed(p) \/ TimePasses(p) PROVE Sole(o)'
  BY <1>1 DEF ConfirmDraft, ProcessConfirmed, TimePasses, OrderRow
<1>2. ASSUME NEW p \in Orders, AbortDirectly(p) PROVE Sole(o)'
  BY <1>2 DEF AbortDirectly, OrderRow
<1>3. ASSUME NEW p \in Orders, Retry(p) PROVE Sole(o)'
  BY <1>3 DEF Retry
<1>4. ASSUME NEW p \in Orders, RetryUpdate(p) PROVE Sole(o)'
  <2>1. CASE p = o
    BY <1>4, <2>1 DEF RetryUpdate, Suffer, Spared, Overlapping
  <2>2. CASE p # o
    BY <1>4, <2>2 DEF RetryUpdate
  <2>3. QED
    BY <2>1, <2>2
<1>5. ASSUME NEW w \in Workers, NEW p \in Orders, Pick(w, p) \/ Abort(w, p) PROVE Sole(o)'
  <2>1. ~Holds(w, o)'
    BY <1>5 DEF Pick, Abort, Begin, IdleInv
  <2>2. \A v \in Workers \ {w} : pc'[v] = pc[v] /\ inv'[v] = inv[v]
    BY <1>5 DEF Pick, Abort, Begin, Goto
  <2>3. order' = order
    BY <1>5 DEF Pick, Abort, Begin
  <2>4. \A v \in Workers : Holds(v, o)' => Holds(v, o)
    BY <2>1, <2>2
  <2>5. QED
    BY <2>3, <2>4
<1>6. ASSUME NEW w \in Workers, Claim(w) PROVE Sole(o)'
  <2> DEFINE p == inv[w].order
  <2>1. CASE p = o
    <3>1. order[o].status # "PROCESSING"
      BY <1>6, <2>1 DEF Claim, StillAsRead, ClaimMishaps, Spared, Overlapping
    <3>2. \A v \in Workers : ~Holds(v, o)
      BY <3>1
    <3>3. \A v \in Workers \ {w} : ~Holds(v, o)'
      BY <1>6, <3>2 DEF Claim, Goto
    <3>4. order'[o].status = "PROCESSING"
      BY <1>6, <2>1 DEF Claim, OrderRow
    <3>5. QED
      BY <3>3, <3>4
  <2>2. CASE p # o
    <3>1. order'[o] = order[o]
      BY <1>6, <2>2 DEF Claim
    <3>2. \A v \in Workers : Holds(v, o)' <=> Holds(v, o)
      BY <1>6, <2>2 DEF Claim, Goto, Invocation
    <3>3. QED
      BY <3>1, <3>2
  <2>3. QED
    BY <2>1, <2>2
<1>7. ASSUME NEW w \in Workers, ClaimFails(w) PROVE Sole(o)'
  BY <1>7 DEF ClaimFails, Goto
<1>8. ASSUME NEW w \in Workers, CreateRun(w) \/ FinishRun(w) \/ FailRun(w) PROVE Sole(o)'
  <2>1. inv[w].run # "none"
    BY <1>8 DEF CreateRun, FinishRun, FailRun, RunPlaces, Working
  <2>2. \A v \in Workers : Holds(v, o)' <=> Holds(v, o)
    <3>1. /\ pc[w] # "idle" /\ pc'[w] # "idle"
          /\ inv'[w].run # "none" /\ inv'[w].order = inv[w].order
      <4>1. CASE CreateRun(w)
        BY <4>1 DEF CreateRun, Goto, Invocation
      <4>2. CASE FinishRun(w) \/ FailRun(w)
        BY <4>2, RunEnds DEF FinishRun, FailRun, Goto
      <4>3. QED
        BY <1>8, <4>1, <4>2
    <3>2. \A v \in Workers \ {w} : pc'[v] = pc[v] /\ inv'[v] = inv[v]
      BY <1>8 DEF CreateRun, FinishRun, FailRun, Goto
    <3>3. QED
      BY <2>1, <3>1, <3>2
  <2>3. order' = order
    BY <1>8 DEF CreateRun, FinishRun, FailRun
  <2>4. QED
    BY <2>2, <2>3
<1>9. ASSUME NEW w \in Workers, StartStep(w) \/ CompleteStep(w) \/ StepThrows(w) PROVE Sole(o)'
  <2>1. \A v \in Workers : Holds(v, o)' <=> Holds(v, o)
    BY <1>9 DEF StartStep, CompleteStep, StepThrows, Goto, Invocation
  <2>2. order'[o].status = order[o].status
    BY <1>9, StepKeepsStatus
  <2>3. QED
    BY <2>1, <2>2
<1>10. ASSUME NEW w \in Workers, FinalUpdate(w) PROVE Sole(o)'
  <2>1. inv[w].order = o => Holds(w, o)
    BY <1>10 DEF FinalUpdate, RunPlaces, Working
  <2>2. \A v \in Workers \ {w} : pc'[v] = pc[v] /\ inv'[v] = inv[v]
    BY <1>10 DEF FinalUpdate, Return
  <2>3. ~Holds(w, o)'
    BY <1>10 DEF FinalUpdate, Return
  <2>4. inv[w].order # o => order'[o] = order[o]
    BY <1>10 DEF FinalUpdate
  <2>5. \A v \in Workers : Holds(v, o)' => Holds(v, o) /\ v # w
    BY <2>2, <2>3
  <2>6. CASE inv[w].order = o
    BY <2>1, <2>5, <2>6
  <2>7. CASE inv[w].order # o
    BY <2>4, <2>5, <2>7
  <2>8. QED
    BY <2>6, <2>7
<1>11. ASSUME NEW w \in Workers, FinalUpdateFails(w) PROVE Sole(o)'
  BY <1>11 DEF FinalUpdateFails, Goto
<1>12. ASSUME NEW w \in Workers, OuterCatch(w) PROVE Sole(o)'
  <2>1. inv[w].order = o => Holds(w, o)
    BY <1>12 DEF OuterCatch, Spared, Overlapping
  <2>2. \A v \in Workers \ {w} : pc'[v] = pc[v] /\ inv'[v] = inv[v]
    BY <1>12 DEF OuterCatch, Return
  <2>3. ~Holds(w, o)'
    BY <1>12 DEF OuterCatch, Return
  <2>4. inv[w].order # o => order'[o] = order[o]
    BY <1>12 DEF OuterCatch
  <2>5. \A v \in Workers : Holds(v, o)' => Holds(v, o) /\ v # w
    BY <2>2, <2>3
  <2>6. CASE inv[w].order = o
    BY <2>1, <2>5, <2>6
  <2>7. CASE inv[w].order # o
    BY <2>4, <2>5, <2>7
  <2>8. QED
    BY <2>6, <2>7
<1>13. ASSUME NEW w \in Workers, OuterCatchThrows(w) PROVE Sole(o)'
  BY <1>13 DEF OuterCatchThrows, Return
<1>14. ASSUME NEW w \in Workers, Fault(w) PROVE Sole(o)'
  <2>1. \A v \in Workers : Holds(v, o)' => Holds(v, o)
    BY <1>14 DEF Fault, Goto, Return
  <2>2. order' = order
    BY <1>14 DEF Fault
  <2>3. QED
    BY <2>1, <2>2
<1>15. ASSUME NEW W \in SUBSET Workers, Crash(W) PROVE Sole(o)'
  <2>1. \A v \in Workers : Holds(v, o)' => Holds(v, o)
    BY <1>15 DEF Crash
  <2>2. order' = order
    BY <1>15 DEF Crash
  <2>3. QED
    BY <2>1, <2>2
<1>16. CASE UNCHANGED vars
  BY <1>16 DEF vars
<1>17. QED
  BY <1>1, <1>2, <1>3, <1>4, <1>5, <1>6, <1>7, <1>8, <1>9, <1>10, <1>11, <1>12, <1>13,
     <1>14, <1>15, <1>16
  DEF Next, InvocationStep

LEMMA InitExclusion == Init => ExclusionInv
<1> SUFFICES ASSUME Init PROVE ExclusionInv
  OBVIOUS
<1>1. TypeOK
  BY InitTypeOK
<1>2. \A w \in Workers : pc[w] = "idle"
  BY DEF Init
<1>3. QED
  BY <1>1, <1>2 DEF ExclusionInv, RunPlaces, Working, HeldIsProcessing, Exclusive, Holds

LEMMA NextExclusion == ExclusionInv /\ [Next]_vars => ExclusionInv'
<1> SUFFICES ASSUME ExclusionInv, [Next]_vars PROVE ExclusionInv'
  OBVIOUS
<1>1. TypeOK /\ RunPlaces
  BY DEF ExclusionInv
<1>2. TypeOK' /\ RunPlaces'
  BY <1>1, NextTypeOK, NextRunPlaces
<1>3. ASSUME NEW o \in Orders, Spared(o, Overlapping)' PROVE Sole(o)'
  <2>1. Spared(o, Overlapping)
    BY <1>1, <1>3, SparedBefore
  <2>2. Sole(o)
    BY <2>1 DEF ExclusionInv, HeldIsProcessing, Exclusive, Sole
  <2>3. QED
    BY <1>1, <1>3, <2>2, NextSole
<1>4. HeldIsProcessing' /\ Exclusive'
  BY <1>3 DEF Sole, HeldIsProcessing, Exclusive
<1>5. QED
  BY <1>2, <1>4 DEF ExclusionInv

(* Two invocations hold one order only after one of the three events that  *)
(* may cause it, for any number of orders, invocations, crashes and faults.*)
THEOREM Exclusion == Spec => []Exclusive
<1>1. ExclusionInv => Exclusive
  BY DEF ExclusionInv
<1>2. QED
  BY <1>1, InitExclusion, NextExclusion, PTL DEF Spec

-----------------------------------------------------------------------------
(***************************************************************************)
(* No order is left PROCESSING.  An invocation in the outer catch may      *)
(* throw and leave, so the invariant asks for a holder elsewhere.          *)
(***************************************************************************)
Attended(o) ==
  order[o].status = "PROCESSING" => \E v \in Workers : Holds(v, o) /\ pc[v] # "outer"

AttendedInv ==
  TypeOK /\ RunPlaces /\ \A o \in Orders : Spared(o, {"crash", "fault"}) => Attended(o)

LEMMA NextAttended ==
  ASSUME TypeOK, RunPlaces, [Next]_vars, NEW o \in Orders,
         Attended(o), Spared(o, {"crash", "fault"})'
  PROVE  Attended(o)'
<1> USE DEF TypeOK, rows, history, Attended, Holds
<1>1. ASSUME NEW p \in Orders, ConfirmDraft(p) \/ ProcessConfirmed(p) \/ TimePasses(p) PROVE Attended(o)'
  <2>1. order'[o].status = "PROCESSING" => order[o].status = "PROCESSING"
    <3>1. CASE ConfirmDraft(p) \/ ProcessConfirmed(p)
      <4> DEFINE row(s) == [order[o] EXCEPT !.status = s]
      <4>1. row("CONFIRMED").status = "CONFIRMED" /\ row("PENDING").status = "PENDING"
        BY DEF OrderRow
      <4>2. order'[o] \in {order[o], row("CONFIRMED"), row("PENDING")}
        BY <3>1 DEF ConfirmDraft, ProcessConfirmed
      <4> HIDE DEF row
      <4>3. QED
        BY <4>1, <4>2
    <3>2. CASE TimePasses(p)
      <4>1. [order[o] EXCEPT !.due = TRUE].status = order[o].status
        BY DEF OrderRow
      <4>2. order'[o] \in {order[o], [order[o] EXCEPT !.due = TRUE]}
        BY <3>2 DEF TimePasses
      <4>3. QED
        BY <4>1, <4>2
    <3>3. QED
      BY <1>1, <3>1, <3>2
  <2>2. UNCHANGED <<pc, inv>>
    BY <1>1 DEF ConfirmDraft, ProcessConfirmed, TimePasses
  <2>3. QED
    BY <2>1, <2>2
<1>2. ASSUME NEW p \in Orders, AbortDirectly(p) \/ Retry(p) \/ RetryUpdate(p) PROVE Attended(o)'
  <2>1. order'[o].status = "PROCESSING" => order[o].status = "PROCESSING"
    <3>1. CASE AbortDirectly(p)
      <4>1. [order[o] EXCEPT !.status = "ABORTED", !.action = "ABORT"].status = "ABORTED"
        BY DEF OrderRow
      <4>2. order'[o] \in {order[o], [order[o] EXCEPT !.status = "ABORTED", !.action = "ABORT"]}
        BY <3>1 DEF AbortDirectly
      <4>3. QED
        BY <4>1, <4>2
    <3>2. CASE Retry(p)
      BY <3>2 DEF Retry
    <3>3. CASE RetryUpdate(p)
      <4>1. [order[o] EXCEPT !.status = "PENDING", !.due = TRUE, !.attempts = 0].status = "PENDING"
        BY DEF OrderRow
      <4>2. order'[o] \in {order[o],
                           [order[o] EXCEPT !.status = "PENDING", !.due = TRUE, !.attempts = 0]}
        BY <3>3 DEF RetryUpdate
      <4>3. QED
        BY <4>1, <4>2
    <3>4. QED
      BY <1>2, <3>1, <3>2, <3>3
  <2>2. UNCHANGED <<pc, inv>>
    BY <1>2 DEF AbortDirectly, Retry, RetryUpdate
  <2>3. QED
    BY <2>1, <2>2
<1>3. ASSUME NEW w \in Workers, NEW p \in Orders, Pick(w, p) \/ Abort(w, p) PROVE Attended(o)'
  <2>1. order' = order /\ pc[w] = "idle"
    BY <1>3 DEF Pick, Abort, Begin
  <2>2. \A v \in Workers \ {w} : pc'[v] = pc[v] /\ inv'[v] = inv[v]
    BY <1>3 DEF Pick, Abort, Begin, Goto
  <2>3. QED
    BY <2>1, <2>2
<1>4. ASSUME NEW w \in Workers, Claim(w) PROVE Attended(o)'
  <2>1. \A v \in Workers \ {w} : pc'[v] = pc[v] /\ inv'[v] = inv[v]
    BY <1>4 DEF Claim, Goto
  <2>2. CASE inv[w].order = o
    <3>1. pc'[w] = "createRun" /\ inv'[w].run = "claimed" /\ inv'[w].order = o
      BY <1>4, <2>2 DEF Claim, Goto, Invocation
    <3>2. QED
      BY <3>1
  <2>3. CASE inv[w].order # o
    <3>1. order'[o] = order[o]
      BY <1>4, <2>3 DEF Claim
    <3>2. QED
      BY <2>1, <2>3, <3>1
  <2>4. QED
    BY <2>2, <2>3
<1>5. ASSUME NEW w \in Workers, ClaimFails(w) PROVE Attended(o)'
  <2>1. inv[w].run = "none" /\ order' = order
    BY <1>5 DEF ClaimFails, RunPlaces
  <2>2. \A v \in Workers \ {w} : pc'[v] = pc[v] /\ inv'[v] = inv[v]
    BY <1>5 DEF ClaimFails, Goto
  <2>3. QED
    BY <2>1, <2>2
<1>6. ASSUME NEW w \in Workers, CreateRun(w) \/ FinishRun(w) \/ FailRun(w) PROVE Attended(o)'
  <2>1. /\ pc'[w] \in Working
        /\ inv'[w].run # "none" /\ inv'[w].order = inv[w].order
    <3>1. CASE CreateRun(w)
      BY <3>1 DEF CreateRun, Goto, Invocation, Working
    <3>2. CASE FinishRun(w) \/ FailRun(w)
      BY <3>2, RunEnds DEF FinishRun, FailRun, Goto, Working
    <3>3. QED
      BY <1>6, <3>1, <3>2
  <2>2. \A v \in Workers \ {w} : pc'[v] = pc[v] /\ inv'[v] = inv[v]
    BY <1>6 DEF CreateRun, FinishRun, FailRun, Goto
  <2>3. order' = order
    BY <1>6 DEF CreateRun, FinishRun, FailRun
  <2>4. \A v \in Workers : Holds(v, o) /\ pc[v] # "outer" => Holds(v, o)' /\ pc'[v] # "outer"
    BY <2>1, <2>2 DEF Working
  <2>5. QED
    BY <2>3, <2>4
<1>7. ASSUME NEW w \in Workers, StartStep(w) \/ CompleteStep(w) \/ StepThrows(w) PROVE Attended(o)'
  <2>1. /\ pc'[w] \in Working
        /\ inv'[w].run = inv[w].run /\ inv'[w].order = inv[w].order
    BY <1>7 DEF StartStep, CompleteStep, StepThrows, Goto, Invocation, Working
  <2>2. \A v \in Workers \ {w} : pc'[v] = pc[v] /\ inv'[v] = inv[v]
    BY <1>7 DEF StartStep, CompleteStep, StepThrows, Goto
  <2>3. order'[o].status = order[o].status
    BY <1>7, StepKeepsStatus
  <2>4. \A v \in Workers : Holds(v, o) /\ pc[v] # "outer" => Holds(v, o)' /\ pc'[v] # "outer"
    BY <2>1, <2>2 DEF Working
  <2>5. QED
    BY <2>3, <2>4
<1>8. ASSUME NEW w \in Workers, FinalUpdate(w) \/ OuterCatch(w) PROVE Attended(o)'
  <2>1. inv[w].order = o => order'[o].status # "PROCESSING"
    BY <1>8, GivenBack
  <2>2. \A v \in Workers \ {w} : pc'[v] = pc[v] /\ inv'[v] = inv[v]
    BY <1>8 DEF FinalUpdate, OuterCatch, Return
  <2>3. inv[w].order # o => order'[o] = order[o]
    BY <1>8 DEF FinalUpdate, OuterCatch
  <2>4. QED
    BY <2>1, <2>2, <2>3
<1>9. ASSUME NEW w \in Workers, FinalUpdateFails(w) PROVE Attended(o)'
  <2>1. order[inv[w].order].status # "PROCESSING" /\ order' = order
    BY <1>9 DEF FinalUpdateFails
  <2>2. \A v \in Workers \ {w} : pc'[v] = pc[v] /\ inv'[v] = inv[v]
    BY <1>9 DEF FinalUpdateFails, Goto
  <2>3. QED
    BY <2>1, <2>2
<1>10. ASSUME NEW w \in Workers, OuterCatchThrows(w) PROVE Attended(o)'
  <2>1. pc[w] = "outer" /\ order' = order
    BY <1>10 DEF OuterCatchThrows
  <2>2. \A v \in Workers \ {w} : pc'[v] = pc[v] /\ inv'[v] = inv[v]
    BY <1>10 DEF OuterCatchThrows, Return
  <2>3. QED
    BY <2>1, <2>2
<1>11. ASSUME NEW w \in Workers, Fault(w) PROVE Attended(o)'
  <2>1. inv[w].order # o /\ order' = order
    BY <1>11 DEF Fault, Suffer, Spared
  <2>2. \A v \in Workers \ {w} : pc'[v] = pc[v] /\ inv'[v] = inv[v]
    BY <1>11 DEF Fault, Goto, Return
  <2>3. QED
    BY <2>1, <2>2
<1>12. ASSUME NEW W \in SUBSET Workers, Crash(W) PROVE Attended(o)'
  <2>1. \A w \in W : ~Holds(w, o)
    BY <1>12 DEF Crash, Spared
  <2>2. \A v \in Workers \ W : pc'[v] = pc[v] /\ inv'[v] = inv[v]
    BY <1>12 DEF Crash
  <2>3. order' = order
    BY <1>12 DEF Crash
  <2>4. QED
    BY <2>1, <2>2, <2>3
<1>13. CASE UNCHANGED vars
  BY <1>13 DEF vars
<1>14. QED
  BY <1>1, <1>2, <1>3, <1>4, <1>5, <1>6, <1>7, <1>8, <1>9, <1>10, <1>11, <1>12, <1>13
  DEF Next, InvocationStep

LEMMA InitAttended == Init => AttendedInv
<1> SUFFICES ASSUME Init PROVE AttendedInv
  OBVIOUS
<1>1. TypeOK
  BY InitTypeOK
<1>2. \A w \in Workers : pc[w] = "idle"
  BY DEF Init
<1>3. \A o \in Orders : order[o].status # "PROCESSING"
  BY DEF Init
<1>4. QED
  BY <1>1, <1>2, <1>3 DEF AttendedInv, RunPlaces, Working, Attended

LEMMA StepAttended == AttendedInv /\ [Next]_vars => AttendedInv'
<1> SUFFICES ASSUME AttendedInv, [Next]_vars PROVE AttendedInv'
  OBVIOUS
<1>1. TypeOK /\ RunPlaces
  BY DEF AttendedInv
<1>2. TypeOK' /\ RunPlaces'
  BY <1>1, NextTypeOK, NextRunPlaces
<1>3. ASSUME NEW o \in Orders, Spared(o, {"crash", "fault"})' PROVE Attended(o)'
  <2>1. Spared(o, {"crash", "fault"})
    BY <1>1, <1>3, SparedBefore
  <2>2. QED
    BY <1>1, <1>3, <2>1, NextAttended DEF AttendedInv
<1>4. QED
  BY <1>2, <1>3 DEF AttendedInv

(* An order that is PROCESSING is in the hands of some invocation, unless  *)
(* an instance crashed or the database refused a call for it: whatever     *)
(* operators do and however many invocations meet, none is left behind.    *)
THEOREM Held == Spec => []ProcessingIsHeld
<1>1. AttendedInv => ProcessingIsHeld
  BY DEF AttendedInv, Attended, ProcessingIsHeld
<1>2. QED
  BY <1>1, InitAttended, StepAttended, PTL DEF Spec

-----------------------------------------------------------------------------
(***************************************************************************)
(* What each step of an invocation does to its variables and to its order. *)
(***************************************************************************)
LEMMA OneInvocation ==
  ASSUME TypeOK, NEW w \in Workers, InvocationStep(w) \/ Fault(w)
  PROVE  /\ pc[w] # "idle" /\ inv[w].order \in Orders
         /\ \A v \in Workers \ {w} : pc'[v] = pc[v] /\ inv'[v] = inv[v]
         /\ UNCHANGED rerunning
<1>1. pc[w] # "idle" /\ UNCHANGED rerunning
  BY DEF InvocationStep, Claim, ClaimFails, CreateRun, StartStep, CompleteStep, StepThrows,
     FinishRun, FailRun, FinalUpdate, FinalUpdateFails, OuterCatch, OuterCatchThrows, Fault
<1>2. inv[w].order \in Orders
  BY <1>1 DEF TypeOK
<1>3. \A v \in Workers \ {w} : pc'[v] = pc[v] /\ inv'[v] = inv[v]
  BY DEF TypeOK, InvocationStep, Claim, ClaimFails, CreateRun, StartStep, CompleteStep, StepThrows,
     FinishRun, FailRun, FinalUpdate, FinalUpdateFails, OuterCatch, OuterCatchThrows, Fault,
     Goto, Return
<1>4. QED
  BY <1>1, <1>2, <1>3

LEMMA ClaimEffect ==
  ASSUME TypeOK, NEW w \in Workers, Claim(w), NEW o \in Orders, o = inv[w].order
  PROVE  /\ pc[w] = "claim" /\ pc'[w] = "createRun"
         /\ inv'[w].order = o /\ inv'[w].read = inv[w].read /\ inv'[w].action = inv[w].action
         /\ inv'[w].run = "claimed" /\ inv'[w].i = FirstStep(o, inv[w].action)
         /\ order[o].status = inv[w].read.status /\ order'[o].status = "PROCESSING"
         /\ order'[o].action = inv[w].action /\ order'[o].stepNo = order[o].stepNo
         /\ order'[o].attempts = IF inv[w].read.action = inv[w].action THEN order[o].attempts + 1 ELSE 0
         /\ mishaps'[o] = mishaps[o] \cup ClaimMishaps(w, order[o])
         /\ \A p \in Orders \ {o} : order'[p] = order[p] /\ mishaps'[p] = mishaps[p]
         /\ UNCHANGED <<steps, completions, undone>>
<1> DEFINE n == IF inv[w].read.action = inv[w].action THEN order[o].attempts + 1 ELSE 0
           row == [order[o] EXCEPT !.status = "PROCESSING", !.action = inv[w].action, !.attempts = n]
           i == [inv[w] EXCEPT !.run = "claimed", !.i = FirstStep(o, inv[w].action)]
<1>1. order' = [order EXCEPT ![o] = row] /\ inv' = [inv EXCEPT ![w] = i]
  BY DEF Claim
<1>2. /\ row.status = "PROCESSING" /\ row.action = inv[w].action
      /\ row.stepNo = order[o].stepNo /\ row.attempts = n
  BY DEF TypeOK, OrderRow
<1>3. /\ i.order = o /\ i.read = inv[w].read /\ i.action = inv[w].action
      /\ i.run = "claimed" /\ i.i = FirstStep(o, inv[w].action)
  BY DEF TypeOK, Invocation
<1> HIDE DEF row, i
<1>4. order'[o] = row /\ inv'[w] = i /\ \A p \in Orders \ {o} : order'[p] = order[p]
  BY <1>1 DEF TypeOK
<1>5. /\ pc[w] = "claim" /\ pc'[w] = "createRun" /\ order[o].status = inv[w].read.status
      /\ mishaps'[o] = mishaps[o] \cup ClaimMishaps(w, order[o])
      /\ \A p \in Orders \ {o} : mishaps'[p] = mishaps[p]
      /\ UNCHANGED <<steps, completions, undone>>
  BY DEF Claim, Goto, StillAsRead, TypeOK, history
<1>6. QED
  BY <1>2, <1>3, <1>4, <1>5

LEMMA CreateRunEffect ==
  ASSUME TypeOK, NEW w \in Workers, CreateRun(w)
  PROVE  /\ pc[w] = "createRun"
         /\ pc'[w] = IF HasSteps(inv[w].order) THEN "start" ELSE "finishRun"
         /\ inv'[w].order = inv[w].order /\ inv'[w].read = inv[w].read
         /\ inv'[w].action = inv[w].action
         /\ inv'[w].run = "PROCESSING" /\ inv'[w].i = inv[w].i /\ inv'[w].out = inv[w].out
         /\ UNCHANGED <<order, steps, completions, undone, mishaps>>
BY DEF CreateRun, Goto, TypeOK, Invocation, rows, history

LEMMA StartStepEffect ==
  ASSUME TypeOK, NEW w \in Workers, StartStep(w), NEW o \in Orders, o = inv[w].order
  PROVE  /\ pc[w] = "start" /\ pc'[w] = "exec" /\ inv[w].i \in Steps
         /\ order'[o].status = order[o].status /\ order'[o].action = order[o].action
         /\ order'[o].attempts = order[o].attempts /\ order'[o].stepNo = inv[w].i
         /\ steps'[o][inv[w].i] = "PROCESSING"
         /\ \A k \in Steps \ {inv[w].i} : steps'[o][k] = steps[o][k]
         /\ \A p \in Orders \ {o} : order'[p] = order[p] /\ steps'[p] = steps[p]
         /\ UNCHANGED <<inv, completions, undone, mishaps>>
<1>1. inv[w].i \in Steps
  BY DEF TypeOK, Invocation
<1>2. order' = [order EXCEPT ![o].stepNo = inv[w].i]
  BY DEF StartStep
<1>3. /\ order'[o].status = order[o].status /\ order'[o].action = order[o].action
      /\ order'[o].attempts = order[o].attempts /\ order'[o].stepNo = inv[w].i
      /\ \A p \in Orders \ {o} : order'[p] = order[p]
  BY <1>2 DEF TypeOK, OrderRow
<1>4. steps' = [steps EXCEPT ![o][inv[w].i] = "PROCESSING"]
  BY DEF StartStep
<1>5. /\ steps'[o][inv[w].i] = "PROCESSING"
      /\ \A k \in Steps \ {inv[w].i} : steps'[o][k] = steps[o][k]
      /\ \A p \in Orders \ {o} : steps'[p] = steps[p]
  BY <1>1, <1>4 DEF TypeOK
<1>6. QED
  BY <1>1, <1>3, <1>5 DEF StartStep, Goto, TypeOK, history

LEMMA CompleteStepRows ==
  ASSUME TypeOK, NEW w \in Workers, CompleteStep(w), NEW o \in Orders, o = inv[w].order,
         NEW k \in Steps, k = inv[w].i
  PROVE  /\ order'[o].status = order[o].status /\ order'[o].action = order[o].action
         /\ order'[o].attempts = order[o].attempts /\ order'[o].stepNo = NextStep(w)
         /\ steps'[o][k] = "DONE"
         /\ \A j \in Steps \ {k} : steps'[o][j] = steps[o][j]
         /\ \A p \in Orders \ {o} : order'[p] = order[p] /\ steps'[p] = steps[p]
         /\ UNCHANGED mishaps
<1>1. order' = [order EXCEPT ![o].stepNo = NextStep(w)] /\ steps' = [steps EXCEPT ![o][k] = "DONE"]
  BY DEF CompleteStep
<1>2. /\ order'[o].status = order[o].status /\ order'[o].action = order[o].action
      /\ order'[o].attempts = order[o].attempts /\ order'[o].stepNo = NextStep(w)
      /\ \A p \in Orders \ {o} : order'[p] = order[p]
  BY <1>1 DEF TypeOK, OrderRow
<1>3. /\ steps'[o][k] = "DONE"
      /\ \A j \in Steps \ {k} : steps'[o][j] = steps[o][j]
      /\ \A p \in Orders \ {o} : steps'[p] = steps[p]
  BY <1>1 DEF TypeOK
<1>4. QED
  BY <1>2, <1>3 DEF CompleteStep

LEMMA CompleteStepHistory ==
  ASSUME TypeOK, NEW w \in Workers, CompleteStep(w), NEW o \in Orders, o = inv[w].order,
         NEW k \in Steps, k = inv[w].i
  PROVE  /\ \A p \in Orders \ {o} : completions'[p] = completions[p] /\ undone'[p] = undone[p]
         /\ \/ /\ inv[w].action = "RUN" /\ undone' = undone
               /\ completions'[o][k] = IF completions[o][k] = 2 THEN 2 ELSE completions[o][k] + 1
               /\ \A j \in Steps \ {k} : completions'[o][j] = completions[o][j]
            \/ /\ inv[w].action = "ABORT" /\ completions' = completions
               /\ undone'[o] = undone[o] \cup {k}
<1>1. CASE inv[w].action = "RUN"
  <2>1. /\ completions' = [completions EXCEPT ![o][k] = IF @ = 2 THEN 2 ELSE @ + 1]
        /\ undone' = undone
    BY <1>1 DEF CompleteStep
  <2>2. /\ completions'[o][k] = IF completions[o][k] = 2 THEN 2 ELSE completions[o][k] + 1
        /\ \A j \in Steps \ {k} : completions'[o][j] = completions[o][j]
        /\ \A p \in Orders \ {o} : completions'[p] = completions[p]
    BY <2>1 DEF TypeOK
  <2>3. QED
    BY <1>1, <2>1, <2>2
<1>2. CASE inv[w].action # "RUN"
  <2>1. inv[w].action = "ABORT"
    BY <1>2 DEF TypeOK, Invocation, Action
  <2>2. undone' = [undone EXCEPT ![o] = @ \cup {k}] /\ completions' = completions
    BY <1>2 DEF CompleteStep
  <2>3. undone'[o] = undone[o] \cup {k} /\ \A p \in Orders \ {o} : undone'[p] = undone[p]
    BY <2>2 DEF TypeOK
  <2>4. QED
    BY <2>1, <2>2, <2>3
<1>3. QED
  BY <1>1, <1>2

LEMMA CompleteStepHand ==
  ASSUME TypeOK, NEW w \in Workers, CompleteStep(w)
  PROVE  /\ pc[w] = "exec"
         /\ inv'[w].order = inv[w].order /\ inv'[w].read = inv[w].read
         /\ inv'[w].action = inv[w].action /\ inv'[w].run = inv[w].run
         /\ \/ /\ NextStep(w) = NoStep \/ Delays(w)
               /\ pc'[w] = "finishRun" /\ inv'[w].out = Outcome(w) /\ inv'[w].i = inv[w].i
            \/ /\ NextStep(w) # NoStep /\ ~Delays(w)
               /\ pc'[w] = "start" /\ inv'[w].i = NextStep(w)
<1>1. pc[w] = "exec"
  BY DEF CompleteStep
<1>2. CASE NextStep(w) = NoStep \/ Delays(w)
  <2>1. pc'[w] = "finishRun" /\ inv' = [inv EXCEPT ![w].out = Outcome(w)]
    BY <1>2 DEF CompleteStep, Goto, TypeOK
  <2>2. /\ inv'[w].order = inv[w].order /\ inv'[w].read = inv[w].read
        /\ inv'[w].action = inv[w].action
        /\ inv'[w].run = inv[w].run /\ inv'[w].out = Outcome(w) /\ inv'[w].i = inv[w].i
    BY <2>1 DEF TypeOK, Invocation
  <2>3. QED
    BY <1>1, <1>2, <2>1, <2>2
<1>3. CASE NextStep(w) # NoStep /\ ~Delays(w)
  <2>1. pc'[w] = "start" /\ inv' = [inv EXCEPT ![w].i = NextStep(w)]
    BY <1>3 DEF CompleteStep, Goto, TypeOK
  <2>2. /\ inv'[w].order = inv[w].order /\ inv'[w].read = inv[w].read
        /\ inv'[w].action = inv[w].action /\ inv'[w].run = inv[w].run /\ inv'[w].i = NextStep(w)
    BY <2>1 DEF TypeOK, Invocation
  <2>3. QED
    BY <1>1, <1>3, <2>1, <2>2
<1>4. QED
  BY <1>2, <1>3

LEMMA StepThrowsEffect ==
  ASSUME TypeOK, NEW w \in Workers, StepThrows(w)
  PROVE  /\ pc[w] \in {"start", "exec"} /\ pc'[w] = "failRun"
         /\ UNCHANGED <<order, steps, inv, completions, undone, mishaps>>
BY DEF StepThrows, Goto, TypeOK, rows, history

LEMMA FinishRunEffect ==
  ASSUME TypeOK, NEW w \in Workers, FinishRun(w)
  PROVE  /\ pc[w] = "finishRun" /\ pc'[w] = "final"
         /\ inv'[w].order = inv[w].order /\ inv'[w].read = inv[w].read
         /\ inv'[w].action = inv[w].action /\ inv'[w].i = inv[w].i /\ inv'[w].run = "DONE"
         /\ HasSteps(inv[w].order) => inv'[w].out = inv[w].out
         /\ UNCHANGED <<order, steps, completions, undone, mishaps>>
<1> DEFINE i == [inv[w] EXCEPT
                   !.run = "DONE",
                   !.out = IF HasSteps(inv[w].order) THEN inv[w].out
                           ELSE IF inv[w].action = "RUN" THEN "DONE" ELSE "ABORTED"]
<1>1. inv' = [inv EXCEPT ![w] = i]
  BY DEF FinishRun
<1>2. /\ i.order = inv[w].order /\ i.read = inv[w].read /\ i.action = inv[w].action
      /\ i.i = inv[w].i /\ i.run = "DONE" /\ (HasSteps(inv[w].order) => i.out = inv[w].out)
  BY DEF TypeOK, Invocation
<1> HIDE DEF i
<1>3. inv'[w] = i
  BY <1>1 DEF TypeOK
<1>4. QED
  BY <1>2, <1>3 DEF FinishRun, Goto, TypeOK, rows, history

LEMMA FailRunEffect ==
  ASSUME TypeOK, NEW w \in Workers, FailRun(w), NEW o \in Orders, o = inv[w].order
  PROVE  /\ pc[w] = "failRun" /\ pc'[w] = "final"
         /\ inv'[w].order = o /\ inv'[w].read = inv[w].read
         /\ inv'[w].action = inv[w].action /\ inv'[w].i = inv[w].i /\ inv'[w].run = "ERROR"
         /\ inv'[w].out = IF ShouldRetry(w) THEN "ERROR" ELSE "ABORTED"
         /\ \A k \in Steps : steps'[o][k] = IF steps[o][k] = "PROCESSING" THEN "ERROR" ELSE steps[o][k]
         /\ \A p \in Orders \ {o} : steps'[p] = steps[p]
         /\ UNCHANGED <<order, completions, undone, mishaps>>
<1> DEFINE i == [inv[w] EXCEPT !.run = "ERROR",
                               !.out = IF ShouldRetry(w) THEN "ERROR" ELSE "ABORTED"]
<1>1. inv' = [inv EXCEPT ![w] = i]
  BY DEF FailRun
<1>2. /\ i.order = inv[w].order /\ i.read = inv[w].read /\ i.action = inv[w].action
      /\ i.i = inv[w].i /\ i.run = "ERROR" /\ i.out = IF ShouldRetry(w) THEN "ERROR" ELSE "ABORTED"
  BY DEF TypeOK, Invocation
<1> HIDE DEF i
<1>3. inv'[w] = i
  BY <1>1 DEF TypeOK
<1>4. steps' = [steps EXCEPT ![o] =
                  [k \in Steps |-> IF @[k] = "PROCESSING" THEN "ERROR" ELSE @[k]]]
  BY DEF FailRun
<1>5. /\ \A k \in Steps : steps'[o][k] = IF steps[o][k] = "PROCESSING" THEN "ERROR" ELSE steps[o][k]
      /\ \A p \in Orders \ {o} : steps'[p] = steps[p]
  BY <1>4 DEF TypeOK
<1>6. QED
  BY <1>2, <1>3, <1>5 DEF FailRun, Goto, TypeOK, history

LEMMA FinalUpdateEffect ==
  ASSUME TypeOK, NEW w \in Workers, FinalUpdate(w), NEW o \in Orders, o = inv[w].order
  PROVE  /\ pc[w] = "final" /\ pc'[w] = "idle" /\ order[o].status = "PROCESSING"
         /\ order'[o].status = inv[w].out /\ order'[o].action = order[o].action
         /\ order'[o].stepNo = order[o].stepNo
         /\ order'[o].attempts = AttemptsAfter(o, inv[w].out)
         /\ inv[w].out \notin FinalStati => steps'[o] = steps[o]
         /\ \A p \in Orders \ {o} : order'[p] = order[p] /\ steps'[p] = steps[p]
         /\ UNCHANGED <<completions, undone, mishaps>>
<1> DEFINE out == inv[w].out
           row == [order[o] EXCEPT !.status = out, !.due = out \in FinalStati,
                                   !.attempts = AttemptsAfter(o, out)]
<1>1. order' = [order EXCEPT ![o] = row]
  BY DEF FinalUpdate
<1>2. /\ row.status = out /\ row.action = order[o].action /\ row.stepNo = order[o].stepNo
      /\ row.attempts = AttemptsAfter(o, out)
  BY DEF TypeOK, OrderRow
<1> HIDE DEF row
<1>3. order'[o] = row /\ \A p \in Orders \ {o} : order'[p] = order[p]
  BY <1>1 DEF TypeOK
<1>4. steps' = [steps EXCEPT ![o] =
        [k \in Steps |-> IF out \in FinalStati /\ @[k] = "PENDING" THEN "SKIPPED" ELSE @[k]]]
  BY DEF FinalUpdate
<1>5. \A p \in Orders \ {o} : steps'[p] = steps[p]
  BY <1>4 DEF TypeOK
<1>6. ASSUME out \notin FinalStati PROVE steps'[o] = steps[o]
  BY <1>4, <1>6 DEF TypeOK
<1>7. pc'[w] = "idle"
  BY DEF FinalUpdate, Return, TypeOK
<1>8. QED
  BY <1>2, <1>3, <1>5, <1>6, <1>7 DEF FinalUpdate, history

LEMMA OuterCatchEffect ==
  ASSUME TypeOK, NEW w \in Workers, OuterCatch(w), NEW o \in Orders, o = inv[w].order
  PROVE  /\ pc[w] = "outer" /\ pc'[w] = "idle" /\ order[o].status = "PROCESSING"
         /\ order'[o].action = order[o].action /\ order'[o].stepNo = order[o].stepNo
         /\ inv[w].run = "none" => "flip" \in mishaps'[o]
         /\ \A p \in Orders \ {o} : order'[p] = order[p]
         /\ UNCHANGED <<steps, completions, undone>>
<1> DEFINE row == [order[o] EXCEPT !.status = IF ShouldRetry(w) THEN "ERROR" ELSE "ABORTED",
                                   !.due = ~ShouldRetry(w)]
<1>1. order' = [order EXCEPT ![o] = row]
  BY DEF OuterCatch
<1>2. row.action = order[o].action /\ row.stepNo = order[o].stepNo
  BY DEF TypeOK, OrderRow
<1> HIDE DEF row
<1>3. order'[o] = row /\ \A p \in Orders \ {o} : order'[p] = order[p]
  BY <1>1 DEF TypeOK
<1>4. pc'[w] = "idle" /\ (inv[w].run = "none" => "flip" \in mishaps'[o])
  BY DEF OuterCatch, Return, TypeOK
<1>5. QED
  BY <1>2, <1>3, <1>4 DEF OuterCatch, OuterMatches, history

-----------------------------------------------------------------------------
(***************************************************************************)
(* What was read.  An invocation starts from an order that has not ended   *)
(* and whose steps exist, and runs steps only if it read that they are to  *)
(* be run.                                                                 *)
(***************************************************************************)
ReadsFit ==
  \A w \in Workers : pc[w] # "idle" =>
    /\ inv[w].read.status \in {"PENDING", "PROCESSING", "ERROR"}
    /\ inv[w].action = "RUN" => inv[w].read.action = "RUN"

LEMMA NextReadsFit == TypeOK /\ ReadsFit /\ [Next]_vars => ReadsFit'
<1> SUFFICES ASSUME TypeOK, ReadsFit, [Next]_vars PROVE ReadsFit'
  OBVIOUS
<1> USE DEF TypeOK, ReadsFit, Goto, Return, rows, history
<1>1. ASSUME NEW w \in Workers, NEW o \in Orders, NEW a \in Action, Begin(w, o, a),
             order[o].status \in {"PENDING", "PROCESSING", "ERROR"},
             a = "RUN" => order[o].action = "RUN"
      PROVE  ReadsFit'
  <2>1. /\ inv'[w].read.status = order[o].status /\ inv'[w].read.action = order[o].action
        /\ inv'[w].action = a
    BY <1>1 DEF Begin, IdleInv
  <2>2. \A v \in Workers \ {w} : pc'[v] = pc[v] /\ inv'[v] = inv[v]
    BY <1>1 DEF Begin
  <2>3. QED
    BY <1>1, <2>1, <2>2
<1>2. ASSUME NEW w \in Workers, NEW o \in Orders, Pick(w, o) PROVE ReadsFit'
  <2>1. order[o].action \in Action
    BY DEF OrderRow
  <2>2. QED
    BY <1>1, <1>2, <2>1 DEF Pick, Due
<1>3. ASSUME NEW w \in Workers, NEW o \in Orders, Abort(w, o) PROVE ReadsFit'
  <2>1. order[o].status \in {"PENDING", "PROCESSING", "ERROR"}
    BY <1>3 DEF Abort, OrderRow, Status, FinalStati
  <2>2. QED
    BY <1>1, <1>3, <2>1 DEF Abort, Action
<1>4. ASSUME NEW w \in Workers, InvocationStep(w) \/ Fault(w) PROVE ReadsFit'
  <2>1. \A v \in Workers \ {w} : pc'[v] = pc[v] /\ inv'[v] = inv[v]
    BY <1>4, OneInvocation
  <2>2. pc[w] # "idle" /\ inv[w].order \in Orders
    BY <1>4, OneInvocation
  <2>3. pc'[w] = "idle" \/ (inv'[w].read = inv[w].read /\ inv'[w].action = inv[w].action)
    <3>1. CASE Claim(w) \/ CompleteStep(w)
      BY <3>1, OneInvocation, ClaimEffect, CompleteStepHand DEF InvocationStep
    <3>2. CASE CreateRun(w) \/ FinishRun(w) \/ FailRun(w)
      BY <3>2, <2>2, CreateRunEffect, FinishRunEffect, FailRunEffect
    <3>3. CASE \/ ClaimFails(w) \/ StartStep(w) \/ StepThrows(w) \/ FinalUpdate(w)
               \/ FinalUpdateFails(w) \/ OuterCatch(w) \/ OuterCatchThrows(w) \/ Fault(w)
      BY <3>3 DEF ClaimFails, StartStep, StepThrows, FinalUpdate, FinalUpdateFails, OuterCatch,
         OuterCatchThrows, Fault
    <3>4. QED
      BY <1>4, <3>1, <3>2, <3>3 DEF InvocationStep
  <2>4. QED
    BY <2>1, <2>2, <2>3
<1>5. ASSUME NEW W \in SUBSET Workers, Crash(W) PROVE ReadsFit'
  BY <1>5 DEF Crash
<1>6. CASE UNCHANGED <<pc, inv>>
  BY <1>6
<1>7. QED
  BY <1>2, <1>3, <1>4, <1>5, <1>6
  DEF Next, vars, ConfirmDraft, ProcessConfirmed, TimePasses, AbortDirectly, Retry, RetryUpdate

(* Whose rows the step of an invocation leaves alone *)
LEMMA OtherOrders ==
  ASSUME TypeOK, NEW w \in Workers, InvocationStep(w) \/ Fault(w), NEW o \in Orders, inv[w].order # o
  PROVE  /\ order'[o] = order[o] /\ steps'[o] = steps[o]
         /\ completions'[o] = completions[o] /\ undone'[o] = undone[o] /\ mishaps'[o] = mishaps[o]
<1>1. CASE Claim(w) \/ StartStep(w) \/ FailRun(w)
  <2>1. inv[w].order \in Orders
    BY <1>1, OneInvocation DEF InvocationStep
  <2>2. QED
    BY <1>1, <2>1, ClaimEffect, StartStepEffect, FailRunEffect
<1>2. CASE ClaimFails(w) \/ CreateRun(w) \/ StepThrows(w) \/ FinishRun(w)
  BY <1>2 DEF ClaimFails, CreateRun, StepThrows, FinishRun, rows, history
<1>3. CASE CompleteStep(w)
  <2>1. inv[w].order \in Orders /\ inv[w].i \in Steps
    BY <1>3, OneInvocation DEF InvocationStep, TypeOK, Invocation
  <2>2. QED
    BY <1>3, <2>1, CompleteStepRows, CompleteStepHistory
<1>4. CASE FinalUpdate(w) \/ FinalUpdateFails(w) \/ OuterCatch(w) \/ OuterCatchThrows(w)
  BY <1>4 DEF FinalUpdate, FinalUpdateFails, OuterCatch, OuterCatchThrows, TypeOK, rows, history
<1>5. CASE Fault(w)
  BY <1>5 DEF Fault, Suffer, TypeOK, rows, history
<1>6. QED
  BY <1>1, <1>2, <1>3, <1>4, <1>5 DEF InvocationStep

(* What an operator's or a cron job's step makes of an order's row *)
LEMMA RowSteps ==
  ASSUME TypeOK, NEW p \in Orders, NEW o \in Orders
  PROVE  /\ ConfirmDraft(p) => /\ order[p].status = "DRAFT"
                               /\ p = o => order'[o] = [order[o] EXCEPT !.status = "CONFIRMED"]
                               /\ p # o => order'[o] = order[o]
         /\ ProcessConfirmed(p) => /\ order[p].status = "CONFIRMED"
                                   /\ p = o => order'[o] = [order[o] EXCEPT !.status = "PENDING"]
                                   /\ p # o => order'[o] = order[o]
         /\ TimePasses(p) => /\ p = o => order'[o] = [order[o] EXCEPT !.due = TRUE]
                             /\ p # o => order'[o] = order[o]
         /\ AbortDirectly(p) => /\ order[p].status \in {"DRAFT", "CONFIRMED"}
                                /\ p = o => order'[o] = [order[o] EXCEPT !.status = "ABORTED",
                                                                         !.action = "ABORT"]
                                /\ p # o => order'[o] = order[o]
         /\ RetryUpdate(p) => /\ p \in rerunning
                              /\ p = o => order'[o] = [order[o] EXCEPT !.status = "PENDING",
                                                                       !.due = TRUE, !.attempts = 0]
                              /\ p # o => order'[o] = order[o]
BY DEF TypeOK, ConfirmDraft, ProcessConfirmed, TimePasses, AbortDirectly, RetryUpdate

LEMMA FinalStays ==
  ASSUME TypeOK, ReadsFit, [Next]_vars, NEW o \in Orders,
         order[o].status \in FinalStati, o \notin rerunning
  PROVE  order'[o].status = order[o].status
<1> USE DEF FinalStati
<1>1. ASSUME NEW p \in Orders, ConfirmDraft(p) \/ ProcessConfirmed(p) \/ AbortDirectly(p) \/ RetryUpdate(p)
      PROVE  order'[o].status = order[o].status
  BY <1>1, RowSteps
<1>2. ASSUME NEW p \in Orders, TimePasses(p) PROVE order'[o].status = order[o].status
  <2>1. [order[o] EXCEPT !.due = TRUE].status = order[o].status
    BY DEF TypeOK, OrderRow
  <2>2. QED
    BY <1>2, <2>1, RowSteps
<1>3. ASSUME NEW w \in Workers, InvocationStep(w) \/ Fault(w) PROVE order'[o].status = order[o].status
  <2>1. CASE inv[w].order # o
    BY <1>3, <2>1, OtherOrders
  <2>2. CASE inv[w].order = o
    <3>1. pc[w] # "idle" /\ order[o].status # "PROCESSING" /\ order[o].status # inv[w].read.status
      BY <1>3, OneInvocation DEF ReadsFit
    <3>2. ~Claim(w) /\ ~FinalUpdate(w) /\ ~OuterCatch(w)
      BY <2>2, <3>1, ClaimEffect, FinalUpdateEffect, OuterCatchEffect
    <3>3. CASE StartStep(w) \/ CompleteStep(w) \/ StepThrows(w)
      BY <3>3, StepKeepsStatus
    <3>4. CASE UNCHANGED order
      BY <3>4
    <3>5. QED
      BY <1>3, <3>2, <3>3, <3>4
      DEF InvocationStep, ClaimFails, CreateRun, FinishRun, FailRun, FinalUpdateFails,
          OuterCatchThrows, Fault, rows
  <2>3. QED
    BY <2>1, <2>2
<1>4. CASE UNCHANGED order
  BY <1>4
<1>5. QED
  BY <1>1, <1>2, <1>3, <1>4 DEF Next, Retry, Pick, Abort, Begin, Crash, rows, vars

LEMMA AbortStays ==
  ASSUME TypeOK, ReadsFit, [Next]_vars, NEW o \in Orders,
         order[o].action = "ABORT", "staleClaim" \notin mishaps'[o]
  PROVE  order'[o].action = "ABORT"
<1>1. ASSUME NEW p \in Orders,
             \/ ConfirmDraft(p) \/ ProcessConfirmed(p) \/ TimePasses(p)
             \/ AbortDirectly(p) \/ RetryUpdate(p)
      PROVE  order'[o].action = "ABORT"
  <2>1. /\ \A s : [order[o] EXCEPT !.status = s].action = order[o].action
        /\ [order[o] EXCEPT !.due = TRUE].action = order[o].action
        /\ [order[o] EXCEPT !.status = "ABORTED", !.action = "ABORT"].action = "ABORT"
        /\ [order[o] EXCEPT !.status = "PENDING", !.due = TRUE, !.attempts = 0].action = order[o].action
    BY DEF TypeOK, OrderRow
  <2>2. order'[o] \in {order[o], [order[o] EXCEPT !.status = "CONFIRMED"],
                        [order[o] EXCEPT !.status = "PENDING"], [order[o] EXCEPT !.due = TRUE],
                        [order[o] EXCEPT !.status = "ABORTED", !.action = "ABORT"],
                        [order[o] EXCEPT !.status = "PENDING", !.due = TRUE, !.attempts = 0]}
    <3>1. p = o \/ p # o
      OBVIOUS
    <3>2. QED
      BY <1>1, <3>1, RowSteps, ZenonT(30)
  <2>3. QED
    BY <2>1, <2>2
<1>2. ASSUME NEW w \in Workers, InvocationStep(w) \/ Fault(w) PROVE order'[o].action = "ABORT"
  <2>1. CASE inv[w].order # o
    BY <1>2, <2>1, OtherOrders
  <2>2. CASE inv[w].order = o /\ Claim(w)
    <3>1. pc[w] # "idle" /\ inv[w].action \in Action
      BY <1>2, OneInvocation DEF TypeOK, Invocation
    <3>2. order'[o].action = inv[w].action /\ "staleClaim" \notin ClaimMishaps(w, order[o])
      BY <2>2, ClaimEffect
    <3>3. inv[w].read.action = "ABORT"
      BY <3>2 DEF ClaimMishaps
    <3>4. QED
      BY <3>1, <3>2, <3>3 DEF ReadsFit, Action
  <2>3. CASE inv[w].order = o /\ (StartStep(w) \/ CompleteStep(w) \/ FinalUpdate(w) \/ OuterCatch(w))
    <3>1. inv[w].i \in Steps
      BY DEF TypeOK, Invocation
    <3>2. QED
      BY <2>3, <3>1, StartStepEffect, CompleteStepRows, FinalUpdateEffect, OuterCatchEffect
  <2>4. CASE UNCHANGED order
    BY <2>4
  <2>5. QED
    BY <1>2, <2>1, <2>2, <2>3, <2>4
    DEF InvocationStep, ClaimFails, CreateRun, StepThrows, FinishRun, FailRun, FinalUpdateFails,
        OuterCatchThrows, Fault, rows
<1>3. CASE UNCHANGED order
  BY <1>3
<1>4. QED
  BY <1>1, <1>2, <1>3 DEF Next, Retry, Pick, Abort, Begin, Crash, rows, vars

LEMMA ReadsAlways == Spec => [](TypeOK /\ ReadsFit)
<1>1. Init => ReadsFit
  BY DEF Init, ReadsFit
<1>2. QED
  BY <1>1, InitTypeOK, NextTypeOK, NextReadsFit, PTL DEF Spec

(* An order stays DONE or ABORTED unless an operator's retry had read it   *)
(* before, and an abort that was decided is not taken back by a claim of   *)
(* an invocation that had read the order as it still is.                   *)
THEOREM DecisionsHold == Spec => DecisionsStand
<1> DEFINE Stands(o) ==
      /\ order[o].status \in FinalStati /\ order'[o].status # order[o].status => o \in rerunning
      /\ order[o].action = "ABORT" /\ order'[o].action # "ABORT" => "staleClaim" \in mishaps'[o]
<1>1. TypeOK /\ ReadsFit /\ [Next]_vars => \A o \in Orders : Stands(o)
  BY FinalStays, AbortStays
<1>2. TypeOK /\ ReadsFit /\ [Next]_vars =>
        [\A o \in Orders : order[o].status \in FinalStati /\ order'[o].status # order[o].status
           => o \in rerunning]_vars
  BY <1>1
<1>3. TypeOK /\ ReadsFit /\ [Next]_vars =>
        [\A o \in Orders : order[o].action = "ABORT" /\ order'[o].action # "ABORT"
           => "staleClaim" \in mishaps'[o]]_vars
  BY <1>1
<1>4. Spec => FinalIsFinal
  BY <1>2, ReadsAlways, PTL DEF Spec, FinalIsFinal
<1>5. Spec => AbortIsSticky
  BY <1>3, ReadsAlways, PTL DEF Spec, AbortIsSticky
<1>6. QED
  BY <1>4, <1>5 DEF DecisionsStand

-----------------------------------------------------------------------------
(***************************************************************************)
(* Steps and attempts.  An order that is not derailed is described by its  *)
(* rows (RowSound) and by the invocation that holds it (InHand): which     *)
(* step is current, what has been recorded before it, what has been undone *)
(* after it, and what the attempts count.                                  *)
(***************************************************************************)

(* The steps before n are recorded and no other *)
Prefix(o, n) ==
  \A k \in Steps : /\ k < n => steps[o][k] = "DONE" /\ completions[o][k] = 1
                   /\ k > n => steps[o][k] = "PENDING"
                   /\ k >= n => completions[o][k] = 0

(* The recorded steps after n are undone *)
UndoneAbove(o, n) ==
  \A k \in Steps : completions[o][k] > 0 /\ k > n => k \in undone[o]

(* The order's stepNo points at step n, which null does for the first *)
PointsAt(o, n) == order[o].stepNo = n \/ (order[o].stepNo = NoStep /\ n = 0)

StepsRowSound(o) ==
  /\ \A k \in Steps : completions[o][k] \in {0, 1}
  /\ order[o].status \in {"DRAFT", "CONFIRMED"} =>
       /\ order[o].action = "RUN" /\ order[o].stepNo = NoStep
       /\ \A k \in Steps : completions[o][k] = 0 /\ steps[o][k] = "ABSENT"
  /\ order[o].status \in {"PENDING", "ERROR", "PROCESSING"} => HasSteps(o)
  /\ order[o].status \in {"PENDING", "ERROR"} /\ order[o].action = "RUN" =>
       \E n \in Steps : Prefix(o, n) /\ PointsAt(o, n)
  /\ order[o].status = "PROCESSING" /\ order[o].action = "RUN" =>
       \E n \in 0 .. NumSteps :
         Prefix(o, n) /\ (PointsAt(o, n) \/ (order[o].stepNo = NoStep /\ n = NumSteps))
  /\ order[o].status \in {"PENDING", "ERROR", "PROCESSING"} /\ order[o].action = "ABORT" =>
       UndoneAbove(o, order[o].stepNo)
  /\ order[o].status = "DONE" => \A k \in Steps : completions[o][k] = 1

AttemptsRowSound(o) ==
  /\ order[o].attempts \in 0 .. NumRetries + 1
  /\ order[o].status \notin {"PROCESSING"} \cup FinalStati => order[o].attempts \in 0 .. NumRetries
  /\ order[o].status = "ABORTED" /\ order[o].action = "RUN" => order[o].attempts = NumRetries + 1

(* An invocation before or in the step inv[w].i, or after it has thrown *)
AtStep(w) == pc[w] \in {"createRun", "start", "exec", "failRun"}
             \/ (pc[w] = "final" /\ inv[w].run = "ERROR")

(* An invocation whose loop has ended without an error *)
Ended(w) == pc[w] = "finishRun" \/ (pc[w] = "final" /\ inv[w].run = "DONE")

StepsInHand(w, o) ==
  /\ pc[w] \in Working
  /\ pc[w] = "final" => inv[w].run \in {"DONE", "ERROR"}
  /\ inv[w].action = order[o].action
  /\ pc[w] = "exec" => order[o].stepNo = inv[w].i
  /\ AtStep(w) /\ inv[w].action = "RUN" => Prefix(o, inv[w].i) /\ PointsAt(o, inv[w].i)
  /\ AtStep(w) /\ inv[w].action = "ABORT" => UndoneAbove(o, inv[w].i)
  /\ Ended(w) /\ inv[w].action = "RUN" =>
       \/ /\ inv[w].out = "PENDING" /\ inv[w].i + 1 \in Steps
          /\ Prefix(o, inv[w].i + 1) /\ order[o].stepNo = inv[w].i + 1
       \/ inv[w].out = "DONE" /\ Prefix(o, NumSteps) /\ order[o].stepNo = NoStep
  /\ Ended(w) /\ inv[w].action = "ABORT" =>
       inv[w].out = "ABORTED" /\ UndoneAbove(o, NoStep)

AttemptsInHand(w, o) ==
  /\ inv[w].read.attempts \in 0 .. NumRetries
  /\ order[o].attempts = IF inv[w].read.action = inv[w].action THEN inv[w].read.attempts + 1 ELSE 0
  /\ pc[w] = "final" /\ inv[w].run = "ERROR" =>
       inv[w].out = IF ShouldRetry(w) THEN "ERROR" ELSE "ABORTED"

OnTrack(o) ==
  /\ StepsRowSound(o) /\ AttemptsRowSound(o)
  /\ \A w \in Workers : Holds(w, o) => StepsInHand(w, o) /\ AttemptsInHand(w, o)

TrackInv ==
  ExclusionInv /\ ReadsFit /\ \A o \in Orders : Spared(o, Derailing) => OnTrack(o)

LEMMA NotUnstarted ==
  ASSUME NEW o \in Orders, HasSteps(o)
  PROVE  ~ \A k \in Steps : steps[o][k] = "ABSENT"
BY EngineAssumption DEF HasSteps, Steps

(* An order whose rows a step leaves alone, and whose holders it leaves    *)
(* where they are or takes away, stays on track.                           *)
LEMMA LeftAlone ==
  ASSUME NEW o \in Orders, OnTrack(o),
         order'[o] = order[o], steps'[o] = steps[o],
         completions'[o] = completions[o], undone'[o] = undone[o],
         \A w \in Workers : Holds(w, o)' => /\ Holds(w, o)
                                            /\ pc'[w] = pc[w] /\ inv'[w] = inv[w]
  PROVE  OnTrack(o)'
<1>1. StepsRowSound(o)' /\ AttemptsRowSound(o)'
  BY DEF OnTrack, StepsRowSound, AttemptsRowSound, HasSteps, Prefix, PointsAt, UndoneAbove
<1>2. ASSUME NEW w \in Workers, Holds(w, o)' PROVE StepsInHand(w, o)' /\ AttemptsInHand(w, o)'
  <2>1. Holds(w, o) /\ pc'[w] = pc[w] /\ inv'[w] = inv[w]
    BY <1>2
  <2>2. StepsInHand(w, o) /\ AttemptsInHand(w, o)
    BY <2>1 DEF OnTrack
  <2>3. StepsInHand(w, o)'
    BY <2>1, <2>2 DEF StepsInHand, AtStep, Ended, Prefix, PointsAt, UndoneAbove
  <2>4. AttemptsInHand(w, o)'
    BY <2>1, <2>2 DEF AttemptsInHand, ShouldRetry
  <2>5. QED
    BY <2>3, <2>4
<1>3. QED
  BY <1>1, <1>2 DEF OnTrack

(* Nobody holds an order that is not PROCESSING. *)
LEMMA NobodyHolds ==
  ASSUME NEW o \in Orders, Sole(o), order[o].status # "PROCESSING"
  PROVE  \A w \in Workers : ~Holds(w, o)
BY DEF Sole

LEMMA ConfirmOnTrack ==
  ASSUME TypeOK, NEW o \in Orders, Sole(o), OnTrack(o), ConfirmDraft(o)
  PROVE  OnTrack(o)'
<1>1. order[o].status = "DRAFT" /\ order'[o] = [order[o] EXCEPT !.status = "CONFIRMED"]
  BY RowSteps
<1>2. /\ order'[o].status = "CONFIRMED" /\ order'[o].action = order[o].action
      /\ order'[o].stepNo = order[o].stepNo /\ order'[o].attempts = order[o].attempts
  BY <1>1 DEF TypeOK, OrderRow
<1>3. UNCHANGED <<steps, completions, undone, pc, inv>>
  BY DEF ConfirmDraft, history
<1>4. StepsRowSound(o)' /\ AttemptsRowSound(o)'
  BY <1>1, <1>2, <1>3 DEF OnTrack, StepsRowSound, AttemptsRowSound, FinalStati
<1>5. \A w \in Workers : ~Holds(w, o)'
  BY <1>1, <1>3, NobodyHolds DEF Holds
<1>6. QED
  BY <1>4, <1>5 DEF OnTrack

LEMMA ProcessConfirmedOnTrack ==
  ASSUME TypeOK, NEW o \in Orders, Sole(o), OnTrack(o), ProcessConfirmed(o)
  PROVE  OnTrack(o)'
<1>1. order[o].status = "CONFIRMED" /\ order'[o] = [order[o] EXCEPT !.status = "PENDING"]
  BY RowSteps
<1>2. /\ order'[o].status = "PENDING" /\ order'[o].action = order[o].action
      /\ order'[o].stepNo = order[o].stepNo /\ order'[o].attempts = order[o].attempts
  BY <1>1 DEF TypeOK, OrderRow
<1>3. UNCHANGED <<completions, undone, pc, inv>>
  BY DEF ProcessConfirmed, history
<1>4. \A k \in Steps : steps'[o][k] = "PENDING"
  BY DEF ProcessConfirmed, TypeOK
<1>5. /\ order[o].action = "RUN" /\ order[o].stepNo = NoStep
      /\ \A k \in Steps : completions[o][k] = 0
      /\ order[o].attempts \in 0 .. NumRetries /\ order[o].attempts \in 0 .. NumRetries + 1
  BY <1>1 DEF OnTrack, StepsRowSound, AttemptsRowSound, FinalStati
<1>6. 0 \in Steps /\ Prefix(o, 0)' /\ PointsAt(o, 0)'
  BY <1>2, <1>3, <1>4, <1>5, EngineAssumption DEF Prefix, PointsAt, Steps
<1>7. HasSteps(o)'
  BY <1>4 DEF HasSteps
<1>8. StepsRowSound(o)'
  BY <1>2, <1>3, <1>5, <1>6, <1>7 DEF StepsRowSound
<1>9. AttemptsRowSound(o)'
  BY <1>2, <1>5 DEF AttemptsRowSound
<1>10. \A w \in Workers : ~Holds(w, o)'
  BY <1>1, <1>3, NobodyHolds DEF Holds
<1>11. QED
  BY <1>8, <1>9, <1>10 DEF OnTrack

LEMMA TimeOnTrack ==
  ASSUME TypeOK, NEW o \in Orders, OnTrack(o), TimePasses(o)
  PROVE  OnTrack(o)'
<1>1. order'[o] = [order[o] EXCEPT !.due = TRUE]
  BY RowSteps
<1>2. /\ order'[o].status = order[o].status /\ order'[o].action = order[o].action
      /\ order'[o].stepNo = order[o].stepNo /\ order'[o].attempts = order[o].attempts
  BY <1>1 DEF TypeOK, OrderRow
<1>3. UNCHANGED <<steps, completions, undone, pc, inv>>
  BY DEF TimePasses, history
<1>4. StepsRowSound(o)' /\ AttemptsRowSound(o)'
  BY <1>2, <1>3
  DEF OnTrack, StepsRowSound, AttemptsRowSound, HasSteps, Prefix, PointsAt, UndoneAbove
<1>5. ASSUME NEW w \in Workers, Holds(w, o)' PROVE StepsInHand(w, o)' /\ AttemptsInHand(w, o)'
  <2>1. StepsInHand(w, o) /\ AttemptsInHand(w, o)
    BY <1>3, <1>5 DEF OnTrack, Holds
  <2>2. StepsInHand(w, o)'
    BY <1>2, <1>3, <2>1 DEF StepsInHand, AtStep, Ended, Prefix, PointsAt, UndoneAbove
  <2>3. AttemptsInHand(w, o)'
    BY <1>2, <1>3, <2>1 DEF AttemptsInHand, ShouldRetry
  <2>4. QED
    BY <2>2, <2>3
<1>6. QED
  BY <1>4, <1>5 DEF OnTrack

LEMMA AbortDirectlyOnTrack ==
  ASSUME TypeOK, NEW o \in Orders, Sole(o), OnTrack(o), AbortDirectly(o)
  PROVE  OnTrack(o)'
<1>1. /\ order[o].status \in {"DRAFT", "CONFIRMED"}
      /\ order'[o] = [order[o] EXCEPT !.status = "ABORTED", !.action = "ABORT"]
  BY RowSteps
<1>2. /\ order'[o].status = "ABORTED" /\ order'[o].action = "ABORT"
      /\ order'[o].attempts = order[o].attempts
  BY <1>1 DEF TypeOK, OrderRow
<1>3. UNCHANGED <<steps, completions, undone, pc, inv>>
  BY DEF AbortDirectly, history
<1>4. StepsRowSound(o)' /\ AttemptsRowSound(o)'
  BY <1>2, <1>3 DEF OnTrack, StepsRowSound, AttemptsRowSound, FinalStati
<1>5. \A w \in Workers : ~Holds(w, o)'
  BY <1>1, <1>3, NobodyHolds DEF Holds
<1>6. QED
  BY <1>4, <1>5 DEF OnTrack

(* Any other invocation than the one that works on the order does not hold *)
(* it, before and after the step.                                          *)
LEMMA OnlyHolder ==
  ASSUME TypeOK, NEW w \in Workers, InvocationStep(w) \/ Fault(w), NEW o \in Orders, Sole(o),
         Holds(w, o) \/ order[o].status # "PROCESSING"
  PROVE  \A v \in Workers \ {w} : ~Holds(v, o)'
BY OneInvocation DEF Sole, Holds

LEMMA ClaimOnTrack ==
  ASSUME TypeOK, ReadsFit, NEW w \in Workers, NEW o \in Orders, o = inv[w].order, Sole(o), OnTrack(o),
         Claim(w), Spared(o, Derailing)'
  PROVE  OnTrack(o)'
<1>0. PICK i \in Steps : i = FirstStep(o, inv[w].action)
  BY FirstStepType DEF TypeOK, Invocation
<1>1. /\ pc[w] = "claim" /\ pc'[w] = "createRun"
      /\ inv'[w].order = o /\ inv'[w].read = inv[w].read /\ inv'[w].action = inv[w].action
      /\ inv'[w].run = "claimed" /\ inv'[w].i = i
      /\ order[o].status = inv[w].read.status /\ order'[o].status = "PROCESSING"
      /\ order'[o].action = inv[w].action /\ order'[o].stepNo = order[o].stepNo
      /\ order'[o].attempts = IF inv[w].read.action = inv[w].action THEN order[o].attempts + 1 ELSE 0
      /\ mishaps'[o] = mishaps[o] \cup ClaimMishaps(w, order[o])
      /\ UNCHANGED <<steps, completions, undone>>
  BY <1>0, ClaimEffect
<1>2. ClaimMishaps(w, order[o]) \cap {"abortRunning", "staleClaim"} = {}
  BY <1>1 DEF Spared, Derailing, Overlapping
<1>3. /\ inv[w].read.status # "PROCESSING"
      /\ order[o].action = inv[w].read.action /\ order[o].attempts = inv[w].read.attempts
  BY <1>2 DEF ClaimMishaps
<1>4. order[o].status \in {"PENDING", "ERROR"}
  BY <1>1, <1>3 DEF ReadsFit
<1>5. inv[w].action \in {"RUN", "ABORT"} /\ inv[w].read.action \in {"RUN", "ABORT"}
  BY DEF TypeOK, Invocation, Read, Action
<1>6. inv[w].action = "RUN" => order[o].action = "RUN"
  BY <1>1, <1>3 DEF ReadsFit
<1>7. HasSteps(o) /\ order[o].attempts \in 0 .. NumRetries
  BY <1>4 DEF OnTrack, StepsRowSound, AttemptsRowSound, FinalStati
<1>8. order[o].stepNo \in Steps \cup {NoStep}
  BY DEF TypeOK, OrderRow
<1>9. ASSUME order[o].action = "RUN"
      PROVE  \E n \in Steps : Prefix(o, n) /\ PointsAt(o, n)
  BY <1>4, <1>9 DEF OnTrack, StepsRowSound
<1>10. ASSUME inv[w].action = "RUN" PROVE Prefix(o, i)' /\ PointsAt(o, i)'
  <2>1. PICK n \in Steps : Prefix(o, n) /\ PointsAt(o, n)
    BY <1>6, <1>9, <1>10
  <2>2. n = i
    BY <1>0, <1>10, <2>1 DEF PointsAt, FirstStep, Steps, NoStep
  <2>3. QED
    BY <1>1, <2>1, <2>2 DEF Prefix, PointsAt
<1>11. ASSUME inv[w].action = "ABORT"
       PROVE  UndoneAbove(o, i) /\ UndoneAbove(o, order[o].stepNo)
  <2>1. UndoneAbove(o, order[o].stepNo)
    <3>1. CASE order[o].action = "RUN"
      <4>1. PICK n \in Steps : Prefix(o, n) /\ PointsAt(o, n)
        BY <1>9, <3>1
      <4>2. \A k \in Steps : k > order[o].stepNo => completions[o][k] = 0
        BY <4>1, <1>8, EngineAssumption DEF Prefix, PointsAt, Steps, NoStep
      <4>3. QED
        BY <4>2 DEF UndoneAbove
    <3>2. CASE order[o].action = "ABORT"
      BY <1>4, <3>2 DEF OnTrack, StepsRowSound
    <3>3. QED
      BY <1>3, <1>5, <3>1, <3>2
  <2>2. i = order[o].stepNo \/ i = NumSteps - 1
    BY <1>0, <1>11 DEF FirstStep
  <2>3. \A k \in Steps : ~(k > NumSteps - 1)
    BY EngineAssumption DEF Steps
  <2>4. QED
    BY <2>1, <2>2, <2>3 DEF UndoneAbove
<1>12. StepsRowSound(o)'
  <2>1. \A k \in Steps : completions[o][k] \in {0, 1}
    BY DEF OnTrack, StepsRowSound
  <2>2. inv[w].action = "RUN" =>
          \E n \in 0 .. NumSteps : Prefix(o, n)' /\ PointsAt(o, n)'
    <3>1. i \in 0 .. NumSteps
      BY EngineAssumption DEF Steps
    <3>2. QED
      BY <1>10, <3>1
  <2>3. inv[w].action = "ABORT" => UndoneAbove(o, order[o].stepNo)'
    BY <1>1, <1>11 DEF UndoneAbove
  <2>4. HasSteps(o)'
    BY <1>1, <1>7 DEF HasSteps
  <2>5. QED
    BY <1>1, <2>1, <2>2, <2>3, <2>4 DEF StepsRowSound
<1>13. /\ inv[w].read.attempts \in 0 .. NumRetries
       /\ order'[o].attempts \in 0 .. NumRetries + 1
  BY <1>1, <1>3, <1>7, EngineAssumption
<1>14. AttemptsRowSound(o)'
  BY <1>1, <1>13 DEF AttemptsRowSound, FinalStati
<1>15. StepsInHand(w, o)'
  BY <1>1, <1>10, <1>11 DEF StepsInHand, Working, AtStep, Ended, UndoneAbove
<1>16. AttemptsInHand(w, o)'
  BY <1>1, <1>3, <1>13 DEF AttemptsInHand
<1>17. \A v \in Workers \ {w} : ~Holds(v, o)'
  BY <1>4, OnlyHolder DEF InvocationStep
<1>18. QED
  BY <1>12, <1>14, <1>15, <1>16, <1>17 DEF OnTrack

(* An invocation that is at work on its order holds it. *)
LEMMA WorkerHolds ==
  ASSUME RunPlaces, NEW w \in Workers, NEW o \in Orders, o = inv[w].order, pc[w] \in Working, OnTrack(o)
  PROVE  Holds(w, o) /\ StepsInHand(w, o) /\ AttemptsInHand(w, o)
<1>1. Holds(w, o)
  BY DEF RunPlaces, Working, Holds
<1>2. QED
  BY <1>1 DEF OnTrack

LEMMA CreateRunOnTrack ==
  ASSUME TypeOK, RunPlaces, NEW w \in Workers, NEW o \in Orders, o = inv[w].order, Sole(o), OnTrack(o),
         CreateRun(w)
  PROVE  OnTrack(o)'
<1>1. /\ pc[w] = "createRun" /\ pc'[w] = IF HasSteps(o) THEN "start" ELSE "finishRun"
      /\ inv'[w].order = o /\ inv'[w].read = inv[w].read /\ inv'[w].action = inv[w].action
      /\ inv'[w].run = "PROCESSING" /\ inv'[w].i = inv[w].i /\ inv'[w].out = inv[w].out
      /\ UNCHANGED <<order, steps, completions, undone, mishaps>>
  BY CreateRunEffect
<1>2. Holds(w, o) /\ StepsInHand(w, o) /\ AttemptsInHand(w, o)
  BY <1>1, WorkerHolds DEF Working
<1>3. order[o].status = "PROCESSING"
  BY <1>2 DEF Sole
<1>4. pc'[w] = "start"
  BY <1>1, <1>3 DEF OnTrack, StepsRowSound
<1>5. StepsInHand(w, o)'
  BY <1>1, <1>2, <1>4 DEF StepsInHand, Working, AtStep, Ended, Prefix, PointsAt, UndoneAbove
<1>6. AttemptsInHand(w, o)'
  BY <1>1, <1>2, <1>4 DEF AttemptsInHand
<1>7. StepsRowSound(o)' /\ AttemptsRowSound(o)'
  BY <1>1 DEF OnTrack, StepsRowSound, AttemptsRowSound, HasSteps, Prefix, PointsAt, UndoneAbove
<1>8. \A v \in Workers \ {w} : ~Holds(v, o)'
  BY <1>2, OnlyHolder DEF InvocationStep
<1>9. QED
  BY <1>5, <1>6, <1>7, <1>8 DEF OnTrack

LEMMA StartStepOnTrack ==
  ASSUME TypeOK, RunPlaces, NEW w \in Workers, NEW o \in Orders, o = inv[w].order, Sole(o), OnTrack(o),
         StartStep(w)
  PROVE  OnTrack(o)'
<1> DEFINE i == inv[w].i
<1>1. /\ pc[w] = "start" /\ pc'[w] = "exec" /\ i \in Steps
      /\ order'[o].status = order[o].status /\ order'[o].action = order[o].action
      /\ order'[o].attempts = order[o].attempts /\ order'[o].stepNo = i
      /\ steps'[o][i] = "PROCESSING"
      /\ \A k \in Steps \ {i} : steps'[o][k] = steps[o][k]
      /\ UNCHANGED <<inv, completions, undone, mishaps>>
  BY StartStepEffect
<1>2. Holds(w, o) /\ StepsInHand(w, o) /\ AttemptsInHand(w, o)
  BY <1>1, WorkerHolds DEF Working
<1>3. order[o].status = "PROCESSING"
  BY <1>2 DEF Sole
<1>4. inv[w].action = order[o].action /\ inv[w].action \in {"RUN", "ABORT"}
  BY <1>2 DEF StepsInHand, TypeOK, Invocation, Action
<1>5. ASSUME inv[w].action = "RUN" PROVE Prefix(o, i)' /\ PointsAt(o, i)'
  <2>1. Prefix(o, i)
    BY <1>1, <1>2, <1>5 DEF StepsInHand, AtStep
  <2>2. Prefix(o, i)'
    BY <1>1, <2>1 DEF Prefix, Steps
  <2>3. QED
    BY <1>1, <2>2 DEF PointsAt
<1>6. ASSUME inv[w].action = "ABORT" PROVE UndoneAbove(o, i)'
  BY <1>1, <1>2, <1>6 DEF StepsInHand, AtStep, UndoneAbove
<1>7. StepsInHand(w, o)'
  BY <1>1, <1>4, <1>5, <1>6 DEF StepsInHand, Working, AtStep, Ended
<1>8. AttemptsInHand(w, o)'
  BY <1>1, <1>2 DEF AttemptsInHand
<1>9. StepsRowSound(o)'
  <2>1. \A k \in Steps : completions[o][k] \in {0, 1}
    BY DEF OnTrack, StepsRowSound
  <2>2. HasSteps(o)'
    BY <1>1, <1>3 DEF OnTrack, StepsRowSound, HasSteps
  <2>3. i \in 0 .. NumSteps
    BY <1>1, EngineAssumption DEF Steps
  <2>4. order'[o].action = "ABORT" => UndoneAbove(o, order[o].stepNo)'
    BY <1>1, <1>4, <1>6 DEF UndoneAbove
  <2>5. QED
    BY <1>1, <1>3, <1>4, <1>5, <2>1, <2>2, <2>3, <2>4 DEF StepsRowSound
<1>10. AttemptsRowSound(o)'
  BY <1>1 DEF OnTrack, AttemptsRowSound
<1>11. \A v \in Workers \ {w} : ~Holds(v, o)'
  BY <1>2, OnlyHolder DEF InvocationStep
<1>12. QED
  BY <1>7, <1>8, <1>9, <1>10, <1>11 DEF OnTrack

LEMMA StepThrowsOnTrack ==
  ASSUME TypeOK, RunPlaces, NEW w \in Workers, NEW o \in Orders, o = inv[w].order, Sole(o), OnTrack(o),
         StepThrows(w)
  PROVE  OnTrack(o)'
<1>1. /\ pc[w] \in {"start", "exec"} /\ pc'[w] = "failRun"
      /\ UNCHANGED <<order, steps, inv, completions, undone, mishaps>>
  BY StepThrowsEffect
<1>2. Holds(w, o) /\ StepsInHand(w, o) /\ AttemptsInHand(w, o)
  BY <1>1, WorkerHolds DEF Working
<1>3. StepsInHand(w, o)'
  BY <1>1, <1>2 DEF StepsInHand, Working, AtStep, Ended, Prefix, PointsAt, UndoneAbove
<1>4. AttemptsInHand(w, o)'
  BY <1>1, <1>2 DEF AttemptsInHand
<1>5. StepsRowSound(o)' /\ AttemptsRowSound(o)'
  BY <1>1 DEF OnTrack, StepsRowSound, AttemptsRowSound, HasSteps, Prefix, PointsAt, UndoneAbove
<1>6. \A v \in Workers \ {w} : ~Holds(v, o)'
  BY <1>2, OnlyHolder DEF InvocationStep
<1>7. QED
  BY <1>3, <1>4, <1>5, <1>6 DEF OnTrack

LEMMA CompleteStepOnTrack ==
  ASSUME TypeOK, RunPlaces, NEW w \in Workers, NEW o \in Orders, o = inv[w].order, Sole(o), OnTrack(o),
         CompleteStep(w)
  PROVE  OnTrack(o)'
<1>0. PICK i \in Steps : i = inv[w].i
  BY DEF TypeOK, Invocation
<1>1. /\ order'[o].status = order[o].status /\ order'[o].action = order[o].action
      /\ order'[o].attempts = order[o].attempts /\ order'[o].stepNo = NextStep(w)
      /\ steps'[o][i] = "DONE"
      /\ \A j \in Steps \ {i} : steps'[o][j] = steps[o][j]
  BY <1>0, CompleteStepRows
<1>2. \/ /\ inv[w].action = "RUN" /\ undone' = undone
         /\ completions'[o][i] = IF completions[o][i] = 2 THEN 2 ELSE completions[o][i] + 1
         /\ \A j \in Steps \ {i} : completions'[o][j] = completions[o][j]
      \/ /\ inv[w].action = "ABORT" /\ completions' = completions
         /\ undone'[o] = undone[o] \cup {i}
  BY <1>0, CompleteStepHistory
<1>3. /\ pc[w] = "exec"
      /\ inv'[w].order = o /\ inv'[w].read = inv[w].read /\ inv'[w].action = inv[w].action
      /\ inv'[w].run = inv[w].run
      /\ \/ /\ NextStep(w) = NoStep \/ Delays(w)
            /\ pc'[w] = "finishRun" /\ inv'[w].out = Outcome(w) /\ inv'[w].i = i
         \/ /\ NextStep(w) # NoStep /\ ~Delays(w)
            /\ pc'[w] = "start" /\ inv'[w].i = NextStep(w)
  BY <1>0, CompleteStepHand
<1>4. Holds(w, o) /\ StepsInHand(w, o) /\ AttemptsInHand(w, o)
  BY <1>3, WorkerHolds DEF Working
<1>5. order[o].status = "PROCESSING" /\ HasSteps(o) /\ inv[w].action = order[o].action
  BY <1>4 DEF Sole, OnTrack, StepsRowSound, StepsInHand
<1>6. HasSteps(o)'
  BY <1>1, <1>5 DEF HasSteps
<1>7. AttemptsInHand(w, o)'
  BY <1>1, <1>3, <1>4 DEF AttemptsInHand
<1>8. AttemptsRowSound(o)'
  BY <1>1 DEF OnTrack, AttemptsRowSound
<1>9. \A v \in Workers \ {w} : ~Holds(v, o)'
  BY <1>4, OnlyHolder DEF InvocationStep
<1>10. CASE inv[w].action = "RUN"
  <2>1. Prefix(o, i)
    BY <1>0, <1>3, <1>4, <1>10 DEF StepsInHand, AtStep
  <2>2. /\ completions'[o][i] = 1
        /\ \A j \in Steps \ {i} : completions'[o][j] = completions[o][j]
    BY <1>2, <1>10, <2>1 DEF Prefix, Steps
  <2>3. Prefix(o, i + 1)'
    <3>1. ASSUME NEW k \in Steps
          PROVE  /\ k < i + 1 => steps'[o][k] = "DONE" /\ completions'[o][k] = 1
                 /\ k > i + 1 => steps'[o][k] = "PENDING"
                 /\ k >= i + 1 => completions'[o][k] = 0
      BY <1>1, <2>1, <2>2 DEF Prefix, Steps
    <3>2. QED
      BY <3>1 DEF Prefix
  <2>4. IF i < NumSteps - 1 THEN NextStep(w) = i + 1 ELSE NextStep(w) = NoStep /\ i = NumSteps - 1
    BY <1>0, <1>10, EngineAssumption DEF NextStep, Steps
  <2>5. Delays(w) => i < NumSteps - 1
    BY <1>0, EngineAssumption DEF Delays, Steps
  <2>6. i < NumSteps - 1 => i + 1 \in Steps /\ i + 1 # NoStep
    BY EngineAssumption DEF Steps, NoStep
  <2>7. Outcome(w) = IF Delays(w) THEN "PENDING" ELSE "DONE"
    BY <1>10 DEF Outcome
  <2>8. \A k \in Steps : completions'[o][k] \in {0, 1}
    BY <2>2 DEF OnTrack, StepsRowSound
  <2>9. StepsInHand(w, o)'
    <3>1. CASE i < NumSteps - 1 /\ Delays(w)
      <4>1. /\ pc'[w] = "finishRun" /\ inv'[w].out = "PENDING" /\ inv'[w].i = i
            /\ order'[o].stepNo = i + 1 /\ i + 1 \in Steps
        BY <1>1, <1>3, <2>4, <2>6, <2>7, <3>1
      <4>2. QED
        BY <1>1, <1>3, <1>5, <1>10, <2>3, <4>1 DEF StepsInHand, Working, AtStep, Ended
    <3>2. CASE i < NumSteps - 1 /\ ~Delays(w)
      <4>1. /\ pc'[w] = "start" /\ inv'[w].i = i + 1 /\ order'[o].stepNo = i + 1
        BY <1>1, <1>3, <2>4, <2>6, <3>2
      <4>2. QED
        BY <1>1, <1>3, <1>5, <1>10, <2>3, <4>1 DEF StepsInHand, Working, AtStep, Ended, PointsAt
    <3>3. CASE ~(i < NumSteps - 1)
      <4>1. /\ pc'[w] = "finishRun" /\ inv'[w].out = "DONE" /\ order'[o].stepNo = NoStep
            /\ i + 1 = NumSteps
        BY <1>1, <1>3, <2>4, <2>5, <2>7, <3>3, EngineAssumption
      <4>2. Prefix(o, NumSteps)'
        BY <2>3, <4>1
      <4>3. QED
        BY <1>1, <1>3, <1>5, <1>10, <4>1, <4>2 DEF StepsInHand, Working, AtStep, Ended
    <3>4. QED
      BY <3>1, <3>2, <3>3
  <2>10. \E n \in 0 .. NumSteps :
           Prefix(o, n)' /\ (PointsAt(o, n)' \/ (order'[o].stepNo = NoStep /\ n = NumSteps))
    <3>1. i + 1 \in 0 .. NumSteps
      BY EngineAssumption DEF Steps
    <3>2. PointsAt(o, i + 1)' \/ (order'[o].stepNo = NoStep /\ i + 1 = NumSteps)
      BY <1>1, <2>4, EngineAssumption DEF PointsAt
    <3>3. QED
      BY <2>3, <3>1, <3>2
  <2>11. StepsRowSound(o)'
    BY <1>1, <1>5, <1>6, <1>10, <2>8, <2>10 DEF StepsRowSound
  <2>12. QED
    BY <1>7, <1>8, <1>9, <2>9, <2>11 DEF OnTrack
<1>11. CASE inv[w].action = "ABORT"
  <2>1. UndoneAbove(o, i)
    BY <1>0, <1>3, <1>4, <1>11 DEF StepsInHand, AtStep
  <2>2. completions' = completions /\ undone'[o] = undone[o] \cup {i}
    BY <1>2, <1>11
  <2>3. NextStep(w) = i - 1 /\ (i = 0 <=> NextStep(w) = NoStep)
    BY <1>0, <1>11 DEF NextStep, Steps, NoStep
  <2>4. UndoneAbove(o, i - 1)'
    <3>1. ASSUME NEW k \in Steps, completions[o][k] > 0, k > i - 1 PROVE k \in undone'[o]
      <4>1. k = i \/ k > i
        BY <3>1 DEF Steps
      <4>2. QED
        BY <2>1, <2>2, <3>1, <4>1 DEF UndoneAbove
    <3>2. QED
      BY <2>2, <3>1 DEF UndoneAbove
  <2>5. ~Delays(w) /\ Outcome(w) = "ABORTED"
    BY <1>11 DEF Delays, Outcome
  <2>6. i = 0 => UndoneAbove(o, NoStep)'
    BY <2>4 DEF NoStep
  <2>7. StepsInHand(w, o)'
    <3>1. CASE i = 0
      <4>1. pc'[w] = "finishRun" /\ inv'[w].out = "ABORTED"
        BY <1>3, <2>3, <2>5, <3>1
      <4>2. QED
        BY <1>1, <1>3, <1>5, <1>11, <2>6, <3>1, <4>1 DEF StepsInHand, Working, AtStep, Ended
    <3>2. CASE i # 0
      <4>1. pc'[w] = "start" /\ inv'[w].i = i - 1
        BY <1>3, <2>3, <2>5, <3>2
      <4>2. QED
        BY <1>1, <1>3, <1>5, <1>11, <2>4, <4>1 DEF StepsInHand, Working, AtStep, Ended
    <3>3. QED
      BY <3>1, <3>2
  <2>8. UndoneAbove(o, order[o].stepNo)'
    BY <1>1, <2>3, <2>4 DEF UndoneAbove
  <2>9. \A k \in Steps : completions'[o][k] \in {0, 1}
    BY <2>2 DEF OnTrack, StepsRowSound
  <2>10. StepsRowSound(o)'
    BY <1>1, <1>5, <1>6, <1>11, <2>8, <2>9 DEF StepsRowSound
  <2>11. QED
    BY <1>7, <1>8, <1>9, <2>7, <2>10 DEF OnTrack
<1>12. QED
  BY <1>2, <1>10, <1>11

LEMMA FinishRunOnTrack ==
  ASSUME TypeOK, RunPlaces, NEW w \in Workers, NEW o \in Orders, o = inv[w].order, Sole(o), OnTrack(o),
         FinishRun(w)
  PROVE  OnTrack(o)'
<1>1. /\ pc[w] = "finishRun" /\ pc'[w] = "final"
      /\ inv'[w].order = o /\ inv'[w].read = inv[w].read
      /\ inv'[w].action = inv[w].action /\ inv'[w].i = inv[w].i /\ inv'[w].run = "DONE"
      /\ HasSteps(o) => inv'[w].out = inv[w].out
      /\ UNCHANGED <<order, steps, completions, undone, mishaps>>
  BY FinishRunEffect
<1>2. Holds(w, o) /\ StepsInHand(w, o) /\ AttemptsInHand(w, o)
  BY <1>1, WorkerHolds DEF Working
<1>3. inv'[w].out = inv[w].out
  BY <1>1, <1>2 DEF Sole, OnTrack, StepsRowSound
<1>4. StepsInHand(w, o)'
  BY <1>1, <1>2, <1>3 DEF StepsInHand, Working, AtStep, Ended, Prefix, PointsAt, UndoneAbove
<1>5. AttemptsInHand(w, o)'
  BY <1>1, <1>2 DEF AttemptsInHand
<1>6. StepsRowSound(o)' /\ AttemptsRowSound(o)'
  BY <1>1 DEF OnTrack, StepsRowSound, AttemptsRowSound, HasSteps, Prefix, PointsAt, UndoneAbove
<1>7. \A v \in Workers \ {w} : ~Holds(v, o)'
  BY <1>2, OnlyHolder DEF InvocationStep
<1>8. QED
  BY <1>4, <1>5, <1>6, <1>7 DEF OnTrack

LEMMA FailRunOnTrack ==
  ASSUME TypeOK, RunPlaces, NEW w \in Workers, NEW o \in Orders, o = inv[w].order, Sole(o), OnTrack(o),
         FailRun(w)
  PROVE  OnTrack(o)'
<1>1. /\ pc[w] = "failRun" /\ pc'[w] = "final"
      /\ inv'[w].order = o /\ inv'[w].read = inv[w].read
      /\ inv'[w].action = inv[w].action /\ inv'[w].i = inv[w].i /\ inv'[w].run = "ERROR"
      /\ inv'[w].out = IF ShouldRetry(w) THEN "ERROR" ELSE "ABORTED"
      /\ \A k \in Steps : steps'[o][k] = IF steps[o][k] = "PROCESSING" THEN "ERROR" ELSE steps[o][k]
      /\ UNCHANGED <<order, completions, undone, mishaps>>
  BY FailRunEffect
<1>2. Holds(w, o) /\ StepsInHand(w, o) /\ AttemptsInHand(w, o)
  BY <1>1, WorkerHolds DEF Working
<1>3. order[o].status = "PROCESSING"
  BY <1>2 DEF Sole
<1>4. \A n : Prefix(o, n) => Prefix(o, n)'
  BY <1>1 DEF Prefix
<1>5. \A n : (PointsAt(o, n) => PointsAt(o, n)') /\ (UndoneAbove(o, n) => UndoneAbove(o, n)')
  BY <1>1 DEF PointsAt, UndoneAbove
<1>6. StepsInHand(w, o)'
  <2>1. AtStep(w) /\ AtStep(w)' /\ ~Ended(w)'
    BY <1>1 DEF AtStep, Ended
  <2>2. PICK i : i = inv[w].i
    OBVIOUS
  <2>3. inv[w].action = "RUN" => Prefix(o, i)' /\ PointsAt(o, i)'
    BY <1>2, <1>4, <1>5, <2>1, <2>2 DEF StepsInHand
  <2>4. inv[w].action = "ABORT" => UndoneAbove(o, i)'
    BY <1>2, <1>5, <2>1, <2>2 DEF StepsInHand
  <2>5. QED
    BY <1>1, <1>2, <2>1, <2>2, <2>3, <2>4 DEF StepsInHand, Working
<1>7. AttemptsInHand(w, o)'
  BY <1>1, <1>2 DEF AttemptsInHand, ShouldRetry
<1>8. StepsRowSound(o)'
  <2>1. HasSteps(o)'
    BY <1>1, <1>3 DEF OnTrack, StepsRowSound, HasSteps
  <2>2. order[o].action = "RUN" => \E n \in 0 .. NumSteps :
          Prefix(o, n)' /\ (PointsAt(o, n)' \/ (order'[o].stepNo = NoStep /\ n = NumSteps))
    BY <1>1, <1>3, <1>4, <1>5 DEF OnTrack, StepsRowSound
  <2>3. order[o].action = "ABORT" => UndoneAbove(o, order[o].stepNo)'
    BY <1>1, <1>3 DEF OnTrack, StepsRowSound, UndoneAbove
  <2>4. QED
    BY <1>1, <1>3, <2>1, <2>2, <2>3 DEF OnTrack, StepsRowSound
<1>9. AttemptsRowSound(o)'
  BY <1>1 DEF OnTrack, AttemptsRowSound
<1>10. \A v \in Workers \ {w} : ~Holds(v, o)'
  BY <1>2, OnlyHolder DEF InvocationStep
<1>11. QED
  BY <1>6, <1>7, <1>8, <1>9, <1>10 DEF OnTrack

LEMMA FinalUpdateOnTrack ==
  ASSUME TypeOK, RunPlaces, ReadsFit, NEW w \in Workers, NEW o \in Orders, o = inv[w].order, Sole(o), OnTrack(o),
         FinalUpdate(w)
  PROVE  OnTrack(o)'
<1> DEFINE out == inv[w].out
<1>1. /\ pc[w] = "final" /\ pc'[w] = "idle" /\ order[o].status = "PROCESSING"
      /\ order'[o].status = out /\ order'[o].action = order[o].action
      /\ order'[o].stepNo = order[o].stepNo
      /\ order'[o].attempts = AttemptsAfter(o, out)
      /\ out \notin FinalStati => steps'[o] = steps[o]
      /\ UNCHANGED <<completions, undone, mishaps>>
  BY FinalUpdateEffect
<1>2. Holds(w, o) /\ StepsInHand(w, o) /\ AttemptsInHand(w, o)
  BY <1>1, WorkerHolds DEF Working
<1>3. /\ inv[w].action = order[o].action /\ inv[w].action \in {"RUN", "ABORT"}
      /\ inv[w].run \in {"DONE", "ERROR"} /\ inv[w].i \in Steps
      /\ out \in {"PENDING", "ERROR", "DONE", "ABORTED"}
  BY <1>1, <1>2 DEF StepsInHand, TypeOK, Invocation, Action
<1>4. \A v \in Workers : ~Holds(v, o)'
  <2>1. \A v \in Workers \ {w} : ~Holds(v, o)'
    BY <1>2, OnlyHolder DEF InvocationStep
  <2>2. QED
    BY <1>1, <2>1 DEF Holds
<1>5. HasSteps(o) /\ \A k \in Steps : completions[o][k] \in {0, 1}
  BY <1>1 DEF OnTrack, StepsRowSound
<1>6. inv[w].action = "RUN" =>
        \/ /\ out \in {"PENDING", "ERROR", "ABORTED"}
           /\ \E n \in Steps : Prefix(o, n) /\ PointsAt(o, n)
        \/ out = "DONE" /\ \A k \in Steps : completions[o][k] = 1
  <2>1. CASE inv[w].run = "ERROR"
    <3>1. AtStep(w)
      BY <1>1, <2>1 DEF AtStep
    <3>2. out \in {"ERROR", "ABORTED"}
      BY <1>1, <1>2, <2>1 DEF AttemptsInHand
    <3>3. QED
      BY <1>2, <1>3, <3>1, <3>2 DEF StepsInHand
  <2>2. CASE inv[w].run = "DONE"
    <3>1. Ended(w)
      BY <1>1, <2>2 DEF Ended
    <3>2. Prefix(o, NumSteps) => \A k \in Steps : completions[o][k] = 1
      BY EngineAssumption DEF Prefix, Steps
    <3>3. QED
      BY <1>2, <3>1, <3>2 DEF StepsInHand, PointsAt
  <2>3. QED
    BY <1>3, <2>1, <2>2
<1>7. inv[w].action = "ABORT" => out \in {"ERROR", "ABORTED"} /\ UndoneAbove(o, order[o].stepNo)
  <2>1. inv[w].action = "ABORT" => UndoneAbove(o, order[o].stepNo)
    BY <1>1, <1>3 DEF OnTrack, StepsRowSound
  <2>2. inv[w].action = "ABORT" => out \in {"ERROR", "ABORTED"}
    BY <1>1, <1>2, <1>3 DEF StepsInHand, AttemptsInHand, Ended
  <2>3. QED
    BY <2>1, <2>2
<1>8. StepsRowSound(o)'
  <2>1. out \notin FinalStati => HasSteps(o)'
    BY <1>1, <1>5 DEF HasSteps
  <2>2. ASSUME out \in {"PENDING", "ERROR"}, order[o].action = "RUN"
        PROVE  \E n \in Steps : Prefix(o, n)' /\ PointsAt(o, n)'
    <3>1. PICK n \in Steps : Prefix(o, n) /\ PointsAt(o, n)
      BY <1>3, <1>6, <2>2
    <3>2. steps'[o] = steps[o]
      BY <1>1, <2>2 DEF FinalStati
    <3>3. QED
      BY <1>1, <3>1, <3>2 DEF Prefix, PointsAt
  <2>3. order[o].action = "ABORT" => UndoneAbove(o, order[o].stepNo)'
    BY <1>1, <1>3, <1>7 DEF UndoneAbove
  <2>4. out = "DONE" => \A k \in Steps : completions[o][k] = 1
    BY <1>3, <1>6, <1>7
  <2>5. QED
    BY <1>1, <1>3, <1>5, <2>1, <2>2, <2>3, <2>4 DEF StepsRowSound, FinalStati
<1>9. AttemptsRowSound(o)'
  <2> DEFINE r == inv[w].read.attempts
  <2>1. /\ r \in 0 .. NumRetries
        /\ order[o].attempts = IF inv[w].read.action = inv[w].action THEN r + 1 ELSE 0
        /\ order[o].attempts \in 0 .. NumRetries + 1
    BY <1>2 DEF AttemptsInHand, OnTrack, AttemptsRowSound
  <2>2. ShouldRetry(w) <=> r \in 0 .. NumRetries - 1
    BY DEF ShouldRetry
  <2>3. inv[w].action = "RUN" => inv[w].read.action = "RUN"
    BY <1>1 DEF ReadsFit
  <2>4. CASE out = "PENDING"
    <3>1. order'[o].attempts = order[o].attempts - 1 /\ inv[w].action = "RUN"
      BY <1>1, <1>3, <1>7, <2>4 DEF AttemptsAfter
    <3>2. order'[o].attempts = r
      BY <2>1, <2>3, <3>1
    <3>3. QED
      BY <1>1, <2>1, <2>4, <3>2, EngineAssumption DEF AttemptsRowSound
  <2>5. CASE out # "PENDING"
    <3>1. order'[o].attempts = order[o].attempts
      BY <1>1, <2>5 DEF AttemptsAfter
    <3>2. out = "ERROR" => order[o].attempts \in 0 .. NumRetries
      <4>1. out = "ERROR" => ShouldRetry(w)
        BY <1>1, <1>2, <1>3 DEF StepsInHand, AttemptsInHand, Ended
      <4>2. QED
        BY <2>1, <2>2, <4>1, EngineAssumption
    <3>3. out = "ABORTED" /\ inv[w].action = "RUN" => order[o].attempts = NumRetries + 1
      <4>1. out = "ABORTED" /\ inv[w].action = "RUN" => ~ShouldRetry(w)
        BY <1>1, <1>2, <1>3 DEF StepsInHand, AttemptsInHand, Ended
      <4>2. QED
        BY <2>1, <2>2, <2>3, <4>1, EngineAssumption
    <3>4. QED
      BY <1>1, <1>3, <2>1, <2>5, <3>1, <3>2, <3>3 DEF AttemptsRowSound, FinalStati
  <2>6. QED
    BY <2>4, <2>5
<1>10. QED
  BY <1>4, <1>8, <1>9 DEF OnTrack

(* The holder of an order that is not derailed is never in the outer catch, *)
(* and whoever else is there finds the order already given back.            *)
LEMMA OuterLeavesAlone ==
  ASSUME TypeOK, RunPlaces, NEW w \in Workers, NEW o \in Orders, o = inv[w].order, Sole(o), OnTrack(o),
         \/ ClaimFails(w) \/ FinalUpdateFails(w) \/ OuterCatch(w) \/ OuterCatchThrows(w) \/ Fault(w),
         Spared(o, Derailing)'
  PROVE  OnTrack(o)'
<1>1. CASE ClaimFails(w)
  <2>1. ~Holds(w, o) /\ ~Holds(w, o)' /\ UNCHANGED <<order, steps, completions, undone>>
    BY <1>1 DEF ClaimFails, RunPlaces, Holds, rows, history
  <2>2. \A v \in Workers \ {w} : pc'[v] = pc[v] /\ inv'[v] = inv[v]
    BY <1>1, OneInvocation DEF InvocationStep
  <2>3. QED
    BY <2>1, <2>2, LeftAlone DEF Holds
<1>2. CASE FinalUpdateFails(w)
  <2>1. pc[w] = "final" /\ order[o].status # "PROCESSING"
    BY <1>2 DEF FinalUpdateFails
  <2>2. QED
    BY <2>1, WorkerHolds DEF Working, Sole
<1>3. CASE OuterCatch(w)
  <2>1. pc[w] = "outer" /\ inv[w].run # "none"
    BY <1>3, OuterCatchEffect DEF Spared, Derailing, Overlapping
  <2>2. Holds(w, o)
    BY <2>1 DEF Holds
  <2>3. QED
    BY <2>1, <2>2 DEF OnTrack, StepsInHand, Working
<1>4. CASE OuterCatchThrows(w)
  <2>1. ~Holds(w, o)' /\ UNCHANGED <<order, steps, completions, undone>>
    BY <1>4 DEF OuterCatchThrows, Return, Holds, TypeOK, rows, history
  <2>2. \A v \in Workers \ {w} : pc'[v] = pc[v] /\ inv'[v] = inv[v]
    BY <1>4, OneInvocation DEF InvocationStep
  <2>3. QED
    BY <2>1, <2>2, LeftAlone DEF Holds
<1>5. CASE Fault(w)
  <2>1. "fault" \in mishaps'[o]
    BY <1>5 DEF Fault, Suffer, TypeOK
  <2>2. QED
    BY <2>1 DEF Spared, Derailing
<1>6. QED
  BY <1>1, <1>2, <1>3, <1>4, <1>5

LEMMA NextOnTrack ==
  ASSUME TypeOK, RunPlaces, ReadsFit, [Next]_vars, NEW o \in Orders, Sole(o), OnTrack(o),
         Spared(o, Derailing)'
  PROVE  OnTrack(o)'
<1>1. ASSUME NEW p \in Orders, p # o,
             \/ ConfirmDraft(p) \/ ProcessConfirmed(p) \/ TimePasses(p)
             \/ AbortDirectly(p) \/ RetryUpdate(p)
      PROVE  OnTrack(o)'
  <2>1. /\ order'[o] = order[o] /\ steps'[o] = steps[o]
        /\ UNCHANGED <<completions, undone, pc, inv>>
    BY <1>1, RowSteps
    DEF ConfirmDraft, ProcessConfirmed, TimePasses, AbortDirectly, RetryUpdate, history, TypeOK
  <2>2. QED
    BY <2>1, LeftAlone DEF Holds
<1>2. CASE ConfirmDraft(o) \/ ProcessConfirmed(o) \/ TimePasses(o) \/ AbortDirectly(o)
  BY <1>2, ConfirmOnTrack, ProcessConfirmedOnTrack, TimeOnTrack, AbortDirectlyOnTrack
<1>3. CASE RetryUpdate(o)
  <2>1. "retry" \in mishaps'[o]
    BY <1>3 DEF RetryUpdate, Suffer, TypeOK
  <2>2. QED
    BY <2>1 DEF Spared, Derailing, Overlapping
<1>4. ASSUME NEW p \in Orders, Retry(p) PROVE OnTrack(o)'
  <2>1. UNCHANGED <<order, steps, completions, undone, pc, inv>>
    BY <1>4 DEF Retry, rows, history
  <2>2. QED
    BY <2>1, LeftAlone DEF Holds
<1>5. ASSUME NEW w \in Workers, NEW p \in Orders, Pick(w, p) \/ Abort(w, p) PROVE OnTrack(o)'
  <2>1. ~Holds(w, o)'
    BY <1>5 DEF Pick, Abort, Begin, IdleInv, Holds, TypeOK
  <2>2. \A v \in Workers \ {w} : pc'[v] = pc[v] /\ inv'[v] = inv[v]
    BY <1>5 DEF Pick, Abort, Begin, Goto, TypeOK
  <2>3. UNCHANGED <<order, steps, completions, undone>>
    BY <1>5 DEF Pick, Abort, Begin, rows, history
  <2>4. QED
    BY <2>1, <2>2, <2>3, LeftAlone DEF Holds
<1>6. ASSUME NEW w \in Workers, InvocationStep(w) \/ Fault(w), inv[w].order # o PROVE OnTrack(o)'
  <2>1. /\ order'[o] = order[o] /\ steps'[o] = steps[o]
        /\ completions'[o] = completions[o] /\ undone'[o] = undone[o]
    BY <1>6, OtherOrders
  <2>2. \A v \in Workers \ {w} : pc'[v] = pc[v] /\ inv'[v] = inv[v]
    BY <1>6, OneInvocation
  <2>3. pc'[w] = "idle" \/ inv'[w].order = inv[w].order
    <3>1. CASE Claim(w) \/ CreateRun(w) \/ CompleteStep(w) \/ FinishRun(w) \/ FailRun(w)
      BY <3>1, <1>6, OneInvocation, ClaimEffect, CreateRunEffect, CompleteStepHand, FinishRunEffect,
         FailRunEffect
    <3>2. QED
      BY <1>6, <3>1
      DEF InvocationStep, ClaimFails, StartStep, StepThrows, FinalUpdate, FinalUpdateFails,
          OuterCatch, OuterCatchThrows, Fault, Return, TypeOK
  <2>4. ~Holds(w, o)'
    BY <1>6, <2>3 DEF Holds
  <2>5. QED
    BY <2>1, <2>2, <2>4, LeftAlone DEF Holds
<1>7. ASSUME NEW w \in Workers, InvocationStep(w) \/ Fault(w), inv[w].order = o PROVE OnTrack(o)'
  <2>1. CASE Claim(w) \/ CreateRun(w) \/ StartStep(w)
    BY <1>7, <2>1, ClaimOnTrack, CreateRunOnTrack, StartStepOnTrack
  <2>2. CASE CompleteStep(w) \/ StepThrows(w) \/ FinishRun(w)
    BY <1>7, <2>2, CompleteStepOnTrack, StepThrowsOnTrack, FinishRunOnTrack
  <2>3. CASE FailRun(w) \/ FinalUpdate(w)
    BY <1>7, <2>3, FailRunOnTrack, FinalUpdateOnTrack
  <2>4. CASE \/ ClaimFails(w) \/ FinalUpdateFails(w) \/ OuterCatch(w) \/ OuterCatchThrows(w)
             \/ Fault(w)
    BY <1>7, <2>4, OuterLeavesAlone
  <2>5. QED
    BY <1>7, <2>1, <2>2, <2>3, <2>4 DEF InvocationStep
<1>8. ASSUME NEW W \in SUBSET Workers, Crash(W) PROVE OnTrack(o)'
  <2>1. \A v \in Workers : pc'[v] = "idle" \/ (pc'[v] = pc[v] /\ inv'[v] = inv[v])
    BY <1>8 DEF Crash
  <2>2. UNCHANGED <<order, steps, completions, undone>>
    BY <1>8 DEF Crash, rows, history
  <2>3. QED
    BY <2>1, <2>2, LeftAlone DEF Holds
<1>9. CASE UNCHANGED vars
  <2>1. UNCHANGED <<order, steps, completions, undone, pc, inv>>
    BY <1>9 DEF vars
  <2>2. QED
    BY <2>1, LeftAlone DEF Holds
<1>10. QED
  BY <1>1, <1>2, <1>3, <1>4, <1>5, <1>6, <1>7, <1>8, <1>9 DEF Next

LEMMA InitTrack == Init => TrackInv
<1> SUFFICES ASSUME Init PROVE TrackInv
  OBVIOUS
<1>1. ExclusionInv /\ \A w \in Workers : pc[w] = "idle"
  BY InitExclusion DEF Init
<1>2. ASSUME NEW o \in Orders PROVE OnTrack(o)
  <2>1. /\ order[o].status \in {"DRAFT", "CONFIRMED"} /\ order[o].action = "RUN"
        /\ order[o].stepNo = NoStep /\ order[o].attempts = 0
        /\ \A k \in Steps : completions[o][k] = 0 /\ steps[o][k] = "ABSENT"
    BY DEF Init
  <2>2. StepsRowSound(o) /\ AttemptsRowSound(o)
    BY <2>1, EngineAssumption DEF StepsRowSound, AttemptsRowSound
  <2>3. QED
    BY <1>1, <2>2 DEF OnTrack, Holds
<1>3. QED
  BY <1>1, <1>2 DEF TrackInv, ReadsFit

LEMMA NextTrack == TrackInv /\ [Next]_vars => TrackInv'
<1> SUFFICES ASSUME TrackInv, [Next]_vars PROVE TrackInv'
  OBVIOUS
<1>1. ExclusionInv /\ TypeOK /\ RunPlaces /\ ReadsFit
  BY DEF TrackInv, ExclusionInv
<1>2. ExclusionInv' /\ ReadsFit'
  BY <1>1, NextExclusion, NextReadsFit
<1>3. ASSUME NEW o \in Orders, Spared(o, Derailing)' PROVE OnTrack(o)'
  <2>1. Spared(o, Derailing) /\ Spared(o, Overlapping)
    BY <1>1, <1>3, SparedBefore DEF Spared, Derailing
  <2>2. Sole(o) /\ OnTrack(o)
    BY <2>1 DEF TrackInv, ExclusionInv, HeldIsProcessing, Exclusive, Sole
  <2>3. QED
    BY <1>1, <1>3, <2>2, NextOnTrack
<1>4. QED
  BY <1>2, <1>3 DEF TrackInv

LEMMA TrackAlways == Spec => []TrackInv
BY InitTrack, NextTrack, PTL DEF Spec

(* Unless an order is derailed, no step's run is recorded twice, an order  *)
(* that is DONE recorded each, and an abort that reports success has       *)
(* undone all that was recorded.                                           *)
THEOREM StepsExact == Spec => []StepsAreExact
<1>1. TrackInv => ExactlyOnce
  BY DEF TrackInv, ExactlyOnce, OnTrack, StepsRowSound
<1>2. TrackInv => AbortUndoesAll
  <2> SUFFICES ASSUME TrackInv, NEW w \in Workers, NEW o \in Orders, o = inv[w].order,
                      pc[w] = "final", inv[w].out = "ABORTED", inv[w].run = "DONE",
                      Spared(o, Derailing), NEW k \in Steps, completions[o][k] > 0
               PROVE  k \in undone[o]
    BY DEF TrackInv, ExclusionInv, TypeOK, AbortUndoesAll
  <2>1. StepsInHand(w, o) /\ Ended(w)
    BY WorkerHolds DEF TrackInv, ExclusionInv, Working, Ended
  <2>2. inv[w].action = "ABORT"
    BY <2>1 DEF StepsInHand, TrackInv, ExclusionInv, TypeOK, Invocation, Action
  <2>3. k > NoStep
    BY EngineAssumption DEF Steps, NoStep
  <2>4. QED
    BY <2>1, <2>2, <2>3 DEF StepsInHand, UndoneAbove
<1>3. QED
  BY <1>1, <1>2, TrackAlways, PTL DEF StepsAreExact

(* Unless it is derailed, the rows of an order that runs are a prefix of   *)
(* completed steps with stepNo behind it, and the order is given up in     *)
(* action RUN exactly when the first run and all the retries have failed.  *)
THEOREM ProgressSound == Spec => []ProgressIsSound
<1>1. TrackInv => ProgressIsPrefix
  <2> SUFFICES ASSUME TrackInv, NEW o \in Orders, Spared(o, Derailing), order[o].action = "RUN",
                      HasSteps(o), order[o].status \notin FinalStati
               PROVE  \E n \in 0 .. NumSteps :
                        /\ Prefix(o, n)
                        /\ order[o].stepNo = n \/ (order[o].stepNo = NoStep /\ n \in {0, NumSteps})
    BY DEF ProgressIsPrefix, Prefix
  <2>1. StepsRowSound(o)
    BY DEF TrackInv, OnTrack
  <2>2. order[o].status \in {"PENDING", "ERROR", "PROCESSING"}
    BY <2>1, NotUnstarted DEF StepsRowSound, TrackInv, ExclusionInv, TypeOK, OrderRow, Status, FinalStati
  <2>3. Steps \subseteq 0 .. NumSteps
    BY EngineAssumption DEF Steps
  <2>4. QED
    BY <2>1, <2>2, <2>3 DEF StepsRowSound, PointsAt
<1>2. TrackInv => GivesUpWhenExhausted
  BY DEF TrackInv, GivesUpWhenExhausted, OnTrack, AttemptsRowSound
<1>3. QED
  BY <1>1, <1>2, TrackAlways, PTL DEF ProgressIsSound

-----------------------------------------------------------------------------
(***************************************************************************)
(* OrderEngine implements OrderLifecycle.  Each step of the engine is a    *)
(* step of one order's life (LocalStep) and leaves the others' alone.      *)
(***************************************************************************)
Recorded(o) == {k \in Steps : completions[o][k] > 0}

OthersKeep(o) ==
  \A p \in Orders \ {o} : /\ PhaseOf(p)' = PhaseOf(p)
                          /\ Recorded(p)' = Recorded(p)
                          /\ undone'[p] = undone[p]

StepsKept(o) == Recorded(o)' = Recorded(o) /\ undone'[o] = undone[o]

Moves(o, from, to) == PhaseOf(o) \in from /\ PhaseOf(o)' = to /\ StepsKept(o)

LocalStep(o) ==
  \/ PhaseOf(o)' = "derailed"
  \/ PhaseOf(o)' = PhaseOf(o) /\ StepsKept(o)
  \/ Moves(o, {"draft"}, "accepted")
  \/ Recorded(o) = Steps /\ Moves(o, {"accepted"}, "done")
  \/ Moves(o, {"accepted", "reverting"}, "aborted")
  \/ Recorded(o) = {} /\ Moves(o, {"draft", "accepted"}, "aborted")
  \/ Moves(o, {"accepted"}, "reverting")
  \/ \E k \in Steps : /\ PhaseOf(o) = "accepted" /\ PhaseOf(o)' = "accepted"
                      /\ Recorded(o) = {j \in Steps : j < k}
                      /\ Recorded(o)' = Recorded(o) \cup {k}
                      /\ undone'[o] = undone[o]
  \/ \E k \in Steps : /\ PhaseOf(o) = "reverting" /\ PhaseOf(o)' = "reverting"
                      /\ {j \in Recorded(o) : j > k} \subseteq undone[o]
                      /\ undone'[o] = undone[o] \cup {k}
                      /\ Recorded(o)' = Recorded(o)

(* The variables of OrderLifecycle after a step that only order o takes *)
LEMMA MappedStep ==
  ASSUME TypeOK, TypeOK', NEW o \in Orders, OthersKeep(o)
  PROVE  /\ [p \in Orders |-> PhaseOf(p)]' = [[p \in Orders |-> PhaseOf(p)] EXCEPT ![o] = PhaseOf(o)']
         /\ [p \in Orders |-> {k \in Steps : completions[p][k] > 0}]' =
              [[p \in Orders |-> {k \in Steps : completions[p][k] > 0}] EXCEPT ![o] = Recorded(o)']
         /\ undone' = [undone EXCEPT ![o] = undone'[o]]
         /\ Recorded(o)' \in SUBSET Steps /\ undone'[o] \in SUBSET Steps
<1>1. [p \in Orders |-> PhaseOf(p)]' = [[p \in Orders |-> PhaseOf(p)] EXCEPT ![o] = PhaseOf(o)']
  BY DEF OthersKeep
<1>2. [p \in Orders |-> {k \in Steps : completions[p][k] > 0}]' =
        [[p \in Orders |-> {k \in Steps : completions[p][k] > 0}] EXCEPT ![o] = Recorded(o)']
  BY DEF OthersKeep, Recorded
<1>3. undone' = [undone EXCEPT ![o] = undone'[o]]
  <2>1. \A p \in Orders : undone'[p] = [undone EXCEPT ![o] = undone'[o]][p]
    BY DEF OthersKeep, TypeOK
  <2>2. undone' \in [Orders -> SUBSET Steps] /\ undone \in [Orders -> SUBSET Steps]
    BY DEF TypeOK
  <2>3. QED
    BY <2>1, <2>2
<1>4. Recorded(o)' \in SUBSET Steps /\ undone'[o] \in SUBSET Steps
  BY DEF Recorded, TypeOK
<1>5. QED
  BY <1>1, <1>2, <1>3, <1>4

LEMMA LocalStepIsStep ==
  ASSUME TypeOK, TypeOK', NEW o \in Orders, OthersKeep(o), LocalStep(o)
  PROVE  [Lifecycle!Next]_(Lifecycle!lifecycleVars)
<1>1. PICK P, Q, R, S, to, rec, und :
        /\ P = [p \in Orders |-> PhaseOf(p)] /\ Q = [p \in Orders |-> PhaseOf(p)]'
        /\ R = [p \in Orders |-> {k \in Steps : completions[p][k] > 0}]
        /\ S = [p \in Orders |-> {k \in Steps : completions[p][k] > 0}]'
        /\ to = PhaseOf(o)' /\ rec = Recorded(o)' /\ und = undone'[o]
  OBVIOUS
<1>2. /\ Q = [P EXCEPT ![o] = to] /\ S = [R EXCEPT ![o] = rec]
      /\ undone' = [undone EXCEPT ![o] = und]
      /\ rec \in SUBSET Steps /\ und \in SUBSET Steps
  BY <1>1, MappedStep
<1>3. P[o] = PhaseOf(o) /\ R[o] = Recorded(o)
  BY <1>1 DEF Recorded
<1>4. Steps = Lifecycle!Steps
  BY DEF Steps, Lifecycle!Steps
<1>5. /\ rec = Recorded(o) => S = R
      /\ und = undone[o] => undone' = undone
      /\ to = PhaseOf(o) => Q = P
  <2>1. \A f, e : f = [p \in Orders |-> f[p]] /\ e = f[o] => [f EXCEPT ![o] = e] = f
    OBVIOUS
  <2>2. P = [p \in Orders |-> P[p]] /\ R = [p \in Orders |-> R[p]] /\ undone = [p \in Orders |-> undone[p]]
    BY <1>1 DEF TypeOK
  <2>3. QED
    BY <1>2, <1>3, <2>1, <2>2
<1>6. CASE to = "derailed"
  <2>1. Lifecycle!Derail(o)
    BY <1>1, <1>2, <1>4, <1>6 DEF Lifecycle!Derail
  <2>2. QED
    BY <2>1 DEF Lifecycle!Next
<1>7. CASE to = PhaseOf(o) /\ StepsKept(o)
  BY <1>1, <1>5, <1>7 DEF StepsKept, Lifecycle!lifecycleVars
<1>8. ASSUME NEW from, Moves(o, from, to) PROVE Lifecycle!Move(o, from, to)
  BY <1>1, <1>2, <1>3, <1>5, <1>8 DEF Moves, StepsKept, Lifecycle!Move
<1>9. CASE \/ Moves(o, {"draft"}, "accepted")
           \/ Recorded(o) = Steps /\ Moves(o, {"accepted"}, "done")
           \/ Moves(o, {"accepted", "reverting"}, "aborted")
           \/ Recorded(o) = {} /\ Moves(o, {"draft", "accepted"}, "aborted")
           \/ Moves(o, {"accepted"}, "reverting")
  <2>1. \A from, t : Moves(o, from, t) => Lifecycle!Move(o, from, t)
    BY <1>1, <1>8 DEF Moves
  <2>2. \/ Lifecycle!Accept(o) \/ Lifecycle!Complete(o) \/ Lifecycle!GiveUp(o)
        \/ Lifecycle!AbortUnstarted(o) \/ Lifecycle!StartReverting(o)
    BY <1>1, <1>3, <1>4, <1>9, <2>1
    DEF Lifecycle!Accept, Lifecycle!Complete, Lifecycle!GiveUp, Lifecycle!AbortUnstarted,
        Lifecycle!StartReverting
  <2>3. QED
    BY <2>2 DEF Lifecycle!Next
<1>10. ASSUME NEW k \in Steps,
              PhaseOf(o) = "accepted", PhaseOf(o)' = "accepted",
              Recorded(o) = {j \in Steps : j < k}, Recorded(o)' = Recorded(o) \cup {k},
              undone'[o] = undone[o]
       PROVE  Lifecycle!Next
  <2>1. Lifecycle!Advance(o, k)
    BY <1>1, <1>2, <1>3, <1>4, <1>5, <1>10 DEF Lifecycle!Advance
  <2>2. QED
    BY <1>4, <2>1 DEF Lifecycle!Next
<1>11. ASSUME NEW k \in Steps,
              PhaseOf(o) = "reverting", PhaseOf(o)' = "reverting",
              {j \in Recorded(o) : j > k} \subseteq undone[o], undone'[o] = undone[o] \cup {k},
              Recorded(o)' = Recorded(o)
       PROVE  Lifecycle!Next
  <2>1. Lifecycle!Undo(o, k)
    BY <1>1, <1>2, <1>3, <1>4, <1>5, <1>11 DEF Lifecycle!Undo
  <2>2. QED
    BY <1>4, <2>1 DEF Lifecycle!Next
<1>12. QED
  BY <1>1, <1>6, <1>7, <1>9, <1>10, <1>11 DEF LocalStep

(* Who leaves an order's status, action and history alone leaves its phase. *)
LEMMA SamePhase ==
  ASSUME NEW p \in Orders, order'[p].status = order[p].status, order'[p].action = order[p].action,
         mishaps'[p] = mishaps[p]
  PROVE  PhaseOf(p)' = PhaseOf(p)
BY DEF PhaseOf, Spared

LEMMA SameRow ==
  ASSUME NEW p \in Orders, order'[p] = order[p], mishaps'[p] = mishaps[p],
         completions'[p] = completions[p], undone'[p] = undone[p]
  PROVE  PhaseOf(p)' = PhaseOf(p) /\ Recorded(p)' = Recorded(p) /\ undone'[p] = undone[p]
BY DEF PhaseOf, Spared, Recorded

(* An order that is derailed stays so. *)
LEMMA DerailedStays ==
  ASSUME TypeOK, [Next]_vars, NEW o \in Orders, PhaseOf(o) = "derailed" \/ ~Spared(o, Derailing)
  PROVE  PhaseOf(o)' = "derailed"
<1>1. ~Spared(o, Derailing)
  BY DEF PhaseOf
<1>2. ~Spared(o, Derailing)'
  BY <1>1, MishapsGrow DEF Spared
<1>3. QED
  BY <1>2 DEF PhaseOf

(* The phase of an order that is not derailed *)
LEMMA SparedPhase ==
  ASSUME NEW o \in Orders, Spared(o, Derailing)
  PROVE  /\ order[o].status = "DRAFT" => PhaseOf(o) = "draft"
         /\ order[o].status = "DONE" => PhaseOf(o) = "done"
         /\ order[o].status = "ABORTED" => PhaseOf(o) = "aborted"
         /\ order[o].status \in {"CONFIRMED", "PENDING", "PROCESSING", "ERROR"} =>
              PhaseOf(o) = IF order[o].action = "ABORT" THEN "reverting" ELSE "accepted"
BY DEF PhaseOf

(* What a step on order o leaves alone *)
LEMMA StepKeepsOthers ==
  ASSUME TypeOK, NEW w \in Workers, InvocationStep(w) \/ Fault(w), NEW o \in Orders, o = inv[w].order
  PROVE  OthersKeep(o)
BY OtherOrders, SameRow DEF OthersKeep

LEMMA WorkerLocalStep ==
  ASSUME TrackInv, TrackInv', [Next]_vars, NEW w \in Workers, InvocationStep(w) \/ Fault(w),
         NEW o \in Orders, o = inv[w].order
  PROVE  LocalStep(o)
<1>1. TypeOK /\ RunPlaces /\ ReadsFit
  BY DEF TrackInv, ExclusionInv
<1>2. CASE ~Spared(o, Derailing)'
  BY <1>2 DEF PhaseOf, LocalStep
<1>3. CASE Spared(o, Derailing)'
  <2>1. Spared(o, Derailing) /\ OnTrack(o) /\ Sole(o)
    <3>1. Spared(o, Derailing) /\ Spared(o, Overlapping)
      BY <1>1, <1>3, SparedBefore DEF Spared, Derailing
    <3>2. QED
      BY <3>1 DEF TrackInv, ExclusionInv, HeldIsProcessing, Exclusive, Sole
  <2>2. CASE Claim(w)
    <3>1. /\ order[o].status = inv[w].read.status /\ order'[o].status = "PROCESSING"
          /\ order'[o].action = inv[w].action /\ pc[w] = "claim"
          /\ mishaps'[o] = mishaps[o] \cup ClaimMishaps(w, order[o])
          /\ UNCHANGED <<completions, undone>>
      BY <1>1, <2>2, ClaimEffect
    <3>2. order[o].status \in {"PENDING", "PROCESSING", "ERROR"}
      BY <1>1, <3>1 DEF ReadsFit
    <3>3. order[o].action = inv[w].read.action
      BY <1>3, <3>1 DEF Spared, Derailing, ClaimMishaps
    <3>4. inv[w].action = "RUN" => order[o].action = "RUN"
      BY <1>1, <3>1, <3>3 DEF ReadsFit
    <3>5. inv[w].action \in {"RUN", "ABORT"}
      BY <1>1 DEF TypeOK, Invocation, Action
    <3>6. PhaseOf(o) = IF order[o].action = "ABORT" THEN "reverting" ELSE "accepted"
      BY <2>1, <3>2, SparedPhase
    <3>7. PhaseOf(o)' = IF inv[w].action = "ABORT" THEN "reverting" ELSE "accepted"
      BY <1>3, <3>1 DEF PhaseOf
    <3>8. StepsKept(o)
      BY <3>1 DEF StepsKept, Recorded
    <3>9. QED
      BY <3>4, <3>5, <3>6, <3>7, <3>8 DEF LocalStep, Moves
  <2>3. CASE CompleteStep(w)
    <3>0. PICK i \in Steps : i = inv[w].i
      BY <1>1 DEF TypeOK, Invocation
    <3>1. /\ order'[o].status = order[o].status /\ order'[o].action = order[o].action
          /\ mishaps' = mishaps
      BY <1>1, <2>3, <3>0, CompleteStepRows
    <3>2. \/ /\ inv[w].action = "RUN" /\ undone' = undone
             /\ completions'[o][i] = IF completions[o][i] = 2 THEN 2 ELSE completions[o][i] + 1
             /\ \A j \in Steps \ {i} : completions'[o][j] = completions[o][j]
          \/ /\ inv[w].action = "ABORT" /\ completions' = completions
             /\ undone'[o] = undone[o] \cup {i}
      BY <1>1, <2>3, <3>0, CompleteStepHistory
    <3>3. pc[w] = "exec"
      BY <2>3 DEF CompleteStep
    <3>4. Holds(w, o) /\ StepsInHand(w, o) /\ AtStep(w)
      BY <1>1, <2>1, <3>3, WorkerHolds DEF Working, AtStep
    <3>5. order[o].status = "PROCESSING" /\ inv[w].action = order[o].action
      BY <2>1, <3>4 DEF Sole, StepsInHand
    <3>6. /\ PhaseOf(o) = IF order[o].action = "ABORT" THEN "reverting" ELSE "accepted"
          /\ PhaseOf(o)' = PhaseOf(o)
      BY <2>1, <3>1, <3>5, SparedPhase, SamePhase
    <3>7. CASE inv[w].action = "RUN"
      <4>1. Prefix(o, i)
        BY <3>0, <3>4, <3>7 DEF StepsInHand
      <4>2. Recorded(o) = {j \in Steps : j < i}
        BY <4>1 DEF Recorded, Prefix, Steps
      <4>3. completions'[o][i] = 1 /\ \A j \in Steps \ {i} : completions'[o][j] = completions[o][j]
        BY <3>2, <3>7, <4>1 DEF Prefix, Steps
      <4>4. Recorded(o)' = Recorded(o) \cup {i}
        BY <4>3 DEF Recorded
      <4>5. undone'[o] = undone[o]
        BY <3>2, <3>7
      <4>6. QED
        BY <3>5, <3>6, <3>7, <4>2, <4>4, <4>5 DEF LocalStep
    <3>8. CASE inv[w].action = "ABORT"
      <4>1. UndoneAbove(o, i)
        BY <3>0, <3>4, <3>8 DEF StepsInHand
      <4>2. {j \in Recorded(o) : j > i} \subseteq undone[o]
        BY <4>1 DEF Recorded, UndoneAbove
      <4>3. Recorded(o)' = Recorded(o) /\ undone'[o] = undone[o] \cup {i}
        BY <3>2, <3>8 DEF Recorded
      <4>4. QED
        BY <3>5, <3>6, <3>8, <4>2, <4>3 DEF LocalStep
    <3>9. QED
      BY <3>2, <3>7, <3>8
  <2>4. CASE FinalUpdate(w)
    <3>1. /\ pc[w] = "final" /\ order[o].status = "PROCESSING"
          /\ order'[o].status = inv[w].out /\ order'[o].action = order[o].action
          /\ UNCHANGED <<completions, undone, mishaps>>
      BY <1>1, <2>4, FinalUpdateEffect
    <3>2. StepsKept(o)
      BY <3>1 DEF StepsKept, Recorded
    <3>3. /\ order[o].action \in {"RUN", "ABORT"}
          /\ inv[w].out \in {"PENDING", "ERROR", "DONE", "ABORTED"}
      BY <1>1 DEF TypeOK, OrderRow, Action, Invocation
    <3>4. PhaseOf(o) = IF order[o].action = "ABORT" THEN "reverting" ELSE "accepted"
      BY <2>1, <3>1, SparedPhase
    <3>5. PhaseOf(o)' = CASE inv[w].out = "DONE" -> "done"
                          [] inv[w].out = "ABORTED" -> "aborted"
                          [] OTHER -> PhaseOf(o)
      BY <1>3, <3>1, <3>3, <3>4 DEF PhaseOf
    <3>6. StepsInHand(w, o) /\ AttemptsInHand(w, o)
      BY <1>1, <2>1, <3>1, WorkerHolds DEF Working
    <3>7. CASE inv[w].out = "DONE"
      <4>1. inv[w].run = "DONE" /\ Ended(w)
        BY <3>1, <3>6, <3>7 DEF StepsInHand, AttemptsInHand, Ended
      <4>2. order[o].action = "RUN" /\ Prefix(o, NumSteps)
        BY <3>3, <3>6, <3>7, <4>1 DEF StepsInHand
      <4>3. Recorded(o) = Steps
        BY <4>2, EngineAssumption DEF Recorded, Prefix, Steps
      <4>4. QED
        BY <3>2, <3>4, <3>5, <3>7, <4>2, <4>3 DEF LocalStep, Moves
    <3>8. CASE inv[w].out # "DONE"
      BY <3>2, <3>3, <3>4, <3>5, <3>8 DEF LocalStep, Moves
    <3>9. QED
      BY <3>7, <3>8
  <2>5. CASE StartStep(w)
    <3>1. /\ order'[o].status = order[o].status /\ order'[o].action = order[o].action
          /\ UNCHANGED <<completions, undone, mishaps>>
      BY <1>1, <2>5, StartStepEffect
    <3>2. QED
      BY <3>1, SamePhase DEF LocalStep, StepsKept, Recorded
  <2>6. CASE OuterCatch(w)
    <3>1. pc[w] = "outer" /\ inv[w].run # "none"
      BY <1>1, <1>3, <2>6, OuterCatchEffect DEF Spared, Derailing, Overlapping
    <3>2. StepsInHand(w, o)
      BY <2>1, <3>1 DEF OnTrack, Holds
    <3>3. QED
      BY <3>1, <3>2 DEF StepsInHand, Working
  <2>7. CASE Fault(w)
    <3>1. "fault" \in mishaps'[o]
      BY <1>1, <2>7 DEF Fault, Suffer, TypeOK
    <3>2. QED
      BY <1>3, <3>1 DEF Spared, Derailing
  <2>8. CASE UNCHANGED <<order, completions, undone, mishaps>>
    BY <2>8, SameRow DEF LocalStep, StepsKept
  <2>9. QED
    BY <2>2, <2>3, <2>4, <2>5, <2>6, <2>7, <2>8
    DEF InvocationStep, ClaimFails, CreateRun, StepThrows, FinishRun, FailRun, FinalUpdateFails,
        OuterCatchThrows, rows, history
<1>4. QED
  BY <1>2, <1>3

(* Every step of the engine is a step of the lifecycle or leaves it alone. *)
LEMMA LifecycleStep == TrackInv /\ TrackInv' /\ [Next]_vars => [Lifecycle!Next]_(Lifecycle!lifecycleVars)
<1> SUFFICES ASSUME TrackInv, TrackInv', [Next]_vars
             PROVE  [Lifecycle!Next]_(Lifecycle!lifecycleVars)
  OBVIOUS
<1>0. TypeOK /\ TypeOK'
  BY DEF TrackInv, ExclusionInv
<1>1. ASSUME NEW o \in Orders, OthersKeep(o), LocalStep(o)
      PROVE  [Lifecycle!Next]_(Lifecycle!lifecycleVars)
  BY <1>0, <1>1, LocalStepIsStep
<1>2. ASSUME NEW o \in Orders, NEW r, order' = [order EXCEPT ![o] = r],
             UNCHANGED <<completions, undone, mishaps>>
      PROVE  OthersKeep(o) /\ StepsKept(o)
  <2>1. \A p \in Orders \ {o} : order'[p] = order[p]
    BY <1>0, <1>2 DEF TypeOK
  <2>2. QED
    BY <1>2, <2>1, SameRow DEF OthersKeep, StepsKept, Recorded
<1>3. ASSUME NEW o \in Orders, ConfirmDraft(o) PROVE [Lifecycle!Next]_(Lifecycle!lifecycleVars)
  <2>1. OthersKeep(o) /\ StepsKept(o)
    <3>1. order' = [order EXCEPT ![o] = [order[o] EXCEPT !.status = "CONFIRMED"]]
      BY <1>0, <1>3 DEF ConfirmDraft, TypeOK
    <3>2. UNCHANGED <<completions, undone, mishaps>>
      BY <1>3 DEF ConfirmDraft, history
    <3>3. QED
      BY <1>2, <3>1, <3>2
  <2>2. /\ order[o].status = "DRAFT" /\ order'[o].status = "CONFIRMED"
        /\ order'[o].action = order[o].action /\ mishaps' = mishaps
    BY <1>0, <1>3 DEF ConfirmDraft, TypeOK, OrderRow
  <2>3. CASE Spared(o, Derailing)
    <3>1. order[o].action = "RUN"
      BY <2>2, <2>3 DEF TrackInv, OnTrack, StepsRowSound
    <3>2. PhaseOf(o) = "draft" /\ PhaseOf(o)' = "accepted"
      BY <2>2, <2>3, <3>1 DEF PhaseOf, Spared
    <3>3. QED
      BY <1>1, <2>1, <3>2 DEF LocalStep, Moves
  <2>4. CASE ~Spared(o, Derailing)
    BY <1>0, <1>1, <2>1, <2>4, DerailedStays DEF LocalStep
  <2>5. QED
    BY <2>3, <2>4
<1>4. ASSUME NEW o \in Orders, ProcessConfirmed(o) \/ TimePasses(o)
      PROVE  [Lifecycle!Next]_(Lifecycle!lifecycleVars)
  <2>1. OthersKeep(o) /\ StepsKept(o)
    <3>1. \E r : order' = [order EXCEPT ![o] = r]
      BY <1>4 DEF ProcessConfirmed, TimePasses
    <3>2. UNCHANGED <<completions, undone, mishaps>>
      BY <1>4 DEF ProcessConfirmed, TimePasses, history
    <3>3. QED
      BY <1>2, <3>1, <3>2
  <2>2. PhaseOf(o)' = PhaseOf(o)
    <3>1. CASE ProcessConfirmed(o)
      <4>1. /\ order[o].status = "CONFIRMED" /\ order'[o].status = "PENDING"
            /\ order'[o].action = order[o].action /\ mishaps' = mishaps
        BY <1>0, <3>1 DEF ProcessConfirmed, TypeOK, OrderRow
      <4>2. QED
        BY <4>1 DEF PhaseOf, Spared
    <3>2. CASE TimePasses(o)
      <4>1. /\ order'[o].status = order[o].status
            /\ order'[o].action = order[o].action /\ mishaps' = mishaps
        BY <1>0, <3>2 DEF TimePasses, TypeOK, OrderRow
      <4>2. QED
        BY <4>1, SamePhase
    <3>3. QED
      BY <1>4, <3>1, <3>2
  <2>3. QED
    BY <1>1, <2>1, <2>2 DEF LocalStep
<1>5. ASSUME NEW o \in Orders, AbortDirectly(o) PROVE [Lifecycle!Next]_(Lifecycle!lifecycleVars)
  <2>1. OthersKeep(o) /\ StepsKept(o)
    <3>1. \E r : order' = [order EXCEPT ![o] = r]
      BY <1>5 DEF AbortDirectly
    <3>2. UNCHANGED <<completions, undone, mishaps>>
      BY <1>5 DEF AbortDirectly, history
    <3>3. QED
      BY <1>2, <3>1, <3>2
  <2>2. /\ order[o].status \in {"DRAFT", "CONFIRMED"} /\ order'[o].status = "ABORTED"
        /\ mishaps' = mishaps
    <3>1. [order[o] EXCEPT !.status = "ABORTED", !.action = "ABORT"].status = "ABORTED"
      BY <1>0 DEF TypeOK, OrderRow
    <3>2. QED
      BY <1>0, <1>5, <3>1, RowSteps DEF AbortDirectly
  <2>3. CASE Spared(o, Derailing)
    <3>1. order[o].action = "RUN" /\ \A k \in Steps : completions[o][k] = 0
      BY <2>2, <2>3 DEF TrackInv, OnTrack, StepsRowSound
    <3>2. PhaseOf(o) \in {"draft", "accepted"}
      BY <2>2, <2>3, <3>1, SparedPhase
    <3>3. PhaseOf(o)' = "aborted"
      BY <2>2, <2>3 DEF PhaseOf, Spared
    <3>4. Recorded(o) = {}
      BY <3>1 DEF Recorded
    <3>5. QED
      BY <1>1, <2>1, <3>2, <3>3, <3>4 DEF LocalStep, Moves
  <2>4. CASE ~Spared(o, Derailing)
    BY <1>0, <1>1, <2>1, <2>4, DerailedStays DEF LocalStep
  <2>5. QED
    BY <2>3, <2>4
<1>6. ASSUME NEW o \in Orders, RetryUpdate(o) PROVE [Lifecycle!Next]_(Lifecycle!lifecycleVars)
  <2>1. "retry" \in mishaps'[o] /\ \A p \in Orders \ {o} : order'[p] = order[p] /\ mishaps'[p] = mishaps[p]
    BY <1>0, <1>6 DEF RetryUpdate, Suffer, TypeOK
  <2>2. UNCHANGED <<completions, undone>>
    BY <1>6 DEF RetryUpdate, history
  <2>3. PhaseOf(o)' = "derailed"
    BY <2>1 DEF PhaseOf, Spared, Derailing, Overlapping
  <2>4. OthersKeep(o)
    BY <2>1, <2>2, SameRow DEF OthersKeep
  <2>5. QED
    BY <1>1, <2>3, <2>4 DEF LocalStep
<1>7. ASSUME NEW w \in Workers, InvocationStep(w) \/ Fault(w)
      PROVE  [Lifecycle!Next]_(Lifecycle!lifecycleVars)
  <2>1. PICK o \in Orders : o = inv[w].order
    BY <1>0, <1>7, OneInvocation
  <2>2. QED
    BY <1>0, <1>1, <1>7, <2>1, StepKeepsOthers, WorkerLocalStep
<1>8. ASSUME NEW W \in SUBSET Workers, Crash(W) PROVE [Lifecycle!Next]_(Lifecycle!lifecycleVars)
  <2>1. UNCHANGED <<order, completions, undone>>
    BY <1>8 DEF Crash, rows, history
  <2>2. \A o \in Orders : Spared(o, Derailing)' <=> Spared(o, Derailing)
    BY <1>8 DEF Crash, Spared, Derailing, Overlapping
  <2>3. \A o \in Orders : PhaseOf(o)' = PhaseOf(o)
    BY <2>1, <2>2 DEF PhaseOf
  <2>4. QED
    BY <2>1, <2>3 DEF Lifecycle!lifecycleVars
<1>9. CASE UNCHANGED <<order, completions, undone, mishaps>>
  <2>1. \A o \in Orders : PhaseOf(o)' = PhaseOf(o)
    BY <1>9 DEF PhaseOf, Spared
  <2>2. QED
    BY <1>9, <2>1 DEF Lifecycle!lifecycleVars
<1>10. QED
  BY <1>3, <1>4, <1>5, <1>6, <1>7, <1>8, <1>9 DEF Next, Retry, Pick, Abort, Begin, rows, history, vars

LEMMA LifecycleInit == Init => Lifecycle!Init
<1> SUFFICES ASSUME Init PROVE Lifecycle!Init
  OBVIOUS
<1>1. ASSUME NEW o \in Orders PROVE PhaseOf(o) \in {"draft", "accepted"} /\ Recorded(o) = {}
  BY DEF Init, PhaseOf, Spared, Recorded
<1>2. QED
  BY <1>1 DEF Init, Recorded, Lifecycle!Init

(* The engine implements OrderLifecycle: whatever ticks, crashes and aborts *)
(* come between, the steps of an order are recorded in turn and undone in  *)
(* reverse, and it is done when all are recorded, until it is derailed.    *)
THEOREM ImplementsLifecycle == Spec => LifecycleSpec
BY LifecycleInit, LifecycleStep, TrackAlways, PTL DEF Spec, LifecycleSpec, Lifecycle!Spec

==============================================================================
