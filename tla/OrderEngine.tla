----------------------------- MODULE OrderEngine -----------------------------
(***************************************************************************)
(* The order engine of packages/core: OrderService (order/order.service.ts)*)
(* and OrderProcessor (order/order.processor.ts).                          *)
(*                                                                         *)
(* Orders are rows of the database.  Every ten seconds, in every instance  *)
(* of the server, a cron job moves confirmed orders to PENDING and another *)
(* starts, without waiting for them, an invocation of processOrder for     *)
(* each order that is due; an administrator's abort starts one as well.    *)
(* Nothing but the `where` clause of each update keeps two invocations     *)
(* apart, so an invocation is modelled one database call at a time, and    *)
(* each of its calls may interleave with those of the others.              *)
(*                                                                         *)
(* order[o] and steps[o] are the rows of tables Order and OrderStep; pc[w] *)
(* and inv[w] are the place and the local variables of an invocation of    *)
(* processOrder, inv[w].run the OrderRun row only it writes.  A step of a  *)
(* processor (steps/*.step.ts) either returns, returns a date at which to  *)
(* go on, or throws: what it does to the rest of the system is the subject *)
(* of other modules.                                                       *)
(***************************************************************************)
EXTENDS Integers, FiniteSets

CONSTANTS
  Orders,      \* orders of one type, hence with the same steps
  NoOrder,     \* what an idle invocation works on
  Workers,     \* invocations of processOrder that may be in flight together
  NumSteps,    \* number of steps of the orders' processor
  DelaySteps,  \* the steps that return { runAt } when run
  NumRetries,  \* length of the `retries` setting
  MaxAborts,   \* bounds on what the environment does in one behaviour:
  MaxReruns,   \*   aborts of started orders, retries asked for,
  MaxCrashes,  \*   crashes of an instance,
  MaxFaults,   \*   bookkeeping calls the database refuses,
  MaxEvents    \*   and all of these together

ASSUME EngineAssumption ==
  /\ NoOrder \notin Orders
  /\ NumSteps \in Nat \ {0}
  /\ DelaySteps \subseteq 0 .. NumSteps - 2
  /\ NumRetries \in Nat
  /\ MaxAborts \in Nat /\ MaxReruns \in Nat
  /\ MaxCrashes \in Nat /\ MaxFaults \in Nat /\ MaxEvents \in Nat

VARIABLES
  order,        \* Order rows
  steps,        \* OrderStep rows: the status of each, ABSENT before they exist
  pc,           \* the next database call of each invocation
  inv,          \* the local variables of each invocation
  rerunning,    \* orders a call of retry has read and not yet written
  spent,        \* how often the environment has used each bound
  completions,  \* history: how often each step's run has been recorded as done
  undone,       \* history: the steps whose abort has been recorded as done
  mishaps       \* history: the unusual events each order has been through

vars == <<order, steps, pc, inv, rerunning, spent, completions, undone, mishaps>>
rows == <<order, steps>>
history == <<completions, undone>>

-----------------------------------------------------------------------------
Status == {"DRAFT", "CONFIRMED", "PENDING", "PROCESSING", "ERROR", "DONE", "ABORTED"}
FinalStati == {"DONE", "ABORTED"}
Action == {"RUN", "ABORT"}
StepStatus == {"ABSENT", "PENDING", "PROCESSING", "ERROR", "DONE", "SKIPPED"}

Steps == 0 .. NumSteps - 1
NoStep == -1                  \* stepNo = null

(* "none": the claim has not succeeded; "claimed": it has, the OrderRun row *)
(* is not created yet (runId is null in both); then the row's status.       *)
RunStatus == {"none", "claimed", "PROCESSING", "DONE", "ERROR"}

Place == {"idle", "claim", "createRun", "start", "exec",
          "finishRun", "failRun", "final", "outer"}

Mishap == {"flip", "retry", "abortRunning", "staleClaim", "fault", "crash"}

OrderRow == [status : Status, action : Action, stepNo : Steps \cup {NoStep},
             attempts : Int, due : BOOLEAN]

Read == [status : Status, action : Action, attempts : Int]

Invocation == [order : Orders \cup {NoOrder}, read : Read, action : Action,
               run : RunStatus, i : Steps, out : {"PENDING", "ERROR", "DONE", "ABORTED"}]

IdleInv == [order |-> NoOrder, action |-> "RUN", run |-> "none", i |-> 0, out |-> "DONE",
            read |-> [status |-> "DRAFT", action |-> "RUN", attempts |-> 0]]

TypeOK ==
  /\ order \in [Orders -> OrderRow]
  /\ steps \in [Orders -> [Steps -> StepStatus]]
  /\ pc \in [Workers -> Place]
  /\ inv \in [Workers -> Invocation]
  /\ \A w \in Workers : pc[w] # "idle" => inv[w].order \in Orders
  /\ rerunning \subseteq Orders
  /\ spent \in [{"abort", "rerun", "crash", "fault"} -> Nat]
  /\ completions \in [Orders -> [Steps -> 0 .. 2]]
  /\ undone \in [Orders -> SUBSET Steps]
  /\ mishaps \in [Orders -> SUBSET Mishap]

(* Orders are created as a draft (createAddPlan) or confirmed (the others). *)
Init ==
  /\ order \in [Orders -> {[status |-> s, action |-> "RUN", stepNo |-> NoStep,
                            attempts |-> 0, due |-> TRUE] : s \in {"DRAFT", "CONFIRMED"}}]
  /\ steps = [o \in Orders |-> [k \in Steps |-> "ABSENT"]]
  /\ pc = [w \in Workers |-> "idle"]
  /\ inv = [w \in Workers |-> IdleInv]
  /\ rerunning = {}
  /\ spent = [e \in {"abort", "rerun", "crash", "fault"} |-> 0]
  /\ completions = [o \in Orders |-> [k \in Steps |-> 0]]
  /\ undone = [o \in Orders |-> {}]
  /\ mishaps = [o \in Orders |-> {}]

-----------------------------------------------------------------------------
Spend(event, bound) ==
  /\ spent[event] < bound
  /\ spent["abort"] + spent["rerun"] + spent["crash"] + spent["fault"] < MaxEvents
  /\ spent' = [spent EXCEPT ![event] = @ + 1]

Suffer(o, event) == mishaps' = [mishaps EXCEPT ![o] = @ \cup {event}]

Goto(w, place) == pc' = [pc EXCEPT ![w] = place]

Return(w) == /\ pc' = [pc EXCEPT ![w] = "idle"]
             /\ inv' = [inv EXCEPT ![w] = IdleInv]

-----------------------------------------------------------------------------
(***************************************************************************)
(* Seeded bugs.  Each is a plausible slip in one of the definitions below; *)
(* README.md says which property tells it from the code.                   *)
(***************************************************************************)
StillAsRead_Unchecked(w) == TRUE

Due_PendingOnly(o) == order[o].status = "PENDING" /\ order[o].due

FirstStep_FromLength(o, action) ==
  CASE order[o].stepNo # NoStep -> order[o].stepNo
    [] order[o].stepNo = NoStep /\ action = "RUN" -> 0
    [] OTHER -> NumSteps

FirstStep_Restarts(o, action) == IF action = "RUN" THEN 0 ELSE NumSteps - 1

Outcome_IgnoresDelay(w) == IF inv[w].action = "RUN" THEN "DONE" ELSE "ABORTED"

AttemptsAfter_NotRestored(o, out) == order[o].attempts

RetryUpdate_ResetsAction(o) ==
  /\ o \in rerunning
  /\ rerunning' = rerunning \ {o}
  /\ order' = [order EXCEPT ![o] = [@ EXCEPT !.status = "PENDING", !.due = TRUE,
                                             !.attempts = 0, !.action = "RUN"]]
  /\ Suffer(o, "retry")
  /\ UNCHANGED <<steps, pc, inv, spent, history>>

FailRun_Rethrows(w) ==
  /\ pc[w] = "failRun"
  /\ inv' = [inv EXCEPT ![w].run = "ERROR"]
  /\ Goto(w, "outer")
  /\ UNCHANGED <<rows, rerunning, spent, history, mishaps>>

-----------------------------------------------------------------------------
(* typeof retries[pendingOrder.attempts] === 'number', of the row as read *)
ShouldRetry(w) == inv[w].read.attempts \in 0 .. NumRetries - 1

(* `where: { status: pendingOrder.status }`, the optimistic update check *)
StillAsRead(w) == order[inv[w].order].status = inv[w].read.status

(* An invocation that has claimed its order and not yet given it back *)
Holds(w, o) == pc[w] # "idle" /\ inv[w].order = o /\ inv[w].run # "none"

-----------------------------------------------------------------------------
(* confirmAddPlanDraft *)
ConfirmDraft(o) ==
  /\ order[o].status = "DRAFT"
  /\ order' = [order EXCEPT ![o].status = "CONFIRMED"]
  /\ UNCHANGED <<steps, pc, inv, rerunning, spent, history, mishaps>>

(* processConfirmedOrders: the steps' rows are created with the update *)
ProcessConfirmed(o) ==
  /\ order[o].status = "CONFIRMED"
  /\ order' = [order EXCEPT ![o].status = "PENDING"]
  /\ steps' = [steps EXCEPT ![o] = [k \in Steps |-> "PENDING"]]
  /\ UNCHANGED <<pc, inv, rerunning, spent, history, mishaps>>

(* runAt is reached, or cleared by markShippingComplete, updateSignSignature,*)
(* markPortOutComplete or markPortOutFailed                                  *)
TimePasses(o) ==
  /\ ~order[o].due
  /\ order' = [order EXCEPT ![o].due = TRUE]
  /\ UNCHANGED <<steps, pc, inv, rerunning, spent, history, mishaps>>

(* The call of processOrder with the row just read, up to its first await *)
Begin(w, o, action) ==
  /\ pc[w] = "idle"
  /\ Goto(w, "claim")
  /\ inv' = [inv EXCEPT ![w] = [IdleInv EXCEPT !.order = o, !.action = action,
                !.read = [status |-> order[o].status, action |-> order[o].action,
                          attempts |-> order[o].attempts]]]
  /\ UNCHANGED <<rows, rerunning, history, mishaps>>

(* processPendingOrders finds the order due; other instances, and the next *)
(* tick of this one, may find it too                                       *)
Due(o) == order[o].status \in {"PENDING", "ERROR"} /\ order[o].due

Pick(w, o) ==
  /\ Due(o)
  /\ Begin(w, o, order[o].action)
  /\ UNCHANGED spent

(* abort, of an order that has no steps yet and of one that has *)
AbortDirectly(o) ==
  /\ order[o].status \in {"DRAFT", "CONFIRMED"}
  /\ order' = [order EXCEPT ![o] = [@ EXCEPT !.status = "ABORTED", !.action = "ABORT"]]
  /\ UNCHANGED <<steps, pc, inv, rerunning, spent, history, mishaps>>

Abort(w, o) ==
  /\ order[o].status \notin FinalStati \cup {"DRAFT", "CONFIRMED"}
  /\ Begin(w, o, "ABORT")
  /\ Spend("abort", MaxAborts)

(* retry reads the order, then updates it whatever it has become *)
Retry(o) ==
  /\ order[o].status \notin FinalStati
  /\ o \notin rerunning
  /\ rerunning' = rerunning \cup {o}
  /\ Spend("rerun", MaxReruns)
  /\ UNCHANGED <<rows, pc, inv, history, mishaps>>

RetryUpdate(o) ==
  /\ o \in rerunning
  /\ rerunning' = rerunning \ {o}
  /\ order' = [order EXCEPT ![o] = [@ EXCEPT !.status = "PENDING", !.due = TRUE, !.attempts = 0]]
  /\ Suffer(o, "retry")
  /\ UNCHANGED <<steps, pc, inv, spent, history>>

-----------------------------------------------------------------------------
(* process: where the loop over the steps begins.  An order whose steps were *)
(* never created has an empty loop.                                          *)
FirstStep(o, action) ==
  CASE order[o].stepNo # NoStep -> order[o].stepNo
    [] order[o].stepNo = NoStep /\ action = "RUN" -> 0
    [] OTHER -> NumSteps - 1

(* The events that a successful claim may be: of an order already being     *)
(* processed, or of one that changed since it was read but has the status   *)
(* it had                                                                   *)
ClaimMishaps(w, row) ==
  (IF inv[w].read.status = "PROCESSING" THEN {"abortRunning"} ELSE {}) \cup
  (IF row.action # inv[w].read.action \/ row.attempts # inv[w].read.attempts
     THEN {"staleClaim"} ELSE {})

Claim(w) ==
  LET o == inv[w].order IN
  /\ pc[w] = "claim"
  /\ StillAsRead(w)
  /\ order' = [order EXCEPT ![o] = [@ EXCEPT
       !.status = "PROCESSING",
       !.action = inv[w].action,
       !.attempts = IF inv[w].read.action = inv[w].action THEN order[o].attempts + 1 ELSE 0]]
  /\ inv' = [inv EXCEPT ![w] = [@ EXCEPT !.run = "claimed", !.i = FirstStep(o, inv[w].action)]]
  /\ mishaps' = [mishaps EXCEPT ![o] = @ \cup ClaimMishaps(w, order[o])]
  /\ Goto(w, "createRun")
  /\ UNCHANGED <<steps, rerunning, spent, history>>

(* The update matches no row and throws: on to the outer catch *)
ClaimFails(w) ==
  /\ pc[w] = "claim"
  /\ ~StillAsRead(w)
  /\ Goto(w, "outer")
  /\ UNCHANGED <<rows, inv, rerunning, spent, history, mishaps>>

HasSteps(o) == \A k \in Steps : steps[o][k] # "ABSENT"

CreateRun(w) ==
  /\ pc[w] = "createRun"
  /\ inv' = [inv EXCEPT ![w].run = "PROCESSING"]
  /\ Goto(w, IF HasSteps(inv[w].order) THEN "start" ELSE "finishRun")
  /\ UNCHANGED <<rows, rerunning, spent, history, mishaps>>

StartStep(w) ==
  LET o == inv[w].order IN
  /\ pc[w] = "start"
  /\ order' = [order EXCEPT ![o].stepNo = inv[w].i]
  /\ steps' = [steps EXCEPT ![o][inv[w].i] = "PROCESSING"]
  /\ Goto(w, "exec")
  /\ UNCHANGED <<inv, rerunning, spent, history, mishaps>>

(* The index of the step after the current one, null after the last *)
NextStep(w) ==
  CASE inv[w].action = "RUN" /\ inv[w].i < NumSteps - 1 -> inv[w].i + 1
    [] inv[w].action = "ABORT" /\ inv[w].i > 0 -> inv[w].i - 1
    [] OTHER -> NoStep

Delays(w) == inv[w].action = "RUN" /\ inv[w].i \in DelaySteps

(* What the order becomes if the run ends here *)
Outcome(w) ==
  CASE Delays(w) -> "PENDING"
    [] ~Delays(w) /\ inv[w].action = "RUN" -> "DONE"
    [] OTHER -> "ABORTED"

(* The step's run or abort returned and completeStep has recorded it *)
CompleteStep(w) ==
  LET o == inv[w].order
      k == inv[w].i
  IN
  /\ pc[w] = "exec"
  /\ order' = [order EXCEPT ![o].stepNo = NextStep(w)]
  /\ steps' = [steps EXCEPT ![o][k] = "DONE"]
  /\ IF inv[w].action = "RUN"
       THEN /\ completions' = [completions EXCEPT ![o][k] = IF @ = 2 THEN 2 ELSE @ + 1]
            /\ UNCHANGED undone
       ELSE /\ undone' = [undone EXCEPT ![o] = @ \cup {k}]
            /\ UNCHANGED completions
  /\ IF NextStep(w) = NoStep \/ Delays(w)
       THEN /\ Goto(w, "finishRun")
            /\ inv' = [inv EXCEPT ![w].out = Outcome(w)]
       ELSE /\ Goto(w, "start")
            /\ inv' = [inv EXCEPT ![w].i = NextStep(w)]
  /\ UNCHANGED <<rerunning, spent, mishaps>>

(* The step throws, before or after its effect; so may its bookkeeping *)
StepThrows(w) ==
  /\ pc[w] \in {"start", "exec"}
  /\ Goto(w, "failRun")
  /\ UNCHANGED <<rows, inv, rerunning, spent, history, mishaps>>

(* The OrderRun row is marked DONE *)
FinishRun(w) ==
  /\ pc[w] = "finishRun"
  /\ inv' = [inv EXCEPT ![w] = [@ EXCEPT
       !.run = "DONE",
       !.out = IF HasSteps(inv[w].order) THEN inv[w].out
               ELSE IF inv[w].action = "RUN" THEN "DONE" ELSE "ABORTED"]]
  /\ Goto(w, "final")
  /\ UNCHANGED <<rows, rerunning, spent, history, mishaps>>

(* The inner catch: every PROCESSING step of the order becomes ERROR, and so *)
(* does the OrderRun row                                                     *)
FailRun(w) ==
  LET o == inv[w].order IN
  /\ pc[w] = "failRun"
  /\ steps' = [steps EXCEPT ![o] =
       [k \in Steps |-> IF @[k] = "PROCESSING" THEN "ERROR" ELSE @[k]]]
  /\ inv' = [inv EXCEPT ![w] = [@ EXCEPT !.run = "ERROR",
                                         !.out = IF ShouldRetry(w) THEN "ERROR" ELSE "ABORTED"]]
  /\ Goto(w, "final")
  /\ UNCHANGED <<order, rerunning, spent, history, mishaps>>

(* A delay does not count as an attempt *)
AttemptsAfter(o, out) == IF out = "PENDING" THEN order[o].attempts - 1 ELSE order[o].attempts

(* The final update, `where: { status: PROCESSING }` *)
FinalUpdate(w) ==
  LET o == inv[w].order
      out == inv[w].out
  IN
  /\ pc[w] = "final"
  /\ order[o].status = "PROCESSING"
  /\ order' = [order EXCEPT ![o] = [@ EXCEPT
       !.status = out,
       !.due = out \in FinalStati,
       !.attempts = AttemptsAfter(o, out)]]
  /\ steps' = [steps EXCEPT ![o] =
       [k \in Steps |-> IF out \in FinalStati /\ @[k] = "PENDING" THEN "SKIPPED" ELSE @[k]]]
  /\ Return(w)
  /\ UNCHANGED <<rerunning, spent, history, mishaps>>

FinalUpdateFails(w) ==
  /\ pc[w] = "final"
  /\ order[inv[w].order].status # "PROCESSING"
  /\ Goto(w, "outer")
  /\ UNCHANGED <<rows, inv, rerunning, spent, history, mishaps>>

(* The outer catch.  Its update asks for a PROCESSING order and, when this  *)
(* invocation created one, for an OrderRun row still PROCESSING.  It does   *)
(* not ask whether this invocation is the one that made the order so.       *)
OuterMatches(w) ==
  /\ order[inv[w].order].status = "PROCESSING"
  /\ inv[w].run \notin {"DONE", "ERROR"}

OuterCatch(w) ==
  LET o == inv[w].order IN
  /\ pc[w] = "outer"
  /\ OuterMatches(w)
  /\ order' = [order EXCEPT ![o] = [@ EXCEPT
       !.status = IF ShouldRetry(w) THEN "ERROR" ELSE "ABORTED",
       !.due = ~ShouldRetry(w)]]
  /\ mishaps' = [mishaps EXCEPT ![o] = IF inv[w].run = "none" THEN @ \cup {"flip"} ELSE @]
  /\ Return(w)
  /\ UNCHANGED <<steps, rerunning, spent, history>>

(* The update matches nothing and throws out of processOrder *)
OuterCatchThrows(w) ==
  /\ pc[w] = "outer"
  /\ ~OuterMatches(w)
  /\ Return(w)
  /\ UNCHANGED <<rows, rerunning, spent, history, mishaps>>

-----------------------------------------------------------------------------
(* The database refuses a bookkeeping call of processOrder: the claim, the  *)
(* creation of the run and the final update are left to the outer catch,    *)
(* the end of a run to the inner one, the inner catch to the outer one, and *)
(* the outer catch to nobody.                                               *)
Fault(w) ==
  LET o == inv[w].order IN
  /\ Spend("fault", MaxFaults)
  /\ \/ /\ pc[w] \in {"claim", "createRun", "failRun", "final"}
        /\ Goto(w, "outer")
        /\ UNCHANGED inv
     \/ /\ pc[w] = "finishRun"
        /\ Goto(w, "failRun")
        /\ UNCHANGED inv
     \/ /\ pc[w] = "outer"
        /\ Return(w)
  /\ Suffer(o, "fault")
  /\ UNCHANGED <<rows, rerunning, history>>

(* An instance stops: its invocations are gone, the rows stay as they are. *)
(* Nothing undoes this later: processTimedOutOrders only logs the order.   *)
Crash(W) ==
  /\ \E w \in W : pc[w] # "idle"
  /\ Spend("crash", MaxCrashes)
  /\ pc' = [w \in Workers |-> IF w \in W THEN "idle" ELSE pc[w]]
  /\ inv' = [w \in Workers |-> IF w \in W THEN IdleInv ELSE inv[w]]
  /\ mishaps' = [o \in Orders |->
       IF \E w \in W : Holds(w, o) THEN mishaps[o] \cup {"crash"} ELSE mishaps[o]]
  /\ UNCHANGED <<rows, rerunning, history>>

-----------------------------------------------------------------------------
InvocationStep(w) ==
  \/ Claim(w) \/ ClaimFails(w) \/ CreateRun(w)
  \/ StartStep(w) \/ CompleteStep(w) \/ StepThrows(w)
  \/ FinishRun(w) \/ FailRun(w)
  \/ FinalUpdate(w) \/ FinalUpdateFails(w)
  \/ OuterCatch(w) \/ OuterCatchThrows(w)

Next ==
  \/ \E o \in Orders : \/ ConfirmDraft(o) \/ ProcessConfirmed(o) \/ TimePasses(o)
                       \/ AbortDirectly(o) \/ Retry(o) \/ RetryUpdate(o)
  \/ \E w \in Workers, o \in Orders : Pick(w, o) \/ Abort(w, o)
  \/ \E w \in Workers : InvocationStep(w) \/ Fault(w)
  \/ \E W \in SUBSET Workers : Crash(W)

Spec == Init /\ [][Next]_vars

(* The cron jobs keep ticking, dates are reached, an awaited call answers.  *)
(* Users and administrators need not do anything.                           *)
Fairness ==
  /\ \A o \in Orders : /\ WF_vars(ProcessConfirmed(o))
                       /\ WF_vars(TimePasses(o))
                       /\ WF_vars(RetryUpdate(o))
                       /\ WF_vars(\E w \in Workers : Pick(w, o))
  /\ \A w \in Workers : WF_vars(InvocationStep(w))

FairSpec == Spec /\ Fairness

-----------------------------------------------------------------------------
(* None of the events E has happened to order o *)
Spared(o, E) == mishaps[o] \cap E = {}

(* The events that let two invocations work on one order at once *)
Overlapping == {"flip", "retry", "abortRunning"}

(* Two invocations never work on the same order, unless one that lost the   *)
(* claim overwrote the winner's status, an operator retried the order, or   *)
(* an abort claimed it while it was being processed.  In particular any     *)
(* number of overlapping ticks, crashes and faults keep the exclusion.      *)
Exclusive ==
  \A o \in Orders : Spared(o, Overlapping) =>
    \A v, w \in Workers : Holds(v, o) /\ Holds(w, o) => v = w

(* An order is PROCESSING only while some invocation holds it: none is left *)
(* behind for processTimedOutOrders, unless an instance crashed or the      *)
(* database refused a call, whatever operators and overlapping ticks do.    *)
ProcessingIsHeld ==
  \A o \in Orders : Spared(o, {"crash", "fault"}) =>
    (order[o].status = "PROCESSING" => \E w \in Workers : Holds(w, o))

(* The events that let a step be recorded twice or out of turn *)
Derailing == Overlapping \cup {"staleClaim", "fault"}

(* While an order runs, its rows are a prefix of completed steps, the       *)
(* current step, and steps not started; stepNo points just past the prefix, *)
(* or is null before the first start and after the last completion.         *)
ProgressIsPrefix ==
  \A o \in Orders :
    Spared(o, Derailing) /\ order[o].action = "RUN" /\ HasSteps(o)
      /\ order[o].status \notin FinalStati =>
    \E n \in 0 .. NumSteps :
      /\ \A k \in Steps : (k < n => steps[o][k] = "DONE") /\ (k > n => steps[o][k] = "PENDING")
      /\ order[o].stepNo = n \/ (order[o].stepNo = NoStep /\ n \in {0, NumSteps})

(* No step's run is recorded twice, over any number of failed runs, delays, *)
(* aborts and overlapping ticks, and an order that is DONE recorded each.   *)
ExactlyOnce ==
  \A o \in Orders : Spared(o, Derailing) =>
    /\ \A k \in Steps : completions[o][k] <= 1
    /\ order[o].status = "DONE" => \A k \in Steps : completions[o][k] = 1

(* When a run in action ABORT reports success, the abort of every step whose*)
(* run was recorded has been recorded too.                                  *)
AbortUndoesAll ==
  \A w \in Workers :
    LET o == inv[w].order IN
    pc[w] = "final" /\ inv[w].out = "ABORTED" /\ inv[w].run = "DONE"
      /\ Spared(o, Derailing) =>
    {k \in Steps : completions[o][k] > 0} \subseteq undone[o]

(* No step's effect is repeated, lost or left behind *)
StepsAreExact == ExactlyOnce /\ AbortUndoesAll

(* Delays cost no attempt and failures cost one each: an order is given up  *)
(* in action RUN exactly when the first run and NumRetries retries failed.  *)
GivesUpWhenExhausted ==
  \A o \in Orders : Spared(o, Derailing) =>
    /\ order[o].attempts \in 0 .. NumRetries + 1
    /\ order[o].status = "ABORTED" /\ order[o].action = "RUN" =>
         order[o].attempts = NumRetries + 1

(* The progress of an order, its steps and its attempts *)
ProgressIsSound == ProgressIsPrefix /\ GivesUpWhenExhausted

(* An order leaves DONE or ABORTED only by an operator's retry that had     *)
(* read it before it ended.                                                 *)
FinalIsFinal ==
  [][\A o \in Orders : order[o].status \in FinalStati /\ order'[o].status # order[o].status
       => o \in rerunning]_vars

(* An order being aborted never goes back to running its steps, unless an   *)
(* invocation that read it before the abort claims it afterwards.           *)
AbortIsSticky ==
  [][\A o \in Orders : order[o].action = "ABORT" /\ order'[o].action # "ABORT"
       => "staleClaim" \in mishaps'[o]]_vars

(* What was decided of an order is not undone behind the operator's back *)
DecisionsStand == FinalIsFinal /\ AbortIsSticky

(* Every confirmed order ends up DONE or ABORTED, whatever its steps do and *)
(* however the ticks overlap, as long as it is not worked on twice at once. *)
Settles ==
  \A o \in Orders : order[o].status = "CONFIRMED" ~>
    order[o].status \in FinalStati \/ ~Spared(o, Overlapping)

-----------------------------------------------------------------------------
(* The engine keeps the promise of OrderLifecycle. *)
PhaseOf(o) ==
  CASE ~Spared(o, Derailing) -> "derailed"
    [] Spared(o, Derailing) /\ order[o].status = "DRAFT" -> "draft"
    [] Spared(o, Derailing) /\ order[o].status = "DONE" -> "done"
    [] Spared(o, Derailing) /\ order[o].status = "ABORTED" -> "aborted"
    [] OTHER -> IF order[o].action = "ABORT" THEN "reverting" ELSE "accepted"

Lifecycle == INSTANCE OrderLifecycle WITH
  phase <- [o \in Orders |-> PhaseOf(o)],
  recorded <- [o \in Orders |-> {k \in Steps : completions[o][k] > 0}]

(* Steps are recorded in turn and undone in reverse, an order is done when  *)
(* all its steps are recorded, and no step is recorded once it is reverted. *)
LifecycleSpec == Lifecycle!Spec

(* The claim's `where` clause is commented "optimistic update check clause":*)
(* an invocation whose claim failed the check leaves the order alone.       *)
LosersChangeNothing ==
  [][\A w \in Workers : pc[w] = "outer" /\ inv[w].run = "none" => order' = order \/ pc'[w] = "outer"]_vars
=============================================================================
