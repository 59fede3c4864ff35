------------------------------ MODULE Onboarding ------------------------------
(***************************************************************************)
(* A new user going through the onboarding of the mobile app, on a network *)
(* that loses requests and answers: the stages a user has completed        *)
(* (onboarding/onboarding.service.ts), the order they fill in meanwhile    *)
(* and the app's two providers (app/providers/OnboardingProgressProvider,  *)
(* CurrentOrderProvider) with the screens that use them.                   *)
(*                                                                         *)
(* Everything the app does is a job: a chain of requests, each sent when   *)
(* the answer to the one before has arrived.  Jobs overlap: startStage is  *)
(* not awaited, and most buttons stay enabled while they work.  What the   *)
(* engine does to the order is in OrderEngine, how drafts and codes work   *)
(* in Checkout; the payment method is taken as set up.                     *)
(***************************************************************************)
EXTENDS Integers, Sequences, FiniteSets

CONSTANTS
  Flow,        \* the types of the required stages, in order, each once
  Listed,      \* data.stages of ORDER_CONFIRM
  Orders,      \* orders of the user, numbered as they are created
  NoOrder,     \* null
  Jobs,        \* jobs under way together
  MaxMishaps   \* bound: lost messages, restarts of the app and aborts by the staff

Stages == {Flow[i] : i \in DOMAIN Flow}

ASSUME OnboardingAssumption ==
  /\ Flow \in Seq({"ORDER_PLAN", "ADDRESS", "ORDER_MSISDN", "ORDER_SIM_TYPE",
                   "ORDER_CONFIRM", "ORDER_PROCESS"})
  /\ \A i, h \in DOMAIN Flow : Flow[i] = Flow[h] => i = h
  /\ Listed \subseteq Stages
  /\ Orders \subseteq Nat
  /\ NoOrder \notin Orders
  /\ MaxMishaps \in Nat

VARIABLES
  progress,  \* OnboardingProgress rows of the user
  order,     \* the user's ADD_PLAN orders
  address,   \* whether there is an address of the type asked for
  seen,      \* OnboardingProgressProvider: the progress last fetched
  cur,       \* CurrentOrderProvider: the order being filled in
  job,       \* what the app has under way
  mishaps,   \* how many there were
  history    \* history: which things happened that may cost the user something

vars == <<progress, order, address, seen, cur, job, mishaps, history>>

-----------------------------------------------------------------------------
(* started: startedAt only; completed: completedAt is set *)
Progress == {"none", "started", "completed"}

(* OPEN: the engine works on it.  ENDED: DONE, ABORTED or ERROR. *)
OrderRow == [status : {"ABSENT", "DRAFT", "OPEN", "ENDED"}, simType : BOOLEAN]

(* Requests to the server, and read/write: the two halves of changeProgress *)
AtServer == {"create", "update", "address", "confirm", "orders", "read", "write"}

(* Answers on their way to the app: of a request for an order, of completed *)
(* stages, of the fetch of the orders                                       *)
ToApp == {"order", "refresh", "mounted"}

NoStage == "mount"

Job == [place : {"idle"} \cup AtServer \cup ToApp,
        done : BOOLEAN,                  \* completes its stage, or only starts it
        stage : Stages \cup {NoStage},   \* NoStage: the app's start
        order : Orders \cup {NoOrder},
        heard : BOOLEAN]                 \* the app still waits for the answer

Idle == [place |-> "idle", done |-> FALSE, stage |-> NoStage, order |-> NoOrder,
         heard |-> TRUE]

Events == {"reopened", "lost", "restarted", "aborted", "overlapped"}

TypeOK ==
  /\ progress \in [Stages -> Progress]
  /\ order \in [Orders -> OrderRow]
  /\ address \in BOOLEAN
  /\ seen \in [Stages -> Progress]
  /\ cur \in Orders \cup {NoOrder}
  /\ job \in [Jobs -> Job]
  /\ \A j \in Jobs : job[j].place \in {"update", "confirm", "order"} => job[j].order \in Orders
  /\ \A j \in Jobs : job[j].place \notin {"idle", "orders", "mounted"} => job[j].stage \in Stages
  /\ mishaps \in 0..MaxMishaps
  /\ history \in SUBSET Events

Mount == [Idle EXCEPT !.place = "orders"]

Start(s) == [Idle EXCEPT !.place = "read", !.stage = s]

(* The app has just been opened by a user who has just signed up *)
Init ==
  /\ progress = [s \in Stages |-> "none"] /\ seen = [s \in Stages |-> "none"]
  /\ order = [o \in Orders |-> [status |-> "ABSENT", simType |-> FALSE]]
  /\ address = FALSE
  /\ cur = NoOrder
  /\ \E j \in Jobs : job = [k \in Jobs |-> IF k = j THEN Mount ELSE Idle]
  /\ mishaps = 0 /\ history = {}

-----------------------------------------------------------------------------
Existing == {o \in Orders : order[o].status # "ABSENT"}

Drafts == {o \in Orders : order[o].status = "DRAFT"}

IsNext(o) == o \in Orders \ Existing /\ \A p \in Orders : p < o => p \in Existing

(* The answer is on its way; nobody waits for it any more if the app is gone *)
Answer(j, place, o) ==
  job' = [job EXCEPT ![j] = IF job[j].heard
                              THEN [job[j] EXCEPT !.place = place, !.order = o] ELSE Idle]

End(j) == job' = [job EXCEPT ![j] = Idle]

-----------------------------------------------------------------------------
(* The user.  The screens of onboarding/index.tsx: the first, then each     *)
(* that was started or whose predecessor is completed.  Once all are        *)
(* completed the layout leads away from onboarding.                         *)
AllSeen == \A s \in Stages : seen[s] = "completed"

(***************************************************************************)
(* Seeded bugs, here and below under the names Definition_Bug.  Each is a  *)
(* plausible slip in the definition it is named for; README.md says which  *)
(* property tells it from the code.                                        *)
(***************************************************************************)
Reachable_Started(i) ==
  /\ ~AllSeen
  /\ \A h \in 2..i : seen[Flow[h - 1]] # "none"

Reachable(i) ==
  /\ ~AllSeen
  /\ \A h \in 2..i : seen[Flow[h]] # "none" \/ seen[Flow[h - 1]] = "completed"

(* A screen appears and starts its stage, without waiting for the answer *)
Show(j, i) ==
  /\ Reachable(i)
  /\ job[j].place = "idle"
  /\ job' = [job EXCEPT ![j] = Start(Flow[i])]
  /\ UNCHANGED <<progress, order, address, seen, cur, mishaps, history>>

Request_NoCheck(s) ==
  CASE s = "ORDER_PLAN" -> IF cur = NoOrder THEN {"create"} ELSE {"update"}
    [] s = "ADDRESS" -> {"address"}
    [] s \in {"ORDER_MSISDN", "ORDER_SIM_TYPE"} -> {"update"}
    [] s = "ORDER_CONFIRM" -> {"confirm"}
    [] s = "ORDER_PROCESS" -> IF cur = NoOrder \/ order[cur].status = "ENDED" THEN {"read"} ELSE {}

(* What the button of a stage asks of the server first.  Without an order  *)
(* the screens that would update or confirm it do nothing.                 *)
Request(s) ==
  CASE s = "ORDER_PLAN" -> IF cur = NoOrder THEN {"create"} ELSE {"update"}
    [] s = "ADDRESS" -> {"address"}
    [] s \in {"ORDER_MSISDN", "ORDER_SIM_TYPE"} -> IF cur = NoOrder THEN {} ELSE {"update"}
    [] s = "ORDER_CONFIRM" -> IF cur = NoOrder THEN {} ELSE {"confirm"}
    [] s = "ORDER_PROCESS" -> IF cur = NoOrder \/ order[cur].status = "ENDED" THEN {"read"} ELSE {}

Working(s) == \E k \in Jobs : job[k].done /\ job[k].heard /\ job[k].stage = s

(* The mount, or another press, may yet set the current order *)
OrderAwaited == \E k \in Jobs : job[k].place \in {"create", "order", "orders", "mounted"}

(* The button of screen i: handleDone, onContinue.  Two screens disable it  *)
(* while it works.                                                          *)
Press(j, i) ==
  LET s == Flow[i] IN
  /\ Reachable(i)
  /\ job[j].place = "idle"
  /\ s \in {"ADDRESS", "ORDER_CONFIRM"} => ~Working(s)
  /\ \E r \in Request(s) :
       /\ r = "create" => \E o \in Orders : IsNext(o)
       /\ job' = [job EXCEPT ![j] = [place |-> r, done |-> TRUE, stage |-> s,
                                     order |-> IF r \in {"update", "confirm"} THEN cur ELSE NoOrder,
                                     heard |-> TRUE]]
       /\ history' = IF r = "create" /\ OrderAwaited
                       THEN history \cup {"overlapped"} ELSE history
  /\ UNCHANGED <<progress, order, address, seen, cur, mishaps>>

-----------------------------------------------------------------------------
(* The server.  createMyOrder: the new order is the newest. *)
Create(j) ==
  /\ job[j].place = "create"
  /\ \E o \in Orders :
       /\ IsNext(o)
       /\ order' = [order EXCEPT ![o].status = "DRAFT"]
       /\ Answer(j, "order", o)
  /\ UNCHANGED <<progress, address, seen, cur, mishaps, history>>

(* updateMyOrder with an offer, a number to port or a type of SIM: refused *)
(* once the order is no draft                                              *)
UpdateOrder(j) ==
  LET o == job[j].order IN
  /\ job[j].place = "update"
  /\ IF order[o].status = "DRAFT"
       THEN /\ order' = [order EXCEPT ![o].simType = @ \/ job[j].stage = "ORDER_SIM_TYPE"]
            /\ Answer(j, "order", o)
       ELSE End(j) /\ UNCHANGED order
  /\ UNCHANGED <<progress, address, seen, cur, mishaps, history>>

(* changeMyAddress *)
ChangeAddress(j) ==
  /\ job[j].place = "address"
  /\ address' = TRUE
  /\ Answer(j, "read", NoOrder)
  /\ UNCHANGED <<progress, order, seen, cur, mishaps, history>>

(* confirmAddPlanDraft; the engine then takes the order up *)
ConfirmOrder(j) ==
  LET o == job[j].order IN
  /\ job[j].place = "confirm"
  /\ IF order[o].status = "DRAFT" /\ address
       THEN order' = [order EXCEPT ![o].status = "OPEN"] /\ Answer(j, "read", NoOrder)
       ELSE End(j) /\ UNCHANGED order
  /\ UNCHANGED <<progress, address, seen, cur, mishaps, history>>

EngineEnds(o) ==
  /\ order[o].status = "OPEN"
  /\ order' = [order EXCEPT ![o].status = "ENDED"]
  /\ UNCHANGED <<progress, address, seen, cur, job, mishaps, history>>

(* refresh of CurrentOrderProvider: the order it has, else the newest draft *)
Fetched(o) ==
  IF cur # NoOrder THEN o = cur
  ELSE IF Drafts = {} THEN o = NoOrder
  ELSE o \in Drafts /\ \A p \in Drafts : p <= o

FindOrder(j) ==
  /\ job[j].place = "orders"
  /\ \E o \in Orders \cup {NoOrder} : Fetched(o) /\ Answer(j, "mounted", o)
  /\ UNCHANGED <<progress, order, address, seen, cur, mishaps, history>>

(* What changeProgress may find when stage s is to be completed: findFirst *)
(* returns any order that fits its conditions                              *)
Found(s) == IF s \in {"ORDER_PLAN", "ORDER_MSISDN", "ORDER_SIM_TYPE"} THEN Drafts ELSE Existing

Suits_Unended(s, o) ==
  CASE s = "ORDER_SIM_TYPE" -> order[o].simType
    [] s = "ORDER_CONFIRM" -> \A l \in Listed : progress[l] = "completed"
    [] s = "ORDER_PROCESS" -> order[o].status \in {"OPEN", "ENDED"}
    [] OTHER -> TRUE

Suits(s, o) ==
  CASE s = "ORDER_SIM_TYPE" -> order[o].simType
    [] s = "ORDER_CONFIRM" -> /\ \A l \in Listed : progress[l] = "completed"
                              /\ order[o].status # "DRAFT"
    [] s = "ORDER_PROCESS" -> order[o].status = "ENDED"
    [] OTHER -> TRUE

Verdicts(s) ==
  IF s = "ADDRESS" THEN {address}
  ELSE IF Found(s) = {} THEN {FALSE}
  ELSE {Suits(s, o) : o \in Found(s)}

(* changeProgress reads.  A stage that is completed is not started again. *)
ReadProgress(j) ==
  LET s == job[j].stage IN
  /\ job[j].place = "read"
  /\ \E accepted \in IF job[j].done THEN Verdicts(s) ELSE {progress[s] # "completed"} :
       job' = [job EXCEPT ![j] = IF accepted THEN [@ EXCEPT !.place = "write"] ELSE Idle]
  /\ UNCHANGED <<progress, order, address, seen, cur, mishaps, history>>

(* changeProgress writes: a start clears completedAt, even if the stage was *)
(* completed since it was read                                              *)
WriteProgress(j) ==
  LET s == job[j].stage IN
  /\ job[j].place = "write"
  /\ progress' = [progress EXCEPT ![s] = IF job[j].done THEN "completed" ELSE "started"]
  /\ Answer(j, "refresh", NoOrder)
  /\ history' = IF ~job[j].done /\ progress[s] = "completed"
                  THEN history \cup {"reopened"} ELSE history
  /\ UNCHANGED <<order, address, seen, cur, mishaps>>

-----------------------------------------------------------------------------
(* The app.  create and update keep the order they are answered with, then *)
(* the stage is completed.                                                 *)
KeepOrder_Forgets(j) ==
  /\ job[j].place = "order"
  /\ job' = [job EXCEPT ![j].place = "read", ![j].order = NoOrder]
  /\ UNCHANGED <<progress, order, address, seen, cur, mishaps, history>>

KeepOrder(j) ==
  /\ job[j].place = "order"
  /\ cur' = job[j].order
  /\ job' = [job EXCEPT ![j].place = "read", ![j].order = NoOrder]
  /\ UNCHANGED <<progress, order, address, seen, mishaps, history>>

(* The app is mounted: the order found, and the session's first refresh *)
Mounted(j) ==
  /\ job[j].place = "mounted"
  /\ cur' = job[j].order
  /\ seen' = progress
  /\ End(j)
  /\ UNCHANGED <<progress, order, address, mishaps, history>>

Index(s) == CHOOSE i \in DOMAIN Flow : Flow[i] = s

(* refresh of OnboardingProgressProvider.  After a completed stage the app *)
(* goes on to the next, or, after ORDER_PROCESS, clears the order.         *)
Refresh_Stays(j) ==
  LET s == job[j].stage IN
  /\ job[j].place = "refresh"
  /\ job' = [job EXCEPT ![j] = IF job[j].done /\ Index(s) < Len(Flow)
                                 THEN Start(Flow[Index(s) + 1]) ELSE Idle]
  /\ cur' = IF job[j].done /\ s = "ORDER_PROCESS" THEN NoOrder ELSE cur
  /\ UNCHANGED <<progress, order, address, seen, mishaps, history>>

Refresh(j) ==
  LET s == job[j].stage IN
  /\ job[j].place = "refresh"
  /\ seen' = progress
  /\ job' = [job EXCEPT ![j] = IF job[j].done /\ Index(s) < Len(Flow)
                                 THEN Start(Flow[Index(s) + 1]) ELSE Idle]
  /\ cur' = IF job[j].done /\ s = "ORDER_PROCESS" THEN NoOrder ELSE cur
  /\ UNCHANGED <<progress, order, address, mishaps, history>>

-----------------------------------------------------------------------------
(* Mishaps *)
Happens(e) == /\ mishaps < MaxMishaps
              /\ mishaps' = mishaps + 1
              /\ history' = history \cup {e}

(* A request, or the answer to it, is lost: the app sees an error *)
Lose(j) ==
  /\ job[j].place # "idle" /\ job[j].heard
  /\ \/ End(j)
     \/ job[j].place \in AtServer /\ job' = [job EXCEPT ![j].heard = FALSE]
  /\ Happens("lost")
  /\ UNCHANGED <<progress, order, address, seen, cur>>

(* The poll of ORDER_PROCESS, or a fetch at a mount, fails: the provider *)
(* puts null in the place of its order                                   *)
ForgetOrder ==
  /\ cur # NoOrder
  /\ cur' = NoOrder
  /\ Happens("lost")
  /\ UNCHANGED <<progress, order, address, seen, job>>

(* The app is closed and opened again: seen and cur come from its storage, *)
(* the server goes on with the requests it has.  The answer to a creation   *)
(* still under way is lost.                                                *)
Restart ==
  /\ \E j \in Jobs :
       /\ job[j].place \notin AtServer
       /\ job' = [k \in Jobs |->
            IF k = j THEN Mount
            ELSE IF job[k].place \in AtServer THEN [job[k] EXCEPT !.heard = FALSE] ELSE Idle]
  /\ Happens(IF \E k \in Jobs : job[k].place \in {"create", "order"} THEN "lost" ELSE "restarted")
  /\ UNCHANGED <<progress, order, address, seen, cur>>

(* The staff abort an order *)
AbortOrder(o) ==
  /\ order[o].status \in {"DRAFT", "OPEN"}
  /\ order' = [order EXCEPT ![o].status = "ENDED"]
  /\ Happens("aborted")
  /\ UNCHANGED <<progress, address, seen, cur, job>>

-----------------------------------------------------------------------------
User(j, i) == Show(j, i) \/ Press(j, i)

Server(j) ==
  \/ Create(j) \/ UpdateOrder(j) \/ ChangeAddress(j) \/ ConfirmOrder(j)
  \/ FindOrder(j) \/ ReadProgress(j) \/ WriteProgress(j)

App(j) == KeepOrder(j) \/ Mounted(j) \/ Refresh(j)

Next ==
  \/ \E j \in Jobs : Server(j) \/ App(j) \/ Lose(j) \/ \E i \in DOMAIN Flow : User(j, i)
  \/ \E o \in Orders : EngineEnds(o) \/ AbortOrder(o)
  \/ ForgetOrder \/ Restart

Spec == Init /\ [][Next]_vars

(* What is under way goes on, the engine ends what it is given, and the    *)
(* user does not give up on the first stage the app shows as not completed *)
FirstOpen(i) == /\ seen[Flow[i]] # "completed"
                /\ \A h \in 1..(i - 1) : seen[Flow[h]] = "completed"

PressFirst == \E j \in Jobs, i \in DOMAIN Flow : FirstOpen(i) /\ Press(j, i)

Fairness ==
  /\ \A j \in Jobs : WF_vars(Server(j) \/ App(j))
  /\ \A o \in Orders : WF_vars(EngineEnds(o))
  /\ SF_vars(PressFirst)

FairSpec == Spec /\ Fairness

-----------------------------------------------------------------------------
(* The app makes one order for a user, over several presses, screens and    *)
(* visits: a second draft comes about only if an answer was lost, the       *)
(* button was pressed again before the first answer, or a finished stage    *)
(* was opened again.  Neither a restart nor an abort does it by itself.     *)
SingleOrder ==
  Cardinality(Existing) > 1 => history \cap {"lost", "overlapped", "reopened"} # {}

(* The stages are completed in their order although the server asks only    *)
(* ORDER_CONFIRM for others, whatever is lost, repeated or restarted: the   *)
(* app's screens and its refreshes see to it.                               *)
InOrder ==
  "reopened" \notin history =>
    \A i, h \in DOMAIN Flow : h < i /\ progress[Flow[i]] = "completed" => progress[Flow[h]] = "completed"

(* What the progress says of the order holds of it at any later time: a     *)
(* user past ORDER_CONFIRM has an order that is no draft any more, and one  *)
(* past ORDER_PROCESS has one that has ended; the app lets a user into its  *)
(* main screens only on these terms.                                        *)
ProgressIsBacked ==
  /\ "ORDER_CONFIRM" \in Stages /\ progress["ORDER_CONFIRM"] = "completed" =>
       Existing \ Drafts # {}
  /\ "ORDER_PROCESS" \in Stages /\ seen["ORDER_PROCESS"] = "completed" =>
       \E o \in Orders : order[o].status = "ENDED"

(* A user who keeps pressing the button of the first open stage gets        *)
(* through, unless something happened that may cost them an order or a      *)
(* stage.                                                                   *)
Onboards == <>(AllSeen \/ history # {})
===============================================================================
