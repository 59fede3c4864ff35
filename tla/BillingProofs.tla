---------------------------- MODULE BillingProofs ----------------------------
(***************************************************************************)
(* Theorems about Billing, for any orders, invocations, costs and credits, *)
(* and any bounds on the environment.                                      *)
(***************************************************************************)
EXTENDS Billing, TLAPS, WellFoundedInduction, FiniteSetTheorems

(* An invocation of refund knows which invoice it is about. *)
RefundsHaveInvoice ==
  \A w \in Workers : pc[w] \in {"returnCredit", "returnMoney"} => job[w].on \in Invoices

(* The credits an invocation has read still provide what it read: credits   *)
(* are created, and used, but never taken back.                             *)
SeenStillProvided ==
  \A w \in Workers, c \in Credits : job[w].seen[c].provided <= credit[c].provided

-----------------------------------------------------------------------------
LEMMA NoJobType == NoJob \in Job
BY DEF NoJob, NoCredits, Job, CreditRow, Credits, Invoices, NoInvoice

(* What the loop of INVOICE takes from the credits it has read *)
LEMMA UsagesType ==
  ASSUME NEW seen, NEW u \in Usages(seen)
  PROVE  /\ u \in [Credits -> Nat]
         /\ \A c \in Credits : u[c] <= Left(seen[c])
         /\ Total(u, MaxCredits) \in 0 .. Cost
<1>1. u \in [Credits -> 0 .. Cost]
  BY DEF Usages
<1>2. u \in [Credits -> Nat]
  BY <1>1, BillingAssumption
<1>3. QED
  BY <1>2 DEF Usages

(* Returning from an invocation, and going on to another of its calls *)
LEMMA ReturnType ==
  ASSUME TypeOK, NEW w \in Workers, Return(w)
  PROVE  pc' \in [Workers -> Place] /\ job' \in [Workers -> Job]
BY NoJobType DEF TypeOK, Return, Place

LEMMA BeginType ==
  ASSUME TypeOK, NEW w \in Workers, NEW o \in Orders, NEW place \in Place, NEW locals \in Job,
         Begin(w, o, place, locals)
  PROVE  /\ pc' \in [Workers -> Place]
         /\ job' \in [Workers -> Job]
         /\ spent' \in [{"stop", "overlap", "refund"} -> Nat]
         /\ mishaps' \in [Orders -> SUBSET Mishap]
<1>1. pc' \in [Workers -> Place] /\ job' \in [Workers -> Job]
  BY DEF TypeOK, Begin
<1>2. spent' \in [{"stop", "overlap", "refund"} -> Nat]
  BY DEF TypeOK, Begin
<1>3. mishaps' \in [Orders -> SUBSET Mishap]
  BY DEF TypeOK, Begin, Mishap
<1>4. QED
  BY <1>1, <1>2, <1>3

LEMMA CreateCreditType ==
  ASSUME TypeOK, NEW amount \in Nat, CreateCredit(amount)
  PROVE  credit' \in [Credits -> CreditRow]
BY DEF TypeOK, CreateCredit, CreditRow

(* The updates of the local variables of an invocation *)
LEMMA JobOn ==
  ASSUME NEW j \in Job, NEW i \in Invoices
  PROVE  [j EXCEPT !.on = i] \in Job
BY DEF Job

LEMMA JobPaid ==
  ASSUME NEW j \in Job, NEW T \in SUBSET Invoices
  PROVE  [j EXCEPT !.todo = T, !.on = NoInvoice] \in Job
BY DEF Job

LEMMA JobBack ==
  ASSUME NEW j \in Job, NEW B \in SUBSET Credits
  PROVE  [j EXCEPT !.back = B] \in Job
BY DEF Job

(* The update of an invoice's status *)
LEMMA StatusType ==
  ASSUME TypeOK, NEW i, NEW s \in InvoiceStatus,
         invoice' = [invoice EXCEPT ![i].status = s]
  PROVE  invoice' \in [Invoices -> InvoiceRow] /\ \A j \in Invoices : invoice'[j].total >= 0
<1> DEFINE row == [invoice[i] EXCEPT !.status = s]
<1>1. CASE i \in Invoices
  <2>1. row \in InvoiceRow /\ row.total >= 0
    <3>1. invoice[i] \in InvoiceRow /\ invoice[i].total >= 0
      BY <1>1 DEF TypeOK
    <3>2. QED
      BY <3>1 DEF InvoiceRow
  <2>2. invoice' = [invoice EXCEPT ![i] = row]
    OBVIOUS
  <2> HIDE DEF row
  <2>3. QED
    BY <2>1, <2>2 DEF TypeOK
<1>2. CASE i \notin Invoices
  <2>1. invoice' = invoice
    BY <1>2 DEF TypeOK
  <2>2. QED
    BY <2>1 DEF TypeOK
<1>3. QED
  BY <1>1, <1>2

LEMMA InitTypeOK == Init => TypeOK
<1> SUFFICES ASSUME Init PROVE TypeOK
  OBVIOUS
<1>1. credit \in [Credits -> CreditRow]
  BY BillingAssumption DEF Init, CreditRow
<1>2. invoice \in [Invoices -> InvoiceRow]
  BY DEF Init, InvoiceRow, InvoiceStatus
<1>3. \A i \in Invoices : invoice[i].total >= 0
  BY DEF Init
<1>4. job \in [Workers -> Job]
  BY NoJobType DEF Init
<1>5. QED
  BY <1>1, <1>2, <1>3, <1>4 DEF Init, TypeOK, Stage, Place

LEMMA NextTypeOK == TypeOK /\ RefundsHaveInvoice /\ [Next]_vars => TypeOK'
<1> SUFFICES ASSUME TypeOK, RefundsHaveInvoice, [Next]_vars PROVE TypeOK'
  OBVIOUS
<1> USE DEF TypeOK
<1>1. ASSUME NEW w \in Workers, NEW o \in Orders, ReadCredits(w, o) PROVE TypeOK'
  <2> DEFINE locals == [NoJob EXCEPT !.order = o, !.seen = credit]
  <2>1. locals \in Job
    BY NoJobType DEF Job
  <2>2. "invoice" \in Place /\ Begin(w, o, "invoice", locals)
    BY <1>1 DEF ReadCredits, Place
  <2> HIDE DEF locals
  <2>3. QED
    BY <1>1, <2>1, <2>2, BeginType DEF ReadCredits
<1>2. ASSUME NEW w \in Workers, NEW o \in Orders, ReadInvoices(w, o) PROVE TypeOK'
  <2> DEFINE locals == [NoJob EXCEPT !.order = o, !.todo = OfOrder(o, "PENDING")]
  <2>1. locals \in Job
    BY NoJobType DEF Job, OfOrder
  <2>2. "pay" \in Place /\ Begin(w, o, "pay", locals)
    BY <1>2 DEF ReadInvoices, Place
  <2> HIDE DEF locals
  <2>3. QED
    BY <1>2, <2>1, <2>2, BeginType DEF ReadInvoices
<1>3. ASSUME NEW w \in Workers, NEW o \in Orders, ReadInvoicesToVoid(w, o) PROVE TypeOK'
  <2> DEFINE locals == [NoJob EXCEPT !.order = o, !.todo = OfOrder(o, "PENDING")]
  <2>1. locals \in Job
    BY NoJobType DEF Job, OfOrder
  <2>2. "void" \in Place /\ Begin(w, o, "void", locals)
    BY <1>3 DEF ReadInvoicesToVoid, Place
  <2> HIDE DEF locals
  <2>3. QED
    BY <1>3, <2>1, <2>2, BeginType DEF ReadInvoicesToVoid
<1>4. ASSUME NEW w \in Workers, CreateInvoice(w) PROVE TypeOK'
  <2>1. PICK u \in Usages(job[w].seen), i \in Invoices :
          /\ invoice' = [invoice EXCEPT ![i] =
               [status |-> "PENDING", order |-> job[w].order,
                total |-> Cost - Total(u, MaxCredits), usage |-> u]]
          /\ credit' = [c \in Credits |-> [credit[c] EXCEPT !.used = @ + u[c]]]
    BY <1>4 DEF CreateInvoice
  <2> DEFINE total == Cost - Total(u, MaxCredits)
             row == [status |-> "PENDING", order |-> job[w].order, total |-> total, usage |-> u]
  <2>2. u \in [Credits -> Nat] /\ total \in Nat
    BY <2>1, UsagesType, BillingAssumption
  <2> HIDE DEF total
  <2>3. row \in InvoiceRow /\ row.total >= 0
    BY <2>2 DEF InvoiceRow, InvoiceStatus, Job
  <2>4. invoice' = [invoice EXCEPT ![i] = row]
    BY <2>1 DEF total
  <2> HIDE DEF row
  <2>5. invoice' \in [Invoices -> InvoiceRow] /\ \A j \in Invoices : invoice'[j].total >= 0
    BY <2>3, <2>4
  <2>6. \A c \in Credits : [credit[c] EXCEPT !.used = @ + u[c]] \in CreditRow
    BY <2>2 DEF CreditRow
  <2>7. credit' \in [Credits -> CreditRow]
    BY <2>1, <2>6
  <2>8. QED
    BY <1>4, <2>5, <2>7 DEF CreateInvoice, Goto, Place
<1>5. ASSUME NEW w \in Workers, CreateInvoiceFails(w) PROVE TypeOK'
  BY <1>5, ReturnType DEF CreateInvoiceFails
<1>6. ASSUME NEW w \in Workers, InvoiceCompleted(w) PROVE TypeOK'
  <2>1. stage' \in [Orders -> Stage]
    BY <1>6 DEF InvoiceCompleted, Stage
  <2>2. QED
    BY <1>6, <2>1, ReturnType DEF InvoiceCompleted
<1>7. ASSUME NEW w \in Workers, NEW i \in Invoices, Pay(w, i) PROVE TypeOK'
  <2> DEFINE row == [job[w] EXCEPT !.on = i]
  <2>1. row \in Job
    BY JobOn
  <2>2. job' = [job EXCEPT ![w] = row]
    BY <1>7 DEF Pay
  <2> HIDE DEF row
  <2>3. payments' \in [Invoices -> Nat]
    BY <1>7 DEF Pay
  <2>4. QED
    BY <1>7, <2>1, <2>2, <2>3 DEF Pay, Goto, Place
<1>8. ASSUME NEW w \in Workers, NEW i \in Invoices, Void(w, i) PROVE TypeOK'
  <2>1. CASE invoice[i].status = "PENDING"
    <3> DEFINE row == [job[w] EXCEPT !.on = i]
    <3>1. row \in Job
      BY JobOn
    <3>2. job' = [job EXCEPT ![w] = row]
      BY <1>8, <2>1 DEF Void
    <3> HIDE DEF row
    <3>3. QED
      BY <1>8, <2>1, <3>1, <3>2 DEF Void, Goto, Place
  <2>2. CASE invoice[i].status # "PENDING"
    BY <1>8, <2>2, ReturnType DEF Void
  <2>3. QED
    BY <2>1, <2>2
<1>9. ASSUME NEW w \in Workers, MarkPaid(w) PROVE TypeOK'
  <2>1. invoice' \in [Invoices -> InvoiceRow] /\ \A i \in Invoices : invoice'[i].total >= 0
    BY <1>9, StatusType DEF MarkPaid, InvoiceStatus
  <2> DEFINE row == [job[w] EXCEPT !.todo = job[w].todo \ {job[w].on}, !.on = NoInvoice]
  <2>2. row \in Job
    <3>1. job[w] \in Job /\ job[w].todo \ {job[w].on} \in SUBSET Invoices
      BY DEF Job
    <3>2. QED
      BY <3>1, JobPaid
  <2>3. job' = [job EXCEPT ![w] = row]
    BY <1>9 DEF MarkPaid
  <2> HIDE DEF row
  <2>4. QED
    BY <1>9, <2>1, <2>2, <2>3 DEF MarkPaid, Goto, Place
<1>10. ASSUME NEW w \in Workers, MarkPaidFails(w) PROVE TypeOK'
  BY <1>10, ReturnType DEF MarkPaidFails
<1>11. ASSUME NEW w \in Workers, BillingCompleted(w) PROVE TypeOK'
  <2>1. stage' \in [Orders -> Stage]
    BY <1>11 DEF BillingCompleted, Stage
  <2>2. QED
    BY <1>11, <2>1, ReturnType DEF BillingCompleted
<1>12. ASSUME NEW w \in Workers, MarkVoid(w) PROVE TypeOK'
  <2>1. invoice' \in [Invoices -> InvoiceRow] /\ \A i \in Invoices : invoice'[i].total >= 0
    BY <1>12, StatusType DEF MarkVoid, InvoiceStatus
  <2> DEFINE row == [job[w] EXCEPT !.todo = job[w].todo \ {job[w].on}, !.on = NoInvoice]
  <2>2. row \in Job
    <3>1. job[w] \in Job /\ job[w].todo \ {job[w].on} \in SUBSET Invoices
      BY DEF Job
    <3>2. QED
      BY <3>1, JobPaid
  <2>3. job' = [job EXCEPT ![w] = row]
    BY <1>12 DEF MarkVoid
  <2> HIDE DEF row
  <2>4. QED
    BY <1>12, <2>1, <2>2, <2>3 DEF MarkVoid, Goto, Place
<1>13. ASSUME NEW w \in Workers, VoidCompleted(w) PROVE TypeOK'
  <2>1. stage' \in [Orders -> Stage]
    BY <1>13 DEF VoidCompleted, Stage
  <2>2. QED
    BY <1>13, <2>1, ReturnType DEF VoidCompleted
<1>14. ASSUME NEW w \in Workers, NEW c \in Credits, ReturnCredit(w, c) PROVE TypeOK'
  <2>1. job[w].on \in Invoices
    BY <1>14 DEF RefundsHaveInvoice, ReturnCredit
  <2>2. invoice[job[w].on].usage[c] \in Nat
    BY <2>1 DEF InvoiceRow
  <2>3. credit' \in [Credits -> CreditRow]
    BY <1>14, <2>2, CreateCreditType DEF ReturnCredit
  <2>4. returned' \in [Invoices -> Nat]
    BY <1>14, <2>1, <2>2 DEF ReturnCredit
  <2> DEFINE row == [job[w] EXCEPT !.back = @ \ {c}]
  <2>5. row \in Job
    <3>1. job[w] \in Job /\ job[w].back \ {c} \in SUBSET Credits
      BY DEF Job
    <3>2. QED
      BY <3>1, JobBack
  <2>6. job' = [job EXCEPT ![w] = row]
    BY <1>14 DEF ReturnCredit
  <2> HIDE DEF row
  <2>7. QED
    BY <1>14, <2>3, <2>4, <2>5, <2>6 DEF ReturnCredit
<1>15. ASSUME NEW w \in Workers, CreditsReturned(w) PROVE TypeOK'
  BY <1>15 DEF CreditsReturned, Goto, Place
<1>16. ASSUME NEW w \in Workers, ReturnMoney(w) PROVE TypeOK'
  <2>1. job[w].on \in Invoices
    BY <1>16 DEF RefundsHaveInvoice, ReturnMoney
  <2>2. invoice[job[w].on].total \in Nat
    BY <2>1 DEF InvoiceRow
  <2>3. credit' \in [Credits -> CreditRow]
    BY <1>16, <2>2, CreateCreditType DEF ReturnMoney
  <2>4. returned' \in [Invoices -> Nat]
    BY <1>16, <2>1, <2>2 DEF ReturnMoney
  <2>5. QED
    BY <1>16, <2>3, <2>4 DEF ReturnMoney, Goto, Place
<1>17. ASSUME NEW w \in Workers, MarkRefunded(w) PROVE TypeOK'
  <2>1. invoice' \in [Invoices -> InvoiceRow] /\ \A i \in Invoices : invoice'[i].total >= 0
    BY <1>17, StatusType DEF MarkRefunded, InvoiceStatus
  <2>2. QED
    BY <1>17, <2>1, ReturnType DEF MarkRefunded
<1>18. ASSUME NEW w \in Workers, Stop(w) PROVE TypeOK'
  <2>1. mishaps' \in [Orders -> SUBSET Mishap]
    BY <1>18 DEF Stop, Mishap
  <2>2. QED
    BY <1>18, <2>1, ReturnType DEF Stop
<1>19. ASSUME NEW w \in Workers, NEW i \in Invoices, NEW asCredit \in BOOLEAN,
              Refund(w, i, asCredit)
       PROVE  TypeOK'
  <2>1. mishaps' \in [Orders -> SUBSET Mishap]
    BY <1>19 DEF Refund, Mishap
  <2>2. job' \in [Workers -> Job]
    BY <1>19, NoJobType DEF Refund, Job
  <2>3. QED
    BY <1>19, <2>1, <2>2 DEF Refund, Goto, Place
<1>20. ASSUME NEW o \in Orders, Abort(o) PROVE TypeOK'
  BY <1>20 DEF Abort, Stage
<1>21. CASE UNCHANGED vars
  BY <1>21 DEF vars
<1>22. QED
  BY <1>1, <1>2, <1>3, <1>4, <1>5, <1>6, <1>7, <1>8, <1>9, <1>10, <1>11, <1>12, <1>13,
     <1>14, <1>15, <1>16, <1>17, <1>18, <1>19, <1>20, <1>21
     DEF Next, StepBegins, InvocationStep

LEMMA InitRefunds == Init => RefundsHaveInvoice
BY DEF Init, RefundsHaveInvoice

LEMMA NextRefunds == TypeOK /\ RefundsHaveInvoice /\ [Next]_vars => RefundsHaveInvoice'
<1> SUFFICES ASSUME TypeOK, RefundsHaveInvoice, [Next]_vars PROVE RefundsHaveInvoice'
  OBVIOUS
<1> USE DEF TypeOK, RefundsHaveInvoice
<1>1. ASSUME NEW w \in Workers, NEW o \in Orders, StepBegins(w, o) PROVE RefundsHaveInvoice'
  BY <1>1 DEF StepBegins, ReadCredits, ReadInvoices, ReadInvoicesToVoid, Begin
<1>2. ASSUME NEW w \in Workers, Return(w) PROVE RefundsHaveInvoice'
  BY <1>2 DEF Return
<1>3. ASSUME NEW w \in Workers, NEW place \in Place \ {"returnCredit", "returnMoney"},
             \A v \in Workers \ {w} : job'[v] = job[v],
             Goto(w, place)
      PROVE  RefundsHaveInvoice'
  BY <1>3 DEF Goto
<1>4. ASSUME NEW w \in Workers, InvocationStep(w) PROVE RefundsHaveInvoice'
  <2>1. CASE CreateInvoiceFails(w) \/ InvoiceCompleted(w) \/ MarkPaidFails(w)
             \/ BillingCompleted(w) \/ VoidCompleted(w) \/ MarkRefunded(w)
    BY <1>2, <2>1 DEF CreateInvoiceFails, InvoiceCompleted, MarkPaidFails, BillingCompleted,
                      VoidCompleted, MarkRefunded
  <2>2. CASE CreateInvoice(w)
    BY <1>3, <2>2 DEF CreateInvoice, Place
  <2>3. CASE MarkPaid(w) \/ MarkVoid(w)
    BY <1>3, <2>3 DEF MarkPaid, MarkVoid, Place
  <2>4. ASSUME NEW i \in Invoices, Pay(w, i) PROVE RefundsHaveInvoice'
    BY <1>3, <2>4 DEF Pay, Place
  <2>5. ASSUME NEW i \in Invoices, Void(w, i) PROVE RefundsHaveInvoice'
    BY <1>2, <1>3, <2>5 DEF Void, Place
  <2>6. ASSUME NEW c \in Credits, ReturnCredit(w, c) PROVE RefundsHaveInvoice'
    BY <2>6 DEF ReturnCredit, Job
  <2>7. CASE CreditsReturned(w)
    BY <2>7 DEF CreditsReturned, Goto
  <2>8. CASE ReturnMoney(w)
    BY <1>3, <2>8 DEF ReturnMoney, Place
  <2>9. QED
    BY <1>4, <2>1, <2>2, <2>3, <2>4, <2>5, <2>6, <2>7, <2>8 DEF InvocationStep
<1>5. ASSUME NEW w \in Workers, NEW i \in Invoices, NEW asCredit \in BOOLEAN,
             Refund(w, i, asCredit)
      PROVE  RefundsHaveInvoice'
  BY <1>5, NoJobType DEF Refund, Goto, Job
<1>6. ASSUME NEW w \in Workers, Stop(w) PROVE RefundsHaveInvoice'
  BY <1>2, <1>6 DEF Stop
<1>7. CASE (\E o \in Orders : Abort(o)) \/ UNCHANGED vars
  BY <1>7 DEF Abort, vars
<1>8. QED
  BY <1>1, <1>4, <1>5, <1>6, <1>7 DEF Next

(* Every state of every behaviour has the right types: the payment, usage   *)
(* and refund of any order at any time keep amounts natural numbers, and no *)
(* invoice's total is ever negative, whatever credits it drew on.           *)
THEOREM BillingTypeCorrect == Spec => []TypeOK
<1>1. Init => TypeOK /\ RefundsHaveInvoice
  BY InitTypeOK, InitRefunds
<1>2. TypeOK /\ RefundsHaveInvoice /\ [Next]_vars => (TypeOK /\ RefundsHaveInvoice)'
  BY NextTypeOK, NextRefunds
<1>3. QED
  BY <1>1, <1>2, PTL DEF Spec

-----------------------------------------------------------------------------
(* The inductive invariant: alone, CreditsNotOverdrawn is not preserved by  *)
(* an invocation that read a credit which provides less since.              *)
Overdrawing == TypeOK /\ RefundsHaveInvoice /\ SeenStillProvided /\ CreditsNotOverdrawn

(* An action that changes no credit and makes no invocation see more *)
LEMMA CreditsUntouched ==
  ASSUME Overdrawing, UNCHANGED credit,
         \A w \in Workers : job'[w].seen \in {job[w].seen, NoCredits}
  PROVE  SeenStillProvided' /\ CreditsNotOverdrawn'
<1>1. CreditsNotOverdrawn'
  BY DEF Overdrawing, CreditsNotOverdrawn
<1>2. ASSUME NEW w \in Workers, NEW c \in Credits
      PROVE  job'[w].seen[c].provided <= credit'[c].provided
  <2>1. CASE job'[w].seen = job[w].seen
    BY <2>1 DEF Overdrawing, SeenStillProvided
  <2>2. CASE job'[w].seen = NoCredits
    BY <2>2 DEF Overdrawing, TypeOK, NoCredits, CreditRow
  <2>3. QED
    BY <2>1, <2>2
<1>3. QED
  BY <1>1, <1>2 DEF SeenStillProvided

(* A credit that is created takes the place of one that provided nothing *)
LEMMA CreditCreated ==
  ASSUME Overdrawing, NEW amount \in Nat, CreateCredit(amount),
         \A w \in Workers : job'[w].seen = job[w].seen
  PROVE  SeenStillProvided' /\ CreditsNotOverdrawn'
<1>1. PICK d \in Credits :
        /\ credit[d].provided = 0
        /\ credit' = [credit EXCEPT ![d] = [provided |-> amount, used |-> 0]]
  BY DEF CreateCredit
<1>2. credit \in [Credits -> CreditRow]
  BY DEF Overdrawing, TypeOK
<1>3. ASSUME NEW c \in Credits
      PROVE  credit'[c].provided >= credit[c].provided /\ credit'[c].used <= credit'[c].provided
  <2>1. CASE c = d
    BY <1>1, <1>2, <2>1 DEF CreditRow
  <2>2. CASE c # d
    <3>1. credit'[c] = credit[c]
      BY <1>1, <1>2, <2>2
    <3>2. QED
      BY <1>2, <3>1 DEF Overdrawing, CreditsNotOverdrawn, CreditRow
  <2>3. QED
    BY <2>1, <2>2
<1>4. ASSUME NEW w \in Workers, NEW c \in Credits
      PROVE  job'[w].seen[c].provided <= credit'[c].provided
  <2>1. credit'[c].provided \in Nat
    BY <1>2, CreateCreditType DEF Overdrawing, CreditRow
  <2>2. job[w].seen[c].provided \in Nat /\ credit[c].provided \in Nat
    BY <1>2 DEF Overdrawing, TypeOK, Job, CreditRow
  <2>3. job[w].seen[c].provided <= credit[c].provided
    BY DEF Overdrawing, SeenStillProvided
  <2>4. QED
    BY <1>3, <2>1, <2>2, <2>3
<1>5. QED
  BY <1>3, <1>4 DEF SeenStillProvided, CreditsNotOverdrawn

(* The transaction of INVOICE: what it uses of a credit is left over in the *)
(* row as it was read, and the row is used as much as it was then.          *)
LEMMA InvoiceCreated ==
  ASSUME Overdrawing, NEW w \in Workers, CreateInvoice(w)
  PROVE  SeenStillProvided' /\ CreditsNotOverdrawn'
<1>1. PICK u \in Usages(job[w].seen) :
        /\ NotUsedSince(job[w].seen, u)
        /\ credit' = [c \in Credits |-> [credit[c] EXCEPT !.used = @ + u[c]]]
  BY DEF CreateInvoice
<1>2. u \in [Credits -> Nat] /\ \A c \in Credits : u[c] <= Left(job[w].seen[c])
  BY <1>1, UsagesType
<1>3. credit \in [Credits -> CreditRow] /\ job \in [Workers -> Job] /\ job' = job
  BY DEF Overdrawing, TypeOK, CreateInvoice
<1>4. ASSUME NEW c \in Credits
      PROVE  credit'[c].provided = credit[c].provided /\ credit'[c].used = credit[c].used + u[c]
  BY <1>1, <1>3 DEF CreditRow
<1>5. ASSUME NEW c \in Credits
      PROVE  credit[c].used + u[c] <= credit[c].provided
  <2> DEFINE seen == job[w].seen[c]
  <2>1. seen.provided \in Nat /\ seen.used \in Nat
    BY <1>3 DEF Job, CreditRow
  <2>2. credit[c].provided \in Nat /\ credit[c].used \in Nat /\ u[c] \in Nat
    BY <1>2, <1>3 DEF CreditRow
  <2>3. CASE u[c] = 0
    BY <2>2, <2>3 DEF Overdrawing, CreditsNotOverdrawn
  <2>4. CASE u[c] > 0
    <3>1. credit[c].used = seen.used
      BY <1>1, <2>4 DEF NotUsedSince
    <3>2. u[c] <= seen.provided - seen.used
      BY <1>2 DEF Left
    <3>3. seen.provided <= credit[c].provided
      BY DEF Overdrawing, SeenStillProvided
    <3> HIDE DEF seen
    <3>4. QED
      BY <2>1, <2>2, <3>1, <3>2, <3>3
  <2>5. QED
    BY <2>2, <2>3, <2>4
<1>6. QED
  BY <1>3, <1>4, <1>5 DEF Overdrawing, SeenStillProvided, CreditsNotOverdrawn

LEMMA NextOverdrawing ==
  Overdrawing /\ [Next]_vars => SeenStillProvided' /\ CreditsNotOverdrawn'
<1> SUFFICES ASSUME Overdrawing, [Next]_vars PROVE SeenStillProvided' /\ CreditsNotOverdrawn'
  OBVIOUS
<1> DEFINE Goal == SeenStillProvided' /\ CreditsNotOverdrawn'
<1>1. job \in [Workers -> Job] /\ TypeOK
  BY DEF Overdrawing, TypeOK
<1>2. NoJob.seen = NoCredits
  BY DEF NoJob
<1> HIDE DEF Goal
<1>3. ASSUME NEW w \in Workers, NEW o \in Orders, ReadCredits(w, o) PROVE Goal
  <2>1. credit' = credit /\ job' = [job EXCEPT ![w] = [NoJob EXCEPT !.order = o, !.seen = credit]]
    BY <1>3 DEF ReadCredits, Begin
  <2>2. job'[w].seen = credit
    BY <1>1, <2>1, NoJobType DEF Job
  <2>3. \A v \in Workers \ {w} : job'[v] = job[v]
    BY <1>1, <2>1
  <2>4. CreditsNotOverdrawn'
    BY <2>1 DEF Overdrawing, CreditsNotOverdrawn
  <2>5. \A c \in Credits : credit[c].provided <= credit[c].provided
    BY DEF Overdrawing, TypeOK, CreditRow
  <2>6. SeenStillProvided'
    BY <2>1, <2>2, <2>3, <2>5 DEF Overdrawing, SeenStillProvided
  <2>7. QED
    BY <2>4, <2>6 DEF Goal
<1>4. ASSUME NEW w \in Workers, UNCHANGED credit, job'[w].seen \in {job[w].seen, NoCredits},
             \A v \in Workers \ {w} : job'[v] = job[v]
      PROVE  Goal
  BY <1>4, CreditsUntouched DEF Goal
<1>5. ASSUME NEW w \in Workers, NEW o \in Orders, ReadInvoices(w, o) \/ ReadInvoicesToVoid(w, o)
      PROVE  Goal
  <2>1. PICK locals \in {[NoJob EXCEPT !.order = o, !.todo = OfOrder(o, "PENDING")]} :
          job' = [job EXCEPT ![w] = locals]
    BY <1>5 DEF ReadInvoices, ReadInvoicesToVoid, Begin
  <2>2. locals.seen = NoCredits
    BY <1>2, <2>1, NoJobType DEF Job
  <2>3. job'[w].seen = NoCredits
    BY <1>1, <2>1, <2>2
  <2>4. QED
    BY <1>1, <1>4, <1>5, <2>1, <2>3 DEF ReadInvoices, ReadInvoicesToVoid
<1>6. ASSUME NEW w \in Workers, Return(w), UNCHANGED credit PROVE Goal
  BY <1>1, <1>2, <1>4, <1>6 DEF Return
<1>7. ASSUME NEW w \in Workers, InvocationStep(w) PROVE Goal
  <2>1. CASE CreateInvoice(w)
    BY <2>1, InvoiceCreated DEF Goal
  <2>2. CASE CreateInvoiceFails(w) \/ InvoiceCompleted(w) \/ MarkPaidFails(w)
             \/ BillingCompleted(w) \/ VoidCompleted(w) \/ MarkRefunded(w)
    BY <1>6, <2>2 DEF CreateInvoiceFails, InvoiceCompleted, MarkPaidFails, BillingCompleted,
                      VoidCompleted, MarkRefunded
  <2>3. CASE MarkPaid(w) \/ MarkVoid(w)
    <3>1. job'[w].seen = job[w].seen
      BY <1>1, <2>3 DEF MarkPaid, MarkVoid, Job
    <3>2. QED
      BY <1>1, <1>4, <2>3, <3>1 DEF MarkPaid, MarkVoid
  <2>4. ASSUME NEW i \in Invoices, Pay(w, i) PROVE Goal
    <3>1. job'[w].seen = job[w].seen
      BY <1>1, <2>4 DEF Pay, Job
    <3>2. QED
      BY <1>1, <1>4, <2>4, <3>1 DEF Pay
  <2>5. ASSUME NEW i \in Invoices, Void(w, i) PROVE Goal
    <3>1. CASE invoice[i].status = "PENDING"
      <4>1. job'[w].seen = job[w].seen
        BY <1>1, <2>5, <3>1 DEF Void, Job
      <4>2. QED
        BY <1>1, <1>4, <2>5, <3>1, <4>1 DEF Void
    <3>2. CASE invoice[i].status # "PENDING"
      BY <1>6, <2>5, <3>2 DEF Void
    <3>3. QED
      BY <3>1, <3>2
  <2>6. ASSUME NEW c \in Credits, ReturnCredit(w, c) PROVE Goal
    <3>1. job[w].on \in Invoices
      BY <2>6 DEF Overdrawing, RefundsHaveInvoice, ReturnCredit
    <3>2. invoice[job[w].on].usage[c] \in Nat
      BY <1>1, <3>1 DEF TypeOK, InvoiceRow
    <3>3. \A v \in Workers : job'[v].seen = job[v].seen
      BY <1>1, <2>6 DEF ReturnCredit, Job
    <3>4. QED
      BY <2>6, <3>2, <3>3, CreditCreated DEF ReturnCredit, Goal
  <2>7. CASE CreditsReturned(w)
    BY <1>4, <2>7 DEF CreditsReturned
  <2>8. CASE ReturnMoney(w)
    <3>1. job' = job
      BY <2>8 DEF ReturnMoney
    <3>2. CASE UNCHANGED credit
      BY <1>4, <3>1, <3>2
    <3>3. CASE CreateCredit(invoice[job[w].on].total)
      <4>1. job[w].on \in Invoices
        BY <2>8 DEF Overdrawing, RefundsHaveInvoice, ReturnMoney
      <4>2. invoice[job[w].on].total \in Nat
        BY <1>1, <4>1 DEF TypeOK, InvoiceRow
      <4>3. QED
        BY <3>1, <3>3, <4>2, CreditCreated DEF Goal
    <3>4. QED
      BY <2>8, <3>2, <3>3 DEF ReturnMoney
  <2>9. QED
    BY <1>7, <2>1, <2>2, <2>3, <2>4, <2>5, <2>6, <2>7, <2>8 DEF InvocationStep
<1>8. ASSUME NEW w \in Workers, NEW i \in Invoices, NEW asCredit \in BOOLEAN,
             Refund(w, i, asCredit)
      PROVE  Goal
  <2>1. job'[w].seen = NoCredits
    BY <1>1, <1>2, <1>8, NoJobType DEF Refund, Job
  <2>2. QED
    BY <1>1, <1>4, <1>8, <2>1 DEF Refund
<1>9. ASSUME NEW w \in Workers, Stop(w) PROVE Goal
  BY <1>6, <1>9 DEF Stop
<1>10. CASE (\E o \in Orders : Abort(o)) \/ UNCHANGED vars
  BY <1>10, CreditsUntouched DEF Abort, vars, Goal
<1>11. QED
  BY <1>3, <1>5, <1>7, <1>8, <1>9, <1>10 DEF Next, StepBegins, Goal

LEMMA InitOverdrawing == Init => SeenStillProvided /\ CreditsNotOverdrawn
<1> SUFFICES ASSUME Init PROVE SeenStillProvided /\ CreditsNotOverdrawn
  OBVIOUS
<1>1. credit \in [Credits -> CreditRow] /\ \A c \in Credits : credit[c].used = 0
  BY InitTypeOK DEF Init, TypeOK
<1>2. \A w \in Workers, c \in Credits : job[w].seen[c].provided = 0
  BY DEF Init, NoJob, NoCredits
<1>3. QED
  BY <1>1, <1>2 DEF SeenStillProvided, CreditsNotOverdrawn, CreditRow

(* No credit is ever used beyond what it provides, however many orders and  *)
(* overlapping invocations of the INVOICE step draw on it at once, whatever *)
(* refunds create meanwhile: the check on usedCost in useCredits is enough. *)
THEOREM NoOverdraft == Spec => []CreditsNotOverdrawn
<1>1. Init => Overdrawing
  BY InitTypeOK, InitRefunds, InitOverdrawing DEF Overdrawing
<1>2. Overdrawing /\ [Next]_vars => Overdrawing'
  BY NextTypeOK, NextRefunds, NextOverdrawing DEF Overdrawing
<1>3. Overdrawing => CreditsNotOverdrawn
  BY DEF Overdrawing
<1>4. QED
  BY <1>1, <1>2, <1>3, PTL DEF Spec

-----------------------------------------------------------------------------
(***************************************************************************)
(* Sums.  Total is a recursive function; what it satisfies is proved by    *)
(* induction up to n, for which UpTo asks for a set that holds the numbers *)
(* reached.                                                                *)
(***************************************************************************)
Below == {p \in Nat \X Nat : p[1] < p[2]}

LEMMA BelowWellFounded == IsWellFoundedOn(Below, Nat)
BY NatLessThanWellFounded DEF Below, OpToRel

(* Induction: a set with 0 and with the successors of its elements up to n  *)
LEMMA UpTo ==
  ASSUME NEW n \in Nat, NEW S, 0 \in S, \A k \in 1 .. n : k - 1 \in S => k \in S
  PROVE  \A k \in 0 .. n : k \in S
<1> DEFINE T == {k \in 0 .. n : k \notin S}
<1>1. SUFFICES ASSUME T # {} PROVE FALSE
  OBVIOUS
<1>2. PICK m \in T : \A k \in T : <<k, m>> \notin Below
  <2>1. T \subseteq Nat
    OBVIOUS
  <2> HIDE DEF T
  <2>2. QED
    BY <1>1, <2>1, BelowWellFounded, WFMin
<1>3. m \in 1 .. n
  OBVIOUS
<1>4. m - 1 \notin T
  <2>1. m - 1 \in Nat /\ m \in Nat /\ m - 1 < m
    BY <1>3
  <2>2. <<m - 1, m>> \in Below
    BY <2>1 DEF Below
  <2>3. QED
    BY <1>2, <2>2
<1>5. QED
  BY <1>3, <1>4

(* s[k] is the sum of the first k values of f *)
IsSum(s, f, n) ==
  /\ s \in [0 .. n -> Int]
  /\ s[0] = 0
  /\ \A k \in 1 .. n : s[k] = s[k - 1] + f[k]

LEMMA TotalIsSum ==
  ASSUME NEW n \in Nat, NEW f, \A k \in 1 .. n : f[k] \in Int
  PROVE  \E s : IsSum(s, f, n) /\ Total(f, n) = s[n]
<1> DEFINE S == {m \in 0 .. n : \E s \in [0 .. m -> Int] : IsSum(s, f, m)}
<1>1. 0 \in S
  <2>1. [k \in 0 .. 0 |-> 0] \in [0 .. 0 -> Int] /\ IsSum([k \in 0 .. 0 |-> 0], f, 0)
    BY DEF IsSum
  <2>2. QED
    BY <2>1
<1>2. ASSUME NEW m \in 1 .. n, m - 1 \in S PROVE m \in S
  <2>1. PICK s \in [0 .. m - 1 -> Int] : IsSum(s, f, m - 1)
    BY <1>2
  <2> DEFINE t == [k \in 0 .. m |-> IF k = m THEN s[m - 1] + f[m] ELSE s[k]]
  <2>2. s[m - 1] \in Int /\ f[m] \in Int
    OBVIOUS
  <2>3. t \in [0 .. m -> Int]
    BY <2>2
  <2>4. IsSum(t, f, m)
    BY <2>1, <2>2, <2>3 DEF IsSum
  <2>5. QED
    BY <2>3, <2>4
<1>3. n \in S
  <2> HIDE DEF S
  <2>1. QED
    BY <1>1, <1>2, UpTo
<1>4. PICK s \in [0 .. n -> Int] : IsSum(s, f, n)
  BY <1>3
<1> DEFINE g == CHOOSE g : g = [k \in 0 .. n |-> IF k = 0 THEN 0 ELSE g[k - 1] + f[k]]
<1>5. s = [k \in 0 .. n |-> IF k = 0 THEN 0 ELSE s[k - 1] + f[k]]
  BY <1>4 DEF IsSum
<1>6. g = [k \in 0 .. n |-> IF k = 0 THEN 0 ELSE g[k - 1] + f[k]]
  BY <1>5
<1>7. Total(f, n) = g[n]
  BY DEF Total
<1>8. g = s
  <2> HIDE DEF g
  <2> DEFINE R == {k \in 0 .. n : g[k] = s[k]}
  <2>1. 0 \in R
    BY <1>5, <1>6
  <2>2. ASSUME NEW k \in 1 .. n, k - 1 \in R PROVE k \in R
    BY <1>5, <1>6, <2>2
  <2>3. \A k \in 0 .. n : k \in R
    <3> HIDE DEF R
    <3>1. QED
      BY <2>1, <2>2, UpTo
  <2>4. QED
    BY <1>5, <1>6, <2>3
<1>9. QED
  BY <1>4, <1>7, <1>8

LEMMA TotalType ==
  ASSUME NEW n \in Nat, NEW f, \A k \in 1 .. n : f[k] \in Int
  PROVE  Total(f, n) \in Int
<1>1. PICK s : IsSum(s, f, n) /\ Total(f, n) = s[n]
  BY TotalIsSum
<1>2. QED
  BY <1>1 DEF IsSum

LEMMA TotalOfZeros ==
  ASSUME NEW n \in Nat, NEW f, \A k \in 1 .. n : f[k] = 0
  PROVE  Total(f, n) = 0
<1>1. PICK s : IsSum(s, f, n) /\ Total(f, n) = s[n]
  BY TotalIsSum
<1> DEFINE S == {k \in 0 .. n : s[k] = 0}
<1>2. 0 \in S /\ \A k \in 1 .. n : k - 1 \in S => k \in S
  BY <1>1 DEF IsSum
<1>3. n \in S
  <2> HIDE DEF S
  <2>1. QED
    BY <1>2, UpTo
<1>4. QED
  BY <1>1, <1>3

(* A sum in which the value at i is another one *)
LEMMA TotalChange ==
  ASSUME NEW n \in Nat, NEW f, NEW g, NEW i \in 1 .. n,
         \A k \in 1 .. n : f[k] \in Int /\ g[k] \in Int,
         \A k \in 1 .. n : k # i => g[k] = f[k]
  PROVE  Total(g, n) = Total(f, n) + (g[i] - f[i])
<1>1. PICK s : IsSum(s, f, n) /\ Total(f, n) = s[n]
  BY TotalIsSum
<1>2. PICK t : IsSum(t, g, n) /\ Total(g, n) = t[n]
  BY TotalIsSum
<1>3. g[i] - f[i] \in Int
  OBVIOUS
<1> DEFINE S == {k \in 0 .. n : t[k] = s[k] + (IF k < i THEN 0 ELSE g[i] - f[i])}
<1>4. 0 \in S
  BY <1>1, <1>2 DEF IsSum
<1>5. ASSUME NEW k \in 1 .. n, k - 1 \in S PROVE k \in S
  <2>1. s[k] = s[k - 1] + f[k] /\ t[k] = t[k - 1] + g[k] /\ s[k - 1] \in Int /\ t[k - 1] \in Int
    BY <1>1, <1>2 DEF IsSum
  <2>2. CASE k < i
    BY <1>5, <2>1, <2>2
  <2>3. CASE k = i
    BY <1>5, <2>1, <2>3
  <2>4. CASE k > i
    BY <1>5, <2>1, <2>4
  <2>5. QED
    BY <2>2, <2>3, <2>4
<1>6. n \in S
  <2> HIDE DEF S
  <2>1. QED
    BY <1>4, <1>5, UpTo
<1>7. QED
  BY <1>1, <1>2, <1>6

LEMMA TotalSame ==
  ASSUME NEW n \in Nat, NEW f, NEW g,
         \A k \in 1 .. n : f[k] \in Int /\ g[k] = f[k]
  PROVE  Total(g, n) = Total(f, n)
<1>1. CASE n = 0
  <2>1. Total(f, n) = 0 /\ Total(g, n) = 0
    BY <1>1, TotalOfZeros
  <2>2. QED
    BY <2>1
<1>2. CASE n # 0
  <2>1. 1 \in 1 .. n /\ g[1] - f[1] = 0
    BY <1>2
  <2>2. Total(g, n) = Total(f, n) + (g[1] - f[1])
    BY <2>1, TotalChange
  <2>3. Total(f, n) \in Int
    BY TotalType
  <2>4. QED
    BY <2>1, <2>2, <2>3
<1>3. QED
  BY <1>1, <1>2

-----------------------------------------------------------------------------
(***************************************************************************)
(* The status of invoices and the amounts.  The inductive invariant says   *)
(* what the rows of an invoice and the local variables of an invocation    *)
(* say of each other (RowsFit), and then, of an order that was never       *)
(* worked on twice at once, what its stage, its invoices and its one       *)
(* invocation say of each other (OrdersFit); refunds have their own        *)
(* history (OneRefund).                                                    *)
(***************************************************************************)
Refunding(w) == pc[w] \in {"returnCredit", "returnMoney", "markRefunded"}

Stopping == {"ABORT", "ABORTED"}

Own(i, o) == invoice[i].order = o

Is(w, o, place) == job[w].order = o /\ pc[w] = place

JobFits(w) ==
  /\ pc[w] = "idle" => job[w] = NoJob
  /\ pc[w] # "idle" /\ ~Refunding(w) => job[w].order \in Orders
  /\ \A i \in job[w].todo : Own(i, job[w].order) /\ job[w].order \in Orders
  /\ pc[w] \in {"invoice", "invoiced"} => job[w].todo = {}
  /\ pc[w] \in {"markPaid", "markVoid"} => job[w].on \in job[w].todo
  /\ pc[w] = "markPaid" /\ invoice[job[w].on].total > 0 => payments[job[w].on] > 0
  /\ Refunding(w) => /\ job[w].order = NoOrder /\ job[w].on \in Invoices
                     /\ invoice[job[w].on].status \notin {"ABSENT", "PENDING"}
  /\ pc[w] \in {"returnMoney", "markRefunded"} => job[w].back = {}

RowFits(i) ==
  /\ invoice[i].status = "ABSENT" <=> invoice[i].order = NoOrder
  /\ invoice[i].status = "ABSENT" =>
       payments[i] = 0 /\ returned[i] = 0 /\ \A c \in Credits : invoice[i].usage[c] = 0
  /\ invoice[i].status # "ABSENT" => invoice[i].total + Total(invoice[i].usage, MaxCredits) = Cost
  /\ invoice[i].status = "PAID" /\ invoice[i].total > 0 => payments[i] > 0

RowsFit == (\A w \in Workers : JobFits(w)) /\ \A i \in Invoices : RowFits(i)

Alone(o) == \A v, w \in Workers : job[v].order = o /\ job[w].order = o => v = w

StageFits(o) ==
  /\ stage[o] \in {"BILLING", "DONE"} => \E i \in Invoices : Own(i, o)
  /\ stage[o] \notin Stopping => OfOrder(o, "VOID") = {}
  /\ stage[o] = "DONE" => OfOrder(o, "PENDING") = {}

TurnFits(w, o) ==
  /\ pc[w] \in {"invoice", "invoiced"} => stage[o] \in {"INVOICE"} \cup Stopping
  /\ pc[w] = "invoiced" => \E i \in Invoices : Own(i, o)
  /\ pc[w] \in {"pay", "markPaid"} =>
       stage[o] \in {"BILLING"} \cup Stopping /\ OfOrder(o, "PENDING") \subseteq job[w].todo
  /\ pc[w] \in {"void", "markVoid"} => stage[o] \in Stopping
  /\ \A i \in job[w].todo : invoice[i].status = "PENDING"

Turn(o) ==
  Spared(o, {"overlap"}) =>
    /\ Alone(o) /\ StageFits(o)
    /\ \A w \in Workers : job[w].order = o => TurnFits(w, o)
    /\ \A w \in Workers :
         Refunding(w) /\ Own(job[w].on, o) => invoice[job[w].on].status \in {"PAID", "REFUNDED"}

OneInvoice(o) ==
  Spared(o, {"overlap", "invoiceLost"}) =>
    /\ \A i, j \in Invoices : Own(i, o) /\ Own(j, o) => i = j
    /\ \/ stage[o] = "INVOICE" /\ \A w \in Workers : ~Is(w, o, "invoiced")
       \/ \E w \in Workers : Is(w, o, "invoice")
       => \A i \in Invoices : ~Own(i, o)

OnePayment(o) ==
  Spared(o, {"overlap", "paymentLost"}) => \A i \in Invoices : Own(i, o) =>
    /\ payments[i] <= 1
    /\ payments[i] > 0 /\ invoice[i].status \in {"PENDING", "VOID"} =>
         \E w \in Workers : Is(w, o, "markPaid") /\ job[w].on = i

OrderFits(o) == Turn(o) /\ OneInvoice(o) /\ OnePayment(o)

OrdersFit == \A o \in Orders : OrderFits(o)

StillToReturn(w) ==
  Total([c \in Credits |-> IF c \in job[w].back THEN invoice[job[w].on].usage[c] ELSE 0], MaxCredits)
    + IF pc[w] = "markRefunded" THEN 0 ELSE invoice[job[w].on].total

RefundFits(i) ==
  /\ invoice[i].status = "REFUNDED" => returned[i] = Cost
  /\ \A w \in Workers : Refunding(w) /\ job[w].on = i =>
       /\ invoice[i].status # "REFUNDED"
       /\ returned[i] + StillToReturn(w) = Cost
       /\ \A v \in Workers : Refunding(v) /\ job[v].on = i => v = w

OneRefund ==
  \A i \in Invoices, o \in Orders : Own(i, o) /\ Spared(o, {"refundAgain"}) => RefundFits(i)

UsagesAddUp ==
  \A c \in Credits : credit[c].used = Total([i \in Invoices |-> invoice[i].usage[c]], MaxInvoices)

Exact == /\ Overdrawing
         /\ RowsFit /\ OrdersFit /\ OneRefund /\ UsagesAddUp

-----------------------------------------------------------------------------
(* What the actions do, value by value *)
Others(w) == \A v \in Workers \ {w} : pc'[v] = pc[v] /\ job'[v] = job[v]

Leaves(w) == pc'[w] = "idle" /\ job'[w] = NoJob /\ Others(w)

(* Invocation w of order o, a step of it, goes on to a place *)
Goes(w, place, todo, on) ==
  /\ pc'[w] = place /\ job'[w].order = job[w].order
  /\ job'[w].todo = todo /\ job'[w].on = on
  /\ Others(w)

SameInvoices == UNCHANGED <<invoice, payments, returned>>

StatusBecomes(i, s) ==
  \A j \in Invoices :
    /\ invoice'[j].order = invoice[j].order /\ invoice'[j].total = invoice[j].total
    /\ invoice'[j].usage = invoice[j].usage
    /\ invoice'[j].status = IF j = i THEN s ELSE invoice[j].status

LEMMA NoJobFields ==
  NoJob.order = NoOrder /\ NoJob.todo = {} /\ NoJob.on = NoInvoice /\ NoJob.back = {}
BY DEF NoJob

LEMMA ReturnEffect ==
  ASSUME TypeOK, NEW w \in Workers, Return(w)
  PROVE  Leaves(w)
BY DEF TypeOK, Return, Leaves, Others

LEMMA StatusEffect ==
  ASSUME TypeOK, NEW i \in Invoices, NEW s, invoice' = [invoice EXCEPT ![i].status = s]
  PROVE  StatusBecomes(i, s)
BY DEF TypeOK, InvoiceRow, StatusBecomes

(* A step of order o begins *)
Starts(w, o, place, todo) ==
  /\ pc[w] = "idle" /\ pc'[w] = place
  /\ job'[w].order = o /\ job'[w].todo = todo /\ job'[w].on = NoInvoice
  /\ Others(w) /\ SameInvoices /\ UNCHANGED <<stage, credit>>
  /\ \A q \in Orders : q # o => mishaps'[q] = mishaps[q]
  /\ mishaps[o] \subseteq mishaps'[o]
  /\ "overlap" \in mishaps'[o] \/ \A v \in Workers : job[v].order # o

LEMMA BeginEffect ==
  ASSUME TypeOK, NEW w \in Workers, NEW o \in Orders, NEW place, NEW locals,
         Begin(w, o, place, locals), SameInvoices, UNCHANGED <<stage, credit>>,
         locals.order = o, locals.on = NoInvoice
  PROVE  Starts(w, o, place, locals.todo)
<1>1. pc[w] = "idle" /\ pc'[w] = place /\ job'[w] = locals /\ Others(w)
  BY DEF TypeOK, Begin, Others
<1>2. \A q \in Orders : q # o => mishaps'[q] = mishaps[q]
  BY DEF TypeOK, Begin
<1>3. mishaps[o] \subseteq mishaps'[o]
  BY DEF TypeOK, Begin
<1>4. "overlap" \in mishaps'[o] \/ \A v \in Workers : job[v].order # o
  BY DEF TypeOK, Begin
<1>5. QED
  BY <1>1, <1>2, <1>3, <1>4 DEF Starts

LEMMA ReadCreditsEffect ==
  ASSUME TypeOK, NEW w \in Workers, NEW o \in Orders, ReadCredits(w, o)
  PROVE  Starts(w, o, "invoice", {}) /\ stage[o] = "INVOICE"
<1> DEFINE locals == [NoJob EXCEPT !.order = o, !.seen = credit]
<1>1. locals.order = o /\ locals.on = NoInvoice /\ locals.todo = {}
  BY DEF NoJob
<1>2. Begin(w, o, "invoice", locals) /\ SameInvoices /\ UNCHANGED <<stage, credit>> /\ stage[o] = "INVOICE"
  BY DEF ReadCredits, SameInvoices
<1> HIDE DEF locals
<1>3. QED
  BY <1>1, <1>2, BeginEffect

LEMMA ReadInvoicesEffect ==
  ASSUME TypeOK, NEW w \in Workers, NEW o \in Orders
  PROVE  /\ ReadInvoices(w, o) => Starts(w, o, "pay", OfOrder(o, "PENDING")) /\ stage[o] = "BILLING"
         /\ ReadInvoicesToVoid(w, o) =>
              Starts(w, o, "void", OfOrder(o, "PENDING")) /\ stage[o] = "ABORT"
<1> DEFINE locals == [NoJob EXCEPT !.order = o, !.todo = OfOrder(o, "PENDING")]
<1>1. locals.order = o /\ locals.on = NoInvoice /\ locals.todo = OfOrder(o, "PENDING")
  BY DEF NoJob
<1>2. ReadInvoices(w, o) => /\ Begin(w, o, "pay", locals) /\ SameInvoices /\ UNCHANGED <<stage, credit>>
                            /\ stage[o] = "BILLING"
  BY DEF ReadInvoices, SameInvoices
<1>3. ReadInvoicesToVoid(w, o) =>
        Begin(w, o, "void", locals) /\ SameInvoices /\ UNCHANGED <<stage, credit>> /\ stage[o] = "ABORT"
  BY DEF ReadInvoicesToVoid, SameInvoices
<1> HIDE DEF locals
<1>4. QED
  BY <1>1, <1>2, <1>3, BeginEffect

(* The transaction of INVOICE makes row i that of the order's invoice *)
InvoiceMade(w, i, u) ==
  /\ pc[w] = "invoice" /\ pc'[w] = "invoiced" /\ job' = job /\ Others(w)
  /\ invoice[i].status = "ABSENT"
  /\ invoice'[i].status = "PENDING" /\ invoice'[i].order = job[w].order
  /\ invoice'[i].usage = u /\ invoice'[i].total = Cost - Total(u, MaxCredits)
  /\ \A j \in Invoices : j # i => invoice'[j] = invoice[j]
  /\ \A c \in Credits : credit'[c].used = credit[c].used + u[c]
  /\ UNCHANGED <<stage, payments, returned, mishaps>>

LEMMA CreateInvoiceEffect ==
  ASSUME TypeOK, NEW w \in Workers, CreateInvoice(w)
  PROVE  \E i \in Invoices, u \in Usages(job[w].seen) : InvoiceMade(w, i, u)
<1>1. PICK u \in Usages(job[w].seen), i \in Invoices :
        /\ invoice[i].status = "ABSENT"
        /\ invoice' = [invoice EXCEPT ![i] =
             [status |-> "PENDING", order |-> job[w].order,
              total |-> Cost - Total(u, MaxCredits), usage |-> u]]
        /\ credit' = [c \in Credits |-> [credit[c] EXCEPT !.used = @ + u[c]]]
  BY DEF CreateInvoice
<1>2. \A c \in Credits : credit'[c].used = credit[c].used + u[c]
  BY <1>1 DEF TypeOK, CreditRow
<1>3. \A j \in Invoices : j # i => invoice'[j] = invoice[j]
  BY <1>1 DEF TypeOK
<1>4. /\ invoice'[i].status = "PENDING" /\ invoice'[i].order = job[w].order
      /\ invoice'[i].usage = u /\ invoice'[i].total = Cost - Total(u, MaxCredits)
  BY <1>1 DEF TypeOK
<1>5. /\ pc[w] = "invoice" /\ pc'[w] = "invoiced" /\ job' = job /\ Others(w)
      /\ UNCHANGED <<stage, payments, returned, mishaps>>
  BY DEF CreateInvoice, Goto, Others, TypeOK
<1>6. InvoiceMade(w, i, u)
  BY <1>1, <1>2, <1>3, <1>4, <1>5 DEF InvoiceMade
<1>7. QED
  BY <1>6

(* An invocation of a step ends, or a step of the order is completed *)
LEMMA LeavingEffect ==
  ASSUME TypeOK, NEW w \in Workers
  PROVE  /\ CreateInvoiceFails(w) \/ MarkPaidFails(w) =>
              /\ Leaves(w) /\ SameInvoices /\ UNCHANGED <<stage, credit, mishaps>>
              /\ pc[w] \in {"invoice", "markPaid"}
              /\ pc[w] = "markPaid" => invoice[job[w].on].status # "PENDING"
         /\ InvoiceCompleted(w) \/ BillingCompleted(w) \/ VoidCompleted(w) =>
              /\ Leaves(w) /\ SameInvoices /\ UNCHANGED <<credit, mishaps>>
              /\ pc[w] \in {"invoiced", "pay", "void"}
              /\ pc[w] \in {"pay", "void"} => job[w].todo = {}
              /\ \A o \in Orders : stage'[o] =
                   IF job[w].order # o THEN stage[o]
                   ELSE CASE pc[w] = "invoiced" -> (IF stage[o] = "INVOICE" THEN "BILLING" ELSE stage[o])
                          [] pc[w] = "pay" -> (IF stage[o] = "BILLING" THEN "DONE" ELSE stage[o])
                          [] OTHER -> "ABORTED"
         /\ Stop(w) =>
              /\ Leaves(w) /\ SameInvoices /\ UNCHANGED <<stage, credit>>
              /\ pc[w] # "idle"
              /\ \A o \in Orders :
                   /\ mishaps[o] \subseteq mishaps'[o]
                   /\ job[w].order = o /\ pc[w] = "invoiced" => "invoiceLost" \in mishaps'[o]
                   /\ job[w].order = o /\ pc[w] = "markPaid" => "paymentLost" \in mishaps'[o]
<1>1. Return(w) => Leaves(w)
  BY ReturnEffect
<1>2. CreateInvoiceFails(w) \/ MarkPaidFails(w) =>
        /\ Leaves(w) /\ SameInvoices /\ UNCHANGED <<stage, credit, mishaps>>
        /\ pc[w] \in {"invoice", "markPaid"}
        /\ pc[w] = "markPaid" => invoice[job[w].on].status # "PENDING"
  BY <1>1 DEF CreateInvoiceFails, MarkPaidFails, SameInvoices
<1>3. InvoiceCompleted(w) \/ BillingCompleted(w) \/ VoidCompleted(w) =>
        /\ Leaves(w) /\ SameInvoices /\ UNCHANGED <<credit, mishaps>>
        /\ pc[w] \in {"invoiced", "pay", "void"}
        /\ pc[w] \in {"pay", "void"} => job[w].todo = {}
  BY <1>1 DEF InvoiceCompleted, BillingCompleted, VoidCompleted, SameInvoices
<1>4. ASSUME InvoiceCompleted(w) \/ BillingCompleted(w) \/ VoidCompleted(w), NEW o \in Orders
      PROVE  stage'[o] =
               IF job[w].order # o THEN stage[o]
               ELSE CASE pc[w] = "invoiced" -> (IF stage[o] = "INVOICE" THEN "BILLING" ELSE stage[o])
                      [] pc[w] = "pay" -> (IF stage[o] = "BILLING" THEN "DONE" ELSE stage[o])
                      [] OTHER -> "ABORTED"
  BY <1>4 DEF InvoiceCompleted, BillingCompleted, VoidCompleted, TypeOK
<1>5. Stop(w) => Leaves(w) /\ SameInvoices /\ UNCHANGED <<stage, credit>> /\ pc[w] # "idle"
  BY <1>1 DEF Stop, SameInvoices
<1>6. ASSUME Stop(w), NEW o \in Orders
      PROVE  /\ mishaps[o] \subseteq mishaps'[o]
             /\ job[w].order = o /\ pc[w] = "invoiced" => "invoiceLost" \in mishaps'[o]
             /\ job[w].order = o /\ pc[w] = "markPaid" => "paymentLost" \in mishaps'[o]
  BY <1>6 DEF Stop
<1>7. QED
  BY <1>2, <1>3, <1>4, <1>5, <1>6

LEMMA PayEffect ==
  ASSUME TypeOK, NEW w \in Workers, NEW i \in Invoices, Pay(w, i)
  PROVE  /\ pc[w] = "pay" /\ i \in job[w].todo /\ Goes(w, "markPaid", job[w].todo, i)
         /\ \A j \in Invoices :
              payments'[j] = IF j = i /\ invoice[i].total > 0 THEN payments[j] + 1 ELSE payments[j]
         /\ UNCHANGED <<stage, credit, invoice, returned, mishaps>>
<1>1. Goes(w, "markPaid", job[w].todo, i)
  <2>1. job[w] \in Job
    BY DEF TypeOK
  <2>2. job'[w] = [job[w] EXCEPT !.on = i] /\ pc'[w] = "markPaid" /\ Others(w)
    BY DEF Pay, Goto, TypeOK, Others
  <2>3. job'[w].order = job[w].order /\ job'[w].todo = job[w].todo /\ job'[w].on = i
    BY <2>1, <2>2 DEF Job
  <2>4. QED
    BY <2>2, <2>3 DEF Goes
<1>2. QED
  BY <1>1 DEF Pay, TypeOK

LEMMA VoidEffect ==
  ASSUME TypeOK, NEW w \in Workers, NEW i \in Invoices, Void(w, i)
  PROVE  /\ pc[w] = "void" /\ i \in job[w].todo
         /\ IF invoice[i].status = "PENDING" THEN Goes(w, "markVoid", job[w].todo, i) ELSE Leaves(w)
         /\ SameInvoices /\ UNCHANGED <<stage, credit, mishaps>>
<1>1. CASE invoice[i].status = "PENDING"
  <2>1. job[w] \in Job
    BY DEF TypeOK
  <2>2. job'[w] = [job[w] EXCEPT !.on = i] /\ pc'[w] = "markVoid" /\ Others(w)
    BY <1>1 DEF Void, Goto, TypeOK, Others
  <2>3. job'[w].order = job[w].order /\ job'[w].todo = job[w].todo /\ job'[w].on = i
    BY <2>1, <2>2 DEF Job
  <2>4. QED
    BY <1>1, <2>2, <2>3 DEF Goes, Void, SameInvoices
<1>2. CASE invoice[i].status # "PENDING"
  BY <1>2, ReturnEffect DEF Void, SameInvoices
<1>3. QED
  BY <1>1, <1>2

LEMMA MarkEffect ==
  ASSUME TypeOK, NEW w \in Workers
  PROVE  /\ MarkPaid(w) =>
              /\ pc[w] = "markPaid" /\ invoice[job[w].on].status = "PENDING"
              /\ job[w].on \in Invoices => StatusBecomes(job[w].on, "PAID")
              /\ Goes(w, "pay", job[w].todo \ {job[w].on}, NoInvoice)
              /\ UNCHANGED <<stage, credit, payments, returned, mishaps>>
         /\ MarkVoid(w) =>
              /\ pc[w] = "markVoid"
              /\ job[w].on \in Invoices => StatusBecomes(job[w].on, "VOID")
              /\ Goes(w, "void", job[w].todo \ {job[w].on}, NoInvoice)
              /\ UNCHANGED <<stage, credit, payments, returned, mishaps>>
<1> DEFINE row == [job[w] EXCEPT !.todo = job[w].todo \ {job[w].on}, !.on = NoInvoice]
<1>1. /\ row.order = job[w].order
      /\ row.todo = job[w].todo \ {job[w].on}
      /\ row.on = NoInvoice
  BY DEF TypeOK, Job
<1>2. MarkPaid(w) \/ MarkVoid(w) => job' = [job EXCEPT ![w] = row]
  BY DEF MarkPaid, MarkVoid
<1> HIDE DEF row
<1>3. MarkPaid(w) \/ MarkVoid(w) => job'[w] = row /\ \A v \in Workers \ {w} : job'[v] = job[v]
  BY <1>2 DEF TypeOK
<1>4. MarkPaid(w) => Goes(w, "pay", job[w].todo \ {job[w].on}, NoInvoice)
  BY <1>1, <1>3 DEF MarkPaid, Goto, TypeOK, Others, Goes
<1>5. MarkVoid(w) => Goes(w, "void", job[w].todo \ {job[w].on}, NoInvoice)
  BY <1>1, <1>3 DEF MarkVoid, Goto, TypeOK, Others, Goes
<1>6. QED
  BY <1>4, <1>5, StatusEffect DEF MarkPaid, MarkVoid

LEMMA RefundEffect ==
  ASSUME TypeOK, NEW w \in Workers, NEW i \in Invoices, NEW asCredit \in BOOLEAN,
         Refund(w, i, asCredit)
  PROVE  /\ pc[w] = "idle" /\ invoice[i].status = "PAID"
         /\ pc'[w] = "returnCredit" /\ Others(w)
         /\ job'[w].order = NoOrder /\ job'[w].todo = {} /\ job'[w].on = i
         /\ job'[w].back = {c \in Credits : invoice[i].usage[c] > 0}
         /\ SameInvoices /\ UNCHANGED <<stage, credit>>
         /\ \A o \in Orders : /\ mishaps[o] \subseteq mishaps'[o]
                              /\ RefundedBefore(i) /\ Own(i, o) => "refundAgain" \in mishaps'[o]
<1> DEFINE locals == [NoJob EXCEPT !.on = i, !.asCredit = asCredit,
                                   !.back = {c \in Credits : invoice[i].usage[c] > 0}]
<1>1. /\ locals.order = NoOrder /\ locals.todo = {} /\ locals.on = i
      /\ locals.back = {c \in Credits : invoice[i].usage[c] > 0}
  BY DEF NoJob
<1>2. pc[w] = "idle" /\ pc' = [pc EXCEPT ![w] = "returnCredit"] /\ job' = [job EXCEPT ![w] = locals]
  BY DEF Refund, Goto
<1> HIDE DEF locals
<1>3. pc'[w] = "returnCredit" /\ job'[w] = locals /\ Others(w)
  BY <1>2 DEF TypeOK, Others
<1>4. \A o \in Orders : /\ mishaps[o] \subseteq mishaps'[o]
                        /\ RefundedBefore(i) /\ Own(i, o) => "refundAgain" \in mishaps'[o]
  BY DEF Refund, TypeOK, Own
<1>5. invoice[i].status = "PAID" /\ SameInvoices /\ UNCHANGED <<stage, credit>>
  BY DEF Refund, SameInvoices
<1>6. QED
  BY <1>1, <1>2, <1>3, <1>4, <1>5

(* A new credit is written where nothing was provided, and so nothing used  *)
SameUsed == \A c \in Credits : credit'[c].used = credit[c].used

LEMMA CreditEffect ==
  ASSUME TypeOK, CreditsNotOverdrawn, NEW amount, CreateCredit(amount)
  PROVE  SameUsed
<1>1. PICK d \in Credits :
        /\ credit[d].provided = 0
        /\ credit' = [credit EXCEPT ![d] = [provided |-> amount, used |-> 0]]
  BY DEF CreateCredit
<1>2. credit[d].used = 0
  BY <1>1 DEF TypeOK, CreditRow, CreditsNotOverdrawn
<1>3. QED
  BY <1>1, <1>2 DEF TypeOK, SameUsed

LEMMA ReturnCreditEffect ==
  ASSUME Overdrawing, NEW w \in Workers, NEW c \in Credits, ReturnCredit(w, c)
  PROVE  /\ pc[w] = "returnCredit" /\ c \in job[w].back
         /\ Goes(w, "returnCredit", job[w].todo, job[w].on) /\ job'[w].back = job[w].back \ {c}
         /\ \A i \in Invoices : returned'[i] =
              IF i = job[w].on THEN returned[i] + invoice[i].usage[c] ELSE returned[i]
         /\ SameUsed /\ UNCHANGED <<stage, invoice, payments, mishaps>>
<1> DEFINE row == [job[w] EXCEPT !.back = @ \ {c}]
<1>1. /\ row.order = job[w].order /\ row.todo = job[w].todo
      /\ row.on = job[w].on /\ row.back = job[w].back \ {c}
  BY DEF Overdrawing, TypeOK, Job
<1>2. job' = [job EXCEPT ![w] = row] /\ pc' = pc /\ pc[w] = "returnCredit"
  BY DEF ReturnCredit
<1> HIDE DEF row
<1>3. job'[w] = row /\ pc'[w] = "returnCredit" /\ Others(w)
  BY <1>2 DEF Overdrawing, TypeOK, Others
<1>4. SameUsed
  BY CreditEffect DEF Overdrawing, ReturnCredit
<1>5. \A i \in Invoices : returned'[i] =
        IF i = job[w].on THEN returned[i] + invoice[i].usage[c] ELSE returned[i]
  BY DEF ReturnCredit, Overdrawing, TypeOK
<1>6. QED
  BY <1>1, <1>2, <1>3, <1>4, <1>5 DEF Goes, ReturnCredit

LEMMA ReturnMoneyEffect ==
  ASSUME Overdrawing, NEW w \in Workers
  PROVE  /\ CreditsReturned(w) =>
              /\ pc[w] = "returnCredit" /\ job[w].back = {}
              /\ pc'[w] = "returnMoney" /\ Others(w) /\ job' = job
              /\ SameInvoices /\ SameUsed /\ UNCHANGED <<stage, mishaps>>
         /\ ReturnMoney(w) =>
              /\ pc[w] = "returnMoney"
              /\ pc'[w] = "markRefunded" /\ Others(w) /\ job' = job
              /\ \A i \in Invoices : returned'[i] =
                   IF i = job[w].on THEN returned[i] + invoice[i].total ELSE returned[i]
              /\ SameUsed /\ UNCHANGED <<stage, invoice, payments, mishaps>>
         /\ MarkRefunded(w) =>
              /\ pc[w] = "markRefunded" /\ Leaves(w)
              /\ job[w].on \in Invoices => StatusBecomes(job[w].on, "REFUNDED")
              /\ SameUsed /\ UNCHANGED <<stage, payments, returned, mishaps>>
<1> USE DEF Overdrawing
<1>1. UNCHANGED credit => SameUsed
  BY DEF SameUsed
<1>2. ReturnMoney(w) => SameUsed
  BY <1>1, CreditEffect DEF ReturnMoney
<1>3. ReturnMoney(w) => \A i \in Invoices : returned'[i] =
        IF i = job[w].on THEN returned[i] + invoice[i].total ELSE returned[i]
  BY DEF ReturnMoney, TypeOK
<1>4. ReturnMoney(w) =>
        /\ pc[w] = "returnMoney" /\ pc'[w] = "markRefunded" /\ Others(w) /\ job' = job
        /\ UNCHANGED <<stage, invoice, payments, mishaps>>
  BY DEF ReturnMoney, Goto, TypeOK, Others
<1>5. CreditsReturned(w) =>
        /\ pc[w] = "returnCredit" /\ job[w].back = {}
        /\ pc'[w] = "returnMoney" /\ Others(w) /\ job' = job
        /\ SameInvoices /\ SameUsed /\ UNCHANGED <<stage, mishaps>>
  BY <1>1 DEF CreditsReturned, Goto, TypeOK, Others, SameInvoices
<1>6. MarkRefunded(w) =>
        /\ pc[w] = "markRefunded" /\ Leaves(w)
        /\ job[w].on \in Invoices => StatusBecomes(job[w].on, "REFUNDED")
        /\ SameUsed /\ UNCHANGED <<stage, payments, returned, mishaps>>
  BY <1>1, ReturnEffect, StatusEffect DEF MarkRefunded
<1>7. QED
  BY <1>2, <1>3, <1>4, <1>5, <1>6

LEMMA AbortEffect ==
  ASSUME TypeOK, NEW o \in Orders, Abort(o)
  PROVE  /\ stage[o] \in {"INVOICE", "BILLING", "DONE"} /\ stage'[o] = "ABORT"
         /\ \A q \in Orders : q # o => stage'[q] = stage[q]
         /\ UNCHANGED <<pc, job, credit, mishaps>> /\ SameInvoices
BY DEF TypeOK, Abort, SameInvoices

-----------------------------------------------------------------------------
(* RowsFit.  What an invocation knows of invoices lasts, because what is in *)
(* their rows does.                                                         *)
Lasts ==
  /\ \A i \in Invoices : invoice[i].status # "ABSENT" =>
       /\ invoice'[i].order = invoice[i].order /\ invoice'[i].total = invoice[i].total
       /\ invoice'[i].usage = invoice[i].usage
       /\ invoice'[i].status # "ABSENT"
       /\ invoice[i].status # "PENDING" => invoice'[i].status # "PENDING"
  /\ \A i \in Invoices : payments[i] > 0 => payments'[i] > 0

LEMMA JobStays ==
  ASSUME TypeOK, RowsFit, Lasts, NEW v \in Workers, pc'[v] = pc[v], job'[v] = job[v]
  PROVE  JobFits(v)'
<1>1. JobFits(v) /\ job[v] \in Job
  BY DEF RowsFit, TypeOK
<1>2. \A i \in job[v].todo : invoice[i].status # "ABSENT" /\ i \in Invoices
  BY <1>1, BillingAssumption DEF RowsFit, JobFits, RowFits, Own, Job
<1>3. \A i \in job'[v].todo : Own(i, job[v].order)' /\ job'[v].order \in Orders
  BY <1>1, <1>2 DEF JobFits, Own, Lasts
<1>4. pc[v] = "markPaid" /\ invoice'[job[v].on].total > 0 => payments'[job[v].on] > 0
  <2> SUFFICES ASSUME pc[v] = "markPaid", invoice'[job[v].on].total > 0
               PROVE  payments'[job[v].on] > 0
    OBVIOUS
  <2> DEFINE i == job[v].on
  <2>1. i \in Invoices /\ invoice[i].status # "ABSENT"
    BY <1>1, <1>2 DEF JobFits
  <2>2. payments[i] > 0
    BY <1>1, <2>1 DEF JobFits, Lasts
  <2>3. QED
    BY <2>1, <2>2 DEF Lasts
<1>5. Refunding(v) => invoice'[job[v].on].status \notin {"ABSENT", "PENDING"}
  BY <1>1 DEF JobFits, Lasts
<1>6. QED
  BY <1>1, <1>3, <1>4, <1>5 DEF JobFits, Refunding

LEMMA RowsLast ==
  ASSUME TypeOK, RowsFit, Lasts, NEW w \in Workers, Others(w), JobFits(w)',
         \A i \in Invoices : RowFits(i)'
  PROVE  RowsFit'
BY JobStays DEF Others, RowsFit

LEMMA SameLasts ==
  ASSUME TypeOK, RowsFit, UNCHANGED <<invoice, payments, returned>>
  PROVE  Lasts /\ \A i \in Invoices : RowFits(i)'
<1>1. \A i \in Invoices : RowFits(i)'
  BY DEF RowsFit, RowFits
<1>2. QED
  BY <1>1 DEF Lasts

LEMMA StatusLasts ==
  ASSUME TypeOK, RowsFit, NEW i \in Invoices, NEW s \in {"PAID", "VOID", "REFUNDED"},
         StatusBecomes(i, s), invoice[i].status # "ABSENT", UNCHANGED <<payments, returned>>,
         s = "PAID" /\ invoice[i].total > 0 => payments[i] > 0
  PROVE  Lasts /\ \A j \in Invoices : RowFits(j)'
<1>1. Lasts
  BY DEF Lasts, StatusBecomes
<1>2. ASSUME NEW j \in Invoices PROVE RowFits(j)'
  BY DEF RowsFit, RowFits, StatusBecomes
<1>3. QED
  BY <1>1, <1>2

LEMMA LeavesFits ==
  ASSUME NEW w \in Workers, Leaves(w)
  PROVE  JobFits(w)'
BY NoJobFields DEF Leaves, JobFits, Refunding

(* An invocation of a step that starts or goes on *)
LEMMA StartsRows ==
  ASSUME TypeOK, RowsFit, NEW w \in Workers, NEW o \in Orders, NEW place \in {"invoice", "pay", "void"},
         Starts(w, o, place, IF place = "invoice" THEN {} ELSE OfOrder(o, "PENDING"))
  PROVE  RowsFit'
<1>1. Lasts /\ \A i \in Invoices : RowFits(i)'
  BY SameLasts DEF Starts, SameInvoices
<1>2. JobFits(w)'
  BY DEF Starts, SameInvoices, JobFits, Refunding, OfOrder, Own
<1>3. QED
  BY <1>1, <1>2, RowsLast DEF Starts

LEMMA StepsRows ==
  ASSUME TypeOK, RowsFit, NEW w \in Workers
  PROVE  /\ CreateInvoiceFails(w) \/ MarkPaidFails(w) \/ InvoiceCompleted(w) \/ BillingCompleted(w)
              \/ VoidCompleted(w) \/ Stop(w) => RowsFit'
         /\ \A i \in Invoices : Pay(w, i) \/ Void(w, i) => RowsFit'
         /\ MarkPaid(w) \/ MarkVoid(w) => RowsFit'
<1> USE DEF TypeOK
<1>1. ASSUME Leaves(w), SameInvoices PROVE RowsFit'
  BY <1>1, LeavesFits, SameLasts, RowsLast DEF SameInvoices, Leaves
<1>2. JobFits(w) /\ job[w] \in Job
  BY DEF RowsFit
<1>3. ASSUME NEW i \in Invoices, Pay(w, i) PROVE RowsFit'
  <2>1. /\ pc[w] = "pay" /\ i \in job[w].todo /\ Goes(w, "markPaid", job[w].todo, i)
        /\ \A j \in Invoices :
             payments'[j] = IF j = i /\ invoice[i].total > 0 THEN payments[j] + 1 ELSE payments[j]
        /\ UNCHANGED <<stage, credit, invoice, returned, mishaps>>
    BY <1>3, PayEffect
  <2>2. Own(i, job[w].order) /\ job[w].order \in Orders /\ invoice[i].status # "ABSENT"
    BY <1>2, <2>1, BillingAssumption DEF JobFits, RowsFit, RowFits, Own
  <2>3. \A j \in Invoices : payments[j] \in Nat
    OBVIOUS
  <2>4. \A j \in Invoices : payments[j] > 0 => payments'[j] > 0
    BY <2>1, <2>3
  <2>5. Lasts
    BY <2>1, <2>4 DEF Lasts
  <2>6. ASSUME NEW j \in Invoices PROVE RowFits(j)'
    BY <2>1, <2>2, <2>3 DEF RowsFit, RowFits
  <2>7. JobFits(w)'
    BY <1>2, <2>1, <2>2, <2>3 DEF JobFits, Goes, Refunding, Own
  <2>8. QED
    BY <2>1, <2>5, <2>6, <2>7, RowsLast DEF Goes
<1>4. ASSUME NEW i \in Invoices, Void(w, i) PROVE RowsFit'
  <2>1. /\ pc[w] = "void" /\ i \in job[w].todo
        /\ IF invoice[i].status = "PENDING" THEN Goes(w, "markVoid", job[w].todo, i) ELSE Leaves(w)
        /\ SameInvoices
    BY <1>4, VoidEffect
  <2>2. Goes(w, "markVoid", job[w].todo, i) => JobFits(w)'
    BY <1>2, <2>1 DEF JobFits, Goes, Refunding, Own, SameInvoices
  <2>3. Goes(w, "markVoid", job[w].todo, i) => Others(w)
    BY DEF Goes
  <2>4. QED
    BY <1>1, <2>1, <2>2, <2>3, SameLasts, RowsLast DEF SameInvoices
<1>5. ASSUME MarkPaid(w) \/ MarkVoid(w) PROVE RowsFit'
  <2> DEFINE i == job[w].on
  <2>1. pc[w] \in {"markPaid", "markVoid"}
    BY <1>5, MarkEffect
  <2>2. i \in Invoices /\ i \in job[w].todo /\ Own(i, job[w].order) /\ job[w].order \in Orders
    BY <1>2, <2>1 DEF JobFits, Job
  <2>3. invoice[i].status # "ABSENT"
    BY <2>2, BillingAssumption DEF RowsFit, RowFits, Own
  <2> HIDE DEF i
  <2>4. PICK s \in {"PAID", "VOID"}, place \in {"pay", "void"} :
          /\ StatusBecomes(i, s) /\ Goes(w, place, job[w].todo \ {i}, NoInvoice)
          /\ UNCHANGED <<payments, returned>>
          /\ s = "PAID" => pc[w] = "markPaid"
    BY <1>5, <2>2, MarkEffect DEF i
  <2>5. s = "PAID" /\ invoice[i].total > 0 => payments[i] > 0
    BY <1>2, <2>4 DEF JobFits, i
  <2>6. Lasts /\ \A j \in Invoices : RowFits(j)'
    BY <2>2, <2>3, <2>4, <2>5, StatusLasts
  <2>7. JobFits(w)'
    BY <1>2, <2>1, <2>2, <2>4 DEF JobFits, Goes, Refunding, Own, StatusBecomes, Job
  <2>8. QED
    BY <2>4, <2>6, <2>7, RowsLast DEF Goes
<1>6. QED
  BY <1>1, <1>3, <1>4, <1>5, LeavingEffect

(* The new row is one that was not there *)
LEMMA CreateRows ==
  ASSUME TypeOK, RowsFit, NEW w \in Workers, CreateInvoice(w)
  PROVE  RowsFit'
<1>1. PICK i \in Invoices, u \in Usages(job[w].seen) : InvoiceMade(w, i, u)
  BY CreateInvoiceEffect
<1>2. JobFits(w) /\ job[w] \in Job /\ job[w].order \in Orders /\ job[w].todo = {}
  BY <1>1 DEF RowsFit, TypeOK, InvoiceMade, JobFits, Refunding
<1>4. Lasts
  BY <1>1 DEF Lasts, InvoiceMade
<1>5. ASSUME NEW j \in Invoices PROVE RowFits(j)'
  <2>1. CASE j # i
    <3>1. invoice'[j] = invoice[j] /\ payments' = payments /\ returned' = returned
      BY <1>1, <2>1 DEF InvoiceMade
    <3>2. RowFits(j)
      BY DEF RowsFit
    <3>3. QED
      BY <3>1, <3>2 DEF RowFits
  <2>2. CASE j = i
    <3>1. Total(u, MaxCredits) \in Int /\ Cost \in Int
      BY UsagesType, BillingAssumption
    <3>2. invoice'[i].total + Total(invoice'[i].usage, MaxCredits) = Cost
      BY <1>1, <3>1 DEF InvoiceMade
    <3>3. QED
      BY <1>1, <1>2, <2>2, <3>2, BillingAssumption DEF RowFits, InvoiceMade
  <2>3. QED
    BY <2>1, <2>2
<1>6. JobFits(w)'
  BY <1>1, <1>2 DEF JobFits, InvoiceMade, Refunding
<1>7. QED
  BY <1>1, <1>4, <1>5, <1>6, RowsLast DEF InvoiceMade

LEMMA RefundRows ==
  ASSUME Overdrawing, RowsFit, NEW w \in Workers
  PROVE  /\ \A i \in Invoices, asCredit \in BOOLEAN : Refund(w, i, asCredit) => RowsFit'
         /\ \A c \in Credits : ReturnCredit(w, c) => RowsFit'
         /\ CreditsReturned(w) \/ ReturnMoney(w) \/ MarkRefunded(w) => RowsFit'
<1>1. TypeOK /\ JobFits(w) /\ job[w] \in Job
  BY DEF RowsFit, Overdrawing, TypeOK
<1>2. ASSUME NEW i \in Invoices, NEW asCredit \in BOOLEAN, Refund(w, i, asCredit) PROVE RowsFit'
  <2>1. /\ pc[w] = "idle" /\ invoice[i].status = "PAID"
        /\ pc'[w] = "returnCredit" /\ Others(w)
        /\ job'[w].order = NoOrder /\ job'[w].todo = {} /\ job'[w].on = i
        /\ SameInvoices
    BY <1>1, <1>2, RefundEffect
  <2>2. JobFits(w)'
    BY <2>1 DEF JobFits, Refunding, SameInvoices
  <2>3. QED
    BY <1>1, <2>1, <2>2, SameLasts, RowsLast DEF SameInvoices
<1>4. ASSUME UNCHANGED <<invoice, payments>>, Others(w), JobFits(w)', NEW i,
             \A j \in Invoices : j # i => returned'[j] = returned[j],
             i \in Invoices => invoice[i].status # "ABSENT"
      PROVE  RowsFit'
  <2>1. Lasts
    BY <1>4 DEF Lasts
  <2>2. \A j \in Invoices : RowFits(j)'
    BY <1>4 DEF RowsFit, RowFits
  <2>3. QED
    BY <1>1, <1>4, <2>1, <2>2, RowsLast
<1>5. ASSUME NEW c \in Credits, ReturnCredit(w, c) PROVE RowsFit'
  <2>1. /\ pc[w] = "returnCredit"
        /\ Goes(w, "returnCredit", job[w].todo, job[w].on)
        /\ \A i \in Invoices : i # job[w].on => returned'[i] = returned[i]
        /\ UNCHANGED <<stage, invoice, payments, mishaps>>
    BY <1>5, ReturnCreditEffect
  <2>2. JobFits(w)'
    BY <1>1, <2>1 DEF JobFits, Refunding, Goes, Own
  <2>3. QED
    BY <1>1, <1>4, <2>1, <2>2 DEF JobFits, Refunding, Goes
<1>6. ASSUME CreditsReturned(w) PROVE RowsFit'
  <2>1. /\ pc[w] = "returnCredit" /\ job[w].back = {}
        /\ pc'[w] = "returnMoney" /\ Others(w) /\ job' = job
        /\ SameInvoices
    BY <1>6, ReturnMoneyEffect
  <2>2. JobFits(w)'
    BY <1>1, <2>1 DEF JobFits, Refunding, SameInvoices, Own
  <2>3. QED
    BY <1>1, <2>1, <2>2, SameLasts, RowsLast DEF SameInvoices
<1>7. ASSUME ReturnMoney(w) PROVE RowsFit'
  <2>1. /\ pc[w] = "returnMoney"
        /\ pc'[w] = "markRefunded" /\ Others(w) /\ job' = job
        /\ \A i \in Invoices : i # job[w].on => returned'[i] = returned[i]
        /\ UNCHANGED <<stage, invoice, payments, mishaps>>
    BY <1>7, ReturnMoneyEffect
  <2>2. JobFits(w)'
    BY <1>1, <2>1 DEF JobFits, Refunding, Own
  <2>3. QED
    BY <1>1, <1>4, <2>1, <2>2 DEF JobFits, Refunding
<1>8. ASSUME MarkRefunded(w) PROVE RowsFit'
  <2>1. /\ pc[w] = "markRefunded" /\ Leaves(w)
        /\ job[w].on \in Invoices => StatusBecomes(job[w].on, "REFUNDED")
        /\ UNCHANGED <<stage, payments, returned, mishaps>>
    BY <1>8, ReturnMoneyEffect
  <2>2. job[w].on \in Invoices /\ invoice[job[w].on].status # "ABSENT"
    BY <1>1, <2>1 DEF JobFits, Refunding
  <2>3. Lasts /\ \A i \in Invoices : RowFits(i)'
    BY <1>1, <2>1, <2>2, StatusLasts
  <2>4. QED
    BY <1>1, <2>1, <2>3, LeavesFits, RowsLast DEF Leaves
<1>9. QED
  BY <1>2, <1>5, <1>6, <1>7, <1>8

LEMMA NextRowsFit == Overdrawing /\ RowsFit /\ [Next]_vars => RowsFit'
<1> SUFFICES ASSUME Overdrawing, RowsFit, [Next]_vars PROVE RowsFit'
  OBVIOUS
<1>1. TypeOK
  BY DEF Overdrawing
<1>2. ASSUME NEW w \in Workers, NEW o \in Orders, StepBegins(w, o) PROVE RowsFit'
  <2>1. CASE ReadCredits(w, o)
    BY <1>1, <2>1, ReadCreditsEffect, StartsRows
  <2>2. CASE ReadInvoices(w, o)
    BY <1>1, <2>2, ReadInvoicesEffect, StartsRows
  <2>3. CASE ReadInvoicesToVoid(w, o)
    BY <1>1, <2>3, ReadInvoicesEffect, StartsRows
  <2>4. QED
    BY <1>2, <2>1, <2>2, <2>3 DEF StepBegins
<1>3. ASSUME NEW w \in Workers, InvocationStep(w) \/ Stop(w) PROVE RowsFit'
  BY <1>1, <1>3, StepsRows, CreateRows, RefundRows DEF InvocationStep
<1>4. ASSUME UNCHANGED <<pc, job>>, SameInvoices PROVE RowsFit'
  <2>1. Lasts /\ \A i \in Invoices : RowFits(i)'
    BY <1>1, <1>4, SameLasts DEF SameInvoices
  <2>2. QED
    BY <1>1, <1>4, <2>1, JobStays DEF RowsFit
<1>5. ASSUME NEW o \in Orders, Abort(o) PROVE RowsFit'
  BY <1>1, <1>4, <1>5, AbortEffect
<1>6. CASE UNCHANGED vars
  BY <1>4, <1>6 DEF vars, SameInvoices
<1>7. QED
  BY <1>2, <1>3, <1>5, <1>6, RefundRows DEF Next

-----------------------------------------------------------------------------
(* OrdersFit.  An order that an action does not work on, or whose paid      *)
(* invoice it refunds                                                       *)
Untouched(o) ==
  /\ stage'[o] = stage[o] /\ mishaps[o] \subseteq mishaps'[o]
  /\ \A i \in Invoices :
       /\ Own(i, o)' <=> Own(i, o)
       /\ Own(i, o) => /\ payments'[i] = payments[i]
                       /\ \/ invoice'[i].status = invoice[i].status
                          \/ /\ invoice'[i].status = "REFUNDED"
                             /\ Spared(o, {"overlap"}) => invoice[i].status \in {"PAID", "REFUNDED"}
                             /\ invoice[i].status # "PENDING"
  /\ \A v \in Workers : job[v].order = o \/ job'[v].order = o => pc'[v] = pc[v] /\ job'[v] = job[v]
  /\ \A v \in Workers : Refunding(v)' =>
       \/ Refunding(v) /\ job'[v].on = job[v].on
       \/ invoice'[job'[v].on].status = "PAID"

LEMMA SparedBefore ==
  ASSUME NEW o \in Orders, mishaps[o] \subseteq mishaps'[o], NEW E, Spared(o, E)'
  PROVE  Spared(o, E)
BY DEF Spared

LEMMA UntouchedTurn ==
  ASSUME TypeOK, RowsFit, NEW o \in Orders, Turn(o), Untouched(o)
  PROVE  Turn(o)'
<1> SUFFICES ASSUME Spared(o, {"overlap"})'
             PROVE  /\ Alone(o)' /\ StageFits(o)'
                    /\ \A w \in Workers : job'[w].order = o => TurnFits(w, o)'
                    /\ \A w \in Workers : Refunding(w)' /\ Own(job[w].on, o)' =>
                         invoice'[job'[w].on].status \in {"PAID", "REFUNDED"}
  BY DEF Turn
<1>1. Spared(o, {"overlap"})
  BY SparedBefore DEF Untouched
<1>2. /\ Alone(o) /\ StageFits(o)
      /\ \A w \in Workers : job[w].order = o => TurnFits(w, o)
      /\ \A w \in Workers :
           Refunding(w) /\ Own(job[w].on, o) => invoice[job[w].on].status \in {"PAID", "REFUNDED"}
  BY <1>1 DEF Turn
<1>3. Alone(o)'
  BY <1>2 DEF Alone, Untouched
<1>4. \A s \in {"PENDING", "VOID"} : OfOrder(o, s)' = OfOrder(o, s)
  BY <1>1 DEF Untouched, OfOrder, Own
<1>5. StageFits(o)'
  BY <1>2, <1>4 DEF StageFits, Untouched
<1>6. ASSUME NEW w \in Workers, job'[w].order = o PROVE TurnFits(w, o)'
  <2>1. pc'[w] = pc[w] /\ job'[w] = job[w] /\ TurnFits(w, o) /\ JobFits(w) /\ job[w] \in Job
    BY <1>2, <1>6 DEF Untouched, RowsFit, TypeOK
  <2>2. \A i \in job[w].todo : i \in Invoices /\ Own(i, o)
    BY <1>6, <2>1 DEF JobFits, Job
  <2>3. \A i \in job[w].todo : invoice'[i].status = "PENDING"
    BY <1>1, <2>1, <2>2 DEF Untouched, TurnFits
  <2>4. (\E i \in Invoices : Own(i, o)) => \E i \in Invoices : Own(i, o)'
    BY DEF Untouched
  <2>5. stage'[o] = stage[o]
    BY DEF Untouched
  <2>6. QED
    BY <1>4, <2>1, <2>3, <2>4, <2>5 DEF TurnFits
<1>7. ASSUME NEW w \in Workers, Refunding(w)', Own(job[w].on, o)'
      PROVE  invoice'[job'[w].on].status \in {"PAID", "REFUNDED"}
  <2>1. CASE Refunding(w) /\ job'[w].on = job[w].on
    <3>1. job[w].on \in Invoices
      BY <2>1 DEF RowsFit, JobFits
    <3>2. Own(job[w].on, o)
      BY <1>7, <2>1, <3>1 DEF Untouched, Own
    <3>3. QED
      BY <1>1, <1>2, <2>1, <3>1, <3>2 DEF Untouched
  <2>2. QED
    BY <1>7, <2>1 DEF Untouched
<1>8. QED
  BY <1>3, <1>5, <1>6, <1>7

LEMMA UntouchedRest ==
  ASSUME TypeOK, RowsFit, NEW o \in Orders, OneInvoice(o), OnePayment(o), Untouched(o)
  PROVE  OneInvoice(o)' /\ OnePayment(o)'
<1>1. \A w \in Workers, place \in Place : Is(w, o, place)' <=> Is(w, o, place)
  BY DEF Is, Untouched
<1>2. \A E : Spared(o, E)' => Spared(o, E)
  BY DEF Untouched, Spared
<1>3. "invoice" \in Place /\ "invoiced" \in Place /\ "markPaid" \in Place
  BY DEF Place
<1>4. OneInvoice(o)'
  <2>1. \A i \in Invoices : Own(i, o)' <=> Own(i, o)
    BY DEF Untouched
  <2>2. stage'[o] = stage[o]
    BY DEF Untouched
  <2>3. QED
    BY <1>1, <1>2, <1>3, <2>1, <2>2 DEF OneInvoice
<1>5. OnePayment(o)'
  <2>1. SUFFICES ASSUME Spared(o, {"overlap", "paymentLost"}), NEW i \in Invoices, Own(i, o)
                 PROVE  /\ payments'[i] <= 1
                        /\ payments'[i] > 0 /\ invoice'[i].status \in {"PENDING", "VOID"} =>
                             \E w \in Workers : Is(w, o, "markPaid")' /\ job'[w].on = i
    BY <1>2 DEF OnePayment, Untouched
  <2>2. payments'[i] = payments[i]
    BY <2>1 DEF Untouched
  <2>3. invoice'[i].status \in {"PENDING", "VOID"} => invoice[i].status = invoice'[i].status
    BY <2>1 DEF Untouched
  <2>4. \A w \in Workers : Is(w, o, "markPaid") => Is(w, o, "markPaid")' /\ job'[w].on = job[w].on
    BY DEF Is, Untouched
  <2>5. QED
    BY <2>1, <2>2, <2>3, <2>4 DEF OnePayment
<1>6. QED
  BY <1>4, <1>5

LEMMA UntouchedFits ==
  ASSUME TypeOK, RowsFit, NEW o \in Orders, OrderFits(o), Untouched(o)
  PROVE  OrderFits(o)'
BY UntouchedTurn, UntouchedRest DEF OrderFits

(* An order that is not that of the invocation which takes a step *)
LEMMA OthersUntouched ==
  ASSUME TypeOK, NEW w \in Workers, Others(w), NEW q \in Orders,
         job[w].order # q, job'[w].order # q,
         stage'[q] = stage[q], mishaps[q] \subseteq mishaps'[q],
         \A i \in Invoices : /\ invoice'[i].order = q <=> invoice[i].order = q
                             /\ Own(i, q) => payments'[i] = payments[i]
                                             /\ invoice'[i].status = invoice[i].status,
         Refunding(w)' => \/ Refunding(w) /\ job'[w].on = job[w].on
                          \/ invoice'[job'[w].on].status = "PAID"
  PROVE  Untouched(q)
<1>1. \A v \in Workers \ {w} : pc'[v] = pc[v] /\ job'[v] = job[v]
  BY DEF Others
<1>2. \A v \in Workers : job[v].order = q \/ job'[v].order = q => pc'[v] = pc[v] /\ job'[v] = job[v]
  BY <1>1
<1>3. \A v \in Workers : Refunding(v)' =>
        \/ Refunding(v) /\ job'[v].on = job[v].on
        \/ invoice'[job'[v].on].status = "PAID"
  BY <1>1 DEF Refunding
<1>4. QED
  BY <1>2, <1>3 DEF Untouched, Own

(* The only invocation of an order, before and after it takes a step *)
LEMMA OnlyOne ==
  ASSUME TypeOK, NEW w \in Workers, NEW o \in Orders, Turn(o), Spared(o, {"overlap"}),
         job[w].order = o, Others(w)
  PROVE  /\ \A v \in Workers : job[v].order = o => v = w
         /\ \A v \in Workers : job'[v].order = o => v = w
         /\ Alone(o)' /\ TurnFits(w, o) /\ StageFits(o)
<1>1. \A v \in Workers : job[v].order = o => v = w
  BY DEF Turn, Alone
<1>2. \A v \in Workers : job'[v].order = o => v = w
  BY <1>1 DEF Others
<1>3. QED
  BY <1>1, <1>2 DEF Turn, Alone

(* Refunds of a paid invoice go on while its order's invocation steps *)
LEMMA RefundsGoOn ==
  ASSUME TypeOK, RowsFit, NEW w \in Workers, NEW o \in Orders, Turn(o), Spared(o, {"overlap"}),
         Others(w), ~Refunding(w)',
         \A i \in Invoices : invoice[i].status # "ABSENT" => invoice'[i].order = invoice[i].order,
         \A i \in Invoices : Own(i, o) /\ invoice[i].status \in {"PAID", "REFUNDED"} =>
           invoice'[i].status \in {"PAID", "REFUNDED"}
  PROVE  (\A v \in Workers :
           Refunding(v) /\ Own(job[v].on, o) => invoice[job[v].on].status \in {"PAID", "REFUNDED"})'
<1> SUFFICES ASSUME NEW v \in Workers, Refunding(v)', Own(job[v].on, o)'
             PROVE  invoice'[job'[v].on].status \in {"PAID", "REFUNDED"}
  OBVIOUS
<1>1. v # w
  OBVIOUS
<1>2. pc'[v] = pc[v] /\ job'[v] = job[v]
  BY <1>1 DEF Others
<1>3. Refunding(v) /\ job[v].on \in Invoices /\ invoice[job[v].on].status # "ABSENT"
  BY <1>2 DEF Refunding, RowsFit, JobFits
<1>4. Own(job[v].on, o)
  BY <1>2, <1>3 DEF Own
<1>5. QED
  BY <1>2, <1>3, <1>4 DEF Turn

(* The invocation of order o ends *)
LEMMA LeavesOrder ==
  ASSUME TypeOK, RowsFit, NEW w \in Workers, NEW o \in Orders, OrderFits(o),
         job[w].order = o, Leaves(w), SameInvoices, mishaps[o] \subseteq mishaps'[o],
         Spared(o, {"overlap"}) => StageFits(o)',
         Spared(o, {"overlap", "invoiceLost"})' /\ stage'[o] = "INVOICE" =>
           stage[o] = "INVOICE" /\ pc[w] # "invoiced",
         Spared(o, {"overlap", "paymentLost"})' /\ pc[w] = "markPaid" =>
           invoice[job[w].on].status # "PENDING"
  PROVE  OrderFits(o)'
<1>1. Others(w) /\ job'[w].order # o /\ pc'[w] = "idle" /\ job'[w].order = NoOrder
  BY NoJobFields, BillingAssumption DEF Leaves
<1>2. \A E : Spared(o, E)' => Spared(o, E)
  BY DEF Spared
<1>3. Turn(o) /\ OneInvoice(o) /\ OnePayment(o)
  BY DEF OrderFits
<1>4. ASSUME Spared(o, {"overlap"})
      PROVE  /\ \A v \in Workers : job[v].order = o => v = w
             /\ \A v \in Workers : job'[v].order # o
             /\ TurnFits(w, o)
  BY <1>1, <1>3, <1>4, OnlyOne
<1>5. Turn(o)'
  <2> SUFFICES ASSUME Spared(o, {"overlap"})' PROVE Turn(o)'
    BY DEF Turn
  <2>1. Spared(o, {"overlap"})
    BY <1>2
  <2>2. (\A v \in Workers : Refunding(v) /\ Own(job[v].on, o)
           => invoice[job[v].on].status \in {"PAID", "REFUNDED"})'
    BY <1>1, <1>3, <2>1, RefundsGoOn DEF SameInvoices, Refunding
  <2>3. Alone(o)' /\ \A v \in Workers : job'[v].order # o
    BY <1>4, <2>1 DEF Alone
  <2>4. StageFits(o)'
    BY <2>1
  <2>5. QED
    BY <2>2, <2>3, <2>4 DEF Turn
<1>6. OneInvoice(o)'
  <2> SUFFICES ASSUME Spared(o, {"overlap", "invoiceLost"})' PROVE OneInvoice(o)'
    BY DEF OneInvoice
  <2>1. Spared(o, {"overlap", "invoiceLost"}) /\ Spared(o, {"overlap"})
    BY <1>2 DEF Spared
  <2>2. \A v \in Workers, place \in Place : ~Is(v, o, place)'
    BY <1>4, <2>1 DEF Is
  <2>3. stage'[o] = "INVOICE" => \A v \in Workers : ~Is(v, o, "invoiced")
    BY <1>4, <2>1 DEF Is
  <2>4. \A i \in Invoices : Own(i, o)' <=> Own(i, o)
    BY DEF SameInvoices, Own
  <2>5. "invoice" \in Place
    BY DEF Place
  <2>6. QED
    BY <1>3, <2>1, <2>2, <2>3, <2>4, <2>5 DEF OneInvoice
<1>7. OnePayment(o)'
  <2> SUFFICES ASSUME Spared(o, {"overlap", "paymentLost"})', NEW i \in Invoices, Own(i, o)
               PROVE  payments[i] <= 1 /\ ~(payments[i] > 0 /\ invoice[i].status \in {"PENDING", "VOID"})
    BY DEF OnePayment, SameInvoices, Own
  <2>1. Spared(o, {"overlap", "paymentLost"}) /\ Spared(o, {"overlap"})
    BY <1>2 DEF Spared
  <2>2. SUFFICES ASSUME payments[i] > 0, invoice[i].status \in {"PENDING", "VOID"} PROVE FALSE
    BY <1>3, <2>1 DEF OnePayment
  <2>3. pc[w] = "markPaid" /\ job[w].on = i
    BY <1>3, <1>4, <2>1, <2>2 DEF OnePayment, Is
  <2>4. invoice[i].status = "PENDING"
    BY <1>4, <2>1, <2>3 DEF RowsFit, JobFits, TurnFits
  <2>5. QED
    BY <2>3, <2>4
<1>8. QED
  BY <1>5, <1>6, <1>7 DEF OrderFits

LEMMA LeavingOrder ==
  ASSUME TypeOK, RowsFit, NEW w \in Workers, NEW o \in Orders, OrderFits(o), job[w].order = o,
         \/ CreateInvoiceFails(w) \/ MarkPaidFails(w) \/ InvoiceCompleted(w) \/ BillingCompleted(w)
         \/ VoidCompleted(w) \/ Stop(w)
         \/ \E i \in Invoices : Void(w, i) /\ invoice[i].status # "PENDING"
  PROVE  OrderFits(o)'
<1>1. Turn(o) /\ JobFits(w)
  BY DEF OrderFits, RowsFit
<1>2. ASSUME Spared(o, {"overlap"}) PROVE TurnFits(w, o) /\ StageFits(o)
  BY <1>1, <1>2 DEF Turn
<1>3. ASSUME UNCHANGED stage, SameInvoices, Spared(o, {"overlap"}) PROVE StageFits(o)'
  BY <1>2, <1>3 DEF StageFits, SameInvoices, OfOrder, Own
<1>4. CASE CreateInvoiceFails(w) \/ MarkPaidFails(w)
  <2>1. /\ Leaves(w) /\ SameInvoices /\ UNCHANGED <<stage, credit, mishaps>>
        /\ pc[w] \in {"invoice", "markPaid"}
        /\ pc[w] = "markPaid" => invoice[job[w].on].status # "PENDING"
    BY <1>4, LeavingEffect
  <2>2. QED
    BY <1>3, <2>1, LeavesOrder
<1>5. CASE Stop(w)
  <2>1. /\ Leaves(w) /\ SameInvoices /\ UNCHANGED <<stage, credit>>
        /\ mishaps[o] \subseteq mishaps'[o]
        /\ pc[w] = "invoiced" => "invoiceLost" \in mishaps'[o]
        /\ pc[w] = "markPaid" => "paymentLost" \in mishaps'[o]
    BY <1>5, LeavingEffect
  <2>2. pc[w] = "invoiced" => ~Spared(o, {"overlap", "invoiceLost"})'
    BY <2>1 DEF Spared
  <2>3. pc[w] = "markPaid" => ~Spared(o, {"overlap", "paymentLost"})'
    BY <2>1 DEF Spared
  <2>4. QED
    BY <1>3, <2>1, <2>2, <2>3, LeavesOrder
<1>6. CASE \E i \in Invoices : Void(w, i) /\ invoice[i].status # "PENDING"
  <2>1. Leaves(w) /\ SameInvoices /\ UNCHANGED <<stage, credit, mishaps>> /\ pc[w] = "void"
    BY <1>6, VoidEffect
  <2>2. QED
    BY <1>3, <2>1, LeavesOrder
<1>7. CASE InvoiceCompleted(w) \/ BillingCompleted(w) \/ VoidCompleted(w)
  <2>1. /\ Leaves(w) /\ SameInvoices /\ UNCHANGED <<credit, mishaps>>
        /\ pc[w] \in {"invoiced", "pay", "void"}
        /\ pc[w] \in {"pay", "void"} => job[w].todo = {}
        /\ stage'[o] = CASE pc[w] = "invoiced" -> (IF stage[o] = "INVOICE" THEN "BILLING" ELSE stage[o])
                         [] pc[w] = "pay" -> (IF stage[o] = "BILLING" THEN "DONE" ELSE stage[o])
                         [] OTHER -> "ABORTED"
    BY <1>7, LeavingEffect
  <2>2. ASSUME Spared(o, {"overlap"}) PROVE StageFits(o)' /\ stage'[o] # "INVOICE"
    <3>1. TurnFits(w, o) /\ StageFits(o)
      BY <1>2, <2>2
    <3>2. \A s : OfOrder(o, s)' = OfOrder(o, s)
      BY <2>1 DEF SameInvoices, OfOrder
    <3>3. (\E i \in Invoices : Own(i, o)) => \E i \in Invoices : Own(i, o)'
      BY <2>1 DEF SameInvoices, Own
    <3>4. CASE pc[w] = "invoiced"
      BY <2>1, <3>1, <3>2, <3>3, <3>4 DEF StageFits, TurnFits, Stopping
    <3>5. CASE pc[w] = "pay"
      BY <2>1, <3>1, <3>2, <3>3, <3>5 DEF StageFits, TurnFits, Stopping
    <3>6. CASE pc[w] = "void"
      BY <2>1, <3>1, <3>2, <3>3, <3>6 DEF StageFits, TurnFits, Stopping
    <3>7. QED
      BY <2>1, <3>4, <3>5, <3>6
  <2>3. Spared(o, {"overlap", "invoiceLost"})' => Spared(o, {"overlap"})
    BY <2>1 DEF Spared
  <2>4. QED
    BY <2>1, <2>2, <2>3, LeavesOrder
<1>8. QED
  BY <1>4, <1>5, <1>6, <1>7

LEMMA StartsOrder ==
  ASSUME TypeOK, RowsFit, NEW w \in Workers, NEW o \in Orders, OrderFits(o),
         NEW place \in {"invoice", "pay", "void"}, NEW todo, Starts(w, o, place, todo),
         place = "invoice" => todo = {} /\ stage[o] = "INVOICE",
         place = "pay" => todo = OfOrder(o, "PENDING") /\ stage[o] = "BILLING",
         place = "void" => todo = OfOrder(o, "PENDING") /\ stage[o] = "ABORT"
  PROVE  OrderFits(o)'
<1>1. CASE "overlap" \in mishaps'[o]
  BY <1>1 DEF OrderFits, Turn, OneInvoice, OnePayment, Spared
<1>2. CASE \A v \in Workers : job[v].order # o
  <2>1. /\ Others(w) /\ SameInvoices /\ stage'[o] = stage[o] /\ mishaps[o] \subseteq mishaps'[o]
        /\ pc'[w] = place /\ job'[w].order = o /\ job'[w].todo = todo
    BY DEF Starts
  <2>2. \A v \in Workers : job'[v].order = o => v = w
    BY <1>2, <2>1 DEF Others
  <2>3. \A E : Spared(o, E)' => Spared(o, E)
    BY <2>1 DEF Spared
  <2>4. \A s : OfOrder(o, s)' = OfOrder(o, s)
    BY <2>1 DEF SameInvoices, OfOrder
  <2>5. \A i \in Invoices : Own(i, o)' <=> Own(i, o)
    BY <2>1 DEF SameInvoices, Own
  <2>6. ASSUME Spared(o, {"overlap"})' PROVE Turn(o)'
    <3>1. Turn(o) /\ Spared(o, {"overlap"}) /\ StageFits(o)
      BY <2>3, <2>6 DEF OrderFits, Turn
    <3>2. (\A v \in Workers : Refunding(v) /\ Own(job[v].on, o)
             => invoice[job[v].on].status \in {"PAID", "REFUNDED"})'
      BY <2>1, <3>1, RefundsGoOn DEF SameInvoices, Refunding
    <3>3. StageFits(o)'
      BY <2>1, <2>4, <2>5, <3>1 DEF StageFits
    <3>4. TurnFits(w, o)'
      BY <2>1, <2>4 DEF TurnFits, SameInvoices, OfOrder, Stopping
    <3>5. Alone(o)'
      BY <2>2 DEF Alone
    <3>6. QED
      BY <2>2, <3>2, <3>3, <3>4, <3>5 DEF Turn
  <2>7. OneInvoice(o)'
    <3>1. \A v \in Workers : ~Is(v, o, "invoiced") /\ ~Is(v, o, "invoice")
      BY <1>2 DEF Is
    <3>2. \A v \in Workers : Is(v, o, "invoice")' => stage[o] = "INVOICE"
      BY <2>1, <2>2 DEF Is
    <3>3. QED
      BY <2>1, <2>3, <2>5, <3>1, <3>2 DEF OrderFits, OneInvoice
  <2>8. OnePayment(o)'
    <3>1. \A v \in Workers : ~Is(v, o, "markPaid")
      BY <1>2 DEF Is
    <3>2. QED
      BY <2>1, <2>3, <2>5, <3>1 DEF OrderFits, OnePayment, SameInvoices
  <2>9. QED
    BY <2>6, <2>7, <2>8 DEF OrderFits, Turn
<1>3. QED
  BY <1>1, <1>2 DEF Starts

LEMMA AbortOrder ==
  ASSUME TypeOK, RowsFit, NEW o \in Orders, OrderFits(o), Abort(o)
  PROVE  OrderFits(o)'
<1>1. /\ stage'[o] = "ABORT" /\ UNCHANGED <<pc, job, mishaps>> /\ SameInvoices
  BY AbortEffect
<1>2. \A E : Spared(o, E)' <=> Spared(o, E)
  BY <1>1 DEF Spared
<1>3. Turn(o)'
  <2>1. Alone(o) => Alone(o)'
    BY <1>1 DEF Alone
  <2>2. StageFits(o)'
    BY <1>1 DEF StageFits, Stopping
  <2>3. \A w \in Workers : TurnFits(w, o) => TurnFits(w, o)'
    BY <1>1 DEF TurnFits, Stopping, SameInvoices, OfOrder, Own
  <2>4. (\A w \in Workers : Refunding(w) /\ Own(job[w].on, o)
           => invoice[job[w].on].status \in {"PAID", "REFUNDED"})
        => (\A w \in Workers : Refunding(w) /\ Own(job[w].on, o)
              => invoice[job[w].on].status \in {"PAID", "REFUNDED"})'
    BY <1>1 DEF SameInvoices, Refunding, Own
  <2>5. QED
    BY <1>1, <1>2, <2>1, <2>2, <2>3, <2>4 DEF OrderFits, Turn
<1>4. OneInvoice(o)'
  <2>1. \A w \in Workers, place \in Place : Is(w, o, place)' <=> Is(w, o, place)
    BY <1>1 DEF Is
  <2>2. "invoice" \in Place
    BY DEF Place
  <2>3. \A i \in Invoices : Own(i, o)' <=> Own(i, o)
    BY <1>1 DEF SameInvoices, Own
  <2>4. QED
    BY <1>1, <1>2, <2>1, <2>2, <2>3 DEF OrderFits, OneInvoice
<1>5. OnePayment(o)'
  BY <1>1, <1>2 DEF OrderFits, OnePayment, SameInvoices, Own, Is
<1>6. QED
  BY <1>3, <1>4, <1>5 DEF OrderFits

LEMMA CreateOrder ==
  ASSUME TypeOK, RowsFit, NEW w \in Workers, NEW o \in Orders, OrderFits(o), job[w].order = o,
         NEW i \in Invoices, NEW u, InvoiceMade(w, i, u)
  PROVE  OrderFits(o)'
<1>1. /\ pc[w] = "invoice" /\ pc'[w] = "invoiced" /\ job' = job /\ Others(w)
      /\ invoice[i].status = "ABSENT"
      /\ invoice'[i].status = "PENDING" /\ Own(i, o)'
      /\ \A j \in Invoices : j # i => invoice'[j] = invoice[j]
      /\ stage' = stage /\ payments' = payments /\ mishaps' = mishaps
  BY DEF InvoiceMade, Own
<1>2. JobFits(w) /\ job[w].todo = {} /\ ~Own(i, o) /\ payments[i] = 0
  BY <1>1, BillingAssumption DEF RowsFit, JobFits, RowFits, Own
<1>3. \A E : Spared(o, E)' <=> Spared(o, E)
  BY <1>1 DEF Spared
<1>4. \A j \in Invoices : j # i => (Own(j, o)' <=> Own(j, o))
  BY <1>1 DEF Own
<1>5. Turn(o)'
  <2> SUFFICES ASSUME Spared(o, {"overlap"}) PROVE Turn(o)'
    BY <1>3 DEF Turn
  <2>1. /\ \A v \in Workers : job'[v].order = o => v = w
        /\ Alone(o)' /\ TurnFits(w, o) /\ StageFits(o)
    BY <1>1, OnlyOne DEF OrderFits
  <2>2. (\A v \in Workers : Refunding(v) /\ Own(job[v].on, o)
           => invoice[job[v].on].status \in {"PAID", "REFUNDED"})'
    BY <1>1, RefundsGoOn DEF OrderFits, Refunding, Own
  <2>3. stage[o] \in {"INVOICE"} \cup Stopping
    BY <1>1, <2>1 DEF TurnFits
  <2>4. StageFits(o)'
    <3>1. OfOrder(o, "VOID")' \subseteq OfOrder(o, "VOID")
      BY <1>1 DEF OfOrder
    <3>2. QED
      BY <1>1, <2>1, <2>3, <3>1 DEF StageFits, Stopping
  <2>5. TurnFits(w, o)'
    <3>1. pc'[w] = "invoiced" /\ job'[w].todo = {} /\ stage'[o] \in {"INVOICE"} \cup Stopping
      BY <1>1, <1>2, <2>3
    <3>2. \E j \in Invoices : Own(j, o)'
      BY <1>1
    <3>3. QED
      BY <3>1, <3>2 DEF TurnFits
  <2>6. QED
    BY <2>1, <2>2, <2>4, <2>5 DEF Turn
<1>6. OneInvoice(o)'
  <2> SUFFICES ASSUME Spared(o, {"overlap", "invoiceLost"}) PROVE OneInvoice(o)'
    BY <1>3 DEF OneInvoice
  <2>1. Spared(o, {"overlap"})
    BY DEF Spared
  <2>2. \A j \in Invoices : ~Own(j, o)
    BY <1>1 DEF OrderFits, OneInvoice, Is
  <2>3. \A v \in Workers : job'[v].order = o => v = w
    BY <1>1, <2>1, OnlyOne DEF OrderFits
  <2>4. Is(w, o, "invoiced")' /\ \A v \in Workers : ~Is(v, o, "invoice")'
    BY <1>1, <2>3 DEF Is
  <2>5. QED
    BY <1>4, <2>2, <2>4 DEF OneInvoice
<1>7. OnePayment(o)'
  <2> SUFFICES ASSUME Spared(o, {"overlap", "paymentLost"}), NEW j \in Invoices, Own(j, o)'
               PROVE  /\ payments[j] <= 1
                      /\ payments[j] > 0 /\ invoice'[j].status \in {"PENDING", "VOID"} =>
                           \E v \in Workers : Is(v, o, "markPaid")' /\ job'[v].on = j
    BY <1>1, <1>3 DEF OnePayment
  <2>1. CASE j = i
    BY <1>2, <2>1
  <2>2. CASE j # i
    <3>1. \A v \in Workers : Is(v, o, "markPaid") => Is(v, o, "markPaid")' /\ job'[v].on = job[v].on
      BY <1>1 DEF Is, Others
    <3>2. QED
      BY <1>1, <1>4, <2>2, <3>1 DEF OrderFits, OnePayment
  <2>3. QED
    BY <2>1, <2>2
<1>8. QED
  BY <1>5, <1>6, <1>7 DEF OrderFits

(* Paying the invoices of an order *)
LEMMA PayOrder ==
  ASSUME TypeOK, RowsFit, NEW w \in Workers, NEW o \in Orders, OrderFits(o), job[w].order = o,
         NEW i \in Invoices, Pay(w, i)
  PROVE  OrderFits(o)'
<1>1. /\ pc[w] = "pay" /\ i \in job[w].todo /\ Others(w)
      /\ pc'[w] = "markPaid" /\ job'[w].order = o /\ job'[w].todo = job[w].todo /\ job'[w].on = i
      /\ \A j \in Invoices :
           payments'[j] = IF j = i /\ invoice[i].total > 0 THEN payments[j] + 1 ELSE payments[j]
      /\ UNCHANGED <<stage, invoice, mishaps>>
  BY PayEffect DEF Goes
<1>2. Own(i, o)
  BY <1>1 DEF RowsFit, JobFits
<1>3. \A E : Spared(o, E)' <=> Spared(o, E)
  BY <1>1 DEF Spared
<1>4. \A j \in Invoices : Own(j, o)' <=> Own(j, o)
  BY <1>1 DEF Own
<1>5. ASSUME Spared(o, {"overlap"})
      PROVE  /\ \A v \in Workers : job[v].order = o => v = w
             /\ \A v \in Workers : job'[v].order = o => v = w
             /\ Alone(o)' /\ TurnFits(w, o) /\ StageFits(o)
  BY <1>1, <1>5, OnlyOne DEF OrderFits
<1>6. Turn(o)'
  <2> SUFFICES ASSUME Spared(o, {"overlap"}) PROVE Turn(o)'
    BY <1>3 DEF Turn
  <2>1. (\A v \in Workers : Refunding(v) /\ Own(job[v].on, o)
           => invoice[job[v].on].status \in {"PAID", "REFUNDED"})'
    BY <1>1, RefundsGoOn DEF OrderFits, Refunding
  <2>2. \A s : OfOrder(o, s)' = OfOrder(o, s)
    BY <1>1 DEF OfOrder
  <2>3. StageFits(o)'
    BY <1>1, <1>4, <1>5, <2>2 DEF StageFits
  <2>4. TurnFits(w, o)'
    BY <1>1, <1>5, <2>2 DEF TurnFits
  <2>5. QED
    BY <1>5, <2>1, <2>3, <2>4 DEF Turn
<1>7. OneInvoice(o)'
  <2>1. \A v \in Workers : Is(v, o, "invoice")' => Is(v, o, "invoice")
    BY <1>1 DEF Is, Others
  <2>2. \A v \in Workers : Is(v, o, "invoiced") => Is(v, o, "invoiced")'
    BY <1>1 DEF Is, Others
  <2>3. QED
    BY <1>1, <1>3, <1>4, <2>1, <2>2 DEF OrderFits, OneInvoice
<1>8. OnePayment(o)'
  <2> SUFFICES ASSUME Spared(o, {"overlap", "paymentLost"}), NEW j \in Invoices, Own(j, o)
               PROVE  /\ payments'[j] <= 1
                      /\ payments'[j] > 0 /\ invoice[j].status \in {"PENDING", "VOID"} =>
                           \E v \in Workers : Is(v, o, "markPaid")' /\ job'[v].on = j
    BY <1>1, <1>3, <1>4 DEF OnePayment
  <2>1. Spared(o, {"overlap"}) /\ payments[j] \in Nat
    BY DEF Spared, TypeOK
  <2>2. /\ payments[j] <= 1
        /\ payments[j] > 0 /\ invoice[j].status \in {"PENDING", "VOID"} =>
             \E v \in Workers : Is(v, o, "markPaid") /\ job[v].on = j
    BY DEF OrderFits, OnePayment
  <2>3. ~ \E v \in Workers : Is(v, o, "markPaid")
    BY <1>1, <1>5, <2>1 DEF Is
  <2>4. CASE j = i
    <3>1. invoice[i].status = "PENDING"
      BY <1>1, <1>5, <2>1 DEF TurnFits
    <3>2. payments[i] = 0
      BY <2>1, <2>2, <2>3, <2>4, <3>1
    <3>3. payments'[i] <= 1
      BY <1>1, <3>2
    <3>4. Is(w, o, "markPaid")'
      BY <1>1 DEF Is
    <3>5. QED
      BY <1>1, <2>4, <3>3, <3>4
  <2>5. CASE j # i
    BY <1>1, <2>2, <2>3, <2>5
  <2>6. QED
    BY <2>4, <2>5
<1>9. QED
  BY <1>6, <1>7, <1>8 DEF OrderFits

LEMMA VoidOrder ==
  ASSUME TypeOK, RowsFit, NEW w \in Workers, NEW o \in Orders, OrderFits(o), job[w].order = o,
         NEW i \in Invoices, Void(w, i), invoice[i].status = "PENDING"
  PROVE  OrderFits(o)'
<1>1. /\ pc[w] = "void" /\ i \in job[w].todo /\ Others(w)
      /\ pc'[w] = "markVoid" /\ job'[w].order = o /\ job'[w].todo = job[w].todo /\ job'[w].on = i
      /\ UNCHANGED <<stage, invoice, payments, mishaps>>
  BY VoidEffect DEF Goes, SameInvoices
<1>2. \A E : Spared(o, E)' <=> Spared(o, E)
  BY <1>1 DEF Spared
<1>3. \A j \in Invoices : Own(j, o)' <=> Own(j, o)
  BY <1>1 DEF Own
<1>4. Turn(o)'
  <2> SUFFICES ASSUME Spared(o, {"overlap"}) PROVE Turn(o)'
    BY <1>2 DEF Turn
  <2>1. (\A v \in Workers : Refunding(v) /\ Own(job[v].on, o)
           => invoice[job[v].on].status \in {"PAID", "REFUNDED"})'
    BY <1>1, RefundsGoOn DEF OrderFits, Refunding
  <2>2. \A s : OfOrder(o, s)' = OfOrder(o, s)
    BY <1>1 DEF OfOrder
  <2>3. /\ \A v \in Workers : job'[v].order = o => v = w
        /\ Alone(o)' /\ TurnFits(w, o) /\ StageFits(o)
    BY <1>1, OnlyOne DEF OrderFits
  <2>4. StageFits(o)'
    BY <1>1, <1>3, <2>2, <2>3 DEF StageFits
  <2>5. TurnFits(w, o)'
    BY <1>1, <2>2, <2>3 DEF TurnFits
  <2>6. QED
    BY <2>1, <2>3, <2>4, <2>5 DEF Turn
<1>5. \A v \in Workers :
        /\ Is(v, o, "invoice")' => Is(v, o, "invoice")
        /\ Is(v, o, "invoiced") => Is(v, o, "invoiced")'
        /\ Is(v, o, "markPaid") => Is(v, o, "markPaid")' /\ job'[v].on = job[v].on
  BY <1>1 DEF Is, Others
<1>6. OneInvoice(o)'
  BY <1>1, <1>2, <1>3, <1>5 DEF OrderFits, OneInvoice
<1>7. OnePayment(o)'
  BY <1>1, <1>2, <1>3, <1>5 DEF OrderFits, OnePayment
<1>8. QED
  BY <1>4, <1>6, <1>7 DEF OrderFits

(* An invoice of the order becomes PAID, or VOID *)
LEMMA MarkOrder ==
  ASSUME TypeOK, RowsFit, NEW w \in Workers, NEW o \in Orders, OrderFits(o), job[w].order = o,
         MarkPaid(w) \/ MarkVoid(w)
  PROVE  OrderFits(o)'
<1> DEFINE i == job[w].on
<1>1. pc[w] \in {"markPaid", "markVoid"}
  BY MarkEffect
<1>2. i \in Invoices /\ i \in job[w].todo /\ Own(i, o)
  BY <1>1 DEF RowsFit, JobFits, TypeOK, Job
<1>3. PICK s \in {"PAID", "VOID"}, place \in {"pay", "void"} :
        /\ pc[w] = IF s = "PAID" THEN "markPaid" ELSE "markVoid"
        /\ place = IF s = "PAID" THEN "pay" ELSE "void"
        /\ StatusBecomes(i, s) /\ Goes(w, place, job[w].todo \ {i}, NoInvoice)
        /\ UNCHANGED <<stage, payments, mishaps>>
  BY <1>2, MarkEffect
<1> HIDE DEF i
<1>4. /\ Others(w) /\ pc'[w] = place /\ job'[w].order = o /\ job'[w].todo = job[w].todo \ {i}
      /\ \A j \in Invoices : /\ invoice'[j].order = invoice[j].order
                             /\ invoice'[j].status = IF j = i THEN s ELSE invoice[j].status
  BY <1>3 DEF Goes, StatusBecomes
<1>5. \A E : Spared(o, E)' <=> Spared(o, E)
  BY <1>3 DEF Spared
<1>6. \A j \in Invoices : Own(j, o)' <=> Own(j, o)
  BY <1>4 DEF Own
<1>7. ASSUME Spared(o, {"overlap"})
      PROVE  /\ \A v \in Workers : job[v].order = o => v = w
             /\ \A v \in Workers : job'[v].order = o => v = w
             /\ Alone(o)' /\ TurnFits(w, o) /\ StageFits(o)
             /\ invoice[i].status = "PENDING"
  <2>1. /\ \A v \in Workers : job[v].order = o => v = w
        /\ \A v \in Workers : job'[v].order = o => v = w
        /\ Alone(o)' /\ TurnFits(w, o) /\ StageFits(o)
    BY <1>4, <1>7, OnlyOne DEF OrderFits
  <2>2. QED
    BY <1>2, <2>1 DEF TurnFits
<1>8. Turn(o)'
  <2> SUFFICES ASSUME Spared(o, {"overlap"}) PROVE Turn(o)'
    BY <1>5 DEF Turn
  <2>1. (\A v \in Workers : Refunding(v) /\ Own(job[v].on, o)
           => invoice[job[v].on].status \in {"PAID", "REFUNDED"})'
    <3>1. ~Refunding(w)'
      BY <1>3, <1>4 DEF Refunding
    <3>2. QED
      BY <1>4, <1>7, <3>1, RefundsGoOn DEF OrderFits
  <2>2. OfOrder(o, "PENDING")' = OfOrder(o, "PENDING") \ {i}
    BY <1>3, <1>4 DEF OfOrder
  <2>3. StageFits(o)'
    <3>1. s = "PAID" => OfOrder(o, "VOID")' \subseteq OfOrder(o, "VOID")
      BY <1>4 DEF OfOrder
    <3>2. s = "VOID" => stage[o] \in Stopping
      BY <1>3, <1>7 DEF TurnFits
    <3>3. stage[o] = "DONE" => OfOrder(o, "PENDING") = {}
      BY <1>7 DEF StageFits
    <3>4. QED
      BY <1>3, <1>6, <1>7, <2>2, <3>1, <3>2, <3>3 DEF StageFits, Stopping
  <2>4. TurnFits(w, o)'
    <3>1. \A j \in job'[w].todo : invoice'[j].status = "PENDING"
      <4>1. \A j \in job[w].todo : j \in Invoices /\ invoice[j].status = "PENDING"
        BY <1>7 DEF TurnFits, TypeOK, Job
      <4>2. QED
        BY <1>4, <4>1
    <3>2. CASE s = "PAID"
      BY <1>3, <1>4, <1>7, <2>2, <3>1, <3>2 DEF TurnFits
    <3>3. CASE s = "VOID"
      BY <1>3, <1>4, <1>7, <3>1, <3>3 DEF TurnFits
    <3>4. QED
      BY <3>2, <3>3
  <2>5. QED
    BY <1>7, <2>1, <2>3, <2>4 DEF Turn
<1>9. \A v \in Workers :
        /\ Is(v, o, "invoice")' => Is(v, o, "invoice")
        /\ Is(v, o, "invoiced") => Is(v, o, "invoiced")'
        /\ Is(v, o, "markPaid") /\ v # w => Is(v, o, "markPaid")' /\ job'[v].on = job[v].on
  BY <1>3, <1>4 DEF Is, Others
<1>10. OneInvoice(o)'
  BY <1>3, <1>5, <1>6, <1>9 DEF OrderFits, OneInvoice
<1>11. OnePayment(o)'
  <2> SUFFICES ASSUME Spared(o, {"overlap", "paymentLost"}), NEW j \in Invoices, Own(j, o)
               PROVE  /\ payments[j] <= 1
                      /\ payments[j] > 0 /\ invoice'[j].status \in {"PENDING", "VOID"} =>
                           \E v \in Workers : Is(v, o, "markPaid")' /\ job'[v].on = j
    BY <1>3, <1>5, <1>6 DEF OnePayment
  <2>1. Spared(o, {"overlap"})
    BY DEF Spared
  <2>2. /\ payments[j] <= 1
        /\ payments[j] > 0 /\ invoice[j].status \in {"PENDING", "VOID"} =>
             \E v \in Workers : Is(v, o, "markPaid") /\ job[v].on = j
    BY DEF OrderFits, OnePayment
  <2>3. SUFFICES ASSUME payments[j] > 0, invoice'[j].status \in {"PENDING", "VOID"}
                 PROVE  FALSE
    BY <2>2
  <2>4. invoice[j].status \in {"PENDING", "VOID"}
    BY <1>4, <1>7, <2>1, <2>3
  <2>5. pc[w] = "markPaid" /\ j = i
    BY <1>7, <2>1, <2>2, <2>3, <2>4 DEF Is, i
  <2>6. invoice'[j].status = "PAID"
    BY <1>3, <1>4, <2>5
  <2>7. QED
    BY <2>3, <2>6
<1>12. QED
  BY <1>8, <1>10, <1>11 DEF OrderFits

(* The other orders of a step, and every order when a refund takes one *)
LEMMA StepOrders ==
  ASSUME TypeOK, RowsFit, OrdersFit, NEW w \in Workers, NEW o \in Orders, OrderFits(o)',
         Others(w), job[w].order = o \/ job'[w].order = o,
         job[w].order \in {o, NoOrder}, job'[w].order \in {o, NoOrder},
         ~Refunding(w)',
         \A q \in Orders : q # o => stage'[q] = stage[q] /\ mishaps[q] \subseteq mishaps'[q],
         \A i \in Invoices : \/ /\ invoice'[i].order = invoice[i].order
                                /\ Own(i, o) \/ (invoice'[i].status = invoice[i].status
                                                 /\ payments'[i] = payments[i])
                             \/ invoice[i].order = NoOrder /\ invoice'[i].order = o
  PROVE  OrdersFit'
<1>1. ASSUME NEW q \in Orders, q # o PROVE Untouched(q)
  <2>1. job[w].order # q /\ job'[w].order # q
    BY <1>1, BillingAssumption
  <2>2. \A i \in Invoices : /\ invoice'[i].order = q <=> invoice[i].order = q
                            /\ Own(i, q) => payments'[i] = payments[i]
                                            /\ invoice'[i].status = invoice[i].status
    BY <1>1, BillingAssumption DEF Own
  <2>3. QED
    BY <1>1, <2>1, <2>2, OthersUntouched
<1>2. QED
  BY <1>1, UntouchedFits DEF OrdersFit

LEMMA NextOfOrder ==
  ASSUME TypeOK, RowsFit, OrdersFit, NEW w \in Workers
  PROVE  /\ \A o \in Orders : StepBegins(w, o) => OrdersFit'
         /\ job[w].order \in Orders /\ (InvocationStep(w) \/ Stop(w)) => OrdersFit'
<1>1. ASSUME NEW o \in Orders, StepBegins(w, o) PROVE OrdersFit'
  <2>1. PICK place, todo :
          /\ place \in {"invoice", "pay", "void"}
          /\ Starts(w, o, place, todo)
          /\ place = "invoice" => todo = {} /\ stage[o] = "INVOICE"
          /\ place = "pay" => todo = OfOrder(o, "PENDING") /\ stage[o] = "BILLING"
          /\ place = "void" => todo = OfOrder(o, "PENDING") /\ stage[o] = "ABORT"
    <3>1. CASE ReadCredits(w, o)
      BY <3>1, ReadCreditsEffect
    <3>2. CASE ReadInvoices(w, o)
      BY <3>2, ReadInvoicesEffect
    <3>3. CASE ReadInvoicesToVoid(w, o)
      BY <3>3, ReadInvoicesEffect
    <3>4. QED
      BY <1>1, <3>1, <3>2, <3>3 DEF StepBegins
  <2>2. OrderFits(o)'
    BY <2>1, StartsOrder DEF OrdersFit
  <2>3. job[w].order = NoOrder
    BY <2>1, NoJobFields DEF Starts, RowsFit, JobFits
  <2>4. /\ Others(w) /\ job'[w].order = o /\ ~Refunding(w)' /\ SameInvoices /\ stage' = stage
        /\ \A q \in Orders : q # o => mishaps'[q] = mishaps[q]
    BY <2>1 DEF Starts, Refunding
  <2>5. QED
    BY <2>2, <2>3, <2>4, StepOrders DEF SameInvoices
<1>2. ASSUME job[w].order \in Orders, InvocationStep(w) \/ Stop(w) PROVE OrdersFit'
  <2>1. PICK p \in Orders : p = job[w].order /\ OrderFits(p) /\ JobFits(w) /\ ~Refunding(w)
    BY <1>2, BillingAssumption DEF OrdersFit, RowsFit, JobFits
  <2>2. ASSUME \/ CreateInvoiceFails(w) \/ MarkPaidFails(w) \/ InvoiceCompleted(w) \/ BillingCompleted(w)
               \/ VoidCompleted(w) \/ Stop(w)
               \/ \E i \in Invoices : Void(w, i) /\ invoice[i].status # "PENDING"
        PROVE  OrdersFit'
    <3>1. OrderFits(p)'
      BY <2>1, <2>2, LeavingOrder
    <3>2. Leaves(w) /\ SameInvoices /\ \A q \in Orders : mishaps[q] \subseteq mishaps'[q]
      BY <2>2, LeavingEffect, VoidEffect
    <3>3. \A q \in Orders : q # p => stage'[q] = stage[q]
      BY <2>1, <2>2, LeavingEffect, VoidEffect
    <3>4. Others(w) /\ job'[w].order = NoOrder /\ ~Refunding(w)'
      BY <3>2, NoJobFields DEF Leaves, Refunding
    <3>5. QED
      BY <2>1, <3>1, <3>2, <3>3, <3>4, StepOrders DEF SameInvoices
  <2>3. ASSUME NEW place, NEW todo, NEW on, Goes(w, place, todo, on), OrderFits(p)',
               place \in {"markPaid", "markVoid", "pay", "void"},
               UNCHANGED <<stage, mishaps>>,
               \A i \in Invoices : /\ invoice'[i].order = invoice[i].order
                                   /\ Own(i, p) \/ (invoice'[i].status = invoice[i].status
                                                    /\ payments'[i] = payments[i])
        PROVE  OrdersFit'
    <3>1. Others(w) /\ job'[w].order = p /\ ~Refunding(w)'
      BY <2>1, <2>3 DEF Goes, Refunding
    <3>2. QED
      BY <2>1, <2>3, <3>1, StepOrders
  <2>4. ASSUME NEW i \in Invoices, Pay(w, i) PROVE OrdersFit'
    <3>1. OrderFits(p)'
      BY <2>1, <2>4, PayOrder
    <3>2. /\ Goes(w, "markPaid", job[w].todo, i) /\ Own(i, p)
          /\ \A j \in Invoices : j # i => payments'[j] = payments[j]
          /\ UNCHANGED <<stage, invoice, mishaps>>
      BY <2>1, <2>4, PayEffect DEF JobFits
    <3>3. QED
      BY <2>3, <3>1, <3>2
  <2>5. ASSUME NEW i \in Invoices, Void(w, i), invoice[i].status = "PENDING" PROVE OrdersFit'
    <3>1. OrderFits(p)'
      BY <2>1, <2>5, VoidOrder
    <3>2. /\ Goes(w, "markVoid", job[w].todo, i)
          /\ UNCHANGED <<stage, invoice, payments, mishaps>>
      BY <2>5, VoidEffect DEF SameInvoices
    <3>3. QED
      BY <2>3, <3>1, <3>2
  <2>6. ASSUME MarkPaid(w) \/ MarkVoid(w) PROVE OrdersFit'
    <3>1. OrderFits(p)'
      BY <2>1, <2>6, MarkOrder
    <3>2. pc[w] \in {"markPaid", "markVoid"}
      BY <2>6, MarkEffect
    <3>3. PICK i \in Invoices : i = job[w].on /\ Own(i, p)
      BY <2>1, <3>2 DEF JobFits, TypeOK, Job
    <3>4. PICK s \in {"PAID", "VOID"}, place \in {"pay", "void"} :
            /\ StatusBecomes(i, s) /\ Goes(w, place, job[w].todo \ {i}, NoInvoice)
            /\ UNCHANGED <<stage, payments, mishaps>>
      BY <2>6, <3>3, MarkEffect
    <3>5. \A j \in Invoices : /\ invoice'[j].order = invoice[j].order
                              /\ Own(j, p) \/ (invoice'[j].status = invoice[j].status
                                               /\ payments'[j] = payments[j])
      BY <3>3, <3>4 DEF StatusBecomes
    <3>6. QED
      BY <2>3, <3>1, <3>4, <3>5
  <2>7. ASSUME CreateInvoice(w) PROVE OrdersFit'
    <3>1. PICK i \in Invoices, u \in Usages(job[w].seen) : InvoiceMade(w, i, u)
      BY <2>7, CreateInvoiceEffect
    <3>2. OrderFits(p)'
      BY <2>1, <3>1, CreateOrder
    <3>3. /\ Others(w) /\ job' = job /\ ~Refunding(w)' /\ UNCHANGED <<stage, payments, mishaps>>
          /\ invoice[i].status = "ABSENT" /\ invoice'[i].order = p
          /\ \A j \in Invoices : j # i => invoice'[j] = invoice[j]
      BY <2>1, <3>1 DEF InvoiceMade, Refunding
    <3>4. invoice[i].order = NoOrder
      BY <3>3 DEF RowsFit, RowFits
    <3>5. QED
      BY <2>1, <3>2, <3>3, <3>4, StepOrders
  <2>8. ~(\E c \in Credits : ReturnCredit(w, c)) /\ ~CreditsReturned(w) /\ ~ReturnMoney(w) /\ ~MarkRefunded(w)
    BY <2>1 DEF Refunding, ReturnCredit, CreditsReturned, ReturnMoney, MarkRefunded
  <2>9. QED
    BY <1>2, <2>2, <2>4, <2>5, <2>6, <2>7, <2>8 DEF InvocationStep
<1>3. QED
  BY <1>1, <1>2

(* Refunds touch no order, or one that is paid *)
LEMMA NextOfRefund ==
  ASSUME Overdrawing, RowsFit, OrdersFit, NEW w \in Workers
  PROVE  /\ \A i \in Invoices, asCredit \in BOOLEAN : Refund(w, i, asCredit) => OrdersFit'
         /\ job[w].order \notin Orders /\ (InvocationStep(w) \/ Stop(w)) => OrdersFit'
<1>1. TypeOK /\ JobFits(w)
  BY DEF Overdrawing, RowsFit
<1>2. ASSUME job[w].order \notin Orders, job'[w].order = NoOrder, Others(w), UNCHANGED stage,
             \A q \in Orders : mishaps[q] \subseteq mishaps'[q], SameInvoices,
             Refunding(w)' => \/ Refunding(w) /\ job'[w].on = job[w].on
                              \/ invoice'[job'[w].on].status = "PAID"
      PROVE  OrdersFit'
  <2>1. ASSUME NEW q \in Orders PROVE Untouched(q)
    BY <1>1, <1>2, BillingAssumption, OthersUntouched DEF SameInvoices
  <2>2. QED
    BY <1>1, <2>1, UntouchedFits DEF OrdersFit
<1>3. ASSUME NEW i \in Invoices, NEW asCredit \in BOOLEAN, Refund(w, i, asCredit) PROVE OrdersFit'
  <2>1. /\ pc[w] = "idle" /\ invoice[i].status = "PAID" /\ Others(w)
        /\ job'[w].order = NoOrder /\ job'[w].on = i
        /\ SameInvoices /\ UNCHANGED stage
        /\ \A q \in Orders : mishaps[q] \subseteq mishaps'[q]
    BY <1>1, <1>3, RefundEffect
  <2>2. job[w].order \notin Orders
    BY <1>1, <2>1, NoJobFields, BillingAssumption DEF JobFits
  <2>3. invoice'[job'[w].on].status = "PAID"
    BY <2>1 DEF SameInvoices
  <2>4. QED
    BY <1>2, <2>1, <2>2, <2>3
<1>4. ASSUME job[w].order \notin Orders, InvocationStep(w) \/ Stop(w) PROVE OrdersFit'
  <2>1. job[w].order = NoOrder
    BY <1>1, <1>4 DEF TypeOK, Job
  <2>2. pc[w] = "idle" \/ Refunding(w)
    BY <1>1, <1>4 DEF JobFits
  <2>3. CASE Stop(w)
    <3>1. Leaves(w) /\ SameInvoices /\ UNCHANGED stage /\ \A q \in Orders : mishaps[q] \subseteq mishaps'[q]
      BY <1>1, <2>3, LeavingEffect
    <3>2. QED
      BY <1>2, <1>4, <3>1, NoJobFields DEF Leaves, Refunding
  <2>4. ASSUME UNCHANGED <<stage, invoice, payments, mishaps>>, Others(w), job'[w].order = NoOrder,
               Refunding(w)' => Refunding(w) /\ job'[w].on = job[w].on
        PROVE  OrdersFit'
    <3>1. ASSUME NEW q \in Orders PROVE Untouched(q)
      BY <1>1, <1>4, <2>4, BillingAssumption, OthersUntouched
    <3>2. QED
      BY <1>1, <3>1, UntouchedFits DEF OrdersFit
  <2>5. ASSUME NEW c \in Credits, ReturnCredit(w, c) PROVE OrdersFit'
    <3>1. /\ pc[w] = "returnCredit" /\ Goes(w, "returnCredit", job[w].todo, job[w].on)
          /\ UNCHANGED <<stage, invoice, payments, mishaps>>
      BY <2>5, ReturnCreditEffect
    <3>2. QED
      BY <2>1, <2>4, <3>1 DEF Goes, Refunding
  <2>6. CASE CreditsReturned(w) \/ ReturnMoney(w)
    <3>1. /\ Others(w) /\ job' = job /\ Refunding(w)
          /\ UNCHANGED <<stage, invoice, payments, mishaps>>
      BY <2>6, ReturnMoneyEffect DEF SameInvoices, Refunding
    <3>2. QED
      BY <2>1, <2>4, <3>1
  <2>7. CASE MarkRefunded(w)
    <3>1. /\ pc[w] = "markRefunded" /\ Leaves(w)
          /\ job[w].on \in Invoices => StatusBecomes(job[w].on, "REFUNDED")
          /\ UNCHANGED <<stage, payments, mishaps>>
      BY <2>7, ReturnMoneyEffect
    <3>2. PICK i \in Invoices : i = job[w].on /\ invoice[i].status \notin {"ABSENT", "PENDING"} /\ Refunding(w)
      BY <1>1, <3>1 DEF JobFits, Refunding
    <3>3. \A j \in Invoices : /\ invoice'[j].order = invoice[j].order
                              /\ invoice'[j].status = IF j = i THEN "REFUNDED" ELSE invoice[j].status
      BY <3>1, <3>2 DEF StatusBecomes
    <3>4. Others(w) /\ job'[w].order = NoOrder /\ ~Refunding(w)'
      BY <3>1, NoJobFields DEF Leaves, Refunding
    <3>5. ASSUME NEW q \in Orders PROVE Untouched(q)
      <4>1. Own(i, q) /\ Spared(q, {"overlap"}) => invoice[i].status \in {"PAID", "REFUNDED"}
        BY <3>2 DEF OrdersFit, OrderFits, Turn
      <4>2. \A v \in Workers \ {w} : pc'[v] = pc[v] /\ job'[v] = job[v]
        BY <3>4 DEF Others
      <4>3. \A v \in Workers : job[v].order = q \/ job'[v].order = q => pc'[v] = pc[v] /\ job'[v] = job[v]
        BY <1>4, <3>4, <4>2, BillingAssumption
      <4>4. \A v \in Workers : Refunding(v)' => Refunding(v) /\ job'[v].on = job[v].on
        BY <3>4, <4>2 DEF Refunding
      <4>5. ASSUME NEW j \in Invoices
            PROVE  /\ Own(j, q)' <=> Own(j, q)
                   /\ Own(j, q) => /\ payments'[j] = payments[j]
                                   /\ \/ invoice'[j].status = invoice[j].status
                                      \/ /\ invoice'[j].status = "REFUNDED"
                                         /\ Spared(q, {"overlap"}) => invoice[j].status \in {"PAID", "REFUNDED"}
                                         /\ invoice[j].status # "PENDING"
        BY <3>1, <3>2, <3>3, <4>1 DEF Own
      <4>6. mishaps[q] \subseteq mishaps'[q] /\ stage'[q] = stage[q]
        BY <3>1
      <4>7. QED
        BY <4>3, <4>4, <4>5, <4>6 DEF Untouched
    <3>6. QED
      BY <1>1, <3>5, UntouchedFits DEF OrdersFit
  <2>8. Refunding(w) \/ pc[w] = "idle" =>
          ~ (\/ CreateInvoice(w) \/ CreateInvoiceFails(w) \/ InvoiceCompleted(w)
             \/ \E i \in Invoices : Pay(w, i) \/ Void(w, i)
             \/ MarkPaid(w) \/ MarkPaidFails(w) \/ BillingCompleted(w)
             \/ MarkVoid(w) \/ VoidCompleted(w))
    BY DEF Refunding, CreateInvoice, CreateInvoiceFails, InvoiceCompleted, Pay, Void, MarkPaid,
           MarkPaidFails, BillingCompleted, MarkVoid, VoidCompleted
  <2>9. QED
    BY <1>4, <2>2, <2>3, <2>5, <2>6, <2>7, <2>8 DEF InvocationStep
<1>5. QED
  BY <1>3, <1>4

LEMMA NextOrdersFit == Overdrawing /\ RowsFit /\ OrdersFit /\ [Next]_vars => OrdersFit'
<1> SUFFICES ASSUME Overdrawing, RowsFit, OrdersFit, [Next]_vars PROVE OrdersFit'
  OBVIOUS
<1>1. TypeOK
  BY DEF Overdrawing
<1>2. ASSUME NEW o \in Orders, Abort(o) PROVE OrdersFit'
  <2>1. OrderFits(o)'
    BY <1>1, <1>2, AbortOrder DEF OrdersFit
  <2>2. ASSUME NEW q \in Orders, q # o PROVE Untouched(q)
    <3>1. stage'[q] = stage[q] /\ UNCHANGED <<pc, job, mishaps>> /\ SameInvoices
      BY <1>1, <1>2, <2>2, AbortEffect
    <3>2. QED
      BY <3>1 DEF Untouched, SameInvoices, Own, Refunding
  <2>3. QED
    BY <1>1, <2>1, <2>2, UntouchedFits DEF OrdersFit
<1>3. CASE UNCHANGED vars
  <2>1. \A q \in Orders : Untouched(q)
    BY <1>3 DEF vars, Untouched, Own, Refunding
  <2>2. QED
    BY <1>1, <2>1, UntouchedFits DEF OrdersFit
<1>4. QED
  BY <1>1, <1>2, <1>3, NextOfOrder, NextOfRefund DEF Next

-----------------------------------------------------------------------------
(* OneRefund.  A step that is not one of a refund of i leaves what RefundFits *)
(* says of i.                                                               *)
Elsewhere(w, i) ==
  /\ Others(w)
  /\ invoice'[i].total = invoice[i].total /\ invoice'[i].usage = invoice[i].usage
  /\ returned'[i] = returned[i]
  /\ invoice'[i].status = "REFUNDED" => invoice[i].status = "REFUNDED"
  /\ Refunding(w)' /\ job'[w].on = i =>
       Refunding(w) /\ job'[w] = job[w] /\ (pc'[w] = "markRefunded" <=> pc[w] = "markRefunded")

LEMMA RefundStays ==
  ASSUME NEW i \in Invoices, NEW w \in Workers, RefundFits(i), Elsewhere(w, i)
  PROVE  RefundFits(i)'
<1>1. ASSUME NEW v \in Workers, Refunding(v)', job'[v].on = i
      PROVE  /\ Refunding(v) /\ job'[v] = job[v] /\ job[v].on = i
             /\ StillToReturn(v)' = StillToReturn(v)
  <2>1. /\ Refunding(v) /\ job'[v] = job[v] /\ job[v].on = i
        /\ pc'[v] = "markRefunded" <=> pc[v] = "markRefunded"
    BY <1>1 DEF Elsewhere, Others, Refunding
  <2>2. StillToReturn(v)' = StillToReturn(v)
    BY <2>1 DEF StillToReturn, Elsewhere
  <2>3. QED
    BY <2>1, <2>2
<1>2. invoice'[i].status = "REFUNDED" => invoice[i].status = "REFUNDED"
  BY DEF Elsewhere
<1>3. returned'[i] = returned[i]
  BY DEF Elsewhere
<1>4. QED
  BY <1>1, <1>2, <1>3 DEF RefundFits

(* The amounts of an invoice, as numbers *)
LEMMA Amounts ==
  ASSUME TypeOK, NEW i \in Invoices
  PROVE  /\ MaxCredits \in Nat /\ Cost \in Nat
         /\ invoice[i].total \in Int /\ invoice[i].usage \in [Credits -> Nat]
         /\ returned[i] \in Nat /\ Total(invoice[i].usage, MaxCredits) \in Int
<1>1. /\ MaxCredits \in Nat /\ Cost \in Nat /\ returned[i] \in Nat
      /\ invoice[i].total \in Int /\ invoice[i].usage \in [Credits -> Nat]
  BY BillingAssumption DEF TypeOK, InvoiceRow
<1>2. \A c \in 1 .. MaxCredits : invoice[i].usage[c] \in Int
  BY <1>1 DEF Credits
<1>3. QED
  BY <1>1, <1>2, TotalType

LEMMA RefundBegins ==
  ASSUME TypeOK, RowsFit, NEW w \in Workers, NEW i \in Invoices, NEW asCredit \in BOOLEAN,
         Refund(w, i, asCredit), ~RefundedBefore(i)
  PROVE  RefundFits(i)'
<1>1. /\ invoice[i].status = "PAID" /\ pc'[w] = "returnCredit" /\ Others(w)
      /\ job'[w].on = i /\ job'[w].back = {c \in Credits : invoice[i].usage[c] > 0}
      /\ invoice' = invoice /\ returned' = returned
  BY RefundEffect DEF SameInvoices
<1>2. returned[i] = 0 /\ \A v \in Workers : Refunding(v) => job[v].on # i
  BY Amounts DEF RefundedBefore, Refunding
<1>3. \A v \in Workers : Refunding(v)' /\ job'[v].on = i => v = w
  BY <1>1, <1>2 DEF Others, Refunding
<1>4. StillToReturn(w)' = Cost
  <2> DEFINE g == [c \in Credits |-> IF invoice[i].usage[c] > 0 THEN invoice[i].usage[c] ELSE 0]
  <2>1. StillToReturn(w)' = Total(g, MaxCredits) + invoice[i].total
    BY <1>1 DEF StillToReturn
  <2>2. \A c \in 1 .. MaxCredits : invoice[i].usage[c] \in Int /\ g[c] = invoice[i].usage[c]
    BY Amounts DEF Credits
  <2> HIDE DEF g
  <2>3. Total(g, MaxCredits) = Total(invoice[i].usage, MaxCredits)
    BY <2>2, Amounts, TotalSame
  <2>4. invoice[i].total + Total(invoice[i].usage, MaxCredits) = Cost
    BY <1>1 DEF RowsFit, RowFits
  <2>5. QED
    BY <2>1, <2>3, <2>4, Amounts
<1>5. returned'[i] + StillToReturn(w)' = Cost
  BY <1>1, <1>2, <1>4, Amounts
<1>6. \A v \in Workers : Refunding(v)' /\ job'[v].on = i => returned'[i] + StillToReturn(v)' = Cost
  BY <1>3, <1>5
<1>7. QED
  BY <1>1, <1>3, <1>6 DEF RefundFits

(* A credit or the money is returned, and the refund recorded *)
LEMMA RefundGoesOn ==
  ASSUME Overdrawing, RowsFit, NEW w \in Workers, NEW i \in Invoices, RefundFits(i),
         Refunding(w), job[w].on = i
  PROVE  /\ \A c \in Credits : ReturnCredit(w, c) => RefundFits(i)'
         /\ CreditsReturned(w) \/ ReturnMoney(w) \/ MarkRefunded(w) => RefundFits(i)'
<1>1. TypeOK /\ JobFits(w)
  BY DEF Overdrawing, RowsFit
<1>2. /\ invoice[i].status # "REFUNDED" /\ returned[i] + StillToReturn(w) = Cost
      /\ \A v \in Workers : Refunding(v) /\ job[v].on = i => v = w
  BY DEF RefundFits
<1>3. ASSUME Others(w), pc'[w] \in {"returnCredit", "returnMoney", "markRefunded"}, job'[w].on = i,
             invoice' = invoice, returned'[i] + StillToReturn(w)' = Cost
      PROVE  RefundFits(i)'
  <2>1. \A v \in Workers : Refunding(v)' /\ job'[v].on = i => v = w
    BY <1>2, <1>3 DEF Others, Refunding
  <2>2. \A v \in Workers : Refunding(v)' /\ job'[v].on = i => returned'[i] + StillToReturn(v)' = Cost
    BY <1>3, <2>1
  <2>3. QED
    BY <1>2, <1>3, <2>1, <2>2 DEF RefundFits
<1>4. job[w].back = {} =>
        Total([c \in Credits |-> IF c \in job[w].back THEN invoice[i].usage[c] ELSE 0], MaxCredits) = 0
  BY <1>1, Amounts, TotalOfZeros DEF Credits
<1>5. ASSUME NEW c \in Credits, ReturnCredit(w, c) PROVE RefundFits(i)'
  <2>1. /\ pc[w] = "returnCredit" /\ c \in job[w].back
        /\ Goes(w, "returnCredit", job[w].todo, job[w].on) /\ job'[w].back = job[w].back \ {c}
        /\ returned'[i] = returned[i] + invoice[i].usage[c]
        /\ invoice' = invoice
    BY <1>5, ReturnCreditEffect
  <2> DEFINE f == [d \in Credits |-> IF d \in job[w].back THEN invoice[i].usage[d] ELSE 0]
  <2> DEFINE g == [d \in Credits |-> IF d \in job[w].back \ {c} THEN invoice[i].usage[d] ELSE 0]
  <2>2. StillToReturn(w) = Total(f, MaxCredits) + invoice[i].total
    BY <2>1 DEF StillToReturn
  <2>3. StillToReturn(w)' = Total(g, MaxCredits) + invoice[i].total
    BY <2>1 DEF StillToReturn, Goes
  <2>4. /\ \A d \in 1 .. MaxCredits : f[d] \in Int /\ g[d] \in Int
        /\ \A d \in 1 .. MaxCredits : d # c => g[d] = f[d]
        /\ g[c] = 0 /\ f[c] = invoice[i].usage[c] /\ c \in 1 .. MaxCredits /\ f[c] \in Int
    BY <1>1, <2>1, Amounts DEF Credits
  <2> HIDE DEF f, g
  <2>5. Total(g, MaxCredits) = Total(f, MaxCredits) + (g[c] - f[c]) /\ Total(f, MaxCredits) \in Int
    <3>1. MaxCredits \in Nat
      BY BillingAssumption
    <3>2. Total(f, MaxCredits) \in Int
      BY <2>4, <3>1, TotalType
    <3>3. Total(g, MaxCredits) = Total(f, MaxCredits) + (g[c] - f[c])
      BY <2>4, <3>1, TotalChange
    <3>4. QED
      BY <3>2, <3>3
  <2>6. returned'[i] + StillToReturn(w)' = Cost
    BY <1>1, <1>2, <2>1, <2>2, <2>3, <2>4, <2>5, Amounts
  <2>7. QED
    BY <1>3, <2>1, <2>6 DEF Goes
<1>6. ASSUME CreditsReturned(w) PROVE RefundFits(i)'
  <2>1. /\ pc[w] = "returnCredit" /\ pc'[w] = "returnMoney" /\ Others(w) /\ job' = job
        /\ invoice' = invoice /\ returned' = returned
    BY <1>6, ReturnMoneyEffect DEF SameInvoices
  <2>2. StillToReturn(w)' = StillToReturn(w)
    BY <2>1 DEF StillToReturn
  <2>3. QED
    BY <1>2, <1>3, <2>1, <2>2
<1>7. ASSUME ReturnMoney(w) PROVE RefundFits(i)'
  <2>1. /\ pc[w] = "returnMoney" /\ pc'[w] = "markRefunded" /\ Others(w) /\ job' = job
        /\ returned'[i] = returned[i] + invoice[i].total /\ invoice' = invoice
    BY <1>7, ReturnMoneyEffect
  <2>2. Total([c \in Credits |-> IF c \in job[w].back THEN invoice[i].usage[c] ELSE 0], MaxCredits) = 0
    BY <1>1, <1>4, <2>1 DEF JobFits
  <2>3. StillToReturn(w) = 0 + invoice[i].total
    BY <2>1, <2>2 DEF StillToReturn
  <2>4. StillToReturn(w)' = 0 + 0
    BY <2>1, <2>2 DEF StillToReturn
  <2>5. QED
    BY <1>1, <1>2, <1>3, <2>1, <2>3, <2>4, Amounts
<1>8. ASSUME MarkRefunded(w) PROVE RefundFits(i)'
  <2>1. pc[w] = "markRefunded" /\ Leaves(w) /\ StatusBecomes(i, "REFUNDED") /\ returned' = returned
    BY <1>8, ReturnMoneyEffect
  <2>2. Total([c \in Credits |-> IF c \in job[w].back THEN invoice[i].usage[c] ELSE 0], MaxCredits) = 0
    BY <1>1, <1>4, <2>1 DEF JobFits
  <2>3. StillToReturn(w) = 0 + 0
    BY <2>1, <2>2 DEF StillToReturn
  <2>4. returned'[i] = Cost
    BY <1>1, <1>2, <2>1, <2>3, Amounts
  <2>5. \A v \in Workers : ~(Refunding(v)' /\ job'[v].on = i)
    BY <1>2, <2>1 DEF Leaves, Others, Refunding
  <2>6. QED
    BY <2>4, <2>5 DEF RefundFits
<1>9. QED
  BY <1>5, <1>6, <1>7, <1>8

(* Steps that are not of a refund of i *)
LEMMA StepsElsewhere ==
  ASSUME TypeOK, RowsFit, NEW w \in Workers, NEW i \in Invoices, NEW o \in Orders, ~Refunding(w)
  PROVE  /\ StepBegins(w, o) => Elsewhere(w, i) /\ invoice' = invoice
                                /\ \A q \in Orders : mishaps[q] \subseteq mishaps'[q]
         /\ \/ InvocationStep(w) /\ ~CreateInvoice(w)
            \/ Stop(w)
            => Elsewhere(w, i) /\ invoice'[i].order = invoice[i].order
               /\ \A q \in Orders : mishaps[q] \subseteq mishaps'[q]
<1>1. ASSUME Others(w), ~Refunding(w)', SameInvoices PROVE Elsewhere(w, i)
  BY <1>1 DEF SameInvoices, Elsewhere
<1>2. ASSUME StepBegins(w, o) PROVE Elsewhere(w, i) /\ invoice' = invoice
                                    /\ \A q \in Orders : mishaps[q] \subseteq mishaps'[q]
  <2>1. PICK place, todo : place \in {"invoice", "pay", "void"} /\ Starts(w, o, place, todo)
    BY <1>2, ReadCreditsEffect, ReadInvoicesEffect DEF StepBegins
  <2>2. Others(w) /\ ~Refunding(w)' /\ SameInvoices /\ \A q \in Orders : mishaps[q] \subseteq mishaps'[q]
    BY <2>1 DEF Starts, Refunding
  <2>3. QED
    BY <1>1, <2>2 DEF SameInvoices
<1>3. ASSUME Leaves(w), SameInvoices PROVE Elsewhere(w, i) /\ invoice'[i].order = invoice[i].order
  BY <1>1, <1>3 DEF Leaves, Refunding, SameInvoices
<1>4. ASSUME \/ CreateInvoiceFails(w) \/ MarkPaidFails(w) \/ InvoiceCompleted(w)
             \/ BillingCompleted(w) \/ VoidCompleted(w) \/ Stop(w)
      PROVE  Elsewhere(w, i) /\ invoice'[i].order = invoice[i].order
             /\ \A q \in Orders : mishaps[q] \subseteq mishaps'[q]
  <2>1. Leaves(w) /\ SameInvoices /\ \A q \in Orders : mishaps[q] \subseteq mishaps'[q]
    BY <1>4, LeavingEffect
  <2>2. QED
    BY <1>3, <2>1
<1>5. ASSUME NEW j \in Invoices, Pay(w, j) \/ Void(w, j)
      PROVE  Elsewhere(w, i) /\ invoice'[i].order = invoice[i].order
             /\ \A q \in Orders : mishaps[q] \subseteq mishaps'[q]
  <2>1. CASE Pay(w, j)
    <3>1. Others(w) /\ ~Refunding(w)' /\ UNCHANGED <<invoice, returned, mishaps>>
      BY <2>1, PayEffect DEF Goes, Refunding
    <3>2. QED
      BY <3>1 DEF Elsewhere
  <2>2. CASE Void(w, j)
    <3>1. Others(w) /\ ~Refunding(w)' /\ SameInvoices /\ mishaps' = mishaps
      BY <2>2, NoJobFields, VoidEffect DEF Goes, Leaves, Refunding
    <3>2. QED
      BY <1>1, <3>1 DEF SameInvoices
  <2>3. QED
    BY <1>5, <2>1, <2>2
<1>6. ASSUME MarkPaid(w) \/ MarkVoid(w)
      PROVE  Elsewhere(w, i) /\ invoice'[i].order = invoice[i].order
             /\ \A q \in Orders : mishaps[q] \subseteq mishaps'[q]
  <2>1. pc[w] \in {"markPaid", "markVoid"}
    BY <1>6, MarkEffect
  <2>2. PICK j \in Invoices : j = job[w].on
    BY <2>1 DEF RowsFit, JobFits, TypeOK, Job
  <2>3. PICK s \in {"PAID", "VOID"}, place \in {"pay", "void"} :
          /\ StatusBecomes(j, s) /\ Goes(w, place, job[w].todo \ {j}, NoInvoice)
          /\ UNCHANGED <<returned, mishaps>>
    BY <1>6, <2>2, MarkEffect
  <2>4. Others(w) /\ ~Refunding(w)'
    BY <2>3 DEF Goes, Refunding
  <2>5. QED
    BY <2>3, <2>4 DEF Elsewhere, StatusBecomes
<1>7. ~(\E c \in Credits : ReturnCredit(w, c)) /\ ~CreditsReturned(w) /\ ~ReturnMoney(w) /\ ~MarkRefunded(w)
  BY DEF Refunding, ReturnCredit, CreditsReturned, ReturnMoney, MarkRefunded
<1>8. QED
  BY <1>2, <1>4, <1>5, <1>6, <1>7 DEF InvocationStep

(* Refunds of other invoices *)
LEMMA RefundsElsewhere ==
  ASSUME Overdrawing, RowsFit, NEW w \in Workers, NEW i \in Invoices,
         Refunding(w), InvocationStep(w) \/ Stop(w)
  PROVE  /\ job[w].on # i \/ Stop(w) => Elsewhere(w, i)
         /\ invoice'[i].order = invoice[i].order
         /\ \A q \in Orders : mishaps[q] \subseteq mishaps'[q]
         /\ \/ \E c \in Credits : ReturnCredit(w, c)
            \/ CreditsReturned(w) \/ ReturnMoney(w) \/ MarkRefunded(w) \/ Stop(w)
<1>1. TypeOK /\ job[w].on \in Invoices
  BY DEF Overdrawing, RowsFit, JobFits
<1>2. ASSUME NEW c \in Credits, ReturnCredit(w, c)
      PROVE  /\ job[w].on # i => Elsewhere(w, i)
             /\ invoice' = invoice /\ mishaps' = mishaps
  BY <1>2, ReturnCreditEffect DEF Goes, Elsewhere
<1>3. ASSUME CreditsReturned(w) \/ ReturnMoney(w)
      PROVE  /\ job[w].on # i => Elsewhere(w, i)
             /\ invoice' = invoice /\ mishaps' = mishaps
  BY <1>3, ReturnMoneyEffect DEF Elsewhere, SameInvoices
<1>4. ASSUME MarkRefunded(w)
      PROVE  /\ job[w].on # i => Elsewhere(w, i)
             /\ invoice'[i].order = invoice[i].order /\ mishaps' = mishaps
  <2>1. Leaves(w) /\ StatusBecomes(job[w].on, "REFUNDED") /\ UNCHANGED <<returned, mishaps>>
    BY <1>1, <1>4, ReturnMoneyEffect
  <2>2. QED
    BY <2>1 DEF Leaves, StatusBecomes, Elsewhere, Refunding
<1>5. ASSUME Stop(w)
      PROVE  /\ Elsewhere(w, i) /\ invoice' = invoice
             /\ \A q \in Orders : mishaps[q] \subseteq mishaps'[q]
  <2>1. Leaves(w) /\ SameInvoices /\ \A q \in Orders : mishaps[q] \subseteq mishaps'[q]
    BY <1>1, <1>5, LeavingEffect
  <2>2. QED
    BY <2>1 DEF Leaves, SameInvoices, Elsewhere, Refunding
<1>6. ~ (\/ CreateInvoice(w) \/ CreateInvoiceFails(w) \/ InvoiceCompleted(w)
         \/ \E j \in Invoices : Pay(w, j) \/ Void(w, j)
         \/ MarkPaid(w) \/ MarkPaidFails(w) \/ BillingCompleted(w)
         \/ MarkVoid(w) \/ VoidCompleted(w))
  BY DEF Refunding, CreateInvoice, CreateInvoiceFails, InvoiceCompleted, Pay, Void, MarkPaid,
         MarkPaidFails, BillingCompleted, MarkVoid, VoidCompleted
<1>7. QED
  BY <1>2, <1>3, <1>4, <1>5, <1>6 DEF InvocationStep

LEMMA NextOneRefund == Overdrawing /\ RowsFit /\ OneRefund /\ [Next]_vars => OneRefund'
<1> SUFFICES ASSUME Overdrawing, RowsFit, OneRefund, [Next]_vars,
                    NEW i \in Invoices, NEW o \in Orders, Own(i, o)', Spared(o, {"refundAgain"})'
             PROVE  RefundFits(i)'
  BY DEF OneRefund
<1>1. TypeOK
  BY DEF Overdrawing
<1>2. ASSUME NEW w \in Workers, Elsewhere(w, i), invoice'[i].order = invoice[i].order,
             mishaps[o] \subseteq mishaps'[o]
      PROVE  RefundFits(i)'
  <2>1. Own(i, o) /\ Spared(o, {"refundAgain"})
    BY <1>2 DEF Own, Spared
  <2>2. RefundFits(i)
    BY <2>1 DEF OneRefund
  <2>3. QED
    BY <1>2, <2>2, RefundStays
<1>3. ASSUME NEW w \in Workers, NEW q \in Orders, StepBegins(w, q) PROVE RefundFits(i)'
  <2>1. ~Refunding(w)
    BY <1>3 DEF StepBegins, ReadCredits, ReadInvoices, ReadInvoicesToVoid, Begin, Refunding
  <2>2. QED
    BY <1>1, <1>2, <1>3, <2>1, StepsElsewhere
<1>4. ASSUME NEW w \in Workers, NEW asCredit \in BOOLEAN, NEW j \in Invoices, Refund(w, j, asCredit)
      PROVE  RefundFits(i)'
  <2>1. /\ pc[w] = "idle" /\ Others(w) /\ job'[w].on = j /\ SameInvoices
        /\ mishaps[o] \subseteq mishaps'[o]
        /\ RefundedBefore(j) /\ Own(j, o) => "refundAgain" \in mishaps'[o]
    BY <1>1, <1>4, RefundEffect
  <2>2. CASE j = i
    <3>1. Own(i, o)
      BY <2>1 DEF Own, SameInvoices
    <3>2. ~RefundedBefore(i)
      BY <2>1, <2>2, <3>1 DEF Spared
    <3>3. QED
      BY <1>1, <1>4, <2>2, <3>2, RefundBegins
  <2>3. CASE j # i
    <3>1. Elsewhere(w, i) /\ invoice' = invoice
      BY <2>1, <2>3 DEF Elsewhere, SameInvoices
    <3>2. QED
      BY <1>2, <2>1, <3>1
  <2>4. QED
    BY <2>2, <2>3
<1>5. ASSUME NEW w \in Workers, Refunding(w), InvocationStep(w) \/ Stop(w) PROVE RefundFits(i)'
  <2>1. /\ job[w].on # i \/ Stop(w) => Elsewhere(w, i)
        /\ invoice'[i].order = invoice[i].order
        /\ mishaps[o] \subseteq mishaps'[o]
        /\ \/ \E c \in Credits : ReturnCredit(w, c)
           \/ CreditsReturned(w) \/ ReturnMoney(w) \/ MarkRefunded(w) \/ Stop(w)
    BY <1>5, RefundsElsewhere
  <2>2. CASE job[w].on # i \/ Stop(w)
    BY <1>2, <2>1, <2>2
  <2>3. CASE job[w].on = i /\ ~Stop(w)
    <3>1. Own(i, o) /\ Spared(o, {"refundAgain"})
      BY <2>1 DEF Own, Spared
    <3>2. RefundFits(i)
      BY <3>1 DEF OneRefund
    <3>3. QED
      BY <1>5, <2>1, <2>3, <3>2, RefundGoesOn
  <2>4. QED
    BY <2>2, <2>3
<1>6. ASSUME NEW w \in Workers, CreateInvoice(w) PROVE RefundFits(i)'
  <2>1. PICK j \in Invoices, u \in Usages(job[w].seen) : InvoiceMade(w, j, u)
    BY <1>1, <1>6, CreateInvoiceEffect
  <2>2. /\ pc[w] = "invoice" /\ pc'[w] = "invoiced" /\ job' = job /\ Others(w)
        /\ invoice[j].status = "ABSENT" /\ invoice'[j].status = "PENDING"
        /\ \A k \in Invoices : k # j => invoice'[k] = invoice[k]
        /\ returned' = returned /\ mishaps' = mishaps
    BY <2>1 DEF InvoiceMade
  <2>3. CASE j = i
    <3>1. \A v \in Workers : ~(Refunding(v)' /\ job'[v].on = i)
      BY <2>2, <2>3 DEF RowsFit, JobFits, Others, Refunding
    <3>2. QED
      BY <2>2, <2>3, <3>1 DEF RefundFits
  <2>4. CASE j # i
    <3>1. Elsewhere(w, i) /\ invoice'[i].order = invoice[i].order
      BY <2>2, <2>4 DEF Elsewhere, Refunding
    <3>2. QED
      BY <1>2, <2>2, <3>1
  <2>5. QED
    BY <2>3, <2>4
<1>7. ASSUME NEW w \in Workers, ~Refunding(w), InvocationStep(w) \/ Stop(w), ~CreateInvoice(w)
      PROVE  RefundFits(i)'
  BY <1>1, <1>2, <1>7, StepsElsewhere
<1>8. CASE UNCHANGED vars \/ \E q \in Orders : Abort(q)
  <2>1. UNCHANGED <<invoice, pc, job, returned, mishaps>>
    BY <1>8 DEF vars, Abort
  <2>2. Own(i, o) /\ Spared(o, {"refundAgain"})
    BY <2>1 DEF Own, Spared
  <2>3. RefundFits(i)
    BY <2>2 DEF OneRefund
  <2>4. \A v \in Workers : (Refunding(v)' <=> Refunding(v)) /\ StillToReturn(v)' = StillToReturn(v)
    BY <2>1 DEF Refunding, StillToReturn
  <2>5. QED
    BY <2>1, <2>3, <2>4 DEF RefundFits
<1>9. QED
  BY <1>3, <1>4, <1>5, <1>6, <1>7, <1>8 DEF Next

-----------------------------------------------------------------------------
(* UsagesAddUp.  Only the transaction of INVOICE uses credits, and it says   *)
(* so in the row it writes.                                                 *)
LEMMA UsagesSame ==
  ASSUME TypeOK, UsagesAddUp, SameUsed,
         \A i \in Invoices : invoice'[i].usage = invoice[i].usage
  PROVE  UsagesAddUp'
<1> SUFFICES ASSUME NEW c \in Credits
             PROVE  credit'[c].used = Total([i \in Invoices |-> invoice'[i].usage[c]], MaxInvoices)
  BY DEF UsagesAddUp
<1> DEFINE f == [i \in Invoices |-> invoice[i].usage[c]]
<1> DEFINE g == [i \in Invoices |-> invoice'[i].usage[c]]
<1>1. \A k \in 1 .. MaxInvoices : f[k] \in Int /\ g[k] = f[k]
  BY Amounts DEF Invoices
<1>2. MaxInvoices \in Nat
  BY BillingAssumption
<1>3. credit'[c].used = Total(f, MaxInvoices)
  BY DEF UsagesAddUp, SameUsed
<1> HIDE DEF f, g
<1>4. Total(g, MaxInvoices) = Total(f, MaxInvoices)
  BY <1>1, <1>2, TotalSame
<1>5. QED
  BY <1>3, <1>4 DEF g

LEMMA UsagesOfCreated ==
  ASSUME TypeOK, RowsFit, UsagesAddUp, NEW w \in Workers, NEW i \in Invoices,
         NEW u \in Usages(job[w].seen), InvoiceMade(w, i, u)
  PROVE  UsagesAddUp'
<1> SUFFICES ASSUME NEW c \in Credits
             PROVE  credit'[c].used = Total([j \in Invoices |-> invoice'[j].usage[c]], MaxInvoices)
  BY DEF UsagesAddUp
<1> DEFINE f == [j \in Invoices |-> invoice[j].usage[c]]
<1> DEFINE g == [j \in Invoices |-> invoice'[j].usage[c]]
<1>1. u[c] \in Int
  BY BillingAssumption DEF Usages
<1>2. f[i] = 0 /\ g[i] = u[c]
  BY DEF InvoiceMade, RowsFit, RowFits
<1>3. \A k \in 1 .. MaxInvoices : k # i => g[k] = f[k]
  BY DEF InvoiceMade, Invoices
<1>4. \A k \in 1 .. MaxInvoices : f[k] \in Int
  BY Amounts DEF Invoices
<1>5. credit'[c].used = Total(f, MaxInvoices) + u[c]
  BY DEF UsagesAddUp, InvoiceMade
<1>6. MaxInvoices \in Nat /\ i \in 1 .. MaxInvoices
  BY BillingAssumption DEF Invoices
<1> HIDE DEF f, g
<1>7. \A k \in 1 .. MaxInvoices : f[k] \in Int /\ g[k] \in Int
  BY <1>1, <1>2, <1>3, <1>4
<1>8. Total(g, MaxInvoices) = Total(f, MaxInvoices) + (g[i] - f[i])
  BY <1>3, <1>6, <1>7, TotalChange
<1>9. g[i] - f[i] = u[c]
  BY <1>1, <1>2
<1>10. QED
  BY <1>5, <1>8, <1>9 DEF g

LEMMA NextUsagesAddUp == Overdrawing /\ RowsFit /\ UsagesAddUp /\ [Next]_vars => UsagesAddUp'
<1> SUFFICES ASSUME Overdrawing, RowsFit, UsagesAddUp, [Next]_vars PROVE UsagesAddUp'
  OBVIOUS
<1>1. TypeOK
  BY DEF Overdrawing
<1>2. ASSUME UNCHANGED <<credit, invoice>> PROVE UsagesAddUp'
  BY <1>1, <1>2, UsagesSame DEF SameUsed
<1>3. ASSUME NEW w \in Workers, NEW o \in Orders, StepBegins(w, o) PROVE UsagesAddUp'
  BY <1>2, <1>3 DEF StepBegins, ReadCredits, ReadInvoices, ReadInvoicesToVoid
<1>4. ASSUME NEW w \in Workers, InvocationStep(w) PROVE UsagesAddUp'
  <2>1. CASE CreateInvoice(w)
    BY <1>1, <2>1, CreateInvoiceEffect, UsagesOfCreated
  <2>2. CASE \/ CreateInvoiceFails(w) \/ InvoiceCompleted(w) \/ MarkPaidFails(w)
             \/ BillingCompleted(w) \/ VoidCompleted(w)
             \/ \E i \in Invoices : Pay(w, i) \/ Void(w, i)
    BY <1>2, <2>2 DEF CreateInvoiceFails, InvoiceCompleted, MarkPaidFails, BillingCompleted,
                      VoidCompleted, Pay, Void
  <2>3. CASE MarkPaid(w) \/ MarkVoid(w) \/ MarkRefunded(w)
    <3>1. credit' = credit /\ \E s : invoice' = [invoice EXCEPT ![job[w].on].status = s]
      BY <2>3 DEF MarkPaid, MarkVoid, MarkRefunded
    <3>2. \A i \in Invoices : invoice'[i].usage = invoice[i].usage
      BY <1>1, <3>1 DEF TypeOK, InvoiceRow
    <3>3. QED
      BY <1>1, <3>1, <3>2, UsagesSame DEF SameUsed
  <2>4. CASE (\E c \in Credits : ReturnCredit(w, c)) \/ CreditsReturned(w) \/ ReturnMoney(w)
    <3>1. SameUsed /\ invoice' = invoice
      BY <2>4, ReturnCreditEffect, ReturnMoneyEffect DEF SameInvoices
    <3>2. QED
      BY <1>1, <3>1, UsagesSame
  <2>5. QED
    BY <1>4, <2>1, <2>2, <2>3, <2>4 DEF InvocationStep
<1>5. ASSUME NEW w \in Workers, Stop(w) PROVE UsagesAddUp'
  BY <1>2, <1>5 DEF Stop
<1>6. ASSUME NEW w \in Workers, NEW i \in Invoices, NEW asCredit \in BOOLEAN, Refund(w, i, asCredit)
      PROVE  UsagesAddUp'
  BY <1>2, <1>6 DEF Refund
<1>7. CASE (\E o \in Orders : Abort(o)) \/ UNCHANGED vars
  BY <1>2, <1>7 DEF Abort, vars
<1>8. QED
  BY <1>3, <1>4, <1>5, <1>6, <1>7 DEF Next

-----------------------------------------------------------------------------
LEMMA InitExact == Init => Exact
<1> SUFFICES ASSUME Init PROVE Exact
  OBVIOUS
<1>1. TypeOK /\ Overdrawing
  BY InitTypeOK, InitRefunds, InitOverdrawing DEF Overdrawing
<1>2. /\ \A w \in Workers : pc[w] = "idle" /\ job[w] = NoJob
      /\ \A i \in Invoices : /\ invoice[i].status = "ABSENT" /\ invoice[i].order = NoOrder
                             /\ \A c \in Credits : invoice[i].usage[c] = 0
                             /\ payments[i] = 0 /\ returned[i] = 0
      /\ \A o \in Orders : stage[o] = "INVOICE"
      /\ \A c \in Credits : credit[c].used = 0
  BY DEF Init
<1>3. RowsFit
  BY <1>2, NoJobFields DEF RowsFit, JobFits, RowFits, Refunding
<1>4. \A i \in Invoices, o \in Orders : ~Own(i, o)
  BY <1>2, BillingAssumption DEF Own
<1>5. \A w \in Workers, o \in Orders : job[w].order # o
  BY <1>2, NoJobFields, BillingAssumption
<1>6. ASSUME NEW o \in Orders PROVE OrderFits(o)
  <2>1. Turn(o)
    BY <1>2, <1>4, <1>5 DEF Turn, Alone, StageFits, OfOrder, Own, Stopping, Refunding
  <2>2. OneInvoice(o) /\ OnePayment(o)
    BY <1>4 DEF OneInvoice, OnePayment
  <2>3. QED
    BY <2>1, <2>2 DEF OrderFits
<1>7. OneRefund
  BY <1>4 DEF OneRefund
<1>8. UsagesAddUp
  <2> SUFFICES ASSUME NEW c \in Credits
               PROVE  Total([i \in Invoices |-> invoice[i].usage[c]], MaxInvoices) = 0
    BY <1>2 DEF UsagesAddUp
  <2>1. \A k \in 1 .. MaxInvoices : [i \in Invoices |-> invoice[i].usage[c]][k] = 0
    BY <1>2 DEF Invoices
  <2>2. QED
    BY <2>1, BillingAssumption, TotalOfZeros
<1>9. QED
  BY <1>1, <1>3, <1>6, <1>7, <1>8 DEF Exact, OrdersFit

LEMMA ExactAlways == Spec => []Exact
<1>1. Exact /\ [Next]_vars => Exact'
  BY NextTypeOK, NextRefunds, NextOverdrawing, NextRowsFit, NextOrdersFit, NextOneRefund,
     NextUsagesAddUp DEF Exact, Overdrawing
<1>2. QED
  BY <1>1, InitExact, PTL DEF Spec

(* An order whose BILLING is done has nothing left to pay and has an invoice *)
(* that was paid; an invoice that is void was never paid: over retries and  *)
(* lost races, unless two invocations worked on the order at once or one was *)
(* lost just after the payment.                                             *)
THEOREM StatusTrue == Spec => []StatusIsTrue
<1>1. Exact => DoneIsPaid
  <2> SUFFICES ASSUME Exact PROVE DoneIsPaid
    OBVIOUS
  <2>1. ASSUME NEW o \in Orders, Spared(o, {"overlap"}), stage[o] = "DONE"
        PROVE  /\ OfOrder(o, "PENDING") = {}
               /\ \E i \in Invoices : invoice[i].order = o /\ invoice[i].status \in {"PAID", "REFUNDED"}
    <3>1. StageFits(o)
      BY <2>1 DEF Exact, OrdersFit, OrderFits, Turn
    <3>2. OfOrder(o, "PENDING") = {} /\ OfOrder(o, "VOID") = {} /\ \E i \in Invoices : Own(i, o)
      BY <2>1, <3>1 DEF StageFits, Stopping
    <3>3. PICK i \in Invoices : Own(i, o)
      BY <3>2
    <3>4. invoice[i].status \in InvoiceStatus /\ invoice[i].status # "ABSENT"
      BY <3>3, BillingAssumption DEF Exact, Overdrawing, TypeOK, InvoiceRow, RowsFit, RowFits, Own
    <3>5. invoice[i].status \notin {"PENDING", "VOID"}
      BY <3>2, <3>3 DEF OfOrder, Own
    <3>6. QED
      BY <3>2, <3>3, <3>4, <3>5 DEF InvoiceStatus, Own
  <2>2. \A i \in Invoices : invoice[i].status = "PAID" /\ invoice[i].total > 0 => payments[i] > 0
    BY DEF Exact, RowsFit, RowFits
  <2>3. QED
    BY <2>1, <2>2 DEF DoneIsPaid
<1>2. Exact => VoidIsUnpaid
  <2> SUFFICES ASSUME Exact, NEW i \in Invoices, invoice[i].status = "VOID",
                      Spared(invoice[i].order, {"overlap", "paymentLost"})
               PROVE  payments[i] = 0
    BY DEF VoidIsUnpaid
  <2>1. payments[i] \in Nat /\ invoice[i].order \in Orders
    BY DEF Exact, Overdrawing, TypeOK, InvoiceRow, RowsFit, RowFits
  <2>2. PICK o \in Orders : o = invoice[i].order
    BY <2>1
  <2>3. Spared(o, {"overlap"})
    BY <2>2 DEF Spared
  <2>4. OnePayment(o) /\ Turn(o)
    BY <2>2 DEF Exact, OrdersFit, OrderFits
  <2>5. SUFFICES ASSUME payments[i] > 0 PROVE FALSE
    BY <2>1
  <2>6. PICK w \in Workers : Is(w, o, "markPaid") /\ job[w].on = i
    BY <2>2, <2>4, <2>5 DEF OnePayment, Own
  <2>7. i \in job[w].todo
    BY <2>6 DEF Exact, RowsFit, JobFits, Is
  <2>8. TurnFits(w, o)
    BY <2>3, <2>4, <2>6 DEF Turn, Is
  <2>9. QED
    BY <2>7, <2>8 DEF TurnFits
<1>3. QED
  BY <1>1, <1>2, ExactAlways, PTL DEF StatusIsTrue

(* What a user pays, gets back and spends from credits adds up to the cost: *)
(* an order is charged by one invoice and paid once unless it was worked on *)
(* twice at once or an invocation was lost right after the transaction or   *)
(* the payment; a refund gives back the cost unless it was asked for again; *)
(* and the credits' usage is always the sum of what the invoices say of it. *)
THEOREM MoneyExact == Spec => []MoneyIsExact
<1>1. Exact => ChargedOnce
  <2> SUFFICES ASSUME Exact, NEW o \in Orders, Spared(o, {"overlap", "invoiceLost", "paymentLost"})
               PROVE  /\ Cardinality({i \in Invoices : invoice[i].order = o}) <= 1
                      /\ \A i \in {i \in Invoices : invoice[i].order = o} : payments[i] <= 1
    BY DEF ChargedOnce
  <2> DEFINE own == {i \in Invoices : invoice[i].order = o}
  <2>1. OneInvoice(o) /\ OnePayment(o)
    BY DEF Exact, OrdersFit, OrderFits
  <2>2. Spared(o, {"overlap", "invoiceLost"}) /\ Spared(o, {"overlap", "paymentLost"})
    BY DEF Spared
  <2>3. \A i, j \in own : i = j
    BY <2>1, <2>2 DEF OneInvoice, Own
  <2>4. own = {} \/ \E i \in own : own = {i}
    BY <2>3
  <2>5. Cardinality(own) <= 1
    <3>1. own = {} => Cardinality(own) = 0
      BY FS_EmptySet
    <3>2. \A i : own = {i} => Cardinality(own) = 1
      BY FS_Singleton
    <3> HIDE DEF own
    <3>3. QED
      BY <2>4, <3>1, <3>2
  <2>6. QED
    BY <2>1, <2>2, <2>5 DEF OnePayment, Own
<1>2. Exact => RefundedInFull
  <2> SUFFICES ASSUME Exact, NEW i \in Invoices, invoice[i].status = "REFUNDED",
                      Spared(invoice[i].order, {"refundAgain"})
               PROVE  returned[i] = Cost
    BY DEF RefundedInFull
  <2>1. invoice[i].order \in Orders
    BY DEF Exact, Overdrawing, TypeOK, InvoiceRow, RowsFit, RowFits
  <2>2. QED
    BY <2>1 DEF Exact, OneRefund, RefundFits, Own
<1>3. Exact => UsageIsAccounted
  BY DEF Exact, RowsFit, RowFits, UsagesAddUp, UsageIsAccounted
<1>4. QED
  BY <1>1, <1>2, <1>3, ExactAlways, PTL DEF MoneyIsExact
=============================================================================
