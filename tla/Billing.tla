------------------------------- MODULE Billing -------------------------------
(***************************************************************************)
(* Invoices, credits and payments of one user: the INVOICE and BILLING     *)
(* steps of an order (order/processors/steps/invoice.step.ts,              *)
(* billing.step.ts), InvoiceService (invoice/invoice.service.ts) and       *)
(* CreditService (credit/credit.service.ts).                               *)
(*                                                                         *)
(* The orders of a user, two renewals say, bill at the same time and draw  *)
(* on the same credits.  The order engine retries a step that throws, and  *)
(* may work on one order twice at once (see OrderEngine, Exclusive); an    *)
(* administrator may refund an invoice meanwhile.  Each invocation of a    *)
(* step or of refund is modelled one call at a time: a database            *)
(* transaction, or a call of the payment provider, is one action.          *)
(***************************************************************************)
EXTENDS Integers, FiniteSets

CONSTANTS
  Orders,        \* orders of the user
  NoOrder,       \* what an idle invocation works on
  Workers,       \* invocations of a step or of refund in flight together
  Cost,          \* what an order costs, taxes included
  InitialCredit, \* what the user's first credit provides
  MaxCredits,    \* bound: credits there is room for
  MaxInvoices,   \* bound: invoices there is room for
  MaxStops,      \* bound: invocations that throw or die with the server
  MaxOverlaps,   \* bound: invocations begun on an order already worked on
  MaxRefunds     \* bound: refunds asked for

ASSUME BillingAssumption ==
  /\ NoOrder \notin Orders
  /\ Cost \in Nat /\ InitialCredit \in Nat
  /\ MaxCredits \in Nat \ {0} /\ MaxInvoices \in Nat
  /\ MaxStops \in Nat /\ MaxOverlaps \in Nat /\ MaxRefunds \in Nat

VARIABLES
  stage,     \* how far each order is
  credit,    \* Credit rows; one that provides nothing does not exist
  invoice,   \* Invoice rows, each with its CreditUsage rows
  pc,        \* the next call of each invocation
  job,       \* the local variables of each invocation
  payments,  \* external: how often the provider was asked to pay each invoice
  returned,  \* external: what refunds of each invoice gave back
  spent,     \* how often the environment has used each bound
  mishaps    \* history: the unusual events of each order

vars == <<stage, credit, invoice, pc, job, payments, returned, spent, mishaps>>

-----------------------------------------------------------------------------
Credits == 1 .. MaxCredits
Invoices == 1 .. MaxInvoices
NoInvoice == 0

InvoiceStatus == {"ABSENT", "PENDING", "PAID", "VOID", "REFUNDED"}

(* INVOICE and BILLING are still to be done; billed; being aborted; aborted *)
Stage == {"INVOICE", "BILLING", "DONE", "ABORT", "ABORTED"}

CreditRow == [provided : Nat, used : Nat]

InvoiceRow == [status : InvoiceStatus, order : Orders \cup {NoOrder}, total : Int,
               usage : [Credits -> Nat]]

Place == {"idle", "invoice", "invoiced", "pay", "markPaid",
          "void", "markVoid", "returnCredit", "returnMoney", "markRefunded"}

Mishap == {"overlap", "invoiceLost", "paymentLost", "refundAgain"}

(* seen: the credits as read; todo: invoices still to pay or void; on: the  *)
(* invoice being worked on; back: credits whose usage is still to be        *)
(* returned                                                                 *)
Job == [order : Orders \cup {NoOrder}, seen : [Credits -> CreditRow],
        todo : SUBSET Invoices, on : Invoices \cup {NoInvoice},
        back : SUBSET Credits, asCredit : BOOLEAN]

NoCredits == [c \in Credits |-> [provided |-> 0, used |-> 0]]

NoJob == [order |-> NoOrder, seen |-> NoCredits, todo |-> {}, on |-> NoInvoice,
          back |-> {}, asCredit |-> FALSE]

TypeOK ==
  /\ stage \in [Orders -> Stage]
  /\ credit \in [Credits -> CreditRow]
  /\ invoice \in [Invoices -> InvoiceRow]
  /\ \A i \in Invoices : invoice[i].total >= 0
  /\ pc \in [Workers -> Place]
  /\ job \in [Workers -> Job]
  /\ payments \in [Invoices -> Nat]
  /\ returned \in [Invoices -> Nat]
  /\ spent \in [{"stop", "overlap", "refund"} -> Nat]
  /\ mishaps \in [Orders -> SUBSET Mishap]

Init ==
  /\ stage = [o \in Orders |-> "INVOICE"]
  /\ credit = [c \in Credits |-> [provided |-> IF c = 1 THEN InitialCredit ELSE 0, used |-> 0]]
  /\ invoice = [i \in Invoices |-> [status |-> "ABSENT", order |-> NoOrder, total |-> 0,
                                    usage |-> [c \in Credits |-> 0]]]
  /\ pc = [w \in Workers |-> "idle"]
  /\ job = [w \in Workers |-> NoJob]
  /\ payments = [i \in Invoices |-> 0]
  /\ returned = [i \in Invoices |-> 0]
  /\ spent = [e \in {"stop", "overlap", "refund"} |-> 0]
  /\ mishaps = [o \in Orders |-> {}]

-----------------------------------------------------------------------------
(* The sum of a function on 1 .. n *)
Total(f, n) ==
  LET sum[k \in 0 .. n] == IF k = 0 THEN 0 ELSE sum[k - 1] + f[k]
  IN sum[n]

(***************************************************************************)
(* Seeded bugs, here and below under the names Definition_Bug.  Each is a  *)
(* plausible slip in the definition it is named for; README.md says which  *)
(* property tells it from the code.                                        *)
(***************************************************************************)
OfOrder(o, status) == {i \in Invoices : invoice[i].order = o /\ invoice[i].status = status}

(* A step of order o begins on worker w.  One that is not the only one is   *)
(* the engine's doing: it may not have been able to tell.                   *)
Begin(w, o, place, locals) ==
  /\ pc[w] = "idle"
  /\ pc' = [pc EXCEPT ![w] = place]
  /\ job' = [job EXCEPT ![w] = locals]
  /\ IF \E v \in Workers : job[v].order = o
       THEN /\ spent["overlap"] < MaxOverlaps
            /\ spent' = [spent EXCEPT !["overlap"] = @ + 1]
            /\ mishaps' = [mishaps EXCEPT ![o] = @ \cup {"overlap"}]
       ELSE UNCHANGED <<spent, mishaps>>

Goto(w, place) == pc' = [pc EXCEPT ![w] = place]

Return(w) == /\ pc' = [pc EXCEPT ![w] = "idle"]
             /\ job' = [job EXCEPT ![w] = NoJob]

-----------------------------------------------------------------------------
(* INVOICE *)

(* findUnusedByUserAndSubscription, before the transaction *)
ReadCredits(w, o) ==
  /\ stage[o] = "INVOICE"
  /\ Begin(w, o, "invoice", [NoJob EXCEPT !.order = o, !.seen = credit])
  /\ UNCHANGED <<stage, credit, invoice, payments, returned>>

Left(row) == row.provided - row.used

Usages_NotCapped(seen) == {[c \in Credits |-> Left(seen[c])]}

(* The loop takes the credits one after the other, in whatever order they   *)
(* were found, until the cost is covered: all but the last it takes it uses *)
(* up.                                                                      *)
Usages(seen) ==
  LET left == [c \in Credits |-> Left(seen[c])] IN
  {u \in [Credits -> 0 .. Cost] :
     /\ \A c \in Credits : u[c] <= left[c]
     /\ Total(u, MaxCredits) \in 0 .. Cost
     /\ Total(u, MaxCredits) = Cost \/ u = left
     /\ \A c, d \in Credits : u[c] \notin {0, left[c]} /\ u[d] \notin {0, left[d]} => c = d}

NotUsedSince_Unchecked(seen, u) == TRUE

(* `where: { usedCost: usage.oldUsedCost }` *)
NotUsedSince(seen, u) == \A c \in Credits : u[c] > 0 => credit[c].used = seen[c].used

(* The transaction: invoice, items, usages and credits, or nothing *)
CreateInvoice(w) ==
  /\ pc[w] = "invoice"
  /\ \E u \in Usages(job[w].seen), i \in Invoices :
       /\ NotUsedSince(job[w].seen, u)
       /\ invoice[i].status = "ABSENT" /\ \A j \in Invoices : j < i => invoice[j].status # "ABSENT"
       /\ invoice' = [invoice EXCEPT ![i] =
            [status |-> "PENDING", order |-> job[w].order,
             total |-> Cost - Total(u, MaxCredits), usage |-> u]]
       /\ credit' = [c \in Credits |-> [credit[c] EXCEPT !.used = @ + u[c]]]
  /\ Goto(w, "invoiced")
  /\ UNCHANGED <<stage, job, payments, returned, spent, mishaps>>

CreateInvoiceFails(w) ==
  /\ pc[w] = "invoice"
  /\ \E u \in Usages(job[w].seen) : ~NotUsedSince(job[w].seen, u)
  /\ Return(w)
  /\ UNCHANGED <<stage, credit, invoice, payments, returned, spent, mishaps>>

(* The engine records the step as completed, and goes on to the next.  A    *)
(* second invocation may find the order further on.                         *)
InvoiceCompleted(w) ==
  /\ pc[w] = "invoiced"
  /\ stage' = [stage EXCEPT ![job[w].order] = IF @ = "INVOICE" THEN "BILLING" ELSE @]
  /\ Return(w)
  /\ UNCHANGED <<credit, invoice, payments, returned, spent, mishaps>>

-----------------------------------------------------------------------------
(* BILLING *)

(* findByOrderWithItems; what is not PENDING is skipped *)
ReadInvoices(w, o) ==
  /\ stage[o] = "BILLING"
  /\ Begin(w, o, "pay", [NoJob EXCEPT !.order = o, !.todo = OfOrder(o, "PENDING")])
  /\ UNCHANGED <<stage, credit, invoice, payments, returned>>

(* pay, unless the credits cover everything *)
Pay(w, i) ==
  /\ pc[w] = "pay"
  /\ i \in job[w].todo
  /\ payments' = IF invoice[i].total > 0 THEN [payments EXCEPT ![i] = @ + 1] ELSE payments
  /\ job' = [job EXCEPT ![w].on = i]
  /\ Goto(w, "markPaid")
  /\ UNCHANGED <<stage, credit, invoice, returned, spent, mishaps>>

MarkPaid_NotRecorded(w) ==
  /\ pc[w] = "markPaid"
  /\ job' = [job EXCEPT ![w] = [@ EXCEPT !.todo = job[w].todo \ {job[w].on}, !.on = NoInvoice]]
  /\ Goto(w, "pay")
  /\ UNCHANGED <<stage, credit, invoice, payments, returned, spent, mishaps>>

(* markPaid, `where: { status: PENDING }` *)
MarkPaid(w) ==
  LET i == job[w].on IN
  /\ pc[w] = "markPaid"
  /\ invoice[i].status = "PENDING"
  /\ invoice' = [invoice EXCEPT ![i].status = "PAID"]
  /\ job' = [job EXCEPT ![w] = [@ EXCEPT !.todo = job[w].todo \ {i}, !.on = NoInvoice]]
  /\ Goto(w, "pay")
  /\ UNCHANGED <<stage, credit, payments, returned, spent, mishaps>>

MarkPaidFails(w) ==
  /\ pc[w] = "markPaid"
  /\ invoice[job[w].on].status # "PENDING"
  /\ Return(w)
  /\ UNCHANGED <<stage, credit, invoice, payments, returned, spent, mishaps>>

BillingCompleted(w) ==
  /\ pc[w] = "pay"
  /\ job[w].todo = {}
  /\ stage' = [stage EXCEPT ![job[w].order] = IF @ = "BILLING" THEN "DONE" ELSE @]
  /\ Return(w)
  /\ UNCHANGED <<credit, invoice, payments, returned, spent, mishaps>>

-----------------------------------------------------------------------------
(* The order is aborted: BILLING's abort does nothing, INVOICE's voids what *)
(* is PENDING.  Credits that were used stay used.                           *)
Abort(o) ==
  /\ stage[o] \in {"INVOICE", "BILLING", "DONE"}
  /\ stage' = [stage EXCEPT ![o] = "ABORT"]
  /\ UNCHANGED <<credit, invoice, pc, job, payments, returned, spent, mishaps>>

ReadInvoicesToVoid(w, o) ==
  /\ stage[o] = "ABORT"
  /\ Begin(w, o, "void", [NoJob EXCEPT !.order = o, !.todo = OfOrder(o, "PENDING")])
  /\ UNCHANGED <<stage, credit, invoice, payments, returned>>

(* void reads the invoice again, and throws if it is not PENDING *)
Void(w, i) ==
  /\ pc[w] = "void"
  /\ i \in job[w].todo
  /\ IF invoice[i].status = "PENDING"
       THEN /\ job' = [job EXCEPT ![w].on = i]
            /\ Goto(w, "markVoid")
       ELSE Return(w)
  /\ UNCHANGED <<stage, credit, invoice, payments, returned, spent, mishaps>>

MarkVoid(w) ==
  LET i == job[w].on IN
  /\ pc[w] = "markVoid"
  /\ invoice' = [invoice EXCEPT ![i].status = "VOID"]
  /\ job' = [job EXCEPT ![w] = [@ EXCEPT !.todo = job[w].todo \ {i}, !.on = NoInvoice]]
  /\ Goto(w, "void")
  /\ UNCHANGED <<stage, credit, payments, returned, spent, mishaps>>

VoidCompleted(w) ==
  /\ pc[w] = "void"
  /\ job[w].todo = {}
  /\ stage' = [stage EXCEPT ![job[w].order] = "ABORTED"]
  /\ Return(w)
  /\ UNCHANGED <<credit, invoice, payments, returned, spent, mishaps>>

-----------------------------------------------------------------------------
(* refund: read the invoice, return the credits it used one by one, then    *)
(* the money, in credit or through the provider, then mark it REFUNDED      *)

RefundedBefore(i) == returned[i] > 0 \/ \E v \in Workers : pc[v] \in
  {"returnCredit", "returnMoney", "markRefunded"} /\ job[v].on = i

Refund(w, i, asCredit) ==
  /\ pc[w] = "idle"
  /\ invoice[i].status = "PAID"
  /\ spent["refund"] < MaxRefunds
  /\ spent' = [spent EXCEPT !["refund"] = @ + 1]
  /\ Goto(w, "returnCredit")
  /\ job' = [job EXCEPT ![w] = [NoJob EXCEPT !.on = i, !.asCredit = asCredit,
                                  !.back = {c \in Credits : invoice[i].usage[c] > 0}]]
  /\ mishaps' = IF RefundedBefore(i)
       THEN [mishaps EXCEPT ![invoice[i].order] = @ \cup {"refundAgain"}] ELSE mishaps
  /\ UNCHANGED <<stage, credit, invoice, payments, returned>>

(* CreditService.create *)
CreateCredit(amount) ==
  \E c \in Credits :
    /\ credit[c].provided = 0 /\ \A d \in Credits : d < c => credit[d].provided > 0
    /\ credit' = [credit EXCEPT ![c] = [provided |-> amount, used |-> 0]]

ReturnCredit(w, c) ==
  LET i == job[w].on IN
  /\ pc[w] = "returnCredit"
  /\ c \in job[w].back
  /\ CreateCredit(invoice[i].usage[c])
  /\ returned' = [returned EXCEPT ![i] = @ + invoice[i].usage[c]]
  /\ job' = [job EXCEPT ![w].back = @ \ {c}]
  /\ UNCHANGED <<stage, invoice, pc, payments, spent, mishaps>>

CreditsReturned(w) ==
  /\ pc[w] = "returnCredit"
  /\ job[w].back = {}
  /\ Goto(w, "returnMoney")
  /\ UNCHANGED <<stage, credit, invoice, job, payments, returned, spent, mishaps>>

ReturnMoney_IgnoresCredits(w) ==
  /\ pc[w] = "returnMoney"
  /\ IF job[w].asCredit THEN CreateCredit(Cost) ELSE UNCHANGED credit
  /\ returned' = [returned EXCEPT ![job[w].on] = @ + Cost]
  /\ Goto(w, "markRefunded")
  /\ UNCHANGED <<stage, invoice, job, payments, spent, mishaps>>

ReturnMoney(w) ==
  LET i == job[w].on IN
  /\ pc[w] = "returnMoney"
  /\ IF job[w].asCredit /\ invoice[i].total > 0
       THEN CreateCredit(invoice[i].total)
       ELSE UNCHANGED credit
  /\ returned' = [returned EXCEPT ![i] = @ + invoice[i].total]
  /\ Goto(w, "markRefunded")
  /\ UNCHANGED <<stage, invoice, job, payments, spent, mishaps>>

MarkRefunded(w) ==
  /\ pc[w] = "markRefunded"
  /\ invoice' = [invoice EXCEPT ![job[w].on].status = "REFUNDED"]
  /\ Return(w)
  /\ UNCHANGED <<stage, credit, payments, returned, spent, mishaps>>

-----------------------------------------------------------------------------
(* A call throws, or the server stops.  What the invocation did remains,    *)
(* and the order stays where it is, to be tried again: right after the      *)
(* transaction that is another invoice, right after the payment that is     *)
(* another payment.                                                         *)
Stop(w) ==
  /\ pc[w] # "idle"
  /\ spent["stop"] < MaxStops
  /\ spent' = [spent EXCEPT !["stop"] = @ + 1]
  /\ Return(w)
  /\ mishaps' = [o \in Orders |->
       IF job[w].order # o THEN mishaps[o]
       ELSE mishaps[o] \cup (IF pc[w] = "invoiced" THEN {"invoiceLost"} ELSE {})
                       \cup (IF pc[w] = "markPaid" THEN {"paymentLost"} ELSE {})]
  /\ UNCHANGED <<stage, credit, invoice, payments, returned>>

InvocationStep(w) ==
  \/ CreateInvoice(w) \/ CreateInvoiceFails(w) \/ InvoiceCompleted(w)
  \/ \E i \in Invoices : Pay(w, i) \/ Void(w, i)
  \/ MarkPaid(w) \/ MarkPaidFails(w) \/ BillingCompleted(w)
  \/ MarkVoid(w) \/ VoidCompleted(w)
  \/ \E c \in Credits : ReturnCredit(w, c)
  \/ CreditsReturned(w) \/ ReturnMoney(w) \/ MarkRefunded(w)

StepBegins(w, o) == ReadCredits(w, o) \/ ReadInvoices(w, o) \/ ReadInvoicesToVoid(w, o)

Next ==
  \/ \E w \in Workers, o \in Orders : StepBegins(w, o)
  \/ \E w \in Workers : InvocationStep(w) \/ Stop(w)
  \/ \E w \in Workers, i \in Invoices, asCredit \in BOOLEAN : Refund(w, i, asCredit)
  \/ \E o \in Orders : Abort(o)

Spec == Init /\ [][Next]_vars

-----------------------------------------------------------------------------
(* None of the events E has happened to order o *)
Spared(o, E) == mishaps[o] \cap E = {}

(* A credit is never used beyond what it provides, whatever orders, retries *)
(* and overlapping invocations draw on it at once.                          *)
CreditsNotOverdrawn == \A c \in Credits : credit[c].used <= credit[c].provided

(* What credits were used for is what the invoices say of them, and every   *)
(* invoice charges exactly what its credits leave.                          *)
UsageIsAccounted ==
  /\ \A c \in Credits : credit[c].used = Total([i \in Invoices |-> invoice[i].usage[c]], MaxInvoices)
  /\ \A i \in Invoices : invoice[i].status # "ABSENT" =>
       invoice[i].total + Total(invoice[i].usage, MaxCredits) = Cost

(* An order is charged for once, by one invoice, over failed attempts and   *)
(* lost races for its credits, unless it was worked on twice at once, or    *)
(* the invocation was lost just after the transaction or the payment.       *)
ChargedOnce ==
  \A o \in Orders : Spared(o, {"overlap", "invoiceLost", "paymentLost"}) =>
    LET own == {i \in Invoices : invoice[i].order = o} IN
    /\ Cardinality(own) <= 1
    /\ \A i \in own : payments[i] <= 1

(* An order whose BILLING is done has nothing left to pay, and paid invoices*)
(* were paid.                                                               *)
DoneIsPaid ==
  /\ \A o \in Orders : Spared(o, {"overlap"}) /\ stage[o] = "DONE" =>
       /\ OfOrder(o, "PENDING") = {}
       /\ \E i \in Invoices : invoice[i].order = o /\ invoice[i].status \in {"PAID", "REFUNDED"}
  /\ \A i \in Invoices : invoice[i].status = "PAID" /\ invoice[i].total > 0 => payments[i] > 0

(* No payment was taken for an invoice that is void, unless the order was   *)
(* worked on twice at once or the invocation was lost after the payment.    *)
VoidIsUnpaid ==
  \A i \in Invoices :
    invoice[i].status = "VOID" /\ Spared(invoice[i].order, {"overlap", "paymentLost"})
      => payments[i] = 0

(* The status of an invoice tells whether it was paid *)
StatusIsTrue == DoneIsPaid /\ VoidIsUnpaid

(* A refund gives back exactly the cost, unless the invoice was refunded    *)
(* again before the first refund, or after a failed one, was recorded.      *)
RefundedInFull ==
  \A i \in Invoices :
    invoice[i].status = "REFUNDED" /\ Spared(invoice[i].order, {"refundAgain"})
      => returned[i] = Cost

(* What a user pays, gets back and spends from credits adds up to the cost *)
MoneyIsExact == ChargedOnce /\ RefundedInFull /\ UsageIsAccounted
=============================================================================
