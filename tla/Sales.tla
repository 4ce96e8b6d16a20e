-------------------------------- MODULE Sales --------------------------------
(***************************************************************************)
(* Invoices and credit notes, their payments, and the losses on what is no  *)
(* longer expected; the entries the journal keeps of them. An invoice and   *)
(* the amount and day of a payment never change, so that the live entry of  *)
(* a sale is told by its invoice, and that of a receipt by its payment and  *)
(* the VAT it made due (moved from 445881 to 445710).                       *)
(***************************************************************************)
EXTENDS Exercises, Folds, Functions

CONSTANTS
    Bills,          \* what an invoice may amount to: [ttc, vat]
    ForeignCredits, \* the same of credit notes issued elsewhere
    Amounts,        \* what a payment may be entered for
    MonthOf,        \* the VAT period of a day
    Months,         \* the VAT periods whose CA3 may be filed
    MaxInvoices, MaxPayments, MaxLosses     \* bounds

InvoiceIds == 1..MaxInvoices
PaymentIds == 1..MaxPayments
LossIds == 1..MaxLosses

InvoiceRows ==
    [ttc : Int, vat : Int, on : Days, imported : BOOLEAN, credits : InvoiceIds \cup {None}]
PaymentRows ==
    [invoice : InvoiceIds, amount : Int, on : Days, line : Lines \cup {None}, voided : BOOLEAN]
LossRows == [invoice : InvoiceIds, on : Days, retracted : Days \cup {None}]

ASSUME SalesAssumption ==
    /\ None \notin InvoiceRows /\ None \notin PaymentRows /\ None \notin LossRows
    /\ {MaxInvoices, MaxPayments, MaxLosses} \subseteq Nat
    /\ \A b \in Bills \cup ForeignCredits : b.ttc \in Int /\ b.vat \in Int
    /\ \A c \in ForeignCredits : c.ttc < 0
    /\ Amounts \subseteq Nat \ {0}
    /\ DOMAIN MonthOf = Days

VARIABLES
    invoices,       \* rows or None; credits: the invoice it cancels, or None
    sold,           \* the invoices with a live sale entry
    payments,       \* rows or None; line: of the statement, or None
    moved,          \* of a payment: the VAT its live entry made due, or None
    losses,         \* rows or None; retracted: the day, or None
    filed           \* the months whose CA3 is marked as filed

salesVars == <<invoices, sold, payments, moved, losses, filed>>

Written(rows) == {i \in DOMAIN rows : rows[i] # None}
Fresh(rows, i) == rows[i] = None /\ \A j \in DOMAIN rows : j < i => rows[j] # None

CreditsOf(i) == {c \in Written(invoices) : invoices[c].credits = i}
HasCreditNote(i) == CreditsOf(i) # {}
LivePaymentsOf(pays, i) == {p \in Written(pays) : pays[p].invoice = i /\ ~pays[p].voided}
ActiveLosses(i) ==
    {w \in Written(losses) : losses[w].invoice = i /\ losses[w].retracted = None}
LivePayments == {p \in Written(payments) : ~payments[p].voided}
PaymentsFrom(l) == {p \in LivePayments : payments[p].line = l}

(* What receipts amount to together, and what they made due; what credit    *)
(* notes amount to.                                                         *)
MovedOrZero(mv, p) == IF mv[p] = None THEN 0 ELSE mv[p]
Collected(pays, receipts) == SumFunctionOnSet([p \in receipts |-> pays[p].amount], receipts)
MadeDue(mv, receipts) == SumFunctionOnSet([p \in receipts |-> MovedOrZero(mv, p)], receipts)
CreditedVat(credits) == SumFunctionOnSet([c \in credits |-> invoices[c].vat], credits)
CreditedTtc(credits) == SumFunctionOnSet([c \in credits |-> invoices[c].ttc], credits)
Paid(pays, i) == Collected(pays, LivePaymentsOf(pays, i))

----------------------------------------------------------------------------
(* What the entry of a receipt should be, given the others as they are      *)
(* written.                                                                 *)

(* pending * collected / due, truncated; the receipt that settles takes     *)
(* what is left. pending and due are positive when the division is made.    *)
VatTransferred(pending, collected, due) ==
    IF due <= 0 \/ pending <= 0 THEN 0
    ELSE IF collected >= due THEN pending
    ELSE (pending * collected) \div due

ShareOfTotal(pays, mv, p) ==        \* mutant
    IF pays[p].voided THEN None
    ELSE LET i == pays[p].invoice
         IN  VatTransferred(invoices[i].vat, pays[p].amount, invoices[i].ttc)
MovedForgotten(pays, mv, p) ==      \* mutant
    IF pays[p].voided THEN None
    ELSE LET i == pays[p].invoice
             others == LivePaymentsOf(pays, i) \ {p}
             due == invoices[i].ttc - Collected(pays, others)
         IN  VatTransferred(invoices[i].vat, pays[p].amount, due)
DesiredCollection(pays, mv, p) ==
    IF pays[p].voided THEN None
    ELSE LET i == pays[p].invoice
             credits == {c \in CreditsOf(i) : invoices[c].on <= pays[p].on}
             others == LivePaymentsOf(pays, i) \ {p}
             pending == invoices[i].vat + CreditedVat(credits) - MadeDue(mv, others)
             due == invoices[i].ttc + CreditedTtc(credits) - Collected(pays, others)
         IN  VatTransferred(pending, pays[p].amount, due)

Synced(pays, mv, p) == [mv EXCEPT ![p] = DesiredCollection(pays, mv, p)]

(* sync_collection: a live entry that is already the desired one is left;   *)
(* otherwise neither may be dated in a closed exercise.                     *)
SyncCollection(p) ==
    /\ Synced(payments', moved, p) # moved => ~Closed(payments'[p].on)
    /\ moved' = Synced(payments', moved, p)

----------------------------------------------------------------------------
(* Invoices.                                                                *)

Invoice(bill, d, imported, credits) ==
    [ttc |-> bill.ttc, vat |-> bill.vat, on |-> d, imported |-> imported, credits |-> credits]

(* Insert, then sync_sale.                                                  *)
Issue(i, invoice) ==
    /\ opened = 2 /\ Fresh(invoices, i)
    /\ ~Closed(invoice.on)
    /\ invoices' = [invoices EXCEPT ![i] = invoice]
    /\ sold' = sold \cup {i}
    /\ UNCHANGED <<payments, moved, losses, filed, exerciseVars, matched, opened>>

EmitInvoice(i, bill, d) == Issue(i, Invoice(bill, d, FALSE, None))

(* Neither refuses a credit note on an invoice written off.                 *)
ImportIssuedInvoice(i, bill, d) == Issue(i, Invoice(bill, d, TRUE, None))
ImportCreditNote(i, bill, d, of) ==
    /\ of \in Written(invoices) /\ invoices[of].credits = None /\ ~HasCreditNote(of)
    /\ bill.ttc < 0
    /\ Issue(i, Invoice(bill, d, TRUE, of))

Negated(invoice) == [ttc |-> -invoice.ttc, vat |-> -invoice.vat]
IssueCreditOnLoss(i, d, of) ==      \* mutant
    /\ of \in Written(invoices) /\ ~invoices[of].imported /\ invoices[of].credits = None
    /\ ~HasCreditNote(of)
    /\ Issue(i, Invoice(Negated(invoices[of]), d, FALSE, of))
IssueCreditNote(i, d, of) ==
    /\ of \in Written(invoices) /\ ~invoices[of].imported /\ invoices[of].credits = None
    /\ ~HasCreditNote(of) /\ ActiveLosses(of) = {}
    /\ Issue(i, Invoice(Negated(invoices[of]), d, FALSE, of))

----------------------------------------------------------------------------
(* Losses. Their lines in the book are rebuilt at each reading, at the days *)
(* of these rows.                                                           *)

WriteOffReceivable(w, i, d) ==
    /\ opened = 2 /\ Fresh(losses, w)
    /\ i \in Written(invoices) /\ invoices[i].credits = None /\ ~HasCreditNote(i)
    /\ ActiveLosses(i) = {}
    /\ d >= invoices[i].on /\ ~Closed(d) /\ MonthOf[d] \notin filed
    /\ invoices[i].ttc # Paid(payments, i)
    /\ losses' = [losses EXCEPT ![w] = [invoice |-> i, on |-> d, retracted |-> None]]
    /\ UNCHANGED <<invoices, sold, payments, moved, filed, exerciseVars, matched, opened>>

RetractFiled(w, d) ==       \* mutant
    /\ opened = 2 /\ w \in Written(losses) /\ losses[w].retracted = None
    /\ MonthOf[d] \notin filed
    /\ losses' = [losses EXCEPT ![w].retracted = d]
    /\ UNCHANGED <<invoices, sold, payments, moved, filed, exerciseVars, matched, opened>>
RetractWriteOff(w, d) ==
    /\ opened = 2 /\ w \in Written(losses) /\ losses[w].retracted = None
    /\ MonthOf[losses[w].on] \notin filed
    /\ losses' = [losses EXCEPT ![w].retracted = d]
    /\ UNCHANGED <<invoices, sold, payments, moved, filed, exerciseVars, matched, opened>>

MarkDutyFiled(m) ==
    /\ opened = 2 /\ filed' = filed \cup {m}
    /\ UNCHANGED <<invoices, sold, payments, moved, losses, exerciseVars, matched, opened>>
RetractDutyFiled(m) ==
    /\ opened = 2 /\ m \in filed /\ filed' = filed \ {m}
    /\ UNCHANGED <<invoices, sold, payments, moved, losses, exerciseVars, matched, opened>>

----------------------------------------------------------------------------
(* Payments.                                                                *)

Payment(i, amount, d, line) ==
    [invoice |-> i, amount |-> amount, on |-> d, line |-> line, voided |-> FALSE]

(* Nothing refuses more than what is due.                                   *)
RecordPayment(p, i, amount, d) ==
    /\ opened = 2 /\ Fresh(payments, p) /\ amount > 0 /\ i \in Written(invoices)
    /\ payments' = [payments EXCEPT ![p] = Payment(i, amount, d, None)]
    /\ SyncCollection(p)
    /\ UNCHANGED <<invoices, sold, losses, filed, exerciseVars, matched, opened>>

VoidKeepsMatch(p) ==        \* mutant
    /\ opened = 2 /\ p \in Written(payments) /\ ~payments[p].voided
    /\ payments' = [payments EXCEPT ![p].voided = TRUE]
    /\ SyncCollection(p)
    /\ UNCHANGED <<invoices, sold, losses, filed, exerciseVars, matched, opened>>
VoidPayment(p) ==
    /\ opened = 2 /\ p \in Written(payments) /\ ~payments[p].voided
    /\ payments' = [payments EXCEPT ![p].voided = TRUE]
    /\ matched' = IF payments[p].line = None THEN matched
                  ELSE [matched EXCEPT ![payments[p].line] = Free]
    /\ SyncCollection(p)
    /\ UNCHANGED <<invoices, sold, losses, filed, exerciseVars, opened>>

ReconcileTransaction(l, p, i) ==
    /\ opened = 2 /\ Fresh(payments, p) /\ i \in Written(invoices)
    /\ matched[l] = Free /\ LineAmount[l] > 0
    /\ payments' = [payments EXCEPT ![p] = Payment(i, LineAmount[l], LineOn[l], l)]
    /\ matched' = [matched EXCEPT ![l] = Match("invoice", i)]
    /\ SyncCollection(p)
    /\ UNCHANGED <<invoices, sold, losses, filed, exerciseVars, opened>>

----------------------------------------------------------------------------
(* An opening writes the missing sales, then goes through the receipts that *)
(* are not voided by day and id, even those of closed exercises.            *)
ByDay(p, q) ==
    \/ payments[p].on < payments[q].on
    \/ payments[p].on = payments[q].on /\ p < q
Latest(receipts) == CHOOSE p \in receipts : \A q \in receipts \ {p} : ByDay(q, p)

(* Each receipt sees those before it as they have just been written.        *)
Resynced(receipts) ==
    MapThenFoldSet(LAMBDA p, mv : Synced(payments, mv, p), moved, LAMBDA p : p, Latest, receipts)

BackfillOpenYears ==        \* mutant
    /\ opened >= 1 /\ opened' = 2
    /\ sold' = sold \cup {i \in Written(invoices) : ~Closed(invoices[i].on)}
    /\ moved' = Resynced({p \in LivePayments : ~Closed(payments[p].on)})
    /\ UNCHANGED <<invoices, payments, losses, filed, exerciseVars, matched>>
BackfillServiceBookings ==
    /\ opened >= 1 /\ opened' = 2
    /\ sold' = sold \cup Written(invoices)
    /\ moved' = Resynced(LivePayments)
    /\ UNCHANGED <<invoices, payments, losses, filed, exerciseVars, matched>>

SalesNext ==
    \/ \E i \in InvoiceIds, d \in Days :
         \/ \E b \in Bills : EmitInvoice(i, b, d) \/ ImportIssuedInvoice(i, b, d)
         \/ \E of \in InvoiceIds :
              \/ \E b \in ForeignCredits : ImportCreditNote(i, b, d, of)
              \/ IssueCreditNote(i, d, of)
    \/ \E w \in LossIds, d \in Days :
         \/ \E i \in InvoiceIds : WriteOffReceivable(w, i, d)
         \/ RetractWriteOff(w, d)
    \/ \E m \in Months : MarkDutyFiled(m) \/ RetractDutyFiled(m)
    \/ \E p \in PaymentIds, i \in InvoiceIds :
         \/ \E a \in Amounts, d \in Days : RecordPayment(p, i, a, d)
         \/ \E l \in Lines : ReconcileTransaction(l, p, i)
    \/ \E p \in PaymentIds : VoidPayment(p)
    \/ BackfillServiceBookings
=============================================================================
