-------------------------------- MODULE Books --------------------------------
(***************************************************************************)
(* The kept book: sales, purchases and exercises over one bank statement.   *)
(***************************************************************************)
EXTENDS Sales, Purchases

VARIABLES
    overpaid        \* history: the invoices that were paid more than their total, once

vars == <<exerciseVars, matched, opened, salesVars, purchaseVars, overpaid>>

(* An empty vault that is open, or one of an older version, not opened yet, *)
(* whose facts have no entry: an invoice and its payment, an expense the    *)
(* associate paid, an exercise that may be closed.                          *)
OlderSales(b, a, d) ==
    /\ MaxInvoices > 0 /\ MaxPayments > 0
    /\ invoices = [i \in InvoiceIds |-> IF i = 1 THEN Invoice(b, d, FALSE, None) ELSE None]
    /\ payments = [p \in PaymentIds |-> IF p = 1 THEN Payment(1, a, d, None) ELSE None]
OlderPurchases(a, d) ==
    /\ MaxExpenses > 0
    /\ expenses = [e \in ExpenseIds |-> IF e = 1 THEN Expense(a, d, "associate", None) ELSE None]
NoSales ==
    /\ invoices = [i \in InvoiceIds |-> None]
    /\ payments = [p \in PaymentIds |-> None]
NoPurchases == expenses = [e \in ExpenseIds |-> None]

Init ==
    /\ \/ opened = 2 /\ NoSales /\ NoPurchases /\ closed = {}
       \/ /\ opened = 0
          /\ \/ NoSales
             \/ \E b \in Bills, a \in Amounts, d \in Days : a <= b.ttc /\ OlderSales(b, a, d)
          /\ \/ NoPurchases
             \/ \E a \in Prices, d \in Days : OlderPurchases(a, d)
          /\ closed \in {{}} \cup {{y} : y \in Periods}
    /\ approved = {} /\ taxed = {}
    /\ matched = [l \in Lines |-> Absent]
    /\ sold = {} /\ moved = [p \in PaymentIds |-> None]
    /\ losses = [w \in LossIds |-> None] /\ filed = {}
    /\ assets = [e \in ExpenseIds |-> None] /\ booked = [e \in ExpenseIds |-> None]
    /\ overpaid = {}

----------------------------------------------------------------------------
(* What undoes a match, whatever it is with: the live payment that came     *)
(* from the line is voided, an expense stays.                               *)
UnreconcileTransaction(l) ==
    LET from == PaymentsFrom(l)
    IN  /\ opened = 2 /\ IsMatched(l)
        /\ matched' = [matched EXCEPT ![l] = Free]
        /\ payments' = [p \in PaymentIds |->
                          IF p \in from THEN [payments[p] EXCEPT !.voided = TRUE] ELSE payments[p]]
        /\ expenses' = expenses /\ assets' = assets
        /\ IF matched[l].kind = "expense" THEN SyncExpensePayment(matched[l].ref)
           ELSE booked' = booked
        /\ IF from = {} THEN moved' = moved ELSE \E p \in from : SyncCollection(p)
        /\ UNCHANGED <<invoices, sold, losses, filed, exerciseVars, opened>>

(* A payment, even a voided one, still refers to its line.                  *)
DeleteBankTransaction(l) ==
    /\ opened = 2 /\ matched[l] = Free
    /\ \A p \in Written(payments) : payments[p].line # l
    /\ matched' = [matched EXCEPT ![l] = Absent]
    /\ UNCHANGED <<salesVars, purchaseVars, exerciseVars, opened>>

Next ==
    /\ \/ ExercisesNext /\ UNCHANGED <<salesVars, purchaseVars>>
       \/ SalesNext /\ UNCHANGED purchaseVars
       \/ PurchasesNext /\ UNCHANGED salesVars
       \/ \E l \in Lines : UnreconcileTransaction(l) \/ DeleteBankTransaction(l)
    /\ overpaid' = overpaid \cup
         {i \in Written(invoices') : Paid(payments', i) > invoices'[i].ttc}

Spec == Init /\ [][Next]_vars

----------------------------------------------------------------------------
TypeOK ==
    /\ closed \subseteq Periods /\ approved \subseteq closed /\ opened \in 0..2
    /\ matched \in [Lines ->
         [kind : {"absent", "free", "settled", "invoice", "expense"}, ref : Nat]]
    /\ invoices \in [InvoiceIds -> InvoiceRows \cup {None}]
    /\ payments \in [PaymentIds -> PaymentRows \cup {None}]
    /\ losses \in [LossIds -> LossRows \cup {None}]
    /\ sold \subseteq InvoiceIds /\ filed \subseteq Months
    /\ moved \in [PaymentIds -> Nat \cup {None}]
    /\ expenses \in [ExpenseIds -> ExpenseRows \cup {None, Deleted}]
    /\ assets \in [ExpenseIds -> Days \cup {None}]
    /\ booked \in [ExpenseIds -> {None} \cup
         [amount : Nat, on : Days, by : Payers, receipt : Receipts \cup {None}, asset : BOOLEAN]]
    /\ taxed \subseteq closed

(* A line matched with an invoice is one live payment of that invoice, of   *)
(* its amount, at its day, and a line that is not comes from no live        *)
(* payment; a line matched with an expense is a debit of its amount, the    *)
(* company paid it, and no other line is matched with it.                   *)
StatementAgrees ==
    \A l \in Lines :
      /\ matched[l].kind # "invoice" => PaymentsFrom(l) = {}
      /\ matched[l].kind = "invoice" => \E p \in LivePayments :
           /\ PaymentsFrom(l) = {p}
           /\ payments[p].invoice = matched[l].ref
           /\ payments[p].amount = LineAmount[l] /\ payments[p].on = LineOn[l]
      /\ matched[l].kind = "expense" =>
           /\ matched[l].ref \in Kept
           /\ expenses[matched[l].ref].by = "company"
           /\ expenses[matched[l].ref].amount = -LineAmount[l]
           /\ LinesOf(matched, matched[l].ref) = {l}

(* Once the vault has been opened, the live entries are those of the facts: *)
(* every invoice, every payment that is not voided, and every expense that  *)
(* is paid, as it now is.                                                   *)
SalesBooked == sold = Written(invoices)
ReceiptsBooked == \A p \in PaymentIds : moved[p] # None <=> p \in LivePayments
ExpensesBooked == \A e \in ExpenseIds : booked[e] = Desired(expenses, matched, assets, e)
BookAgrees == opened = 2 => SalesBooked /\ ReceiptsBooked /\ ExpensesBooked

(* The receipts of an invoice never make more VAT due than it carries,      *)
(* unless a credit note on it adds some.                                    *)
DueWithinBill ==
    \A i \in Written(invoices) :
      invoices[i].vat >= 0 /\ (\A c \in CreditsOf(i) : invoices[c].vat <= 0) =>
        MadeDue(moved, LivePaymentsOf(payments, i)) <= invoices[i].vat

(* All the VAT of an invoice is due once it is paid, to the cent, whatever  *)
(* the order its payments came and were voided in; unless it was credited,  *)
(* or at some moment paid more than its total.                              *)
PaidMeansDue ==
    opened = 2 =>
      \A i \in Written(invoices) \ overpaid :
        /\ Paid(payments, i) = invoices[i].ttc /\ LivePaymentsOf(payments, i) # {}
        /\ invoices[i].vat >= 0 /\ ~HasCreditNote(i)
        => MadeDue(moved, LivePaymentsOf(payments, i)) = invoices[i].vat

(* An invoice is not given up twice: a loss in force and a credit note made *)
(* here never bear on the same invoice.                                     *)
LossOrCredit ==
    \A i \in Written(invoices) : ActiveLosses(i) # {} =>
      \A c \in CreditsOf(i) : invoices[c].imported

(* A loss whose day is in a month that is filed neither appears nor is      *)
(* retracted: the month told the administration its VAT.                    *)
FiledMonthsKeepLosses ==
    [][\A w \in LossIds : losses'[w] # losses[w] => MonthOf[losses'[w].on] \notin filed]_vars

(* Between two openings, no entry dated in a closed exercise appears,       *)
(* changes or leaves.                                                       *)
ClosedBookStill ==
    /\ \/ BackfillServiceBookings
       \/ /\ \A i \in InvoiceIds : (i \in sold) # (i \in sold') => ~Closed(invoices'[i].on)
          /\ \A p \in PaymentIds : moved[p] # moved'[p] => ~Closed(payments'[p].on)
    /\ \/ BackfillExpensePayments
       \/ \A e \in ExpenseIds : booked[e] # booked'[e] =>
            \A entry \in {booked[e], booked'[e]} \ {None} : ~Closed(entry.on)
    /\ \A y \in closed \cap closed' : y \in taxed <=> y \in taxed'
ClosedBooksStayStill == [][ClosedBookStill]_vars

(* An opening writes what is missing and leaves the entries that are kept.  *)
OpeningsOnlyAdd ==
    [][BackfillServiceBookings =>
         \A p \in PaymentIds : moved[p] # None => moved'[p] = moved[p]]_vars

(* A bill that comes after the closing may still be joined to its expense.  *)
ReceiptsWelcome ==
    opened = 2 => \A e \in Kept, r \in Receipts : ENABLED AttachReceipt(e, r)
=============================================================================
