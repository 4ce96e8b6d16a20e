------------------------------ MODULE Purchases ------------------------------
(***************************************************************************)
(* Expenses, the debits of the bank they are matched with, and the entry    *)
(* the journal keeps of their payment: at the day of the bank when the      *)
(* company paid, at the day of the bill when the associate did, and none    *)
(* for a bill that is not paid. An expense may be made a fixed asset, which *)
(* moves its entry to another account. Inputs carry the revision they have  *)
(* read: what a stale one meets is in Executor.                             *)
(***************************************************************************)
EXTENDS Exercises

CONSTANTS
    Prices,         \* what an expense may amount to
    Receipts,       \* archived files; None: without one
    Deleted,        \* the row of an id that has been used
    MaxExpenses     \* bound

ExpenseIds == 1..MaxExpenses
Payers == {"company", "associate"}

ExpenseRows ==
    [amount : Nat, on : Days, by : Payers, receipt : Receipts \cup {None}]

Expense(amount, d, by, receipt) ==
    [amount |-> amount, on |-> d, by |-> by, receipt |-> receipt]

ASSUME PurchasesAssumption ==
    /\ Prices \subseteq Nat \ {0} /\ MaxExpenses \in Nat
    /\ None \notin Receipts /\ Deleted # None
    /\ None \notin ExpenseRows /\ Deleted \notin ExpenseRows

VARIABLES
    expenses,       \* rows, Deleted or None
    assets,         \* of an expense made a fixed asset: the day it depreciates from, or None
    booked          \* the live entry of an expense: what it says, or None

purchaseVars == <<expenses, assets, booked>>

Kept == {e \in ExpenseIds : expenses[e] \notin {None, Deleted}}
Unused(e) == expenses[e] = None /\ \A f \in 1..(e - 1) : expenses[f] # None

LinesOf(mt, e) == {l \in Lines : mt[l] = Match("expense", e)}

Entry(expense, d, asset) ==
    [amount |-> expense.amount, on |-> d, by |-> expense.by,
     receipt |-> expense.receipt, asset |-> asset # None]

(* desired_entry. At most one line is matched with an expense.              *)
Desired(exps, mt, as, e) ==
    IF exps[e] \in {None, Deleted} THEN None
    ELSE IF exps[e].by = "associate" THEN Entry(exps[e], exps[e].on, as[e])
    ELSE IF LinesOf(mt, e) = {} THEN None
    ELSE Entry(exps[e], LineOn[CHOOSE l \in LinesOf(mt, e) : TRUE], as[e])

(* sync_expense_payment: a live entry that is already the desired one is    *)
(* left; otherwise neither may be dated in a closed exercise.               *)
SyncNewDateOnly(e) ==       \* mutant
    LET desired == Desired(expenses', matched', assets', e)
    IN  /\ desired # booked[e] /\ desired # None => ~Closed(desired.on)
        /\ booked' = [booked EXCEPT ![e] = desired]
SyncExpensePayment(e) ==
    LET desired == Desired(expenses', matched', assets', e)
    IN  /\ desired # booked[e] =>
             \A entry \in {booked[e], desired} \ {None} : ~Closed(entry.on)
        /\ booked' = [booked EXCEPT ![e] = desired]

(* A debit of exactly this amount, matched with nothing.                    *)
Matchable(l, amount) == matched[l] = Free /\ LineAmount[l] < 0 /\ -LineAmount[l] = amount

----------------------------------------------------------------------------
RecordExpense(e, amount, d, by, receipt) ==
    /\ opened = 2 /\ Unused(e) /\ ~Closed(d)
    /\ expenses' = [expenses EXCEPT ![e] = Expense(amount, d, by, receipt)]
    /\ matched' = matched
    /\ assets' = assets /\ SyncExpensePayment(e)
    /\ UNCHANGED <<exerciseVars, opened>>

(* Recorded from a debit, and matched with it.                              *)
RecordPaidExpense(e, l, d, receipt) ==
    /\ opened = 2 /\ Unused(e) /\ ~Closed(d)
    /\ Matchable(l, -LineAmount[l])
    /\ expenses' = [expenses EXCEPT ![e] = Expense(-LineAmount[l], d, "company", receipt)]
    /\ matched' = [matched EXCEPT ![l] = Match("expense", e)]
    /\ assets' = assets /\ SyncExpensePayment(e)
    /\ UNCHANGED <<exerciseVars, opened>>

ReconcileExpense(l, e) ==
    /\ opened = 2 /\ e \in Kept /\ expenses[e].by = "company"
    /\ LinesOf(matched, e) = {} /\ Matchable(l, expenses[e].amount)
    /\ matched' = [matched EXCEPT ![l] = Match("expense", e)]
    /\ expenses' = expenses
    /\ assets' = assets /\ SyncExpensePayment(e)
    /\ UNCHANGED <<exerciseVars, opened>>

UpdateExpense(e, amount, d, by, receipt) ==
    /\ opened = 2 /\ e \in Kept /\ ~Closed(expenses[e].on) /\ ~Closed(d)
    /\ LinesOf(matched, e) # {} => amount = expenses[e].amount /\ by = "company"
    /\ assets[e] # None => amount = expenses[e].amount
    /\ expenses' = [expenses EXCEPT ![e] = Expense(amount, d, by, receipt)]
    /\ matched' = matched
    /\ assets' = assets /\ SyncExpensePayment(e)
    /\ UNCHANGED <<exerciseVars, opened>>

(* The receipt's name is in the label of the entry.                         *)
AttachReceipt(e, receipt) ==
    /\ opened = 2 /\ e \in Kept
    /\ expenses' = [expenses EXCEPT ![e].receipt = receipt]
    /\ matched' = matched
    /\ assets' = assets /\ SyncExpensePayment(e)
    /\ UNCHANGED <<exerciseVars, opened>>

DeleteKeepsEntry(e) ==      \* mutant
    /\ opened = 2 /\ e \in Kept /\ ~Closed(expenses[e].on) /\ assets[e] = None
    /\ expenses' = [expenses EXCEPT ![e] = Deleted]
    /\ matched' = [l \in Lines |-> IF l \in LinesOf(matched, e) THEN Free ELSE matched[l]]
    /\ UNCHANGED <<booked, assets, exerciseVars, opened>>
DeleteExpense(e) ==
    /\ opened = 2 /\ e \in Kept /\ ~Closed(expenses[e].on) /\ assets[e] = None
    /\ expenses' = [expenses EXCEPT ![e] = Deleted]
    /\ matched' = [l \in Lines |-> IF l \in LinesOf(matched, e) THEN Free ELSE matched[l]]
    /\ assets' = assets /\ SyncExpensePayment(e)
    /\ UNCHANGED <<exerciseVars, opened>>

(* An asset that comes from an expense; the others touch none of this.      *)
AddFixedAsset(e, d) ==
    /\ opened = 2 /\ e \in Kept /\ assets[e] = None /\ ~Closed(d)
    /\ assets' = [assets EXCEPT ![e] = d]
    /\ expenses' = expenses /\ matched' = matched
    /\ SyncExpensePayment(e)
    /\ UNCHANGED <<exerciseVars, opened>>

DeleteFixedAsset(e) ==
    /\ opened = 2 /\ assets[e] # None /\ \A y \in closed : y.last < assets[e]
    /\ assets' = [assets EXCEPT ![e] = None]
    /\ expenses' = expenses /\ matched' = matched
    /\ SyncExpensePayment(e)
    /\ UNCHANGED <<exerciseVars, opened>>

(* An opening goes through the paid expenses, even those of closed          *)
(* exercises; those that are not paid are not looked at.                    *)
BackfillExpensePayments ==
    /\ booked' = [e \in ExpenseIds |->
                    LET desired == Desired(expenses, matched, assets, e)
                    IN  IF desired = None THEN booked[e] ELSE desired]
    /\ opened' = IF opened = 0 THEN 1 ELSE opened
    /\ UNCHANGED <<expenses, assets, matched, exerciseVars>>

PurchasesNext ==
    \/ \E e \in ExpenseIds, d \in Days, r \in Receipts \cup {None} :
         \/ \E a \in Prices, by \in Payers :
              RecordExpense(e, a, d, by, r) \/ UpdateExpense(e, a, d, by, r)
         \/ \E l \in Lines : RecordPaidExpense(e, l, d, r)
    \/ \E e \in ExpenseIds :
         \/ \E l \in Lines : ReconcileExpense(l, e)
         \/ \E r \in Receipts : AttachReceipt(e, r)
         \/ \E d \in Days : AddFixedAsset(e, d)
         \/ DeleteFixedAsset(e) \/ DeleteExpense(e)
    \/ BackfillExpensePayments
=============================================================================
