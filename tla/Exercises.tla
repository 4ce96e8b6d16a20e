------------------------------ MODULE Exercises ------------------------------
(***************************************************************************)
(* What sales and purchases share: the closed exercises (rows of           *)
(* fiscal_years, with the corporate tax entry each may have in the book),  *)
(* the lines of the bank statement, and whether some process has opened    *)
(* the vault. Each action is one transaction of the executor. A live entry *)
(* of the journal is the one neither reversed nor a reversal; a reversal   *)
(* has the date of its original and cancels it, so that the book is its    *)
(* live entries.                                                           *)
(***************************************************************************)
EXTENDS Integers, FiniteSets, Sequences

CONSTANTS
    None,           \* an absent row, an absent entry
    Days,           \* days, as numbers
    Periods,        \* the exercises one may close, all of them over: [first, last]
    Taxes,          \* whether a closing may find that corporate tax is due, or is not
    Lines, LineOn, LineAmount   \* the lines of a bank's export: day, signed amount

IsPeriod(y) == DOMAIN y = {"first", "last"} /\ {y.first, y.last} \subseteq Days

ASSUME ExercisesAssumption ==
    /\ Days \subseteq Nat /\ None \notin Nat \cup Lines
    /\ \A y \in Periods : IsPeriod(y) /\ y.first <= y.last
    /\ Taxes \subseteq BOOLEAN
    /\ LineOn \in [Lines -> Days] /\ LineAmount \in [Lines -> Int]

VARIABLES
    closed,         \* the closed exercises
    approved,       \* those of them that are approved
    taxed,          \* exercises with a live corporate tax entry, dated of their last day
    matched,        \* of a line: absent, free, or what it is matched with
    opened          \* 0: not yet, 1: expenses resumed, 2: services resumed too

exerciseVars == <<closed, approved, taxed>>

Covers(y, d) == y.first <= d /\ d <= y.last
InExercise(years, d) == \E y \in years : Covers(y, d)
Closed(d) == InExercise(closed, d)

Overlap(y, z) == y.first <= z.last /\ z.first <= y.last

Match(kind, ref) == [kind |-> kind, ref |-> ref]
Absent == Match("absent", 0)
Free == Match("free", 0)
IsMatched(l) == matched[l].kind \in {"settled", "invoice", "expense"}

----------------------------------------------------------------------------
(* The tax, when there is some, is posted before the row exists: its date   *)
(* is then in no closed exercise.                                           *)
CloseFiscalYear(y, tax) ==
    /\ opened = 2 /\ \A z \in closed : ~Overlap(y, z)
    /\ tax /\ y \notin taxed => ~Closed(y.last)
    /\ taxed' = IF tax THEN taxed \cup {y} ELSE taxed
    /\ closed' = closed \cup {y}
    /\ UNCHANGED <<approved, matched, opened>>

ApproveFiscalYear(y) ==
    /\ opened = 2 /\ y \in closed \ approved
    /\ approved' = approved \cup {y}
    /\ UNCHANGED <<closed, taxed, matched, opened>>

(* The row is withdrawn first, for its tax entry to be reversible.          *)
DeleteFiscalYear(y) ==
    /\ opened = 2 /\ y \in closed \ approved
    /\ \A z \in closed : z.last <= y.last
    /\ y \in taxed => ~InExercise(closed \ {y}, y.last)
    /\ closed' = closed \ {y}
    /\ taxed' = taxed \ {y}
    /\ UNCHANGED <<approved, matched, opened>>

----------------------------------------------------------------------------
(* A line of an export is inserted, unless it is already there.             *)
ImportBankTransactions(l) ==
    /\ opened = 2 /\ matched[l] = Absent
    /\ matched' = [matched EXCEPT ![l] = Free]
    /\ UNCHANGED <<exerciseVars, opened>>

SettleBankTransaction(l) ==
    /\ opened = 2 /\ matched[l] = Free
    /\ matched' = [matched EXCEPT ![l] = Match("settled", 0)]
    /\ UNCHANGED <<exerciseVars, opened>>

UnsettleBankTransaction(l) ==
    /\ opened = 2 /\ matched[l].kind = "settled"
    /\ matched' = [matched EXCEPT ![l] = Free]
    /\ UNCHANGED <<exerciseVars, opened>>

ExercisesNext ==
    \/ \E y \in Periods :
         \/ \E tax \in Taxes : CloseFiscalYear(y, tax)
         \/ ApproveFiscalYear(y)
         \/ DeleteFiscalYear(y)
    \/ \E l \in Lines :
         \/ ImportBankTransactions(l)
         \/ SettleBankTransaction(l)
         \/ UnsettleBankTransaction(l)
=============================================================================
