----------------------------- MODULE FiscalYears -----------------------------
(***************************************************************************)
(* The money of the closed exercises (fiscal_year.rs, accounting.rs): what *)
(* an exercise inherits from those closed before it (retained earnings,    *)
(* legal reserve, tax losses), the tax and the losses of its closing, the  *)
(* loss carried back onto the exercise before, the decision of how its     *)
(* result is used, its approval, and the opening balance that begins the   *)
(* chain. Exercises is about the days these exercises close; this module   *)
(* is about their amounts, in cents. An exercise is a year, and every year *)
(* of the instance is over; what the book says of a year may differ each   *)
(* time it is closed. Each action is one transaction of the executor.      *)
(***************************************************************************)
EXTENDS Integers, FiniteSets, FiniteSetsExt, Functions

CONSTANTS
    None,               \* no opening balance, no known capital
    Years,              \* the exercises one may close
    Results,            \* what the book may say of a year, before tax
    NonDeductibles,     \* the charges one may declare not deductible
    Reserves, Dividends,    \* what one may put in reserve, and pay out
    Openings,           \* the opening balances one may record
    Capital,            \* the share capital of the profile, or None
    ReducedCeiling,     \* REDUCED_RATE_CEILING
    ForwardCap,         \* LOSS_CARRY_FORWARD_CAP
    BackCap             \* LOSS_CARRY_BACK_CAP

Balance == [opensOn : Years, retained : Int, reserve : Int, losses : Nat]

ASSUME FiscalYearsAssumption ==
    /\ Years \subseteq Nat /\ Results \subseteq Int /\ NonDeductibles \subseteq Int
    /\ Reserves \subseteq Nat /\ Dividends \subseteq Nat
    /\ Openings \subseteq Balance /\ None \notin Balance \cup Nat
    /\ Capital \in Nat \cup {None}
    /\ {ReducedCeiling, ForwardCap, BackCap} \subseteq Nat

VARIABLES
    opening,        \* the opening balance, or None
    years,          \* the closed exercises
    late            \* history: an exercise was closed after one that follows it

vars == <<opening, years, late>>

Least(a, b) == IF a <= b THEN a ELSE b
Most(a, b) == IF a >= b THEN a ELSE b

----------------------------------------------------------------------------
(* Amounts: a rate rounds to the nearest cent, halves to the even one; a    *)
(* tax rounds to the nearest euro.                                          *)
ApplyRate(amount, bps) ==
    LET cents == (amount * bps) \div 10000
        rest == (amount * bps) % 10000
    IN  IF rest > 5000 \/ (rest = 5000 /\ cents % 2 = 1) THEN cents + 1 ELSE cents

RoundToEuro(amount) ==
    IF amount < 0 THEN -(((50 - amount) \div 100) * 100) ELSE ((amount + 50) \div 100) * 100

CorporateIncomeTax(taxable) ==
    LET base == Most(0, RoundToEuro(taxable))
    IN  RoundToEuro(ApplyRate(Least(base, ReducedCeiling), 1500)
                      + ApplyRate(Most(0, base - ReducedCeiling), 2500))

ForwardCeiling(profit) ==
    IF profit <= ForwardCap THEN Most(0, profit)
    ELSE ForwardCap + ApplyRate(profit - ForwardCap, 5000)

Imputed(profit, available) ==
    IF profit <= 0 THEN 0 ELSE Least(Most(0, available), ForwardCeiling(profit))

(* The distributions leave the two fractions of the profit in proportion,   *)
(* and the loss is set against the one at the normal rate first.            *)
CarryBackWhole(deficit, profit, distributed) ==   \* mutant
    LET capped == Least(Least(Most(0, deficit), BackCap), Most(0, profit))
        normal == Least(capped, profit - Least(profit, ReducedCeiling))
    IN  [imputed |-> capped,
         credit |-> ApplyRate(normal, 2500) + ApplyRate(capped - normal, 1500)]
CarryBack(deficit, profit, distributed) ==
    IF deficit <= 0 \/ profit <= 0 THEN [imputed |-> 0, credit |-> 0] ELSE
    LET imputable == Most(0, profit - Most(0, distributed))
        capped == Least(Least(deficit, BackCap), imputable)
        reducedBase == (Least(profit, ReducedCeiling) * imputable) \div profit
        onNormal == Least(capped, imputable - reducedBase)
        onReduced == Least(capped - onNormal, reducedBase)
    IN  [imputed |-> onNormal + onReduced,
         credit |-> ApplyRate(onNormal, 2500) + ApplyRate(onReduced, 1500)]

----------------------------------------------------------------------------
(* What the exercises closed before y leave to it.                          *)
Closed == DOMAIN years
Before(y) == {z \in Closed : z < y}
FromOpening(field) == IF opening = None THEN 0 ELSE opening[field]

PriorRetained(y) ==
    IF Before(y) = {} THEN FromOpening("retained") ELSE years[Max(Before(y))].retained

PriorReserve(y) ==
    FromOpening("reserve") + SumFunctionOnSet([z \in Closed |-> years[z].reserve], Before(y))

LossesFromClosedYears(y) ==
    SumFunctionOnSet([z \in Closed |-> Most(0, -years[z].result) - years[z].carriedBack
                                         - years[z].imputed], Before(y))
PriorLosses(y) == LossesFromClosedYears(y) + FromOpening("losses")

(* The opening balance is the link zero of the chain: the first exercise    *)
(* closed begins with it.                                                   *)
OpeningFits(y) == Before(y) = {} /\ opening # None => opening.opensOn = y

(* What the record of an exercise says of it.                               *)
TaxableResult(z) == years[z].result + years[z].nonDeductible - years[z].imputed
LossesCarriedForward(y) ==
    SumFunctionOnSet([z \in Closed |-> Most(0, -(years[z].result + years[z].nonDeductible))
                                         - years[z].carriedBack - years[z].imputed],
                     {z \in Closed : z <= y})
      + FromOpening("losses")

----------------------------------------------------------------------------
Appropriable(y, net, reserve, dividends) ==
    /\ reserve + dividends <= Most(0, net + PriorRetained(y))
    /\ Capital # None => PriorReserve(y) + reserve <= ApplyRate(Capital, 1000)

RetainedAfter(y, net, reserve, dividends) == PriorRetained(y) + net - reserve - dividends

(* The loss of y set against the profit of the exercise closed the day      *)
(* before, when the closing asks for it.                                    *)
CarriedBack(y, deficit, back) ==
    IF back /\ y - 1 \in Closed
    THEN CarryBack(deficit, TaxableResult(y - 1), years[y - 1].dividends)
    ELSE [imputed |-> 0, credit |-> 0]

Exercise(y, result, nonDeductible, back, reserve, dividends) ==
    LET base == result + Most(0, nonDeductible)
        imputed == Imputed(base, PriorLosses(y))
        tax == CorporateIncomeTax(base - imputed)
        carry == CarriedBack(y, imputed - base, back)
        net == result - tax + carry.credit
    IN  [result |-> result, nonDeductible |-> nonDeductible, imputed |-> imputed, tax |-> tax,
         carriedBack |-> carry.imputed, credit |-> carry.credit, net |-> net,
         reserve |-> reserve, dividends |-> dividends,
         retained |-> RetainedAfter(y, net, reserve, dividends), approved |-> FALSE]

(* Asked to carry a loss back when there is no loss, no exercise closed the *)
(* day before or nothing to set it against, the closing is refused. Nothing *)
(* asks that no later exercise be closed.                                   *)
CloseFiscalYear(y, result, nonDeductible, back, reserve, dividends) ==
    /\ y \notin Closed /\ OpeningFits(y)
    /\ LET closing == Exercise(y, result, nonDeductible, back, reserve, dividends)
       IN  /\ back => closing.carriedBack # 0
           /\ Appropriable(y, closing.net, reserve, dividends)
           /\ years' = [z \in Closed \cup {y} |-> IF z = y THEN closing ELSE years[z]]
    /\ late' = (late \/ \E z \in Closed : z > y)
    /\ UNCHANGED opening

(* A project that no later exercise inherits from.                          *)
EditableAnyProject(y) == y \in Closed /\ ~years[y].approved   \* mutant
Editable(y) ==
    /\ y \in Closed /\ ~years[y].approved
    /\ \A z \in Closed : z <= y

UpdateFiscalYearAppropriation(y, reserve, dividends) ==
    /\ Editable(y)
    /\ Appropriable(y, years[y].net, reserve, dividends)
    /\ years' = [years EXCEPT ![y].reserve = reserve, ![y].dividends = dividends,
                   ![y].retained = RetainedAfter(y, years[y].net, reserve, dividends)]
    /\ UNCHANGED <<opening, late>>

ApproveFiscalYear(y) ==
    /\ y \in Closed /\ ~years[y].approved
    /\ years' = [years EXCEPT ![y].approved = TRUE]
    /\ UNCHANGED <<opening, late>>

DeleteFiscalYear(y) ==
    /\ Editable(y)
    /\ years' = [z \in Closed \ {y} |-> years[z]]
    /\ UNCHANGED <<opening, late>>

----------------------------------------------------------------------------
NoOneApproved == \A z \in Closed : ~years[z].approved   \* mutant
NoFiscalYear == Closed = {}

RecordOpeningBalance(b) ==
    /\ NoFiscalYear /\ opening = None
    /\ opening' = b /\ UNCHANGED <<years, late>>

UpdateOpeningBalance(b) ==
    /\ NoFiscalYear /\ opening # None
    /\ opening' = b /\ UNCHANGED <<years, late>>

DeleteOpeningBalance ==
    /\ NoFiscalYear /\ opening # None
    /\ opening' = None /\ UNCHANGED <<years, late>>

----------------------------------------------------------------------------
Init == opening = None /\ years = <<>> /\ late = FALSE

Next ==
    \/ \E y \in Years :
         \/ \E r \in Results, n \in NonDeductibles, b \in BOOLEAN,
               reserve \in Reserves, dividends \in Dividends :
              CloseFiscalYear(y, r, n, b, reserve, dividends)
         \/ \E reserve \in Reserves, dividends \in Dividends :
              UpdateFiscalYearAppropriation(y, reserve, dividends)
         \/ ApproveFiscalYear(y)
         \/ DeleteFiscalYear(y)
    \/ \E b \in Openings : RecordOpeningBalance(b) \/ UpdateOpeningBalance(b)
    \/ DeleteOpeningBalance

Spec == Init /\ [][Next]_vars

----------------------------------------------------------------------------
(* Closed in order, the exercises never use the same euro twice: what they  *)
(* put in reserve, paid out and still retain is what they earned and were   *)
(* brought, the losses set against profits, later or before, are losses     *)
(* that were made, and their reserve stays within a tenth of the capital    *)
(* (fiscal_year.rs, prior_chain and validate_appropriation).                *)
Through(y) == {z \in Closed : z <= y}
EarningsOnce ==
    \A y \in Closed :
      years[y].retained
          + SumFunctionOnSet([z \in Closed |-> years[z].reserve + years[z].dividends], Through(y))
        = FromOpening("retained") + SumFunctionOnSet([z \in Closed |-> years[z].net], Through(y))
LossesOnce == \A y \in Closed : PriorLosses(y + 1) >= 0
ReserveOnce ==
    Capital # None => \A y \in Closed : PriorReserve(y + 1) <= ApplyRate(Capital, 1000)
InheritedOnce == late \/ (EarningsOnce /\ LossesOnce /\ ReserveOnce)

(* A loss carried back stays within what the exercise before had left of    *)
(* its profit once its dividends were decided, and its credit within the    *)
(* tax of that profit, to the euro its rounding may take (accounting.rs,    *)
(* carry_back): nothing done to either exercise afterwards breaks that.     *)
CreditWasPaid ==
    \A y \in Closed :
      years[y].carriedBack # 0 =>
        /\ y - 1 \in Closed
        /\ years[y].carriedBack <= TaxableResult(y - 1) - years[y - 1].dividends
        /\ years[y].credit <= years[y - 1].tax + 100

(* What an approved exercise decided and all it inherited stand: neither    *)
(* it, nor the projects before it, nor the opening balance can change under *)
(* it, unless an earlier exercise is closed late (fiscal_year.rs,           *)
(* require_editable; opening_balance.rs, require_no_fiscal_year).           *)
Heritage(y) == <<opening, [z \in Before(y) |-> [years[z] EXCEPT !.approved = FALSE]]>>
StandsUnder(y) == y \in DOMAIN years' /\ years'[y] = years[y] /\ Heritage(y)' = Heritage(y)
ApprovedStands == [][~late' => \A y \in Closed : years[y].approved => StandsUnder(y)]_vars

(* "Déficits fiscaux reportables en avant après cet exercice" is what the   *)
(* exercise that follows may use (fiscal_year.rs, losses_carried_forward).  *)
ShownIsInherited ==
    late \/ \A y \in Closed : LossesCarriedForward(y) = PriorLosses(y + 1)
=============================================================================
