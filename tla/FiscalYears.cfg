SPECIFICATION Spec
CONSTANTS
    None = None
    Years <- MCYears
    Results <- MCResults
    NonDeductibles <- MCNonDeductibles
    Reserves <- MCReserves
    Dividends <- MCDividends
    Openings <- MCOpenings
    Capital = 20000
    ReducedCeiling = 4000
    ForwardCap = 10000
    BackCap = 9000
INVARIANT InheritedOnce CreditWasPaid
PROPERTY ApprovedStands
CHECK_DEADLOCK FALSE
