---------------------------- MODULE MCFiscalYears ----------------------------
EXTENDS FiscalYears

MCYears == 1..3
MCResults == {-12000, 6050, 30000}
MCNonDeductibles == {0, 500}
MCReserves == {0, 1000}
MCDividends == {0, 3000}
MCOpenings == {[opensOn |-> 1, retained |-> 2500, reserve |-> 400, losses |-> 4000],
               [opensOn |-> 2, retained |-> -1000, reserve |-> 0, losses |-> 0]}
=============================================================================
