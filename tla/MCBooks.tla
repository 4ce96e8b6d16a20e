------------------------------- MODULE MCBooks -------------------------------
EXTENDS Books

EightOfTwo == {[ttc |-> 8, vat |-> 2]}
TwelveOfTwo == {[ttc |-> 12, vat |-> 2]}
MinusFour == {[ttc |-> -4, vat |-> -1]}
TwoDays == 1..2
FirstDay == {[first |-> 1, last |-> 1]}
OneMonth == [d \in TwoDays |-> d]

OneCredit == [l \in {"credit"} |-> 5]
OneCreditOn == [l \in {"credit"} |-> 2]
TwoDebits == [l \in {"debit", "other"} |-> -4]
TwoDebitsOn == [l \in {"debit", "other"} |-> IF l = "debit" THEN 1 ELSE 2]
=============================================================================
