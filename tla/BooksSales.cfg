SPECIFICATION Spec
CONSTANTS
    None = None
    Deleted = Deleted
    Days <- TwoDays
    MonthOf <- OneMonth
    Taxes = {FALSE}
    Periods <- FirstDay
    Lines = {"credit"}
    LineAmount <- OneCredit
    LineOn <- OneCreditOn
    Bills <- EightOfTwo
    ForeignCredits <- MinusFour
    Amounts = {3}
    Months = {}
    MaxInvoices = 2
    MaxPayments = 3
    MaxLosses = 0
    Prices = {}
    Receipts = {}
    MaxExpenses = 0
INVARIANTS StatementAgrees BookAgrees DueWithinBill PaidMeansDue
CHECK_DEADLOCK FALSE
