SPECIFICATION Spec
CONSTANTS
    None = None
    Deleted = Deleted
    Days <- TwoDays
    MonthOf <- OneMonth
    Taxes = {TRUE}
    Periods <- FirstDay
    Lines = {"debit", "other"}
    LineAmount <- TwoDebits
    LineOn <- TwoDebitsOn
    Bills <- EightOfTwo
    ForeignCredits = {}
    Amounts = {}
    Months = {1}
    MaxInvoices = 2
    MaxPayments = 0
    MaxLosses = 1
    Prices = {4, 6}
    Receipts = {"scan"}
    MaxExpenses = 1
INVARIANTS BookAgrees LossOrCredit
PROPERTIES ClosedBooksStayStill FiledMonthsKeepLosses
CHECK_DEADLOCK FALSE
