SPECIFICATION Spec
CONSTANTS
    None = None
    Conversations = {"talk"}
    Invoices = {"invoice"}
    DueOn <- OnTheDay
    Arrangements <- TwoSeries
    InvoiceSeries <- DueAndFirm
    Days = {1, 2}
    Weekend = {2}
    LastDay = 2
    Span = 8
    Noon = 3
    Starts = {2}
    Resumptions = {0}
    MaxCommands = 4
INVARIANTS FinishesItsSeries NextActionIsDue LettersAreFiled
 
CHECK_DEADLOCK FALSE
