SPECIFICATION Spec
CONSTANTS
    Procs = {window}
    Windows = {window}
    Subjects = {opportunity}
    Steps = 2
    Cap = 1
    NoSubject = NoSubject
    NoToken = NoToken
    Gone = Gone
    window = window
    opportunity = opportunity
    AutoSend = TRUE
    MaxLetters = 2
    MaxInterrupts = 0
PROPERTIES CancelledStays
CHECK_DEADLOCK FALSE
