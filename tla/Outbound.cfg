SPECIFICATION Spec
CONSTANTS
    Procs = {window, cli}
    Windows = {window}
    Subjects = {opportunity}
    Steps = 1
    Cap = 1
    NoSubject = NoSubject
    NoToken = NoToken
    Gone = Gone
    window = window
    cli = cli
    opportunity = opportunity
    AutoSend = TRUE
    MaxLetters = 2
    MaxInterrupts = 1
INVARIANTS StatusIsTrue StepGoesOnce 
 
CHECK_DEADLOCK FALSE
