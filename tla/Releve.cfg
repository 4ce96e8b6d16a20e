SPECIFICATION Spec
CONSTANTS
    None = None
    Mails = {"reply", "report"}
    About <- ReplyAndReport
    Letters = {"letter"}
    LetterOf <- OneLetter
    Dossiers = {"dossier"}
    Owner <- OneOwner
    Chunk = 1
    MaxTroubles = 1
    MaxGestures = 1
INVARIANTS RepliesHold  BodyIsItsOwn
PROPERTIES HumanFilingStands 
CHECK_DEADLOCK FALSE
