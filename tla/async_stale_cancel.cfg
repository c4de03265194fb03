SPECIFICATION FairSpec
CONSTANTS
    BufNum = 2
    Cancellers = {c1}
    Handlers = {}
    Faults <- NoFaults
    PromptReap = TRUE
    SubmitFails = FALSE
    EventsFail = FALSE
    MaxSessions = 1
PROPERTY CloseReturns
CHECK_DEADLOCK FALSE
