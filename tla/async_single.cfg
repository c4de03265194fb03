SPECIFICATION FairSpec
CONSTANTS
    BufNum = 3
    Cancellers = {}
    Handlers = {}
    Faults <- TransientFaults
    PromptReap = TRUE
    SubmitFails = TRUE
    EventsFail = FALSE
    MaxSessions = 2
INVARIANTS TypeOK BuffersOutliveTransfers ReturnIsClean
PROPERTY SessionSpec
CHECK_DEADLOCK FALSE
