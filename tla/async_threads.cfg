SPECIFICATION FairSpec
CONSTANTS
    BufNum = 2
    Cancellers = {c1}
    Handlers = {h1}
    Faults <- AllFaults
    PromptReap = TRUE
    SubmitFails = TRUE
    EventsFail = TRUE
    MaxSessions = 2
INVARIANTS LossMeansDead CloseWaitsForRead
PROPERTIES CancelSticky CancelReturns UnplugEndsRead
CHECK_DEADLOCK FALSE
