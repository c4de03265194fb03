SPECIFICATION FairSpec
CONSTANTS
    Channels = 3
    Squelch = TRUE
    conseq_squelch = 1
    MaxSignals = 1
    MayLose = TRUE
PROPERTIES ScanVisitsAll ShutdownCompletes
CHECK_DEADLOCK FALSE
