SPECIFICATION FairSpec
CONSTANTS
    llbuf_num = 1
    MaxClients = 2
    MaxBuffers = 5
    MaxSignals = 1
INVARIANTS SentInOrder ServerSurvivesClient
PROPERTY CancelEndsClient
CHECK_DEADLOCK FALSE
