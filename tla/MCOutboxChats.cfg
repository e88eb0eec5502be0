SPECIFICATION FairOutboxSpec
CONSTANTS
    Messages = 1
    WithFile <- MCNoFile
    NewChats = 1
    ServerKinds = {FALSE, TRUE}
    RefusalLimit = 2
    MaxNames = 1
    MaxFaults = 1
INVARIANT ChatBeforeMessage
PROPERTY EventuallySettled
CHECK_DEADLOCK FALSE
