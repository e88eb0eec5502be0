SPECIFICATION OutboxSpec
CONSTANTS
    Messages = 1
    WithFile <- MCNoFile
    NewChats = 0
    ServerKinds = {FALSE}
    RefusalLimit = 2
    MaxNames = 0
    MaxFaults = 1
INVARIANT WipedStaysEmpty
CHECK_DEADLOCK FALSE
