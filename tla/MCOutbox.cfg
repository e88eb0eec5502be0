SPECIFICATION OutboxSpec
CONSTANTS
    Messages = 2
    WithFile <- MCWithFile
    NewChats = 0
    ServerKinds = {FALSE}
    RefusalLimit = 2
    MaxNames = 0
    MaxFaults = 2
INVARIANT NothingLost
INVARIANT DiscardHonoured
INVARIANT QueueOrder
INVARIANT DrainEndsBeforeWipe
CHECK_DEADLOCK FALSE
