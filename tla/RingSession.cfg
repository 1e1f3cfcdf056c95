SPECIFICATION FairSpec
CONSTANTS
    OutboxCapacity = 3
    MaxEvents = 6
    MaxFaults = 3
    MaxRestarts = 1
INVARIANTS
    InOrder
    NothingLost
    BacklogIsNewest
    EndedAfterDetected
PROPERTIES
    BacklogDrains
CHECK_DEADLOCK FALSE
