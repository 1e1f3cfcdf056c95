SPECIFICATION Spec
CONSTANTS
    Cmd <- MCThree
    Kind <- MCKind
    Issued <- MCIssued
    Expires <- MCExpires
    MaxValidity = 1
    SkewTolerance = 0
    DoorOpenCapability = "Disabled"
    CacheCapacity = 2
    Garbage = "garbage"
    Oversized = "oversized"
    MaxPendingCommands = 2
    MaxOutboxSize = 2
    Durable = TRUE
    MaxTime = 0
    MaxSends = 4
    MaxFaults = 0
    MaxRestarts = 0
INVARIANTS
    RememberedWhileValid
