SPECIFICATION FairSpec
CONSTANTS
    Cmd <- MCThree
    Kind <- MCKind
    Issued <- MCIssued
    Expires <- MCExpires
    MaxValidity = 1
    SkewTolerance = 0
    DoorOpenCapability = "Disabled"
    CacheCapacity = 2
    Garbage = "garbage"
    Oversized = "oversized"
    MaxPendingCommands = 1
    MaxOutboxSize = 2
    Durable = TRUE
    MaxTime = 2
    MaxSends = 4
    MaxFaults = 1
    MaxRestarts = 1
INVARIANTS
    OutboxIsOneStory
    NeverDeaf
    ForgottenOnlyWhenCrowded
PROPERTIES
    StaleNeverAccepted
    ImplementsContract
    SettlesOnline
    QueuedIsAnswered
