SPECIFICATION Spec
CONSTANTS
    Images = {"mqtt", "ring"}
    ConfirmTimeout = 1
    WindowLength = 1
    InitialRetry = 1
    MaxRetry = 2
    NtpTimeout = 2
    AssociationTimeout = 3
    RecoveryThreshold = 2
    RecoveryCooldown = 6
    ScanTime = 3
    LongestPass = 1
    MaxUndelivered = 1
INVARIANT RecoveryReassociates
INVARIANT AnnouncedOnReconnect
PROPERTY NoHastyBegin
PROPERTY ReachesOnline
