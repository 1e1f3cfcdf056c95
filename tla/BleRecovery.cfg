SPECIFICATION Spec
CONSTANTS
    Images = {"ble"}
    ConfirmTimeout = 1
    WindowLength = 8
    InitialRetry = 1
    MaxRetry = 1
    NtpTimeout = 2
    AssociationTimeout = 2
    RecoveryThreshold = 2
    RecoveryCooldown = 2
    ScanTime = 1
    LongestPass = 1
    MaxUndelivered = 1
INVARIANT RecoversAfterOnboarding
