SPECIFICATION Spec
CONSTANTS
    Sockets = {1, 2, 3}
    Exercised = {"reconnect"}
    Modulus = 16
    Debounce = 2
    ProvisioningHold = 3
    FactoryResetHold = 5
    LongestPass <- Passes
    Horizon = 20
    Lockout = 7
    Configs <- BenchConfigs
    MicrosPerSecond = 1000000
    CyclesPerFrame = 128
    ResetCycles = 10
    SettleCycles = 64
    HLimit = 2
    MaxEdges = 4
    Epoch = 16
    InitialDelay = 1
    MaxDelay = 4
    HealthInterval = 3
    MaxPasses = 30
    MaxLosses = 2
INVARIANT WaitsAtMostMaxDelay
CHECK_DEADLOCK FALSE
