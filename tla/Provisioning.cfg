SPECIFICATION FairSpec
CONSTANTS
    Network = {home, office}
    KeyPair = {k1, k2}
    None = none
    Window = 5
    MaxCrashes = 2
INVARIANTS
    CertHasItsKey
    ProvisionedIsComplete
PROPERTIES
    EventsNotOverwritten
    AttemptEnds
