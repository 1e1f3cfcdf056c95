SPECIFICATION Spec
CONSTANTS
    Network = {home, office}
    KeyPair = {k1, k2}
    None = none
    Window = 5
    MaxCrashes = 1
INVARIANTS
    IdleOperatesNormally
