\* Three versions, two device ids, two setup codes, two events in the outbox.
CONSTANTS
    Versions <- ReleasedVersions
    SignatureResults = {TRUE, FALSE}
    Ids = {d1, d2}
    Codes = {c1, c2}
    None = None
    OutboxCapacity = 2
SPECIFICATION Spec
INVARIANT OneIdentity
INVARIANT BootsIntact
INVARIANT SuccessBoots
PROPERTY OnlyUpgrades
PROPERTY ShadowTruthful
