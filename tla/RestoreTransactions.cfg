SPECIFICATION FairSpec
CONSTANTS
    d1 = d1
    NoDevice = NoDevice
    Device <- MCDevice
    Fallback <- MCDevice
    Climate <- MCDevice
    MaxActions = 3
INVARIANTS
    TypeOK
    TicketIsProof
    IntentIsDurable
    AmbiguityIsBlocked
PROPERTIES
    NoSecondOn
    KeepsContract
    LockIsReleased
