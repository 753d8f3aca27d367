SPECIFICATION FairSpec
CONSTANTS
    Device = {d1, d2}
    Climate = {d2}
    BatteryLoads = {d1}
    Owner = {owner}
    Wants = {x}
    Entity = {e1}
    OthersRefuse = FALSE
    Subject = {d1}
    TTL = 2
    Pause = 1
    MaxTime = 2
    MaxEvents = 3
    MaxRestarts = 1
    None = None
    Anything = Anything
    Unknown = Unknown
INVARIANTS
    TypeOK
    PromiseIsKept
PROPERTIES
    NoLostUpdate
    OnIsWanted
    RestoreInReverse
    KeepsContract
    EligibleIsRestored
