SPECIFICATION FairSpec
CONSTANTS
    Device = {d1, d2}
    Climate = {}
    BatteryLoads = {}
    Owner = {owner}
    Wants = {Anything}
    Entity = {e1, e2}
    OthersRefuse = FALSE
    Subject = {}
    TTL = 1
    Pause = 0
    MaxTime = 0
    MaxEvents = 3
    MaxRestarts = 1
    None = None
    Anything = Anything
    Unknown = Unknown
PROPERTIES
    EligibleIsRestored
