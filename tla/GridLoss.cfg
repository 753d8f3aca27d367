SPECIFICATION Spec
CONSTANTS
    Loads = 2
    BatteryLoads = {2}
    Supplies = {"up", "down", "unavailable"}
    Modes = {"observe", "auto"}
    LoadMayFail = TRUE
    Switchings = {"on", "off"}
    MayRestart = TRUE
INVARIANTS
    TypeOK
    NothingForgotten
