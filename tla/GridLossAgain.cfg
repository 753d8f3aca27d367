SPECIFICATION FairSpec
CONSTANTS
    Loads = 1
    BatteryLoads = {}
    Supplies = {"up", "down"}
    Modes = {"auto"}
    LoadMayFail = TRUE
    Switchings = {}
    MayRestart = FALSE
PROPERTIES
    OutageStopsLoads
