SPECIFICATION FairSpec
CONSTANTS
    Loads = 2
    BatteryLoads = {2}
    Supplies = {"up", "down"}
    Modes = {"auto"}
    LoadMayFail = FALSE
    Switchings = {"on"}
    MayRestart = FALSE
PROPERTIES
    RejectedIsRetried
    LowBatteryStops
