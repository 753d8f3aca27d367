SPECIFICATION FairSpec
CONSTANTS
    Loads = 1
    BatteryLoads = {}
    Supplies = {"up"}
    Modes = {"auto"}
    LoadMayFail = FALSE
    Switchings = {"on"}
    MayRestart = FALSE
PROPERTIES
    ManualOnIsAnswered
