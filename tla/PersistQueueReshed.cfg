CONSTANTS
    Device = {d1}
    Updater = {u1}
    NoImage = NoImage
    Lane = {"stop", "reshed"}
    MayFail = TRUE
SPECIFICATION Spec
INVARIANTS
    NoObsoleteTicket
