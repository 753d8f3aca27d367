CONSTANTS
    Device = {d1, d2}
    Updater = {u1}
    NoImage = NoImage
    Lane = {"stop", "reshed", "restore", "accept", "clear", "cancel"}
    MayFail = TRUE
SPECIFICATION FairSpec
INVARIANTS
    TypeOK
    IntentOnDisk
    AmbiguityIsBlocked
    SpentTicketIsBlocked
PROPERTIES
    OperationEnds
    KeepsContract
