CONSTANTS
    Device = {d1}
    Updater = {u1}
    NoImage = NoImage
    Lane = {"stop", "accept"}
    MayFail = FALSE
SPECIFICATION Spec
INVARIANTS
    QueueIsSaved
