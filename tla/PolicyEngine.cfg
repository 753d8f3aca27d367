SPECIFICATION FairSpec
CONSTANTS
    Tier <- MCTier
    Duration <- MCDuration
    Load <- MCLoad
    Device <- MCDevice
    Expected <- MCExpected
    MaxAge = 1
    Dwell = 2
INVARIANTS
    TypeOK
    DwellIsContinuous
    WindowIsContinuous
PROPERTIES
    ShedIsJustified
    RestoreIsJustified
    ShedFenceIsReleased
