SPECIFICATION Spec
CONSTANTS
    Member = {m1, t}
    Target = t
    IsClimate = TRUE
    HasFallback = TRUE
    MaxAge = 1
    MaxClock = 2
    MaxCalls = 2
    MaxMoves = 1
    MaxTransit = 1
    Never = Never
INVARIANTS
    TypeOK
PROPERTIES
    ConfirmedIsTrue
    FenceCoversGroup
