SPECIFICATION Spec
CONSTANTS
    Requests = {r1, r2, r3}
    Roles = {"user", "admin"}
    AccessTTL = 1
    RefreshTTL = 2
    MaxClock = 3
    MaxSaved = 2
SYMMETRY Symmetry
CHECK_DEADLOCK FALSE
INVARIANTS
    CutoffExact
    ConsumedOnce
    DecisionsKept
    AvatarStored
