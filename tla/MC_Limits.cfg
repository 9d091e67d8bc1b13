SPECIFICATION Spec
CONSTANTS
    Requests = {r1, r2}
    Clients = {c1, c2}
    Limit <- SmallLimit
    Span <- SmallSpan
    RiskDelay = 1
    Second = 3
    MaxClock = 6
    MaxStarts <- Starts
    MaxFaults = 1
SYMMETRY Symmetry
CHECK_DEADLOCK FALSE
INVARIANTS
    AdmittedBounded
    GuessesBounded

    
