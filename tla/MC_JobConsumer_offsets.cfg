SPECIFICATION FairSpec
CONSTANTS
    c1 = c1
    c2 = c2
    g1 = g1
    g2 = g2
    Claims = {c1, c2}
    Goroutines = {g1, g2}
    ClaimOf <- ClaimEach
    PoolSize = 1
    Length = 2
    Invalid <- SecondInvalid
    MaxRetries = 2
    MaxCancels = 1
    MaxCrashes = 1
CHECK_DEADLOCK FALSE

    
PROPERTIES
    SessionDrains
    
