SPECIFICATION FairSpec
CONSTANTS
    Requests = {r1, r2}
    Readers = {g1}
    Tags = {t1}
    MaxProblems = 2
    MaxCalls = 3
    MaxFaults = 1
CHECK_DEADLOCK FALSE
INVARIANTS
    PublishedTagsActive
    StatementWhole
    CacheSound
PROPERTIES
    OnlyModeratorsPublish
    
