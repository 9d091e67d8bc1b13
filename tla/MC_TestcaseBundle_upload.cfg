SPECIFICATION FairSpec
CONSTANTS
    Requests = {x1}
    Loaders = {l1}
    MaxUploads = 3
    Count <- ThreeUploads
    MaxDeletes = 1
    MaxFaults = 1
    MaxReadBacks = 1
    MaxCrashes = 1
CHECK_DEADLOCK FALSE
INVARIANTS
    ArchiveOfRow
    RightDataset
    PromotionAtomic
PROPERTIES
    LoadsGoOn
