SPECIFICATION Spec
CONSTANTS
    MaxRows = 3
    Keys = {1, 2}
    Limits = {0, 1, 3}
    MaxLimit = 2
    Window = 2
    MaxWrites = 2
    MaxDays = 1
CHECK_DEADLOCK FALSE
INVARIANTS
    PagesComplete
    
PROPERTIES
    ViewsConsistent
