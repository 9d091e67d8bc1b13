SPECIFICATION FairSpec
CONSTANTS
    Streams = {c1, c2}
    MaxAttempts = 3
    MaxLostAcks = 1
INVARIANTS
    HubSound
    ToldCommitted
PROPERTIES
    StreamCompletes
