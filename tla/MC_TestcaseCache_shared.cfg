SPECIFICATION FairSpec
CONSTANTS
    k1 = k1
    k2 = k2
    Keys <- MCKeys
    Size <- MCSize
    Jobs = {j1, j2}
    MaxBytes = 3
    MaxEntries = 1
    Legacy = {}
    MaxFiles = 2
    MaxSandboxRestarts = 1
    MaxWorkerRestarts = 0
    FaultyCalls = {"list", "delete", "exec", "cancel"}
    MaxFaults = 1

    
    
PROPERTIES
    BatchesEnd
