SPECIFICATION Spec
CONSTANTS
    k1 = k1
    k2 = k2
    Keys <- MCKeys
    Size <- MCSize
    Jobs = {j1}
    MaxBytes = 3
    MaxEntries = 1
    Legacy = {k1}
    MaxFiles = 4
    MaxSandboxRestarts = 2
    MaxWorkerRestarts = 1
    FaultyCalls = {"list", "add", "delete", "exec"}
    MaxFaults = 1
INVARIANTS
    AccountingExact
    StaleRetried
