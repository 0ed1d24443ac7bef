\* Three workers, one of whose cores is refused, a pipe for two or three results,
\* crashes anywhere, failing spawns.
CONSTANTS
    NWorkers = 3
    Permitted = {0, 1, 5}
    PipeCapacities = {2, 3}
    MaxOps = 1
    MayCrash = {1, 2}
    CrashHoldingLock = TRUE
    SpawnMayFail = TRUE
    OnWire = {1, 2, 3}
SPECIFICATION FairSpec
INVARIANTS ResultsComplete NoErrorSummarised TotalsRight
PROPERTIES MasterReturns
CHECK_DEADLOCK FALSE
