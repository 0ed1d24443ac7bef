\* One of three workers is killed, the bytes of another never reach the interface.
CONSTANTS
    NWorkers = 3
    Permitted = {0, 1, 2}
    PipeCapacities = {3}
    MaxOps = 2
    MayCrash = {1}
    CrashHoldingLock = FALSE
    SpawnMayFail = FALSE
    OnWire = {1, 2}
SPECIFICATION Spec
INVARIANTS LossNoticed
CHECK_DEADLOCK FALSE
