\* Two nodes of two cores, a pipe for three or for all results, one worker that may be
\* killed, one whose write may raise, failing spawns.
CONSTANTS
    NodeNames <- MCNodeNames
    CoresPerNode = 2
    NWorkers = 4
    PipeCapacities = {3, 4}
    BlockSize = 4
    TargetBps = 9
    SeedOf <- MCSeedOf
    Lead = 1
    MaxClock = 2
    MaxOps <- MCMaxOps
    MayCrash = {2}
    MayRaise = {3}
    SpawnMayFail = TRUE
SPECIFICATION FairSpec
INVARIANTS TypeOK StartsAfterBarrier NoBlockTwice SummaryExact DirOutlivesWorkers
PROPERTIES ImplementsBarrier ImplementsChannel EmulatorReturns
CHECK_DEADLOCK FALSE
