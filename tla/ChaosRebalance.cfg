CONSTANTS
    NodeLists <- MCNodeLists
    Throughputs <- MCThroughputs
    BlockSize = 4
    SeedOf <- MCSeedOf
    Ops <- MCOps
    NodeIds <- MCNodeIds
    CoreCounts <- MCCoreCounts
    Profile <- MCProfile
    FailedCounts = {0, 1, 2, 3, 4}
SPECIFICATION ChaosSpec
INVARIANTS NoOverlap SeedsDistinct NoGap SurvivorsKeepPlace IntegrityHonest
CHECK_DEADLOCK FALSE
