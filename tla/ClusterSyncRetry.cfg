\* Three nodes, two of which share an id; everyone may signal twice
\* and one of the two may die.  The clock may jump forwards and backwards.
CONSTANTS
    n1 = n1  n2 = n2  n3 = n3
    Node = {n1, n2, n3}
    NodeIds = {n1, n3}
    IdOf <- SharedId
    Expected = 2
    Lead = 1
    MaxCalls = 2
    MaxClock = 3
    MayCrash = {n2}
    MayCancel = {n1, n3}
SPECIFICATION FairSpec
INVARIANTS NoEarlyRelease OneStartPerSignal
PROPERTIES WaiterReleased
CHECK_DEADLOCK FALSE
