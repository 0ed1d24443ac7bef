\* A node dies before it signals.
CONSTANTS
    n1 = n1  n2 = n2  n3 = n3
    Node = {n1, n2}
    NodeIds = {n1, n2}
    IdOf <- OwnId
    Expected = 2
    Lead = 1
    MaxCalls = 1
    MaxClock = 3
    MayCrash = {n2}
    MayCancel = {}
SPECIFICATION FairSpec
PROPERTIES WaiterReleased
CHECK_DEADLOCK FALSE
