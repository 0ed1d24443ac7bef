\* A worker that stops at the first error, or a caller that goes on after
\* every error and after close; every fault happens.
CONSTANTS
    MaxOps = 4
    QueueDepth = 2
    Callers = {TRUE, FALSE}
    IoErrors = TRUE
    SubmitFaults = TRUE
SPECIFICATION FairSpec
INVARIANTS TypeOK LeftoversAreFailures WorkerResultIsOwn
PROPERTIES CallReturns
CHECK_DEADLOCK FALSE
