\* A worker, which stops at its first error, one submit of which may fail.
CONSTANTS
    MaxOps = 3
    QueueDepth = 2
    Callers = {FALSE}
    IoErrors = FALSE
    SubmitFaults = TRUE
SPECIFICATION Spec
INVARIANTS FlushedBeforeUnmap
CHECK_DEADLOCK FALSE
