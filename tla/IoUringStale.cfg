\* A caller that goes on after a failed completion.
CONSTANTS
    MaxOps = 3
    QueueDepth = 2
    Callers = {TRUE}
    IoErrors = TRUE
    SubmitFaults = FALSE
SPECIFICATION Spec
INVARIANTS ResultIsOwn
CHECK_DEADLOCK FALSE
