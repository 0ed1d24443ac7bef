\* The second write of a worker carries zeros.
CONSTANTS
    NumBuckets = 4
    QueueDepth = 2
    BaseOffset = 8
    Stride = 12
    BlockSize = 4
    Seed = 7
    Completions <- FastSlowShort
    MaxOps = 3
    MayFail = {"boot", "write", "flush"}
SPECIFICATION Spec
INVARIANTS PayloadIncompressible
CHECK_DEADLOCK FALSE
