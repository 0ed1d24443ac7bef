\* Batches of two writes; a duration of up to three writes.
CONSTANTS
    NumBuckets = 4
    QueueDepth = 2
    BaseOffset = 8
    Stride = 12
    BlockSize = 4
    Seed = 7
    Completions <- FastSlowShort
    MaxOps = 3
    MayFail = {"boot", "write", "flush"}
SPECIFICATION FairSpec
INVARIANTS TypeOK WritesFollowShard TelemetryExact OverrunBounded FullDuration PercentilesSound
PROPERTIES WorkerReturns
CHECK_DEADLOCK FALSE
