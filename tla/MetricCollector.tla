--------------------------- MODULE MetricCollector ---------------------------
(***************************************************************************)
(* The latency histogram of src/steve/validation/metric_collector.py: the  *)
(* state of one MetricCollector and the operations a worker uses on it.    *)
(* WorkerEngine composes it with the hot loop that feeds it.               *)
(***************************************************************************)
EXTENDS Integers, FiniteSets, Functions

CONSTANT NumBuckets     \* buckets of the histogram: 64 in the code

ASSUME CollectorAssumption == NumBuckets \in Nat \ {0}

Bucket == 0 .. NumBuckets - 1

VARIABLES
    buckets,        \* _buckets
    totalOps,       \* _total_ops
    totalBytes,     \* _total_bytes
    minLatency,     \* _min_latency_ns, -1 for the initial 2^64 - 1
    maxLatency      \* _max_latency_ns

collectorVars == <<buckets, totalOps, totalBytes, minLatency, maxLatency>>

CollectorTypeOK ==
    /\ buckets \in [Bucket -> Nat]
    /\ totalOps \in Nat /\ totalBytes \in Nat
    /\ minLatency \in Nat \cup {-1} /\ maxLatency \in Nat

CollectorInit ==
    /\ buckets = [b \in Bucket |-> 0]
    /\ totalOps = 0 /\ totalBytes = 0
    /\ minLatency = -1 /\ maxLatency = 0

-----------------------------------------------------------------------------
\* 1 << k
Pow2[k \in Nat] == IF k = 0 THEN 1 ELSE 2 * Pow2[k - 1]

\* int.bit_length: the least k with n < 2^k.
BitLength(n) == CHOOSE k \in 0 .. n : n < Pow2[k] /\ \A j \in 0 .. k - 1 : n >= Pow2[j]

\* The bucket of a latency; whatever is longer goes into the last one.
BucketOf(ns) == IF BitLength(ns) >= NumBuckets THEN NumBuckets - 1 ELSE BitLength(ns)

\* record_latency and then record_bytes, as the worker calls them.
Record(ns, byteCount) ==
    /\ buckets' = [buckets EXCEPT ![BucketOf(ns)] = @ + 1]
    /\ totalOps' = totalOps + 1
    /\ minLatency' = IF minLatency = -1 \/ ns < minLatency THEN ns ELSE minLatency
    /\ maxLatency' = IF ns > maxLatency THEN ns ELSE maxLatency
    /\ totalBytes' = totalBytes + byteCount

-----------------------------------------------------------------------------
\* A percentile p is a pair <<numerator, denominator>>.
P50 == <<50, 100>>   P90 == <<90, 100>>   P99 == <<99, 100>>   P999 == <<999, 1000>>
Percentiles == {P50, P90, P99, P999}

\* int(self._total_ops * p): rounded down, so it is 0 for short runs.
TargetCount(p) == (totalOps * p[1]) \div p[2]

Accumulated(b) == SumFunctionOnSet(buckets, 0 .. b)

\* The first bucket at which the accumulated count reaches the target.
FirstPassing(p) ==
    CHOOSE b \in Bucket : /\ Accumulated(b) > TargetCount(p)
                          /\ \A c \in 0 .. b - 1 : Accumulated(c) <= TargetCount(p)
FirstReaching(p) ==
    CHOOSE b \in Bucket : /\ Accumulated(b) >= TargetCount(p)
                          /\ \A c \in 0 .. b - 1 : Accumulated(c) < TargetCount(p)

\* percentile_ms in ns: the upper bound of that bucket.
Percentile(p) == IF totalOps = 0 THEN 0 ELSE Pow2[FirstReaching(p)]
=============================================================================
