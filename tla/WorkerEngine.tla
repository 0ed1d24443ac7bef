---------------------------- MODULE WorkerEngine ----------------------------
(***************************************************************************)
(* WorkerExecutionEngine.execute of src/steve/orchestrator/worker.py, run  *)
(* by run_worker_process: one worker, its event loop, its payload buffer,  *)
(* its file and its collector.                                             *)
(*                                                                         *)
(* None of the adapters suspends in write or flush, so the worker's task   *)
(* runs from one sleep(0) to the next, a batch of queue_depth operations,  *)
(* before the duration timer gets a turn.  The event loop is modelled: a   *)
(* queue of ready handles, run in rounds, with expired timers collected    *)
(* only between two rounds.                                                *)
(***************************************************************************)
EXTENDS MetricCollector, Sequences, FiniteSetsExt

CONSTANTS
    QueueDepth,     \* adapter.capabilities().max_concurrent_ops
    BaseOffset, Stride, BlockSize, Seed,        \* shard_spec
    Completions,    \* the [bytes, ns] a write may return and take
    MaxOps,         \* bound: writes that fit into duration_sec
    MayFail         \* the steps that may raise: "boot", "write", "flush"

ASSUME WorkerAssumption ==
    /\ QueueDepth \in Nat \ {0}
    /\ {BaseOffset, Stride} \subseteq Nat /\ BlockSize \in Nat \ {0}
    /\ Completions \subseteq [bytes : 0 .. BlockSize, ns : Nat]
    /\ MaxOps \in Nat
    /\ MayFail \subseteq {"boot", "write", "flush"}

VARIABLES
    pc,             \* where the worker's task is; "suspended" in sleep(0)
    keepRunning,    \* keep_running
    timer,          \* the life of timer_task
    elapsed,        \* whether duration_sec has passed since the timer slept
    ready,          \* the handles the event loop has ready, in order
    round,          \* how many of them belong to the current round
    inBatch,        \* operations done in the current batch
    offset,         \* offset
    block,          \* the masks the buffer is the XOR of; {} is all zeros
    writes,         \* the writes that returned, in order
    late,           \* how many of them returned after the duration
    flushed,        \* whether the adapter flushed without an error
    result          \* the WorkerTelemetryResult

loopVars == <<keepRunning, timer, elapsed, ready, round>>
ioVars == <<offset, block, writes, late>>
vars == <<pc, keepRunning, timer, elapsed, ready, round, inBatch, offset, block,
          writes, late, flushed, result, collectorVars>>

\* "created": its first step is ready; "firing": the expired sleep is ready to
\* be resolved; "woken": its last step, the assignment, is ready.
Timer == {"none", "created", "sleeping", "firing", "woken", "done", "cancelled"}
Handle == {"worker", "timer", "sleep"}
Write == [offset : Nat, bytes : Nat, ns : Nat, block : SUBSET {Seed}]
Result == [kind : {"none", "ok", "error", "fatal"}, ops : Nat, bytes : Nat]

TypeOK ==
    /\ CollectorTypeOK
    /\ pc \in {"boot", "check", "batch", "suspended", "returned"}
    /\ keepRunning \in BOOLEAN /\ elapsed \in BOOLEAN /\ flushed \in BOOLEAN
    /\ timer \in Timer
    /\ ready \in Seq(Handle) /\ round \in 0 .. Len(ready)
    /\ inBatch \in 0 .. QueueDepth
    /\ offset \in Nat /\ late \in Nat
    /\ block \subseteq {Seed}
    /\ writes \in Seq(Write)
    /\ result \in Result

Init ==
    /\ CollectorInit
    /\ pc = "boot" /\ keepRunning = TRUE /\ timer = "none" /\ elapsed = FALSE
    /\ ready = <<>> /\ round = 0 /\ inBatch = 0
    /\ offset = BaseOffset /\ block = {} /\ writes = <<>> /\ late = 0
    /\ flushed = FALSE
    /\ result = [kind |-> "none", ops |-> 0, bytes |-> 0]

-----------------------------------------------------------------------------
(* The worker's task. *)

\* Adapter, buffer and timer task are set up; the timer has not run yet.
Boot ==
    /\ pc = "boot"
    /\ pc' = "check"
    /\ timer' = "created"
    /\ ready' = <<"timer">>
    /\ UNCHANGED <<keepRunning, elapsed, round, inBatch, ioVars, flushed, result,
                   collectorVars>>

\* The adapter or the buffer cannot be set up: run_worker_process catches the
\* exception and reports it with empty totals.
BootFails ==
    /\ pc = "boot" /\ "boot" \in MayFail
    /\ pc' = "returned"
    /\ result' = [result EXCEPT !.kind = "fatal"]
    /\ UNCHANGED <<loopVars, inBatch, ioVars, flushed, collectorVars>>

\* while keep_running
StartBatch ==
    /\ pc = "check" /\ keepRunning
    /\ pc' = "batch" /\ inBatch' = 0
    /\ UNCHANGED <<loopVars, ioVars, flushed, result, collectorVars>>

\* apply_entropy XORs the mask of the seed into the whole buffer, in place.
Mutated == SymDiff(block, {Seed})

OffsetByBytes(n) == offset + n
NextOffset(n) == offset + Stride

\* for _ in range(queue_depth)
BatchGoesOnOnceMore == inBatch <= QueueDepth
BatchGoesOn == inBatch < QueueDepth

\* Time passes with every write: the duration ends before MaxOps of them.
HasTime == elapsed \/ Len(writes) < MaxOps

WriteReturns(c) ==
    /\ pc = "batch" /\ BatchGoesOn /\ HasTime
    /\ block' = Mutated
    /\ writes' = Append(writes, [offset |-> offset, bytes |-> c.bytes, ns |-> c.ns,
                                 block |-> Mutated])
    /\ Record(c.ns, c.bytes)
    /\ offset' = NextOffset(c.bytes)
    /\ inBatch' = inBatch + 1
    /\ late' = IF elapsed THEN late + 1 ELSE late
    /\ UNCHANGED <<pc, loopVars, flushed, result>>

BytesRequested == Len(writes) * BlockSize
BytesWritten == totalBytes

Return(kind, flushFails) ==
    /\ pc' = "returned"
    /\ timer' = IF timer = "done" THEN "done" ELSE "cancelled"
    /\ flushed' = ~flushFails
    /\ result' = [kind |-> kind, ops |-> totalOps, bytes |-> BytesWritten]

ErrorForgotten == "ok"
ErrorKind == "error"

\* The write raises: the loop is left with what was recorded so far, the
\* finally clause runs and a flush that fails is only logged.
WriteFails ==
    /\ pc = "batch" /\ BatchGoesOn /\ HasTime
    /\ "write" \in MayFail
    /\ block' = Mutated
    /\ \E f \in BOOLEAN : (f => "flush" \in MayFail) /\ Return(ErrorKind, f)
    /\ UNCHANGED <<keepRunning, elapsed, ready, round, inBatch, offset, writes,
                   late, collectorVars>>

\* Whether the loop suspends after a batch: always.
NeverYields == "check"
YieldsEveryOtherBatch ==
    IF totalOps % (2 * QueueDepth) = QueueDepth THEN "suspended" ELSE "check"
AfterBatch == "suspended"

\* await asyncio.sleep(0): the task goes to the end of the ready queue.
YieldControl ==
    /\ pc = "batch" /\ inBatch = QueueDepth
    /\ pc' = AfterBatch
    /\ ready' = IF pc' = "suspended" THEN Append(ready, "worker") ELSE ready
    /\ UNCHANGED <<keepRunning, timer, elapsed, round, inBatch, ioVars, flushed,
                   result, collectorVars>>

\* keep_running is FALSE: the finally clause and the return.
LeaveLoop ==
    /\ pc = "check" /\ ~keepRunning
    /\ \E f \in BOOLEAN : (f => "flush" \in MayFail) /\ Return("ok", f)
    /\ UNCHANGED <<keepRunning, elapsed, ready, round, inBatch, ioVars,
                   collectorVars>>

-----------------------------------------------------------------------------
(* The event loop; it runs a handle only while the worker is suspended. *)

LoopRuns == pc = "suspended" /\ round > 0

\* A new round: a sleep that has expired becomes ready, behind the handles
\* that are (asyncio) or before them (uvloop).
BeginRound ==
    /\ pc = "suspended" /\ round = 0
    /\ IF timer = "sleeping" /\ elapsed
       THEN timer' = "firing" /\ ready' \in {Append(ready, "sleep"), <<"sleep">> \o ready}
       ELSE UNCHANGED <<timer, ready>>
    /\ round' = Len(ready')
    /\ UNCHANGED <<pc, keepRunning, elapsed, inBatch, ioVars, flushed, result,
                   collectorVars>>

\* The first step of the timer task: asyncio.sleep(self.duration_sec), with a
\* positive duration.  Only here does the duration begin.
TimerStarts ==
    /\ LoopRuns /\ Head(ready) = "timer" /\ timer = "created"
    /\ timer' = "sleeping"
    /\ ready' = Tail(ready) /\ round' = round - 1
    /\ UNCHANGED <<pc, keepRunning, elapsed, inBatch, ioVars, flushed, result,
                   collectorVars>>

\* The future of the sleep is resolved, and the timer task made ready.
SleepResolved ==
    /\ LoopRuns /\ Head(ready) = "sleep"
    /\ timer' = "woken"
    /\ ready' = Append(Tail(ready), "timer") /\ round' = round - 1
    /\ UNCHANGED <<pc, keepRunning, elapsed, inBatch, ioVars, flushed, result,
                   collectorVars>>

TimerEnds ==
    /\ LoopRuns /\ Head(ready) = "timer" /\ timer = "woken"
    /\ keepRunning' = FALSE
    /\ timer' = "done"
    /\ ready' = Tail(ready) /\ round' = round - 1
    /\ UNCHANGED <<pc, elapsed, inBatch, ioVars, flushed, result, collectorVars>>

ResumeWorker ==
    /\ LoopRuns /\ Head(ready) = "worker"
    /\ pc' = "check"
    /\ ready' = Tail(ready) /\ round' = round - 1
    /\ UNCHANGED <<keepRunning, timer, elapsed, inBatch, ioVars, flushed, result,
                   collectorVars>>

\* duration_sec has passed since the timer went to sleep.
Elapse ==
    /\ timer = "sleeping" /\ ~elapsed /\ pc # "returned"
    /\ elapsed' = TRUE
    /\ UNCHANGED <<pc, keepRunning, timer, ready, round, inBatch, ioVars, flushed,
                   result, collectorVars>>

Step ==
    \/ Boot \/ BootFails
    \/ StartBatch
    \/ \E c \in Completions : WriteReturns(c)
    \/ WriteFails
    \/ YieldControl
    \/ LeaveLoop
    \/ BeginRound \/ TimerStarts \/ SleepResolved \/ TimerEnds \/ ResumeWorker

Next == Step \/ Elapse

Spec == Init /\ [][Next]_vars

\* The process is scheduled and its clock runs.
FairSpec == Spec /\ WF_vars(Step) /\ WF_vars(Elapse)

-----------------------------------------------------------------------------
\* The k-th write goes to the k-th block of the shard, after short writes too
\* and in every batch: this is what keeps the workers of a cluster apart
\* (ShardGenerator's NoOverlap is about these offsets).
WritesFollowShard ==
    \A k \in DOMAIN writes : writes[k].offset = BaseOffset + (k - 1) * Stride

\* What a worker reports is what its adapter did: operations and bytes that
\* returned before an error are neither lost nor is the failed one counted,
\* and no operation is missing from the histogram.
TelemetryExact ==
    result.kind \in {"ok", "error"} =>
        /\ result.ops = Len(writes)
        /\ result.bytes = SumFunction([k \in DOMAIN writes |-> writes[k].bytes])
        /\ SumFunction(buckets) = result.ops
        /\ writes # <<>> => {minLatency, maxLatency} \subseteq {writes[k].ns : k \in DOMAIN writes}

\* The timer is looked at once per batch, so a worker runs over its duration,
\* but by no more than three batches: the one under way, one until the sleep
\* is noticed and one until the timer task gets its turn.
OverrunBounded == late <= 3 * QueueDepth

\* A worker that reports no error has run until its duration had passed, in
\* whole batches.
FullDuration ==
    result.kind = "ok" => elapsed /\ result.ops % QueueDepth = 0

\* A percentile p of the report is above at least p of the latencies, and not
\* above twice the next one: the error of the histogram is below a factor 2,
\* except in the last bucket.
PercentilesSound ==
    \A p \in Percentiles : TargetCount(p) > 0 =>
        LET Below(v) == {k \in DOMAIN writes : writes[k].ns < v}
            Capped == {k \in DOMAIN writes : BucketOf(writes[k].ns) = NumBuckets - 1}
        IN  /\ Cardinality(Below(Percentile(p)) \cup Capped) >= TargetCount(p)
            /\ Percentile(p) > 1 =>
                  Cardinality({k \in DOMAIN writes : 2 * writes[k].ns < Percentile(p)})
                      < TargetCount(p)

\* The worker returns: its loop does let the timer run.
WorkerReturns == <>(pc = "returned")

\* "guaranteeing unique non-compressible payloads across the cluster"
\* (HLD-DIST-001.md:100): at least, no block written is the empty page every
\* worker starts from.
PayloadIncompressible == \A k \in DOMAIN writes : writes[k].block # {}
=============================================================================
