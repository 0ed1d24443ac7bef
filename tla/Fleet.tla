-------------------------------- MODULE Fleet --------------------------------
(***************************************************************************)
(* MultiCoreOrchestrator.start (src/steve/orchestrator/master.py) and the  *)
(* worker processes it spawns (run_worker_process, worker.py).             *)
(*                                                                         *)
(* The queue through which the workers report is ResultQueue.  The master  *)
(* joins every process before it reads.                                    *)
(***************************************************************************)
EXTENDS ResultQueue

CONSTANTS
    Permitted,          \* the cores sched_setaffinity accepts
    MaxOps,             \* bound: operations of one worker
    MayCrash,           \* workers that may die of a signal
    CrashHoldingLock,   \* whether one may die while its feeder has the lock
    SpawnMayFail,       \* whether p.start() may raise
    OnWire              \* workers whose bytes really cross the probed interface

\* A worker of this module is one of len(self.core_ids).
ASSUME FleetAssumption ==
    /\ MaxOps \in Nat
    /\ {MayCrash, OnWire} \subseteq SUBSET Worker
    /\ {CrashHoldingLock, SpawnMayFail} \subseteq BOOLEAN

VARIABLES
    masterPc,       \* where start() is
    spawned,        \* len(self.processes)
    joinIndex,      \* the process the join loop waits for
    summary,        \* the fields of the summary that are checked
    result,         \* the WorkerTelemetryResult of each worker
    affinity        \* the CPU mask of each worker

startVars == <<masterPc, spawned, joinIndex, summary>>
ownVars == <<result, affinity>>
vars == <<masterPc, spawned, joinIndex, summary, result, affinity, processVars>>

Final == {"summary", "workerCrash", "raised"}

Result == [ops : 0 .. MaxOps, error : BOOLEAN]
NoSummary == [totalCores |-> 0, totalOps |-> 0, isValid |-> FALSE]

TypeOK ==
    /\ QueueTypeOK
    /\ masterPc \in {"spawn", "join", "drain"} \cup Final
    /\ spawned \in 0 .. NWorkers
    /\ joinIndex \in 1 .. NWorkers + 1
    /\ summary.totalCores \in Nat /\ summary.isValid \in BOOLEAN
    /\ result \in [Worker -> Result]
    /\ affinity \in [Worker -> SUBSET Permitted]

Init ==
    /\ QueueInit
    /\ masterPc = "spawn" /\ spawned = 0 /\ joinIndex = 1
    /\ summary = NoSummary
    /\ result = [w \in Worker |-> [ops |-> 0, error |-> FALSE]]
    /\ affinity = [w \in Worker |-> Permitted]

-----------------------------------------------------------------------------
(* The worker processes. *)

\* The core asked for: the core id of a shard is its index on the node
\* (cluster.py:52), whatever the core ids of the orchestrator are.
PinTarget(w) == w - 1

\* pin_to_core(shard_spec.core_id): a core the kernel refuses leaves the mask
\* as it was.
Boot(w) ==
    /\ Run(w)
    /\ affinity' = [affinity EXCEPT ![w] = IF PinTarget(w) \in Permitted
                                                THEN {PinTarget(w)} ELSE @]
    /\ UNCHANGED <<startVars, result>>

\* The engine returns or run_worker_process catches its exception, and the
\* result is put: a full run, a run cut short by an adapter error, or nothing
\* at all when the bootstrap failed.
Finish(w) ==
    /\ Put(w)
    /\ \E r \in Result : /\ r.ops > 0 \/ r.error
                         /\ result' = [result EXCEPT ![w] = r]
    /\ UNCHANGED <<startVars, affinity>>

Report(w) == FeederStep(w) /\ UNCHANGED <<startVars, ownVars>>

\* A signal (out of memory, a fault in a native call) ends the process.
Crash(w) ==
    /\ w \in MayCrash
    /\ status[w] \in {"writing", "written"} => CrashHoldingLock
    /\ Die(w)
    /\ UNCHANGED <<startVars, ownVars>>

-----------------------------------------------------------------------------
(* The master. *)

Spawn ==
    /\ masterPc = "spawn"
    /\ spawned' = spawned + 1
    /\ Start(spawned')
    /\ masterPc' = IF spawned' = NWorkers THEN "join" ELSE "spawn"
    /\ UNCHANGED <<joinIndex, summary, ownVars>>

\* p.start() raises: the live processes are terminated, the error re-raised.
SpawnFails ==
    /\ SpawnMayFail
    /\ masterPc = "spawn"
    /\ masterPc' = "raised"
    /\ TerminateAll
    /\ UNCHANGED <<spawned, joinIndex, summary, ownVars>>

\* A crashed worker is logged here, and nothing else: no state remembers it.
NextProcess == joinIndex + 1

Join ==
    /\ masterPc = "join"
    /\ Joined(joinIndex)
    /\ joinIndex' = NextProcess
    /\ masterPc' = IF joinIndex = NWorkers THEN "drain" ELSE "join"
    /\ UNCHANGED <<spawned, summary, ownVars, processVars>>

DrainOne ==
    /\ masterPc = "drain"
    /\ Take
    /\ UNCHANGED <<startVars, ownVars>>

FailedAtBootstrap ==
    {w \in ToSet(workerResults) : result[w].error /\ result[w].ops = 0}
FailedWorkers == {w \in ToSet(workerResults) : result[w].error}

\* The queue is empty and a result carries an error: WorkerCrashError.
RaiseWorkerCrash ==
    /\ masterPc = "drain" /\ pipe = <<>>
    /\ FailedWorkers # {}
    /\ masterPc' = "workerCrash"
    /\ UNCHANGED <<spawned, joinIndex, summary, ownVars, processVars>>

TotalOfLast == IF workerResults = <<>> THEN 0 ELSE result[Last(workerResults)].ops
TotalOps == SumFunction([i \in DOMAIN workerResults |-> result[workerResults[i]].ops])

\* EBPFProbe.sample_bytes_transferred of the master's own probe: nothing ever
\* calls record_activity on it.
ProbeSample == 0
\* Line 119; one operation stands for one block of bytes.
ProbeBytes(clientBytes) == IF ProbeSample - 0 > clientBytes THEN ProbeSample ELSE clientBytes

Abs(n) == IF n < 0 THEN -n ELSE n
\* TelemetryEvaluator.evaluate at its default threshold of 0.1 percent.
Evaluate(clientBytes, probeBytes) ==
    Abs(clientBytes - probeBytes) * 1000 <= IF probeBytes > 1 THEN probeBytes ELSE 1

ReturnSummary ==
    /\ masterPc = "drain" /\ pipe = <<>>
    /\ FailedWorkers = {}
    /\ summary' = [totalCores |-> spawned, totalOps |-> TotalOps,
                   isValid |-> Evaluate(TotalOps, ProbeBytes(TotalOps))]
    /\ masterPc' = "summary"
    /\ UNCHANGED <<spawned, joinIndex, ownVars, processVars>>

WorkerStep(w) == Boot(w) \/ Finish(w) \/ Report(w)

MasterStep == Spawn \/ Join \/ DrainOne \/ RaiseWorkerCrash \/ ReturnSummary

Next ==
    \/ MasterStep
    \/ SpawnFails
    \/ \E w \in Worker : WorkerStep(w) \/ Crash(w)

Spec == Init /\ [][Next]_vars

\* Processes are scheduled; a run ends because its duration timer does, and
\* nobody is obliged to crash.
FairSpec == Spec /\ WF_vars(MasterStep) /\ \A w \in Worker : WF_vars(WorkerStep(w))

-----------------------------------------------------------------------------
\* When start() ends, the result of every worker that exited normally has been
\* read exactly once, although the results are read only after the joins: a
\* process cannot be joined before its feeder has flushed (master.py:81-100).
ResultsComplete ==
    masterPc \in {"summary", "workerCrash"} =>
        \A w \in Worker : status[w] = "exited" =>
            \E i \in DOMAIN workerResults :
                \A j \in DOMAIN workerResults : workerResults[j] = w <=> j = i

\* No result arrives while the master drains, so `while not empty()` on line 96
\* cannot stop too early.
NoLateResult == [][masterPc = "drain" => Len(pipe') <= Len(pipe)]_vars

\* A summary is returned only if no worker that ended its run reported an
\* error, wherever in the run the error came (test_master_extended.py:15).
NoErrorSummarised ==
    masterPc = "summary" =>
        \A w \in Worker : status[w] = "exited" => ~result[w].error

\* The totals of a summary are those of the workers that exited normally, and
\* of workers that crashed after their result had reached the pipe.
TotalsRight ==
    masterPc = "summary" =>
        \E C \in SUBSET {w \in Worker : status[w] = "crashed"} :
            summary.totalOps = SumFunctionOnSet([w \in Worker |-> result[w].ops],
                                                C \cup {w \in Worker : status[w] = "exited"})

\* start() eventually returns or raises, unless its workers block each other
\* in one of those two ways.
MasterReturns == <>(masterPc \in Final) \/ <>[]Blocked

\* The bytes of the delivered results that crossed the probed interface.
BytesOnWire ==
    SumFunctionOnSet([w \in Worker |-> IF w \in OnWire THEN result[w].ops ELSE 0],
                     ToSet(workerResults))

\* A fleet that lost a worker to a signal and whose reported bytes disagree with
\* the bytes on the wire by more than the threshold is not summarised as valid.
\* Two statements forbid it, each alone: WorkerCrashError is "Raised when a
\* core-pinned worker process crashes or exits with non-zero exit code"
\* (exceptions.py:126), and validation compares client bytes with the kernel
\* probes (LLD-VAL-001.md:132-138).
LossNoticed ==
    /\ masterPc = "summary"
    /\ \E w \in Worker : status[w] = "crashed"
    /\ ~Evaluate(summary.totalOps, BytesOnWire)
    => ~summary.isValid
=============================================================================
