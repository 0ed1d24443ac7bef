# STEVE in TLA+

STEVE is a load generator for storage systems: a master process shards a block
address space over worker processes, each worker writes to its blocks in a hot
loop through a storage adapter, and the master collects latencies and byte
counts. Nodes of a cluster agree on a start instant with a barrier.

This directory holds TLA+ modules for the parts of the program that keep state
and run concurrently, TLC configurations that check them on small instances, and
TLAPS proofs that hold for every value of the constants. `PROJECT.json` maps
each definition to the lines it models and lists runs, mutants, findings,
hazards and theorems. Paths below are relative to the repository.

## Inventory

| Component | State it keeps | Operations | Interacts with | What is hard | What makes it correct |
| --- | --- | --- | --- | --- | --- |
| Cluster barrier, `steve/orchestrator/sync.py` | set of ready ids, release event, start instant | `signal_ready` | node daemons by RPC; suspended handlers of one event loop | retries and duplicates, state read after an await, cancelled calls, dead nodes, a wall clock that is stepped | nobody released early, one instant unless signals are repeated, waiters released |
| Shard generator, `cluster.py` | index and lists under construction | `generate_cluster_shards` | called by master, emulator and use case 08; workers compute offsets from its result | off-by-one between two loops, repeated ids, zero cores | blocks disjoint, no gap, seeds distinct, rates within target |
| Chaos use case, `usecases/usecase_08` | three assignments of shards | `run_chaos_simulation` | the generator, three times | a survivor whose block moves, a check that only counts | survivors keep their place, the printed verdict is right |
| Result queue (`multiprocessing.Queue`) | pipe, write lock, feeder threads | `put`, `get_nowait`, `join` of a process | workers on one side, master or emulator on the other | join before read, full pipe, dead lock owner | a result is received at most once, after it was put, never after it was lost |
| Master, `master.py` | processes, joined index, results, summary | `start` | spawns workers, reads their queue, evaluator and probe | crashes, failing spawn, errors of some workers | every result read once, errors surface, totals right, `start()` ends |
| Worker entry, `worker.py`, `affinity.py` | affinity mask, result | `run_worker_process`, `pin_to_core` | queue to the master | error at any stage, refused core | one result for each exit |
| Worker engine, `worker.py` | offset, `keep_running`, timer task | `execute` | adapter, mutator, collector, event loop | timer starved by a loop that hardly yields, short writes, errors in mid-batch | shard followed, telemetry exact, bounded overrun, loop ends |
| Local emulator, `deploy/emulator/cluster_runner.py` | processes, temporary directory, summary | `run_emulated_cluster`, `run_simulated_node_worker` | generator, barrier, queue | barrier on one loop, exit codes ignored, directory removed under workers | barrier before workers, no block twice, summary exact, run ends |
| Metric collector, `validation/metric_collector.py` | histogram, totals, extremes | `record_latency`, `record_bytes`, percentiles | fed by engine and use cases | rounding, last bucket, bucket off by one | percentile bounds the latencies |
| io_uring adapter, `adapters/io_uring.py` | submission and completion ring, descriptors | `write`, `read`, `flush`, `close` | kernel; unmapped buffer of the worker | stale completions, failed or partial submits, full queue, teardown order | own result, waits end, the ring does not fill, memory mapped while used |
| POSIX adapter, `adapters/posix.py` | descriptor cache | `write`, `read`, `flush`, `close` | kernel | errors at any open, write or fsync | one open per path |
| S3 and vector adapters, `adapters/s3.py`, `vector.py` | none | `write`, `read`, `flush` | use cases 05 and 09 | they never suspend, and others rely on it | |
| Buffer pool, `payload/buffer_pool.py` | buffers, handed out modulo their number | `acquire`, `close` | coroutines of the use cases | no ownership, close under users | no buffer used after `close` |
| Payload mutator, `payload/mutator.py` | the buffer | `apply_entropy`, `mutate_entropy_block` | engine, use cases | XOR in place accumulates and undoes itself | blocks written are what is said of them |
| Concurrent use cases, `usecases/` 02, 05, 06, 07, 09, 10 | coroutines under `gather`, collectors, temporary directory | each one's `run_*` | pools, mutators, adapters, collectors | one of several coroutines fails, cancellation, division of the work | the plan is carried out once, coroutines end and pools are closed |
| Evaluator and probe, `validation/evaluator.py`, `ebpf_probe.py` | counters of the probe | `evaluate`, `sample_bytes_transferred` | master | probe value clamped by what it is compared with | valid only if the bytes agree |
| Factory, blueprint, profiles, exceptions, reporter formats, logging, operator, use cases 01, 03, 04, deployment, scripts | none that others read | | | | not modelled, see below |

How a run goes: the master calls the shard generator, spawns one process for each
shard and joins them all; each process pins itself, runs the engine, puts one
result into a multiprocessing queue and exits when the feeder thread of the queue
has written it into a pipe; then the master drains the pipe, raises if a result
carries an error, and otherwise evaluates and returns a summary. The emulator does
the same for several nodes, after it has passed all of them through the barrier in
its own process, and with a worker loop of its own. A use case is one event loop on
which one or several coroutines drive adapters directly.

## Modules

| Module | Models | How state and actions correspond |
| --- | --- | --- |
| `StartBarrier` | what the barrier promises | one instant, decided by the last arrival, with which everybody leaves |
| `ClusterSync` | `ClusterSyncServicer` | the variables are its fields; one action is one stretch of `signal_ready` between suspensions: up to the await (`SignalAndWait`), through the await when the event is set (`SignalAndRelease`), after it (`Resume`); `Cancel`, `Crash`, `Tick` are the environment |
| `ShardGenerator` | `generate_cluster_shards` | one action for each iteration of `sum`, of the inner and of the outer loop |
| `ChaosRebalance` | `run_chaos_simulation` | `stage` is the call of the generator that runs; each runs step by step |
| `ResultChannel` | what a parent may expect of its workers' channel | a result is sent, received or lost, once |
| `ResultQueue` | processes and their queue, as both parents use them | `status[w]` is the life of a process, with the three steps of its feeder thread (take the lock, write, release) apart; `pipeCapacity` is chosen when a run begins |
| `Fleet` | `MultiCoreOrchestrator.start`, `run_worker_process` | `masterPc` and the indices are the loops of `start` |
| `Emulator` | `run_emulated_cluster` and its workers | `pc` is the parent; `offset`, `ops` and `written` are the workers' |
| `MetricCollector` | the histogram | its fields, `Record` for the two calls a worker makes, percentiles as operators |
| `WorkerEngine` | `execute`, its timer task, the event loop | `pc` is the worker's task, `ready` and `round` the loop's handles; the worker runs without interruption from one `sleep(0)` to the next because no adapter suspends |
| `IoUring` | `IoUringTargetAdapter`, the ring, the teardown of the engine | `sq`, `inflight` and `cq` are the ring; a request is `Submit` and then `HarvestOk` or `HarvestError`; `ReleaseBuffer`, `Flush`, `Close` in the order of the `finally` clause |
| `QueryBatches` | the division of queries in use case 05, the offsets of use case 06 | operators on numbers |
| `Workloads` | use cases 02, 05, 06, 07, 09, 10 | a use case is a list of stages, a stage a list of loops, one for each coroutine; `StageStarts`, `StageOver`, `StageRaises` and `Return` are the main coroutine, `Resume`, `Issue`, `Complete`, `Raises` and `Ends` any other, `CancelOrphans` the end of `asyncio.run` |
| `MC*` | | inputs for the runs |
| `*Proofs` | | theorems about the module of that name; `ShardGeneratorProofs` also about `ChaosRebalance`, `WorkloadsProofs` about `QueryBatches`, `WorkerEngineProofs` about `MetricCollector` |

Composition: `Fleet` and `Emulator` EXTEND `ResultQueue`, which instantiates
`ResultChannel` under the refinement mapping `Channel`. `Emulator` instantiates
`ShardGenerator` (`Shards`) and `ClusterSync` (`Sync`) on variables of its own and
takes their steps in its first two phases; its workers then use the shards the
generator left. `ClusterSync` instantiates `StartBarrier` under the refinement
mapping `Barrier`. `ChaosRebalance` EXTENDS `ShardGenerator`, `WorkerEngine` EXTENDS
`MetricCollector`, `Workloads` EXTENDS `QueryBatches`. `Fleet` takes over the results
a worker can have (`WorkerEngine` shows which) and the index pinned
(`ShardGenerator`'s `core_id`); the offsets of `WritesFollowShard` are the blocks of
`ShardGenerator`'s `NoOverlap`.

### Abstractions

- Ids, payloads and errors are members of small sets. A seed is a parameter
  `SeedOf` of the core index. The 64-bit hash itself, an addition, two
  multiplications by odd numbers and three xor-shifts, is one-to-one by
  construction, but this is not checked here: `SeedsNeverCollide` assumes it.
- A pipe holds a number of results, not of bytes. Results differ in length by
  their error message, so the number is any of `PipeCapacities`, chosen per run.
- One operation of a worker stands for one block in `Fleet`; sizes and durations
  are in the units of the cfg in `WorkerEngine`.
- In `WorkerEngine` a payload is the set of masks whose XOR is in the buffer:
  applying a mask is the symmetric difference. The mask of a seed is
  `seed ^ 0x5555...`; the one seed that gives the zero mask is left aside. In
  `Workloads` a payload is the XOR of the seeds, as the set of its bits, and the
  parity of their number; seeds are cut to 31 bits, those of the audit are below 16.
- In `Workloads` a sleep may take any time, so any coroutine that can go on may be
  next; in `WorkerEngine`, where the order matters, the loop is modelled exactly.
- Every open, write or fsync of the POSIX adapter may raise in `Workloads`; the S3
  and vector adapters cannot. The cleanup of a temporary directory may fail; use
  cases 06, 07 and 10 suppress that, use case 09 raises it. The data files, which are
  not in the directory, are left out.
- `time.time()` is a number that a step of the environment (`Tick`, `WallClock`) sets to
  any other one: nothing assumes that the wall clock only advances.
- `None` for a latency minimum is -1; the code starts at 2^64 - 1.
- Throughputs, which are quotients of a total and a clock, are left out.

## Runs

State counts are distinct states found by TLC.

| Run | Instance | Shows |
| --- | --- | --- |
| `ClusterSyncRetry` (99 522) | three nodes of which two share the default id, two signals each, one may die, two may be cancelled, the wall clock jumps both ways | no release before enough distinct ids (`NoEarlyRelease`), only a signal beyond the expected number adds an instant, at most one (`OneStartPerSignal`), waiters are released (`WaiterReleased`) |
| `ClusterSyncDeadNode` | a node may die before it signals | **violated**: the other handler waits for ever |
| `ChaosRebalance` (12 489) | single calls with lists of up to three nodes, up to three cores, repeated ids, empty nodes; chaos simulations with up to three nodes and up to four failures | disjoint blocks, no gap, distinct seeds; a survivor keeps its block and seed (`SurvivorsKeepPlace`); the check that compares numbers only is right about contiguity (`IntegrityHonest`) |
| `Fleet` (68 418) | three workers, pipe for two or three results, two may crash anywhere, spawns may fail, one core refused | results complete, errors surface, totals right, `start()` ends |
| `FleetLoss` | one of two workers may be killed, the bytes of the other never cross the interface | **violated**: a summary marked valid is returned (`LossNoticed`) |
| `Emulator` (859 780) | two nodes of two cores, pipe for three or four results, one worker may be killed, another's write may raise, spawns may fail | no worker before the barrier is passed (`StartsAfterBarrier`), no block twice, summary exact, directory there while workers need it, both refinements, `run_emulated_cluster` ends |
| `IoUring` (33 413) | four requests, queue of two, every fault, a caller that stops at the first error or one that goes on, also after close | a worker gets its own results (`WorkerResultIsOwn`), the entries and completions that no one harvests are no more than the calls that failed, so the ring does not fill otherwise (`LeftoversAreFailures`), waits end |
| `IoUringStale` | caller goes on after a failed completion | **violated**: it gets the result of the failed request |
| `IoUringTeardown` | a submit fails, the worker tears down | **violated**: its buffer is unmapped while the entry that uses it is still queued, and the flush then submits it (`FlushedBeforeUnmap`) |
| `WorkerEngine` (132 189) | batches of two, duration of up to three writes, full, slow and short writes, failures of boot, write and flush | shard followed, telemetry exact, at most three batches late, full duration, percentiles sound, worker returns |
| `WorkerPayload` | the same | **violated**: the second write carries the empty buffer |
| `Workloads` (2 275) | twelve runs of the six use cases, POSIX errors anywhere, cleanups that fail | no buffer used after its pool is closed (`NoUseAfterClose`), coroutines end and pools are closed however a use case ends (`ResourcesReleased`), what the arguments name is done and counted once (`PlanExecuted`, but for the queries of use case 05 when they are too few), every use case ends |

Why the bounds are enough. Barrier: a third node makes "the last one" differ from
"another one", and a second signal of each node produces every kind of repetition
(before, at, and after the release). Chaos: more failures than nodes exercise the
`max(1, ...)` that keeps one of them. Fleet and Emulator: with a pipe for all results
but one a feeder blocks on a full pipe while another waits for the lock, with a pipe
for all of them the run comes to its normal end. Emulator: a worker that writes twice
meets the first and the second round of blocks of the others, one that writes nothing
reports zero. Ring: a queue of two with four requests is full with an entry left over.
Engine: with batches of two there is a first, a middle and a last position, and the
three batches of overrun all happen. Workloads: queries that divide evenly, leave a
remainder, are fewer than the clients, or none; tenants with more and with fewer
operations than each other, throttled or not; bursts that wrap the pool of eight.
The properties that are proved do not depend on the bounds at all.

`CHECK_DEADLOCK FALSE` stands in every cfg because each of these systems ends.

### Fairness

- `ClusterSync.FairSpec`: weak fairness of the first signal of each node and of
  `Resume`. A daemon that lives does signal, the event loop runs every task that
  is ready. Nothing is assumed of `Cancel`, `Crash`, `Tick` or repeated signals.
- `Fleet.FairSpec`, `Emulator.FairSpec`: weak fairness of the parent and of each
  worker's own steps: the scheduler of the operating system; a step of the wall clock
  is not one of them. A worker finishes
  because its duration ends, which is `WorkerReturns` of the engine. Nobody has to
  crash or to raise. `MasterReturns` and `EmulatorReturns` except two states by name
  (`Blocked`): a feeder facing a full pipe, which the parents read only after the
  joins, and a lock whose owner died.
- `WorkerEngine.FairSpec`: weak fairness of the worker's process and of its
  clock. The event loop is deterministic apart from the order in which expired
  timers enter a round, for which both asyncio's and uvloop's order are allowed.
- `IoUring.FairSpec`: the kernel completes what it has, a wait that can return
  does. Nothing is assumed of submits.
- `Workloads.FairSpec`: weak fairness of the whole process, whose loops are finite.

### Findings

Six places where the program and its documents disagree, each shown by a run:
the barrier has no eviction although HLD-DIST-001 promises it; a crashed worker
is left out of the summary although `WorkerCrashError` documents otherwise, and the
triangulation compares client bytes with themselves (both in `FleetLoss`); a failed
completion is never marked seen; the teardown releases the buffer before it flushes
although HLD-DIST-001 has it the other way round; the entropy mask undoes itself at
every second write.

Disagreements without a run, where no property claims what the code does not do:

- **Few queries.** `--vector-queries` is the "Number of vector similarity search
  queries" (`usecase_05:173-174`, and line 73). With two or more clients more than
  queries one is made per client but the last: 3 for a run that asks for 1 of 4 clients,
  more than its rate divides by. `PlanExecuted` leaves these counts out by name
  (`TooFewQueries`); `FewQueriesOverrun` proves the overrun.
- **The audit.** Use case 02 audits blocks in which earlier masks have accumulated. Its
  "all identical zero pattern" (`usecase_02:123`, labelled "93.8% Saved" in line 130) has
  10 distinct blocks of 16, and so have its "random seeds" (line 126, labelled
  "Incompressible" in line 132). No run checks what the labels say; `TenOfSixteen`
  proves what is counted.
- **Temporary storage.** Use cases 06, 07, 09 and 10 create a temporary directory, and
  06, 07 and 10 announce it as "Temporary Storage" (`usecase_06:48`, `usecase_07:90`,
  `usecase_10:46`) and as the default of their target (`usecase_06:190`,
  `usecase_07:211`, `usecase_10:182`). But the adapter opens the resource path, a bare
  name (`posix.py:38, 54`): the data files are made in the working directory and stay
  after every run. A failing cleanup of the directory is suppressed. So
  `ResourcesReleased` speaks of coroutines, pools and mutators only.
- **Cores.** HLD-STEVE-001:124-125 says that runtimes are pinned 1 : 1 to physical
  cores. The core asked for is the index of the shard, not the core the orchestrator was
  given, and a refusal by the kernel is suppressed: such workers share the permitted
  cores. No property says otherwise.

Other observations, of which no document says otherwise:

- After the release a repeated signal stamps a new instant, which is an earlier one if
  the wall clock was stepped back in between.
- A flush that fails is only logged, and `flush()` of the io_uring adapter does not
  wait for what it submits.
- The emulator drops the instants of its barrier, ignores exit codes (`SummaryExact`
  counts a dead worker among the cores and not its operations), and removes its
  directory under live workers when a spawn fails (`DirOutlivesWorkers` excepts that).
- Use case 06 closes its two mutators on no path; no use case closes an adapter.
- No adapter operation suspends, so in use case 07 no write of tenant B ever falls
  within a measured latency of tenant A. The same fact (`Suspends`) is what keeps the
  coroutines of use case 05 from reading into one buffer of their pool: at most one
  operation is ever under way, whatever the pool does.

## Proofs

The eight `*Proofs` modules prove every theorem from the assumptions in the
modules they extend (`ConstantAssumption`, `GeneratorAssumption`,
`ChaosAssumption`, `QueueAssumption`, `FleetAssumption`, `EmulatorAssumption`,
`IoUringAssumption`, `CollectorAssumption`, `WorkerAssumption`,
`WorkloadsAssumption`) and those each theorem states. The assumptions give constants
their types; those that say more are that node names are distinct, that depths, sizes
and counts by which the code divides are positive, and that a chaos simulation starts
from the lists the use case builds.

- **ClusterSyncProofs.** `IInv`: the ready ids are exactly those of the calls
  made; before the release nothing is stamped and nobody is past the await; after
  it enough ids are in; only finished calls have a response. `NoEarlyRelease` is not
  inductive without the first two. Nothing is said of the order of instants, since the
  wall clock may be stepped. How many there are is bounded (`SignalsBoundStarts`):
  `InstantsCounted` counts the instants handed out together with the one a woken handler
  would read, because a handler may return later, or never, what a signal stamped.
  `Agreement`
  and `Refinement` assume in addition that each node signals once and that as
  many are expected as there are (`SignalsOnce`), the refinement also distinct
  ids (`OwnIds`): then the releasing step is the last arrival, and the recorded
  instant never changes again. `ReleaseRight`: enough ids are in exactly when the
  event is set, and then nobody waits (`WakeUpNeverLost`). Who waits therefore waits
  for a node that has not signalled. This is the safety half of `WaiterReleased`, and
  with `SignalsOnce` and `OwnIds` nobody waits once every node has called
  (`BarrierOpens`).
- **ShardGeneratorProofs.** `IInv`: the partial sums add up, the global index is
  the sum before the current node plus the local core, and every shard is that of
  a distinct index below it. Blocks are disjoint because bases differ by at least
  a block and less than a stride. `NeverGap` needs a second invariant (`CInv`):
  every index so far has its shard, if ids are distinct; `AllCoresListed` a third
  (`Numbered`): the shards of a node are numbered from 0. For the chaos simulation
  each of the three calls starts from `CallInv`, and `ChaosInv` keeps what the calls
  before left: a map in which each shard is determined by the place of its node in
  the list and the partial sum there (`MapOf`). The survivors are a prefix of the list,
  so their sums are the same: `SurvivorsStay`; that their rate grows is monotony of the
  floor division. Each map is left with distinct first blocks, which is what the check
  counts, and with contiguous ones, which is what it prints (`Checked`):
  `IntegrityIsHonest`, and with it that the check passes.
- **ResultQueueProofs.** `QInv`: pipe and results taken hold no result twice, that
  of every worker past its write and of none before it. `QueueRefinement` maps each
  step of the queue to one of `ResultChannel` or to none: a write by a feeder is
  none, a death loses the results of the dead that are not in the pipe. The second
  half of the module is about sums. `SumFunctionOnSet` is a recursive function on the
  parts of a set, `CHOOSE`n, and nothing follows from it before it is shown that such
  a function exists; induction over a predicate is out of reach, but induction over a
  set of numbers is not (`SetInduction`, from a least counterexample), nor over the
  parts of a finite set (`FiniteInduction`). From these: sums do not depend on the
  order of their elements, add up, and follow along a sequence without repetition.
  The third part is about progress. `LockRight`: at most one feeder is between taking
  the lock and releasing it, and it is the owner. So, if a process is left and none can
  go on, the owner is dead or faces a full pipe, which is `Blocked` (`SomebodyGoesOn`).
  `QueueEnds` has a variant, the steps each process has before it, summed over all of
  them, plus the length of the pipe. `RoomForTheRest` counts: while somebody still
  writes, the pipe holds fewer results than there are workers.
- **FleetProofs.** Every step of `Fleet` is one of `ResultQueue` or leaves it alone,
  so `QInv` and the refinement carry over. `IInv` relates the loops of the master to
  the lives of the processes: what has been joined is gone. From both, results are
  complete and none arrives late. `Totalled`: the total is the sum over the results
  read, each once, which are those of `TotalsCorrect`. Termination comes in three
  parts. `CanMove` writes out the guards of the fair actions, because ENABLED is beyond
  the provers; `NothingElseBlocks` says that they all fail before the end only where
  `Blocked` holds. `StartIsFinite` has a variant (`Rest`) that every step lowers, a
  crash or a failing spawn included. `RoomMeansProgress` assumes a pipe with room for
  all the results and no death under the lock: then `Blocked` never holds. What is left of
  `MasterReturns` is the step from these three and fairness to "eventually".
- **EmulatorProofs.** `Progress`: the phases come in order. `BarrierRefined` follows
  from the theorem of `ClusterSyncProofs` for these constants, whose two assumptions
  hold because every node signals once under its own name. `GeneratorRight` is the
  result of `ShardGeneratorProofs` for these inputs: disjoint blocks, and a shard for
  each core of each node. `WritesRight`: a worker has written exactly the first `ops`
  blocks of its shard and is at the next. `EveryBlockOnce` joins the last two: blocks of
  one worker are a stride apart, and two workers have different shards, whose blocks
  are disjoint by `NeverOverlap`. `DirectoryOutlives` is an argument about the join loop: what is
  behind the index is gone, and the directory goes after the last. `Counted`: the
  summary is that of the results read; with `WritesRight`, which says what each worker
  has done, and `QInv`, which says whose result is read, `SummaryIsExact`.
  `NothingElseBlocks` and `RoomMeansProgress` say of `run_emulated_cluster` what they
  say of `start()`. The generator always has an iteration to do (`GeneratorGoesOn`, from
  the bounds of its loops). Of the handshake, the first node in the list that has not
  signalled can do so, and when there is none, nobody waits (`HandshakeGoesOn`, from
  `BarrierOpens`). The rest is the argument for the queue.
- **IoUringProofs.** `IInv`: queue, kernel and completion queue hold disjoint
  sets of requests without repetition, none later than the current one. For a
  caller that stops at the first error, or without faults (`Orderly`),
  `OrderInv`: while the caller waits the ring holds its request and no other.
  `RingDoesNotFill` is for every caller: an entry is left only by a request that failed,
  and a request that returns takes one out for the one it put in, its own or not
  (`BudgetInv`). `OnlySubmitLeavesBehind` tells which callers `FlushedBeforeUnmap`, the
  violated property, is about: those whose last submit failed.
- **WorkerEngineProofs.** `IInv`: the k-th write went to the k-th block and the
  mask is in the buffer after odd writes; which handles are ready in each state
  of the timer (never more than two); and how many writes may be late by now, one
  batch for each turn the worker has had since the duration ended. The bound of
  three batches is not inductive without the order in the ready queue. `Accounted`
  adds the collector: the first buckets together hold as many latencies as there are
  writes that fall into them, for every bucket, which is stronger than the total of
  `TelemetryExact` and is what a percentile reads. `PercentilesRight` then needs that
  powers of two are well-defined (`Pow2Step`, as for sums), grow, and that `BitLength`
  is the bucket whose bounds they are.
- **WorkloadsProofs.** First the division of the work: the batches of use case 05
  partition the queries when there are at least as many as clients, and overrun them
  when there are fewer by two or more; the blocks of use case 06 lie within its context. Then that every plan is
  `WellFormed`, for all arguments: loops of the right type, shared pools open in
  the stages that use them, and no coroutine on a shared pool next to one that can
  raise. `WInv` is about any well-formed plan: one coroutine runs at a time, a pool of
  its own is open from its first turn to its end, a shared one from its first stage
  to its last, and where the main coroutine is says how far the others are.
  `NeverUsedAfterClose` is not inductive without the last of these, and false for a plan in which
  two coroutines on a shared POSIX pool are gathered. `CInv` adds the counts: a
  collector has counted as many operations as the plan has for it behind the
  coroutines. `PlanCounts` numbers these operations from 0 in each plan, for
  use case 05 by the partition above and for use case 10 by rounds; `PlanCarriedOut`
  leaves out the queries of use case 05 when they are too few. `TenOfSixteen`
  says what the audit counts, which is not what its labels say: what the first k seeds leave in the reused buffer has a closed form,
  shown step by step, and takes ten values for k up to sixteen.

Every invariant, action property and refinement the passing runs check is a theorem.
Only model-checked: the six liveness properties (`WaiterReleased`, `MasterReturns`,
`EmulatorReturns`, `CallReturns`, `WorkerReturns`, `UseCaseReturns`). They are about
fairness and so about ENABLED, which TLAPS cannot reason about; of the first three, the
facts their argument rests on are proved, as said above. The violated properties are
shown by TLC as well.

## Not modelled

- The io_uring fallback without liburing, and reads, which differ from writes only in
  direction. `close()` and alignment errors of the POSIX adapter: no use case closes
  one, and all buffers are page-aligned.
- `record_activity` of the probe, which nothing calls; `reset()` of the collector;
  mutator slices and fractional ratios beyond the words every ratio changes.
- Use cases 01 and 03, which call `start()`, that is `Fleet`; 03 then serves two
  texts that are set before its server thread starts and do not change. Use case 04
  applies `evaluate` to its arguments.
- The factory (a lookup), blueprint and profiles (frozen records, the CONSTANTS of
  the modules), the operator (a pure function from a resource to manifests), logging,
  reporter formats, deployment files and scripts: no state that others read.

## Plan

1. Done: barrier, generator, fleet, ring, collector and engine with their proofs.
2. Done: the result queue as a module with the channel it implements; the emulator as
   the composition of generator, barrier and queue; the chaos simulation; the use
   cases on pools, mutators and adapters; `AllCoresListed`, the refinements, and that
   no block is written twice, as a theorem over generator and workers together.
3. Done: every invariant, action property and refinement the runs check as a theorem,
   with the sums and counts they rest on.
4. Done: the safety half of termination: what can block barrier, queue, master and
   emulator, and that queue and master take finitely many steps.
5. Left: `close()` and `read()` of the POSIX adapter under a caller that goes on after
   errors; the fallback of the io_uring adapter.
