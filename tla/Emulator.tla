------------------------------ MODULE Emulator ------------------------------
(***************************************************************************)
(* LocalClusterEmulator.run_emulated_cluster and its worker processes      *)
(* (src/deploy/emulator/cluster_runner.py): the shards of the cluster are  *)
(* generated, the nodes pass the start barrier in the parent, one process  *)
(* is spawned for each shard, and the parent joins them all before it      *)
(* reads the queue they report through.                                    *)
(*                                                                         *)
(* Composes ShardGenerator, ClusterSync and ResultQueue.                   *)
(***************************************************************************)
EXTENDS ResultQueue

CONSTANTS
    NodeNames,      \* f"node-{i:02d}" for i in range(node_count)
    CoresPerNode,   \* cores_per_node
    BlockSize,      \* block_size
    TargetBps,      \* target_bps
    SeedOf(_),      \* the seed hash of ShardGenerator
    Lead,           \* sync_lead_time_ms of the barrier
    MaxClock,       \* bound: the largest value the clock reaches
    MaxOps,         \* bound: the blocks each worker writes at most
    MayCrash,       \* workers that may die of a signal
    MayRaise,       \* workers whose os.write may raise
    SpawnMayFail    \* whether p.start() may raise

Node == ToSet(NodeNames)
Nodes == [i \in DOMAIN NodeNames |-> [id |-> NodeNames[i], cores |-> CoresPerNode]]
OwnName(n) == n

ASSUME EmulatorAssumption ==
    /\ NodeNames \in Seq(STRING) /\ IsInjective(NodeNames)
    /\ CoresPerNode \in Nat \ {0}
    /\ NWorkers = Len(NodeNames) * CoresPerNode
    /\ BlockSize \in Nat \ {0} /\ TargetBps \in Nat
    /\ Lead \in Nat /\ MaxClock \in Nat \ {0} /\ MaxOps \in [Worker -> Nat]
    /\ {MayCrash, MayRaise} \subseteq SUBSET Worker
    /\ SpawnMayFail \in BOOLEAN

VARIABLES
    \* generate_cluster_shards
    nodes, target, phase, position, before, totalCores, localCore,
    globalCoreIndex, nodeShards, shards,
    \* the barrier
    readyNodes, releaseEvent, synchronizedStartUs, handler, response, alive, now,
    \* the parent and its workers
    pc,         \* where run_emulated_cluster is
    spawned,    \* len(processes)
    joinIndex,  \* the process the join loop waits for
    tmpDir,     \* whether the temporary directory exists
    summary,    \* the fields of the summary that are checked
    offset,     \* offset of each worker
    ops,        \* ops of each worker
    written     \* the offsets of the blocks each worker has written

Shards == INSTANCE ShardGenerator WITH
    NodeLists <- {Nodes}, Throughputs <- {TargetBps}, Ops <- Nat
Sync == INSTANCE ClusterSync WITH
    NodeIds <- Node, IdOf <- OwnName, Expected <- Len(NodeNames),
    MaxCalls <- 1, MayCrash <- {}, MayCancel <- {}

shardVars == <<nodes, target, phase, position, before, totalCores, localCore,
               globalCoreIndex, nodeShards, shards>>
syncVars == <<readyNodes, releaseEvent, synchronizedStartUs, handler, response, alive, now>>
parentVars == <<pc, spawned, joinIndex, tmpDir, summary>>
workerVars == <<offset, ops, written>>
setupVars == <<shardVars, syncVars>>
vars == <<setupVars, parentVars, workerVars, processVars>>

Final == {"returned", "ended"}

TypeOK ==
    /\ QueueTypeOK /\ Shards!TypeOK /\ Sync!TypeOK
    /\ pc \in {"shard", "barrier", "spawn", "join", "drain", "raised"} \cup Final
    /\ spawned \in 0 .. NWorkers
    /\ joinIndex \in 1 .. NWorkers + 1
    /\ tmpDir \in BOOLEAN
    /\ {summary.totalCores, summary.totalOps} \subseteq Nat
    /\ offset \in [Worker -> Nat]
    /\ ops \in [Worker -> Nat] /\ \A w \in Worker : ops[w] <= MaxOps[w]
    /\ written \in [Worker -> SUBSET Nat]

Init ==
    /\ QueueInit /\ Shards!Init /\ Sync!Init
    /\ pc = "shard" /\ spawned = 0 /\ joinIndex = 1 /\ tmpDir = FALSE
    /\ summary = [totalCores |-> 0, totalOps |-> 0]
    /\ offset = [w \in Worker |-> 0]
    /\ ops = [w \in Worker |-> 0]
    /\ written = [w \in Worker |-> {}]

-----------------------------------------------------------------------------
(* The parent, up to the first spawn. *)

GenerateShards ==
    /\ pc = "shard"
    /\ Shards!Next
    /\ pc' = IF phase' = "done" THEN "barrier" ELSE "shard"
    /\ UNCHANGED <<spawned, joinIndex, tmpDir, summary, syncVars, workerVars, processVars>>

\* gather() starts one task for each node, in the order of the list.
InTurn(n) ==
    \A i, j \in DOMAIN NodeNames :
        NodeNames[j] = n /\ i < j => handler[<<NodeNames[i], 1>>] # "idle"

Handshake ==
    /\ pc = "barrier"
    /\ \E n \in Node : /\ InTurn(n)
                       /\ \/ Sync!SignalAndWait(<<n, 1>>)
                          \/ Sync!SignalAndRelease(<<n, 1>>)
                          \/ Sync!Resume(<<n, 1>>)
    /\ UNCHANGED <<parentVars, shardVars, workerVars, processVars>>

\* The wall clock moves while the handshake runs; nobody reads it afterwards.
WallClock ==
    /\ pc = "barrier"
    /\ Sync!Tick
    /\ UNCHANGED <<parentVars, shardVars, workerVars, processVars>>

\* gather() returns with the instants, which nobody reads, when all the tasks
\* are done; then the temporary directory is made.
FirstIsDone == \E n \in Node : handler[<<n, 1>>] = "done"
AllDone == \A n \in Node : handler[<<n, 1>>] = "done"

GatherReturns ==
    /\ pc = "barrier"
    /\ AllDone
    /\ pc' = "spawn"
    /\ tmpDir' = TRUE
    /\ UNCHANGED <<spawned, joinIndex, summary, setupVars, workerVars, processVars>>

-----------------------------------------------------------------------------
(* The worker processes. *)

\* The shard passed to the w-th process: the nodes in the order of the list,
\* the cores of a node in the order of its shards.
NodeOf(w) == NodeNames[(w - 1) \div CoresPerNode + 1]
CoreOf(w) == (w - 1) % CoresPerNode
ShardOf(w) == CHOOSE s \in shards[NodeOf(w)] : s.core_id = CoreOf(w)

\* os.open of the worker's own file succeeds.
Boot(w) ==
    /\ tmpDir
    /\ Run(w)
    /\ offset' = [offset EXCEPT ![w] = ShardOf(w).base]
    /\ UNCHANGED <<setupVars, parentVars, ops, written>>

\* The directory is gone: os.open raises, the process ends with a traceback.
BootFails(w) ==
    /\ ~tmpDir
    /\ status[w] = "started"
    /\ Die(w)
    /\ UNCHANGED <<setupVars, parentVars, workerVars>>

NextBlock(w) == offset[w] + BlockSize
NextOffset(w) == offset[w] + ShardOf(w).stride

\* One iteration of the loop; the duration ends it after any number of them.
WriteBlock(w) ==
    /\ status[w] = "running"
    /\ ops[w] < MaxOps[w]
    /\ written' = [written EXCEPT ![w] = @ \cup {offset[w]}]
    /\ offset' = [offset EXCEPT ![w] = NextOffset(w)]
    /\ ops' = [ops EXCEPT ![w] = @ + 1]
    /\ UNCHANGED <<setupVars, parentVars, processVars>>

\* The file is closed and the result put.
Report(w) ==
    /\ Put(w) \/ FeederStep(w)
    /\ UNCHANGED <<setupVars, parentVars, workerVars>>

\* os.write raises: the process ends with a traceback and without a result.
WriteRaises(w) ==
    /\ w \in MayRaise
    /\ status[w] = "running"
    /\ Die(w)
    /\ UNCHANGED <<setupVars, parentVars, workerVars>>

Crash(w) ==
    /\ w \in MayCrash
    /\ Die(w)
    /\ UNCHANGED <<setupVars, parentVars, workerVars>>

-----------------------------------------------------------------------------
(* The parent, from the first spawn on. *)

Spawn ==
    /\ pc = "spawn"
    /\ spawned' = spawned + 1
    /\ Start(spawned')
    /\ pc' = IF spawned' = NWorkers THEN "join" ELSE "spawn"
    /\ UNCHANGED <<joinIndex, tmpDir, summary, setupVars, workerVars>>

\* p.start() raises and leaves the `with`: the directory is removed under the
\* workers that run, unless one of them makes its file meanwhile.
SpawnFails ==
    /\ SpawnMayFail
    /\ pc = "spawn"
    /\ pc' = "raised"
    /\ tmpDir' \in {t \in BOOLEAN : t => \E w \in Worker : status[w] = "started"}
    /\ UNCHANGED <<spawned, joinIndex, summary, setupVars, workerVars, processVars>>

\* The exit handler of multiprocessing terminates the daemonic workers.
InterpreterExits ==
    /\ pc = "raised"
    /\ pc' = "ended"
    /\ TerminateAll
    /\ UNCHANGED <<spawned, joinIndex, tmpDir, summary, setupVars, workerVars>>

NextProcess == joinIndex + 1

Join ==
    /\ pc = "join"
    /\ Joined(joinIndex)
    /\ joinIndex' = NextProcess
    /\ pc' = IF joinIndex = NWorkers THEN "drain" ELSE "join"
    /\ UNCHANGED <<spawned, tmpDir, summary, setupVars, workerVars, processVars>>

DrainOne ==
    /\ pc = "drain"
    /\ Take
    /\ UNCHANGED <<setupVars, parentVars, workerVars>>

CoresOfResults == Len(workerResults)
TotalCores == spawned
TotalOps == SumFunction([i \in DOMAIN workerResults |-> ops[workerResults[i]]])

\* The queue is empty: the directory is removed and the summary returned.
ReturnSummary ==
    /\ pc = "drain" /\ pipe = <<>>
    /\ tmpDir' = FALSE
    /\ summary' = [totalCores |-> TotalCores, totalOps |-> TotalOps]
    /\ pc' = "returned"
    /\ UNCHANGED <<spawned, joinIndex, setupVars, workerVars, processVars>>

ParentStep ==
    \/ GenerateShards \/ Handshake \/ GatherReturns
    \/ Spawn \/ Join \/ DrainOne \/ ReturnSummary
    \/ InterpreterExits

WorkerStep(w) == Boot(w) \/ BootFails(w) \/ WriteBlock(w) \/ Report(w)

Next ==
    \/ ParentStep
    \/ WallClock
    \/ SpawnFails
    \/ \E w \in Worker : WorkerStep(w) \/ WriteRaises(w) \/ Crash(w)

Spec == Init /\ [][Next]_vars

\* Processes and ready tasks are scheduled, and the loop of a worker ends with
\* its duration; nobody is obliged to raise or to crash.
FairSpec == Spec /\ WF_vars(ParentStep) /\ \A w \in Worker : WF_vars(WorkerStep(w))

-----------------------------------------------------------------------------
\* The handshake implements the barrier: one instant, decided by the last node
\* (cluster_runner.py:115-120), although one loop runs all the handlers.
ImplementsBarrier == Sync!ImplementsBarrier

\* No worker process exists before every node has passed the barrier.
StartsAfterBarrier ==
    (\E w \in Worker : status[w] # "unborn")
        => synchronizedStartUs > 0
           /\ \A n \in Node : response[<<n, 1>>] = synchronizedStartUs

\* The workers of all the nodes together write every block address at most
\* once: shards, spawn order and the loop of the worker agree
\* (cluster_runner.py:38-60,123-140).  The emulator gives each worker a file of
\* its own (line 33); the addresses are those of the space the shards divide.
NoBlockTwice ==
    /\ \A w \in Worker : Cardinality(written[w]) = ops[w]
    /\ \A v, w \in Worker : \A a \in written[v], b \in written[w] :
          <<v, a>> # <<w, b>> => a + BlockSize <= b \/ b + BlockSize <= a

\* The summary counts every process, and the operations of exactly the workers
\* that exited normally and of some that died after their result was in the
\* pipe (lines 148-160, 162-172).
SummaryExact ==
    pc = "returned" =>
        /\ summary.totalCores = NWorkers
        /\ \E C \in SUBSET {w \in Worker : status[w] = "crashed"} :
              summary.totalOps =
                  SumFunctionOnSet(ops, C \cup {w \in Worker : status[w] = "exited"})

\* The directory is not removed under a worker, unless a spawn failed.
DirOutlivesWorkers ==
    ~tmpDir /\ pc \notin {"raised", "ended"} =>
        \A w \in Worker : status[w] \notin Alive

\* run_emulated_cluster eventually returns or raises, unless its workers block
\* each other on a full pipe or a dead lock owner.
EmulatorReturns == <>(pc \in Final) \/ <>[]Blocked
=============================================================================
