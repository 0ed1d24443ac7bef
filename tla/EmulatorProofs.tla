--------------------------- MODULE EmulatorProofs ---------------------------
(***************************************************************************)
(* Proofs about the emulator, for every number of nodes and cores, with    *)
(* processes that raise or die and spawns that fail at any point.          *)
(***************************************************************************)
EXTENDS Emulator, ResultQueueProofs, FiniteSetTheorems

SyncProofs == INSTANCE ClusterSyncProofs WITH
    NodeIds <- Node, IdOf <- OwnName, Expected <- Len(NodeNames),
    MaxCalls <- 1, MayCrash <- {}, MayCancel <- {}
\* The emulator calls the generator once; the plan of a chaos simulation is empty.
ShardProofs == INSTANCE ShardGeneratorProofs WITH
    NodeLists <- {Nodes}, Throughputs <- {TargetBps}, Ops <- Nat,
    NodeIds <- <<>>, CoreCounts <- {}, Profile <- <<1>>, FailedCounts <- {},
    stage <- "single", initialSpecs <- <<>>, failed <- 0, initialMap <- <<>>,
    rebalancedMap <- <<>>, healedMap <- <<>>, integrity <- FALSE

\* There are as many names as nodes.
LEMMA NodeCount ==
  /\ IsFiniteSet(Node)
  /\ Cardinality(Node) = Len(NodeNames)
  /\ Len(NodeNames) \in Nat \ {0}
<1> USE EmulatorAssumption, QueueAssumption
<1> DEFINE n == Len(NodeNames)
           f == [i \in 1 .. n |-> NodeNames[i]]
<1>1. n \in Nat /\ DOMAIN NodeNames = 1 .. n
  BY LenProperties
<1>2. n # 0
  <2> SUFFICES ASSUME n = 0 PROVE FALSE
    OBVIOUS
  <2>1. \A c \in Nat : 0 * c = 0
    OBVIOUS
  <2> QED
    BY <2>1
<1>3. f \in Bijection(1 .. n, Node)
  BY <1>1 DEF Node, ToSet, IsInjective, Bijection, Injection, Surjection
<1>4. IsFiniteSet(1 .. n) /\ Cardinality(1 .. n) = n
  <2>1. 1 \in Int /\ n \in Int /\ ~(1 > n) /\ n - 1 + 1 = n
    BY <1>1, <1>2
  <2> QED
    BY <2>1, FS_Interval
<1> HIDE DEF f
<1>5. IsFiniteSet(Node) /\ Cardinality(1 .. n) = Cardinality(Node)
  BY <1>3, <1>4, FS_Bijection DEF ExistsBijection
<1> QED
  BY <1>1, <1>2, <1>4, <1>5

LEMMA BarrierAssumptions ==
    SyncProofs!SignalsOnce /\ SyncProofs!OwnIds /\ SyncProofs!ConstantAssumption
<1>1. SyncProofs!Cardinality(Node) = Cardinality(Node)
  BY DEF SyncProofs!Cardinality, Cardinality
<1>2. SyncProofs!IsFiniteSet(Node)
  BY NodeCount DEF SyncProofs!IsFiniteSet, IsFiniteSet
<1>3. SyncProofs!SignalsOnce /\ SyncProofs!OwnIds
  BY <1>1, NodeCount DEF SyncProofs!SignalsOnce, SyncProofs!OwnIds, OwnName
<1> QED
  BY <1>2, <1>3, NodeCount, EmulatorAssumption DEF SyncProofs!ConstantAssumption, OwnName

\* ClusterSync, as Emulator and as the proofs instantiate it, is one system.
LEMMA SameServicer ==
    /\ Sync!Init => SyncProofs!Init
    /\ [Sync!Next]_Sync!vars => [SyncProofs!Next]_SyncProofs!vars
<1>1. \A S : Sync!Cardinality(S) = SyncProofs!Cardinality(S)
  BY DEF SyncProofs!Cardinality, Sync!Cardinality
<1>2. Sync!Call = SyncProofs!Call
  BY DEF Sync!Call, SyncProofs!Call
<1>3. Sync!Init => SyncProofs!Init
  BY <1>2 DEF Sync!Init, SyncProofs!Init
<1>4. Sync!vars' = Sync!vars => SyncProofs!vars' = SyncProofs!vars
  BY DEF Sync!vars, SyncProofs!vars
<1>5. ASSUME NEW c \in Sync!Call
      PROVE  /\ Sync!SignalAndWait(c) => SyncProofs!SignalAndWait(c)
             /\ Sync!SignalAndRelease(c) => SyncProofs!SignalAndRelease(c)
             /\ Sync!Resume(c) => SyncProofs!Resume(c)
             /\ Sync!Cancel(c) => SyncProofs!Cancel(c)
  BY <1>1, <1>2 DEF Sync!SignalAndWait, SyncProofs!SignalAndWait,
     Sync!SignalAndRelease, SyncProofs!SignalAndRelease, Sync!MaySignal,
     SyncProofs!MaySignal, Sync!AllReady, SyncProofs!AllReady, Sync!FutureEpoch,
     SyncProofs!FutureEpoch, Sync!WokenBySet, SyncProofs!WokenBySet,
     Sync!Resume, SyncProofs!Resume, Sync!ReturnedStart, SyncProofs!ReturnedStart,
     Sync!Cancel, SyncProofs!Cancel, Sync!servicerVars, SyncProofs!servicerVars
<1>6. \A n \in Node : Sync!Crash(n) => SyncProofs!Crash(n)
  BY DEF Sync!Crash, SyncProofs!Crash, Sync!servicerVars, SyncProofs!servicerVars
<1>7. Sync!Tick => SyncProofs!Tick
  BY DEF Sync!Tick, SyncProofs!Tick, Sync!servicerVars, SyncProofs!servicerVars
<1>8. Sync!Next => SyncProofs!Next
  BY <1>2, <1>5, <1>6, <1>7 DEF Sync!Next, SyncProofs!Next
<1> QED
  BY <1>3, <1>4, <1>8

LEMMA SameBarrier ==
    /\ SyncProofs!Barrier!BInit => Sync!Barrier!BInit
    /\ [SyncProofs!Barrier!BNext]_SyncProofs!Barrier!bvars
         => [Sync!Barrier!BNext]_Sync!Barrier!bvars
BY DEF SyncProofs!Barrier!BInit, Sync!Barrier!BInit, SyncProofs!Barrier!BNext,
   Sync!Barrier!BNext, SyncProofs!Barrier!bvars, Sync!Barrier!bvars,
   SyncProofs!Barrier!Arrive, Sync!Barrier!Arrive, SyncProofs!Barrier!ArriveLast,
   Sync!Barrier!ArriveLast, SyncProofs!Barrier!Leave, Sync!Barrier!Leave

LEMMA HandshakeRefines == Sync!Spec => Sync!ImplementsBarrier
<1>1. SyncProofs!Spec => SyncProofs!ImplementsBarrier
  BY BarrierAssumptions, SyncProofs!Refinement
<1> QED
  BY <1>1, SameServicer, SameBarrier, PTL
     DEF Sync!Spec, SyncProofs!Spec, Sync!ImplementsBarrier,
         SyncProofs!ImplementsBarrier, Sync!Barrier!BSpec, SyncProofs!Barrier!BSpec
-----------------------------------------------------------------------------
\* The parent does one thing after the other: no process exists before the
\* shards are complete and every task of the barrier is done.
Progress ==
    /\ spawned \in 0 .. NWorkers
    /\ pc \in {"shard", "barrier"} =>
          spawned = 0 /\ \A w \in Worker : status[w] = "unborn"
    /\ pc = "spawn" => spawned < NWorkers
    /\ pc \in {"shard", "barrier"} \/ AllDone
    /\ pc = "shard" \/ phase = "done"

WorkerAction(w) == WorkerStep(w) \/ WriteRaises(w) \/ Crash(w)

LEMMA WorkerAlive ==
  ASSUME NEW w \in Worker, WorkerAction(w)
  PROVE  /\ status[w] \in Alive
         /\ UNCHANGED <<setupVars, parentVars>>
         /\ QueueNext \/ UNCHANGED processVars
<1>1. CASE Boot(w)
  BY <1>1 DEF Boot, Run, QueueNext, Alive
<1>2. CASE BootFails(w) \/ WriteRaises(w) \/ Crash(w)
  BY <1>2 DEF BootFails, WriteRaises, Crash, Die, QueueNext, Alive
<1>3. CASE WriteBlock(w)
  BY <1>3 DEF WriteBlock, Alive
<1>4. CASE Report(w)
  BY <1>4 DEF Report, QueueNext, Put, FeederStep, FeederLock, FeederWrite,
              FeederRelease, Exit, Alive
<1> QED
  BY <1>1, <1>2, <1>3, <1>4 DEF WorkerAction, WorkerStep

LEMMA NextIsQueueNext ==
  ASSUME Progress, [Next]_vars
  PROVE  [QueueNext]_processVars
<1>1. CASE \E w \in Worker : WorkerAction(w)
  BY <1>1, WorkerAlive
<1>2. CASE Spawn
  <2>1. spawned' \in Worker
    BY <1>2, QueueAssumption DEF Spawn, Progress, Worker
  <2> QED
    BY <1>2, <2>1 DEF Spawn, QueueNext
<1>3. CASE DrainOne \/ InterpreterExits
  BY <1>3 DEF DrainOne, InterpreterExits, QueueNext
<1>4. CASE \/ GenerateShards \/ Handshake \/ WallClock \/ GatherReturns \/ Join
           \/ ReturnSummary \/ SpawnFails \/ UNCHANGED vars
  BY <1>4 DEF GenerateShards, Handshake, WallClock, GatherReturns, Join, ReturnSummary,
              SpawnFails, vars
<1> QED
  BY <1>1, <1>2, <1>3, <1>4 DEF Next, ParentStep, WorkerAction

LEMMA NextIsBarrierNext == [Next]_vars => [Sync!Next]_Sync!vars
<1> SUFFICES ASSUME [Next]_vars PROVE [Sync!Next]_Sync!vars
  OBVIOUS
<1>1. CASE Handshake \/ WallClock
  <2>1. \A n \in Node : <<n, 1>> \in Sync!Call
    BY DEF Sync!Call
  <2> QED
    BY <1>1, <2>1 DEF Handshake, WallClock, Sync!Next
<1>2. CASE ~(Handshake \/ WallClock)
  <2>1. UNCHANGED syncVars
    BY <1>2, WorkerAlive DEF Next, ParentStep, GenerateShards, GatherReturns, Spawn,
       Join, DrainOne, ReturnSummary, InterpreterExits, SpawnFails, WorkerAction,
       setupVars, vars
  <2> QED
    BY <2>1 DEF syncVars, Sync!vars
<1> QED
  BY <1>1, <1>2

LEMMA InitProgress == Init => Progress
BY QueueAssumption DEF Init, QueueInit, Progress

LEMMA NextProgress == Progress /\ [Next]_vars => Progress'
<1> SUFFICES ASSUME Progress, [Next]_vars PROVE Progress'
  OBVIOUS
<1> USE QueueAssumption
<1>1. CASE \E w \in Worker : WorkerAction(w)
  <2> PICK w \in Worker : WorkerAction(w)
    BY <1>1
  <2>1. pc \notin {"shard", "barrier"}
    BY WorkerAlive DEF Progress, Alive
  <2> QED
    BY <2>1, WorkerAlive DEF Progress, AllDone, setupVars, shardVars, syncVars, parentVars
<1>2. CASE GenerateShards \/ Handshake \/ WallClock
  <2>1. pc \in {"shard", "barrier"} /\ pc' \in {"shard", "barrier"}
        /\ UNCHANGED <<spawned, status>> /\ (pc' = "shard" \/ phase' = "done")
    BY <1>2 DEF GenerateShards, Handshake, WallClock, Progress, parentVars, shardVars, processVars
  <2> QED
    BY <2>1 DEF Progress
<1>3. CASE GatherReturns
  BY <1>3 DEF GatherReturns, Progress, AllDone, setupVars, shardVars, syncVars
<1>4. CASE Spawn
  BY <1>4 DEF Spawn, Progress, AllDone, setupVars, shardVars, syncVars
<1>5. CASE Join \/ DrainOne \/ ReturnSummary \/ SpawnFails \/ InterpreterExits
  <2>1. /\ pc \notin {"shard", "barrier"} /\ pc' \notin {"shard", "barrier", "spawn"}
        /\ UNCHANGED <<spawned, setupVars>>
    BY <1>5 DEF Join, DrainOne, ReturnSummary, SpawnFails, InterpreterExits, parentVars
  <2> QED
    BY <2>1 DEF Progress, AllDone, setupVars, shardVars, syncVars
<1>6. CASE UNCHANGED vars
  BY <1>6 DEF vars, Progress, AllDone, setupVars, shardVars, syncVars, parentVars, processVars
<1> QED
  BY <1>1, <1>2, <1>3, <1>4, <1>5, <1>6 DEF Next, ParentStep, WorkerAction

THEOREM InOrder == Spec => []Progress
  BY InitProgress, NextProgress, PTL DEF Spec

\* The results reach the parent as through the channel.
THEOREM ChannelRefined == Spec => ImplementsChannel
<1>1. Init => QueueInit
  BY DEF Init
<1>2. Progress /\ [Next]_vars => [QueueNext]_processVars
  BY NextIsQueueNext
<1> QED
  BY <1>1, <1>2, InOrder, QueueRefinement, PTL DEF Spec, QueueSpec

LEMMA BarrierRuns == Spec => Sync!Spec
<1>1. Init => Sync!Init
  BY DEF Init
<1> QED
  BY <1>1, NextIsBarrierNext, PTL DEF Spec, Sync!Spec

\* The nodes leave the barrier with one instant, decided by the last of them.
THEOREM BarrierRefined == Spec => ImplementsBarrier
  BY BarrierRuns, HandshakeRefines, PTL DEF ImplementsBarrier

\* No worker process exists before every node has passed the barrier.
THEOREM BarrierFirst == Spec => []StartsAfterBarrier
<1>1. Sync!Spec => []SyncProofs!OneInstant
  BY BarrierAssumptions, SyncProofs!Agreement, SameServicer, PTL
     DEF Sync!Spec, SyncProofs!Spec
<1>2. Sync!Spec => []SyncProofs!ReleasedWithStart
  BY BarrierAssumptions, SyncProofs!AlwaysReleasedWithStart, SameServicer, PTL
     DEF Sync!Spec, SyncProofs!Spec
<1>3. Progress /\ SyncProofs!OneInstant /\ SyncProofs!ReleasedWithStart
        => StartsAfterBarrier
  <2> SUFFICES ASSUME Progress, SyncProofs!OneInstant, SyncProofs!ReleasedWithStart,
                      NEW w \in Worker, status[w] # "unborn"
               PROVE  synchronizedStartUs > 0
                      /\ \A n \in Node : response[<<n, 1>>] = synchronizedStartUs
    BY DEF StartsAfterBarrier
  <2>1. AllDone
    BY DEF Progress
  <2>2. \A n \in Node : <<n, 1>> \in SyncProofs!Call
    BY DEF SyncProofs!Call
  <2>3. \A n \in Node : response[<<n, 1>>] = synchronizedStartUs
    BY <2>1, <2>2 DEF AllDone, SyncProofs!OneInstant
  <2>4. \A n \in Node : response[<<n, 1>>] > 0
    BY <2>1, <2>2 DEF AllDone, SyncProofs!ReleasedWithStart, SyncProofs!Done
  <2>5. \E n \in Node : TRUE
    <3>1. 1 \in DOMAIN NodeNames
      BY NodeCount, LenProperties, EmulatorAssumption
    <3> QED
      BY <3>1 DEF Node, ToSet
  <2> QED
    BY <2>3, <2>4, <2>5
<1> QED
  BY <1>1, <1>2, <1>3, InOrder, BarrierRuns, PTL
-----------------------------------------------------------------------------
(* The blocks the workers write. *)

LEMMA GeneratorAssumptions ==
  ShardProofs!GeneratorAssumption /\ ShardProofs!ChaosAssumption
<1>1. \A i \in DOMAIN NodeNames : NodeNames[i] \in STRING
  BY EmulatorAssumption, ElementOfSeq, LenProperties
<1>2. Nodes \in Seq([id : STRING, cores : Nat])
  <2>1. DOMAIN Nodes = 1 .. Len(NodeNames) /\ Len(NodeNames) \in Nat
    BY EmulatorAssumption, LenProperties DEF Nodes
  <2>2. \A i \in 1 .. Len(NodeNames) : Nodes[i] \in [id : STRING, cores : Nat]
    BY <1>1, <2>1, EmulatorAssumption DEF Nodes
  <2>3. Nodes = [i \in 1 .. Len(NodeNames) |-> Nodes[i]]
    BY <2>1 DEF Nodes
  <2> HIDE DEF Nodes
  <2> QED
    BY <2>1, <2>2, <2>3, IsASeq
<1>3. ShardProofs!GeneratorAssumption
  BY <1>2, EmulatorAssumption DEF ShardProofs!GeneratorAssumption, ShardProofs!NodeEntry
<1>4. ShardProofs!ChaosAssumption
  <2>1. <<>> \in Seq(STRING) /\ <<1>> \in Seq(Nat) \ {<<>>} /\ DOMAIN <<>> = {}
    OBVIOUS
  <2>2. 1 .. Len(<<>>) = {}
    OBVIOUS
  <2> QED
    BY <2>1, <2>2 DEF ShardProofs!ChaosAssumption, ShardProofs!InitialSpecs
<1> QED
  BY <1>3, <1>4

\* ShardGenerator, as Emulator and as the proofs instantiate it, is one system.
LEMMA SameGenerator ==
    /\ Shards!Init => ShardProofs!Init
    /\ [Shards!Next]_Shards!vars => [ShardProofs!Next]_ShardProofs!vars
<1>1. Shards!Spec4Core = ShardProofs!Spec4Core
  BY DEF Shards!Spec4Core, ShardProofs!Spec4Core, Shards!WorkerSeed, ShardProofs!WorkerSeed,
     Shards!Base, ShardProofs!Base, Shards!Stride, ShardProofs!Stride,
     Shards!PerCoreThroughput, ShardProofs!PerCoreThroughput
<1>2. Shards!Next => ShardProofs!Next
  BY <1>1 DEF Shards!Next, ShardProofs!Next, Shards!SumNode, ShardProofs!SumNode,
     Shards!StartSharding, ShardProofs!StartSharding, Shards!AddCore, ShardProofs!AddCore,
     Shards!StoreNode, ShardProofs!StoreNode, Shards!FreshNodeShards,
     ShardProofs!FreshNodeShards, Shards!Return, ShardProofs!Return
<1>3. Shards!vars' = Shards!vars => ShardProofs!vars' = ShardProofs!vars
  BY DEF Shards!vars, ShardProofs!vars
<1>4. Shards!Init => ShardProofs!Init
  BY DEF Shards!Init, ShardProofs!Init
<1> QED
  BY <1>2, <1>3, <1>4

LEMMA NextIsGeneratorNext == [Next]_vars => [Shards!Next]_Shards!vars
<1> SUFFICES ASSUME [Next]_vars PROVE [Shards!Next]_Shards!vars
  OBVIOUS
<1>1. CASE GenerateShards
  BY <1>1 DEF GenerateShards
<1>2. CASE ~GenerateShards
  <2>1. UNCHANGED shardVars
    BY <1>2, WorkerAlive DEF Next, ParentStep, Handshake, WallClock, GatherReturns, Spawn,
       Join, DrainOne, ReturnSummary, InterpreterExits, SpawnFails, WorkerAction,
       setupVars, vars
  <2> QED
    BY <2>1 DEF shardVars, Shards!vars
<1> QED
  BY <1>1, <1>2

LEMMA GeneratorRuns == Spec => ShardProofs!Spec
<1>1. Init => ShardProofs!Init
  BY SameGenerator DEF Init
<1>2. [Next]_vars => [ShardProofs!Next]_ShardProofs!vars
  BY NextIsGeneratorNext, SameGenerator
<1> QED
  BY <1>1, <1>2, PTL DEF Spec, ShardProofs!Spec

\* The list passed to the generator does not change.
LEMMA ListFixed == Spec => [](nodes = Nodes)
<1>1. Init => nodes = Nodes
  BY DEF Init, Shards!Init
<1>2. nodes = Nodes /\ [Next]_vars => (nodes = Nodes)'
  BY NextIsGeneratorNext DEF Nodes, Shards!Next, Shards!SumNode, Shards!StartSharding,
     Shards!AddCore, Shards!StoreNode, Shards!Return, Shards!vars
<1> QED
  BY <1>1, <1>2, PTL DEF Spec

\* What the generator guarantees about the lists it has returned.
GeneratorRight ==
    /\ nodes = Nodes
    /\ ShardProofs!IInv /\ ShardProofs!CInv /\ ShardProofs!Numbered
    /\ ShardProofs!NoOverlap

THEOREM GeneratorKeepsItsPromise == Spec => []GeneratorRight
<1>1. ShardProofs!Spec => []ShardProofs!IInv
  BY GeneratorAssumptions, ShardProofs!Invariance
<1>2. ShardProofs!Spec => [](ShardProofs!CInv /\ ShardProofs!Numbered)
  BY GeneratorAssumptions, ShardProofs!ListsNumbered
<1>3. ShardProofs!Spec => []ShardProofs!NoOverlap
  BY GeneratorAssumptions, ShardProofs!NeverOverlap
<1> QED
  BY <1>1, <1>2, <1>3, GeneratorRuns, ListFixed, PTL DEF GeneratorRight

\* Worker w has node w \div cores and core w % cores, counted from 0.
LEMMA DivMod ==
  ASSUME NEW a \in Nat, NEW c \in Nat \ {0}
  PROVE  /\ a \div c \in Nat /\ a % c \in 0 .. c - 1
         /\ a = (a \div c) * c + (a % c)
  OBVIOUS

LEMMA PlaceOf ==
  ASSUME NEW w \in Worker
  PROVE  /\ (w - 1) \div CoresPerNode + 1 \in 1 .. Len(NodeNames)
         /\ CoreOf(w) \in 0 .. CoresPerNode - 1
         /\ w - 1 = ((w - 1) \div CoresPerNode) * CoresPerNode + CoreOf(w)
<1> DEFINE q == (w - 1) \div CoresPerNode
<1>1. w - 1 \in Nat /\ w - 1 < NWorkers
  BY QueueAssumption DEF Worker
<1>2. q \in Nat /\ CoreOf(w) \in 0 .. CoresPerNode - 1 /\ w - 1 = q * CoresPerNode + CoreOf(w)
  BY <1>1, DivMod, EmulatorAssumption DEF CoreOf
<1> HIDE DEF q
<1>3. q < Len(NodeNames)
  <2> SUFFICES ASSUME Len(NodeNames) <= q PROVE FALSE
    BY <1>2, NodeCount
  <2>1. Len(NodeNames) * CoresPerNode <= q * CoresPerNode
    BY <1>2, NodeCount, EmulatorAssumption, GeneratorAssumptions, ShardProofs!ProductMonotone
  <2>2. q * CoresPerNode \in Nat /\ CoreOf(w) \in Nat
    BY <1>2, EmulatorAssumption, GeneratorAssumptions, ShardProofs!ProductIsNat
  <2> QED
    BY <1>1, <1>2, <2>1, <2>2, EmulatorAssumption, QueueAssumption
<1> QED
  BY <1>2, <1>3, NodeCount DEF q

LEMMA PlacesDiffer ==
  ASSUME NEW v \in Worker, NEW w \in Worker, v # w
  PROVE  NodeOf(v) # NodeOf(w) \/ CoreOf(v) # CoreOf(w)
<1> SUFFICES ASSUME NodeOf(v) = NodeOf(w), CoreOf(v) = CoreOf(w) PROVE FALSE
  OBVIOUS
<1> DEFINE i == (v - 1) \div CoresPerNode
           j == (w - 1) \div CoresPerNode
<1>1. i + 1 \in 1 .. Len(NodeNames) /\ j + 1 \in 1 .. Len(NodeNames)
      /\ v - 1 = i * CoresPerNode + CoreOf(v) /\ w - 1 = j * CoresPerNode + CoreOf(w)
      /\ NodeNames[i + 1] = NodeNames[j + 1]
  BY PlaceOf DEF NodeOf
<1>2. i \in Int /\ j \in Int /\ v \in Int /\ w \in Int
  BY DivMod, EmulatorAssumption DEF Worker
<1> HIDE DEF i, j
<1>3. i + 1 = j + 1
  BY <1>1, EmulatorAssumption, LenProperties DEF IsInjective
<1>4. i = j
  BY <1>2, <1>3
<1>5. v - 1 = w - 1
  BY <1>1, <1>4
<1> QED
  BY <1>2, <1>5

\* Once the lists are complete the shard of each worker exists.
LEMMA ShardExists ==
  ASSUME GeneratorRight, phase = "done", NEW w \in Worker
  PROVE  /\ ShardOf(w) \in ShardProofs!AllShards
         /\ ShardOf(w).node_id = NodeOf(w) /\ ShardOf(w).core_id = CoreOf(w)
         /\ ShardOf(w).base \in Nat /\ ShardOf(w).stride \in Nat
         /\ BlockSize <= ShardOf(w).stride
<1> DEFINE i == (w - 1) \div CoresPerNode + 1
<1>1. i \in 1 .. Len(NodeNames) /\ CoreOf(w) \in 0 .. CoresPerNode - 1 /\ NodeOf(w) = NodeNames[i]
  BY PlaceOf DEF NodeOf
<1> HIDE DEF i
<1>2. DOMAIN NodeNames = 1 .. Len(NodeNames) /\ Len(Nodes) = Len(NodeNames)
      /\ \A j \in 1 .. Len(NodeNames) : Nodes[j].id = NodeNames[j] /\ Nodes[j].cores = CoresPerNode
  BY EmulatorAssumption, LenProperties, NodeCount DEF Nodes
<1>3. ShardProofs!UniqueIds
  BY <1>2, EmulatorAssumption DEF GeneratorRight, ShardProofs!UniqueIds, IsInjective
<1>4. position = Len(nodes) + 1
  BY DEF GeneratorRight, ShardProofs!IInv, ShardProofs!IndexRight
<1>5. i < position
  BY <1>1, <1>2, <1>4, NodeCount DEF GeneratorRight
<1>6. ShardProofs!HasCores(shards[NodeOf(w)], NodeOf(w), CoresPerNode)
  BY <1>1, <1>2, <1>3, <1>5 DEF GeneratorRight, ShardProofs!Numbered
<1>7. \E s \in shards[NodeOf(w)] : s.core_id = CoreOf(w)
  BY <1>1, <1>6 DEF ShardProofs!HasCores
<1>8. ShardOf(w) \in shards[NodeOf(w)] /\ ShardOf(w).core_id = CoreOf(w)
  BY <1>7 DEF ShardOf
<1> HIDE DEF ShardOf
<1>9. ShardOf(w).node_id = NodeOf(w)
  BY <1>6, <1>8 DEF ShardProofs!HasCores
<1>10. ShardOf(w) \in ShardProofs!AllShards
  <2>1. ShardProofs!CInv => NodeOf(w) \in DOMAIN shards
    BY <1>1, <1>2, <1>5 DEF ShardProofs!CInv, ShardProofs!Stored, GeneratorRight
  <2>2. NodeOf(w) \in DOMAIN shards
    BY <2>1 DEF GeneratorRight
  <2> QED
    BY <1>8, <2>2 DEF ShardProofs!AllShards
<1>11. PICK g \in Nat : g < totalCores /\ ShardProofs!IsShardOf(ShardOf(w), g)
  BY <1>10, GeneratorAssumptions, ShardProofs!ShardInRange DEF GeneratorRight
<1>12. totalCores \in Nat /\ 1 <= totalCores /\ BlockSize \in Nat
  BY <1>11, EmulatorAssumption DEF GeneratorRight, ShardProofs!IInv, ShardProofs!Types
<1>13. 1 * BlockSize <= totalCores * BlockSize
  BY <1>12, GeneratorAssumptions, ShardProofs!ProductMonotone
<1>14. g * BlockSize \in Nat /\ totalCores * BlockSize \in Nat
  BY <1>12, GeneratorAssumptions, ShardProofs!ProductIsNat
<1> QED
  BY <1>8, <1>9, <1>10, <1>11, <1>12, <1>13, <1>14 DEF ShardProofs!IsShardOf

\* The block of the k-th operation of worker w.
Block(w, k) == ShardOf(w).base + k * ShardOf(w).stride

\* The blocks of one worker lie at least a block apart, in order.
LEMMA OwnBlocksApart ==
  ASSUME GeneratorRight, phase = "done", NEW w \in Worker,
         NEW j \in Nat, NEW k \in Nat, j < k
  PROVE  /\ Block(w, j) \in Nat /\ Block(w, k) \in Nat
         /\ Block(w, j) + BlockSize <= Block(w, k)
<1> DEFINE b == ShardOf(w).base
           s == ShardOf(w).stride
<1>1. b \in Nat /\ s \in Nat /\ BlockSize <= s /\ BlockSize \in Nat
  BY ShardExists, EmulatorAssumption
<1> HIDE DEF b, s
<1>2. j * s + s <= k * s /\ j * s \in Nat /\ k * s \in Nat
  BY <1>1, GeneratorAssumptions, ShardProofs!BlocksApart, ShardProofs!ProductIsNat
<1>3. Block(w, j) = b + j * s /\ Block(w, k) = b + k * s
  BY DEF Block, b, s
<1> QED
  BY <1>1, <1>2, <1>3

LEMMA FirstAndNextBlock ==
  ASSUME GeneratorRight, phase = "done", NEW w \in Worker, NEW k \in Nat
  PROVE  /\ Block(w, 0) = ShardOf(w).base
         /\ Block(w, k + 1) = Block(w, k) + ShardOf(w).stride
<1> DEFINE b == ShardOf(w).base
           s == ShardOf(w).stride
<1>1. b \in Nat /\ s \in Nat
  BY ShardExists
<1> HIDE DEF b, s
<1>2. 0 * s = 0 /\ (k + 1) * s = k * s + s /\ k * s \in Nat
  BY <1>1, GeneratorAssumptions, ShardProofs!ProductIsNat
<1>3. Block(w, 0) = b + 0 * s /\ Block(w, k) = b + k * s /\ Block(w, k + 1) = b + (k + 1) * s
  BY DEF Block, b, s
<1> QED
  BY <1>1, <1>2, <1>3 DEF b, s

\* What a worker has written are its first blocks, as many as it counts, and
\* while it runs its offset is at the next one.
Written(w) ==
    /\ status[w] \in {"unborn", "started"} => ops[w] = 0 /\ written[w] = {}
    /\ IsFiniteSet(written[w]) /\ Cardinality(written[w]) = ops[w]
    /\ \A a \in written[w] : \E k \in 0 .. ops[w] - 1 : a = Block(w, k)
    /\ status[w] = "running" => offset[w] = Block(w, ops[w])

WritesRight ==
    /\ ops \in [Worker -> Nat]
    /\ DOMAIN offset = Worker /\ DOMAIN written = Worker
    /\ \A w \in Worker : Written(w)

LEMMA InitWritesRight == Init => WritesRight
BY EmulatorAssumption, FS_EmptySet DEF Init, QueueInit, WritesRight, Written

\* A step under which a worker does not move keeps what it has written.
LEMMA WrittenKept ==
  ASSUME NEW w \in Worker, Written(w), shards' = shards,
         UNCHANGED <<ops[w], written[w], offset[w]>>,
         status'[w] \in {"unborn", "started"} => status[w] \in {"unborn", "started"},
         status'[w] = "running" => status[w] = "running"
  PROVE  Written(w)'
<1>1. \A k : Block(w, k)' = Block(w, k)
  BY DEF Block, ShardOf
<1> QED
  BY <1>1 DEF Written

LEMMA StepWritesRight ==
  ASSUME QInv, Progress, GeneratorRight, WritesRight, [Next]_vars
  PROVE  WritesRight'
<1>s. status \in [Worker -> Status]
  BY DEF QInv, QueueTypeOK
<1>1. ASSUME NEW w \in Worker, WorkerAction(w) PROVE WritesRight'
  <2>0. shards' = shards /\ phase = "done" /\ status[w] \in Alive
    BY <1>1, WorkerAlive DEF Progress, Alive, setupVars, shardVars
  <2>b. \A v \in Worker : \A k : Block(v, k)' = Block(v, k)
    BY <2>0 DEF Block, ShardOf
  <2>1. CASE Boot(w)
    <3>1. /\ status[w] = "started" /\ status' = [status EXCEPT ![w] = "running"]
          /\ offset' = [offset EXCEPT ![w] = ShardOf(w).base]
          /\ UNCHANGED <<ops, written>>
      BY <2>1 DEF Boot, Run, Becomes
    <3>2. ops[w] = 0 /\ written[w] = {}
      BY <3>1 DEF WritesRight, Written
    <3>3. Written(w)'
      BY <1>s, <2>0, <2>b, <3>1, <3>2, FirstAndNextBlock DEF WritesRight, Written
    <3>4. ASSUME NEW v \in Worker, v # w PROVE Written(v)'
      BY <1>s, <2>0, <3>1, <3>4, WrittenKept DEF WritesRight
    <3> QED
      BY <3>1, <3>3, <3>4 DEF WritesRight
  <2>2. CASE WriteBlock(w)
    <3>1. /\ status[w] = "running" /\ ops[w] < MaxOps[w] /\ status' = status
          /\ written' = [written EXCEPT ![w] = @ \cup {offset[w]}]
          /\ offset' = [offset EXCEPT ![w] = @ + ShardOf(w).stride]
          /\ ops' = [ops EXCEPT ![w] = @ + 1]
      BY <2>2 DEF WriteBlock, NextOffset, processVars
    <3>2. /\ ops[w] \in Nat /\ offset[w] = Block(w, ops[w])
          /\ IsFiniteSet(written[w]) /\ Cardinality(written[w]) = ops[w]
      BY <3>1, EmulatorAssumption DEF WritesRight, Written
    <3>3. offset[w] \notin written[w]
      <4> SUFFICES ASSUME offset[w] \in written[w] PROVE FALSE
        OBVIOUS
      <4>1. PICK k \in 0 .. ops[w] - 1 : offset[w] = Block(w, k)
        BY DEF WritesRight, Written
      <4>2. k \in Nat /\ k < ops[w]
        BY <3>2
      <4>3. Block(w, k) + BlockSize <= Block(w, ops[w]) /\ Block(w, k) \in Nat
        BY <2>0, <3>2, <4>2, OwnBlocksApart
      <4> QED
        BY <3>2, <4>1, <4>3, EmulatorAssumption
    <3>4. IsFiniteSet(written'[w]) /\ Cardinality(written'[w]) = ops'[w]
      BY <3>1, <3>2, <3>3, FS_AddElement DEF WritesRight
    <3>5. \A a \in written'[w] : \E k \in 0 .. ops'[w] - 1 : a = Block(w, k)
      <4>1. ops'[w] = ops[w] + 1 /\ written'[w] = written[w] \cup {offset[w]}
        BY <3>1 DEF WritesRight
      <4>2. ops[w] \in 0 .. ops'[w] - 1 /\ 0 .. ops[w] - 1 \subseteq 0 .. ops'[w] - 1
        BY <3>2, <4>1
      <4> QED
        BY <3>2, <4>1, <4>2 DEF WritesRight, Written
    <3>6. offset'[w] = Block(w, ops'[w])
      BY <2>0, <3>1, <3>2, FirstAndNextBlock DEF WritesRight
    <3>7. Written(w)'
      BY <2>b, <3>1, <3>4, <3>5, <3>6 DEF Written
    <3>8. ASSUME NEW v \in Worker, v # w PROVE Written(v)'
      BY <2>0, <3>1, <3>8, WrittenKept DEF WritesRight
    <3>9. ops' \in [Worker -> Nat]
      BY <3>1, EmulatorAssumption DEF WritesRight
    <3> QED
      BY <3>1, <3>7, <3>8, <3>9 DEF WritesRight
  <2>3. CASE BootFails(w) \/ Report(w) \/ WriteRaises(w) \/ Crash(w)
    <3>1. UNCHANGED workerVars
      BY <2>3 DEF BootFails, Report, WriteRaises, Crash
    <3>2. \E t \in Status \ {"unborn", "started", "running"} :
             status' = [status EXCEPT ![w] = t]
      BY <2>3 DEF BootFails, Report, WriteRaises, Crash, Put, FeederStep, FeederLock,
         FeederWrite, FeederRelease, Exit, Die, Becomes, Status, Alive
    <3>3. ASSUME NEW v \in Worker PROVE Written(v)'
      BY <1>s, <2>0, <3>1, <3>2, WrittenKept DEF WritesRight, workerVars
    <3> QED
      BY <3>1, <3>3 DEF WritesRight, workerVars
  <2> QED
    BY <1>1, <2>1, <2>2, <2>3 DEF WorkerAction, WorkerStep
<1>2. CASE GenerateShards
  <2>1. UNCHANGED <<status, ops, written, offset>>
        /\ \A w \in Worker : status[w] = "unborn"
    BY <1>2 DEF GenerateShards, Progress, workerVars, processVars
  <2> QED
    BY <2>1 DEF WritesRight, Written
<1>3. CASE \/ Handshake \/ WallClock \/ GatherReturns \/ Spawn \/ Join \/ DrainOne \/ ReturnSummary
           \/ InterpreterExits \/ SpawnFails \/ UNCHANGED vars
  <2>1. UNCHANGED <<workerVars, shards>>
    BY <1>3 DEF Handshake, WallClock, GatherReturns, Spawn, Join, DrainOne, ReturnSummary,
       InterpreterExits, SpawnFails, setupVars, shardVars, vars
  <2>2. \A w \in Worker :
           /\ status'[w] \in {"unborn", "started"} => status[w] \in {"unborn", "started"}
           /\ status'[w] = "running" => status[w] = "running"
    <3>1. CASE Spawn
      BY <1>s, <3>1 DEF Spawn, Start, Becomes
    <3>2. CASE InterpreterExits
      BY <3>2 DEF InterpreterExits, TerminateAll
    <3>3. CASE ~Spawn /\ ~InterpreterExits
      BY <1>3, <3>3 DEF Handshake, WallClock, GatherReturns, Join, DrainOne, Take, ReturnSummary,
         SpawnFails, processVars, vars
    <3> QED
      BY <3>1, <3>2, <3>3
  <2>3. ASSUME NEW w \in Worker PROVE Written(w)'
    BY <2>1, <2>2, WrittenKept DEF WritesRight, workerVars
  <2> QED
    BY <2>1, <2>3 DEF WritesRight, workerVars
<1> QED
  BY <1>1, <1>2, <1>3 DEF Next, ParentStep, WorkerAction

THEOREM ShardsFollowed == Spec => [](QInv /\ WritesRight)
<1>1. Init => QueueInit
  BY DEF Init
<1>2. QInv /\ Progress /\ [Next]_vars => QInv'
  BY NextIsQueueNext, NextQInv
<1>3. QInv /\ Progress /\ GeneratorRight /\ WritesRight /\ [Next]_vars => WritesRight'
  BY StepWritesRight
<1> QED
  BY <1>1, <1>2, <1>3, InitQInv, InitWritesRight, InOrder, GeneratorKeepsItsPromise, PTL
     DEF Spec

\* No block of the cluster is ever written twice.
THEOREM EveryBlockOnce == Spec => []NoBlockTwice
<1>1. Progress /\ GeneratorRight /\ WritesRight => NoBlockTwice
  <2> SUFFICES ASSUME Progress, GeneratorRight, WritesRight PROVE NoBlockTwice
    OBVIOUS
  <2>1. \A w \in Worker : Cardinality(written[w]) = ops[w]
    BY DEF WritesRight, Written
  <2>2. ASSUME NEW v \in Worker, NEW w \in Worker, NEW a \in written[v], NEW b \in written[w],
               <<v, a>> # <<w, b>>
        PROVE  a + BlockSize <= b \/ b + BlockSize <= a
    <3>0. phase = "done"
      <4>1. status[v] # "unborn"
        BY DEF WritesRight, Written
      <4> QED
        BY <4>1 DEF Progress
    <3>1. PICK j \in 0 .. ops[v] - 1 : a = Block(v, j)
      BY DEF WritesRight, Written
    <3>2. PICK k \in 0 .. ops[w] - 1 : b = Block(w, k)
      BY DEF WritesRight, Written
    <3>3. j \in Nat /\ k \in Nat
      BY EmulatorAssumption DEF WritesRight
    <3>4. CASE v = w
      <4>1. j # k
        BY <2>2, <3>1, <3>2, <3>4
      <4>2. j < k \/ k < j
        BY <3>3, <4>1
      <4> QED
        BY <3>0, <3>1, <3>2, <3>3, <3>4, <4>2, OwnBlocksApart
    <3>5. CASE v # w
      <4>1. ShardOf(v) # ShardOf(w)
        BY <3>0, <3>5, PlacesDiffer, ShardExists
      <4>2. ShardOf(v) \in ShardProofs!AllShards /\ ShardOf(w) \in ShardProofs!AllShards
        BY <3>0, ShardExists
      <4>3. ShardProofs!BlockOf(ShardOf(v), j) = a /\ ShardProofs!BlockOf(ShardOf(w), k) = b
        BY <3>1, <3>2 DEF ShardProofs!BlockOf, Block
      <4> QED
        BY <3>3, <4>1, <4>2, <4>3 DEF GeneratorRight, ShardProofs!NoOverlap
    <3> QED
      BY <3>4, <3>5
  <2> QED
    BY <2>1, <2>2 DEF NoBlockTwice
<1> QED
  BY <1>1, InOrder, GeneratorKeepsItsPromise, ShardsFollowed, PTL

-----------------------------------------------------------------------------
(* The temporary directory. *)

\* How far the join loop is, and where the directory may be gone.
JoinRight ==
    /\ joinIndex \in 1 .. NWorkers + 1
    /\ pc = "join" => joinIndex <= NWorkers
    /\ pc \in {"drain", "returned"} => joinIndex = NWorkers + 1
    /\ \A w \in Worker : w < joinIndex => Joined(w)
    /\ ~tmpDir => pc \in {"shard", "barrier", "returned", "raised", "ended"}

\* A process that is gone stays as it is.
LEMMA GoneStays ==
  ASSUME QInv, Progress, [Next]_vars, NEW w \in Worker, Joined(w)
  PROVE  Joined(w)'
<1>1. status \in [Worker -> Status]
  BY DEF QInv, QueueTypeOK
<1>2. [QueueNext]_processVars
  BY NextIsQueueNext
<1> QED
  BY <1>1, <1>2 DEF QueueNext, Start, Run, Put, FeederStep, FeederLock, FeederWrite,
     FeederRelease, Exit, Die, TerminateAll, Take, Becomes, Joined, Alive, processVars

LEMMA StepJoinRight ==
  ASSUME QInv, Progress, JoinRight, [Next]_vars
  PROVE  JoinRight'
<1> USE QueueAssumption
<1>1. CASE Join
  <2>1. /\ pc = "join" /\ Joined(joinIndex) /\ joinIndex' = joinIndex + 1
        /\ pc' = IF joinIndex = NWorkers THEN "drain" ELSE "join"
        /\ UNCHANGED <<tmpDir, status>>
    BY <1>1 DEF Join, NextProcess, processVars
  <2>2. \A w \in Worker : w < joinIndex' => Joined(w)'
    BY <2>1 DEF JoinRight, Joined, Worker
  <2> QED
    BY <2>1, <2>2 DEF JoinRight
<1>2. CASE ~Join
  <2>1. UNCHANGED joinIndex
    BY <1>2, WorkerAlive DEF Next, ParentStep, GenerateShards, Handshake, WallClock, GatherReturns,
       Spawn, DrainOne, ReturnSummary, InterpreterExits, SpawnFails, WorkerAction,
       parentVars, vars
  <2>2. \A w \in Worker : w < joinIndex' => Joined(w)'
    BY <2>1, GoneStays DEF JoinRight
  <2>3. /\ pc' = "join" => joinIndex' <= NWorkers
        /\ pc' \in {"drain", "returned"} => joinIndex' = NWorkers + 1
        /\ ~tmpDir' => pc' \in {"shard", "barrier", "returned", "raised", "ended"}
    <3>1. CASE Spawn
      <4>1. joinIndex <= NWorkers
        <5> SUFFICES ASSUME joinIndex = NWorkers + 1 PROVE FALSE
          BY DEF JoinRight
        <5>1. spawned' \in Worker /\ status[spawned'] = "unborn"
          BY <3>1 DEF Spawn, Progress, Worker, Start
        <5> QED
          BY <5>1 DEF JoinRight, Joined, Worker
      <4> QED
        BY <2>1, <3>1, <4>1 DEF Spawn, JoinRight
    <3>2. CASE ~Spawn
      BY <1>2, <2>1, <3>2, WorkerAlive DEF Next, ParentStep, GenerateShards, Handshake, WallClock,
         GatherReturns, DrainOne, ReturnSummary, InterpreterExits, SpawnFails,
         WorkerAction, parentVars, vars, JoinRight
    <3> QED
      BY <3>1, <3>2
  <2> QED
    BY <2>1, <2>2, <2>3 DEF JoinRight
<1> QED
  BY <1>1, <1>2

LEMMA JoinsInOrder == Spec => []JoinRight
<1>1. Init => JoinRight
  BY QueueAssumption DEF Init, JoinRight, Worker
<1>2. QInv /\ Progress /\ JoinRight /\ [Next]_vars => JoinRight'
  BY StepJoinRight
<1> QED
  BY <1>1, <1>2, InOrder, ShardsFollowed, PTL DEF Spec

\* The directory is removed when no worker is left, unless a spawn failed.
THEOREM DirectoryOutlives == Spec => []DirOutlivesWorkers
<1>1. Progress /\ JoinRight => DirOutlivesWorkers
  BY QueueAssumption DEF Progress, JoinRight, DirOutlivesWorkers, Joined, Alive, Worker
<1> QED
  BY <1>1, InOrder, JoinsInOrder, PTL

-----------------------------------------------------------------------------
(* The summary. *)

\* It counts every process, and the results read, each of them once.
Counted ==
    /\ pc \in {"join", "drain", "returned"} => spawned = NWorkers
    /\ pc = "returned" =>
          /\ pipe = <<>>
          /\ summary.totalCores = NWorkers
          /\ summary.totalOps = SumFunctionOnSet(ops, ToSet(workerResults))

\* Once every process is gone only the parent moves.
LEMMA WorkersGone ==
  ASSUME JoinRight, pc \in {"drain", "returned"}, NEW w \in Worker
  PROVE  Joined(w) /\ ~WorkerAction(w)
<1>1. Joined(w)
  BY QueueAssumption DEF JoinRight, Worker
<1>2. status[w] \notin Alive
  BY <1>1 DEF Joined, Alive
<1> QED
  BY <1>1, <1>2, WorkerAlive

\* Summing along the results read is summing over their workers.
LEMMA TotalOfResults ==
  ASSUME QInv, WritesRight, pipe = <<>>
  PROVE  TotalOps = SumFunctionOnSet(ops, ToSet(workerResults))
<1>1. OneReport(workerResults) /\ workerResults \in Seq(Worker)
  BY ConcatEmptySeq DEF QInv, QueueTypeOK, DeliveryRight, Delivered
<1>2. \A w \in Worker : ops[w] \in Nat
  BY DEF WritesRight
<1> QED
  BY <1>1, <1>2, SumAlong DEF TotalOps

LEMMA StepCounted ==
  ASSUME QInv, Progress, WritesRight, JoinRight, Counted, [Next]_vars
  PROVE  Counted'
<1>1. CASE Spawn
  BY <1>1 DEF Spawn, Counted
<1>2. CASE ReturnSummary
  <2>1. /\ UNCHANGED <<spawned, ops, workerResults, pipe>> /\ pc = "drain" /\ pipe = <<>>
        /\ summary'.totalCores = spawned /\ summary'.totalOps = TotalOps
    BY <1>2 DEF ReturnSummary, TotalCores, workerVars, processVars
  <2> QED
    BY <2>1, TotalOfResults DEF Counted
<1>3. CASE ~Spawn /\ ~ReturnSummary
  <2>1. /\ UNCHANGED spawned
        /\ pc' \in {"join", "drain"} => pc \in {"join", "drain"}
        /\ pc' = "returned" =>
              pc = "returned" /\ UNCHANGED <<summary, ops, workerResults, pipe>>
    <3>1. CASE \E w \in Worker : WorkerAction(w)
      BY <3>1, WorkerAlive, WorkersGone DEF parentVars
    <3>2. CASE ~\E w \in Worker : WorkerAction(w)
      BY <1>3, <3>2 DEF Next, ParentStep, GenerateShards, Handshake, WallClock, GatherReturns,
         Join, DrainOne, InterpreterExits, SpawnFails, WorkerAction, parentVars,
         workerVars, processVars, vars
    <3> QED
      BY <3>1, <3>2
  <2> QED
    BY <2>1 DEF Counted
<1> QED
  BY <1>1, <1>2, <1>3

LEMMA SummaryCounts == Spec => []Counted
<1>1. Init => Counted
  BY DEF Init, Counted
<1>2. QInv /\ Progress /\ WritesRight /\ JoinRight /\ Counted /\ [Next]_vars => Counted'
  BY StepCounted
<1> QED
  BY <1>1, <1>2, InOrder, JoinsInOrder, ShardsFollowed, PTL DEF Spec

\* The summary counts every process, and the operations of exactly the workers
\* that exited normally and of some that died after their result was in the pipe.
THEOREM SummaryIsExact == Spec => []SummaryExact
<1>1. QInv /\ WritesRight /\ JoinRight /\ Counted => SummaryExact
  <2> SUFFICES ASSUME QInv, WritesRight, JoinRight, Counted, pc = "returned"
               PROVE  \E C \in SUBSET {w \in Worker : status[w] = "crashed"} :
                         summary.totalOps = SumFunctionOnSet(ops,
                             C \cup {w \in Worker : status[w] = "exited"})
    BY DEF SummaryExact, Counted
  <2> DEFINE Read == ToSet(workerResults)
             C == {w \in Read : status[w] = "crashed"}
  <2>1. Read \subseteq Worker
    BY LenProperties, ElementOfSeq DEF QInv, QueueTypeOK, ToSet
  <2>2. \A w \in Worker : status[w] \in {"exited", "crashed"}
    BY WorkersGone DEF Joined
  <2>3. \A w \in Worker : status[w] = "exited" => w \in Read
    <3>1. Delivered = workerResults
      BY ConcatEmptySeq DEF QInv, QueueTypeOK, Counted, Delivered
    <3> QED
      BY <3>1 DEF QInv, DeliveryRight, PastWrite, Reports, ToSet
  <2>4. Read = C \cup {w \in Worker : status[w] = "exited"}
    BY <2>1, <2>2, <2>3
  <2>5. C \in SUBSET {w \in Worker : status[w] = "crashed"}
    BY <2>1
  <2> HIDE DEF C, Read
  <2> QED
    BY <2>4, <2>5 DEF Counted, Read
<1> QED
  BY <1>1, ShardsFollowed, JoinsInOrder, SummaryCounts, PTL
-----------------------------------------------------------------------------
(* Types. *)

OwnTypes ==
    /\ pc \in {"shard", "barrier", "spawn", "join", "drain", "raised"} \cup Final
    /\ tmpDir \in BOOLEAN
    /\ {summary.totalCores, summary.totalOps} \subseteq Nat
    /\ offset \in [Worker -> Nat]
    /\ \A w \in Worker : ops[w] <= MaxOps[w]
    /\ written \in [Worker -> SUBSET Nat]

LEMMA StepOwnTypes ==
  ASSUME QInv, Progress, GeneratorRight, WritesRight, OwnTypes, [Next]_vars
  PROVE  OwnTypes'
<1> USE EmulatorAssumption, QueueAssumption
<1>1. ASSUME NEW w \in Worker, WorkerAction(w) PROVE OwnTypes'
  <2>0. UNCHANGED parentVars /\ phase = "done"
    BY <1>1, WorkerAlive DEF Progress, Alive
  <2>1. ShardOf(w).base \in Nat /\ ShardOf(w).stride \in Nat
    BY <2>0, ShardExists
  <2> HIDE DEF ShardOf
  <2>2. CASE Boot(w)
    BY <2>0, <2>1, <2>2 DEF Boot, OwnTypes, parentVars
  <2>3. CASE WriteBlock(w)
    <3>1. /\ ops[w] < MaxOps[w]
          /\ written' = [written EXCEPT ![w] = @ \cup {offset[w]}]
          /\ offset' = [offset EXCEPT ![w] = @ + ShardOf(w).stride]
          /\ ops' = [ops EXCEPT ![w] = @ + 1]
      BY <2>3 DEF WriteBlock, NextOffset
    <3>2. ops[w] \in Nat /\ MaxOps[w] \in Nat /\ offset[w] \in Nat
      BY DEF WritesRight, OwnTypes
    <3>3. offset' \in [Worker -> Nat] /\ written' \in [Worker -> SUBSET Nat]
      BY <2>1, <3>1, <3>2 DEF OwnTypes
    <3>4. \A v \in Worker : ops'[v] <= MaxOps[v]
      BY <3>1, <3>2 DEF WritesRight, OwnTypes
    <3> QED
      BY <2>0, <3>3, <3>4 DEF OwnTypes, parentVars
  <2>4. CASE BootFails(w) \/ Report(w) \/ WriteRaises(w) \/ Crash(w)
    <3>1. UNCHANGED workerVars
      BY <2>4 DEF BootFails, Report, WriteRaises, Crash
    <3> QED
      BY <2>0, <3>1 DEF OwnTypes, parentVars, workerVars
  <2> QED
    BY <1>1, <2>2, <2>3, <2>4 DEF WorkerAction, WorkerStep
<1>2. CASE ReturnSummary
  <2>1. /\ UNCHANGED workerVars /\ pc' = "returned" /\ tmpDir' = FALSE /\ pipe = <<>>
        /\ summary'.totalCores = spawned /\ summary'.totalOps = TotalOps
    BY <1>2 DEF ReturnSummary, TotalCores
  <2>2. TotalOps \in Nat
    <3>1. ToSet(workerResults) \subseteq Worker
      BY LenProperties, ElementOfSeq DEF QInv, QueueTypeOK, ToSet
    <3>2. IsFiniteSet(Worker)
      BY FS_Interval DEF Worker
    <3>3. SumFunctionOnSet(ops, ToSet(workerResults)) \in Nat
      BY <3>1, <3>2, SumType DEF WritesRight
    <3> QED
      BY <2>1, <3>3, TotalOfResults
  <2>3. spawned \in Nat
    BY DEF Progress
  <2> QED
    BY <2>1, <2>2, <2>3 DEF OwnTypes, workerVars, Final
<1>3. CASE \/ GenerateShards \/ Handshake \/ WallClock \/ GatherReturns \/ Spawn \/ Join \/ DrainOne
           \/ InterpreterExits \/ SpawnFails \/ UNCHANGED vars
  <2>1. UNCHANGED <<workerVars, summary>> /\ tmpDir' \in BOOLEAN
    BY <1>3 DEF GenerateShards, Handshake, WallClock, GatherReturns, Spawn, Join, DrainOne,
       InterpreterExits, SpawnFails, parentVars, vars, OwnTypes
  <2>2. pc' \in {"shard", "barrier", "spawn", "join", "drain", "raised"} \cup Final
    BY <1>3 DEF GenerateShards, Handshake, WallClock, GatherReturns, Spawn, Join, DrainOne,
       InterpreterExits, SpawnFails, parentVars, vars, OwnTypes, Final
  <2> QED
    BY <2>1, <2>2 DEF OwnTypes, workerVars
<1> QED
  BY <1>1, <1>2, <1>3 DEF Next, ParentStep, WorkerAction

LEMMA OwnVariablesTyped == Spec => []OwnTypes
<1>1. ASSUME Init PROVE OwnTypes
  <2>1. \A w \in Worker : ops[w] <= MaxOps[w]
    <3>1. \A w \in Worker : MaxOps[w] \in Nat
      BY EmulatorAssumption
    <3> QED
      BY <1>1, <3>1 DEF Init
  <2>2. {summary.totalCores, summary.totalOps} \subseteq Nat
    <3>1. summary.totalCores = 0 /\ summary.totalOps = 0
      BY <1>1 DEF Init
    <3> QED
      BY <3>1
  <2>3. /\ pc = "shard" /\ tmpDir = FALSE
        /\ offset = [w \in Worker |-> 0] /\ written = [w \in Worker |-> {}]
    BY <1>1 DEF Init
  <2>4. offset \in [Worker -> Nat] /\ written \in [Worker -> SUBSET Nat]
    BY <2>3
  <2> QED
    BY <2>1, <2>2, <2>3, <2>4 DEF OwnTypes, Final
<1>2. QInv /\ Progress /\ GeneratorRight /\ WritesRight /\ OwnTypes /\ [Next]_vars => OwnTypes'
  BY StepOwnTypes
<1> QED
  BY <1>1, <1>2, InOrder, GeneratorKeepsItsPromise, ShardsFollowed, PTL DEF Spec

\* The generator, the barrier, the queue and the emulator that composes them
\* keep the types of their variables.
THEOREM TypeCorrect == Spec => []TypeOK
<1>1. ShardProofs!Spec => []ShardProofs!TypeOK
  BY GeneratorAssumptions, ShardProofs!TypeCorrect
<1>2. ShardProofs!TypeOK => Shards!TypeOK
  BY DEF ShardProofs!TypeOK, Shards!TypeOK, ShardProofs!AllShards, Shards!AllShards
<1>3. Sync!Spec => []SyncProofs!TypeOK
  BY BarrierAssumptions, SyncProofs!TypeCorrect, SameServicer, PTL
     DEF Sync!Spec, SyncProofs!Spec
<1>4. SyncProofs!TypeOK => Sync!TypeOK
  BY DEF SyncProofs!TypeOK, Sync!TypeOK, SyncProofs!Call, Sync!Call,
     SyncProofs!HandlerState, Sync!HandlerState
<1>5. /\ QInv /\ Progress /\ WritesRight /\ JoinRight /\ OwnTypes
      /\ Shards!TypeOK /\ Sync!TypeOK
      => TypeOK
  BY DEF QInv, Progress, WritesRight, JoinRight, OwnTypes, TypeOK
<1> QED
  BY <1>1, <1>2, <1>3, <1>4, <1>5, InOrder, GeneratorRuns, BarrierRuns, ShardsFollowed,
     JoinsInOrder, OwnVariablesTyped, PTL
-----------------------------------------------------------------------------
(* Termination.  ENABLED is beyond the provers, so what the fair actions need *)
(* is written out.                                                            *)

\* The guards of the phases of the parent: the generator is at one of its two
\* loops, and the event loop has a task to run.
CanGenerate ==
    \/ phase = "sum"
    \/ phase = "shard" /\ (position > Len(nodes) \/ localCore <= nodes[position].cores)
CanHandshake ==
    \/ AllDone
    \/ \E n \in Node :
          \/ handler[<<n, 1>>] = "woken"
          \/ /\ InTurn(n) /\ Sync!MaySignal(<<n, 1>>)
             /\ ~releaseEvent \/ Sync!AllReady(readyNodes \cup {OwnName(n)})

\* The guards of ParentStep and of WorkerStep.
CanMove ==
    \/ pc = "shard" /\ CanGenerate
    \/ pc = "barrier" /\ CanHandshake
    \/ pc = "spawn" /\ status[spawned + 1] = "unborn"
    \/ pc = "join" /\ Joined(joinIndex)
    \/ pc \in {"drain", "raised"}
    \/ \E w \in Worker : CanGoOn(w)

OnlyBlockedStops == pc \notin Final => Blocked \/ CanMove

\* The generator is left when it has returned; the processes spawned so far
\* are those that exist; and the lock is with its owner.
ParentRight ==
    /\ pc = "shard" => phase # "done"
    /\ \A w \in Worker : w <= spawned <=> status[w] # "unborn"
    /\ LockRight

LEMMA StepParentRight ==
  ASSUME QInv, Progress, ParentRight, [Next]_vars
  PROVE  ParentRight'
<1>0. /\ QueueTypeOK /\ LockRight /\ spawned \in 0 .. NWorkers
      /\ \A w \in Worker : w <= spawned <=> status[w] # "unborn"
  BY DEF QInv, Progress, ParentRight
<1>1. LockRight'
  BY <1>0, NextIsQueueNext, NextLockRight
<1>2. pc' = "shard" => phase' # "done"
  BY WorkerAlive DEF Next, ParentStep, GenerateShards, Handshake, WallClock, GatherReturns, Spawn,
     Join, DrainOne, ReturnSummary, InterpreterExits, SpawnFails, WorkerAction,
     parentVars, setupVars, shardVars, vars, ParentRight
<1>3. ASSUME NEW w \in Worker, WorkerAction(w)
      PROVE  \A v \in Worker : v <= spawned' <=> status'[v] # "unborn"
  <2>1. /\ UNCHANGED spawned /\ status' = [status EXCEPT ![w] = status'[w]]
        /\ status'[w] # "unborn" /\ status[w] # "unborn"
    BY <1>0, <1>3, WorkerAlive DEF WorkerAction, WorkerStep, Boot, BootFails, WriteBlock, Report,
       WriteRaises, Crash, Run, Put, FeederStep, FeederLock, FeederWrite, FeederRelease,
       Exit, Die, Becomes, QueueTypeOK, parentVars, processVars, Alive
  <2> QED
    BY <1>0, <2>1 DEF QueueTypeOK
<1>4. CASE Spawn
  <2>1. /\ spawned + 1 \in Worker /\ spawned' = spawned + 1 /\ spawned \in Nat
        /\ status' = [status EXCEPT ![spawned + 1] = "started"]
    BY <1>0, <1>4, QueueAssumption DEF Spawn, Start, Becomes, Progress, Worker
  <2>2. \A v \in Worker : v <= spawned + 1 <=> v <= spawned \/ v = spawned + 1
    BY <2>1 DEF Worker
  <2>3. \A v \in Worker : v <= spawned' <=> status'[v] # "unborn"
    BY <1>0, <2>1, <2>2 DEF QueueTypeOK
  <2> QED
    BY <1>1, <1>2, <2>3 DEF ParentRight
<1>5. CASE InterpreterExits
  <2>1. /\ UNCHANGED spawned
        /\ \A w \in Worker : status'[w] = "unborn" <=> status[w] = "unborn"
    BY <1>0, <1>5 DEF InterpreterExits, TerminateAll, Alive, QueueTypeOK
  <2> QED
    BY <1>0, <1>1, <1>2, <2>1 DEF ParentRight
<1>6. CASE \/ GenerateShards \/ Handshake \/ WallClock \/ GatherReturns \/ Join \/ DrainOne
           \/ ReturnSummary \/ SpawnFails \/ UNCHANGED vars
  <2>1. UNCHANGED <<spawned, status>>
    BY <1>6 DEF GenerateShards, Handshake, WallClock, GatherReturns, Join, DrainOne, Take,
       ReturnSummary, SpawnFails, vars, parentVars, processVars
  <2> QED
    BY <1>0, <1>1, <1>2, <2>1 DEF ParentRight
<1> QED
  BY <1>1, <1>2, <1>3, <1>4, <1>5, <1>6 DEF Next, ParentStep, WorkerAction, ParentRight

LEMMA ParentInOrder == Spec => []ParentRight
<1>1. Init => ParentRight
  <2> SUFFICES ASSUME Init PROVE ParentRight
    OBVIOUS
  <2>1. LockRight
    BY InitLockRight DEF Init
  <2>2. phase # "done"
    BY DEF Init, Shards!Init
  <2>3. \A w \in Worker : ~(w <= spawned) /\ status[w] = "unborn"
    BY DEF Init, QueueInit, Worker
  <2> QED
    BY <2>1, <2>2, <2>3 DEF ParentRight
<1>2. QInv /\ Progress /\ ParentRight /\ [Next]_vars => ParentRight'
  BY StepParentRight
<1> QED
  BY <1>1, <1>2, InOrder, ShardsFollowed, PTL DEF Spec

\* The servicer: nobody dies or is cancelled, the barrier is open when it was
\* released, and nobody waits when all have signalled.
ServicerRight ==
    /\ alive = Node
    /\ readyNodes \in SUBSET Node
    /\ releaseEvent => Sync!AllReady(readyNodes)
    /\ \A n \in Node : handler[<<n, 1>>] \in {"idle", "waiting", "woken", "done"}
    /\ (\A n \in Node : handler[<<n, 1>>] # "idle")
          => \A n \in Node : handler[<<n, 1>>] # "waiting"

LEMMA ServicerKeepsItsPromise == Spec => []ServicerRight
<1> DEFINE Proved == SyncProofs!IInv /\ SyncProofs!ReleaseRight /\ SyncProofs!FaultsNamed
<1>1. Sync!Spec => []Proved
  <2>1. SyncProofs!Spec => []SyncProofs!IInv
    BY BarrierAssumptions, SyncProofs!Invariance
  <2>2. SyncProofs!Spec => []SyncProofs!ReleaseRight
    BY BarrierAssumptions, SyncProofs!ReleaseInvariance
  <2>3. SyncProofs!Spec => []SyncProofs!FaultsNamed
    BY BarrierAssumptions, SyncProofs!FaultsInvariance
  <2> QED
    BY <2>1, <2>2, <2>3, SameServicer, PTL DEF Sync!Spec, SyncProofs!Spec
<1>2. ASSUME Proved PROVE ServicerRight
  <2>1. /\ readyNodes \in SUBSET Node
        /\ alive \in SUBSET Node /\ Node \ {} \subseteq alive
        /\ handler \in [SyncProofs!Call -> SyncProofs!HandlerState]
        /\ \A c \in SyncProofs!Call : handler[c] = "cancelled" => c[1] \in {}
    BY <1>2 DEF SyncProofs!IInv, SyncProofs!TypeOK, SyncProofs!FaultsNamed
  <2>2. \A n \in Node : <<n, 1>> \in SyncProofs!Call
    BY DEF SyncProofs!Call
  <2>3. \A n \in Node : handler[<<n, 1>>] \in {"idle", "waiting", "woken", "done"}
    BY <2>1, <2>2 DEF SyncProofs!HandlerState
  <2>4. releaseEvent => Sync!AllReady(readyNodes)
    BY <1>2 DEF SyncProofs!IInv, SyncProofs!AfterRelease, SyncProofs!AllReady, Sync!AllReady,
       SyncProofs!Cardinality, Sync!Cardinality
  <2>5. (\A n \in Node : handler[<<n, 1>>] # "idle")
          => \A n \in Node : handler[<<n, 1>>] # "waiting"
    BY <1>2, BarrierAssumptions, SyncProofs!BarrierOpens
  <2> QED
    BY <2>1, <2>3, <2>4, <2>5 DEF ServicerRight
<1> QED
  BY <1>1, <1>2, BarrierRuns, PTL

\* The barrier in the parent cannot hang: a task that has not started signals,
\* and when all have signalled, all of them are awake.
LEMMA HandshakeGoesOn == ServicerRight => CanHandshake
<1> SUFFICES ASSUME ServicerRight, ~AllDone PROVE CanHandshake
  BY DEF CanHandshake
<1>1. CASE \E n \in Node : handler[<<n, 1>>] = "idle"
  <2> DEFINE Idle == {i \in DOMAIN NodeNames : handler[<<NodeNames[i], 1>>] = "idle"}
  <2>1. DOMAIN NodeNames \subseteq Nat
    BY NodeCount, EmulatorAssumption
  <2>2. Idle # {} /\ Idle \in SUBSET Nat
    BY <1>1, <2>1 DEF Node, ToSet
  <2>3. PICK k \in Idle : \A i \in Idle : k <= i
    <3> HIDE DEF Idle
    <3> QED
      BY <2>2, Least
  <2> DEFINE n == NodeNames[k]
  <2>4. n \in Node /\ handler[<<n, 1>>] = "idle"
    BY <2>3 DEF Node, ToSet
  <2>5. InTurn(n)
    <3> SUFFICES ASSUME NEW i \in DOMAIN NodeNames, NEW j \in DOMAIN NodeNames,
                        NodeNames[j] = n, i < j
                 PROVE  handler[<<NodeNames[i], 1>>] # "idle"
      BY DEF InTurn
    <3>1. j = k
      BY <2>3, EmulatorAssumption DEF IsInjective
    <3>2. i \notin Idle
      BY <2>1, <2>3, <3>1
    <3> QED
      BY <3>2
  <2>6. Sync!MaySignal(<<n, 1>>)
    BY <2>4 DEF Sync!MaySignal, ServicerRight
  <2>7. ~releaseEvent \/ Sync!AllReady(readyNodes \cup {OwnName(n)})
    <3> SUFFICES ASSUME releaseEvent PROVE Sync!AllReady(readyNodes \cup {OwnName(n)})
      OBVIOUS
    <3> DEFINE r == readyNodes \cup {OwnName(n)}
    <3>1. Sync!Cardinality(readyNodes) = Cardinality(readyNodes)
          /\ Sync!Cardinality(r) = Cardinality(r)
      BY DEF Sync!Cardinality, Cardinality
    <3>2. Cardinality(readyNodes) >= Len(NodeNames)
      BY <3>1 DEF ServicerRight, Sync!AllReady
    <3>3. r \in SUBSET Node /\ readyNodes \in SUBSET r
      BY <2>4 DEF ServicerRight, OwnName
    <3>4. IsFiniteSet(r)
      BY <3>3, NodeCount, FS_Subset
    <3>5. IsFiniteSet(readyNodes) /\ Cardinality(readyNodes) <= Cardinality(r)
      BY <3>3, <3>4, FS_Subset
    <3>6. Cardinality(r) >= Len(NodeNames)
      BY <3>2, <3>4, <3>5, FS_CardinalityType, NodeCount
    <3> QED
      BY <3>1, <3>6 DEF Sync!AllReady
  <2> QED
    BY <2>4, <2>5, <2>6, <2>7 DEF CanHandshake
<1>2. CASE \A n \in Node : handler[<<n, 1>>] # "idle"
  BY <1>2 DEF ServicerRight, AllDone, CanHandshake
<1> QED
  BY <1>1, <1>2

LEMMA GeneratorGoesOn ==
  ASSUME GeneratorRight, phase # "done"
  PROVE  CanGenerate
<1>1. /\ phase \in {"sum", "shard", "done"}
      /\ position \in 1 .. Len(nodes) + 1 /\ nodes \in Seq(ShardProofs!NodeEntry)
  BY DEF GeneratorRight, ShardProofs!IInv, ShardProofs!Types
<1>2. phase = "shard" /\ position <= Len(nodes) => localCore <= nodes[position].cores
  BY DEF GeneratorRight, ShardProofs!IInv, ShardProofs!IndexRight
<1> QED
  BY <1>1, <1>2, LenProperties DEF CanGenerate

\* Until run_emulated_cluster ends, somebody can go on, or the workers block
\* each other on a full pipe or a dead lock owner: neither the generator nor
\* the handshake nor a failed spawn is another way for it to hang.
THEOREM NothingElseBlocks == Spec => []OnlyBlockedStops
<1>1. QInv /\ Progress /\ GeneratorRight /\ ServicerRight /\ ParentRight /\ JoinRight
        /\ Counted /\ OwnTypes
      => OnlyBlockedStops
  <2> SUFFICES ASSUME QInv, Progress, GeneratorRight, ServicerRight, ParentRight, JoinRight,
                      Counted, OwnTypes, pc \notin Final, ~Blocked
               PROVE  CanMove
    BY DEF OnlyBlockedStops
  <2>1. CASE pc = "shard"
    BY <2>1, GeneratorGoesOn DEF ParentRight, CanMove
  <2>2. CASE pc = "barrier"
    BY <2>2, HandshakeGoesOn DEF CanMove
  <2>3. CASE pc = "spawn"
    <3>1. spawned + 1 \in Worker /\ ~(spawned + 1 <= spawned)
      BY <2>3, QueueAssumption DEF Progress, Worker
    <3>2. status[spawned + 1] = "unborn"
      BY <3>1 DEF ParentRight
    <3> QED
      BY <2>3, <3>2 DEF CanMove
  <2>4. CASE pc = "join" /\ ~Joined(joinIndex)
    <3>1. joinIndex \in Worker /\ joinIndex <= spawned
      BY <2>4, QueueAssumption DEF JoinRight, Counted, Worker
    <3>2. status[joinIndex] \in Alive
      BY <2>4, <3>1 DEF ParentRight, Joined, QInv, QueueTypeOK, Status, Alive
    <3>3. \E w \in Worker : CanGoOn(w)
      BY <3>1, <3>2, SomebodyGoesOn DEF ParentRight
    <3> QED
      BY <3>3 DEF CanMove
  <2> QED
    BY <2>1, <2>2, <2>3, <2>4 DEF OwnTypes, CanMove, Final
<1> QED
  BY <1>1, InOrder, GeneratorKeepsItsPromise, ServicerKeepsItsPromise, ParentInOrder,
     JoinsInOrder, SummaryCounts, OwnVariablesTyped, ShardsFollowed, PTL

\* Nobody dies with the write lock before the interpreter exits: a worker that
\* raises has not reported yet.
LockSurvives ==
    pc # "ended" => \A w \in Worker : wlock = w => status[w] # "crashed"

LEMMA NextLockSurvives ==
  ASSUME MayCrash = {}, QInv, ParentRight, LockSurvives, [Next]_vars
  PROVE  LockSurvives'
<1> SUFFICES ASSUME pc' # "ended"
             PROVE  \A w \in Worker : wlock' = w => status'[w] # "crashed"
  BY DEF LockSurvives
<1>0. QueueTypeOK /\ LockRight /\ \A w \in Worker : ~Crash(w)
  BY DEF QInv, ParentRight, Crash
<1>1. pc # "ended" /\ ~InterpreterExits
  <2>1. ~InterpreterExits
    BY DEF InterpreterExits
  <2>2. pc = "ended" => pc' = "ended"
    BY WorkerAlive DEF Next, ParentStep, GenerateShards, Handshake, WallClock, GatherReturns, Spawn,
       Join, DrainOne, ReturnSummary, InterpreterExits, SpawnFails, WorkerAction,
       parentVars, vars
  <2> QED
    BY <2>1, <2>2
<1>2. \A w \in Worker : wlock = w => status[w] \in {"writing", "written"}
  BY <1>0, <1>1 DEF LockRight, LockSurvives
<1>3. ASSUME NEW w \in Worker, Boot(w) \/ Report(w)
      PROVE  \A v \in Worker : wlock' = v => status'[v] # "crashed"
  <2>1. /\ wlock' \in {wlock, w, 0} /\ status'[w] # "crashed"
        /\ status' = [status EXCEPT ![w] = status'[w]]
    BY <1>0, <1>3 DEF Boot, Report, Run, Put, FeederStep, FeederLock, FeederWrite,
       FeederRelease, LockFree, Exit, Becomes, QueueTypeOK
  <2>2. 0 \notin Worker
    BY DEF Worker
  <2> QED
    BY <1>0, <1>2, <2>1, <2>2 DEF QueueTypeOK
<1>4. ASSUME NEW w \in Worker, BootFails(w) \/ WriteRaises(w)
      PROVE  \A v \in Worker : wlock' = v => status'[v] # "crashed"
  <2>1. /\ UNCHANGED wlock /\ status[w] \in {"started", "running"}
        /\ status' = [status EXCEPT ![w] = "crashed"]
    BY <1>4 DEF BootFails, WriteRaises, Die, Becomes
  <2> QED
    BY <1>0, <1>2, <2>1 DEF QueueTypeOK
<1>5. CASE Spawn
  <2>1. UNCHANGED wlock /\ status' = [status EXCEPT ![spawned + 1] = "started"]
    BY <1>5 DEF Spawn, Start, Becomes
  <2> QED
    BY <1>0, <1>2, <2>1 DEF QueueTypeOK
<1>6. CASE \/ GenerateShards \/ Handshake \/ WallClock \/ GatherReturns \/ Join \/ DrainOne
           \/ ReturnSummary \/ SpawnFails \/ UNCHANGED vars \/ \E w \in Worker : WriteBlock(w)
  <2>1. UNCHANGED <<wlock, status>>
    BY <1>6 DEF GenerateShards, Handshake, WallClock, GatherReturns, Join, DrainOne, Take,
       ReturnSummary, SpawnFails, WriteBlock, vars, processVars
  <2> QED
    BY <1>2, <2>1
<1> QED
  BY <1>0, <1>1, <1>3, <1>4, <1>5, <1>6 DEF Next, ParentStep, WorkerStep

\* Both ways to hang have a remedy: if the pipe has room for all the results
\* and no signal kills a worker, run_emulated_cluster can always go on, whatever
\* raises in a worker or in the spawn loop.
THEOREM RoomMeansProgress ==
  ASSUME MayCrash = {}, \A c \in PipeCapacities : c >= NWorkers
  PROVE  Spec => [](pc \notin Final => ~Blocked /\ CanMove)
<1>1. Init => LockSurvives
  <2> SUFFICES ASSUME Init PROVE LockSurvives
    OBVIOUS
  <2>1. \A w \in Worker : status[w] = "unborn"
    BY DEF Init, QueueInit
  <2> QED
    BY <2>1 DEF LockSurvives
<1>2. QInv /\ ParentRight /\ LockSurvives /\ [Next]_vars => LockSurvives'
  BY NextLockSurvives
<1>3. QInv /\ LockSurvives /\ OnlyBlockedStops => (pc \notin Final => ~Blocked /\ CanMove)
  <2> SUFFICES ASSUME QInv, LockSurvives, OnlyBlockedStops, pc \notin Final, Blocked
               PROVE  FALSE
    BY DEF OnlyBlockedStops
  <2>1. ~\E w \in Worker : wlock = w /\ status[w] = "crashed"
    BY DEF LockSurvives, Final
  <2>2. PICK w \in Worker : status[w] = "writing" /\ Len(pipe) = pipeCapacity
    BY <2>1 DEF Blocked
  <2>3. Len(pipe) < NWorkers
    BY <2>2, RoomForTheRest
  <2>4. pipeCapacity >= NWorkers /\ pipeCapacity \in Nat
    BY QueueAssumption DEF QInv, QueueTypeOK
  <2> QED
    BY <2>2, <2>3, <2>4, QueueAssumption
<1> QED
  BY <1>1, <1>2, <1>3, ParentInOrder, ShardsFollowed, NothingElseBlocks, PTL DEF Spec
=============================================================================
