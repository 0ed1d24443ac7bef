--------------------------- MODULE ShardGenerator ---------------------------
(***************************************************************************)
(* DeterministicShardGenerator.generate_cluster_shards of                  *)
(* src/steve/orchestrator/cluster.py, one action per loop iteration: the   *)
(* generator expression of sum(), the inner loop over the cores of a node, *)
(* and the store into the dictionary that ends the outer loop.             *)
(*                                                                         *)
(* A list of WorkerShardSpec is kept as a set: core_id is its index.       *)
(***************************************************************************)
EXTENDS Integers, FiniteSets, Sequences

CONSTANTS
    NodeLists,      \* the inputs: sequences of [id, cores] records
    Throughputs,    \* the inputs: values of target_total_throughput_bps
    BlockSize,      \* block_size
    SeedOf(_),      \* _splitmix64(global_seed ^ i)
    Ops             \* bound: the operation numbers of a worker that are compared

NodeEntry == [id : STRING, cores : Nat]

ASSUME GeneratorAssumption ==
    /\ NodeLists \subseteq Seq(NodeEntry)
    /\ Throughputs \subseteq Nat
    /\ BlockSize \in Nat \ {0}
    /\ Ops \subseteq Nat

VARIABLES
    nodes,              \* the argument
    target,             \* target_total_throughput_bps
    phase,              \* "sum", "shard" or "done"
    position,           \* index of the node the running loop is at
    before,             \* the partial sums taken by sum(): before[i] at node i
    totalCores,         \* total_cores
    localCore,          \* local_core
    globalCoreIndex,    \* global_core_index
    nodeShards,         \* node_shards, the list under construction
    shards              \* the dictionary of finished lists

vars == <<nodes, target, phase, position, before, totalCores, localCore,
          globalCoreIndex, nodeShards, shards>>

Init ==
    /\ nodes \in NodeLists
    /\ target \in Throughputs
    /\ phase = "sum"
    /\ position = 1
    /\ before = [i \in 1 .. Len(nodes) + 1 |-> 0]
    /\ totalCores = 0
    /\ localCore = 0
    /\ globalCoreIndex = 0
    /\ nodeShards = {}
    /\ shards = <<>>

-----------------------------------------------------------------------------
\* target_total_throughput_bps // total_cores if total_cores else 0
PerCoreThroughput == IF totalCores = 0 THEN 0 ELSE target \div totalCores

\* The offsets of a shard, lines 48-49.
StrideOfNode == nodes[position].cores * BlockSize
BaseOfLocalCore == localCore * BlockSize
BaseOneBefore == (globalCoreIndex - 1) * BlockSize
Stride == totalCores * BlockSize
Base == globalCoreIndex * BlockSize

SeedOfLocalCore == SeedOf(localCore)
WorkerSeed == SeedOf(globalCoreIndex)

Spec4Core ==
    [node_id |-> nodes[position].id, core_id |-> localCore,
     seed |-> WorkerSeed, base |-> Base, stride |-> Stride,
     bps |-> PerCoreThroughput]

\* One term of sum(cores for _, cores in nodes).
SumNode ==
    /\ phase = "sum"
    /\ position <= Len(nodes)
    /\ totalCores' = totalCores + nodes[position].cores
    /\ before' = [before EXCEPT ![position + 1] = totalCores']
    /\ position' = position + 1
    /\ UNCHANGED <<nodes, target, phase, localCore, globalCoreIndex,
                   nodeShards, shards>>

StartSharding ==
    /\ phase = "sum"
    /\ position > Len(nodes)
    /\ phase' = "shard"
    /\ position' = 1
    /\ UNCHANGED <<nodes, target, before, totalCores, localCore,
                   globalCoreIndex, nodeShards, shards>>

\* One iteration of the inner loop.
AddCore ==
    /\ phase = "shard"
    /\ position <= Len(nodes)
    /\ localCore < nodes[position].cores
    /\ nodeShards' = nodeShards \cup {Spec4Core}
    /\ globalCoreIndex' = globalCoreIndex + 1
    /\ localCore' = localCore + 1
    /\ UNCHANGED <<nodes, target, phase, position, before, totalCores, shards>>

FreshNodeShards == {}       \* node_shards = [] at the next iteration

\* shards[node_id] = node_shards: an entry with the same id is replaced.
StoreNode ==
    /\ phase = "shard"
    /\ position <= Len(nodes)
    /\ localCore = nodes[position].cores
    /\ LET id == nodes[position].id
       IN  shards' = [i \in DOMAIN shards \cup {id} |->
                         IF i = id THEN nodeShards ELSE shards[i]]
    /\ nodeShards' = FreshNodeShards
    /\ localCore' = 0
    /\ position' = position + 1
    /\ UNCHANGED <<nodes, target, phase, before, totalCores, globalCoreIndex>>

Return ==
    /\ phase = "shard"
    /\ position > Len(nodes)
    /\ phase' = "done"
    /\ UNCHANGED <<nodes, target, position, before, totalCores, localCore,
                   globalCoreIndex, nodeShards, shards>>

Next == SumNode \/ StartSharding \/ AddCore \/ StoreNode \/ Return

Spec == Init /\ [][Next]_vars

-----------------------------------------------------------------------------
AllShards == (UNION {shards[i] : i \in DOMAIN shards}) \cup nodeShards

TypeOK ==
    /\ nodes \in NodeLists /\ target \in Throughputs
    /\ phase \in {"sum", "shard", "done"}
    /\ position \in 1 .. Len(nodes) + 1
    /\ before \in [1 .. Len(nodes) + 1 -> Nat]
    /\ {totalCores, localCore, globalCoreIndex} \subseteq Nat
    /\ DOMAIN shards \subseteq {nodes[i].id : i \in 1 .. Len(nodes)}
    /\ AllShards \subseteq
          [node_id : {nodes[i].id : i \in 1 .. Len(nodes)}, core_id : Nat,
           seed : {SeedOf(i) : i \in 0 .. totalCores - 1},
           base : Nat, stride : Nat, bps : Nat]

\* Operation k of a worker covers the block at this offset (worker.py:72,82).
BlockOf(s, k) == s.base + k * s.stride

\* No two workers ever touch a common byte, at whatever operation each of
\* them is ("non-overlapping payload seeds and block offsets per core worker",
\* cluster.py:18), also for node lists with repeated ids.
NoOverlap ==
    \A s, t \in AllShards : s # t =>
        \A j, k \in Ops :
            \/ BlockOf(s, j) + BlockSize <= BlockOf(t, k)
            \/ BlockOf(t, k) + BlockSize <= BlockOf(s, j)

\* No two workers fill their buffers from the same seed.
SeedsDistinct == \A s, t \in AllShards : s # t => s.seed # t.seed

UniqueIds == \A i, j \in 1 .. Len(nodes) : nodes[i].id = nodes[j].id => i = j

\* When the ids are distinct, the first operations of all the workers cover
\* the first total_cores blocks, and each further round the next ones: no gap.
\* (A repeated id replaces a list on line 63 and leaves its blocks to nobody.)
NoGap ==
    phase = "done" /\ UniqueIds =>
        \A k \in Ops : \A b \in 0 .. totalCores - 1 :
            \E s \in AllShards : BlockOf(s, k) = (k * totalCores + b) * BlockSize

\* The rates handed out never add up to more than the target.
ThroughputBounded == \A s \in AllShards : s.bps * totalCores <= target

\* With distinct ids every node gets as many shards as it has cores, numbered
\* from 0 within the node.
CoresComplete ==
    phase = "done" /\ UniqueIds =>
        \A i \in 1 .. Len(nodes) :
            {s.core_id : s \in shards[nodes[i].id]} = 0 .. nodes[i].cores - 1
=============================================================================
