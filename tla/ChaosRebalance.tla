--------------------------- MODULE ChaosRebalance ---------------------------
(***************************************************************************)
(* run_chaos_simulation (src/usecases/usecase_08_chaos_node_failure.py):   *)
(* the shards of a cluster are generated, the last nodes fail and those of *)
(* the survivors are generated, the nodes come back and the first list is  *)
(* used again.  Each generation runs ShardGenerator step by step.  The     *)
(* other callers of the generator call it once.                            *)
(***************************************************************************)
EXTENDS ShardGenerator, FiniteSetsExt

CONSTANTS
    NodeIds,        \* f"node-{i}", in order
    CoreCounts,     \* the inputs: values of cores_per_node
    Profile,        \* the core counts that alternate if heterogeneous
    FailedCounts    \* the inputs: values of failed_nodes

\* Lines 51-60, for the first n nodes.
Homogeneous(n, c) == [i \in 1 .. n |-> [id |-> NodeIds[i], cores |-> c]]
Heterogeneous(n) ==
    [i \in 1 .. n |-> [id |-> NodeIds[i], cores |-> Profile[((i - 1) % Len(Profile)) + 1]]]

InitialSpecs == UNION {{Homogeneous(n, c) : c \in CoreCounts} \cup {Heterogeneous(n)}
                          : n \in 1 .. Len(NodeIds)}

ASSUME ChaosAssumption ==
    /\ NodeIds \in Seq(STRING) /\ \A i, j \in DOMAIN NodeIds : NodeIds[i] = NodeIds[j] => i = j
    /\ Profile \in Seq(Nat) \ {<<>>}
    /\ CoreCounts \subseteq Nat /\ FailedCounts \subseteq Nat
    /\ InitialSpecs \subseteq NodeLists

VARIABLES
    stage,          \* the call of the generator that runs, or "reported"
    initialSpecs,   \* initial_node_specs
    failed,         \* failed_nodes
    initialMap,     \* initial_shards_map
    rebalancedMap,  \* rebalanced_shards_map
    healedMap,      \* healed_shards_map
    integrity       \* integrity_pass

plan == <<initialSpecs, failed>>
maps == <<initialMap, rebalancedMap, healedMap>>
chaosVars == <<vars, stage, plan, maps, integrity>>

ChaosInit ==
    /\ Init
    /\ \/ stage = "single" /\ initialSpecs = <<>> /\ failed = 0
       \/ stage = "initial" /\ initialSpecs \in InitialSpecs /\ nodes = initialSpecs
          /\ failed \in FailedCounts
    /\ initialMap = <<>> /\ rebalancedMap = <<>> /\ healedMap = <<>>
    /\ integrity = FALSE

-----------------------------------------------------------------------------
\* generate_cluster_shards is called again, with the same throughput.
Call(list) ==
    /\ nodes' = list /\ target' = target
    /\ phase' = "sum" /\ position' = 1
    /\ before' = [i \in 1 .. Len(list) + 1 |-> 0]
    /\ totalCores' = 0 /\ localCore' = 0 /\ globalCoreIndex' = 0
    /\ nodeShards' = {} /\ shards' = <<>>

\* initial_node_specs[: max(1, initial_nodes - failed_nodes)], line 64.
AllButFirst == SubSeq(initialSpecs, Len(initialSpecs) - Max({1, Len(initialSpecs) - failed}) + 1,
                      Len(initialSpecs))
SurvivingSpecs == SubSeq(initialSpecs, 1, Max({1, Len(initialSpecs) - failed}))

Generate ==
    /\ Next
    /\ UNCHANGED <<stage, plan, maps, integrity>>

Rebalance ==
    /\ stage = "initial" /\ phase = "done"
    /\ initialMap' = shards
    /\ Call(SurvivingSpecs)
    /\ stage' = "rebalance"
    /\ UNCHANGED <<plan, rebalancedMap, healedMap, integrity>>

Heal ==
    /\ stage = "rebalance" /\ phase = "done"
    /\ rebalancedMap' = shards
    /\ Call(initialSpecs)
    /\ stage' = "heal"
    /\ UNCHANGED <<plan, initialMap, healedMap, integrity>>

ShardsOf(map) == UNION {map[id] : id \in DOMAIN map}
\* The lists of two nodes have no shard in common: a shard names its node.
NumberOf(map) == Cardinality(ShardsOf(map))

\* len(set(base_offsets)) == len(shards), lines 136-139.
UniqueOffsets(map) == Cardinality({s.base : s \in ShardsOf(map)}) = NumberOf(map)

Report ==
    /\ stage = "heal" /\ phase = "done"
    /\ healedMap' = shards
    /\ integrity' = (UniqueOffsets(rebalancedMap) /\ UniqueOffsets(shards))
    /\ stage' = "reported"
    /\ UNCHANGED <<vars, plan, initialMap, rebalancedMap>>

ChaosNext == Generate \/ Rebalance \/ Heal \/ Report

ChaosSpec == ChaosInit /\ [][ChaosNext]_chaosVars

-----------------------------------------------------------------------------
\* A core that survives keeps its first block and its seed when the shards are
\* rebalanced: only the stride shrinks and the rate grows, so that nobody
\* starts where another worker wrote first (usecase_08:104-111).
SurvivorsKeepPlace ==
    stage \in {"heal", "reported"} =>
        \A s \in ShardsOf(rebalancedMap) : \E t \in ShardsOf(initialMap) :
            /\ s.node_id = t.node_id /\ s.core_id = t.core_id
            /\ s.base = t.base /\ s.seed = t.seed
            /\ s.stride <= t.stride /\ s.bps >= t.bps

\* "PASS (100% CONTIGUOUS, ZERO GAPS)" (usecase_08:141) is printed exactly if
\* the first blocks of all the shards fill the range from 0 without a gap,
\* although only their number is compared.
Contiguous(map) ==
    {s.base : s \in ShardsOf(map)} = {k * BlockSize : k \in 0 .. NumberOf(map) - 1}
IntegrityHonest ==
    stage = "reported" =>
        (integrity <=> Contiguous(rebalancedMap) /\ Contiguous(healedMap))
=============================================================================
