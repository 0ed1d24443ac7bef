-------------------------- MODULE MCChaosRebalance --------------------------
(* Instance of ChaosRebalance for TLC: every list of up to three nodes,     *)
(* three ids (repetitions included), up to three cores a node (none         *)
(* included) for single calls; up to three nodes, and more failures than    *)
(* nodes, for the chaos simulation.                                         *)
EXTENDS ChaosRebalance

MCNodeIds == <<"node-0", "node-1", "node-2">>
MCCoreCounts == 0 .. 2
MCProfile == <<3, 2, 1>>
MCNodes == [id : {"node-0", "node-1", "node-2"}, cores : 0 .. 3]
MCNodeLists == UNION {[1 .. n -> MCNodes] : n \in 0 .. 2}
               \cup {<<a, b, c>> : a \in [id : {"node-0"}, cores : 1 .. 3],
                                   b \in [id : {"node-0", "node-1"}, cores : 0 .. 2],
                                   c \in [id : {"node-0", "node-2"}, cores : 1 .. 2]}
               \cup InitialSpecs
MCThroughputs == {0, 7, 12}
\* Any one-to-one map does: what matters is that distinct cores differ.
MCSeedOf(i) == 1000 - i
MCOps == 0 .. 3
=============================================================================
