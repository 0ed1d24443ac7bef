---------------------------- MODULE MCClusterSync ----------------------------
(* Instances of ClusterSync for TLC. *)
EXTENDS ClusterSync

CONSTANTS n1, n2, n3

\* Every request carries the id of its node.
OwnId(n) == n
\* n1 and n2 send requests without node_id: both are "local_node".
SharedId(n) == IF n = n2 THEN n1 ELSE n
=============================================================================
