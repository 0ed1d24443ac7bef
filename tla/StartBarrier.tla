---------------------------- MODULE StartBarrier ----------------------------
(***************************************************************************)
(* What the cluster start barrier promises, independently of how           *)
(* ClusterSyncServicer keeps its promise: every party arrives once, one    *)
(* start instant is decided when the last party arrives and is never       *)
(* changed, and a party leaves only with that instant.                     *)
(***************************************************************************)
EXTENDS Naturals

CONSTANT Party          \* the node daemons that must all be ready

VARIABLES arrived,      \* the parties that have reported readiness
          start,        \* the decided start instant, 0 while undecided
          leftWith      \* the instant each party left with, 0 while it has not

bvars == <<arrived, start, leftWith>>

BInit == /\ arrived = {}
         /\ start = 0
         /\ leftWith = [p \in Party |-> 0]

\* A party that is not the last one arrives and has to wait.
Arrive(p) == /\ p \notin arrived
             /\ arrived' = arrived \cup {p}
             /\ arrived' # Party
             /\ UNCHANGED <<start, leftWith>>

\* The last party arrives, decides the instant and leaves with it.
ArriveLast(p) == /\ p \notin arrived
                 /\ arrived' = arrived \cup {p}
                 /\ arrived' = Party
                 /\ start = 0
                 /\ start' \in Nat \ {0}
                 /\ leftWith' = [leftWith EXCEPT ![p] = start']

\* A party that waited leaves with the decided instant.
Leave(p) == /\ p \in arrived
            /\ arrived = Party
            /\ leftWith[p] = 0
            /\ leftWith' = [leftWith EXCEPT ![p] = start]
            /\ UNCHANGED <<arrived, start>>

BNext == \E p \in Party : Arrive(p) \/ ArriveLast(p) \/ Leave(p)

BSpec == BInit /\ [][BNext]_bvars
=============================================================================
