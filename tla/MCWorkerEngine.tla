--------------------------- MODULE MCWorkerEngine ---------------------------
(* Instances of WorkerEngine for TLC. *)
EXTENDS WorkerEngine

\* A full write that is fast, one that takes longer than the buckets reach,
\* and a short write.
FastSlowShort == {[bytes |-> 4, ns |-> 1], [bytes |-> 4, ns |-> 9], [bytes |-> 2, ns |-> 3]}
=============================================================================
