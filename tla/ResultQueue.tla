----------------------------- MODULE ResultQueue -----------------------------
(***************************************************************************)
(* Worker processes that report through one multiprocessing.Queue to the   *)
(* parent that spawned them, as master.py and cluster_runner.py use it.    *)
(*                                                                         *)
(* put() leaves the result in the memory of the worker; a feeder thread    *)
(* takes the write lock shared by all the workers, writes the result into  *)
(* a pipe of bounded size and releases the lock; the process ends only     *)
(* when its feeder is through.  Fleet and Emulator extend this module and  *)
(* decide when the parent spawns, joins and takes.                         *)
(***************************************************************************)
EXTENDS Integers, Sequences, FiniteSets, SequencesExt, FiniteSetsExt

CONSTANTS
    NWorkers,       \* worker processes of the run
    PipeCapacities  \* the numbers of results that may fit into the pipe of the
                    \* queue: error messages differ in length

Worker == 1 .. NWorkers

ASSUME QueueAssumption == NWorkers \in Nat \ {0} /\ PipeCapacities \subseteq Nat

VARIABLES
    status,         \* the life of each worker process
    pipeCapacity,   \* the results that fit into the pipe in this run
    pipe,           \* the results in the pipe of the queue
    wlock,          \* the worker whose feeder has the write lock, 0 if none
    workerResults   \* the results the parent has taken, in order

processVars == <<status, pipeCapacity, pipe, wlock, workerResults>>

\* "put": the result is in the feeder's buffer; "writing": the feeder has the
\* lock; "written": the result is in the pipe, the lock not yet released.
Alive == {"started", "running", "put", "writing", "written", "flushed"}
Status == {"unborn", "exited", "crashed"} \cup Alive

QueueTypeOK ==
    /\ status \in [Worker -> Status]
    /\ pipeCapacity \in PipeCapacities
    /\ pipe \in Seq(Worker) /\ Len(pipe) <= pipeCapacity
    /\ wlock \in 0 .. NWorkers
    /\ workerResults \in Seq(Worker)

QueueInit ==
    /\ status = [w \in Worker |-> "unborn"]
    /\ pipeCapacity \in PipeCapacities /\ pipe = <<>> /\ wlock = 0
    /\ workerResults = <<>>

-----------------------------------------------------------------------------
Becomes(w, s) == status' = [status EXCEPT ![w] = s]

\* p.start(), the first statements of the target, and queue.put().
Start(w) == /\ status[w] = "unborn"
            /\ Becomes(w, "started")
            /\ UNCHANGED <<pipeCapacity, pipe, wlock, workerResults>>

Run(w) == /\ status[w] = "started"
          /\ Becomes(w, "running")
          /\ UNCHANGED <<pipeCapacity, pipe, wlock, workerResults>>

Put(w) == /\ status[w] = "running"
          /\ Becomes(w, "put")
          /\ UNCHANGED <<pipeCapacity, pipe, wlock, workerResults>>

FeederLock(w) ==
    /\ status[w] = "put"
    /\ wlock = 0
    /\ wlock' = w
    /\ Becomes(w, "writing")
    /\ UNCHANGED <<pipeCapacity, pipe, workerResults>>

FeederWrite(w) ==
    /\ status[w] = "writing"
    /\ Len(pipe) < pipeCapacity
    /\ pipe' = Append(pipe, w)
    /\ Becomes(w, "written")
    /\ UNCHANGED <<pipeCapacity, wlock, workerResults>>

LockKept == wlock
LockFree == 0

FeederRelease(w) ==
    /\ status[w] = "written"
    /\ wlock' = LockFree
    /\ Becomes(w, "flushed")
    /\ UNCHANGED <<pipeCapacity, pipe, workerResults>>

Exit(w) ==
    /\ status[w] = "flushed"
    /\ Becomes(w, "exited")
    /\ UNCHANGED <<pipeCapacity, pipe, wlock, workerResults>>

FeederStep(w) == FeederLock(w) \/ FeederWrite(w) \/ FeederRelease(w) \/ Exit(w)

\* The process ends otherwise than by returning: what is not in the pipe is
\* lost, a lock it had is never released.
Die(w) ==
    /\ status[w] \in Alive
    /\ Becomes(w, "crashed")
    /\ UNCHANGED <<pipeCapacity, pipe, wlock, workerResults>>

\* terminate() for every process that is left.
TerminateAll ==
    /\ status' = [w \in Worker |-> IF status[w] \in Alive THEN "crashed" ELSE status[w]]
    /\ UNCHANGED <<pipeCapacity, pipe, wlock, workerResults>>

\* p.join() returns once the process is gone.
JoinedWhenReported(w) == status[w] \in {"put", "writing", "written", "flushed", "exited", "crashed"}
Joined(w) == status[w] \in {"exited", "crashed"}

\* get_nowait() while the queue is not empty.
PipeKept == pipe
PipeRest == Tail(pipe)

Take ==
    /\ pipe # <<>>
    /\ workerResults' = Append(workerResults, Head(pipe))
    /\ pipe' = PipeRest
    /\ UNCHANGED <<status, pipeCapacity, wlock>>

QueueNext ==
    \/ \E w \in Worker : Start(w) \/ Run(w) \/ Put(w) \/ FeederStep(w) \/ Die(w)
    \/ TerminateAll
    \/ Take

QueueSpec == QueueInit /\ [][QueueNext]_processVars

-----------------------------------------------------------------------------
\* The two ways to wait for ever: a feeder that finds the pipe full, which the
\* parents read only after their joins, and a lock whose owner is dead.
Blocked ==
    \/ Len(pipe) = pipeCapacity /\ \E w \in Worker : status[w] = "writing"
    \/ \E w \in Worker : wlock = w /\ status[w] = "crashed"

InPipe(w) == \E i \in DOMAIN pipe : pipe[i] = w
Taken(w) == \E i \in DOMAIN workerResults : workerResults[i] = w

\* As a channel: a result is under way from put() until it is taken, and lost
\* if its sender died before it was in the pipe.
Channel == INSTANCE ResultChannel WITH
    Sender <- Worker,
    sent   <- {w \in Worker : status[w] \in {"put", "writing"} \/ InPipe(w)},
    lost   <- {w \in Worker : status[w] = "crashed" /\ ~InPipe(w) /\ ~Taken(w)},
    got    <- workerResults

\* The queue, its feeder threads and the order of joins and reads implement the
\* channel: no result is received twice, or before it was put, or after its
\* sender took it to its death.
ImplementsChannel == Channel!ChannelSpec
=============================================================================
