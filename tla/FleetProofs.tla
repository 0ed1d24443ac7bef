----------------------------- MODULE FleetProofs -----------------------------
(***************************************************************************)
(* Proofs about the master and its workers, for every number of workers,   *)
(* every pipe capacity, and crashes and failing spawns at any point.       *)
(***************************************************************************)
EXTENDS Fleet, ResultQueueProofs

PastSpawn == {"join", "drain", "summary", "workerCrash"}
PastJoin == {"drain", "summary", "workerCrash"}

\* How far the two loops of the master are.
MasterRight ==
    /\ masterPc = "spawn" => spawned < NWorkers /\ joinIndex = 1
    /\ masterPc \in PastSpawn => spawned = NWorkers
    /\ masterPc = "join" => joinIndex <= NWorkers
    /\ masterPc \in PastJoin => joinIndex = NWorkers + 1
    /\ masterPc \in {"summary", "workerCrash"} => pipe = <<>>

\* A process not spawned does not exist; a joined one is gone.
ProcessRight ==
    /\ \A w \in Worker : w > spawned => status[w] = "unborn"
    /\ \A w \in Worker : w < joinIndex => Joined(w)

\* A summary saw no error.
SummaryRight ==
    masterPc = "summary" =>
        \A i \in DOMAIN workerResults : ~result[workerResults[i]].error

IInv == TypeOK /\ QInv /\ MasterRight /\ ProcessRight /\ SummaryRight

-----------------------------------------------------------------------------
\* A step of the fleet is a step of its queue or leaves it alone.
LEMMA NextIsQueueNext ==
  ASSUME TypeOK, MasterRight, [Next]_vars
  PROVE  [QueueNext]_processVars
<1>1. ASSUME NEW w \in Worker, WorkerStep(w) \/ Crash(w)
      PROVE  QueueNext
  BY <1>1 DEF WorkerStep, Boot, Finish, Report, Crash, QueueNext
<1>2. CASE Spawn
  <2>1. spawned + 1 \in Worker
    BY <1>2, QueueAssumption DEF Spawn, MasterRight, TypeOK, Worker
  <2> QED
    BY <1>2, <2>1 DEF Spawn, QueueNext
<1>3. CASE SpawnFails \/ DrainOne
  BY <1>3 DEF SpawnFails, DrainOne, QueueNext
<1>4. CASE Join \/ RaiseWorkerCrash \/ ReturnSummary \/ UNCHANGED vars
  BY <1>4 DEF Join, RaiseWorkerCrash, ReturnSummary, vars
<1> QED
  BY <1>1, <1>2, <1>3, <1>4 DEF Next, MasterStep

LEMMA InitIInv == Init => IInv
<1> SUFFICES ASSUME Init PROVE IInv
  OBVIOUS
<1> USE QueueAssumption, FleetAssumption DEF Init
<1>1. QInv
  BY InitQInv
<1>2. TypeOK
  <2>1. affinity \in [Worker -> SUBSET Permitted] /\ result \in [Worker -> Result]
    BY DEF Result
  <2>2. summary.totalCores \in Nat /\ summary.isValid \in BOOLEAN
    BY DEF NoSummary
  <2> QED
    BY <1>1, <2>1, <2>2 DEF TypeOK, QInv
<1>3. MasterRight
  BY DEF MasterRight, PastSpawn, PastJoin
<1>4. ProcessRight
  BY DEF QueueInit, ProcessRight, Worker
<1>5. SummaryRight
  BY DEF SummaryRight
<1> QED
  BY <1>1, <1>2, <1>3, <1>4, <1>5 DEF IInv

LEMMA MasterStepIInv == IInv /\ (MasterStep \/ SpawnFails) => IInv'
<1> SUFFICES ASSUME IInv, MasterStep \/ SpawnFails PROVE IInv'
  OBVIOUS
<1> USE QueueAssumption, FleetAssumption
<1>0. TypeOK /\ QueueTypeOK /\ MasterRight /\ ProcessRight /\ SummaryRight
  BY DEF IInv, QInv
<1>q. QInv' /\ QueueTypeOK'
  BY NextIsQueueNext, NextQInv DEF Next, IInv, QInv
<1>1. CASE Spawn
  <2>1. spawned + 1 \in Worker /\ spawned' = spawned + 1 /\ spawned \in Nat
        /\ joinIndex = 1
    BY <1>0, <1>1 DEF Spawn, MasterRight, TypeOK, Worker
  <2>2. /\ status' = [status EXCEPT ![spawned + 1] = "started"]
        /\ UNCHANGED <<joinIndex, summary, result, affinity, pipe, workerResults>>
    BY <1>1, <2>1 DEF Spawn, Start, Becomes, ownVars
  <2>3. TypeOK'
    BY <1>0, <1>1, <1>q, <2>1, <2>2 DEF Spawn, TypeOK, Worker
  <2>4. MasterRight'
    BY <1>0, <1>1, <2>1, <2>2 DEF Spawn, TypeOK, MasterRight, PastSpawn, PastJoin
  <2>5. ProcessRight'
    BY <1>0, <2>1, <2>2 DEF QueueTypeOK, ProcessRight, Joined, Worker
  <2>6. SummaryRight'
    BY <1>1 DEF Spawn, SummaryRight
  <2> QED
    BY <1>q, <2>3, <2>4, <2>5, <2>6 DEF IInv
<1>2. CASE SpawnFails
  <2>0. /\ UNCHANGED <<spawned, joinIndex, summary, result, affinity>>
        /\ masterPc' = "raised"
        /\ status' = [w \in Worker |-> IF status[w] \in Alive THEN "crashed" ELSE status[w]]
    BY <1>2 DEF SpawnFails, TerminateAll, ownVars
  <2>1. TypeOK'
    BY <1>0, <1>q, <2>0 DEF TypeOK, Final
  <2>2. MasterRight' /\ SummaryRight'
    BY <2>0 DEF MasterRight, SummaryRight, PastSpawn, PastJoin
  <2>3. ProcessRight'
    BY <1>0, <2>0 DEF ProcessRight, Joined, Alive
  <2> QED
    BY <1>q, <2>1, <2>2, <2>3 DEF IInv
<1>3. CASE Join
  <2>0. /\ UNCHANGED <<spawned, workerResults, summary, status, result, affinity, pipe>>
        /\ masterPc = "join" /\ Joined(joinIndex) /\ joinIndex' = joinIndex + 1
        /\ masterPc' = IF joinIndex = NWorkers THEN "drain" ELSE "join"
    BY <1>3 DEF Join, NextProcess, ownVars, processVars
  <2>1. joinIndex \in Worker
    BY <1>0, <2>0 DEF MasterRight, TypeOK, Worker
  <2>2. TypeOK'
    BY <1>0, <1>q, <2>0, <2>1 DEF TypeOK, Worker
  <2>3. MasterRight'
    BY <1>0, <2>0, <2>1 DEF MasterRight, PastSpawn, PastJoin, Worker
  <2>4. ProcessRight'
    BY <1>0, <2>0, <2>1 DEF ProcessRight, Joined, Worker
  <2>5. SummaryRight'
    BY <2>0 DEF SummaryRight
  <2> QED
    BY <1>q, <2>2, <2>3, <2>4, <2>5 DEF IInv
<1>4. CASE DrainOne
  <2>0. /\ UNCHANGED <<masterPc, spawned, joinIndex, summary, status, result, affinity>>
        /\ masterPc = "drain" /\ pipe # <<>>
    BY <1>4 DEF DrainOne, Take, startVars, ownVars
  <2>1. TypeOK'
    BY <1>0, <1>q, <2>0 DEF TypeOK
  <2>2. MasterRight' /\ ProcessRight' /\ SummaryRight'
    BY <1>0, <2>0 DEF MasterRight, ProcessRight, SummaryRight, Joined, PastSpawn, PastJoin
  <2> QED
    BY <1>q, <2>1, <2>2 DEF IInv
<1>5. CASE RaiseWorkerCrash \/ ReturnSummary
  <2>0. /\ UNCHANGED <<spawned, joinIndex, workerResults, status, result, affinity, pipe>>
        /\ masterPc = "drain" /\ pipe = <<>> /\ masterPc' \in {"summary", "workerCrash"}
    BY <1>5 DEF RaiseWorkerCrash, ReturnSummary, ownVars, processVars
  <2>1. summary'.totalCores \in Nat /\ summary'.isValid \in BOOLEAN
    <3>1. CASE RaiseWorkerCrash
      <4>1. UNCHANGED summary
        BY <3>1, <1>0 DEF RaiseWorkerCrash
      <4> QED
        BY <1>0, <4>1 DEF TypeOK
    <3>2. CASE ReturnSummary
      <4> DEFINE valid == Evaluate(TotalOps, ProbeBytes(TotalOps))
      <4>1. valid \in BOOLEAN
        BY DEF Evaluate
      <4> HIDE DEF valid
      <4>2. summary'.totalCores = spawned /\ summary'.isValid = valid
        BY <3>2 DEF ReturnSummary, valid
      <4> QED
        BY <1>0, <4>1, <4>2 DEF TypeOK
    <3> QED
      BY <1>5, <3>1, <3>2
  <2>2. TypeOK'
    BY <1>0, <1>q, <2>0, <2>1 DEF TypeOK, Final
  <2>3. MasterRight' /\ ProcessRight'
    BY <1>0, <2>0 DEF MasterRight, ProcessRight, Joined, PastSpawn, PastJoin
  <2>4. SummaryRight'
    <3> SUFFICES ASSUME masterPc' = "summary", NEW i \in DOMAIN workerResults
                 PROVE  ~result[workerResults[i]].error
      BY <2>0 DEF SummaryRight
    <3>1. FailedWorkers = {}
      BY <1>5, <2>0 DEF RaiseWorkerCrash, ReturnSummary
    <3>2. workerResults[i] \in ToSet(workerResults)
      BY DEF ToSet
    <3> QED
      BY <3>1, <3>2 DEF FailedWorkers
  <2> QED
    BY <1>q, <2>2, <2>3, <2>4 DEF IInv
<1> QED
  BY <1>1, <1>2, <1>3, <1>4, <1>5 DEF MasterStep

LEMMA WorkerStepIInv ==
  ASSUME NEW w \in Worker, IInv, WorkerStep(w) \/ Crash(w)
  PROVE  IInv'
<1> USE QueueAssumption, FleetAssumption
<1>0. TypeOK /\ QueueTypeOK /\ MasterRight /\ ProcessRight /\ SummaryRight
  BY DEF IInv, QInv
<1>q. QInv' /\ QueueTypeOK'
  BY NextIsQueueNext, NextQInv DEF Next, IInv, QInv
<1>m. UNCHANGED <<masterPc, spawned, joinIndex, summary, workerResults>>
  BY DEF WorkerStep, Boot, Finish, Report, Crash, Run, Put, FeederStep, FeederLock,
         FeederWrite, FeederRelease, Exit, Die, startVars
<1>a. status[w] \in Alive /\ status' = [status EXCEPT ![w] = status'[w]]
  BY <1>0 DEF WorkerStep, Boot, Finish, Report, Crash, Run, Put, FeederStep,
     FeederLock, FeederWrite, FeederRelease, Exit, Die, Becomes, QueueTypeOK, Alive
<1>t. TypeOK'
  <2>1. result' \in [Worker -> Result] /\ affinity' \in [Worker -> SUBSET Permitted]
    BY <1>0 DEF WorkerStep, Boot, Finish, Report, Crash, PinTarget, ownVars, TypeOK
  <2> QED
    BY <1>0, <1>q, <1>m, <2>1 DEF TypeOK
<1>p. ProcessRight' /\ masterPc \notin PastJoin
  <2>1. w <= spawned /\ ~Joined(w)
    BY <1>0, <1>a DEF ProcessRight, Alive, Joined, TypeOK, Worker
  <2>2. ~(w < joinIndex)
    BY <1>0, <2>1 DEF ProcessRight
  <2>3. ProcessRight'
    BY <1>0, <1>m, <1>a, <2>1, <2>2 DEF TypeOK, QueueTypeOK, ProcessRight, Joined, Worker
  <2>4. masterPc \notin PastJoin
    BY <1>0, <2>2 DEF MasterRight, Worker
  <2> QED
    BY <2>3, <2>4
<1>s. MasterRight' /\ SummaryRight'
  BY <1>0, <1>m, <1>p DEF MasterRight, SummaryRight, PastJoin
<1> QED
  BY <1>q, <1>t, <1>p, <1>s DEF IInv

THEOREM Invariance == Spec => []IInv
<1>1. IInv /\ UNCHANGED vars => IInv'
  <2> SUFFICES ASSUME IInv, UNCHANGED vars PROVE IInv'
    OBVIOUS
  <2>1. QInv'
    BY NextIsQueueNext, NextQInv DEF IInv
  <2> QED
    BY <2>1 DEF vars, processVars, IInv, QInv, TypeOK, MasterRight, ProcessRight,
       Joined, SummaryRight
<1>2. IInv /\ [Next]_vars => IInv'
  BY <1>1, MasterStepIInv, WorkerStepIInv DEF Next
<1> QED
  BY <1>2, InitIInv, PTL DEF Spec

\* The variables of the master, the workers and the queue have their types.
THEOREM TypeCorrect == Spec => []TypeOK
  BY Invariance, PTL DEF IInv

\* When start() ends, every result of a worker that exited normally has been
\* read, and read once: joining before reading loses nothing.
THEOREM AllResultsRead == Spec => []ResultsComplete
<1>1. IInv => ResultsComplete
  <2> SUFFICES ASSUME IInv, masterPc \in {"summary", "workerCrash"},
                      NEW w \in Worker, status[w] = "exited"
               PROVE  \E i \in DOMAIN workerResults :
                         \A j \in DOMAIN workerResults : workerResults[j] = w <=> j = i
    BY DEF ResultsComplete
  <2>1. Delivered = workerResults
    BY ConcatEmptySeq DEF IInv, QInv, QueueTypeOK, MasterRight, Delivered
  <2>2. OneReport(workerResults) /\ Reports(workerResults, w)
    BY <2>1 DEF IInv, QInv, DeliveryRight, PastWrite
  <2> QED
    BY <2>2 DEF OneReport, Reports
<1> QED
  BY <1>1, Invariance, PTL

\* A summary is never returned over the error of a worker that ended its run.
THEOREM ErrorsSurface == Spec => []NoErrorSummarised
<1>1. IInv => NoErrorSummarised
  <2> SUFFICES ASSUME IInv, masterPc = "summary", NEW w \in Worker, status[w] = "exited"
               PROVE  ~result[w].error
    BY DEF NoErrorSummarised
  <2>1. Delivered = workerResults
    BY ConcatEmptySeq DEF IInv, QInv, QueueTypeOK, MasterRight, Delivered
  <2>2. Reports(workerResults, w)
    BY <2>1 DEF IInv, QInv, DeliveryRight, PastWrite
  <2> QED
    BY <2>2 DEF Reports, IInv, SummaryRight
<1> QED
  BY <1>1, Invariance, PTL

\* No result arrives once the master has started to drain the queue.
THEOREM DrainIsComplete == Spec => NoLateResult
<1>1. IInv /\ [Next]_vars => [masterPc = "drain" => Len(pipe') <= Len(pipe)]_vars
  <2> SUFFICES ASSUME IInv, Next, masterPc = "drain" PROVE Len(pipe') <= Len(pipe)
    OBVIOUS
  <2>0. Len(pipe) \in Nat
    BY LenProperties DEF IInv, QInv, QueueTypeOK
  <2>1. \A w \in Worker : status[w] \in {"exited", "crashed"}
    BY QueueAssumption DEF IInv, MasterRight, PastJoin, ProcessRight, Joined, Worker
  <2>2. CASE DrainOne
    <3>1. Len(Tail(pipe)) = Len(pipe) - 1
      BY <2>2, HeadTailProperties DEF DrainOne, Take, IInv, QInv, QueueTypeOK
    <3> QED
      BY <2>0, <2>2, <3>1 DEF DrainOne, Take, PipeRest
  <2>3. CASE ~DrainOne
    <3>1. pipe' = pipe
      BY <2>1, <2>3 DEF Next, MasterStep, Spawn, Join, RaiseWorkerCrash,
         ReturnSummary, SpawnFails, WorkerStep, Boot, Finish, Report, Crash, Start,
         Run, Put, FeederStep, FeederLock, FeederWrite, FeederRelease, Exit, Die,
         TerminateAll, processVars
    <3> QED
      BY <2>0, <3>1
  <2> QED
    BY <2>2, <2>3
<1> QED
  BY <1>1, Invariance, PTL DEF Spec, NoLateResult

\* The results reach the master as through the channel.
THEOREM ChannelRefined == Spec => ImplementsChannel
<1>1. Init => QueueInit
  BY DEF Init
<1>2. IInv /\ [Next]_vars => [QueueNext]_processVars
  BY NextIsQueueNext DEF IInv
<1> QED
  BY <1>1, <1>2, Invariance, QueueRefinement, PTL DEF Spec, QueueSpec

-----------------------------------------------------------------------------
(* The totals. *)

Operations == [w \in Worker |-> result[w].ops]

\* The summary counts the operations of the results read, each result once.
Totalled ==
    masterPc = "summary" =>
        summary.totalOps = SumFunctionOnSet(Operations, ToSet(workerResults))

\* Once every process is gone only the master moves.
LEMMA WorkersGone ==
  ASSUME IInv, masterPc \in PastJoin, NEW w \in Worker
  PROVE  Joined(w) /\ ~WorkerStep(w) /\ ~Crash(w)
<1>1. Joined(w)
  BY QueueAssumption DEF IInv, MasterRight, ProcessRight, Worker
<1> QED
  BY <1>1 DEF Joined, WorkerStep, Boot, Finish, Report, Crash, Run, Put, FeederStep,
     FeederLock, FeederWrite, FeederRelease, Exit, Die, Alive

\* Summing along the results read is summing over their workers.
LEMMA TotalOfResults ==
  ASSUME IInv, pipe = <<>>
  PROVE  TotalOps = SumFunctionOnSet(Operations, ToSet(workerResults))
<1>1. OneReport(workerResults) /\ workerResults \in Seq(Worker)
  BY ConcatEmptySeq DEF IInv, QInv, QueueTypeOK, DeliveryRight, Delivered
<1>2. \A w \in Worker : Operations[w] \in Nat
  BY FleetAssumption DEF IInv, TypeOK, Result, Operations
<1>3. \A i \in DOMAIN workerResults :
         result[workerResults[i]].ops = Operations[workerResults[i]]
  BY <1>1, LenProperties, ElementOfSeq DEF Operations
<1>4. SumFunction([i \in DOMAIN workerResults |-> Operations[workerResults[i]]])
         = SumFunctionOnSet(Operations, ToSet(workerResults))
  BY <1>1, <1>2, SumAlong
<1>5. [i \in DOMAIN workerResults |-> result[workerResults[i]].ops]
         = [i \in DOMAIN workerResults |-> Operations[workerResults[i]]]
  BY <1>3
<1> QED
  BY <1>4, <1>5 DEF TotalOps

LEMMA NextTotalled == IInv /\ Totalled /\ [Next]_vars => Totalled'
<1> SUFFICES ASSUME IInv, Totalled, [Next]_vars, masterPc' = "summary"
             PROVE  summary'.totalOps = SumFunctionOnSet(Operations', ToSet(workerResults'))
  BY DEF Totalled
<1>1. CASE ReturnSummary
  <2>1. UNCHANGED <<result, workerResults>> /\ pipe = <<>>
    BY <1>1 DEF ReturnSummary, ownVars, processVars
  <2>2. Operations' = Operations
    BY <2>1 DEF Operations
  <2>3. summary'.totalOps = TotalOps
    BY <1>1 DEF ReturnSummary
  <2> QED
    BY <2>1, <2>2, <2>3, TotalOfResults
<1>2. CASE ~ReturnSummary
  <2>1. masterPc = "summary" /\ UNCHANGED <<summary, result, workerResults>>
    <3>1. CASE MasterStep \/ SpawnFails \/ UNCHANGED vars
      BY <1>2, <3>1 DEF MasterStep, Spawn, SpawnFails, Join, DrainOne, RaiseWorkerCrash,
         startVars, vars, processVars
    <3>2. CASE \E w \in Worker : WorkerStep(w) \/ Crash(w)
      <4>1. UNCHANGED masterPc
        BY <3>2 DEF WorkerStep, Boot, Finish, Report, Crash, startVars
      <4> QED
        BY <3>2, <4>1, WorkersGone DEF PastJoin
    <3> QED
      BY <3>1, <3>2 DEF Next
  <2>2. Operations' = Operations
    BY <2>1 DEF Operations
  <2> QED
    BY <2>1, <2>2 DEF Totalled
<1> QED
  BY <1>1, <1>2

\* The totals of a summary are those of the workers that exited normally and of
\* some that crashed after their result had reached the pipe: nothing is lost
\* and nothing counted twice.
THEOREM TotalsCorrect == Spec => []TotalsRight
<1>1. Init => Totalled
  BY DEF Init, Totalled
<1>2. IInv /\ Totalled => TotalsRight
  <2> SUFFICES ASSUME IInv, Totalled, masterPc = "summary"
               PROVE  \E C \in SUBSET {w \in Worker : status[w] = "crashed"} :
                         summary.totalOps = SumFunctionOnSet(
                             [w \in Worker |-> result[w].ops],
                             C \cup {w \in Worker : status[w] = "exited"})
    BY DEF TotalsRight
  <2> DEFINE Read == ToSet(workerResults)
             C == {w \in Read : status[w] = "crashed"}
  <2>1. Read \subseteq Worker
    BY LenProperties, ElementOfSeq DEF IInv, QInv, QueueTypeOK, ToSet
  <2>2. \A w \in Worker : status[w] \in {"exited", "crashed"}
    BY WorkersGone DEF PastJoin, Joined
  <2>3. \A w \in Worker : status[w] = "exited" => w \in Read
    <3>1. Delivered = workerResults
      BY ConcatEmptySeq DEF IInv, QInv, QueueTypeOK, MasterRight, Delivered
    <3> QED
      BY <3>1 DEF IInv, QInv, DeliveryRight, PastWrite, Reports, ToSet
  <2>4. Read = C \cup {w \in Worker : status[w] = "exited"}
    BY <2>1, <2>2, <2>3
  <2>5. C \in SUBSET {w \in Worker : status[w] = "crashed"}
    BY <2>1
  <2> HIDE DEF C, Read
  <2> QED
    BY <2>4, <2>5 DEF Totalled, Operations, Read
<1> QED
  BY <1>1, <1>2, NextTotalled, Invariance, PTL DEF Spec
-----------------------------------------------------------------------------
(* Termination.  ENABLED is beyond the provers, so what the fair actions need *)
(* is written out.                                                            *)

\* The guards of MasterStep and of WorkerStep.
CanMove ==
    \/ masterPc = "spawn" /\ status[spawned + 1] = "unborn"
    \/ masterPc = "join" /\ Joined(joinIndex)
    \/ masterPc = "drain"
    \/ \E w \in Worker : CanGoOn(w)

OnlyBlockedStops == masterPc \notin Final => Blocked \/ CanMove

\* Every process spawned so far exists, and the lock is with its owner.
SpawnedRight ==
    /\ LockRight
    /\ \A w \in Worker : w <= spawned => status[w] # "unborn"

LEMMA NextSpawnedRight == IInv /\ SpawnedRight /\ [Next]_vars => SpawnedRight'
<1> SUFFICES ASSUME IInv, SpawnedRight, [Next]_vars PROVE SpawnedRight'
  OBVIOUS
<1>0. /\ TypeOK /\ QueueTypeOK /\ MasterRight /\ QInv
      /\ LockRight /\ \A w \in Worker : w <= spawned => status[w] # "unborn"
  BY DEF IInv, QInv, SpawnedRight
<1>1. LockRight'
  BY <1>0, NextIsQueueNext, NextLockRight
<1>2. ASSUME NEW w \in Worker, WorkerStep(w) \/ Crash(w)
      PROVE  \A v \in Worker : v <= spawned' => status'[v] # "unborn"
  <2>1. /\ UNCHANGED spawned /\ status' = [status EXCEPT ![w] = status'[w]]
        /\ status'[w] # "unborn"
    BY <1>0, <1>2 DEF WorkerStep, Boot, Finish, Report, Crash, Run, Put, FeederStep,
       FeederLock, FeederWrite, FeederRelease, Exit, Die, Becomes, QueueTypeOK, startVars
  <2> QED
    BY <1>0, <2>1 DEF QueueTypeOK
<1>3. CASE Spawn
  <2>1. /\ spawned + 1 \in Worker /\ spawned' = spawned + 1 /\ spawned \in Nat
        /\ status' = [status EXCEPT ![spawned + 1] = "started"]
    BY <1>0, <1>3, QueueAssumption DEF Spawn, Start, Becomes, MasterRight, TypeOK, Worker
  <2>2. \A v \in Worker : v <= spawned + 1 => v <= spawned \/ v = spawned + 1
    BY <2>1 DEF Worker
  <2>3. \A v \in Worker : v <= spawned' => status'[v] # "unborn"
    BY <1>0, <2>1, <2>2 DEF QueueTypeOK
  <2> QED
    BY <1>1, <2>3 DEF SpawnedRight
<1>4. CASE SpawnFails
  BY <1>0, <1>1, <1>4 DEF SpawnFails, TerminateAll, SpawnedRight
<1>5. CASE Join \/ DrainOne \/ RaiseWorkerCrash \/ ReturnSummary \/ UNCHANGED vars
  <2>1. UNCHANGED <<spawned, status>>
    BY <1>5 DEF Join, DrainOne, Take, RaiseWorkerCrash, ReturnSummary, vars, startVars,
       processVars
  <2> QED
    BY <1>0, <1>1, <2>1 DEF SpawnedRight
<1> QED
  BY <1>1, <1>2, <1>3, <1>4, <1>5 DEF Next, MasterStep, SpawnedRight

LEMMA SpawnedInvariance == Spec => []SpawnedRight
<1>1. Init => SpawnedRight
  <2> SUFFICES ASSUME Init PROVE SpawnedRight
    OBVIOUS
  <2>1. LockRight
    BY InitLockRight DEF Init
  <2>2. \A w \in Worker : ~(w <= spawned)
    BY DEF Init, Worker
  <2> QED
    BY <2>1, <2>2 DEF SpawnedRight
<1> QED
  BY <1>1, NextSpawnedRight, Invariance, PTL DEF Spec

\* Until start() ends, somebody can go on, or the workers block each other on
\* a full pipe or a dead lock owner: there is no third way for it to hang.
THEOREM NothingElseBlocks == Spec => []OnlyBlockedStops
<1>1. IInv /\ SpawnedRight => OnlyBlockedStops
  <2> SUFFICES ASSUME IInv, SpawnedRight, masterPc \notin Final, masterPc # "drain", ~Blocked
               PROVE  CanMove
    BY DEF OnlyBlockedStops, CanMove
  <2>1. CASE masterPc = "spawn"
    <3>1. spawned + 1 \in Worker /\ spawned + 1 > spawned
      BY <2>1, QueueAssumption DEF IInv, TypeOK, MasterRight, Worker
    <3>2. status[spawned + 1] = "unborn"
      BY <3>1 DEF IInv, ProcessRight
    <3> QED
      BY <2>1, <3>2 DEF CanMove
  <2>2. CASE masterPc = "join" /\ ~Joined(joinIndex)
    <3>1. joinIndex \in Worker /\ joinIndex <= spawned
      BY <2>2 DEF IInv, TypeOK, MasterRight, PastSpawn, Worker
    <3>2. status[joinIndex] \in Alive
      BY <2>2, <3>1 DEF SpawnedRight, Joined, IInv, QInv, QueueTypeOK, Status
    <3>3. \E w \in Worker : CanGoOn(w)
      BY <3>1, <3>2, SomebodyGoesOn DEF IInv, SpawnedRight
    <3> QED
      BY <3>3 DEF CanMove
  <2> QED
    BY <2>1, <2>2 DEF IInv, TypeOK, CanMove, Final
<1> QED
  BY <1>1, Invariance, SpawnedInvariance, PTL

\* How many steps are left at most: those of the queue, the joins, and the end.
JoinsLeft == NWorkers + 1 - joinIndex
EndLeft == IF masterPc \in Final THEN 0 ELSE 1
Rest == QueueRest + JoinsLeft + EndLeft

LEMMA JoinsInRange == \A n \in Nat : \A i \in 1 .. n + 1 : n + 1 - i \in Nat
  OBVIOUS

LEMMA JoinsLeftType ==
  ASSUME TypeOK
  PROVE  JoinsLeft \in Nat /\ EndLeft \in {0, 1}
<1>1. NWorkers \in Nat /\ joinIndex \in 1 .. NWorkers + 1
  BY QueueAssumption DEF TypeOK
<1> QED
  BY <1>1, JoinsInRange DEF JoinsLeft, EndLeft

\* One part falls and the others do not rise.
LEMMA PartsFall ==
  \A q, j, e, r, k, f \in Nat :
     r <= q /\ k <= j /\ f <= e /\ (r < q \/ k < j \/ f < e)
       => r + k + f \in Nat /\ r + k + f < q + j + e
  OBVIOUS

LEMMA OneJoinLess == \A n, i \in Int : n + 1 - (i + 1) < n + 1 - i
  OBVIOUS

\* Every step of the master or of a worker, a crash or a failing spawn included,
\* brings start() nearer to its end: it does no more than finitely many.
THEOREM StartIsFinite == Spec => [][Rest' \in Nat /\ Rest' < Rest]_vars
<1>1. IInv /\ [Next]_vars => [Rest' \in Nat /\ Rest' < Rest]_vars
  <2> SUFFICES ASSUME IInv, Next PROVE Rest' \in Nat /\ Rest' < Rest
    OBVIOUS
  <2> DEFINE NoPartRises == /\ QueueRest' <= QueueRest
                            /\ JoinsLeft' <= JoinsLeft /\ EndLeft' <= EndLeft
             OnePartFalls == \/ QueueRest' < QueueRest
                             \/ JoinsLeft' < JoinsLeft \/ EndLeft' < EndLeft
  <2> HIDE DEF NoPartRises, OnePartFalls
  <2>0. TypeOK /\ TypeOK' /\ MasterRight /\ QInv /\ QueueTypeOK
    BY MasterStepIInv, WorkerStepIInv DEF Next, IInv, QInv
  <2>1. /\ QueueRest \in Nat /\ QueueRest' \in Nat /\ QueueRest' <= QueueRest
        /\ UNCHANGED processVars \/ QueueRest' < QueueRest
    BY <2>0, NextIsQueueNext, QueueRestFalls
  <2>2. JoinsLeft \in Nat /\ EndLeft \in {0, 1}
    BY <2>0, JoinsLeftType
  <2>3. JoinsLeft' \in Nat /\ EndLeft' \in {0, 1}
    <3>1. NWorkers \in Nat /\ joinIndex' \in 1 .. NWorkers + 1
      BY <2>0, QueueAssumption DEF TypeOK
    <3> QED
      BY <3>1, JoinsInRange DEF JoinsLeft, EndLeft
  <2>4. ASSUME Join PROVE NoPartRises /\ OnePartFalls
    <3> USE DEF NoPartRises, OnePartFalls
    <3>1. /\ joinIndex' = joinIndex + 1 /\ UNCHANGED processVars
          /\ masterPc = "join" /\ masterPc' \in {"join", "drain"}
      BY <2>4 DEF Join, NextProcess
    <3>2. JoinsLeft' < JoinsLeft
      <4>1. joinIndex \in Int /\ NWorkers \in Int
        BY <2>0, QueueAssumption DEF TypeOK
      <4> QED
        BY <3>1, <4>1, OneJoinLess DEF JoinsLeft
    <3>3. EndLeft' = EndLeft
      BY <3>1 DEF EndLeft, Final
    <3> QED
      BY <2>1, <2>2, <2>3, <3>2, <3>3
  <2>5. ASSUME RaiseWorkerCrash \/ ReturnSummary \/ SpawnFails
        PROVE  NoPartRises /\ OnePartFalls
    <3> USE DEF NoPartRises, OnePartFalls
    <3>1. UNCHANGED joinIndex /\ masterPc \notin Final /\ masterPc' \in Final
      BY <2>5 DEF RaiseWorkerCrash, ReturnSummary, SpawnFails, Final
    <3>2. JoinsLeft' = JoinsLeft /\ EndLeft' = 0 /\ EndLeft = 1
      BY <3>1 DEF JoinsLeft, EndLeft
    <3> QED
      BY <2>1, <2>2, <3>2
  <2>6. ASSUME Spawn \/ DrainOne \/ \E w \in Worker : WorkerStep(w) \/ Crash(w)
        PROVE  NoPartRises /\ OnePartFalls
    <3> USE DEF NoPartRises, OnePartFalls
    <3>1. UNCHANGED joinIndex /\ (masterPc' \in Final <=> masterPc \in Final)
      BY <2>6 DEF Spawn, DrainOne, WorkerStep, Boot, Finish, Report, Crash, startVars, Final
    <3>2. ~UNCHANGED processVars
      <4>1. CASE Spawn
        <5>1. Start(spawned + 1) /\ spawned + 1 \in Worker
          BY <2>0, <4>1, QueueAssumption DEF Spawn, TypeOK, MasterRight, Worker
        <5>2. status' # status
          BY <2>0, <5>1 DEF Start, Becomes, QueueTypeOK
        <5> QED
          BY <5>2 DEF processVars
      <4>2. CASE DrainOne
        <5>1. pipe # <<>> /\ pipe' = Tail(pipe)
          BY <4>2 DEF DrainOne, Take, PipeRest
        <5>2. Len(Tail(pipe)) = Len(pipe) - 1 /\ Len(pipe) \in Nat
          BY <2>0, <5>1, HeadTailProperties, LenProperties DEF QueueTypeOK
        <5>3. Tail(pipe) # pipe
          BY <5>2
        <5> QED
          BY <5>1, <5>3 DEF processVars
      <4>3. ASSUME NEW w \in Worker, WorkerStep(w) \/ Crash(w) PROVE ~UNCHANGED processVars
        <5>1. status'[w] # status[w]
          BY <2>0, <4>3 DEF WorkerStep, Boot, Finish, Report, Crash, Run, Put, FeederStep,
             FeederLock, FeederWrite, FeederRelease, Exit, Die, Becomes, QueueTypeOK, Alive
        <5> QED
          BY <5>1 DEF processVars
      <4> QED
        BY <2>6, <4>1, <4>2, <4>3
    <3>3. JoinsLeft' = JoinsLeft /\ EndLeft' = EndLeft
      BY <3>1 DEF JoinsLeft, EndLeft
    <3> QED
      BY <2>1, <2>2, <2>3, <3>2, <3>3
  <2>7. NoPartRises /\ OnePartFalls
    BY <2>4, <2>5, <2>6 DEF Next, MasterStep
  <2>8. /\ QueueRest \in Nat /\ JoinsLeft \in Nat /\ EndLeft \in Nat
        /\ QueueRest' \in Nat /\ JoinsLeft' \in Nat /\ EndLeft' \in Nat
    BY <2>1, <2>2, <2>3
  <2>9. /\ QueueRest' + JoinsLeft' + EndLeft' \in Nat
        /\ QueueRest' + JoinsLeft' + EndLeft' < QueueRest + JoinsLeft + EndLeft
    BY <2>7, <2>8, PartsFall DEF NoPartRises, OnePartFalls
  <2> QED
    BY <2>9 DEF Rest
<1> QED
  BY <1>1, Invariance, PTL DEF Spec

-----------------------------------------------------------------------------
\* Nobody dies with the write lock, unless by the end of start().
LockSurvives ==
    masterPc # "raised" => \A w \in Worker : wlock = w => status[w] # "crashed"

LEMMA NextLockSurvives ==
  ASSUME ~CrashHoldingLock, IInv, SpawnedRight, LockSurvives, [Next]_vars
  PROVE  LockSurvives'
<1> SUFFICES ASSUME masterPc' # "raised"
             PROVE  \A w \in Worker : wlock' = w => status'[w] # "crashed"
  BY DEF LockSurvives
<1>0. QueueTypeOK /\ LockRight /\ (masterPc # "raised" => LockSurvives)
  BY DEF IInv, QInv, SpawnedRight
<1>1. masterPc # "raised" /\ ~SpawnFails
  <2>1. ~SpawnFails
    BY DEF SpawnFails
  <2>2. masterPc' = masterPc \/ masterPc # "raised"
    BY <2>1 DEF Next, MasterStep, Spawn, Join, DrainOne, RaiseWorkerCrash, ReturnSummary,
       WorkerStep, Boot, Finish, Report, Crash, startVars, vars
  <2> QED
    BY <2>1, <2>2
<1>2. \A w \in Worker : wlock = w => status[w] \in {"writing", "written"}
  BY <1>0, <1>1 DEF LockRight, LockSurvives
<1>3. ASSUME NEW w \in Worker, WorkerStep(w)
      PROVE  \A v \in Worker : wlock' = v => status'[v] # "crashed"
  <2>1. /\ wlock' \in {wlock, w, 0} /\ status'[w] # "crashed"
        /\ status' = [status EXCEPT ![w] = status'[w]]
    BY <1>0, <1>3 DEF WorkerStep, Boot, Finish, Report, Run, Put, FeederStep, FeederLock,
       FeederWrite, FeederRelease, LockFree, Exit, Becomes, QueueTypeOK
  <2>2. 0 \notin Worker
    BY DEF Worker
  <2> QED
    BY <1>0, <1>2, <2>1, <2>2 DEF QueueTypeOK
<1>4. ASSUME NEW w \in Worker, Crash(w)
      PROVE  \A v \in Worker : wlock' = v => status'[v] # "crashed"
  <2>1. /\ UNCHANGED wlock /\ status[w] \notin {"writing", "written"}
        /\ status' = [status EXCEPT ![w] = "crashed"]
    BY <1>4 DEF Crash, Die, Becomes
  <2> QED
    BY <1>0, <1>2, <2>1 DEF QueueTypeOK
<1>5. CASE Spawn
  <2>1. UNCHANGED wlock /\ status' = [status EXCEPT ![spawned + 1] = "started"]
    BY <1>5 DEF Spawn, Start, Becomes
  <2> QED
    BY <1>0, <1>2, <2>1 DEF QueueTypeOK
<1>6. CASE Join \/ DrainOne \/ RaiseWorkerCrash \/ ReturnSummary \/ UNCHANGED vars
  <2>1. UNCHANGED <<wlock, status>>
    BY <1>6 DEF Join, DrainOne, Take, RaiseWorkerCrash, ReturnSummary, vars, processVars
  <2> QED
    BY <1>2, <2>1
<1> QED
  BY <1>1, <1>3, <1>4, <1>5, <1>6 DEF Next, MasterStep

\* Both ways to hang have a remedy: if the pipe has room for all the results
\* and no worker dies while it has the lock, start() can always go on, whatever
\* else crashes.
THEOREM RoomMeansProgress ==
  ASSUME ~CrashHoldingLock, \A c \in PipeCapacities : c >= NWorkers
  PROVE  Spec => [](masterPc \notin Final => ~Blocked /\ CanMove)
<1>1. Init => LockSurvives
  <2> SUFFICES ASSUME Init PROVE LockSurvives
    OBVIOUS
  <2>1. \A w \in Worker : status[w] = "unborn"
    BY DEF Init, QueueInit
  <2> QED
    BY <2>1 DEF LockSurvives
<1>2. IInv /\ SpawnedRight /\ LockSurvives /\ [Next]_vars => LockSurvives'
  BY NextLockSurvives
<1>3. IInv /\ LockSurvives /\ OnlyBlockedStops => (masterPc \notin Final => ~Blocked /\ CanMove)
  <2> SUFFICES ASSUME IInv, LockSurvives, OnlyBlockedStops, masterPc \notin Final, Blocked
               PROVE  FALSE
    BY DEF OnlyBlockedStops
  <2>1. ~\E w \in Worker : wlock = w /\ status[w] = "crashed"
    BY DEF LockSurvives, Final
  <2>2. PICK w \in Worker : status[w] = "writing" /\ Len(pipe) = pipeCapacity
    BY <2>1 DEF Blocked
  <2>3. Len(pipe) < NWorkers
    BY <2>2, RoomForTheRest DEF IInv
  <2>4. pipeCapacity >= NWorkers /\ pipeCapacity \in Nat
    BY QueueAssumption DEF IInv, QInv, QueueTypeOK
  <2> QED
    BY <2>2, <2>3, <2>4, QueueAssumption
<1> QED
  BY <1>1, <1>2, <1>3, Invariance, SpawnedInvariance, NothingElseBlocks, PTL DEF Spec
=============================================================================
