------------------------- MODULE WorkerEngineProofs -------------------------
(***************************************************************************)
(* Proofs about one worker, for every queue depth, every shard, every      *)
(* latency and every pattern of failures.                                  *)
(***************************************************************************)
EXTENDS WorkerEngine, SequenceTheorems, FiniteSetTheorems, TLAPS

-----------------------------------------------------------------------------
\* The ready queue never holds more than two handles.
LEMMA TakeFromQueue ==
  ASSUME NEW a, NEW b
  PROVE  /\ Head(<<a>>) = a /\ Tail(<<a>>) = <<>> /\ Len(<<a>>) = 1
         /\ Head(<<a, b>>) = a /\ Tail(<<a, b>>) = <<b>> /\ Len(<<a, b>>) = 2
         /\ Len(<<>>) = 0
OBVIOUS

\* Two sequences of length 2 are equal if their elements are.
LEMMA PairsEqual ==
  ASSUME NEW S, NEW s \in Seq(S), NEW t \in Seq(S), Len(s) = 2, Len(t) = 2,
         s[1] = t[1], s[2] = t[2]
  PROVE  s = t
<1>1. \A i \in 1 .. 2 : i = 1 \/ i = 2
  OBVIOUS
<1>2. \A i \in 1 .. Len(s) : s[i] = t[i]
  BY <1>1
<1> QED
  BY <1>2, SeqEqual

LEMMA AddToQueue ==
  ASSUME NEW a, NEW b
  PROVE  Append(<<>>, a) = <<a>> /\ Append(<<a>>, b) = <<a, b>> /\ <<a>> \o <<b>> = <<a, b>>
<1> DEFINE S == {a, b}  none == <<>>  one == <<a>>  other == <<b>>  two == <<a, b>>
<1>1. none \in Seq(S) /\ one \in Seq(S) /\ other \in Seq(S) /\ two \in Seq(S)
  OBVIOUS
<1>2. Len(none) = 0 /\ Len(one) = 1 /\ Len(other) = 1 /\ Len(two) = 2
  OBVIOUS
<1>3. one[1] = a /\ other[1] = b /\ two[1] = a /\ two[2] = b
  OBVIOUS
<1>4. a \in S /\ b \in S
  OBVIOUS
<1> HIDE DEF S, none, one, other, two
<1>5. Append(none, a) = one
  <2>1. Append(none, a) \in Seq(S) /\ Len(Append(none, a)) = 1 /\ Append(none, a)[1] = a
    BY <1>1, <1>2, <1>4, AppendProperties
  <2>2. \A i \in 1 .. Len(one) : Append(none, a)[i] = one[i]
    BY <1>2, <1>3, <2>1
  <2> QED
    BY <1>1, <1>2, <2>1, <2>2, SeqEqual
<1>6. Append(one, b) = two
  <2>1. /\ Append(one, b) \in Seq(S) /\ Len(Append(one, b)) = Len(one) + 1
        /\ \A i \in 1 .. Len(one) : Append(one, b)[i] = one[i]
        /\ Append(one, b)[Len(one) + 1] = b
    BY <1>1, <1>4, AppendProperties
  <2>2. /\ Append(one, b) \in Seq(S) /\ Len(Append(one, b)) = 2
        /\ Append(one, b)[1] = a /\ Append(one, b)[2] = b
    BY <1>2, <1>3, <2>1
  <2> QED
    BY <1>1, <1>2, <1>3, <2>2, PairsEqual
<1>7. one \o other = two
  <2>1. /\ one \o other \in Seq(S) /\ Len(one \o other) = 2
        /\ (one \o other)[1] = a /\ (one \o other)[2] = b
    BY <1>1, <1>2, <1>3, ConcatProperties
  <2> QED
    BY <1>1, <1>2, <1>3, <2>1, PairsEqual
<1> QED
  BY <1>5, <1>6, <1>7 DEF none, one, other, two

LEMMA Multiples == \A k, q \in Nat : q > 0 => (k * q) % q = 0
OBVIOUS
LEMMA NextMultiple == \A k, q \in Nat : (k + 1) * q = k * q + q
OBVIOUS

-----------------------------------------------------------------------------
\* The k-th write goes to the k-th block, and the mask is in the buffer at
\* every other write.
Masked(k) == IF k % 2 = 1 THEN {Seed} ELSE {}

WritesRight ==
    /\ totalOps = Len(writes)
    /\ offset = BaseOffset + Len(writes) * Stride
    /\ \A k \in 1 .. Len(writes) :
          /\ writes[k].offset = BaseOffset + (k - 1) * Stride
          /\ writes[k].block = Masked(k)
    /\ pc # "returned" => block = Masked(Len(writes))

\* The life of the timer, and what it says about the clock and the loop.
TimerRight ==
    /\ elapsed => timer \in {"sleeping", "firing", "woken", "done", "cancelled"}
    /\ timer \in {"firing", "woken", "done"} => elapsed
    /\ ~elapsed => late = 0
    /\ pc # "returned" => /\ keepRunning <=> timer # "done"
                          /\ timer # "cancelled"
                          /\ timer = "none" <=> pc = "boot"
    /\ pc = "batch" => timer # "done"

\* The ready queue holds the worker while it is suspended, and the handle of
\* the timer when it has one.
QueueIs(h) == IF pc = "suspended" THEN ready \in {<<"worker", h>>, <<h, "worker">>}
                                  ELSE ready = <<h>>

QueueRight ==
    pc # "returned" =>
        /\ timer = "none" => ready = <<>>
        /\ timer = "created" =>
              ready = IF pc = "suspended" THEN <<"timer", "worker">> ELSE <<"timer">>
        /\ timer \in {"sleeping", "done"} =>
              ready = IF pc = "suspended" THEN <<"worker">> ELSE <<>>
        /\ timer = "firing" => QueueIs("sleep")
        /\ timer = "woken" => QueueIs("timer")

\* How many late writes there may be by now: a batch for every time the worker
\* has had its turn since the duration ended.
LateRight ==
    /\ late <= 3 * QueueDepth
    /\ pc # "returned" =>
        /\ timer = "sleeping" =>
              late <= IF pc = "batch" THEN inBatch
                      ELSE IF pc = "suspended" /\ round = 0 THEN QueueDepth ELSE 0
        /\ timer = "firing" =>
              late <= IF pc = "batch" THEN QueueDepth + inBatch
                      ELSE IF ready = <<"sleep", "worker">> THEN 2 * QueueDepth
                      ELSE QueueDepth
        /\ timer = "woken" =>
              late <= IF pc = "batch" THEN 2 * QueueDepth + inBatch
                      ELSE IF ready = <<"timer", "worker">> THEN 3 * QueueDepth
                      ELSE 2 * QueueDepth

\* Outside a batch the operations are a number of whole batches.
Whole(n) == \E k \in Nat : n = k * QueueDepth

BatchesRight ==
    /\ pc = "boot" => totalOps = 0
    /\ pc \in {"check", "suspended"} => Whole(totalOps)
    /\ pc = "batch" => \E k \in Nat : totalOps = k * QueueDepth + inBatch
    /\ pc # "returned" => result.kind = "none"
    /\ result.kind = "ok" => elapsed /\ Whole(result.ops)

IInv == TypeOK /\ WritesRight /\ TimerRight /\ QueueRight /\ LateRight /\ BatchesRight

LEMMA InitIInv == Init => IInv
<1> SUFFICES ASSUME Init PROVE IInv
  OBVIOUS
<1> USE WorkerAssumption DEF Init
<1>0. Len(writes) = 0 /\ writes \in Seq(Write) /\ ready \in Seq(Handle) /\ Len(ready) = 0
  OBVIOUS
<1>1. TypeOK
  <2>1. CollectorTypeOK
    BY DEF CollectorInit, CollectorTypeOK
  <2>2. offset \in Nat /\ block \subseteq {Seed} /\ inBatch \in 0 .. QueueDepth
    OBVIOUS
  <2>3. result \in Result /\ timer \in Timer
    BY DEF Result, Timer
  <2>4. round \in 0 .. Len(ready) /\ late \in Nat
    BY <1>0
  <2> QED
    BY <1>0, <2>1, <2>2, <2>3, <2>4 DEF TypeOK
<1>2. WritesRight
  <2>1. Len(writes) * Stride = 0 /\ BaseOffset + 0 = BaseOffset
    BY <1>0
  <2> QED
    BY <1>0, <2>1 DEF WritesRight, Masked, CollectorInit
<1>3. TimerRight /\ QueueRight /\ LateRight
  BY DEF TimerRight, QueueRight, LateRight
<1>4. BatchesRight
  BY DEF BatchesRight, CollectorInit
<1> QED
  BY <1>1, <1>2, <1>3, <1>4 DEF IInv

-----------------------------------------------------------------------------
LEMMA OneMore ==
  ASSUME NEW S, NEW f \in [S -> Nat], NEW x
  PROVE  [f EXCEPT ![x] = @ + 1] \in [S -> Nat]
<1>1. \A y \in S : y = x => f[x] + 1 \in Nat
  OBVIOUS
<1> QED
  BY <1>1

\* What the collector records is counted.
LEMMA RecordTypes ==
  ASSUME CollectorTypeOK, NEW ns \in Nat, NEW n \in Nat, Record(ns, n)
  PROVE  CollectorTypeOK'
<1>1. buckets' \in [Bucket -> Nat]
  <2> DEFINE b == BucketOf(ns)
  <2>1. buckets' = [buckets EXCEPT ![b] = @ + 1] /\ buckets \in [Bucket -> Nat]
    BY DEF CollectorTypeOK, Record
  <2> HIDE DEF b
  <2> QED
    BY <2>1, OneMore
<1>2. totalOps' \in Nat /\ totalBytes' \in Nat
  BY DEF CollectorTypeOK, Record
<1>3. minLatency' \in Nat \cup {-1} /\ maxLatency' \in Nat
  BY DEF CollectorTypeOK, Record
<1> QED
  BY <1>1, <1>2, <1>3 DEF CollectorTypeOK

\* A handle is taken from the front of a queue or put at its end.
LEMMA QueueTypes ==
  ASSUME NEW q \in Seq(Handle)
  PROVE  /\ Len(q) \in Nat
         /\ \A h \in Handle : /\ Append(q, h) \in Seq(Handle) /\ Len(Append(q, h)) = Len(q) + 1
                              /\ <<h>> \o q \in Seq(Handle) /\ Len(<<h>> \o q) = Len(q) + 1
         /\ Len(q) > 0 => Tail(q) \in Seq(Handle) /\ Len(Tail(q)) = Len(q) - 1
<1>1. Len(q) \in Nat /\ (Len(q) > 0 => q # <<>>)
  BY LenProperties, EmptySeq
<1>2. \A h \in Handle : Append(q, h) \in Seq(Handle) /\ Len(Append(q, h)) = Len(q) + 1
  BY AppendProperties
<1>3. \A h \in Handle : <<h>> \o q \in Seq(Handle) /\ Len(<<h>> \o q) = Len(q) + 1
  <2> TAKE h \in Handle
  <2>1. <<h>> \in Seq(Handle) /\ Len(<<h>>) = 1
    OBVIOUS
  <2> QED
    BY <2>1, <1>1, ConcatProperties
<1>4. Len(q) > 0 => Tail(q) \in Seq(Handle) /\ Len(Tail(q)) = Len(q) - 1
  BY <1>1, HeadTailProperties
<1> QED
  BY <1>1, <1>2, <1>3, <1>4

\* The steps that leave all of the input and output alone.
LoopStep == BeginRound \/ TimerStarts \/ SleepResolved \/ TimerEnds \/ ResumeWorker

LEMMA NextCases ==
  ASSUME [Next]_vars
  PROVE  \/ Boot \/ BootFails \/ StartBatch
         \/ \E c \in Completions : WriteReturns(c)
         \/ WriteFails \/ YieldControl \/ LeaveLoop
         \/ LoopStep
         \/ Elapse
         \/ UNCHANGED vars
BY DEF Next, Step, LoopStep

LEMMA TypeStep == IInv /\ [Next]_vars => TypeOK'
<1> SUFFICES ASSUME IInv, [Next]_vars PROVE TypeOK'
  OBVIOUS
<1> USE WorkerAssumption DEF loopVars, ioVars, collectorVars
<1>t. TypeOK
  BY DEF IInv
<1>q. Len(ready) \in Nat /\ ready \in Seq(Handle) /\ round \in 0 .. Len(ready)
  BY <1>t, QueueTypes DEF TypeOK
<1>h. "worker" \in Handle /\ "timer" \in Handle /\ "sleep" \in Handle
  BY DEF Handle
<1>1. CASE Boot
  <2>1. <<"timer">> \in Seq(Handle) /\ Len(<<"timer">>) = 1
    BY <1>h
  <2>2. round' = 0
    BY <1>1, <1>q, TakeFromQueue DEF Boot, IInv, TimerRight, QueueRight
  <2> QED
    BY <1>1, <1>t, <2>1, <2>2 DEF Boot, TypeOK, Timer, CollectorTypeOK
<1>2. CASE BootFails
  BY <1>2, <1>t DEF BootFails, TypeOK, CollectorTypeOK, Result
<1>3. CASE StartBatch
  BY <1>3, <1>t DEF StartBatch, TypeOK, CollectorTypeOK
<1>4. CASE \E c \in Completions : WriteReturns(c)
  <2> PICK c \in Completions : WriteReturns(c)
    BY <1>4
  <2>1. c.bytes \in Nat /\ c.ns \in Nat
    OBVIOUS
  <2>2. CollectorTypeOK'
    BY <1>t, <2>1, RecordTypes DEF WriteReturns, TypeOK
  <2>3. block' \subseteq {Seed} /\ offset' \in Nat /\ late' \in Nat /\ inBatch' \in 0 .. QueueDepth
    BY <1>t DEF WriteReturns, BatchGoesOn, Mutated, SymDiff, NextOffset, TypeOK
  <2>4. writes' \in Seq(Write)
    <3>1. [offset |-> offset, bytes |-> c.bytes, ns |-> c.ns, block |-> Mutated] \in Write
      BY <1>t, <2>1, <2>3 DEF Write, WriteReturns, TypeOK
    <3> QED
      BY <1>t, <3>1, AppendProperties DEF WriteReturns, TypeOK
  <2> QED
    BY <1>t, <2>2, <2>3, <2>4 DEF WriteReturns, TypeOK
<1>5. CASE WriteFails \/ LeaveLoop
  <2>1. /\ pc' = "returned"
        /\ UNCHANGED <<keepRunning, elapsed, ready, round, inBatch, offset, writes, late,
                       buckets, totalOps, totalBytes, minLatency, maxLatency>>
        /\ \E f \in BOOLEAN, k \in {"ok", "error"} : Return(k, f)
    BY <1>5 DEF WriteFails, LeaveLoop, ErrorKind, Return
  <2>3. result' \in Result /\ timer' \in Timer /\ flushed' \in BOOLEAN
    <3> PICK f \in BOOLEAN, k \in {"ok", "error"} : Return(k, f)
      BY <2>1
    <3>1. totalOps \in Nat /\ totalBytes \in Nat
      BY <1>t DEF TypeOK, CollectorTypeOK
    <3> QED
      BY <3>1 DEF Return, BytesWritten, Result, Timer
  <2>2. block' \subseteq {Seed}
    BY <1>5, <1>t DEF WriteFails, LeaveLoop, Mutated, SymDiff, TypeOK
  <2> QED
    BY <1>t, <2>1, <2>2, <2>3 DEF TypeOK, CollectorTypeOK
<1>6. CASE YieldControl
  <2>1. ready' \in Seq(Handle) /\ Len(ready') = Len(ready) + 1
    BY <1>6, <1>q, <1>h, QueueTypes DEF YieldControl, AfterBatch
  <2> QED
    BY <1>6, <1>t, <1>q, <2>1 DEF YieldControl, AfterBatch, TypeOK, CollectorTypeOK
<1>7. CASE LoopStep
  <2>1. ready' \in Seq(Handle) /\ round' \in 0 .. Len(ready') /\ timer' \in Timer
    <3>1. CASE BeginRound
      <4>1. ready' \in Seq(Handle) /\ Len(ready') \in Nat /\ timer' \in Timer
        BY <3>1, <1>q, <1>h, <1>t, QueueTypes DEF BeginRound, TypeOK, Timer
      <4> QED
        BY <3>1, <4>1 DEF BeginRound
    <3>2. CASE SleepResolved
      <4>1. Tail(ready) \in Seq(Handle) /\ Len(Tail(ready)) = Len(ready) - 1
        BY <3>2, <1>q, QueueTypes DEF SleepResolved, LoopRuns
      <4>2. ready' \in Seq(Handle) /\ Len(ready') = Len(ready)
        BY <3>2, <4>1, <1>q, <1>h, QueueTypes DEF SleepResolved
      <4> QED
        BY <3>2, <4>2, <1>q DEF SleepResolved, LoopRuns, Timer
    <3>3. CASE TimerStarts \/ TimerEnds \/ ResumeWorker
      <4>1. Tail(ready) \in Seq(Handle) /\ Len(Tail(ready)) = Len(ready) - 1
        BY <3>3, <1>q, QueueTypes DEF TimerStarts, TimerEnds, ResumeWorker, LoopRuns
      <4>2. ready' = Tail(ready) /\ round' = round - 1 /\ round > 0
        BY <3>3 DEF TimerStarts, TimerEnds, ResumeWorker, LoopRuns
      <4>3. timer' \in Timer
        BY <3>3, <1>t DEF TimerStarts, TimerEnds, ResumeWorker, Timer, TypeOK
      <4> QED
        BY <4>1, <4>2, <4>3, <1>q
    <3> QED
      BY <1>7, <3>1, <3>2, <3>3 DEF LoopStep
  <2>2. /\ pc' \in {pc, "check"} /\ keepRunning' \in BOOLEAN
        /\ UNCHANGED <<elapsed, inBatch, offset, block, writes, late, flushed, result,
                       buckets, totalOps, totalBytes, minLatency, maxLatency>>
    BY <1>7, <1>t DEF LoopStep, BeginRound, TimerStarts, SleepResolved, TimerEnds,
       ResumeWorker, TypeOK
  <2> QED
    BY <1>t, <2>1, <2>2 DEF TypeOK, CollectorTypeOK
<1>8. CASE Elapse
  BY <1>8, <1>t DEF Elapse, TypeOK, CollectorTypeOK
<1>9. CASE UNCHANGED vars
  BY <1>9, <1>t DEF vars, TypeOK, CollectorTypeOK
<1> QED
  BY <1>1, <1>2, <1>3, <1>4, <1>5, <1>6, <1>7, <1>8, <1>9, NextCases

-----------------------------------------------------------------------------
LEMMA EvenThenOdd == \A k \in Nat : k % 2 = 0 => (k + 1) % 2 = 1
OBVIOUS
LEMMA OddThenEven == \A k \in Nat : k % 2 = 1 => (k + 1) % 2 = 0
OBVIOUS
LEMMA EvenOrOdd == \A k \in Nat : k % 2 = 0 \/ k % 2 = 1
OBVIOUS

\* One more mask turns the buffer from masked to empty and back.
LEMMA MaskAlternates ==
  ASSUME NEW k \in Nat
  PROVE  SymDiff(Masked(k), {Seed}) = Masked(k + 1)
<1>1. (k % 2 = 0 /\ (k + 1) % 2 = 1) \/ (k % 2 = 1 /\ (k + 1) % 2 = 0)
  BY EvenThenOdd, OddThenEven, EvenOrOdd
<1>2. SymDiff({Seed}, {Seed}) = {} /\ SymDiff({}, {Seed}) = {Seed}
  BY DEF SymDiff
<1> QED
  BY <1>1, <1>2 DEF Masked

LEMMA WritesStep == IInv /\ [Next]_vars => WritesRight'
<1> SUFFICES ASSUME IInv, [Next]_vars PROVE WritesRight'
  OBVIOUS
<1> USE WorkerAssumption
<1>t. TypeOK /\ TypeOK' /\ WritesRight
  BY TypeStep DEF IInv
<1>1. CASE \E c \in Completions : WriteReturns(c)
  <2> PICK c \in Completions : WriteReturns(c)
    BY <1>1
  <2> DEFINE n == Len(writes)
             w == [offset |-> offset, bytes |-> c.bytes, ns |-> c.ns, block |-> Mutated]
  <2>1. n \in Nat /\ pc = "batch" /\ pc' = "batch"
    BY <1>t, LenProperties DEF WriteReturns, TypeOK
  <2>2. w \in Write
    <3>1. Mutated \in SUBSET {Seed}
      BY <1>t DEF Mutated, SymDiff, TypeOK
    <3>2. c.bytes \in Nat /\ c.ns \in Nat
      OBVIOUS
    <3> QED
      BY <1>t, <3>1, <3>2 DEF Write, TypeOK
  <2>3. /\ writes' = Append(writes, w)
        /\ Len(writes') = n + 1 /\ writes'[n + 1] = w
        /\ \A k \in 1 .. n : writes'[k] = writes[k]
    <3>1. writes' = Append(writes, w) /\ writes \in Seq(Write)
      BY <1>t DEF WriteReturns, TypeOK
    <3> HIDE DEF w
    <3> QED
      BY <2>2, <3>1, AppendProperties
  <2>4. block = Masked(n) /\ Mutated = Masked(n + 1)
    BY <1>t, <2>1, MaskAlternates DEF WritesRight, Mutated
  <2>5. offset = BaseOffset + n * Stride /\ n * Stride \in Nat
        /\ BaseOffset \in Nat /\ Stride \in Nat /\ (n + 1) * Stride = n * Stride + Stride
    BY <1>t, <2>1, NextMultiple DEF WritesRight
  <2>6. totalOps' = n + 1
    BY <1>t DEF WriteReturns, Record, WritesRight
  <2>7. offset' = BaseOffset + (n + 1) * Stride
    BY <2>5 DEF WriteReturns, NextOffset
  <2>8. ASSUME NEW k \in 1 .. n + 1
        PROVE  writes'[k].offset = BaseOffset + (k - 1) * Stride /\ writes'[k].block = Masked(k)
    <3>1. CASE k \in 1 .. n
      BY <1>t, <2>3, <3>1 DEF WritesRight
    <3>2. CASE k = n + 1
      <4>1. k - 1 = n
        BY <2>1, <3>2
      <4> QED
        BY <2>3, <2>4, <2>5, <3>2, <4>1
    <3> QED
      BY <2>1, <3>1, <3>2
  <2>9. block' = Masked(n + 1)
    BY <2>4 DEF WriteReturns
  <2> HIDE DEF n, w
  <2> QED
    BY <2>3, <2>6, <2>7, <2>8, <2>9 DEF WritesRight
<1>2. CASE ~(\E c \in Completions : WriteReturns(c))
  <2> DEFINE Kept == /\ UNCHANGED <<totalOps, offset, writes>>
                     /\ pc' # "returned" => pc # "returned" /\ block' = block
  <2> USE DEF loopVars, ioVars, collectorVars
  <2>1. CASE Boot \/ BootFails \/ StartBatch \/ YieldControl
    <3>1. Kept
      BY <2>1 DEF Boot, BootFails, StartBatch, YieldControl, AfterBatch
    <3> QED
      BY <3>1, <1>t DEF WritesRight
  <2>2. CASE WriteFails \/ LeaveLoop
    <3>1. Kept
      BY <2>2 DEF WriteFails, LeaveLoop, Return
    <3> QED
      BY <3>1, <1>t DEF WritesRight
  <2>3. CASE LoopStep
    <3>1. Kept
      BY <2>3 DEF LoopStep, LoopRuns, BeginRound, TimerStarts, SleepResolved, TimerEnds,
         ResumeWorker
    <3> QED
      BY <3>1, <1>t DEF WritesRight
  <2>4. CASE Elapse \/ UNCHANGED vars
    <3>1. Kept
      BY <2>4 DEF Elapse, vars
    <3> QED
      BY <3>1, <1>t DEF WritesRight
  <2> QED
    BY <1>2, <2>1, <2>2, <2>3, <2>4, NextCases
<1> QED
  BY <1>1, <1>2

-----------------------------------------------------------------------------
LEMMA TimerStep == IInv /\ [Next]_vars => TimerRight'
<1> SUFFICES ASSUME IInv, [Next]_vars PROVE TimerRight'
  OBVIOUS
<1> USE DEF IInv, TimerRight, TypeOK, Timer, loopVars, ioVars
<1>1. CASE Boot \/ BootFails \/ StartBatch
  BY <1>1 DEF Boot, BootFails, StartBatch
<1>2. CASE \E c \in Completions : WriteReturns(c)
  BY <1>2 DEF WriteReturns
<1>3. CASE WriteFails \/ LeaveLoop
  BY <1>3 DEF WriteFails, LeaveLoop, Return
<1>4. CASE YieldControl
  BY <1>4 DEF YieldControl, AfterBatch
<1>5. CASE BeginRound
  BY <1>5 DEF BeginRound
<1>6. CASE TimerStarts
  BY <1>6 DEF TimerStarts, LoopRuns
<1>7. CASE SleepResolved
  <2>1. timer = "firing"
    BY <1>7, TakeFromQueue DEF SleepResolved, LoopRuns, QueueRight, QueueIs
  <2> QED
    BY <1>7, <2>1 DEF SleepResolved, LoopRuns
<1>8. CASE TimerEnds \/ ResumeWorker
  BY <1>8 DEF TimerEnds, ResumeWorker, LoopRuns
<1>9. CASE Elapse \/ UNCHANGED vars
  BY <1>9 DEF Elapse, vars
<1> QED
  BY <1>1, <1>2, <1>3, <1>4, <1>5, <1>6, <1>7, <1>8, <1>9, NextCases DEF LoopStep

LEMMA BatchesStep == IInv /\ [Next]_vars => BatchesRight'
<1> SUFFICES ASSUME IInv, [Next]_vars PROVE BatchesRight'
  OBVIOUS
<1> USE WorkerAssumption
<1>t. TypeOK /\ BatchesRight /\ TimerRight /\ totalOps \in Nat /\ QueueDepth \in Nat
  BY DEF IInv, TypeOK, CollectorTypeOK
<1>1. CASE Boot
  <2>1. Whole(0)
    BY <1>t DEF Whole
  <2> QED
    BY <1>1, <1>t, <2>1 DEF Boot, BatchesRight, loopVars, collectorVars
<1>2. CASE BootFails
  BY <1>2, <1>t DEF BootFails, BatchesRight, TypeOK, Result
<1>3. CASE StartBatch
  <2> PICK k \in Nat : totalOps = k * QueueDepth
    BY <1>3, <1>t DEF StartBatch, BatchesRight, Whole
  <2>1. k * QueueDepth \in Nat
    BY <1>t
  <2>2. totalOps' = k * QueueDepth + inBatch'
    BY <1>3, <2>1 DEF StartBatch, collectorVars
  <2> QED
    BY <1>3, <1>t, <2>2 DEF StartBatch, BatchesRight, loopVars
<1>4. CASE \E c \in Completions : WriteReturns(c)
  <2> PICK c \in Completions : WriteReturns(c)
    BY <1>4
  <2> PICK k \in Nat : totalOps = k * QueueDepth + inBatch
    BY <1>t DEF WriteReturns, BatchesRight
  <2>1. k * QueueDepth \in Nat /\ inBatch \in Nat
    BY <1>t DEF TypeOK
  <2>2. totalOps' = k * QueueDepth + inBatch'
    BY <2>1 DEF WriteReturns, Record
  <2> QED
    BY <1>t, <2>2 DEF WriteReturns, BatchesRight, loopVars
<1>5. CASE WriteFails
  BY <1>5, <1>t DEF WriteFails, Return, ErrorKind, BatchesRight
<1>6. CASE LeaveLoop
  BY <1>6, <1>t DEF LeaveLoop, Return, BatchesRight, TimerRight
<1>7. CASE YieldControl
  <2> PICK k \in Nat : totalOps = k * QueueDepth + inBatch
    BY <1>7, <1>t DEF YieldControl, BatchesRight
  <2>1. totalOps = (k + 1) * QueueDepth
    BY <1>7, <1>t, NextMultiple DEF YieldControl
  <2>2. Whole(totalOps)
    <3>1. k + 1 \in Nat
      OBVIOUS
    <3> QED
      BY <2>1, <3>1 DEF Whole
  <2>3. pc' = "suspended" /\ totalOps' = totalOps /\ result' = result /\ elapsed' = elapsed
    BY <1>7 DEF YieldControl, AfterBatch, collectorVars
  <2>4. result.kind = "none"
    BY <1>7, <1>t DEF YieldControl, BatchesRight
  <2> QED
    BY <2>2, <2>3, <2>4 DEF BatchesRight, Whole
<1>8. CASE LoopStep
  BY <1>8, <1>t DEF LoopStep, BeginRound, TimerStarts, SleepResolved, TimerEnds,
     ResumeWorker, LoopRuns, BatchesRight, collectorVars, Whole
<1>9. CASE Elapse \/ UNCHANGED vars
  BY <1>9, <1>t DEF Elapse, vars, BatchesRight, collectorVars, Whole
<1> QED
  BY <1>1, <1>2, <1>3, <1>4, <1>5, <1>6, <1>7, <1>8, <1>9, NextCases

-----------------------------------------------------------------------------
LEMMA QueueStep == IInv /\ [Next]_vars => QueueRight'
<1> SUFFICES ASSUME IInv, [Next]_vars PROVE QueueRight'
  OBVIOUS
<1> USE DEF loopVars
<1>t. TimerRight /\ QueueRight /\ pc \in {"boot", "check", "batch", "suspended", "returned"}
      /\ timer \in Timer
  BY DEF IInv, TypeOK
<1>1. CASE Boot
  BY <1>1 DEF Boot, QueueRight
<1>2. CASE BootFails \/ WriteFails \/ LeaveLoop
  BY <1>2 DEF BootFails, WriteFails, LeaveLoop, Return, QueueRight
<1>3. CASE StartBatch \/ \E c \in Completions : WriteReturns(c)
  BY <1>3, <1>t DEF StartBatch, WriteReturns, QueueRight, QueueIs
<1>4. CASE YieldControl
  <2>1. /\ pc = "batch" /\ pc' = "suspended" /\ timer' = timer
        /\ ready' = Append(ready, "worker")
    BY <1>4 DEF YieldControl, AfterBatch
  <2>2. timer \in {"created", "sleeping", "firing", "woken"}
    BY <1>t, <2>1 DEF TimerRight, Timer
  <2> QED
    BY <1>t, <2>1, <2>2, AddToQueue DEF QueueRight, QueueIs
<1>5. CASE BeginRound
  <2>1. CASE timer = "sleeping" /\ elapsed
    <3>1. ready = <<"worker">> /\ pc = "suspended" /\ pc' = "suspended" /\ timer' = "firing"
      BY <1>5, <1>t, <2>1 DEF BeginRound, QueueRight
    <3>2. ready' \in {<<"worker", "sleep">>, <<"sleep", "worker">>}
      BY <1>5, <2>1, <3>1, AddToQueue DEF BeginRound
    <3> QED
      BY <3>1, <3>2 DEF QueueRight, QueueIs
  <2>2. CASE ~(timer = "sleeping" /\ elapsed)
    BY <1>5, <1>t, <2>2 DEF BeginRound, QueueRight, QueueIs
  <2> QED
    BY <2>1, <2>2
<1>6. CASE TimerStarts
  <2>1. ready = <<"timer", "worker">> /\ pc' = "suspended" /\ timer' = "sleeping"
    BY <1>6, <1>t DEF TimerStarts, LoopRuns, QueueRight
  <2>2. ready' = <<"worker">>
    BY <1>6, <2>1, TakeFromQueue DEF TimerStarts
  <2> QED
    BY <2>1, <2>2 DEF QueueRight
<1>7. CASE SleepResolved
  <2>1. timer = "firing" /\ pc = "suspended" /\ pc' = "suspended" /\ timer' = "woken"
    BY <1>7, <1>t, TakeFromQueue DEF SleepResolved, LoopRuns, QueueRight, QueueIs, TimerRight, Timer
  <2>2. ready = <<"sleep", "worker">>
    BY <1>7, <1>t, <2>1, TakeFromQueue DEF SleepResolved, QueueRight, QueueIs
  <2>3. ready' = <<"worker", "timer">>
    <3>1. ready' = Append(Tail(ready), "timer")
      BY <1>7 DEF SleepResolved
    <3>2. Tail(ready) = <<"worker">>
      BY <2>2, TakeFromQueue
    <3> QED
      BY <3>1, <3>2, AddToQueue
  <2> QED
    BY <2>1, <2>3 DEF QueueRight, QueueIs
<1>8. CASE TimerEnds
  <2>1. timer = "woken" /\ pc = "suspended" /\ pc' = "suspended" /\ timer' = "done"
    BY <1>8 DEF TimerEnds, LoopRuns
  <2>2. ready = <<"timer", "worker">>
    BY <1>8, <1>t, <2>1, TakeFromQueue DEF TimerEnds, QueueRight, QueueIs
  <2>3. ready' = <<"worker">>
    BY <1>8, <2>2, TakeFromQueue DEF TimerEnds
  <2> QED
    BY <2>1, <2>3 DEF QueueRight
<1>9. CASE ResumeWorker
  <2>1. pc = "suspended" /\ pc' = "check" /\ timer' = timer /\ Head(ready) = "worker"
        /\ ready' = Tail(ready)
    BY <1>9 DEF ResumeWorker, LoopRuns
  <2>2. timer \in {"sleeping", "firing", "woken", "done"}
    BY <1>t, <2>1, TakeFromQueue DEF TimerRight, QueueRight, Timer
  <2>3. CASE timer \in {"sleeping", "done"}
    BY <1>t, <2>1, <2>3, TakeFromQueue DEF QueueRight
  <2>4. CASE timer = "firing"
    <3>1. ready = <<"worker", "sleep">>
      <4>1. ready \in {<<"worker", "sleep">>, <<"sleep", "worker">>}
        BY <1>t, <2>1, <2>4 DEF QueueRight, QueueIs
      <4> QED
        BY <2>1, <4>1, TakeFromQueue
    <3>2. ready' = <<"sleep">>
      BY <2>1, <3>1, TakeFromQueue
    <3> QED
      BY <2>1, <2>4, <3>2 DEF QueueRight, QueueIs
  <2>5. CASE timer = "woken"
    <3>1. ready = <<"worker", "timer">>
      <4>1. ready \in {<<"worker", "timer">>, <<"timer", "worker">>}
        BY <1>t, <2>1, <2>5 DEF QueueRight, QueueIs
      <4> QED
        BY <2>1, <4>1, TakeFromQueue
    <3>2. ready' = <<"timer">>
      BY <2>1, <3>1, TakeFromQueue
    <3> QED
      BY <2>1, <2>5, <3>2 DEF QueueRight, QueueIs
  <2> QED
    BY <2>2, <2>3, <2>4, <2>5
<1>10. CASE Elapse \/ UNCHANGED vars
  BY <1>10, <1>t DEF Elapse, vars, QueueRight, QueueIs
<1> QED
  BY <1>1, <1>2, <1>3, <1>4, <1>5, <1>6, <1>7, <1>8, <1>9, <1>10, NextCases DEF LoopStep

-----------------------------------------------------------------------------
\* The queues a timer that fires may leave are distinct.
LEMMA QueuesDiffer ==
  ASSUME NEW h \in {"sleep", "timer"}
  PROVE  <<h>> # <<h, "worker">> /\ <<"worker", h>> # <<h, "worker">>
<1>1. Len(<<h>>) # Len(<<h, "worker">>) /\ Head(<<"worker", h>>) # Head(<<h, "worker">>)
  BY TakeFromQueue
<1> QED
  BY <1>1

LEMMA LateStep == IInv /\ [Next]_vars => LateRight'
<1> SUFFICES ASSUME IInv, [Next]_vars PROVE LateRight'
  OBVIOUS
<1> USE DEF loopVars, ioVars
<1>t. TimerRight /\ QueueRight /\ LateRight
      /\ late \in Nat /\ QueueDepth \in Nat /\ inBatch \in 0 .. QueueDepth
  BY WorkerAssumption DEF IInv, TypeOK
<1>z. ~elapsed => late = 0
  BY <1>t DEF TimerRight
<1>1. CASE Boot
  BY <1>1, <1>t DEF Boot, LateRight
<1>2. CASE BootFails \/ WriteFails \/ LeaveLoop
  BY <1>2, <1>t DEF BootFails, WriteFails, LeaveLoop, Return, LateRight
<1>3. CASE StartBatch
  <2>1. pc = "check" /\ pc' = "batch" /\ inBatch' = 0 /\ late' = late /\ timer' = timer
    BY <1>3 DEF StartBatch
  <2>2. timer = "firing" => late <= QueueDepth
    BY <1>t, <2>1, QueuesDiffer DEF LateRight, QueueRight, QueueIs
  <2>3. timer = "woken" => late <= 2 * QueueDepth
    BY <1>t, <2>1, QueuesDiffer DEF LateRight, QueueRight, QueueIs
  <2>4. timer = "sleeping" => late <= 0
    BY <1>t, <2>1 DEF LateRight
  <2>5. late <= 3 * QueueDepth
    BY <1>t DEF LateRight
  <2> QED
    BY <2>1, <2>2, <2>3, <2>4, <2>5, <1>t DEF LateRight
<1>4. CASE \E c \in Completions : WriteReturns(c)
  <2>1. /\ pc = "batch" /\ pc' = "batch" /\ inBatch' = inBatch + 1 /\ timer' = timer
        /\ inBatch < QueueDepth
        /\ late' = IF elapsed THEN late + 1 ELSE late
    BY <1>4 DEF WriteReturns, BatchGoesOn
  <2>2. timer = "sleeping" => late' <= inBatch + 1
    BY <1>t, <1>z, <2>1 DEF LateRight
  <2>3. timer = "firing" => late' <= QueueDepth + inBatch + 1
    BY <1>t, <1>z, <2>1 DEF LateRight
  <2>4. timer = "woken" => late' <= 2 * QueueDepth + inBatch + 1
    BY <1>t, <1>z, <2>1 DEF LateRight
  <2>5. elapsed => timer \in {"sleeping", "firing", "woken"}
    BY <1>t, <2>1 DEF TimerRight
  <2>6. late' <= 3 * QueueDepth
    <3>1. CASE elapsed
      BY <1>t, <2>1, <2>2, <2>3, <2>4, <2>5, <3>1
    <3>2. CASE ~elapsed
      BY <1>t, <1>z, <2>1, <3>2
    <3> QED
      BY <3>1, <3>2
  <2> QED
    BY <1>t, <2>1, <2>2, <2>3, <2>4, <2>6 DEF LateRight
<1>5. CASE YieldControl
  <2>1. /\ pc = "batch" /\ pc' = "suspended" /\ inBatch = QueueDepth
        /\ late' = late /\ timer' = timer /\ round' = round
        /\ ready' = Append(ready, "worker")
    BY <1>5 DEF YieldControl, AfterBatch
  <2>2. timer = "sleeping" => late <= QueueDepth /\ round = 0
    <3>1. timer = "sleeping" => ready = <<>>
      BY <1>t, <2>1 DEF QueueRight
    <3>2. round \in 0 .. Len(ready) /\ Len(<<>>) = 0
      BY TakeFromQueue DEF IInv, TypeOK
    <3> QED
      BY <1>t, <2>1, <3>1, <3>2 DEF LateRight
  <2>3. timer = "firing" => late <= 2 * QueueDepth /\ ready' = <<"sleep", "worker">>
    <3>1. timer = "firing" => ready = <<"sleep">>
      BY <1>t, <2>1 DEF QueueRight, QueueIs
    <3>2. timer = "firing" => late <= QueueDepth + inBatch
      BY <1>t, <2>1 DEF LateRight
    <3>3. Append(<<"sleep">>, "worker") = <<"sleep", "worker">>
      BY AddToQueue
    <3>4. timer = "firing" => ready' = <<"sleep", "worker">>
      BY <2>1, <3>1, <3>3
    <3> QED
      BY <1>t, <2>1, <3>2, <3>4
  <2>4. timer = "woken" => late <= 3 * QueueDepth /\ ready' = <<"timer", "worker">>
    <3>1. timer = "woken" => ready = <<"timer">>
      BY <1>t, <2>1 DEF QueueRight, QueueIs
    <3>2. timer = "woken" => late <= 2 * QueueDepth + inBatch
      BY <1>t, <2>1 DEF LateRight
    <3>3. Append(<<"timer">>, "worker") = <<"timer", "worker">>
      BY AddToQueue
    <3>4. timer = "woken" => ready' = <<"timer", "worker">>
      BY <2>1, <3>1, <3>3
    <3> QED
      BY <1>t, <2>1, <3>2, <3>4
  <2>5. late <= 3 * QueueDepth
    BY <1>t DEF LateRight
  <2> QED
    BY <1>t, <2>1, <2>2, <2>3, <2>4, <2>5 DEF LateRight
<1>6. CASE BeginRound
  <2>1. pc = "suspended" /\ pc' = "suspended" /\ late' = late /\ inBatch' = inBatch /\ round = 0
    BY <1>6 DEF BeginRound
  <2>2. CASE timer = "sleeping" /\ elapsed
    BY <1>6, <1>t, <2>1, <2>2 DEF BeginRound, LateRight
  <2>3. CASE ~(timer = "sleeping" /\ elapsed)
    <3>1. timer' = timer /\ ready' = ready
      BY <1>6, <2>3 DEF BeginRound
    <3>2. timer = "sleeping" => late = 0
      BY <1>z, <2>3
    <3> QED
      BY <1>t, <2>1, <3>1, <3>2 DEF LateRight
  <2> QED
    BY <2>2, <2>3
<1>7. CASE TimerStarts
  <2>1. late' = 0 /\ timer' = "sleeping" /\ inBatch' = inBatch
    BY <1>7, <1>t DEF TimerStarts, TimerRight
  <2> QED
    BY <1>t, <2>1 DEF LateRight
<1>8. CASE SleepResolved
  <2>1. timer = "firing" /\ pc = "suspended" /\ pc' = "suspended" /\ timer' = "woken"
        /\ late' = late
    BY <1>8, <1>t, TakeFromQueue
       DEF SleepResolved, LoopRuns, QueueRight, QueueIs, TimerRight, TypeOK, IInv, Timer
  <2>2. late <= 2 * QueueDepth
    BY <1>t, <2>1 DEF LateRight
  <2> QED
    BY <1>t, <2>1, <2>2 DEF LateRight
<1>9. CASE TimerEnds
  BY <1>9, <1>t DEF TimerEnds, LateRight
<1>10. CASE ResumeWorker
  <2>1. /\ pc = "suspended" /\ pc' = "check" /\ timer' = timer /\ late' = late /\ round > 0
        /\ Head(ready) = "worker"
    BY <1>10 DEF ResumeWorker, LoopRuns
  <2>2. timer = "sleeping" => late <= 0
    <3>1. round \in Nat
      BY QueueTypes DEF IInv, TypeOK
    <3> QED
      BY <1>t, <2>1, <3>1 DEF LateRight
  <2>3. timer = "firing" => late <= QueueDepth
    <3>1. ready # <<"sleep", "worker">>
      BY <2>1, TakeFromQueue
    <3> QED
      BY <1>t, <2>1, <3>1 DEF LateRight
  <2>4. timer = "woken" => late <= 2 * QueueDepth
    <3>1. ready # <<"timer", "worker">>
      BY <2>1, TakeFromQueue
    <3> QED
      BY <1>t, <2>1, <3>1 DEF LateRight
  <2>5. late <= 3 * QueueDepth
    BY <1>t DEF LateRight
  <2> QED
    BY <1>t, <2>1, <2>2, <2>3, <2>4, <2>5 DEF LateRight
<1>11. CASE Elapse
  <2>1. late' = 0 /\ timer' = "sleeping" /\ inBatch' = inBatch
    BY <1>11, <1>z DEF Elapse
  <2> QED
    BY <1>t, <2>1 DEF LateRight
<1>12. CASE UNCHANGED vars
  BY <1>12, <1>t DEF vars, LateRight
<1> QED
  BY <1>1, <1>2, <1>3, <1>4, <1>5, <1>6, <1>7, <1>8, <1>9, <1>10, <1>11, <1>12, NextCases
     DEF LoopStep

-----------------------------------------------------------------------------
LEMMA StepIInv == IInv /\ [Next]_vars => IInv'
BY TypeStep, WritesStep, TimerStep, QueueStep, LateStep, BatchesStep DEF IInv

LEMMA Invariance == Spec => []IInv
BY InitIInv, StepIInv, PTL DEF Spec

\* The state of the worker, its event loop and its collector are well typed.
THEOREM TypeCorrect == Spec => []TypeOK
<1>1. IInv => TypeOK
  BY DEF IInv
<1> QED
  BY <1>1, Invariance, PTL

\* The hot loop covers the blocks of the worker's shard in order, however the
\* writes are cut into batches, fall short or fail.
THEOREM ShardFollowed == Spec => []WritesFollowShard
<1>1. IInv => WritesFollowShard
  <2> SUFFICES ASSUME IInv PROVE WritesFollowShard
    OBVIOUS
  <2>1. DOMAIN writes = 1 .. Len(writes)
    BY LenProperties DEF IInv, TypeOK
  <2> QED
    BY <2>1 DEF IInv, WritesRight, WritesFollowShard
<1> QED
  BY <1>1, Invariance, PTL

\* A worker runs over its duration by at most three batches of writes.
THEOREM OverrunAtMostThreeBatches == Spec => []OverrunBounded
<1>1. IInv => OverrunBounded
  BY DEF IInv, LateRight, OverrunBounded
<1> QED
  BY <1>1, Invariance, PTL

\* A worker that reports no error has run for its duration, in whole batches.
THEOREM RunsFullDuration == Spec => []FullDuration
<1>1. IInv => FullDuration
  <2> SUFFICES ASSUME IInv, result.kind = "ok"
               PROVE  elapsed /\ result.ops % QueueDepth = 0
    BY DEF FullDuration
  <2>1. elapsed /\ Whole(result.ops)
    BY DEF IInv, BatchesRight
  <2> PICK k \in Nat : result.ops = k * QueueDepth
    BY <2>1 DEF Whole
  <2>2. QueueDepth \in Nat /\ QueueDepth > 0
    BY WorkerAssumption
  <2> QED
    BY <2>1, <2>2, Multiples
<1> QED
  BY <1>1, Invariance, PTL

\* Whatever the seed, every second write of a worker carries the empty buffer,
\* and the others carry the mask: apply_entropy undoes itself.
EverySecondEmpty ==
    \A k \in DOMAIN writes : writes[k].block = IF k % 2 = 1 THEN {Seed} ELSE {}

THEOREM MaskUndoesItself == Spec => []EverySecondEmpty
<1>1. IInv => EverySecondEmpty
  <2> SUFFICES ASSUME IInv PROVE EverySecondEmpty
    OBVIOUS
  <2>1. DOMAIN writes = 1 .. Len(writes)
    BY LenProperties DEF IInv, TypeOK
  <2> QED
    BY <2>1 DEF IInv, WritesRight, EverySecondEmpty, Masked
<1> QED
  BY <1>1, Invariance, PTL
-----------------------------------------------------------------------------
(* Induction and sums, as proved beside the result queue.  Those lemmas say *)
(* nothing of a queue: any values for its parameters will do.               *)
Sums == INSTANCE ResultQueueProofs WITH
    NWorkers <- 1, PipeCapacities <- {}, status <- <<"unborn">>, pipeCapacity <- 0,
    pipe <- <<>>, wlock <- 0, workerResults <- <<>>

LEMMA AnyQueue == Sums!QueueAssumption
BY DEF Sums!QueueAssumption

LEMMA SameSum == \A f, S : Sums!SumFunctionOnSet(f, S) = SumFunctionOnSet(f, S)
BY DEF SumFunctionOnSet, FoldFunctionOnSet, MapThenFoldSet,
   Sums!SumFunctionOnSet, Sums!FoldFunctionOnSet, Sums!MapThenFoldSet

LEMMA SameFinite == \A S : Sums!IsFiniteSet(S) <=> IsFiniteSet(S)
BY DEF Sums!IsFiniteSet, IsFiniteSet

LEMMA SetInduction ==
  ASSUME NEW T \in SUBSET Nat, 0 \in T, \A n \in T : n + 1 \in T
  PROVE  T = Nat
BY AnyQueue, Sums!SetInduction

LEMMA Least ==
  ASSUME NEW U \in SUBSET Nat, U # {}
  PROVE  \E x \in U : \A y \in U : x <= y
BY AnyQueue, Sums!Least

LEMMA SumZero ==
  ASSUME NEW f, NEW S, IsFiniteSet(S), \A x \in S : f[x] = 0
  PROVE  SumFunctionOnSet(f, S) = 0
BY AnyQueue, SameSum, SameFinite, Sums!SumZero

LEMMA SumSame ==
  ASSUME NEW f, NEW g, NEW S, IsFiniteSet(S), \A x \in S : f[x] = g[x]
  PROVE  SumFunctionOnSet(f, S) = SumFunctionOnSet(g, S)
BY AnyQueue, SameSum, SameFinite, Sums!SumSame

LEMMA SumAdd ==
  ASSUME NEW f, NEW S, IsFiniteSet(S), NEW x, x \notin S, \A y \in S \cup {x} : f[y] \in Nat
  PROVE  SumFunctionOnSet(f, S \cup {x}) = SumFunctionOnSet(f, S) + f[x]
BY AnyQueue, SameSum, SameFinite, Sums!SumAdd

LEMMA SumBump ==
  ASSUME NEW f, NEW g, NEW x, NEW I, IsFiniteSet(I),
         \A y \in I : f[y] \in Nat /\ g[y] = IF y = x THEN f[y] + 1 ELSE f[y]
  PROVE  /\ x \in I => SumFunctionOnSet(g, I) = SumFunctionOnSet(f, I) + 1
         /\ x \notin I => SumFunctionOnSet(g, I) = SumFunctionOnSet(f, I)
BY AnyQueue, SameSum, SameFinite, Sums!SumBump

-----------------------------------------------------------------------------
(* The powers of two, and the bit length.  The recursion of Pow2 is shown    *)
(* to be well-defined first.                                                 *)
Double(g, k) == IF k = 0 THEN 1 ELSE 2 * g[k - 1]
Upto(n) == CHOOSE g : g = [k \in 0 .. n |-> Double(g, k)]

\* The powers up to n are well-defined,
LEMMA UptoExists == \A n \in Nat : Upto(n) = [k \in 0 .. n |-> Double(Upto(n), k)]
<1> DEFINE T == {n \in Nat : \E g : g = [k \in 0 .. n |-> Double(g, k)]}
<1>1. 0 \in T
  <2> DEFINE g == [k \in 0 .. 0 |-> 1]
  <2>1. g = [k \in 0 .. 0 |-> Double(g, k)]
    BY DEF Double
  <2> QED
    BY <2>1
<1>2. ASSUME NEW n \in T PROVE n + 1 \in T
  <2>1. n \in Nat
    OBVIOUS
  <2>2. PICK g : g = [k \in 0 .. n |-> Double(g, k)]
    OBVIOUS
  <2> DEFINE h == [k \in 0 .. n + 1 |-> Double(g, k)]
  <2>3. \A k \in 0 .. n : g[k] = Double(g, k)
    BY <2>2, Zenon
  <2>4. \A k \in 0 .. n + 1 : k # 0 => k - 1 \in 0 .. n /\ k - 1 \in 0 .. n + 1
    BY <2>1
  <2>5. \A k \in 0 .. n : k \in 0 .. n + 1
    BY <2>1
  <2>6. \A k \in 0 .. n + 1 : Double(g, k) = Double(h, k)
    BY <2>3, <2>4, <2>5 DEF Double
  <2>7. h = [k \in 0 .. n + 1 |-> Double(h, k)]
    BY <2>6
  <2>8. \E f : f = [k \in 0 .. n + 1 |-> Double(f, k)]
    BY <2>7
  <2> HIDE DEF h
  <2> QED
    BY <2>1, <2>8
<1>3. T = Nat
  <2> HIDE DEF T
  <2>1. T \subseteq Nat
    BY DEF T
  <2> QED
    BY <1>1, <1>2, <2>1, SetInduction
<1> SUFFICES ASSUME NEW n \in Nat PROVE Upto(n) = [k \in 0 .. n |-> Double(Upto(n), k)]
  OBVIOUS
<1>4. \E g : g = [k \in 0 .. n |-> Double(g, k)]
  BY <1>3
<1> QED
  BY <1>4, Zenon DEF Upto

LEMMA UptoStep ==
  ASSUME NEW n \in Nat, NEW k \in 0 .. n
  PROVE  Upto(n)[k] = Double(Upto(n), k)
<1> DEFINE g == Upto(n)
<1>1. g = [j \in 0 .. n |-> Double(g, j)]
  BY UptoExists
<1> HIDE DEF g
<1>2. g[k] = Double(g, k)
  BY <1>1, Zenon
<1> QED
  BY <1>2 DEF g

\* and they do not depend on how far one goes.
LEMMA UptoSame ==
  ASSUME NEW n \in Nat, NEW m \in Nat
  PROVE  \A k \in Nat : k <= n /\ k <= m => Upto(n)[k] = Upto(m)[k]
<1> DEFINE T == {k \in Nat : k <= n /\ k <= m => Upto(n)[k] = Upto(m)[k]}
<1>1. 0 \in T
  BY UptoStep DEF Double
<1>2. ASSUME NEW k \in T PROVE k + 1 \in T
  <2> SUFFICES ASSUME k + 1 <= n, k + 1 <= m PROVE Upto(n)[k + 1] = Upto(m)[k + 1]
    OBVIOUS
  <2>1. /\ k + 1 \in 0 .. n /\ k + 1 \in 0 .. m /\ k + 1 # 0 /\ k + 1 - 1 = k
        /\ k <= n /\ k <= m
    OBVIOUS
  <2>2. Upto(n)[k] = Upto(m)[k]
    BY <2>1
  <2>3. Upto(n)[k + 1] = 2 * Upto(n)[k] /\ Upto(m)[k + 1] = 2 * Upto(m)[k]
    BY <2>1, UptoStep DEF Double
  <2> QED
    BY <2>2, <2>3
<1>3. T = Nat
  <2> HIDE DEF T
  <2>1. T \subseteq Nat
    BY DEF T
  <2> QED
    BY <1>1, <1>2, <2>1, SetInduction
<1> QED
  BY <1>3

LEMMA Pow2Step == Pow2[0] = 1 /\ \A k \in Nat : Pow2[k + 1] = 2 * Pow2[k]
<1> DEFINE h == [k \in Nat |-> Upto(k)[k]]
<1>1. \A k \in Nat : h[k] = Double(h, k)
  <2> SUFFICES ASSUME NEW k \in Nat PROVE h[k] = Double(h, k)
    OBVIOUS
  <2>1. Upto(k)[k] = Double(Upto(k), k)
    BY UptoStep
  <2>2. k # 0 => k - 1 \in Nat /\ Upto(k)[k - 1] = Upto(k - 1)[k - 1]
    BY UptoSame
  <2> QED
    BY <2>1, <2>2 DEF Double
<1>2. h = [k \in Nat |-> Double(h, k)]
  BY <1>1
<1>3. \E g : g = [k \in Nat |-> IF k = 0 THEN 1 ELSE 2 * g[k - 1]]
  BY <1>2 DEF Double
<1>4. Pow2 = [k \in Nat |-> IF k = 0 THEN 1 ELSE 2 * Pow2[k - 1]]
  BY <1>3, Zenon DEF Pow2
<1>5. \A k \in Nat : Pow2[k] = IF k = 0 THEN 1 ELSE 2 * Pow2[k - 1]
  BY <1>4, Zenon
<1>6. \A k \in Nat : k + 1 \in Nat /\ k + 1 # 0 /\ k + 1 - 1 = k
  OBVIOUS
<1>7. ASSUME NEW k \in Nat PROVE Pow2[k + 1] = 2 * Pow2[k]
  <2>1. Pow2[k + 1] = IF k + 1 = 0 THEN 1 ELSE 2 * Pow2[k + 1 - 1]
    BY <1>5, <1>6
  <2> QED
    BY <1>6, <2>1
<1> QED
  BY <1>5, <1>7

LEMMA Pow2Type == \A k \in Nat : Pow2[k] \in Nat /\ Pow2[k] > k
<1> DEFINE T == {k \in Nat : Pow2[k] \in Nat /\ Pow2[k] > k}
<1>1. 0 \in T
  BY Pow2Step
<1>2. ASSUME NEW k \in T PROVE k + 1 \in T
  <2> DEFINE a == Pow2[k]  b == Pow2[k + 1]
  <2>1. b = 2 * a /\ a \in Nat /\ a > k /\ k \in Nat
    BY Pow2Step
  <2> HIDE DEF a, b
  <2>2. b \in Nat /\ b > k + 1
    BY <2>1
  <2> QED
    BY <2>1, <2>2 DEF b
<1>3. T = Nat
  <2> HIDE DEF T
  <2>1. T \subseteq Nat
    BY DEF T
  <2> QED
    BY <1>1, <1>2, <2>1, SetInduction
<1> QED
  BY <1>3

LEMMA Pow2Grows == \A j, k \in Nat : j <= k => Pow2[j] <= Pow2[k]
<1> SUFFICES ASSUME NEW j \in Nat PROVE \A k \in Nat : j <= k => Pow2[j] <= Pow2[k]
  OBVIOUS
<1> DEFINE T == {k \in Nat : j <= k => Pow2[j] <= Pow2[k]}
<1>1. 0 \in T
  BY Pow2Type
<1>2. ASSUME NEW k \in T PROVE k + 1 \in T
  <2>1. Pow2[k + 1] = 2 * Pow2[k] /\ Pow2[k] \in Nat /\ Pow2[j] \in Nat /\ Pow2[k + 1] \in Nat
    BY Pow2Step, Pow2Type
  <2>2. CASE j <= k
    BY <2>1, <2>2
  <2>3. CASE j = k + 1
    BY <2>1, <2>3
  <2>4. CASE j > k + 1
    BY <2>4
  <2> QED
    BY <2>2, <2>3, <2>4
<1>3. T = Nat
  <2> HIDE DEF T
  <2>1. T \subseteq Nat
    BY DEF T
  <2> QED
    BY <1>1, <1>2, <2>1, SetInduction
<1> QED
  BY <1>3

LEMMA BitLengthIs ==
  ASSUME NEW n \in Nat
  PROVE  /\ BitLength(n) \in Nat
         /\ n < Pow2[BitLength(n)]
         /\ \A j \in Nat : j < BitLength(n) => Pow2[j] <= n
<1> DEFINE U == {k \in Nat : n < Pow2[k]}
<1>1. n \in U
  BY Pow2Type
<1>2. PICK k \in U : \A j \in U : k <= j
  <2> HIDE DEF U
  <2>1. U \subseteq Nat
    BY DEF U
  <2> QED
    BY <1>1, <2>1, Least
<1>3. k \in 0 .. n /\ n < Pow2[k] /\ \A j \in 0 .. k - 1 : n >= Pow2[j]
  <2>1. k <= n /\ k \in Nat
    BY <1>1, <1>2
  <2>2. ASSUME NEW j \in 0 .. k - 1 PROVE n >= Pow2[j]
    <3>1. j \in Nat /\ ~(k <= j)
      BY <2>1
    <3>2. ~(n < Pow2[j])
      BY <1>2, <3>1
    <3> QED
      BY <3>1, <3>2, Pow2Type
  <2> QED
    BY <2>1, <2>2
<1>4. \E l \in 0 .. n : n < Pow2[l] /\ \A j \in 0 .. l - 1 : n >= Pow2[j]
  BY <1>3
<1> DEFINE b == BitLength(n)
<1>5. b \in 0 .. n /\ n < Pow2[b] /\ \A j \in 0 .. b - 1 : n >= Pow2[j]
  BY <1>4 DEF BitLength
<1> HIDE DEF b
<1>6. \A j \in Nat : j < b => j \in 0 .. b - 1 /\ Pow2[j] \in Nat
  BY <1>5, Pow2Type
<1>7. b \in Nat /\ n < Pow2[b] /\ \A j \in Nat : j < b => Pow2[j] <= n
  BY <1>5, <1>6
<1> QED
  BY <1>7 DEF b

\* Every latency has a bucket.
LEMMA BucketExists == \A ns \in Nat : BucketOf(ns) \in Bucket
BY BitLengthIs, CollectorAssumption DEF BucketOf, Bucket

-----------------------------------------------------------------------------
(* What the collector knows of the writes. *)

Bytes == [k \in DOMAIN writes |-> writes[k].bytes]

\* The writes whose latency is counted in one of the first buckets.
UpToBucket(b) == {k \in DOMAIN writes : BucketOf(writes[k].ns) <= b}

Accounted ==
    /\ totalBytes = SumFunctionOnSet(Bytes, DOMAIN writes)
    /\ \A b \in Bucket : /\ IsFiniteSet(UpToBucket(b))
                         /\ Accumulated(b) = Cardinality(UpToBucket(b))
    /\ IF writes = <<>>
       THEN minLatency = -1 /\ maxLatency = 0
       ELSE {minLatency, maxLatency} \subseteq {writes[k].ns : k \in DOMAIN writes}
    /\ result.kind \in {"ok", "error"} =>
          pc = "returned" /\ result.ops = totalOps /\ result.bytes = totalBytes

LEMMA InitAccounted == Init => Accounted
<1> SUFFICES ASSUME Init PROVE Accounted
  OBVIOUS
<1>1. /\ writes = <<>> /\ DOMAIN writes = {} /\ result.kind = "none" /\ totalBytes = 0
      /\ minLatency = -1 /\ maxLatency = 0 /\ buckets = [b \in Bucket |-> 0]
  BY DEF Init, CollectorInit
<1>2. SumFunctionOnSet(Bytes, DOMAIN writes) = 0
  BY <1>1, FS_EmptySet, SumZero
<1>3. ASSUME NEW b \in Bucket PROVE Accumulated(b) = 0
  <2>1. IsFiniteSet(0 .. b) /\ \A c \in 0 .. b : c \in Bucket
    BY CollectorAssumption, FS_Interval DEF Bucket
  <2> QED
    BY <1>1, <2>1, SumZero DEF Accumulated
<1>4. ASSUME NEW b \in Bucket PROVE UpToBucket(b) = {}
  BY <1>1 DEF UpToBucket
<1> QED
  BY <1>1, <1>2, <1>3, <1>4, FS_EmptySet DEF Accounted

\* One more write: its bytes, its latency and its bucket are accounted for.
LEMMA WriteAccounted ==
  ASSUME IInv, IInv', Accounted, NEW c \in Completions, WriteReturns(c)
  PROVE  Accounted'
<1> DEFINE n == Len(writes)
           w == [offset |-> offset, bytes |-> c.bytes, ns |-> c.ns, block |-> Mutated]
           D == DOMAIN writes
<1>1. /\ c.bytes \in Nat /\ c.ns \in Nat /\ n \in Nat /\ D = 1 .. n
      /\ writes \in Seq(Write) /\ CollectorTypeOK
  BY WorkerAssumption, LenProperties DEF IInv, TypeOK
<1>2. writes' \in Seq(Write) /\ writes' = Append(writes, w)
  BY DEF IInv, TypeOK, WriteReturns
<1>3. w \in Write
  <2>1. offset \in Nat /\ Mutated \in SUBSET {Seed}
    BY DEF IInv, TypeOK, Mutated, SymDiff
  <2> QED
    BY <1>1, <2>1 DEF Write
<1>w. w.bytes = c.bytes /\ w.ns = c.ns
  OBVIOUS
<1> HIDE DEF w
<1>4. /\ DOMAIN writes' = D \cup {n + 1} /\ n + 1 \notin D
      /\ writes'[n + 1] = w
      /\ \A k \in D : writes'[k] = writes[k]
      /\ writes' # <<>>
  BY <1>1, <1>2, <1>3, AppendProperties
<1>f. IsFiniteSet(D) /\ \A k \in D : writes[k].bytes \in Nat /\ writes[k].ns \in Nat
  <2>1. \A k \in D : writes[k] \in Write
    BY <1>1, ElementOfSeq
  <2>2. IsFiniteSet(1 .. n)
    BY <1>1, FS_Interval
  <2> QED
    BY <1>1, <2>1, <2>2 DEF Write
<1> HIDE DEF n, D
<1>5. totalBytes' = SumFunctionOnSet(Bytes', DOMAIN writes')
  <2>1. /\ \A k \in D : Bytes'[k] = Bytes[k] /\ Bytes'[k] \in Nat
        /\ Bytes'[n + 1] = c.bytes
    BY <1>1, <1>4, <1>w, <1>f DEF Bytes, D
  <2>2. SumFunctionOnSet(Bytes', D \cup {n + 1}) = SumFunctionOnSet(Bytes', D) + c.bytes
    <3>1. \A k \in D \cup {n + 1} : Bytes'[k] \in Nat
      BY <1>1, <2>1
    <3>2. SumFunctionOnSet(Bytes', D \cup {n + 1}) = SumFunctionOnSet(Bytes', D) + Bytes'[n + 1]
      BY <1>4, <1>f, <3>1, SumAdd
    <3> QED
      BY <2>1, <3>2
  <2>3. SumFunctionOnSet(Bytes', D) = SumFunctionOnSet(Bytes, D)
    BY <1>f, <2>1, SumSame
  <2>4. totalBytes' = totalBytes + c.bytes /\ totalBytes = SumFunctionOnSet(Bytes, D)
    BY DEF WriteReturns, Record, Accounted, D
  <2> QED
    BY <1>4, <2>2, <2>3, <2>4
<1>6. ASSUME NEW b \in Bucket
      PROVE  /\ IsFiniteSet(UpToBucket(b)') /\ Accumulated(b)' = Cardinality(UpToBucket(b)')
  <2> DEFINE x == BucketOf(c.ns)
             More == IF x <= b THEN {n + 1} ELSE {}
  <2>1. x \in Bucket /\ x \in Int /\ b \in Int /\ 0 .. b \subseteq Bucket /\ IsFiniteSet(0 .. b)
    <3>1. x \in Bucket
      BY <1>1, BucketExists
    <3> HIDE DEF x
    <3>2. b \in Int /\ x \in Int /\ 0 .. b \subseteq Bucket
      BY <3>1, CollectorAssumption DEF Bucket
    <3> QED
      BY <3>1, <3>2, FS_Interval
  <2>2. /\ buckets' = [buckets EXCEPT ![x] = @ + 1] /\ buckets \in [Bucket -> Nat]
    BY <1>1 DEF WriteReturns, Record, CollectorTypeOK
  <2>x. BucketOf(writes'[n + 1].ns) = x /\ \A k \in D : writes'[k].ns = writes[k].ns
    BY <1>4, <1>w
  <2> HIDE DEF x
  <2>3. /\ x \in 0 .. b => Accumulated(b)' = Accumulated(b) + 1
        /\ x \notin 0 .. b => Accumulated(b)' = Accumulated(b)
    <3> DEFINE I == 0 .. b
    <3>1. I \in SUBSET Bucket /\ IsFiniteSet(I)
      BY <2>1
    <3> HIDE DEF I
    <3>2. \A y \in I : /\ buckets[y] \in Nat
                        /\ buckets'[y] = IF y = x THEN buckets[y] + 1 ELSE buckets[y]
      BY <2>2, <3>1
    <3>3. /\ x \in I => SumFunctionOnSet(buckets', I) = SumFunctionOnSet(buckets, I) + 1
          /\ x \notin I => SumFunctionOnSet(buckets', I) = SumFunctionOnSet(buckets, I)
      BY <3>1, <3>2, SumBump
    <3> QED
      BY <3>3 DEF Accumulated, I
  <2>4. x \in 0 .. b <=> x <= b
    BY <2>1 DEF Bucket
  <2>5. UpToBucket(b)' = UpToBucket(b) \cup More
    BY <1>4, <2>x DEF UpToBucket, D
  <2>6. /\ IsFiniteSet(UpToBucket(b)) /\ Accumulated(b) = Cardinality(UpToBucket(b))
        /\ n + 1 \notin UpToBucket(b) /\ Cardinality(UpToBucket(b)) \in Nat
    BY <1>4, FS_CardinalityType DEF Accounted, UpToBucket, D
  <2>7. CASE x <= b
    BY <2>3, <2>4, <2>5, <2>6, <2>7, FS_AddElement
  <2>8. CASE ~(x <= b)
    BY <2>3, <2>4, <2>5, <2>6, <2>8
  <2> QED
    BY <2>7, <2>8
<1>7. {minLatency', maxLatency'} \subseteq {writes'[k].ns : k \in DOMAIN writes'}
  <2> DEFINE Before == {writes[k].ns : k \in D}
  <2>1. {writes'[k].ns : k \in DOMAIN writes'} = Before \cup {c.ns}
    BY <1>4, <1>w
  <2>2. /\ minLatency' \in {minLatency, c.ns} /\ maxLatency' \in {maxLatency, c.ns}
    BY DEF WriteReturns, Record
  <2>3. CASE writes = <<>>
    <3>1. minLatency = -1 /\ maxLatency = 0
      BY <2>3 DEF Accounted
    <3>2. minLatency' = c.ns /\ maxLatency' = c.ns
      BY <1>1, <3>1 DEF WriteReturns, Record
    <3> QED
      BY <2>1, <3>2
  <2>4. CASE writes # <<>>
    BY <2>1, <2>2, <2>4 DEF Accounted, D
  <2> QED
    BY <2>3, <2>4
<1>8. result'.kind \notin {"ok", "error"}
  BY DEF WriteReturns, IInv, BatchesRight
<1> QED
  BY <1>4, <1>5, <1>6, <1>7, <1>8 DEF Accounted

LEMMA StepAccounted ==
  ASSUME IInv, IInv', Accounted, [Next]_vars
  PROVE  Accounted'
<1>1. CASE \E c \in Completions : WriteReturns(c)
  BY <1>1, WriteAccounted
<1>2. CASE ~(\E c \in Completions : WriteReturns(c))
  <2> USE DEF loopVars, ioVars, collectorVars
  <2> DEFINE Kept == UNCHANGED <<writes, buckets, totalOps, totalBytes, minLatency, maxLatency>>
             Reported == result'.kind \in {"ok", "error"} =>
                            /\ pc' = "returned"
                            /\ result'.ops = totalOps /\ result'.bytes = totalBytes
  <2>k. pc # "returned" => result.kind = "none"
    BY DEF IInv, BatchesRight
  <2>1. ASSUME Boot \/ BootFails \/ StartBatch \/ YieldControl PROVE Kept /\ Reported
    <3>1. Kept
      BY <2>1 DEF Boot, BootFails, StartBatch, YieldControl
    <3>2. result.kind = "none" /\ result \in Result
      BY <2>1, <2>k DEF Boot, BootFails, StartBatch, YieldControl, IInv, TypeOK
    <3>3. result'.kind \in {"none", "fatal"}
      BY <2>1, <3>2 DEF Boot, BootFails, StartBatch, YieldControl, Result
    <3> QED
      BY <3>1, <3>3
  <2>2. ASSUME WriteFails \/ LeaveLoop PROVE Kept /\ Reported
    <3>1. Kept
      BY <2>2 DEF WriteFails, LeaveLoop
    <3>2. PICK kind \in {"ok", ErrorKind}, f \in BOOLEAN : Return(kind, f)
      BY <2>2 DEF WriteFails, LeaveLoop
    <3>3. pc' = "returned" /\ result'.ops = totalOps /\ result'.bytes = totalBytes
      BY <3>2 DEF Return, BytesWritten
    <3> QED
      BY <3>1, <3>3
  <2>3. ASSUME LoopStep PROVE Kept /\ Reported
    <3>1. Kept /\ UNCHANGED result /\ pc # "returned"
      BY <2>3 DEF LoopStep, LoopRuns, BeginRound, TimerStarts, SleepResolved, TimerEnds,
         ResumeWorker
    <3>2. result'.kind = "none"
      BY <3>1, <2>k
    <3> QED
      BY <3>1, <3>2
  <2>4. ASSUME Elapse \/ UNCHANGED vars PROVE Kept /\ Reported
    <3>1. Kept /\ UNCHANGED <<result, pc>>
      BY <2>4 DEF Elapse, vars
    <3>2. Reported
      BY <3>1 DEF Accounted
    <3> QED
      BY <3>1, <3>2
  <2>5. Kept /\ Reported
    <3> HIDE DEF Kept, Reported
    <3> QED
      BY <1>2, <2>1, <2>2, <2>3, <2>4, NextCases
  <2>6. Bytes' = Bytes /\ \A b : UpToBucket(b)' = UpToBucket(b) /\ Accumulated(b)' = Accumulated(b)
    BY <2>5 DEF Bytes, UpToBucket, Accumulated
  <2> QED
    BY <2>5, <2>6 DEF Accounted
<1> QED
  BY <1>1, <1>2

LEMMA AlwaysAccounted == Spec => []Accounted
<1>1. IInv /\ IInv' /\ Accounted /\ [Next]_vars => Accounted'
  BY StepAccounted
<1> QED
  BY <1>1, InitAccounted, Invariance, PTL DEF Spec

\* The buckets hold every write, so they add up to the operations.
LEMMA AllCounted ==
  ASSUME IInv, Accounted
  PROVE  /\ SumFunction(buckets) = totalOps
         /\ Accumulated(NumBuckets - 1) = totalOps
         /\ IsFiniteSet(DOMAIN writes)
<1> DEFINE b == NumBuckets - 1
<1>1. b \in Bucket /\ Bucket = 0 .. b /\ DOMAIN buckets = Bucket
  BY CollectorAssumption DEF Bucket, IInv, TypeOK, CollectorTypeOK
<1>2. /\ DOMAIN writes = 1 .. Len(writes) /\ Len(writes) \in Nat
      /\ \A k \in DOMAIN writes : writes[k] \in Write
  BY LenProperties, ElementOfSeq DEF IInv, TypeOK
<1>3. UpToBucket(b) = DOMAIN writes
  <2>1. \A k \in DOMAIN writes : BucketOf(writes[k].ns) \in Bucket
    BY <1>2, BucketExists DEF Write
  <2>2. \A k \in DOMAIN writes : BucketOf(writes[k].ns) <= b
    BY <1>1, <2>1 DEF Bucket
  <2> QED
    BY <2>2 DEF UpToBucket
<1>4. IsFiniteSet(DOMAIN writes) /\ Cardinality(DOMAIN writes) = totalOps
  <2> DEFINE n == Len(writes)
  <2>1. totalOps = n /\ n \in Nat /\ DOMAIN writes = 1 .. n
    BY <1>2 DEF IInv, WritesRight
  <2> HIDE DEF n
  <2>2. IsFiniteSet(1 .. n) /\ Cardinality(1 .. n) = IF 1 > n THEN 0 ELSE n - 1 + 1
    BY <2>1, FS_Interval
  <2> QED
    BY <2>1, <2>2
<1>5. Accumulated(b) = totalOps
  BY <1>1, <1>3, <1>4 DEF Accounted
<1> QED
  BY <1>1, <1>4, <1>5 DEF Accumulated, SumFunction

\* A worker reports exactly what its adapter did before the end or the error.
THEOREM TelemetryRight == Spec => []TelemetryExact
<1>1. IInv /\ Accounted => TelemetryExact
  <2> SUFFICES ASSUME IInv, Accounted, result.kind \in {"ok", "error"}
               PROVE  /\ result.ops = Len(writes)
                      /\ result.bytes = SumFunction([k \in DOMAIN writes |-> writes[k].bytes])
                      /\ SumFunction(buckets) = result.ops
                      /\ writes # <<>> => {minLatency, maxLatency}
                                             \subseteq {writes[k].ns : k \in DOMAIN writes}
    BY DEF TelemetryExact
  <2>1. totalOps = Len(writes)
    BY DEF IInv, WritesRight
  <2>2. result.ops = totalOps /\ result.bytes = totalBytes
    BY DEF Accounted
  <2>3. SumFunction(Bytes) = SumFunctionOnSet(Bytes, DOMAIN writes)
    BY DEF SumFunction, Bytes
  <2> QED
    BY <2>1, <2>2, <2>3, AllCounted DEF Accounted, Bytes
<1> QED
  BY <1>1, Invariance, AlwaysAccounted, PTL

-----------------------------------------------------------------------------
(* The percentiles. *)

LEMMA TargetIs ==
  ASSUME NEW p \in Percentiles, totalOps \in Nat
  PROVE  TargetCount(p) \in Nat /\ TargetCount(p) <= totalOps
<1>1. \A n \in Nat : /\ (n * 50) \div 100 \in Nat /\ (n * 50) \div 100 <= n
                     /\ (n * 90) \div 100 \in Nat /\ (n * 90) \div 100 <= n
                     /\ (n * 99) \div 100 \in Nat /\ (n * 99) \div 100 <= n
                     /\ (n * 999) \div 1000 \in Nat /\ (n * 999) \div 1000 <= n
  OBVIOUS
<1>2. p \in {<<50, 100>>, <<90, 100>>, <<99, 100>>, <<999, 1000>>}
  BY DEF Percentiles, P50, P90, P99, P999
<1> QED
  BY <1>1, <1>2 DEF TargetCount

\* percentile_ms finds a bucket, the first one that is enough.
LEMMA FirstReachingIs ==
  ASSUME IInv, Accounted, NEW p \in Percentiles
  PROVE  /\ FirstReaching(p) \in Bucket
         /\ Accumulated(FirstReaching(p)) >= TargetCount(p)
         /\ \A c \in Bucket : c < FirstReaching(p) => Accumulated(c) < TargetCount(p)
<1> DEFINE T == TargetCount(p)
           U == {b \in Bucket : Accumulated(b) >= T}
<1>1. T \in Nat /\ T <= totalOps /\ totalOps \in Nat
  BY TargetIs DEF IInv, TypeOK, CollectorTypeOK
<1>2. \A b \in Bucket : b \in Nat /\ Accumulated(b) \in Nat
  BY CollectorAssumption, FS_CardinalityType DEF Accounted, Bucket
<1>3. NumBuckets - 1 \in U
  BY <1>1, AllCounted, CollectorAssumption DEF Bucket
<1>4. PICK b \in U : \A c \in U : b <= c
  <2> HIDE DEF T
  <2>1. U \subseteq Nat /\ U # {}
    BY <1>2, <1>3
  <2> HIDE DEF U
  <2> QED
    BY <2>1, Least
<1>5. \A c \in 0 .. b - 1 : c \in Bucket /\ Accumulated(c) < T
  <2> SUFFICES ASSUME NEW c \in 0 .. b - 1 PROVE c \in Bucket /\ Accumulated(c) < T
    OBVIOUS
  <2>1. c \in Bucket /\ ~(b <= c)
    BY <1>2, CollectorAssumption DEF Bucket
  <2>2. ~(Accumulated(c) >= T)
    BY <1>4, <2>1
  <2> QED
    BY <1>1, <1>2, <2>1, <2>2
<1>6. \E f \in Bucket : /\ Accumulated(f) >= T
                        /\ \A c \in 0 .. f - 1 : Accumulated(c) < T
  BY <1>4, <1>5
<1> DEFINE f == FirstReaching(p)
<1>7. f \in Bucket /\ Accumulated(f) >= T /\ \A c \in 0 .. f - 1 : Accumulated(c) < T
  BY <1>6 DEF FirstReaching
<1> HIDE DEF f, T
<1>8. \A c \in Bucket : c < f => c \in 0 .. f - 1
  BY <1>7, CollectorAssumption DEF Bucket
<1> QED
  BY <1>7, <1>8 DEF f, T

\* A latency below 2^b is counted in one of the buckets up to b, and a latency
\* counted there is below 2^b unless it is in the last bucket.
LEMMA BucketBounds ==
  ASSUME NEW b \in Bucket, NEW ns \in Nat
  PROVE  /\ ns < Pow2[b] => BucketOf(ns) <= b
         /\ BucketOf(ns) <= b => ns < Pow2[b] \/ BucketOf(ns) = NumBuckets - 1
<1> DEFINE l == BitLength(ns)
<1>1. l \in Nat /\ ns < Pow2[l] /\ \A j \in Nat : j < l => Pow2[j] <= ns
  BY BitLengthIs
<1>2. b \in Nat /\ b <= NumBuckets - 1 /\ NumBuckets \in Nat
  BY CollectorAssumption DEF Bucket
<1>3. BucketOf(ns) = IF l >= NumBuckets THEN NumBuckets - 1 ELSE l
  BY DEF BucketOf
<1> HIDE DEF l
<1>4. Pow2[b] \in Nat /\ Pow2[l] \in Nat
  BY <1>1, <1>2, Pow2Type
<1>5. ASSUME ns < Pow2[b] PROVE BucketOf(ns) <= b
  <2>1. ~(b < l)
    BY <1>1, <1>2, <1>4, <1>5
  <2> QED
    BY <1>1, <1>2, <1>3, <2>1
<1>6. ASSUME BucketOf(ns) <= b, BucketOf(ns) # NumBuckets - 1 PROVE ns < Pow2[b]
  <2>1. l <= b
    BY <1>3, <1>6
  <2>2. Pow2[l] <= Pow2[b]
    BY <1>1, <1>2, <2>1, Pow2Grows
  <2> QED
    BY <1>1, <1>4, <2>2
<1> QED
  BY <1>5, <1>6

\* A reported percentile is right within the factor 2 of its bucket.
THEOREM PercentilesRight == Spec => []PercentilesSound
<1>1. IInv /\ Accounted => PercentilesSound
  <2> DEFINE Below(v) == {k \in DOMAIN writes : writes[k].ns < v}
             Capped == {k \in DOMAIN writes : BucketOf(writes[k].ns) = NumBuckets - 1}
             Half(v) == {k \in DOMAIN writes : 2 * writes[k].ns < v}
  <2> SUFFICES ASSUME IInv, Accounted, NEW p \in Percentiles, TargetCount(p) > 0
               PROVE  /\ Cardinality(Below(Percentile(p)) \cup Capped) >= TargetCount(p)
                      /\ Percentile(p) > 1 => Cardinality(Half(Percentile(p))) < TargetCount(p)
    BY DEF PercentilesSound
  <2> DEFINE T == TargetCount(p)  b == FirstReaching(p)  v == Percentile(p)
  <2>1. T \in Nat /\ T > 0 /\ T <= totalOps /\ totalOps \in Nat
    BY TargetIs DEF IInv, TypeOK, CollectorTypeOK
  <2>2. /\ b \in Bucket /\ b \in Nat /\ Accumulated(b) >= T
        /\ \A c \in Bucket : c < b => Accumulated(c) < T
    BY FirstReachingIs, CollectorAssumption DEF Bucket
  <2>3. v = Pow2[b]
    BY <2>1 DEF Percentile
  <2>4. /\ IsFiniteSet(DOMAIN writes)
        /\ \A k \in DOMAIN writes : writes[k].ns \in Nat
    <3>1. \A k \in DOMAIN writes : writes[k] \in Write
      BY ElementOfSeq, LenProperties DEF IInv, TypeOK
    <3> QED
      BY <3>1, AllCounted DEF Write
  <2>5. \A c \in Bucket : /\ Accumulated(c) = Cardinality(UpToBucket(c))
                          /\ IsFiniteSet(UpToBucket(c)) /\ Accumulated(c) \in Nat
    BY FS_CardinalityType DEF Accounted
  <2> HIDE DEF T, b, v
  <2>6. Cardinality(Below(v) \cup Capped) >= T
    <3>1. UpToBucket(b) \subseteq Below(v) \cup Capped
      BY <2>2, <2>3, <2>4, BucketBounds DEF UpToBucket
    <3>2. Below(v) \cup Capped \subseteq DOMAIN writes
      OBVIOUS
    <3> DEFINE S == Below(v) \cup Capped
    <3> HIDE DEF S
    <3>3. IsFiniteSet(S)
      BY <2>4, <3>2, FS_Subset DEF S
    <3>4. Cardinality(UpToBucket(b)) <= Cardinality(S) /\ Cardinality(S) \in Nat
      BY <3>1, <3>3, FS_Subset, FS_CardinalityType DEF S
    <3>5. Cardinality(S) >= T
      BY <2>1, <2>2, <2>5, <3>4
    <3> QED
      BY <3>5 DEF S
  <2>7. ASSUME v > 1 PROVE Cardinality(Half(v)) < T
    <3> DEFINE c == b - 1
    <3>1. b # 0
      BY <2>3, <2>7, Pow2Step
    <3>2. c \in Nat /\ c \in Bucket /\ c < b /\ c + 1 = b
      BY <2>2, <3>1, CollectorAssumption DEF Bucket
    <3> HIDE DEF c
    <3>3. v = 2 * Pow2[c] /\ Pow2[c] \in Nat
      BY <2>3, <3>2, Pow2Step, Pow2Type
    <3>4. Half(v) \subseteq UpToBucket(c)
      <4> SUFFICES ASSUME NEW k \in DOMAIN writes, 2 * writes[k].ns < v
                   PROVE  BucketOf(writes[k].ns) <= c
        BY DEF UpToBucket
      <4>1. writes[k].ns < Pow2[c]
        BY <2>4, <3>3
      <4> QED
        BY <2>4, <3>2, <4>1, BucketBounds
    <3> DEFINE H == Half(v)
    <3> HIDE DEF H
    <3>5. Cardinality(H) <= Cardinality(UpToBucket(c)) /\ Cardinality(H) \in Nat
      <4>1. H \subseteq UpToBucket(c)
        BY <3>4 DEF H
      <4> QED
        BY <2>5, <3>2, <4>1, FS_Subset, FS_CardinalityType
    <3>6. Cardinality(H) < T
      BY <2>1, <2>2, <2>5, <3>2, <3>5
    <3> QED
      BY <3>6 DEF H
  <2> QED
    BY <2>6, <2>7 DEF T, v
<1> QED
  BY <1>1, AlwaysAccounted, Invariance, PTL
=============================================================================
