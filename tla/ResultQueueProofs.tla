-------------------------- MODULE ResultQueueProofs --------------------------
(***************************************************************************)
(* Proofs about the result queue, for every number of workers and every    *)
(* capacity of the pipe: what was put is delivered at most once, and the   *)
(* queue implements ResultChannel.                                         *)
(***************************************************************************)
EXTENDS ResultQueue, SequenceTheorems, FiniteSetTheorems, WellFoundedInduction, TLAPS

\* The results that left the workers: read by the parent, or in the pipe.
Delivered == workerResults \o pipe
OneReport(s) == \A i, j \in DOMAIN s : s[i] = s[j] => i = j
Reports(s, w) == \E i \in DOMAIN s : s[i] = w

PastWrite == {"written", "flushed", "exited"}
BeforeWrite == {"unborn", "started", "running", "put", "writing"}

\* A result is delivered once, after its write and before the exit.
DeliveryRight ==
    /\ OneReport(Delivered)
    /\ \A w \in Worker : status[w] \in PastWrite => Reports(Delivered, w)
    /\ \A w \in Worker : status[w] \in BeforeWrite => ~Reports(Delivered, w)

QInv == QueueTypeOK /\ DeliveryRight

-----------------------------------------------------------------------------
\* Reading the head of the pipe moves it, and changes nothing else.
LEMMA DrainKeeps ==
  ASSUME NEW S, NEW s \in Seq(S), NEW t \in Seq(S), t # <<>>
  PROVE  Append(s, Head(t)) \o Tail(t) = s \o t
<1>1. /\ Head(t) \in S /\ Tail(t) \in Seq(S) /\ Len(Tail(t)) = Len(t) - 1
      /\ \A i \in 1 .. Len(Tail(t)) : Tail(t)[i] = t[i + 1]
      /\ Head(t) = t[1]
  BY HeadTailProperties
<1>2. /\ Append(s, Head(t)) \in Seq(S) /\ Len(Append(s, Head(t))) = Len(s) + 1
      /\ \A i \in 1 .. Len(s) : Append(s, Head(t))[i] = s[i]
      /\ Append(s, Head(t))[Len(s) + 1] = t[1]
  BY <1>1, AppendProperties
<1> DEFINE u == Append(s, Head(t))
           v == Tail(t)
<1>3. /\ u \o v \in Seq(S) /\ Len(u \o v) = Len(u) + Len(v)
      /\ \A i \in 1 .. Len(u) + Len(v) :
            (u \o v)[i] = IF i <= Len(u) THEN u[i] ELSE v[i - Len(u)]
  BY <1>1, <1>2, ConcatProperties
<1>4. /\ s \o t \in Seq(S) /\ Len(s \o t) = Len(s) + Len(t)
      /\ \A i \in 1 .. Len(s) + Len(t) :
            (s \o t)[i] = IF i <= Len(s) THEN s[i] ELSE t[i - Len(s)]
  BY ConcatProperties
<1>5. Len(s) \in Nat /\ Len(t) \in Nat
  BY LenProperties
<1> HIDE DEF u, v
<1>6. Len(u \o v) = Len(s \o t)
  BY <1>1, <1>2, <1>3, <1>4, <1>5 DEF u, v
<1>7. \A i \in 1 .. Len(u \o v) : (u \o v)[i] = (s \o t)[i]
  <2> SUFFICES ASSUME NEW i \in 1 .. Len(s) + Len(t)
               PROVE  (u \o v)[i] = (s \o t)[i]
    BY <1>4, <1>6
  <2>0. Len(u) = Len(s) + 1 /\ Len(v) = Len(t) - 1 /\ i \in Nat
    BY <1>1, <1>2, <1>5 DEF u, v
  <2>1. CASE i <= Len(s)
    BY <1>2, <1>3, <1>4, <1>5, <2>0, <2>1 DEF u
  <2>2. CASE i = Len(s) + 1
    BY <1>2, <1>3, <1>4, <1>5, <2>0, <2>2 DEF u
  <2>3. CASE i > Len(s) + 1
    <3>1. i - Len(u) \in 1 .. Len(v)
      BY <1>5, <2>0, <2>3
    <3>2. (u \o v)[i] = v[i - Len(u)]
      BY <1>3, <1>5, <2>0, <2>3
    <3>3. v[i - Len(u)] = t[i - Len(u) + 1]
      BY <1>1, <3>1 DEF v
    <3>4. i - Len(u) + 1 = i - Len(s)
      BY <1>5, <2>0
    <3> QED
      BY <1>4, <1>5, <2>3, <3>2, <3>3, <3>4
  <2>4. i <= Len(s) \/ i = Len(s) + 1 \/ i > Len(s) + 1
    BY <1>5, <2>0
  <2> QED
    BY <2>1, <2>2, <2>3, <2>4
<1>8. u \o v = s \o t
  BY <1>3, <1>4, <1>6, <1>7, SeqEqual
<1> QED
  BY <1>8 DEF u, v

\* A write puts one more result at the end.
LEMMA WriteAdds ==
  ASSUME NEW S, NEW s \in Seq(S), NEW t \in Seq(S), NEW w \in S
  PROVE  s \o Append(t, w) = Append(s \o t, w)
<1>1. Append(t, w) = t \o <<w>> /\ <<w>> \in Seq(S)
  BY AppendIsConcat
<1>2. s \o t \in Seq(S)
  BY ConcatProperties
<1>3. Append(s \o t, w) = (s \o t) \o <<w>>
  BY <1>2, AppendIsConcat
<1> QED
  BY <1>1, <1>3, ConcatAssociative

\* A report that was not there yet stays the only one of its worker.
LEMMA AppendReport ==
  ASSUME NEW S, NEW s \in Seq(S), NEW w \in S, OneReport(s), ~Reports(s, w)
  PROVE  /\ OneReport(Append(s, w))
         /\ \A v : Reports(Append(s, w), v) <=> Reports(s, v) \/ v = w
<1>1. /\ Append(s, w) \in Seq(S) /\ Len(Append(s, w)) = Len(s) + 1
      /\ \A i \in 1 .. Len(s) : Append(s, w)[i] = s[i]
      /\ Append(s, w)[Len(s) + 1] = w
  BY AppendProperties
<1>2. /\ Len(s) \in Nat /\ DOMAIN s = 1 .. Len(s)
      /\ DOMAIN Append(s, w) = 1 .. Len(s) + 1
  BY <1>1, LenProperties
<1> DEFINE a == Append(s, w)
<1> HIDE DEF a
<1>3. /\ \A i \in 1 .. Len(s) : a[i] = s[i]
      /\ a[Len(s) + 1] = w /\ DOMAIN a = 1 .. Len(s) + 1
  BY <1>1, <1>2 DEF a
<1>4. OneReport(a)
  BY <1>2, <1>3 DEF OneReport, Reports
<1>5. \A v : Reports(a, v) <=> Reports(s, v) \/ v = w
  BY <1>2, <1>3 DEF Reports
<1> QED
  BY <1>4, <1>5 DEF a

\* What is reported by a concatenation is reported by one of its parts.
LEMMA ReportsConcat ==
  ASSUME NEW S, NEW s \in Seq(S), NEW t \in Seq(S)
  PROVE  /\ \A w : Reports(s \o t, w) <=> Reports(s, w) \/ Reports(t, w)
         /\ OneReport(s \o t) => \A w : ~(Reports(s, w) /\ Reports(t, w))
<1>1. /\ s \o t \in Seq(S) /\ Len(s \o t) = Len(s) + Len(t)
      /\ \A i \in 1 .. Len(s) + Len(t) :
            (s \o t)[i] = IF i <= Len(s) THEN s[i] ELSE t[i - Len(s)]
  BY ConcatProperties
<1>2. /\ Len(s) \in Nat /\ Len(t) \in Nat
      /\ DOMAIN s = 1 .. Len(s) /\ DOMAIN t = 1 .. Len(t)
      /\ DOMAIN (s \o t) = 1 .. Len(s) + Len(t)
  BY <1>1, LenProperties
<1> DEFINE u == s \o t
<1>3. /\ \A i \in DOMAIN s : i \in DOMAIN u /\ u[i] = s[i] /\ i <= Len(s)
      /\ \A i \in DOMAIN t : i + Len(s) \in DOMAIN u /\ u[i + Len(s)] = t[i]
                            /\ i + Len(s) > Len(s)
  BY <1>1, <1>2
<1>4. \A i \in DOMAIN u : \/ i \in DOMAIN s /\ u[i] = s[i]
                          \/ i - Len(s) \in DOMAIN t /\ u[i] = t[i - Len(s)]
  BY <1>1, <1>2
<1> HIDE DEF u
<1>5. \A w : Reports(u, w) <=> Reports(s, w) \/ Reports(t, w)
  BY <1>3, <1>4 DEF Reports
<1>6. ASSUME OneReport(u), NEW w, Reports(s, w), Reports(t, w)
      PROVE  FALSE
  <2>1. PICK i \in DOMAIN s : s[i] = w
    BY <1>6 DEF Reports
  <2>2. PICK j \in DOMAIN t : t[j] = w
    BY <1>6 DEF Reports
  <2>3. u[i] = u[j + Len(s)]
    BY <1>3, <2>1, <2>2
  <2>4. i = j + Len(s)
    BY <1>3, <1>6, <2>3 DEF OneReport
  <2> QED
    BY <1>2, <1>3, <2>4
<1> QED
  BY <1>5, <1>6 DEF u

\* In a sequence without repetitions the rest does not report the head.
LEMMA HeadGone ==
  ASSUME NEW S, NEW t \in Seq(S), t # <<>>, OneReport(t)
  PROVE  \A w : Reports(Tail(t), w) <=> Reports(t, w) /\ w # Head(t)
<1>1. /\ Tail(t) \in Seq(S) /\ Len(Tail(t)) = Len(t) - 1
      /\ \A i \in 1 .. Len(Tail(t)) : Tail(t)[i] = t[i + 1]
      /\ Head(t) = t[1]
  BY HeadTailProperties
<1>2. /\ Len(t) \in Nat /\ Len(t) > 0 /\ DOMAIN t = 1 .. Len(t)
      /\ DOMAIN Tail(t) = 1 .. Len(t) - 1
  BY <1>1, LenProperties, EmptySeq
<1> DEFINE v == Tail(t)
           h == Head(t)
<1> HIDE DEF v, h
<1>3. /\ \A i \in DOMAIN v : i + 1 \in DOMAIN t /\ v[i] = t[i + 1] /\ i + 1 # 1
      /\ \A i \in DOMAIN t : i # 1 => i - 1 \in DOMAIN v /\ v[i - 1] = t[i]
      /\ h = t[1] /\ 1 \in DOMAIN t
  BY <1>1, <1>2 DEF v, h
<1>4. \A w : Reports(v, w) <=> Reports(t, w) /\ w # h
  BY <1>3 DEF Reports, OneReport
<1> QED
  BY <1>4 DEF v, h

-----------------------------------------------------------------------------
LEMMA InitQInv == QueueInit => QInv
<1> SUFFICES ASSUME QueueInit PROVE QInv
  OBVIOUS
<1> USE QueueAssumption DEF QueueInit
<1>1. QueueTypeOK
  <2>1. workerResults \in Seq(Worker) /\ pipe \in Seq(Worker) /\ Len(pipe) = 0
    BY EmptySeq
  <2> QED
    BY <2>1 DEF QueueTypeOK, Status
<1>2. DeliveryRight
  <2>1. Delivered = <<>>
    BY EmptySeq, ConcatEmptySeq DEF Delivered
  <2>2. DOMAIN <<>> = {}
    OBVIOUS
  <2> QED
    BY <2>1, <2>2 DEF DeliveryRight, OneReport, Reports, PastWrite
<1> QED
  BY <1>1, <1>2 DEF QInv

\* A step that neither writes nor leaves a stage out of order keeps the
\* deliveries right.
LEMMA DeliveryKept ==
  ASSUME DeliveryRight, Delivered' = Delivered,
         \A w \in Worker :
            \/ status'[w] = status[w]
            \/ status'[w] = "crashed"
            \/ status'[w] \in PastWrite /\ status[w] \in PastWrite
            \/ status'[w] \in BeforeWrite /\ status[w] \in BeforeWrite
  PROVE  DeliveryRight'
  BY DEF DeliveryRight, PastWrite, BeforeWrite

LEMMA NextQInv == QInv /\ [QueueNext]_processVars => QInv'
<1> SUFFICES ASSUME QInv, [QueueNext]_processVars PROVE QInv'
  OBVIOUS
<1> USE QueueAssumption
<1>0. QueueTypeOK /\ DeliveryRight
  BY DEF QInv
<1>1. ASSUME NEW w \in Worker,
             Start(w) \/ Run(w) \/ Put(w) \/ FeederLock(w) \/ FeederRelease(w)
                \/ Exit(w) \/ Die(w)
      PROVE  QInv'
  <2>1. /\ UNCHANGED <<pipeCapacity, pipe, workerResults>>
        /\ wlock' \in 0 .. NWorkers
        /\ status' = [status EXCEPT ![w] = status'[w]]
        /\ status'[w] \in Status
        /\ \/ status'[w] = "crashed"
           \/ status'[w] \in PastWrite /\ status[w] \in PastWrite
           \/ status'[w] \in BeforeWrite /\ status[w] \in BeforeWrite
    BY <1>0, <1>1 DEF Start, Run, Put, FeederLock, FeederRelease, LockFree, Exit,
       Die, Becomes, QueueTypeOK, Status, Alive, PastWrite, BeforeWrite, Worker
  <2>2. QueueTypeOK'
    BY <1>0, <2>1 DEF QueueTypeOK
  <2>3. DeliveryRight'
    BY <1>0, <2>1, DeliveryKept DEF Delivered, QueueTypeOK
  <2> QED
    BY <2>2, <2>3 DEF QInv
<1>2. ASSUME NEW w \in Worker, FeederWrite(w)
      PROVE  QInv'
  <2>1. /\ Delivered' = Append(Delivered, w)
        /\ Delivered \in Seq(Worker)
        /\ ~Reports(Delivered, w)
    BY <1>0, <1>2, WriteAdds, ConcatProperties
       DEF FeederWrite, Delivered, QueueTypeOK, DeliveryRight, BeforeWrite
  <2>2. /\ OneReport(Delivered')
        /\ \A v : Reports(Delivered', v) <=> Reports(Delivered, v) \/ v = w
    BY <1>0, <2>1, AppendReport DEF DeliveryRight
  <2>3. DeliveryRight'
    BY <1>0, <1>2, <2>2 DEF FeederWrite, Becomes, QueueTypeOK, DeliveryRight,
       PastWrite, BeforeWrite
  <2>4. QueueTypeOK'
    BY <1>0, <1>2, AppendProperties, LenProperties
       DEF FeederWrite, Becomes, QueueTypeOK, Status, Alive
  <2> QED
    BY <2>3, <2>4 DEF QInv
<1>3. CASE TerminateAll
  <2>1. QueueTypeOK'
    BY <1>0, <1>3 DEF TerminateAll, QueueTypeOK, Status
  <2>2. DeliveryRight'
    BY <1>0, <1>3, DeliveryKept DEF TerminateAll, Delivered
  <2> QED
    BY <2>1, <2>2 DEF QInv
<1>4. CASE Take
  <2>1. /\ Head(pipe) \in Worker /\ Tail(pipe) \in Seq(Worker)
        /\ Len(Tail(pipe)) = Len(pipe) - 1 /\ Len(pipe) \in Nat
    BY <1>0, <1>4, HeadTailProperties, LenProperties DEF Take, QueueTypeOK
  <2>2. Append(workerResults, Head(pipe)) \in Seq(Worker)
    BY <1>0, <2>1, AppendProperties DEF QueueTypeOK
  <2>3. QueueTypeOK'
    BY <1>0, <1>4, <2>1, <2>2 DEF Take, PipeRest, QueueTypeOK
  <2>4. Delivered' = Delivered
    BY <1>0, <1>4, DrainKeeps DEF Take, PipeRest, Delivered, QueueTypeOK
  <2>5. DeliveryRight'
    BY <1>0, <1>4, <2>4, DeliveryKept DEF Take
  <2> QED
    BY <2>3, <2>5 DEF QInv
<1>5. CASE UNCHANGED processVars
  BY <1>0, <1>5 DEF processVars, QInv, QueueTypeOK, DeliveryRight, Delivered
<1> QED
  BY <1>1, <1>2, <1>3, <1>4, <1>5 DEF QueueNext, FeederStep

\* The queue keeps its types and delivers every result at most once.
THEOREM QueueInvariance == QueueSpec => []QInv
  BY InitQInv, NextQInv, PTL DEF QueueSpec

-----------------------------------------------------------------------------
(* The refinement. *)

\* The mapping of Channel.
sentC == {w \in Worker : status[w] \in {"put", "writing"} \/ InPipe(w)}
lostC == {w \in Worker : status[w] = "crashed" /\ ~InPipe(w) /\ ~Taken(w)}

LEMMA InitChannel == QueueInit => Channel!ChannelInit
<1> SUFFICES ASSUME QueueInit PROVE Channel!ChannelInit
  OBVIOUS
<1>1. DOMAIN <<>> = {}
  OBVIOUS
<1>2. sentC = {} /\ lostC = {}
  BY <1>1 DEF QueueInit, sentC, lostC, InPipe
<1> QED
  BY <1>2 DEF QueueInit, Channel!ChannelInit, sentC, lostC

\* Where the result of a worker is, by what has become of the worker.
LEMMA Places ==
  ASSUME QInv
  PROVE  /\ \A w \in Worker : status[w] \in BeforeWrite => ~InPipe(w) /\ ~Taken(w)
         /\ \A w \in Worker : status[w] \in PastWrite => InPipe(w) \/ Taken(w)
         /\ \A w \in Worker : ~(InPipe(w) /\ Taken(w))
<1>1. workerResults \in Seq(Worker) /\ pipe \in Seq(Worker)
  BY DEF QInv, QueueTypeOK
<1>2. /\ \A w : Reports(Delivered, w) <=> Taken(w) \/ InPipe(w)
      /\ \A w : ~(Taken(w) /\ InPipe(w))
  BY <1>1, ReportsConcat DEF Delivered, QInv, DeliveryRight, Reports, Taken, InPipe
<1> QED
  BY <1>2 DEF QInv, DeliveryRight

\* Processes that die lose what is not in the pipe, and nothing else.
LEMMA DeathLoses ==
  ASSUME QInv, UNCHANGED <<pipe, workerResults>>,
         \A w \in Worker : \/ status'[w] = status[w]
                           \/ status[w] \in Alive /\ status'[w] = "crashed"
  PROVE  Channel!ChannelNext
<1>0. PICK S \in SUBSET Worker : S = lostC' \ lostC
  BY DEF lostC
<1>1. \A w : InPipe(w)' <=> InPipe(w)
  BY DEF InPipe
<1>2. \A w : Taken(w)' <=> Taken(w)
  BY DEF Taken
<1>3. lostC' = lostC \cup S
  BY <1>0, <1>1, <1>2 DEF lostC, Alive
<1>4. S \cap Channel!ToSet(workerResults) = {}
  BY <1>0, <1>2 DEF lostC, Taken, Channel!ToSet
<1>5. sentC' = sentC \ S
  BY <1>0, <1>1, <1>2, Places DEF sentC, lostC, Alive, BeforeWrite, PastWrite
<1>6. Channel!Lose(S)
  BY <1>3, <1>4, <1>5 DEF Channel!Lose, sentC, lostC
<1> QED
  BY <1>6 DEF Channel!ChannelNext

LEMMA NextChannel ==
  ASSUME QInv, [QueueNext]_processVars
  PROVE  [Channel!ChannelNext]_(Channel!channelVars)
<1>0. QueueTypeOK
  BY DEF QInv
<1>1. ASSUME NEW w \in Worker,
             Start(w) \/ Run(w) \/ FeederLock(w) \/ FeederRelease(w) \/ Exit(w)
      PROVE  UNCHANGED Channel!channelVars
  <2>1. UNCHANGED <<pipe, workerResults>>
    BY <1>1 DEF Start, Run, FeederLock, FeederRelease, Exit
  <2>2. \A v \in Worker : /\ status'[v] \in {"put", "writing"} <=> status[v] \in {"put", "writing"}
                          /\ status'[v] = "crashed" <=> status[v] = "crashed"
    BY <1>0, <1>1 DEF Start, Run, FeederLock, FeederRelease, Exit, Becomes, QueueTypeOK
  <2>3. /\ \A v : InPipe(v)' <=> InPipe(v)
        /\ \A v : Taken(v)' <=> Taken(v)
    BY <2>1 DEF InPipe, Taken
  <2>4. sentC' = sentC /\ lostC' = lostC
    BY <2>2, <2>3 DEF sentC, lostC
  <2> QED
    BY <2>1, <2>4 DEF Channel!channelVars, sentC, lostC
<1>2. ASSUME NEW w \in Worker, Put(w)
      PROVE  Channel!ChannelNext
  <2>1. /\ UNCHANGED <<pipe, workerResults>>
        /\ status[w] = "running" /\ status' = [status EXCEPT ![w] = "put"]
    BY <1>2 DEF Put, Becomes
  <2>2. ~InPipe(w) /\ ~Taken(w)
    BY <2>1, Places DEF BeforeWrite
  <2>3. /\ \A v : InPipe(v)' <=> InPipe(v)
        /\ \A v : Taken(v)' <=> Taken(v)
    BY <2>1 DEF InPipe, Taken
  <2>4. sentC' = sentC \cup {w} /\ lostC' = lostC
    BY <1>0, <2>1, <2>2, <2>3 DEF sentC, lostC, QueueTypeOK
  <2>5. w \notin sentC \cup lostC \cup Channel!ToSet(workerResults)
    BY <2>1, <2>2 DEF sentC, lostC, Taken, Channel!ToSet
  <2>6. Channel!Send(w)
    BY <2>1, <2>4, <2>5 DEF Channel!Send, sentC, lostC
  <2> QED
    BY <2>6 DEF Channel!ChannelNext
<1>3. ASSUME NEW w \in Worker, FeederWrite(w)
      PROVE  UNCHANGED Channel!channelVars
  <2>1. /\ UNCHANGED workerResults /\ pipe' = Append(pipe, w)
        /\ status[w] = "writing" /\ status' = [status EXCEPT ![w] = "written"]
    BY <1>3 DEF FeederWrite, Becomes
  <2>2. \A v : InPipe(v)' <=> InPipe(v) \/ v = w
    <3>1. /\ Len(pipe') = Len(pipe) + 1 /\ pipe' \in Seq(Worker)
          /\ \A i \in 1 .. Len(pipe) : pipe'[i] = pipe[i]
          /\ pipe'[Len(pipe) + 1] = w
      BY <1>0, <2>1, AppendProperties DEF QueueTypeOK
    <3>2. Len(pipe) \in Nat /\ DOMAIN pipe = 1 .. Len(pipe)
          /\ DOMAIN pipe' = 1 .. Len(pipe) + 1
      BY <1>0, <3>1, LenProperties DEF QueueTypeOK
    <3>3. \A v : (\E i \in DOMAIN pipe' : pipe'[i] = v)
                    <=> (\E i \in DOMAIN pipe : pipe[i] = v) \/ v = w
      BY <3>1, <3>2
    <3> QED
      BY <3>3 DEF InPipe
  <2>3. \A v : Taken(v)' <=> Taken(v)
    BY <2>1 DEF Taken
  <2>4. sentC' = sentC /\ lostC' = lostC
    BY <1>0, <2>1, <2>2, <2>3 DEF sentC, lostC, QueueTypeOK
  <2> QED
    BY <2>1, <2>4 DEF Channel!channelVars, sentC, lostC
<1>4. ASSUME NEW w \in Worker, Die(w)
      PROVE  Channel!ChannelNext
  BY <1>0, <1>4, DeathLoses DEF Die, Becomes, QueueTypeOK
<1>5. CASE TerminateAll
  BY <1>5, DeathLoses DEF TerminateAll
<1>6. CASE Take
  <2>0. PICK h \in Worker : h = Head(pipe)
    BY <1>0, <1>6, HeadTailProperties DEF Take, QueueTypeOK
  <2>1. /\ pipe # <<>> /\ pipe \in Seq(Worker) /\ workerResults \in Seq(Worker)
        /\ workerResults' = Append(workerResults, h)
        /\ pipe' = Tail(pipe) /\ UNCHANGED status
    BY <1>0, <1>6, <2>0 DEF Take, PipeRest, QueueTypeOK
  <2>2. InPipe(h)
    BY <2>0, <2>1, HeadTailProperties, LenProperties, EmptySeq DEF InPipe
  <2>3. OneReport(pipe)
    <3>1. \A i \in DOMAIN pipe : /\ i + Len(workerResults) \in DOMAIN Delivered
                                 /\ Delivered[i + Len(workerResults)] = pipe[i]
      BY <2>1, ConcatProperties, LenProperties DEF Delivered
    <3>2. Len(workerResults) \in Nat /\ DOMAIN pipe = 1 .. Len(pipe) /\ Len(pipe) \in Nat
      BY <2>1, LenProperties
    <3> QED
      BY <3>1, <3>2 DEF QInv, DeliveryRight, OneReport
  <2>4. \A v : InPipe(v)' <=> InPipe(v) /\ v # h
    <3>1. \A v : Reports(Tail(pipe), v) <=> Reports(pipe, v) /\ v # h
      BY <2>0, <2>1, <2>3, HeadGone
    <3> QED
      BY <2>1, <3>1 DEF InPipe, Reports
  <2>5. \A v : Taken(v)' <=> Taken(v) \/ v = h
    <3>1. ~Reports(workerResults, h)
      BY <2>2, Places DEF Reports, Taken
    <3>2. OneReport(workerResults)
      <4>1. \A i \in DOMAIN workerResults : i \in DOMAIN Delivered
                                           /\ Delivered[i] = workerResults[i]
        BY <2>1, ConcatProperties, LenProperties DEF Delivered
      <4> QED
        BY <4>1 DEF QInv, DeliveryRight, OneReport
    <3>3. \A v : Reports(workerResults', v) <=> Reports(workerResults, v) \/ v = h
      BY <2>1, <2>2, <3>1, <3>2, AppendReport
    <3> QED
      BY <3>3 DEF Reports, Taken
  <2>6. status[h] \notin {"put", "writing"}
    BY <2>2, Places DEF BeforeWrite
  <2>7. sentC' = sentC \ {h} /\ lostC' = lostC /\ h \in sentC
    BY <2>1, <2>2, <2>4, <2>5, <2>6 DEF sentC, lostC
  <2>8. Channel!Receive(h)
    BY <2>1, <2>7 DEF Channel!Receive, sentC, lostC
  <2> QED
    BY <2>8 DEF Channel!ChannelNext
<1>7. CASE UNCHANGED processVars
  <2>1. UNCHANGED <<status, pipe, workerResults>>
    BY <1>7 DEF processVars
  <2>2. sentC' = sentC /\ lostC' = lostC
    BY <2>1 DEF sentC, lostC, InPipe, Taken
  <2> QED
    BY <2>1, <2>2 DEF Channel!channelVars, sentC, lostC
<1> QED
  BY <1>1, <1>2, <1>3, <1>4, <1>5, <1>6, <1>7 DEF QueueNext, FeederStep

\* The queue with its feeder threads, whatever dies when, implements the
\* channel: a result is received at most once, only after it was put, and not
\* after its sender took it along.
THEOREM QueueRefinement == QueueSpec => ImplementsChannel
<1>1. QueueSpec => []QInv
  BY QueueInvariance
<1>2. QueueInit => Channel!ChannelInit
  BY InitChannel
<1>3. QInv /\ [QueueNext]_processVars => [Channel!ChannelNext]_(Channel!channelVars)
  BY NextChannel
<1> QED
  BY <1>1, <1>2, <1>3, PTL DEF QueueSpec, ImplementsChannel, Channel!ChannelSpec

-----------------------------------------------------------------------------
\* A set of naturals has a least element.
LEMMA Least ==
  ASSUME NEW U \in SUBSET Nat, U # {}
  PROVE  \E x \in U : \A y \in U : x <= y
<1>1. PICK x \in U : \A y \in U : ~ (<<y, x>> \in OpToRel(<, Nat))
  BY NatLessThanWellFounded, WFMin
<1>2. \A y \in U : ~ (y < x)
  BY <1>1 DEF OpToRel
<1> QED
  BY <1>2

\* Induction, stated over a set so that it can be cited without naming a
\* predicate: there is no least number outside T.
LEMMA SetInduction ==
  ASSUME NEW T \in SUBSET Nat, 0 \in T, \A n \in T : n + 1 \in T
  PROVE  T = Nat
<1> SUFFICES ASSUME T # Nat PROVE FALSE
  OBVIOUS
<1>1. PICK x \in Nat \ T : \A y \in Nat \ T : x <= y
  BY Least
<1>2. x - 1 \in Nat /\ x - 1 + 1 = x
  OBVIOUS
<1>3. x - 1 \notin T
  BY <1>2
<1> QED
  BY <1>1, <1>2, <1>3

LEMMA Parts ==
  ASSUME NEW S, IsFiniteSet(S)
  PROVE  \A s \in SUBSET S : /\ IsFiniteSet(s) /\ Cardinality(s) \in Nat
                             /\ Cardinality(s) = 0 <=> s = {}
                             /\ \A x \in s : Cardinality(s \ {x}) = Cardinality(s) - 1
BY FS_Subset, FS_CardinalityType, FS_EmptySet, FS_RemoveElement

\* Induction on the parts of a finite set.
LEMMA FiniteInduction ==
  ASSUME NEW S, IsFiniteSet(S), NEW F, {} \in F,
         \A s \in SUBSET S : s # {} /\ (\A x \in s : s \ {x} \in F) => s \in F
  PROVE  \A s \in SUBSET S : s \in F
<1> DEFINE T == {n \in Nat : \A s \in SUBSET S : Cardinality(s) = n => s \in F}
<1>1. 0 \in T
  BY Parts
<1>2. ASSUME NEW n \in T PROVE n + 1 \in T
  <2>1. n \in Nat
    OBVIOUS
  <2>2. ASSUME NEW s \in SUBSET S, Cardinality(s) = n + 1 PROVE s \in F
    <3>1. s # {} /\ \A x \in s : s \ {x} \in SUBSET S /\ Cardinality(s \ {x}) = n
      BY <2>1, <2>2, Parts
    <3> QED
      BY <3>1
  <2> QED
    BY <2>1, <2>2
<1>3. T = Nat
  <2> HIDE DEF T
  <2>1. T \subseteq Nat
    BY DEF T
  <2> QED
    BY <1>1, <1>2, <2>1, SetInduction
<1> QED
  BY <1>3, Parts

(* SumFunctionOnSet of the community modules, as a recursive function on the *)
(* parts of the set.                                                         *)

Chosen(s) == CHOOSE x \in s : TRUE
Value(f, g, s) == IF s = {} THEN 0 ELSE f[Chosen(s)] + g[s \ {Chosen(s)}]
Fold(f, S) == CHOOSE g : g = [s \in SUBSET S |-> Value(f, g, s)]

LEMMA SumIsFold ==
  ASSUME NEW f, NEW S PROVE SumFunctionOnSet(f, S) = Fold(f, S)[S]
BY DEF SumFunctionOnSet, FoldFunctionOnSet, MapThenFoldSet, Fold, Value, Chosen

LEMMA ChosenPart ==
  ASSUME NEW s, s # {} PROVE Chosen(s) \in s
BY DEF Chosen

\* The recursion on the parts of a finite set is well-defined.
LEMMA FoldExists ==
  ASSUME NEW f, NEW S, IsFiniteSet(S)
  PROVE  Fold(f, S) = [s \in SUBSET S |-> Value(f, Fold(f, S), s)]
<1> DEFINE Small(n) == {s \in SUBSET S : Cardinality(s) <= n}
           T == {n \in Nat : \E g : g = [s \in Small(n) |-> Value(f, g, s)]}
<1>0. \A s \in SUBSET S : Cardinality(s) \in Nat
  BY Parts
<1>1. 0 \in T
  <2> DEFINE g == [s \in Small(0) |-> 0]
  <2>1. \A s \in Small(0) : s = {}
    <3>1. \A c \in Nat : c <= 0 => c = 0
      OBVIOUS
    <3> QED
      BY <1>0, <3>1, Parts
  <2>2. g = [s \in Small(0) |-> Value(f, g, s)]
    BY <2>1 DEF Value
  <2> QED
    BY <2>2
<1>2. ASSUME NEW n \in T PROVE n + 1 \in T
  <2>1. n \in Nat /\ \A c \in Nat : c <= n => c <= n + 1
    OBVIOUS
  <2>2. PICK g : g = [s \in Small(n) |-> Value(f, g, s)]
    OBVIOUS
  <2> DEFINE h == [s \in Small(n + 1) |-> Value(f, g, s)]
  <2>3. \A s \in Small(n) : h[s] = g[s]
    <3>1. \A s \in Small(n) : s \in Small(n + 1)
      BY <1>0, <2>1
    <3>2. \A s \in Small(n) : g[s] = Value(f, g, s)
      BY <2>2, Zenon
    <3> QED
      BY <3>1, <3>2
  <2>4. ASSUME NEW s \in Small(n + 1) PROVE Value(f, g, s) = Value(f, h, s)
    <3> DEFINE r == s \ {Chosen(s)}
    <3>1. CASE s = {}
      BY <3>1 DEF Value
    <3>2. CASE s # {}
      <4>1. Cardinality(r) = Cardinality(s) - 1 /\ r \in SUBSET S
        BY <3>2, Parts, ChosenPart
      <4>2. r \in Small(n)
        BY <1>0, <2>1, <4>1
      <4> QED
        BY <2>3, <4>2 DEF Value
    <3> QED
      BY <3>1, <3>2
  <2>5. \E k : k = [s \in Small(n + 1) |-> Value(f, k, s)]
    <3>1. h = [s \in Small(n + 1) |-> Value(f, h, s)]
      BY <2>4
    <3> QED
      BY <3>1
  <2> HIDE DEF Small
  <2> QED
    BY <2>1, <2>5
<1>3. T = Nat
  <2> HIDE DEF T
  <2>1. T \subseteq Nat
    BY DEF T
  <2> QED
    BY <1>1, <1>2, <2>1, SetInduction
<1>4. Cardinality(S) \in T /\ SUBSET S = Small(Cardinality(S))
  BY <1>0, <1>3, FS_Subset
<1>5. \E g : g = [s \in SUBSET S |-> Value(f, g, s)]
  BY <1>4, Zenon
<1> QED
  BY <1>5, Zenon DEF Fold

LEMMA FoldStep ==
  ASSUME NEW f, NEW S, IsFiniteSet(S), NEW s \in SUBSET S
  PROVE  Fold(f, S)[s] = Value(f, Fold(f, S), s)
<1> DEFINE g == Fold(f, S)
<1>1. g = [t \in SUBSET S |-> Value(f, g, t)]
  BY FoldExists
<1> HIDE DEF g
<1>2. g[s] = Value(f, g, s)
  BY <1>1, Zenon
<1> QED
  BY <1>2 DEF g

\* A part is summed up alike in every set it is part of.
LEMMA SumOfPart ==
  ASSUME NEW f, NEW S, IsFiniteSet(S), NEW R \in SUBSET S
  PROVE  SumFunctionOnSet(f, R) = Fold(f, S)[R]
<1> DEFINE F == {s \in SUBSET R : Fold(f, R)[s] = Fold(f, S)[s]}
<1>1. IsFiniteSet(R)
  BY FS_Subset
<1>2. {} \in F
  BY <1>1, FoldStep DEF Value
<1>3. ASSUME NEW s \in SUBSET R, s # {}, \A x \in s : s \ {x} \in F PROVE s \in F
  <2>1. Fold(f, R)[s \ {Chosen(s)}] = Fold(f, S)[s \ {Chosen(s)}]
    BY <1>3, ChosenPart
  <2>2. s \in SUBSET S
    OBVIOUS
  <2> QED
    BY <1>1, <1>3, <2>1, <2>2, FoldStep DEF Value
<1>4. R \in F
  <2> HIDE DEF F
  <2> QED
    BY <1>1, <1>2, <1>3, FiniteInduction
<1> QED
  BY <1>4, SumIsFold

\* The sum over nothing is 0, and the sum over something begins with some term.
LEMMA SumEmpty == ASSUME NEW f PROVE SumFunctionOnSet(f, {}) = 0
BY FS_EmptySet, FoldStep, SumIsFold DEF Value

LEMMA SumChosen ==
  ASSUME NEW f, NEW S, IsFiniteSet(S), S # {}
  PROVE  /\ Chosen(S) \in S
         /\ SumFunctionOnSet(f, S) = f[Chosen(S)] + SumFunctionOnSet(f, S \ {Chosen(S)})
<1>1. Fold(f, S)[S] = f[Chosen(S)] + Fold(f, S)[S \ {Chosen(S)}]
  BY FoldStep DEF Value
<1>2. S \ {Chosen(S)} \in SUBSET S
  OBVIOUS
<1> QED
  BY <1>1, <1>2, SumIsFold, SumOfPart, ChosenPart

\* A sum of naturals is a natural.
LEMMA SumType ==
  ASSUME NEW f, NEW S, IsFiniteSet(S), \A x \in S : f[x] \in Nat
  PROVE  \A s \in SUBSET S : SumFunctionOnSet(f, s) \in Nat
<1> DEFINE F == {s \in SUBSET S : SumFunctionOnSet(f, s) \in Nat}
<1>1. {} \in F
  BY SumEmpty
<1>2. ASSUME NEW s \in SUBSET S, s # {}, \A x \in s : s \ {x} \in F PROVE s \in F
  <2> DEFINE c == Chosen(s)
             r == SumFunctionOnSet(f, s \ {c})
  <2>1. c \in s /\ SumFunctionOnSet(f, s) = f[c] + r
    BY <1>2, SumChosen, FS_Subset
  <2>2. r \in Nat /\ f[c] \in Nat
    BY <1>2, <2>1
  <2> HIDE DEF r, c
  <2> QED
    BY <2>1, <2>2
<1>3. \A s \in SUBSET S : s \in F
  <2> HIDE DEF F
  <2> QED
    BY <1>1, <1>2, FiniteInduction
<1> QED
  BY <1>3

\* Any term can be taken out of a sum.
LEMMA SumTakeOut ==
  ASSUME NEW f, NEW S, IsFiniteSet(S), \A x \in S : f[x] \in Nat
  PROVE  \A x \in S : SumFunctionOnSet(f, S) = SumFunctionOnSet(f, S \ {x}) + f[x]
<1> DEFINE Of(s) == SumFunctionOnSet(f, s)
           F == {s \in SUBSET S : \A x \in s : Of(s) = Of(s \ {x}) + f[x]}
<1>1. \A s \in SUBSET S : Of(s) \in Nat
  BY SumType
<1>2. ASSUME NEW s \in SUBSET S, s # {}, \A y \in s : s \ {y} \in F, NEW x \in s
      PROVE  Of(s) = Of(s \ {x}) + f[x]
  <2> DEFINE c == Chosen(s)
  <2>1. c \in s /\ Of(s) = f[c] + Of(s \ {c})
    BY <1>2, SumChosen, FS_Subset
  <2>2. x # c => /\ Of(s \ {c}) = Of((s \ {c}) \ {x}) + f[x]
                 /\ Of(s \ {x}) = Of((s \ {x}) \ {c}) + f[c]
    BY <1>2, <2>1
  <2>3. (s \ {c}) \ {x} = (s \ {x}) \ {c}
    OBVIOUS
  <2> HIDE DEF Of, c
  <2>4. /\ Of(s) \in Nat /\ Of(s \ {x}) \in Nat /\ Of(s \ {c}) \in Nat
        /\ Of((s \ {x}) \ {c}) \in Nat /\ f[x] \in Nat /\ f[c] \in Nat
    BY <1>1, <2>1
  <2>5. CASE x = c
    BY <2>1, <2>4, <2>5
  <2>6. CASE x # c
    BY <2>1, <2>2, <2>3, <2>4, <2>6
  <2> QED
    BY <2>5, <2>6
<1>3. \A s \in SUBSET S : s \in F
  <2>1. {} \in F
    OBVIOUS
  <2>2. \A s \in SUBSET S : s # {} /\ (\A x \in s : s \ {x} \in F) => s \in F
    BY <1>2
  <2> HIDE DEF F
  <2> QED
    BY <2>1, <2>2, FiniteInduction
<1> QED
  BY <1>3

\* A sum depends on its terms only.
LEMMA SumSame ==
  ASSUME NEW f, NEW g, NEW S, IsFiniteSet(S), \A x \in S : f[x] = g[x]
  PROVE  SumFunctionOnSet(f, S) = SumFunctionOnSet(g, S)
<1> DEFINE F == {s \in SUBSET S : SumFunctionOnSet(f, s) = SumFunctionOnSet(g, s)}
<1>1. {} \in F
  BY SumEmpty
<1>2. ASSUME NEW s \in SUBSET S, s # {}, \A x \in s : s \ {x} \in F PROVE s \in F
  <2> DEFINE c == Chosen(s)
             r == s \ {c}
  <2>1. /\ c \in s
        /\ SumFunctionOnSet(f, s) = f[c] + SumFunctionOnSet(f, r)
        /\ SumFunctionOnSet(g, s) = g[c] + SumFunctionOnSet(g, r)
    BY <1>2, SumChosen, FS_Subset
  <2>2. f[c] = g[c] /\ SumFunctionOnSet(f, r) = SumFunctionOnSet(g, r)
    BY <1>2, <2>1
  <2> HIDE DEF r, c
  <2> QED
    BY <2>1, <2>2
<1>3. S \in F
  <2> HIDE DEF F
  <2> QED
    BY <1>1, <1>2, FiniteInduction
<1> QED
  BY <1>3

\* A sum of nothing but zeros is zero.
LEMMA SumZero ==
  ASSUME NEW f, NEW S, IsFiniteSet(S), \A x \in S : f[x] = 0
  PROVE  SumFunctionOnSet(f, S) = 0
<1> DEFINE F == {s \in SUBSET S : SumFunctionOnSet(f, s) = 0}
<1>1. {} \in F
  BY SumEmpty
<1>2. ASSUME NEW s \in SUBSET S, s # {}, \A x \in s : s \ {x} \in F PROVE s \in F
  <2> DEFINE c == Chosen(s)
             r == SumFunctionOnSet(f, s \ {c})
  <2>1. c \in s /\ SumFunctionOnSet(f, s) = f[c] + r
    BY <1>2, SumChosen, FS_Subset
  <2>2. r = 0 /\ f[c] = 0
    BY <1>2, <2>1
  <2> HIDE DEF r, c
  <2> QED
    BY <2>1, <2>2
<1> HIDE DEF F
<1>3. \A s \in SUBSET S : s \in F
  BY <1>1, <1>2, FiniteInduction, Zenon
<1> QED
  BY <1>3 DEF F

\* A new element adds its term.
LEMMA SumAdd ==
  ASSUME NEW f, NEW S, IsFiniteSet(S), NEW x, x \notin S, \A y \in S \cup {x} : f[y] \in Nat
  PROVE  SumFunctionOnSet(f, S \cup {x}) = SumFunctionOnSet(f, S) + f[x]
<1>1. IsFiniteSet(S \cup {x})
  BY FS_AddElement
<1>2. (S \cup {x}) \ {x} = S
  OBVIOUS
<1> QED
  BY <1>1, <1>2, SumTakeOut

\* A term that grows by one adds one to the sums it is a term of.
LEMMA SumBump ==
  ASSUME NEW f, NEW g, NEW x, NEW I, IsFiniteSet(I),
         \A y \in I : f[y] \in Nat /\ g[y] = IF y = x THEN f[y] + 1 ELSE f[y]
  PROVE  /\ x \in I => SumFunctionOnSet(g, I) = SumFunctionOnSet(f, I) + 1
         /\ x \notin I => SumFunctionOnSet(g, I) = SumFunctionOnSet(f, I)
<1> DEFINE R == I \ {x}
<1>1. /\ \A y \in I : f[y] \in Nat /\ g[y] \in Nat /\ (y # x => g[y] = f[y])
      /\ x \in I => g[x] = f[x] + 1
  OBVIOUS
<1>2. IsFiniteSet(R) /\ \A y \in R : y \in I /\ y # x
  BY FS_Subset
<1>3. SumFunctionOnSet(g, R) = SumFunctionOnSet(f, R) /\ SumFunctionOnSet(f, R) \in Nat
  BY <1>1, <1>2, SumSame, SumType
<1>4. CASE x \in I
  <2>1. /\ SumFunctionOnSet(g, I) = SumFunctionOnSet(g, R) + g[x]
        /\ SumFunctionOnSet(f, I) = SumFunctionOnSet(f, R) + f[x]
    BY <1>1, <1>4, SumTakeOut
  <2> DEFINE a == SumFunctionOnSet(f, R)  h == SumFunctionOnSet(g, R)
  <2>2. a \in Nat /\ h = a /\ f[x] \in Nat /\ g[x] = f[x] + 1
    BY <1>1, <1>3, <1>4
  <2> HIDE DEF a, h
  <2>3. SumFunctionOnSet(g, I) = h + g[x] /\ SumFunctionOnSet(f, I) = a + f[x]
    BY <2>1 DEF a, h
  <2>4. SumFunctionOnSet(g, I) = SumFunctionOnSet(f, I) + 1
    BY <2>2, <2>3
  <2> QED
    BY <1>4, <2>4
<1>5. CASE x \notin I
  <2>1. R = I
    BY <1>5
  <2>2. SumFunctionOnSet(g, I) = SumFunctionOnSet(f, I) /\ SumFunctionOnSet(f, I) \in Nat
    BY <1>3, <2>1
  <2> QED
    BY <1>5, <2>2
<1> QED
  BY <1>4, <1>5

\* A sum of f along a sequence without repetition is the sum over its elements.
LEMMA SumAlong ==
  ASSUME NEW W, NEW s \in Seq(W), OneReport(s), NEW f, \A w \in W : f[w] \in Nat
  PROVE  SumFunction([i \in DOMAIN s |-> f[s[i]]]) = SumFunctionOnSet(f, ToSet(s))
<1> DEFINE D == DOMAIN s
           g == [i \in D |-> f[s[i]]]
           Of(I) == {s[i] : i \in I}
           F == {I \in SUBSET D : /\ IsFiniteSet(Of(I))
                                  /\ SumFunctionOnSet(g, I) = SumFunctionOnSet(f, Of(I))}
<1>1. IsFiniteSet(D) /\ \A i \in D : s[i] \in W
  BY FS_Interval, LenProperties, ElementOfSeq
<1>2. {} \in F
  <2>1. Of({}) = {}
    OBVIOUS
  <2> QED
    BY <2>1, SumEmpty, FS_EmptySet
<1>3. ASSUME NEW I \in SUBSET D, I # {}, \A i \in I : I \ {i} \in F PROVE I \in F
  <2> PICK i \in I : TRUE
    BY <1>3
  <2> DEFINE J == I \ {i}
  <2>1. /\ J \in SUBSET D /\ IsFiniteSet(J) /\ i \notin J /\ I = J \cup {i}
    BY <1>1, FS_Subset
  <2>2. IsFiniteSet(Of(J)) /\ SumFunctionOnSet(g, J) = SumFunctionOnSet(f, Of(J))
    BY <1>3
  <2>3. Of(I) = Of(J) \cup {s[i]} /\ s[i] \notin Of(J) /\ Of(I) \subseteq W
    BY <1>1, <2>1 DEF OneReport
  <2>4. \A j \in I : g[j] = f[s[j]] /\ g[j] \in Nat
    BY <1>1
  <2> HIDE DEF g, J, Of
  <2>5. SumFunctionOnSet(g, J \cup {i}) = SumFunctionOnSet(g, J) + g[i]
    BY <2>1, <2>4, SumAdd
  <2>6. \A w \in Of(J) \cup {s[i]} : f[w] \in Nat
    BY <2>3
  <2>7. SumFunctionOnSet(f, Of(J) \cup {s[i]}) = SumFunctionOnSet(f, Of(J)) + f[s[i]]
    BY <2>2, <2>3, <2>6, SumAdd
  <2>8. IsFiniteSet(Of(I))
    BY <2>2, <2>3, FS_AddElement
  <2> QED
    BY <2>1, <2>2, <2>3, <2>4, <2>5, <2>7, <2>8
<1>4. D \in F
  <2>1. D \in SUBSET D
    OBVIOUS
  <2> HIDE DEF F, D
  <2> QED
    BY <1>1, <1>2, <1>3, <2>1, FiniteInduction
<1> QED
  BY <1>4 DEF SumFunction, ToSet
-----------------------------------------------------------------------------
(* Progress. *)

\* The owner of the write lock writes, or died with it; nobody else writes.
LockRight ==
    \A w \in Worker : /\ status[w] \in {"writing", "written"} => wlock = w
                      /\ wlock = w => status[w] \in {"writing", "written", "crashed"}

LEMMA InitLockRight == QueueInit => LockRight
  BY QueueAssumption DEF QueueInit, LockRight, Worker

LEMMA NextLockRight == QInv /\ LockRight /\ [QueueNext]_processVars => LockRight'
<1> SUFFICES ASSUME QInv, LockRight, [QueueNext]_processVars PROVE LockRight'
  OBVIOUS
<1>0. QueueTypeOK
  BY DEF QInv
<1>1. ASSUME NEW w \in Worker, Start(w) \/ Run(w) \/ Put(w) \/ Exit(w) \/ Die(w)
      PROVE  LockRight'
  <2>1. /\ UNCHANGED wlock /\ status' = [status EXCEPT ![w] = status'[w]]
        /\ status'[w] \in {"started", "running", "put", "exited", "crashed"}
        /\ status'[w] = "crashed" \/ status[w] \in {"unborn", "started", "running", "flushed"}
    BY <1>0, <1>1 DEF Start, Run, Put, Exit, Die, Becomes, QueueTypeOK
  <2> QED
    BY <1>0, <2>1 DEF QueueTypeOK, LockRight
<1>2. ASSUME NEW w \in Worker, FeederLock(w) \/ FeederWrite(w) \/ FeederRelease(w)
      PROVE  LockRight'
  <2>1. CASE FeederLock(w)
    BY <1>0, <2>1, QueueAssumption DEF FeederLock, Becomes, QueueTypeOK, LockRight, Worker
  <2>2. CASE FeederWrite(w)
    BY <1>0, <2>2 DEF FeederWrite, Becomes, QueueTypeOK, LockRight
  <2>3. CASE FeederRelease(w)
    BY <1>0, <2>3, QueueAssumption
       DEF FeederRelease, LockFree, Becomes, QueueTypeOK, LockRight, Worker
  <2> QED
    BY <1>2, <2>1, <2>2, <2>3
<1>3. CASE TerminateAll
  BY <1>3 DEF TerminateAll, LockRight
<1>4. CASE Take \/ UNCHANGED processVars
  BY <1>4 DEF Take, processVars, LockRight
<1> QED
  BY <1>1, <1>2, <1>3, <1>4 DEF QueueNext, FeederStep

\* At most one feeder is between taking the lock and releasing it.
THEOREM LockIsExclusive == QueueSpec => []LockRight
  BY InitLockRight, NextLockRight, QueueInvariance, PTL DEF QueueSpec

\* The guards of Run, Put and FeederStep.
CanGoOn(w) ==
    \/ status[w] \in {"started", "running", "written", "flushed"}
    \/ status[w] = "put" /\ wlock = 0
    \/ status[w] = "writing" /\ Len(pipe) < pipeCapacity

\* If a process is left and none can go on, they block each other in one of
\* the two ways: the feeder with the lock could go on otherwise.
LEMMA SomebodyGoesOn ==
  ASSUME QInv, LockRight, ~Blocked, NEW w \in Worker, status[w] \in Alive
  PROVE  \E v \in Worker : CanGoOn(v)
<1>1. /\ \A v \in Worker : status[v] = "writing" => Len(pipe) < pipeCapacity
      /\ Len(pipe) \in Nat /\ wlock \in 0 .. NWorkers
  <2>1. Len(pipe) \in Nat /\ pipeCapacity \in Nat /\ Len(pipe) <= pipeCapacity
    BY LenProperties, QueueAssumption DEF QInv, QueueTypeOK
  <2> QED
    BY <2>1 DEF Blocked, QInv, QueueTypeOK
<1>2. CASE status[w] = "put" /\ wlock # 0
  <2>1. wlock \in Worker
    BY <1>1, <1>2, QueueAssumption DEF Worker
  <2>2. status[wlock] \in {"writing", "written"}
    BY <2>1 DEF LockRight, Blocked
  <2> QED
    BY <1>1, <2>1, <2>2 DEF CanGoOn
<1>3. CASE ~(status[w] = "put" /\ wlock # 0)
  BY <1>1, <1>3 DEF Alive, CanGoOn
<1> QED
  BY <1>2, <1>3

\* What a process has before it at most, and the queue with all of them.
StepsLeft(s) ==
    CASE s = "unborn" -> 8 [] s = "started" -> 7 [] s = "running" -> 6 [] s = "put" -> 5
      [] s = "writing" -> 4 [] s = "written" -> 2 [] s = "flushed" -> 1 [] OTHER -> 0
StepsOf == [w \in Worker |-> StepsLeft(status[w])]
QueueRest == SumFunctionOnSet(StepsOf, Worker) + Len(pipe)

\* A sum falls with its elements, by as much as any one of them at least.
LEMMA SumFalls ==
  ASSUME NEW f, NEW g, NEW S, IsFiniteSet(S),
         \A x \in S : f[x] \in Nat /\ g[x] \in Nat /\ g[x] <= f[x]
  PROVE  /\ SumFunctionOnSet(f, S) \in Nat /\ SumFunctionOnSet(g, S) \in Nat
         /\ SumFunctionOnSet(g, S) <= SumFunctionOnSet(f, S)
         /\ \A x \in S : SumFunctionOnSet(g, S) + f[x] <= SumFunctionOnSet(f, S) + g[x]
<1> DEFINE F == {s \in SUBSET S : SumFunctionOnSet(g, s) <= SumFunctionOnSet(f, s)}
<1>1. /\ \A s \in SUBSET S : SumFunctionOnSet(f, s) \in Nat
      /\ \A s \in SUBSET S : SumFunctionOnSet(g, s) \in Nat
  BY SumType
<1>2. \A s \in SUBSET S : IsFiniteSet(s)
  BY FS_Subset
<1>3. \A s \in SUBSET S : \A x \in s :
        /\ SumFunctionOnSet(f, s) = SumFunctionOnSet(f, s \ {x}) + f[x]
        /\ SumFunctionOnSet(g, s) = SumFunctionOnSet(g, s \ {x}) + g[x]
  <2> TAKE s \in SUBSET S
  <2>1. /\ IsFiniteSet(s) /\ \A x \in s : f[x] \in Nat
        /\ \A x \in s : g[x] \in Nat
    BY <1>2
  <2> QED
    BY <2>1, SumTakeOut
<1>4. {} \in F
  BY SumEmpty
<1>5. ASSUME NEW s \in SUBSET S, s # {}, \A x \in s : s \ {x} \in F PROVE s \in F
  <2>1. PICK x \in s : TRUE
    BY <1>5
  <2>2. s \ {x} \in F /\ s \ {x} \in SUBSET S /\ x \in S
    BY <1>5, <2>1
  <2>3. SumFunctionOnSet(g, s) <= SumFunctionOnSet(f, s)
    BY <1>1, <1>3, <2>1, <2>2
  <2> QED
    BY <2>3
<1>6. \A s \in SUBSET S : SumFunctionOnSet(g, s) <= SumFunctionOnSet(f, s)
  <2>1. \A s \in SUBSET S : s # {} /\ (\A x \in s : s \ {x} \in F) => s \in F
    BY <1>5
  <2>2. \A s \in SUBSET S : s \in F
    <3> HIDE DEF F
    <3> QED
      BY <1>4, <2>1, FiniteInduction
  <2> QED
    BY <2>2
<1>7. ASSUME NEW x \in S
      PROVE  SumFunctionOnSet(g, S) + f[x] <= SumFunctionOnSet(f, S) + g[x]
  <2>1. S \ {x} \in SUBSET S /\ S \in SUBSET S
    OBVIOUS
  <2>2. /\ SumFunctionOnSet(f, S) = SumFunctionOnSet(f, S \ {x}) + f[x]
        /\ SumFunctionOnSet(g, S) = SumFunctionOnSet(g, S \ {x}) + g[x]
    BY <1>3, <2>1
  <2>3. /\ SumFunctionOnSet(f, S \ {x}) \in Nat /\ SumFunctionOnSet(g, S \ {x}) \in Nat
        /\ SumFunctionOnSet(g, S \ {x}) <= SumFunctionOnSet(f, S \ {x})
    BY <1>1, <1>6, <2>1
  <2>4. f[x] \in Nat /\ g[x] \in Nat
    OBVIOUS
  <2> QED
    BY <2>2, <2>3, <2>4
<1> QED
  BY <1>1, <1>6, <1>7

LEMMA StepsLeftOf ==
  ASSUME QueueTypeOK
  PROVE  /\ \A w \in Worker : StepsOf[w] = StepsLeft(status[w])
         /\ \A s \in Status : StepsLeft(s) \in Nat
         /\ StepsLeft("unborn") = 8 /\ StepsLeft("started") = 7 /\ StepsLeft("running") = 6
         /\ StepsLeft("put") = 5 /\ StepsLeft("writing") = 4 /\ StepsLeft("written") = 2
         /\ StepsLeft("flushed") = 1 /\ StepsLeft("exited") = 0 /\ StepsLeft("crashed") = 0
<1>1. \A w \in Worker : StepsOf[w] = StepsLeft(status[w])
  BY DEF StepsOf
<1>2. \A s \in Status : StepsLeft(s) \in Nat
  BY DEF StepsLeft, Status, Alive
<1> QED
  BY <1>1, <1>2 DEF StepsLeft

\* A process that moves, or some that end, and what becomes of the sum.
LEMMA SumOfSteps ==
  ASSUME QueueTypeOK, QueueTypeOK',
         \A w \in Worker : StepsLeft(status'[w]) <= StepsLeft(status[w])
  PROVE  LET before == SumFunctionOnSet(StepsOf, Worker)
             after == SumFunctionOnSet(StepsOf', Worker)
         IN  /\ before \in Nat /\ after \in Nat /\ after <= before
             /\ \A w \in Worker :
                   after + StepsLeft(status[w]) <= before + StepsLeft(status'[w])
<1>1. \A w \in Worker : /\ StepsOf[w] = StepsLeft(status[w])
                        /\ StepsOf'[w] = StepsLeft(status'[w])
  BY DEF StepsOf
<1>2. \A w \in Worker : StepsOf[w] \in Nat /\ StepsOf'[w] \in Nat
  BY <1>1, StepsLeftOf DEF QueueTypeOK
<1>3. IsFiniteSet(Worker)
  BY FS_Interval, QueueAssumption DEF Worker
<1> HIDE DEF StepsOf, Worker
<1> QED
  BY <1>1, <1>2, <1>3, SumFalls

LEMMA QueueRestFalls ==
  ASSUME QInv, [QueueNext]_processVars
  PROVE  /\ QueueRest \in Nat /\ QueueRest' \in Nat /\ QueueRest' <= QueueRest
         /\ UNCHANGED processVars \/ QueueRest' < QueueRest
<1> DEFINE left(s) == StepsLeft(s)
           sum == SumFunctionOnSet(StepsOf, Worker)
<1>0. /\ QueueTypeOK /\ QueueTypeOK'
      /\ Len(pipe) \in Nat /\ Len(pipe') \in Nat
  BY NextQInv, LenProperties DEF QInv, QueueTypeOK
<1>1. ASSUME NEW w \in Worker,
             Start(w) \/ Run(w) \/ Put(w) \/ FeederLock(w) \/ FeederRelease(w) \/ Exit(w)
                \/ Die(w)
      PROVE  /\ UNCHANGED pipe /\ status' = [status EXCEPT ![w] = status'[w]]
             /\ left(status'[w]) < left(status[w])
  <2>1. CASE Die(w)
    <3>1. /\ UNCHANGED pipe /\ status' = [status EXCEPT ![w] = "crashed"]
          /\ status'[w] = "crashed"
      BY <1>0, <2>1 DEF Die, Becomes, QueueTypeOK
    <3>2. left(status[w]) > 0 /\ left("crashed") = 0
      BY <1>0, <2>1, StepsLeftOf DEF Die, Alive
    <3> QED
      BY <3>1, <3>2
  <2>2. CASE ~Die(w)
    <3>1. /\ UNCHANGED pipe /\ status' = [status EXCEPT ![w] = status'[w]]
          /\ <<status[w], status'[w]>> \in
                {<<"unborn", "started">>, <<"started", "running">>, <<"running", "put">>,
                 <<"put", "writing">>, <<"written", "flushed">>, <<"flushed", "exited">>}
      BY <1>0, <1>1, <2>2 DEF Start, Run, Put, FeederLock, FeederRelease, Exit, Becomes,
         QueueTypeOK
    <3>2. left(status'[w]) < left(status[w])
      BY <1>0, <3>1, StepsLeftOf
    <3> QED
      BY <3>1, <3>2
  <2> QED
    BY <2>1, <2>2
<1>2. ASSUME NEW w \in Worker, FeederWrite(w)
      PROVE  /\ Len(pipe') = Len(pipe) + 1 /\ status' = [status EXCEPT ![w] = status'[w]]
             /\ left(status'[w]) + 2 = left(status[w])
  BY <1>0, <1>2, StepsLeftOf, AppendProperties DEF FeederWrite, Becomes, QueueTypeOK
<1>3. CASE TerminateAll
  <2>1. UNCHANGED <<pipe, pipeCapacity, wlock, workerResults>>
    BY <1>3 DEF TerminateAll
  <2>2. \A w \in Worker : /\ left(status'[w]) <= left(status[w])
                          /\ status[w] \in Alive => left(status'[w]) < left(status[w])
                          /\ status[w] \notin Alive => status'[w] = status[w]
    <3> TAKE w \in Worker
    <3>1. CASE status[w] \in Alive
      <4>1. status'[w] = "crashed"
        BY <1>3, <3>1 DEF TerminateAll
      <4>2. left("crashed") = 0 /\ left(status[w]) \in Nat /\ left(status[w]) > 0
        BY <1>0, <3>1, StepsLeftOf DEF QueueTypeOK, Alive
      <4>3. left(status'[w]) = 0
        BY <4>1, <4>2
      <4> HIDE DEF left
      <4> QED
        BY <3>1, <4>2, <4>3
    <3>2. CASE status[w] \notin Alive
      <4>1. status'[w] = status[w]
        BY <1>3, <3>2 DEF TerminateAll
      <4>2. left(status[w]) \in Nat
        BY <1>0, StepsLeftOf DEF QueueTypeOK
      <4>3. left(status'[w]) = left(status[w])
        BY <4>1
      <4> HIDE DEF left
      <4> QED
        BY <3>2, <4>1, <4>2, <4>3
    <3> QED
      BY <3>1, <3>2
  <2>3. UNCHANGED status \/ \E w \in Worker : status[w] \in Alive
    BY <1>0, <1>3 DEF TerminateAll, QueueTypeOK
  <2> HIDE DEF left
  <2>4. /\ sum \in Nat /\ sum' \in Nat /\ sum' <= sum
        /\ \A w \in Worker : sum' + left(status[w]) <= sum + left(status'[w])
    BY <1>0, <2>2, SumOfSteps DEF left
  <2>5. \A w \in Worker : left(status[w]) \in Nat /\ left(status'[w]) \in Nat
    BY <1>0, StepsLeftOf DEF QueueTypeOK, left
  <2>6. QueueRest = sum + Len(pipe) /\ QueueRest' = sum' + Len(pipe')
    BY DEF QueueRest
  <2> HIDE DEF sum
  <2> QED
    BY <1>0, <2>1, <2>2, <2>3, <2>4, <2>5, <2>6 DEF processVars
<1>4. CASE Take
  <2>1. Len(pipe') = Len(pipe) - 1 /\ UNCHANGED status
    BY <1>0, <1>4, HeadTailProperties DEF Take, PipeRest, QueueTypeOK
  <2>2. sum \in Nat /\ sum' = sum
    <3>1. \A w \in Worker : left(status'[w]) <= left(status[w])
      BY <1>0, <2>1, StepsLeftOf DEF QueueTypeOK
    <3> QED
      BY <1>0, <2>1, <3>1, SumOfSteps DEF StepsOf
  <2> QED
    BY <1>0, <2>1, <2>2 DEF QueueRest
<1>5. CASE UNCHANGED processVars
  <2>1. UNCHANGED <<status, pipe>>
    BY <1>5 DEF processVars
  <2>2. sum \in Nat /\ sum' = sum
    <3>1. \A w \in Worker : left(status'[w]) <= left(status[w])
      BY <1>0, <2>1, StepsLeftOf DEF QueueTypeOK
    <3> QED
      BY <1>0, <2>1, <3>1, SumOfSteps DEF StepsOf
  <2> QED
    BY <1>0, <1>5, <2>1, <2>2 DEF QueueRest
<1>6. ASSUME NEW w \in Worker, status' = [status EXCEPT ![w] = status'[w]],
             left(status'[w]) < left(status[w]),
             Len(pipe') + left(status'[w]) < Len(pipe) + left(status[w])
      PROVE  QueueRest \in Nat /\ QueueRest' \in Nat /\ QueueRest' < QueueRest
  <2> HIDE DEF left
  <2>1. \A v \in Worker : left(status[v]) \in Nat /\ left(status'[v]) \in Nat
    BY <1>0, StepsLeftOf DEF QueueTypeOK, left
  <2>2. \A v \in Worker : left(status'[v]) <= left(status[v])
    <3> TAKE v \in Worker
    <3>1. v = w \/ status'[v] = status[v]
      BY <1>0, <1>6 DEF QueueTypeOK
    <3> QED
      BY <1>6, <2>1, <3>1
  <2>3. /\ sum \in Nat /\ sum' \in Nat
        /\ sum' + left(status[w]) <= sum + left(status'[w])
    BY <1>0, <2>2, SumOfSteps DEF left
  <2>4. QueueRest = sum + Len(pipe) /\ QueueRest' = sum' + Len(pipe')
    BY DEF QueueRest
  <2>5. /\ left(status[w]) \in Nat /\ left(status'[w]) \in Nat
        /\ Len(pipe) \in Nat /\ Len(pipe') \in Nat
        /\ Len(pipe') + left(status'[w]) < Len(pipe) + left(status[w])
    BY <1>0, <1>6, <2>1
  <2> HIDE DEF sum
  <2>6. sum + Len(pipe) \in Nat /\ sum' + Len(pipe') \in Nat
        /\ sum' + Len(pipe') < sum + Len(pipe)
    BY <2>3, <2>5
  <2> QED
    BY <2>4, <2>6
<1>7. \A w \in Worker : left(status[w]) \in Nat /\ left(status'[w]) \in Nat
  BY <1>0, StepsLeftOf DEF QueueTypeOK
<1>8. ASSUME NEW w \in Worker,
             Start(w) \/ Run(w) \/ Put(w) \/ FeederStep(w) \/ Die(w)
      PROVE  QueueRest \in Nat /\ QueueRest' \in Nat /\ QueueRest' < QueueRest
  <2> HIDE DEF left, sum
  <2>1. /\ status' = [status EXCEPT ![w] = status'[w]]
        /\ left(status'[w]) < left(status[w])
        /\ Len(pipe') + left(status'[w]) < Len(pipe) + left(status[w])
    <3>1. CASE FeederWrite(w)
      BY <1>0, <1>2, <1>7, <3>1
    <3>2. CASE ~FeederWrite(w)
      BY <1>0, <1>1, <1>7, <1>8, <3>2 DEF FeederStep
    <3> QED
      BY <3>1, <3>2
  <2> QED
    BY <1>6, <2>1
<1> QED
  BY <1>3, <1>4, <1>5, <1>8 DEF QueueNext

\* Every step of the processes or of the reader brings the queue nearer to its
\* end, and there is an end: none of them goes on for ever.
THEOREM QueueEnds == QueueSpec => [][QueueRest' \in Nat /\ QueueRest' < QueueRest]_processVars
<1>1. QInv /\ [QueueNext]_processVars
        => [QueueRest' \in Nat /\ QueueRest' < QueueRest]_processVars
  BY QueueRestFalls
<1> QED
  BY <1>1, QueueInvariance, PTL DEF QueueSpec

\* The pipe holds no more results than there are workers past their writes: a
\* pipe with room for all the results is never full before the last of them.
LEMMA RoomForTheRest ==
  ASSUME QInv, NEW w \in Worker, status[w] = "writing"
  PROVE  Len(pipe) < NWorkers
<1> DEFINE Others == Worker \ {w}
           n == Len(Delivered)
<1>1. /\ Delivered \in Seq(Worker) /\ n = Len(workerResults) + Len(pipe)
      /\ Len(workerResults) \in Nat /\ Len(pipe) \in Nat
  BY ConcatProperties, LenProperties DEF QInv, QueueTypeOK, Delivered
<1>2. OneReport(Delivered) /\ ~Reports(Delivered, w)
  BY DEF QInv, DeliveryRight, BeforeWrite
<1>3. IsFiniteSet(Others) /\ Cardinality(Others) = NWorkers - 1 /\ NWorkers \in Nat
  <2>1. IsFiniteSet(Worker) /\ Cardinality(Worker) = NWorkers
    BY FS_Interval, QueueAssumption DEF Worker
  <2> QED
    BY <2>1, FS_RemoveElement, QueueAssumption
<1>4. DOMAIN Delivered = 1 .. n /\ n \in Nat /\ Delivered \in [1 .. n -> Others]
  <2>1. DOMAIN Delivered = 1 .. n /\ n \in Nat
    BY <1>1, LenProperties
  <2>2. \A i \in 1 .. n : Delivered[i] \in Others
    BY <1>1, <1>2, <2>1, ElementOfSeq DEF Reports
  <2>3. Delivered = [i \in 1 .. n |-> Delivered[i]]
    BY <1>1, <2>1
  <2> HIDE DEF n, Others
  <2> QED
    BY <2>1, <2>2, <2>3
<1>5. IsFiniteSet(1 .. n) /\ Cardinality(1 .. n) = n
  <2> HIDE DEF n
  <2>1. n \in Nat
    BY <1>4
  <2> QED
    BY <2>1, FS_Interval
<1>6. ~(Cardinality(Others) < Cardinality(1 .. n))
  <2> SUFFICES ASSUME Cardinality(Others) < Cardinality(1 .. n) PROVE FALSE
    OBVIOUS
  <2> HIDE DEF n, Others
  <2>1. \E x, y \in 1 .. n : x # y /\ Delivered[x] = Delivered[y]
    BY <1>3, <1>4, <1>5, FS_PigeonHole
  <2> QED
    BY <1>2, <1>4, <2>1 DEF OneReport
<1> HIDE DEF n, Others
<1> QED
  BY <1>1, <1>3, <1>4, <1>5, <1>6
=============================================================================
