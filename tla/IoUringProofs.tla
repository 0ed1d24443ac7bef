---------------------------- MODULE IoUringProofs ----------------------------
(***************************************************************************)
(* Proofs about the io_uring adapter, for every number of requests, every  *)
(* queue depth, and failing or partial submits at any point.               *)
(***************************************************************************)
EXTENDS IoUring, SequenceTheorems, FiniteSetTheorems, TLAPS

\* A ring in which every request up to k is at one place at most, and no
\* other request is: q queued, f executed, c completed.
RingRight(q, f, c, k) ==
    /\ q \in Seq(Op) /\ f \subseteq Op /\ c \in Seq(Completion)
    /\ k \in 0 .. MaxOps
    /\ \A i \in DOMAIN q : q[i] <= k /\ q[i] \notin f
    /\ \A o \in f : o <= k
    /\ \A i \in DOMAIN c : c[i].op <= k /\ c[i].op \notin f
    /\ \A i, j \in DOMAIN q : q[i] = q[j] => i = j
    /\ \A i, j \in DOMAIN c : c[i].op = c[j].op => i = j
    /\ \A i \in DOMAIN q, j \in DOMAIN c : q[i] # c[j].op

IInv == TypeOK /\ RingRight(sq, inflight, cq, calls)

-----------------------------------------------------------------------------
\* What the entries left by a submit are.
LEMMA AfterSubmitEntries ==
  ASSUME NEW S, NEW q \in Seq(S), NEW n \in 0 .. Len(q)
  PROVE  /\ AfterSubmit(q, n) \in Seq(S)
         /\ Len(AfterSubmit(q, n)) = Len(q) - n
         /\ \A i \in 1 .. Len(q) - n : AfterSubmit(q, n)[i] = q[i + n]
<1> DEFINE m == n + 1
           l == Len(q)
<1>1. l \in Nat /\ m \in Int /\ l \in Int /\ n \in Nat /\ n <= l
  BY LenProperties
<1>2. \A i \in m .. l : q[i] \in S
  BY <1>1, ElementOfSeq
<1> HIDE DEF m, l
<1>3. /\ SubSeq(q, m, l) \in Seq(S)
      /\ Len(SubSeq(q, m, l)) = IF m <= l THEN l - m + 1 ELSE 0
      /\ \A i \in 1 .. l - m + 1 : SubSeq(q, m, l)[i] = q[m + i - 1]
  BY <1>1, <1>2, SubSeqProperties
<1>4. l - m + 1 = l - n /\ (~(m <= l) => l - n = 0)
  BY <1>1 DEF m
<1>5. \A i \in 1 .. l - n : m + i - 1 = i + n
  BY <1>1 DEF m
<1>6. Len(SubSeq(q, m, l)) = l - n
  BY <1>1, <1>3, <1>4
<1>7. \A i \in 1 .. l - n : SubSeq(q, m, l)[i] = q[i + n]
  BY <1>3, <1>4, <1>5
<1> QED
  BY <1>3, <1>6, <1>7 DEF AfterSubmit, m, l

\* A submit that takes n entries moves them to the kernel and keeps the rest.
LEMMA SubmitKeeps ==
  ASSUME NEW q, NEW f, NEW c, NEW k, RingRight(q, f, c, k), NEW n \in 0 .. Len(q)
  PROVE  RingRight(AfterSubmit(q, n), f \cup Submitted(q, n), c, k)
<1> DEFINE r == AfterSubmit(q, n)
           g == f \cup Submitted(q, n)
<1>1. q \in Seq(Op) /\ k \in 0 .. MaxOps /\ f \subseteq Op /\ c \in Seq(Completion)
  BY DEF RingRight
<1>2. Len(q) \in Nat /\ n \in Nat /\ n <= Len(q) /\ DOMAIN q = 1 .. Len(q)
  BY <1>1, LenProperties
<1>3. r \in Seq(Op) /\ Len(r) = Len(q) - n
      /\ \A i \in 1 .. Len(q) - n : r[i] = q[i + n]
  BY <1>1, AfterSubmitEntries
<1>4. DOMAIN r = 1 .. Len(q) - n
  BY <1>3, LenProperties
<1>5. \A i \in DOMAIN r : i \in Nat /\ i + n \in DOMAIN q /\ r[i] = q[i + n] /\ i + n > n
  BY <1>2, <1>3, <1>4
<1>6. \A o \in Submitted(q, n) : \E i \in DOMAIN q : i <= n /\ q[i] = o
  BY <1>2 DEF Submitted
<1> HIDE DEF r
<1>7. g \subseteq Op
  BY <1>1, <1>2, <1>6, ElementOfSeq
<1>8. \A i \in DOMAIN r : r[i] <= k /\ r[i] \notin g
  BY <1>2, <1>5, <1>6 DEF RingRight
<1>9. \A o \in g : o <= k
  BY <1>6 DEF RingRight
<1>10. \A i \in DOMAIN c : c[i].op <= k /\ c[i].op \notin g
  BY <1>6 DEF RingRight
<1>11. \A i, j \in DOMAIN r : r[i] = r[j] => i = j
  BY <1>2, <1>5 DEF RingRight
<1>12. \A i \in DOMAIN r, j \in DOMAIN c : r[i] # c[j].op
  BY <1>5 DEF RingRight
<1>13. \A i, j \in DOMAIN c : c[i].op = c[j].op => i = j
  BY DEF RingRight
<1> QED
  BY <1>1, <1>3, <1>7, <1>8, <1>9, <1>10, <1>11, <1>12, <1>13 DEF RingRight, r

\* Preparing an entry puts the next request at the end of the queue.
LEMMA PrepareKeeps ==
  ASSUME NEW q, NEW f, NEW c, NEW k, RingRight(q, f, c, k), k < MaxOps
  PROVE  RingRight(Append(q, k + 1), f, c, k + 1)
<1> DEFINE r == Append(q, k + 1)
<1>1. q \in Seq(Op) /\ k \in 0 .. MaxOps /\ f \subseteq Op /\ c \in Seq(Completion)
  BY DEF RingRight
<1>2. k + 1 \in Op /\ k + 1 \in 0 .. MaxOps /\ k \in Nat
  BY <1>1, IoUringAssumption DEF Op
<1>3. /\ r \in Seq(Op) /\ Len(r) = Len(q) + 1
      /\ \A i \in 1 .. Len(q) : r[i] = q[i]
      /\ r[Len(q) + 1] = k + 1
  BY <1>1, <1>2, AppendProperties
<1>4. Len(q) \in Nat /\ DOMAIN q = 1 .. Len(q) /\ DOMAIN r = 1 .. Len(q) + 1
  BY <1>1, <1>3, LenProperties
<1> HIDE DEF r
<1>5. \A i \in DOMAIN r : (i \in DOMAIN q /\ r[i] = q[i]) \/ (i = Len(q) + 1 /\ r[i] = k + 1)
  BY <1>3, <1>4
<1>6. \A i \in DOMAIN q : q[i] \in Nat /\ q[i] <= k
  BY <1>1, <1>4, ElementOfSeq, IoUringAssumption DEF Op, RingRight
<1>7. \A o \in f : o \in Nat /\ o <= k
  BY <1>1, IoUringAssumption DEF Op, RingRight
<1>8. \A i \in DOMAIN c : c[i].op \in Nat /\ c[i].op <= k
  <2>1. \A i \in DOMAIN c : c[i] \in Completion
    BY <1>1, ElementOfSeq, LenProperties
  <2> QED
    BY <2>1, IoUringAssumption DEF Op, Completion, RingRight
<1>9. \A i \in DOMAIN r : r[i] <= k + 1 /\ r[i] \notin f
  BY <1>2, <1>5, <1>6, <1>7 DEF RingRight
<1>10. \A i, j \in DOMAIN r : r[i] = r[j] => i = j
  BY <1>2, <1>5, <1>6 DEF RingRight
<1>11. \A i \in DOMAIN r, j \in DOMAIN c : r[i] # c[j].op
  BY <1>2, <1>5, <1>8 DEF RingRight
<1>12. (\A o \in f : o <= k + 1) /\ \A i \in DOMAIN c : c[i].op <= k + 1
  BY <1>2, <1>7, <1>8
<1> QED
  BY <1>1, <1>2, <1>3, <1>9, <1>10, <1>11, <1>12 DEF RingRight, r

\* A completion takes the request from the kernel to the completion queue.
LEMMA CompleteKeeps ==
  ASSUME NEW q, NEW f, NEW c, NEW k, RingRight(q, f, c, k),
         NEW o \in f, NEW x \in Completion, x.op = o
  PROVE  RingRight(q, f \ {o}, Append(c, x), k)
<1> DEFINE d == Append(c, x)
<1>1. c \in Seq(Completion)
  BY DEF RingRight
<1>2. /\ d \in Seq(Completion) /\ Len(d) = Len(c) + 1
      /\ \A i \in 1 .. Len(c) : d[i] = c[i]
      /\ d[Len(c) + 1] = x
  BY <1>1, AppendProperties
<1>3. Len(c) \in Nat /\ DOMAIN c = 1 .. Len(c) /\ DOMAIN d = 1 .. Len(c) + 1
  BY <1>1, <1>2, LenProperties
<1> HIDE DEF d
<1>4. \A i \in DOMAIN d : (i \in DOMAIN c /\ d[i] = c[i]) \/ (i = Len(c) + 1 /\ d[i].op = o)
  BY <1>2, <1>3
<1>5. \A i \in DOMAIN d : d[i].op <= k /\ d[i].op \notin f \ {o}
  BY <1>4 DEF RingRight
<1>6. \A i, j \in DOMAIN d : d[i].op = d[j].op => i = j
  BY <1>4 DEF RingRight
<1>7. \A i \in DOMAIN q, j \in DOMAIN d : q[i] # d[j].op
  BY <1>4 DEF RingRight
<1> QED
  BY <1>2, <1>5, <1>6, <1>7 DEF RingRight, d

\* Marking the oldest completion seen removes it alone.
LEMMA SeenKeeps ==
  ASSUME NEW q, NEW f, NEW c, NEW k, RingRight(q, f, c, k), c # <<>>
  PROVE  RingRight(q, f, Tail(c), k)
<1> DEFINE d == Tail(c)
<1>1. c \in Seq(Completion)
  BY DEF RingRight
<1>2. /\ d \in Seq(Completion) /\ Len(d) = Len(c) - 1
      /\ \A i \in 1 .. Len(d) : d[i] = c[i + 1]
  BY <1>1, HeadTailProperties
<1>3. Len(c) \in Nat /\ DOMAIN c = 1 .. Len(c) /\ DOMAIN d = 1 .. Len(c) - 1
  BY <1>1, <1>2, LenProperties
<1> HIDE DEF d
<1>4. \A i \in DOMAIN d : i \in Nat /\ i + 1 \in DOMAIN c /\ d[i] = c[i + 1]
  BY <1>2, <1>3
<1>5. \A i, j \in DOMAIN d : d[i].op = d[j].op => i = j
  <2> TAKE i, j \in DOMAIN d
  <2> HAVE d[i].op = d[j].op
  <2>1. c[i + 1].op = c[j + 1].op /\ i + 1 \in DOMAIN c /\ j + 1 \in DOMAIN c
    BY <1>4
  <2>2. i + 1 = j + 1
    BY <2>1 DEF RingRight
  <2> QED
    BY <1>4, <2>2
<1> QED
  BY <1>2, <1>4, <1>5 DEF RingRight, d

\* Finding a free entry leaves room for one more in the queue.
LEMMA FreeEntryFits ==
  ASSUME TypeOK, NEW n \in 0 .. Len(sq), FreeEntry(n)
  PROVE  Len(AfterSubmit(sq, n)) < QueueDepth
<1>1. sq \in Seq(Op) /\ Len(sq) <= QueueDepth
  BY DEF TypeOK
<1>2. Len(AfterSubmit(sq, n)) = Len(sq) - n /\ Len(sq) \in Nat
  BY <1>1, AfterSubmitEntries, LenProperties
<1>3. Len(sq) = QueueDepth => n >= 1
  BY <1>1, <1>2, IoUringAssumption DEF FreeEntry, Taken
<1> QED
  BY <1>1, <1>2, <1>3, IoUringAssumption

\* A request puts its own entry behind those the first submit left.
LEMMA PrepareRight ==
  ASSUME IInv, calls < MaxOps, NEW n \in 0 .. Len(sq), FreeEntry(n)
  PROVE  LET q == Append(AfterSubmit(sq, n), calls + 1)
         IN  /\ RingRight(q, inflight \cup Submitted(sq, n), cq, calls + 1)
             /\ Len(q) <= QueueDepth
<1> DEFINE r == AfterSubmit(sq, n)
<1>1. RingRight(r, inflight \cup Submitted(sq, n), cq, calls)
  BY SubmitKeeps DEF IInv
<1>2. RingRight(Append(r, calls + 1), inflight \cup Submitted(sq, n), cq, calls + 1)
  BY <1>1, PrepareKeeps
<1>3. r \in Seq(Op) /\ calls + 1 \in Op
  BY <1>1, IoUringAssumption DEF RingRight, Op
<1>4. Len(Append(r, calls + 1)) = Len(r) + 1 /\ Len(r) \in Nat
  BY <1>3, AppendProperties, LenProperties
<1>5. Len(r) < QueueDepth
  BY FreeEntryFits DEF IInv
<1> QED
  BY <1>2, <1>4, <1>5, IoUringAssumption

\* What an ending request records is an outcome.
LEMMA EndsType ==
  ASSUME outcome \in [Op -> Outcome], NEW o \in Op,
         NEW kind \in {"none", "ok"} \cup Errors, NEW from \in 0 .. MaxOps,
         Ends(o, kind, from)
  PROVE  outcome' \in [Op -> Outcome]
<1>1. [kind |-> kind, from |-> from] \in Outcome
  BY DEF Outcome
<1> QED
  BY <1>1 DEF Ends

\* The next request is a request.
LEMMA NextCall == IInv /\ MayCall => calls + 1 \in Op /\ calls \in Nat
  BY IoUringAssumption DEF IInv, RingRight, MayCall, Op

\* The oldest completion is one of a request.
LEMMA HeadCompletion ==
  ASSUME IInv, cq # <<>>
  PROVE  Head(cq) \in Completion /\ Head(cq).op \in Op
<1>1. cq \in Seq(Completion)
  BY DEF IInv, TypeOK
<1>2. Head(cq) \in Completion
  BY <1>1, HeadTailProperties
<1> QED
  BY <1>2 DEF Completion

\* A completion in the ring: some request was made.
LEMMA CallMade ==
  ASSUME IInv, cq # <<>>
  PROVE  calls \in Op
<1>1. cq \in Seq(Completion) /\ RingRight(sq, inflight, cq, calls) /\ calls \in 0 .. MaxOps
  BY DEF IInv, TypeOK
<1>2. 1 \in DOMAIN cq /\ cq[1] = Head(cq)
  BY <1>1, EmptySeq, LenProperties
<1>3. cq[1].op <= calls /\ cq[1].op \in Op
  BY <1>1, <1>2, HeadCompletion DEF RingRight
<1> QED
  BY <1>1, <1>3, IoUringAssumption DEF Op

LEMMA InitInv == Init => IInv
<1> SUFFICES ASSUME Init PROVE IInv
  OBVIOUS
<1>1. /\ <<>> \in Seq(Op) /\ <<>> \in Seq(Completion) /\ Len(<<>>) = 0
      /\ DOMAIN <<>> = {}
  OBVIOUS
<1>2. TypeOK
  <2>1. sq \in Seq(Op) /\ cq \in Seq(Completion) /\ inflight \subseteq Op
    BY <1>1 DEF Init
  <2>2. Len(sq) <= QueueDepth /\ calls \in 0 .. MaxOps
    BY <1>1, IoUringAssumption DEF Init
  <2>3. [kind |-> "none", from |-> 0] \in Outcome
    BY IoUringAssumption DEF Outcome
  <2> QED
    BY <2>1, <2>2, <2>3 DEF Init, TypeOK
<1>3. RingRight(sq, inflight, cq, calls)
  BY <1>1, IoUringAssumption DEF Init, RingRight
<1> QED
  BY <1>2, <1>3 DEF IInv

LEMMA NextInv == IInv /\ [Next]_vars => IInv'
<1> SUFFICES ASSUME IInv, [Next]_vars PROVE IInv'
  OBVIOUS
<1> USE IoUringAssumption
<1>0. TypeOK /\ RingRight(sq, inflight, cq, calls)
  BY DEF IInv
<1>e. Errors \subseteq {"none", "ok"} \cup Errors /\ 0 \in 0 .. MaxOps
      /\ \A o \in Op : o \in 0 .. MaxOps
  BY DEF Op
\* A request refused before its entry is prepared leaves the ring alone.
<1>1. ASSUME MayCall, calls' = calls + 1,
             NEW e \in Errors, Ends(calls', e, 0), failed' = TRUE,
             initialized' \in BOOLEAN, UNCHANGED <<retries, pc, ringVars, mapped>>
      PROVE  IInv'
  <2>1. calls + 1 \in Op /\ calls' \in Op
    BY <1>1, NextCall
  <2>2. outcome' \in [Op -> Outcome]
    BY <1>0, <1>1, <1>e, <2>1, EndsType DEF TypeOK
  <2>3. RingRight(sq, inflight, cq, calls + 1)
    <3>1. /\ sq \in Seq(Op) /\ inflight \subseteq Op /\ cq \in Seq(Completion)
          /\ \A i \in DOMAIN cq : cq[i] \in Completion
          /\ \A i \in DOMAIN sq : sq[i] \in Op
      BY <1>0, ElementOfSeq, LenProperties DEF TypeOK
    <3>2. calls \in Nat /\ calls + 1 \in 0 .. MaxOps
      BY <2>1, <1>1, NextCall DEF Op
    <3>3. /\ \A i \in DOMAIN sq : sq[i] <= calls + 1
          /\ \A o \in inflight : o <= calls + 1
      BY <1>0, <3>1, <3>2 DEF RingRight, Op
    <3>4. \A i \in DOMAIN cq : cq[i].op <= calls + 1
      BY <1>0, <3>1, <3>2 DEF RingRight, Op, Completion
    <3> QED
      BY <1>0, <3>2, <3>3, <3>4 DEF RingRight
  <2>4. TypeOK'
    BY <1>0, <1>1, <1>e, <2>1, <2>2 DEF TypeOK, ringVars
  <2>5. RingRight(sq, inflight, cq, calls)'
    BY <1>1, <2>3 DEF ringVars
  <2> QED
    BY <2>4, <2>5 DEF IInv
<1>2. CASE InitializeFails
  BY <1>0, <1>1, <1>2 DEF InitializeFails, Errors, TypeOK
<1>3. CASE Refuse
  BY <1>1, <1>3 DEF Refuse, Errors
<1>4. CASE QueueFull
  BY <1>1, <1>4 DEF QueueFull, Errors
<1>5. CASE SubmitFails
  <2>1. PICK n \in 0 .. Len(sq) :
           /\ FreeEntry(n)
           /\ sq' = Append(AfterSubmit(sq, n), calls')
           /\ inflight' = inflight \cup Submitted(sq, n)
    BY <1>5 DEF SubmitFails
  <2>2. MayCall /\ calls' = calls + 1 /\ calls' \in Op /\ calls < MaxOps
    BY <1>5, NextCall DEF SubmitFails, MayCall
  <2>3. /\ RingRight(sq', inflight', cq, calls + 1)
        /\ Len(sq') <= QueueDepth
    BY <2>1, <2>2, PrepareRight
  <2>4. outcome' \in [Op -> Outcome]
    BY <1>0, <1>5, <1>e, <2>2, EndsType DEF SubmitFails, TypeOK, Errors
  <2>5. TypeOK'
    BY <1>0, <1>5, <1>e, <2>2, <2>3, <2>4 DEF SubmitFails, TypeOK, RingRight
  <2>6. RingRight(sq, inflight, cq, calls)'
    BY <1>5, <2>2, <2>3 DEF SubmitFails
  <2> QED
    BY <2>5, <2>6 DEF IInv
<1>6. CASE Submit
  <2>2. MayCall /\ calls' = calls + 1 /\ calls' \in Op /\ calls < MaxOps
    BY <1>6, NextCall DEF Submit, MayCall
  <2>0. PICK n \in 0 .. Len(sq) :
           /\ FreeEntry(n)
           /\ \E m \in Taken(Append(AfterSubmit(sq, n), calls + 1)) :
                /\ sq' = AfterSubmit(Append(AfterSubmit(sq, n), calls + 1), m)
                /\ inflight' = inflight \cup Submitted(sq, n)
                                 \cup Submitted(Append(AfterSubmit(sq, n), calls + 1), m)
    BY <1>6, <2>2 DEF Submit
  <2>1. PICK m \in Taken(Append(AfterSubmit(sq, n), calls + 1)) :
           /\ sq' = AfterSubmit(Append(AfterSubmit(sq, n), calls + 1), m)
           /\ inflight' = inflight \cup Submitted(sq, n)
                            \cup Submitted(Append(AfterSubmit(sq, n), calls + 1), m)
    BY <2>0
  <2> DEFINE q == Append(AfterSubmit(sq, n), calls + 1)
             f == inflight \cup Submitted(sq, n)
  <2>3. RingRight(q, f, cq, calls + 1) /\ Len(q) <= QueueDepth
    BY <2>0, <2>2, PrepareRight
  <2> HIDE DEF q, f
  <2>4. m \in 0 .. Len(q) /\ q \in Seq(Op) /\ Len(q) \in Nat
    BY <2>1, <2>3, LenProperties DEF Taken, RingRight, q
  <2>5. RingRight(AfterSubmit(q, m), f \cup Submitted(q, m), cq, calls + 1)
    BY <2>3, <2>4, SubmitKeeps
  <2>6. Len(AfterSubmit(q, m)) <= QueueDepth
    BY <2>3, <2>4, AfterSubmitEntries
  <2>7. RingRight(sq', inflight', cq, calls + 1) /\ Len(sq') <= QueueDepth
    BY <2>1, <2>5, <2>6 DEF q, f
  <2>8. TypeOK'
    BY <1>0, <1>6, <1>e, <2>2, <2>7 DEF Submit, TypeOK, RingRight
  <2>9. RingRight(sq, inflight, cq, calls)'
    BY <1>6, <2>2, <2>7 DEF Submit
  <2> QED
    BY <2>8, <2>9 DEF IInv
<1>7. ASSUME NEW o \in Op, Complete(o)
      PROVE  IInv'
  <2>1. PICK r \in {"ok", "error"} : cq' = Append(cq, [op |-> o, res |-> r])
    BY <1>7 DEF Complete
  <2>2. [op |-> o, res |-> r] \in Completion /\ o \in inflight
    BY <1>7, <2>1 DEF Complete, Completion
  <2>3. RingRight(sq, inflight \ {o}, Append(cq, [op |-> o, res |-> r]), calls)
    BY <1>0, <2>2, CompleteKeeps
  <2>4. RingRight(sq, inflight, cq, calls)'
    BY <1>7, <2>1, <2>3 DEF Complete
  <2>5. TypeOK'
    BY <1>0, <1>7, <2>4 DEF Complete, TypeOK, RingRight
  <2> QED
    BY <2>4, <2>5 DEF IInv
<1>8. CASE HarvestOk
  <2>1. calls \in Op
    BY <1>8, CallMade DEF HarvestOk
  <2>2. Head(cq).op \in Op /\ Head(cq).op \in 0 .. MaxOps
    BY <1>8, <1>e, HeadCompletion DEF HarvestOk
  <2>3. outcome' \in [Op -> Outcome]
    BY <1>0, <1>8, <2>1, <2>2, EndsType DEF HarvestOk, TypeOK
  <2>4. RingRight(sq, inflight, cq, calls)'
    BY <1>0, <1>8, SeenKeeps DEF HarvestOk, Seen
  <2>5. TypeOK'
    BY <1>0, <1>8, <2>3, <2>4 DEF HarvestOk, TypeOK, RingRight
  <2> QED
    BY <2>4, <2>5 DEF IInv
<1>9. CASE HarvestError
  <2>1. calls \in Op
    BY <1>9, CallMade DEF HarvestError
  <2>2. Head(cq).op \in Op /\ Head(cq).op \in 0 .. MaxOps
    BY <1>9, <1>e, HeadCompletion DEF HarvestError
  <2>3. outcome' \in [Op -> Outcome]
    BY <1>0, <1>9, <2>1, <2>2, EndsType DEF HarvestError, TypeOK, Errors
  <2>4. TypeOK'
    BY <1>0, <1>9, <2>3 DEF HarvestError, TypeOK
  <2> QED
    BY <1>0, <1>9, <2>4 DEF HarvestError, IInv
<1>10. CASE ReleaseBuffer
  BY <1>0, <1>10 DEF ReleaseBuffer, ringVars, IInv, TypeOK
<1>11. CASE Flush
  <2>1. PICK n \in 0 .. Len(sq) :
           sq' = AfterSubmit(sq, n) /\ inflight' = inflight \cup Submitted(sq, n)
    <3>1. sq \in Seq(Op) /\ Len(sq) \in Nat
      BY <1>0, LenProperties DEF TypeOK
    <3> QED
      BY <1>11, <3>1 DEF Flush, Taken
  <2>2. RingRight(sq', inflight', cq, calls)
    BY <1>0, <2>1, SubmitKeeps
  <2>3. Len(sq') <= QueueDepth
    <3>1. sq \in Seq(Op) /\ Len(sq) \in Nat /\ Len(sq) <= QueueDepth
      BY <1>0, LenProperties DEF TypeOK
    <3> QED
      BY <2>1, <3>1, AfterSubmitEntries
  <2>4. TypeOK'
    BY <1>0, <1>11, <2>2, <2>3 DEF Flush, TypeOK, RingRight
  <2> QED
    BY <1>11, <2>2, <2>4 DEF Flush, IInv
<1>12. CASE Close
  <2>1. /\ <<>> \in Seq(Op) /\ <<>> \in Seq(Completion) /\ Len(<<>>) = 0
        /\ DOMAIN <<>> = {}
    OBVIOUS
  <2>2. TypeOK'
    <3>1. sq' \in Seq(Op) /\ cq' \in Seq(Completion) /\ inflight' \subseteq Op
      BY <1>12, <2>1 DEF Close
    <3>2. Len(sq') <= QueueDepth
      BY <1>12, <2>1 DEF Close
    <3> QED
      BY <1>0, <1>12, <3>1, <3>2 DEF Close, TypeOK
  <2>3. RingRight(sq, inflight, cq, calls)'
    BY <1>0, <1>12, <2>1 DEF Close, RingRight
  <2> QED
    BY <2>2, <2>3 DEF IInv
<1>13. CASE Reopen
  BY <1>0, <1>13 DEF Reopen, ringVars, IInv, TypeOK
<1>14. CASE UNCHANGED vars
  BY <1>0, <1>14 DEF vars, IInv, TypeOK
<1> QED
  BY <1>2, <1>3, <1>4, <1>5, <1>6, <1>7, <1>8, <1>9, <1>10, <1>11, <1>12, <1>13, <1>14
  DEF Next

\* The invariant the properties follow from.
THEOREM Invariance == Spec => []IInv
  BY InitInv, NextInv, PTL DEF Spec

\* Every variable keeps its type, and the submission queue its depth.
THEOREM TypeCorrect == Spec => []TypeOK
<1>1. IInv => TypeOK
  BY DEF IInv
<1> QED
  BY <1>1, Invariance, PTL

-----------------------------------------------------------------------------
(***************************************************************************)
(* What the ring holds is paid for by failures.  Submitting moves entries  *)
(* and adds none; a request adds its own, and its end takes one out or is  *)
(* one more failure.                                                       *)
(***************************************************************************)
Size(q, f, c) == Len(q) + Cardinality(f) + Len(c)

\* A request that has not ended has no outcome yet.
Unended ==
    \A o \in Op : o > calls \/ (o = calls /\ pc = "waiting") => outcome[o].kind = "none"

BudgetInv == Unended /\ LeftoversAreFailures

LEMMA OpFinite == \A S \in SUBSET Op : IsFiniteSet(S) /\ Cardinality(S) \in Nat
<1>1. IsFiniteSet(Op)
  BY FS_Interval, IoUringAssumption DEF Op
<1> QED
  BY <1>1, FS_Subset, FS_CardinalityType

LEMMA RingFinite ==
  ASSUME NEW q, NEW f, NEW c, NEW k, RingRight(q, f, c, k)
  PROVE  /\ Len(q) \in Nat /\ Cardinality(f) \in Nat /\ Len(c) \in Nat
         /\ IsFiniteSet(f) /\ Size(q, f, c) \in Nat
<1>1. q \in Seq(Op) /\ c \in Seq(Completion) /\ f \in SUBSET Op
  BY DEF RingRight
<1>2. Len(q) \in Nat /\ Len(c) \in Nat
  BY <1>1, LenProperties
<1>3. IsFiniteSet(f) /\ Cardinality(f) \in Nat
  BY <1>1, OpFinite
<1> QED
  BY <1>2, <1>3 DEF Size

\* Of n entries at most n are taken.
LEMMA SubmittedCount ==
  ASSUME NEW q, NEW n \in Nat
  PROVE  IsFiniteSet(Submitted(q, n)) /\ Cardinality(Submitted(q, n)) \in Nat
         /\ Cardinality(Submitted(q, n)) <= n
<1> DEFINE S == Submitted(q, n)
           g == [i \in 1 .. n |-> q[i]]
<1>1. g \in Surjection(1 .. n, S)
  BY DEF Surjection, Submitted
<1>2. IsFiniteSet(1 .. n) /\ Cardinality(1 .. n) = n
  BY FS_Interval
<1> HIDE DEF S, g
<1>3. IsFiniteSet(S) /\ Cardinality(S) <= n
  BY <1>1, <1>2, FS_Surjection
<1> QED
  BY <1>3, FS_CardinalityType DEF S

LEMMA SubmitSize ==
  ASSUME NEW q, NEW f, NEW c, NEW k, RingRight(q, f, c, k), NEW n \in 0 .. Len(q)
  PROVE  Size(AfterSubmit(q, n), f \cup Submitted(q, n), c) <= Size(q, f, c)
<1> DEFINE g == f \cup Submitted(q, n)
           r == AfterSubmit(q, n)
<1>0. q \in Seq(Op)
  BY DEF RingRight
<1>r. /\ Len(q) \in Nat /\ Cardinality(f) \in Nat /\ Len(c) \in Nat
      /\ IsFiniteSet(f)
  BY RingFinite
<1>1. q \in Seq(Op) /\ Len(q) \in Nat /\ Cardinality(f) \in Nat /\ Len(c) \in Nat
      /\ IsFiniteSet(f) /\ n \in Nat
  BY <1>0, <1>r
<1>2. Len(r) = Len(q) - n
  BY <1>1, AfterSubmitEntries
<1>3. /\ IsFiniteSet(Submitted(q, n)) /\ Cardinality(Submitted(q, n)) \in Nat
      /\ Cardinality(Submitted(q, n)) <= n
  BY <1>1, SubmittedCount
<1>4. /\ IsFiniteSet(g)
      /\ Cardinality(g) = Cardinality(f) + Cardinality(Submitted(q, n))
                            - Cardinality(f \cap Submitted(q, n))
  BY <1>1, <1>3, FS_Union
<1>5. Cardinality(f \cap Submitted(q, n)) \in Nat
  BY <1>1, FS_Intersection, FS_CardinalityType
<1> HIDE DEF g, r
<1>6. Len(r) + Cardinality(g) + Len(c) <= Len(q) + Cardinality(f) + Len(c)
  BY <1>1, <1>2, <1>3, <1>4, <1>5
<1> QED
  BY <1>6 DEF Size, g, r

\* A request that finds a free entry adds one, whatever is submitted.
LEMMA PrepareSize ==
  ASSUME IInv, calls < MaxOps, NEW n \in 0 .. Len(sq), FreeEntry(n)
  PROVE  LET q == Append(AfterSubmit(sq, n), calls + 1)
             f == inflight \cup Submitted(sq, n)
         IN  Size(q, f, cq) \in Nat /\ Size(q, f, cq) <= Size(sq, inflight, cq) + 1
<1> DEFINE r == AfterSubmit(sq, n)
           q == Append(r, calls + 1)
           f == inflight \cup Submitted(sq, n)
<1>1. RingRight(r, f, cq, calls) /\ RingRight(sq, inflight, cq, calls)
  BY SubmitKeeps DEF IInv
<1>2. RingRight(q, f, cq, calls + 1)
  BY <1>1, PrepareKeeps
<1>3. Size(r, f, cq) <= Size(sq, inflight, cq)
  BY <1>1, SubmitSize
<1>4. r \in Seq(Op) /\ calls + 1 \in Op
  BY <1>1, IoUringAssumption DEF RingRight, Op
<1>5. Len(q) = Len(r) + 1
  BY <1>4, AppendProperties
<1>6. /\ Len(r) \in Nat /\ Cardinality(f) \in Nat /\ Len(cq) \in Nat
      /\ Size(r, f, cq) \in Nat /\ Size(sq, inflight, cq) \in Nat /\ Size(q, f, cq) \in Nat
  BY <1>1, <1>2, RingFinite
<1> HIDE DEF r, q, f
<1>7. Size(q, f, cq) = Size(r, f, cq) + 1
  BY <1>5, <1>6 DEF Size
<1>8. Size(q, f, cq) <= Size(sq, inflight, cq) + 1
  BY <1>3, <1>6, <1>7
<1> QED
  BY <1>6, <1>8 DEF r, q, f

\* A request that ends for the first time is one failure more, or none.
LEMMA FailureCount ==
  ASSUME IInv, NEW o \in Op, outcome[o].kind = "none", NEW kind, NEW from,
         Ends(o, kind, from)
  PROVE  /\ Cardinality(Failures) \in Nat /\ Cardinality(Failures') \in Nat
         /\ Cardinality(Failures) <= Cardinality(Failures')
         /\ kind \in {"AdapterError", "HardwareIoError"}
              => Cardinality(Failures') = Cardinality(Failures) + 1
<1>1. outcome \in [Op -> Outcome]
  BY DEF IInv, TypeOK
<1>2. \A u \in Op : outcome'[u] = IF u = o THEN [kind |-> kind, from |-> from]
                                          ELSE outcome[u]
  BY <1>1 DEF Ends
<1>3. o \notin Failures
  BY DEF Failures
<1>4. Failures' = IF kind \in {"AdapterError", "HardwareIoError"}
                     THEN Failures \cup {o} ELSE Failures
  BY <1>2, <1>3 DEF Failures
<1>5. IsFiniteSet(Failures) /\ Cardinality(Failures) \in Nat
  BY OpFinite DEF Failures
<1>6. Cardinality(Failures \cup {o}) = Cardinality(Failures) + 1
  BY <1>3, <1>5, FS_AddElement
<1> QED
  BY <1>4, <1>5, <1>6

\* LeftoversAreFailures with its two sides named.
LEMMA BudgetSides ==
  /\ LeftoversAreFailures <=>
       Size(sq, inflight, cq) <= Cardinality(Failures) + (IF pc = "waiting" THEN 1 ELSE 0)
  /\ LeftoversAreFailures' <=>
       Size(sq', inflight', cq') <= Cardinality(Failures') + (IF pc' = "waiting" THEN 1 ELSE 0)
BY DEF LeftoversAreFailures, Size

\* A step that neither grows the ring nor ends a request.
LEMMA SizeKept ==
  ASSUME IInv, IInv', BudgetInv, UNCHANGED <<calls, outcome>>,
         Size(sq', inflight', cq') <= Size(sq, inflight, cq),
         pc' = "waiting" <=> pc = "waiting"
  PROVE  BudgetInv'
<1>1. Unended'
  BY DEF BudgetInv, Unended
<1>2. Cardinality(Failures') = Cardinality(Failures) /\ Cardinality(Failures) \in Nat
  BY OpFinite DEF Failures
<1>3. Size(sq, inflight, cq) \in Nat /\ Size(sq', inflight', cq') \in Nat
  BY RingFinite DEF IInv
<1>4. Size(sq, inflight, cq) <= Cardinality(Failures) + (IF pc = "waiting" THEN 1 ELSE 0)
  BY BudgetSides DEF BudgetInv
<1>5. Size(sq', inflight', cq') <= Cardinality(Failures') + (IF pc' = "waiting" THEN 1 ELSE 0)
  BY <1>2, <1>3, <1>4
<1> QED
  BY <1>1, <1>5, BudgetSides DEF BudgetInv

\* A request that ends before it waits may have added its entry if it failed.
LEMMA RefusedBudget ==
  ASSUME IInv, IInv', BudgetInv, MayCall, calls' = calls + 1, pc' = "idle",
         NEW e \in Errors, Ends(calls', e, 0),
         \/ Size(sq', inflight', cq') <= Size(sq, inflight, cq)
         \/ /\ e = "AdapterError"
            /\ Size(sq', inflight', cq') <= Size(sq, inflight, cq) + 1
  PROVE  BudgetInv'
<1>1. calls + 1 \in Op /\ calls' \in Op /\ calls \in Nat /\ pc = "idle"
  BY NextCall DEF MayCall
<1>2. outcome[calls'].kind = "none"
  BY <1>1 DEF BudgetInv, Unended
<1>3. /\ Cardinality(Failures) \in Nat /\ Cardinality(Failures') \in Nat
      /\ Cardinality(Failures) <= Cardinality(Failures')
      /\ e = "AdapterError" => Cardinality(Failures') = Cardinality(Failures) + 1
  BY <1>1, <1>2, FailureCount
<1>4. Size(sq, inflight, cq) \in Nat /\ Size(sq', inflight', cq') \in Nat
  BY RingFinite DEF IInv
<1>5. Size(sq, inflight, cq) <= Cardinality(Failures)
  <2>1. Size(sq, inflight, cq) <= Cardinality(Failures) + 0
    BY <1>1, BudgetSides DEF BudgetInv
  <2> QED
    BY <1>3, <1>4, <2>1
<1>6. Size(sq', inflight', cq') <= Cardinality(Failures') + 0
  BY <1>3, <1>4, <1>5
<1>7. Unended'
  <2>1. \A u \in Op : u # calls' => outcome'[u] = outcome[u]
    BY DEF Ends, IInv, TypeOK
  <2>2. \A u \in Op : u > calls' => u > calls /\ u # calls'
    BY <1>1 DEF Op
  <2> QED
    BY <2>1, <2>2 DEF BudgetInv, Unended
<1> QED
  BY <1>6, <1>7, BudgetSides DEF BudgetInv

LEMMA NextBudget ==
  ASSUME IInv, IInv', BudgetInv, [Next]_vars
  PROVE  BudgetInv'
<1> USE IoUringAssumption
<1>0. TypeOK /\ RingRight(sq, inflight, cq, calls)
  BY DEF IInv
<1>s. Size(sq, inflight, cq) \in Nat /\ Size(sq', inflight', cq') \in Nat
  BY RingFinite DEF IInv
<1>f. Cardinality(Failures) \in Nat
  BY OpFinite DEF Failures
<1>r. UNCHANGED ringVars => Size(sq', inflight', cq') <= Size(sq, inflight, cq)
  BY <1>s DEF ringVars
<1>1. CASE InitializeFails
  BY <1>1, <1>r, RefusedBudget DEF InitializeFails, Errors, MayCall
<1>2. CASE Refuse
  BY <1>2, <1>r, RefusedBudget DEF Refuse, Errors, MayCall
<1>3. CASE QueueFull
  BY <1>3, <1>r, RefusedBudget DEF QueueFull, Errors, MayCall
<1>4. CASE SubmitFails
  <2>1. PICK n \in 0 .. Len(sq) :
           /\ FreeEntry(n)
           /\ sq' = Append(AfterSubmit(sq, n), calls')
           /\ inflight' = inflight \cup Submitted(sq, n)
    BY <1>4 DEF SubmitFails
  <2>2. calls' = calls + 1 /\ calls < MaxOps /\ cq' = cq
    BY <1>4 DEF SubmitFails, MayCall
  <2>3. Size(sq', inflight', cq') <= Size(sq, inflight, cq) + 1
    BY <2>1, <2>2, PrepareSize
  <2> QED
    BY <1>4, <2>3, RefusedBudget DEF SubmitFails, Errors, MayCall
<1>5. CASE Submit
  <2>1. calls' = calls + 1 /\ calls < MaxOps /\ cq' = cq /\ pc = "idle" /\ pc' = "waiting"
        /\ outcome' = outcome /\ calls \in Nat
    BY <1>5, NextCall DEF Submit, MayCall
  <2>2. PICK n \in 0 .. Len(sq) :
           /\ FreeEntry(n)
           /\ \E m \in Taken(Append(AfterSubmit(sq, n), calls + 1)) :
                /\ sq' = AfterSubmit(Append(AfterSubmit(sq, n), calls + 1), m)
                /\ inflight' = inflight \cup Submitted(sq, n)
                                 \cup Submitted(Append(AfterSubmit(sq, n), calls + 1), m)
    BY <1>5, <2>1 DEF Submit
  <2> DEFINE q == Append(AfterSubmit(sq, n), calls + 1)
             f == inflight \cup Submitted(sq, n)
  <2>3. PICK m \in Taken(q) : sq' = AfterSubmit(q, m) /\ inflight' = f \cup Submitted(q, m)
    BY <2>2
  <2>4. RingRight(q, f, cq, calls + 1)
    BY <2>1, <2>2, PrepareRight
  <2>5. Size(q, f, cq) \in Nat /\ Size(q, f, cq) <= Size(sq, inflight, cq) + 1
    BY <2>1, <2>2, PrepareSize
  <2> HIDE DEF q, f
  <2>6. m \in 0 .. Len(q)
    <3>1. q \in Seq(Op) /\ Len(q) \in Nat
      BY <2>4, LenProperties DEF RingRight
    <3> QED
      BY <2>3, <3>1 DEF Taken
  <2>7. Size(AfterSubmit(q, m), f \cup Submitted(q, m), cq) <= Size(q, f, cq)
    BY <2>4, <2>6, SubmitSize
  <2>8. Size(sq', inflight', cq') <= Size(q, f, cq)
    BY <2>1, <2>3, <2>7
  <2>9. Size(sq, inflight, cq) <= Cardinality(Failures) + 0
    BY <2>1, BudgetSides DEF BudgetInv
  <2>10. Failures' = Failures
    BY <2>1 DEF Failures
  <2>11. Size(sq', inflight', cq') <= Cardinality(Failures') + 1
    BY <1>s, <1>f, <2>5, <2>8, <2>9, <2>10
  <2>12. Unended'
    <3>1. \A o \in Op : o > calls + 1 \/ o = calls + 1 => o > calls
      BY <2>1 DEF Op
    <3> QED
      BY <2>1, <3>1 DEF BudgetInv, Unended
  <2> QED
    BY <2>1, <2>11, <2>12, BudgetSides DEF BudgetInv
<1>6. ASSUME NEW o \in Op, Complete(o) PROVE BudgetInv'
  <2>1. PICK r \in {"ok", "error"} : cq' = Append(cq, [op |-> o, res |-> r])
    BY <1>6 DEF Complete
  <2>2. cq \in Seq(Completion) /\ [op |-> o, res |-> r] \in Completion
    BY <1>0 DEF TypeOK, Completion
  <2>3. Len(cq') = Len(cq) + 1
    BY <2>1, <2>2, AppendProperties
  <2>4. /\ Len(sq) \in Nat /\ Cardinality(inflight) \in Nat /\ Len(cq) \in Nat
        /\ IsFiniteSet(inflight)
    BY <1>0, RingFinite
  <2>5. Cardinality(inflight') = Cardinality(inflight) - 1
    BY <1>6, <2>4, FS_RemoveElement DEF Complete
  <2>6. sq' = sq /\ UNCHANGED <<calls, outcome, pc>>
    BY <1>6 DEF Complete
  <2>7. Size(sq', inflight', cq') = Size(sq, inflight, cq)
    BY <2>3, <2>4, <2>5, <2>6 DEF Size
  <2> QED
    BY <1>s, <2>6, <2>7, SizeKept
<1>7. ASSUME HarvestOk \/ HarvestError PROVE BudgetInv'
  <2>1. pc = "waiting" /\ pc' = "idle" /\ cq # <<>> /\ UNCHANGED <<calls, sq, inflight>>
    BY <1>7 DEF HarvestOk, HarvestError
  <2>2. calls \in Op /\ outcome[calls].kind = "none"
    BY <2>1, CallMade DEF BudgetInv, Unended
  <2>3. Size(sq, inflight, cq) <= Cardinality(Failures) + 1
    BY <2>1, BudgetSides DEF BudgetInv
  <2>4. Size(sq', inflight', cq') <= Cardinality(Failures')
    <3>1. CASE HarvestOk
      <4>1. cq' = Tail(cq) /\ Ends(calls, "ok", Head(cq).op)
        BY <3>1 DEF HarvestOk, Seen
      <4>2. Cardinality(Failures) <= Cardinality(Failures') /\ Cardinality(Failures') \in Nat
        BY <2>2, <4>1, FailureCount
      <4>3. Len(cq') = Len(cq) - 1
        BY <1>0, <2>1, <4>1, HeadTailProperties DEF TypeOK
      <4>4. Len(sq) \in Nat /\ Cardinality(inflight) \in Nat /\ Len(cq) \in Nat
        BY <1>0, RingFinite
      <4>5. Size(sq', inflight', cq') = Size(sq, inflight, cq) - 1
        BY <2>1, <4>3, <4>4 DEF Size
      <4> QED
        BY <1>s, <1>f, <2>3, <4>2, <4>5
    <3>2. CASE HarvestError
      <4>1. cq' = cq /\ Ends(calls, "HardwareIoError", Head(cq).op)
        BY <3>2 DEF HarvestError
      <4>2. Cardinality(Failures') = Cardinality(Failures) + 1
        BY <2>2, <4>1, FailureCount
      <4> QED
        BY <2>1, <2>3, <4>1, <4>2
    <3> QED
      BY <1>7, <3>1, <3>2
  <2>5. Unended'
    <3>1. \A u \in Op : u # calls => outcome'[u] = outcome[u]
      BY <1>0, <1>7 DEF HarvestOk, HarvestError, Ends, TypeOK
    <3>2. \A u \in Op : u > calls => u # calls
      BY <2>2 DEF Op
    <3> QED
      BY <2>1, <3>1, <3>2 DEF BudgetInv, Unended
  <2>6. Cardinality(Failures') \in Nat
    BY OpFinite DEF Failures
  <2>7. Size(sq', inflight', cq') <= Cardinality(Failures') + 0
    BY <1>s, <2>4, <2>6
  <2> QED
    BY <2>1, <2>5, <2>7, BudgetSides DEF BudgetInv
<1>8. CASE ReleaseBuffer \/ Reopen \/ UNCHANGED vars
  <2>1. UNCHANGED ringVars /\ UNCHANGED <<calls, outcome>>
        /\ (pc' = "waiting" <=> pc = "waiting")
    BY <1>8 DEF ReleaseBuffer, Reopen, vars, ringVars
  <2> QED
    BY <1>r, <2>1, SizeKept
<1>9. CASE Flush
  <2>1. PICK n \in 0 .. Len(sq) :
           sq' = AfterSubmit(sq, n) /\ inflight' = inflight \cup Submitted(sq, n)
    <3>1. sq \in Seq(Op) /\ Len(sq) \in Nat
      BY <1>0, LenProperties DEF TypeOK
    <3> QED
      BY <1>9, <3>1 DEF Flush, Taken
  <2>2. Size(AfterSubmit(sq, n), inflight \cup Submitted(sq, n), cq) <= Size(sq, inflight, cq)
    BY <1>0, SubmitSize
  <2>3. UNCHANGED <<cq, calls, outcome>> /\ (pc' = "waiting" <=> pc = "waiting")
    BY <1>9 DEF Flush
  <2>4. Size(sq', inflight', cq') <= Size(sq, inflight, cq)
    BY <2>1, <2>2, <2>3
  <2> QED
    BY <2>3, <2>4, SizeKept
<1>10. CASE Close
  <2>1. sq' = <<>> /\ inflight' = {} /\ cq' = <<>> /\ UNCHANGED <<calls, outcome>>
        /\ (pc' = "waiting" <=> pc = "waiting")
    BY <1>10 DEF Close
  <2>2. Cardinality({}) = 0 /\ Len(<<>>) = 0
    BY FS_EmptySet
  <2>3. Size(sq', inflight', cq') = 0
    BY <2>1, <2>2 DEF Size
  <2> QED
    BY <1>s, <2>1, <2>3, SizeKept
<1> QED
  BY <1>1, <1>2, <1>3, <1>4, <1>5, <1>6, <1>7, <1>8, <1>9, <1>10 DEF Next

\* Whatever fails and however often the caller goes on, the ring holds at most
\* one entry for each request that failed, and none for one that returned.
THEOREM RingDoesNotFill == Spec => []LeftoversAreFailures
<1>1. Init => BudgetInv
  <2> SUFFICES ASSUME Init PROVE BudgetInv
    OBVIOUS
  <2>1. Cardinality({}) = 0 /\ Len(<<>>) = 0
    BY FS_EmptySet
  <2>2. Size(sq, inflight, cq) = 0
    BY <2>1 DEF Init, Size
  <2>3. Cardinality(Failures) \in Nat
    BY OpFinite DEF Failures
  <2>4. Size(sq, inflight, cq) <= Cardinality(Failures) + (IF pc = "waiting" THEN 1 ELSE 0)
    BY <2>2, <2>3
  <2>5. Unended
    BY DEF Init, Unended
  <2> QED
    BY <2>4, <2>5, BudgetSides DEF BudgetInv
<1>2. IInv /\ IInv' /\ BudgetInv /\ [Next]_vars => BudgetInv'
  BY NextBudget
<1>3. BudgetInv => LeftoversAreFailures
  BY DEF BudgetInv
<1> QED
  BY <1>1, <1>2, <1>3, Invariance, PTL DEF Spec

-----------------------------------------------------------------------------
RingEmpty == sq = <<>> /\ inflight = {} /\ cq = <<>>
\* The ring holds the current request and no other.
OnlyCurrent ==
    /\ sq = <<>>
    /\ \/ inflight = {calls} /\ cq = <<>>
       \/ /\ inflight = {}
          /\ Len(cq) = 1 /\ cq[1].op = calls
          /\ Faultless => cq[1].res = "ok"

\* The last request ended in a way that can leave its entry in the queue.
LeftBehind == calls > 0 /\ outcome[calls].kind = "AdapterError"

\* A caller that waits waits for its own request alone; the others find the
\* ring empty unless a fault was met.
OrderInv ==
    /\ ResultIsOwn
    /\ pc = "waiting" => OnlyCurrent
    /\ pc # "waiting" /\ (Faultless \/ (pc = "idle" /\ ~failed)) => RingEmpty
    /\ pc # "waiting" /\ ~LeftBehind => sq = <<>> /\ inflight = {}
    /\ ~mapped => pc \in {"released", "flushed", "closed"}

\* A request that ends early, or with its own completion, keeps the results.
LEMMA OwnKept ==
  ASSUME IInv, ResultIsOwn, NEW o \in Op, NEW kind, NEW from, Ends(o, kind, from),
         kind \in {"ok", "HardwareIoError"} => from = o
  PROVE  ResultIsOwn' /\ outcome'[o].kind = kind
<1>1. outcome \in [Op -> Outcome]
  BY DEF IInv, TypeOK
<1>2. \A u \in Op : outcome'[u] = IF u = o THEN [kind |-> kind, from |-> from]
                                          ELSE outcome[u]
  BY <1>1 DEF Ends
<1> QED
  BY <1>2 DEF ResultIsOwn

\* Submitting the only entry hands it to the kernel.
LEMMA SubmitOne ==
  ASSUME NEW o, NEW m \in Taken(<<o>>)
  PROVE  AfterSubmit(<<o>>, m) = <<>> /\ Submitted(<<o>>, m) = {o}
<1>1. Len(<<o>>) = 1 /\ <<o>>[1] = o
  OBVIOUS
<1>2. m = 1
  BY <1>1 DEF Taken
<1>3. AfterSubmit(<<o>>, m) = <<>>
  BY <1>1, <1>2, SubSeqEmpty DEF AfterSubmit
<1>4. \A i \in 1 .. m : i = 1
  BY <1>2
<1> QED
  BY <1>1, <1>2, <1>3, <1>4 DEF Submitted

\* No entry is left or submitted of an empty queue.
LEMMA SubmitNone == AfterSubmit(<<>>, 0) = <<>> /\ Submitted(<<>>, 0) = {}
<1>1. AfterSubmit(<<>>, 0) = <<>>
  BY SubSeqEmpty DEF AfterSubmit
<1>2. \A i \in 1 .. 0 : FALSE
  OBVIOUS
<1> QED
  BY <1>1, <1>2 DEF Submitted

LEMMA NextOrder ==
  ASSUME Orderly, IInv, OrderInv, [Next]_vars
  PROVE  OrderInv'
<1> USE IoUringAssumption
<1>a. MayCall => RingEmpty /\ pc = "idle" /\ calls + 1 \in Op
  BY NextCall DEF MayCall, OrderInv, Orderly
<1>b. ResultIsOwn
  BY DEF OrderInv
\* A request that ends before it waits, the ring as it was or after a fault.
<1>c. ASSUME MayCall, calls' = calls + 1, NEW e \in Errors \ {"HardwareIoError"},
             Ends(calls', e, 0), failed' = TRUE, UNCHANGED <<pc, mapped>>,
             UNCHANGED ringVars \/ (SubmitFaults /\ e = "AdapterError")
      PROVE  OrderInv'
  <2>1. ResultIsOwn' /\ outcome'[calls'].kind = e
    BY <1>a, <1>b, <1>c, OwnKept DEF Errors
  <2>2. Faultless => RingEmpty'
    BY <1>a, <1>c DEF Faultless, RingEmpty, ringVars
  <2>3. pc' = "idle" /\ failed' /\ (~mapped' => FALSE)
    BY <1>a, <1>c DEF OrderInv
  <2>4. ~LeftBehind' => sq' = <<>> /\ inflight' = {}
    <3>1. calls' > 0
      BY <1>a, <1>c, NextCall
    <3> QED
      BY <1>a, <1>c, <2>1, <3>1 DEF LeftBehind, RingEmpty, ringVars
  <2> QED
    BY <2>1, <2>2, <2>3, <2>4 DEF OrderInv
<1>1. CASE InitializeFails
  BY <1>1, <1>c DEF InitializeFails, Errors
<1>2. CASE Refuse
  BY <1>2, <1>c DEF Refuse, Errors
<1>3. CASE QueueFull
  BY <1>3, <1>c DEF QueueFull, Errors
<1>4. CASE SubmitFails
  BY <1>4, <1>c DEF SubmitFails, Errors
<1>5. CASE Submit
  <2>1. RingEmpty /\ calls' = calls + 1 /\ calls' \in Op
    BY <1>5, <1>a DEF Submit
  <2>2. Len(sq) = 0
    BY <2>1 DEF RingEmpty
  <2>3. PICK n \in 0 .. Len(sq) :
           \E m \in Taken(Append(AfterSubmit(sq, n), calls')) :
              /\ sq' = AfterSubmit(Append(AfterSubmit(sq, n), calls'), m)
              /\ inflight' = inflight \cup Submitted(sq, n)
                               \cup Submitted(Append(AfterSubmit(sq, n), calls'), m)
    BY <1>5 DEF Submit
  <2>4. n = 0
    BY <2>2
  <2>5. Append(AfterSubmit(sq, n), calls') = <<calls'>> /\ Submitted(sq, n) = {}
    <3>1. AfterSubmit(sq, n) = <<>> /\ Submitted(sq, n) = {}
      BY <2>1, <2>4, SubmitNone DEF RingEmpty
    <3>2. Append(<<>>, calls') = <<calls'>>
      OBVIOUS
    <3> QED
      BY <3>1, <3>2
  <2>6. PICK m \in Taken(<<calls'>>) :
              /\ sq' = AfterSubmit(<<calls'>>, m)
              /\ inflight' = inflight \cup {} \cup Submitted(<<calls'>>, m)
    BY <2>3, <2>5
  <2>7. sq' = <<>> /\ inflight' = {calls'} /\ cq' = <<>>
    BY <1>5, <2>1, <2>6, SubmitOne DEF RingEmpty, Submit
  <2>8. pc' = "waiting" /\ mapped' /\ UNCHANGED outcome
    BY <1>5, <1>a DEF Submit, OrderInv
  <2> QED
    BY <1>b, <2>7, <2>8 DEF OrderInv, OnlyCurrent, ResultIsOwn
<1>6. ASSUME NEW o \in Op, Complete(o)
      PROVE  OrderInv'
  <2>1. CASE pc = "waiting"
    <3>1. sq = <<>> /\ inflight = {calls} /\ cq = <<>> /\ o = calls
      BY <1>6, <2>1 DEF OrderInv, OnlyCurrent, Complete
    <3>2. PICK r \in IF IoErrors THEN {"ok", "error"} ELSE {"ok"} :
             cq' = Append(cq, [op |-> o, res |-> r])
      BY <1>6 DEF Complete
    <3>3. cq' = <<[op |-> o, res |-> r]>> /\ inflight' = {} /\ sq' = <<>>
      BY <1>6, <3>1, <3>2 DEF Complete
    <3>4. Len(cq') = 1 /\ cq'[1].op = calls /\ cq'[1].res = r
      BY <3>1, <3>3
    <3>5. Faultless => r = "ok"
      BY <3>2 DEF Faultless
    <3>6. pc' = "waiting" /\ UNCHANGED <<calls, outcome, mapped>>
      BY <1>6, <2>1 DEF Complete
    <3> QED
      BY <1>b, <2>1, <3>3, <3>4, <3>5, <3>6 DEF OrderInv, OnlyCurrent, ResultIsOwn
  <2>2. CASE pc # "waiting"
    <3>1. ~Faultless /\ ~(pc = "idle" /\ ~failed) /\ LeftBehind
      BY <1>6, <2>2 DEF OrderInv, RingEmpty, Complete
    <3> QED
      BY <1>6, <1>b, <2>2, <3>1 DEF OrderInv, Complete, ResultIsOwn, LeftBehind
  <2> QED
    BY <2>1, <2>2
<1>7. ASSUME pc = "waiting", cq # <<>>
      PROVE  /\ sq = <<>> /\ inflight = {} /\ Tail(cq) = <<>>
             /\ Head(cq).op = calls /\ (Faultless => Head(cq).res = "ok")
             /\ mapped /\ calls \in Op
  <2>1. sq = <<>> /\ inflight = {} /\ Len(cq) = 1 /\ cq[1].op = calls
        /\ (Faultless => cq[1].res = "ok") /\ mapped
    BY <1>7 DEF OrderInv, OnlyCurrent
  <2>2. cq \in Seq(Completion) /\ Head(cq) = cq[1]
    BY DEF IInv, TypeOK
  <2>3. Tail(cq) \in Seq(Completion) /\ Len(Tail(cq)) = 0
    BY <1>7, <2>1, <2>2, HeadTailProperties
  <2>4. Tail(cq) = <<>>
    BY <2>3, EmptySeq
  <2> QED
    BY <1>7, <2>1, <2>2, <2>4, CallMade
<1>8. CASE HarvestOk
  <2>1. ResultIsOwn'
    BY <1>7, <1>8, <1>b, OwnKept DEF HarvestOk
  <2>2. RingEmpty' /\ mapped' /\ pc' = "idle"
    BY <1>7, <1>8 DEF HarvestOk, RingEmpty, Seen
  <2> QED
    BY <2>1, <2>2 DEF OrderInv, RingEmpty
<1>9. CASE HarvestError
  <2>1. ResultIsOwn'
    BY <1>7, <1>9, <1>b, OwnKept DEF HarvestError
  <2>2. ~Faultless /\ failed' /\ mapped' /\ pc' = "idle" /\ sq' = <<>> /\ inflight' = {}
    BY <1>7, <1>9 DEF HarvestError
  <2> QED
    BY <2>1, <2>2 DEF OrderInv, Faultless
<1>10. CASE ReleaseBuffer
  BY <1>10, <1>b DEF ReleaseBuffer, OrderInv, RingEmpty, ringVars, ResultIsOwn, LeftBehind
<1>11. CASE Flush
  <2>1. pc' = "flushed" /\ UNCHANGED <<calls, outcome, cq, mapped>>
    BY <1>11 DEF Flush
  <2>2. Faultless => RingEmpty'
    <3>1. SUFFICES ASSUME Faultless PROVE RingEmpty'
      OBVIOUS
    <3>2. RingEmpty
      BY <1>11, <3>1 DEF Flush, OrderInv
    <3>3. sq' = AfterSubmit(<<>>, 0) /\ inflight' = inflight \cup Submitted(<<>>, 0)
      BY <1>11, <3>2 DEF Flush, RingEmpty
    <3> QED
      BY <2>1, <3>2, <3>3, SubmitNone DEF RingEmpty
  <2>3. ~LeftBehind => sq' = <<>> /\ inflight' = {}
    <3>1. SUFFICES ASSUME ~LeftBehind PROVE sq' = <<>> /\ inflight' = {}
      OBVIOUS
    <3>2. sq = <<>> /\ inflight = {}
      BY <1>11, <3>1 DEF Flush, OrderInv
    <3>3. sq' = AfterSubmit(<<>>, 0) /\ inflight' = inflight \cup Submitted(<<>>, 0)
      BY <1>11, <3>2 DEF Flush
    <3> QED
      BY <3>2, <3>3, SubmitNone
  <2> QED
    BY <1>b, <2>1, <2>2, <2>3 DEF OrderInv, ResultIsOwn, LeftBehind
<1>12. CASE Close
  BY <1>12, <1>b DEF Close, OrderInv, RingEmpty, ResultIsOwn
<1>13. CASE Reopen
  BY <1>13, <1>b DEF Reopen, OrderInv, Orderly, RingEmpty, ringVars, ResultIsOwn
<1>14. CASE UNCHANGED vars
  BY <1>14, <1>b
  DEF vars, OrderInv, OnlyCurrent, RingEmpty, Faultless, ResultIsOwn, LeftBehind
<1> QED
  BY <1>1, <1>2, <1>3, <1>4, <1>5, <1>6, <1>8, <1>9, <1>10, <1>11, <1>12, <1>13, <1>14
  DEF Next

LEMMA InitOrder == Init => OrderInv
  BY DEF Init, OrderInv, RingEmpty, ResultIsOwn

LEMMA Order == Spec => [](Orderly => OrderInv)
<1>1. IInv /\ (Orderly => OrderInv) /\ [Next]_vars => (Orderly => OrderInv)'
  <2> SUFFICES ASSUME IInv, Orderly => OrderInv, [Next]_vars, Orderly'
               PROVE  OrderInv'
    OBVIOUS
  <2>1. retries' = retries
    BY DEF Next, vars, InitializeFails, Refuse, QueueFull, SubmitFails, Submit,
       Complete, HarvestOk, HarvestError, ReleaseBuffer, Flush, Close, Reopen
  <2>2. Orderly
    BY <2>1 DEF Orderly, Faultless
  <2> QED
    BY <2>2, NextOrder
<1>2. Init => (Orderly => OrderInv)
  BY InitOrder
<1> QED
  BY <1>1, <1>2, Invariance, PTL DEF Spec

\* A caller that stops at the first error, or a device without faults: every
\* request gets its own result and never that of another.
THEOREM ResultsAreOwn == Spec => []WorkerResultIsOwn
<1>1. (Orderly => OrderInv) => WorkerResultIsOwn
  BY DEF OrderInv, WorkerResultIsOwn
<1> QED
  BY <1>1, Order, PTL

\* The buffer is unmapped with nothing queued or executing, unless the last
\* request failed at its submit: execute() unmaps before flush()
\* (worker.py:99-101), against FlushedBeforeUnmap.
MappedWhileQueued ==
    Orderly /\ ~mapped /\ (calls > 0 => outcome[calls].kind # "AdapterError")
        => sq = <<>> /\ inflight = {}

\* For the same callers only a failed submit can leave anything in the ring that
\* points into the unmapped buffer; a failed completion cannot.
THEOREM OnlySubmitLeavesBehind == Spec => []MappedWhileQueued
<1>1. IInv /\ (Orderly => OrderInv) => MappedWhileQueued
  BY DEF IInv, TypeOK, OrderInv, MappedWhileQueued, LeftBehind
<1> QED
  BY <1>1, Order, Invariance, PTL
=============================================================================
