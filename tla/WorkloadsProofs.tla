-------------------------- MODULE WorkloadsProofs --------------------------
(***************************************************************************)
(* The use cases on one event loop: which queries and blocks their loops   *)
(* cover, that no buffer is used after it is closed, that coroutines end   *)
(* and pools are closed however they end, what they count, and what the    *)
(* deduplication audit finds, for all sizes and numbers of coroutines.     *)
(***************************************************************************)
EXTENDS Workloads, FiniteSetTheorems, SequenceTheorems, TLAPS

-----------------------------------------------------------------------------
(* The division of the queries, and the offsets of the decode steps. *)

LEMMA Products ==
  /\ \A a, b \in Nat : a * b \in Nat
  /\ \A a, b, c \in Nat : a <= b => a * c <= b * c
<1>1. \A a, b \in Nat : a * b \in Nat
  OBVIOUS
<1>2. ASSUME NEW a \in Nat, NEW b \in Nat, NEW c \in Nat, a <= b
      PROVE  a * c <= b * c
  <2>1. b - a \in Nat /\ b * c = a * c + (b - a) * c
    BY <1>2
  <2>2. (b - a) * c \in Nat /\ a * c \in Nat
    BY <1>1, <2>1
  <2> QED
    BY <2>1, <2>2
<1> QED
  BY <1>1, <1>2

LEMMA Division ==
  ASSUME NEW a \in Nat, NEW c \in Nat \ {0}
  PROVE  /\ a \div c \in Nat /\ a % c \in 0 .. c - 1
         /\ a = (a \div c) * c + (a % c)
  OBVIOUS

LEMMA QuotientPositive ==
  ASSUME NEW a \in Nat, NEW c \in Nat \ {0}, c <= a
  PROVE  a \div c >= 1
<1> SUFFICES ASSUME a \div c = 0 PROVE FALSE
  BY Division
<1>1. 0 * c = 0 /\ a = (a \div c) * c + (a % c) /\ a % c \in 0 .. c - 1
  BY Division
<1> QED
  BY <1>1

LEMMA QuotientZero ==
  ASSUME NEW a \in Nat, NEW c \in Nat \ {0}, a < c
  PROVE  a \div c = 0
<1> SUFFICES ASSUME a \div c >= 1 PROVE FALSE
  BY Division
<1>1. 1 * c <= (a \div c) * c /\ (a \div c) * c \in Nat
  BY Division, Products
<1> QED
  BY <1>1, Division

\* With no more clients than queries, all the batches but the last have the
\* same positive size, and the last is no smaller.
LEMMA BatchSizes ==
  ASSUME NEW q \in Nat, NEW k \in Nat \ {0}, k <= q
  PROVE  /\ BatchSize(q, k) \in Nat \ {0}
         /\ (k - 1) * BatchSize(q, k) + BatchSize(q, k) <= q
         /\ (k - 1) * BatchSize(q, k) \in Nat
<1> DEFINE b == q \div k
<1>1. b \in Nat \ {0} /\ q = b * k + (q % k) /\ q % k \in Nat
  BY Division, QuotientPositive
<1>2. BatchSize(q, k) = b
  BY <1>1 DEF BatchSize
<1> HIDE DEF b
<1>3. (k - 1) * b + b = b * k
  BY <1>1
<1>4. (k - 1) * b \in Nat /\ b * k \in Nat
  BY <1>1, Products
<1> QED
  BY <1>1, <1>2, <1>3, <1>4

\* With no more coroutines than queries, every query is made by exactly one
\* coroutine, and none beyond the last query (usecase_05:87-94).
THEOREM QueriesPartitioned ==
  ASSUME NEW q \in Nat, NEW k \in Nat \ {0}, k <= q, NEW i \in Int
  PROVE  /\ i \in 0 .. q - 1 => \E c \in 0 .. k - 1 : i \in Batch(q, k, c)
         /\ \A c, d \in 0 .. k - 1 :
               i \in Batch(q, k, c) /\ i \in Batch(q, k, d) => c = d
         /\ \A c \in 0 .. k - 1 : i \in Batch(q, k, c) => i \in 0 .. q - 1
<1> DEFINE b == BatchSize(q, k)
           last == (k - 1) * b
           End(c) == IF c < k - 1 THEN c * b + b ELSE q
<1>1. b \in Nat \ {0} /\ last + b <= q /\ last \in Nat
  BY BatchSizes
<1>2. \A c \in 0 .. k - 1 : i \in Batch(q, k, c) <=> c * b <= i /\ i < End(c)
  <2> SUFFICES ASSUME NEW c \in 0 .. k - 1
               PROVE  i \in Batch(q, k, c) <=> c * b <= i /\ i < End(c)
    OBVIOUS
  <2>1. c * b \in Nat
    BY <1>1, Products
  <2>2. QueryStart(q, k, c) = c * b /\ QueryCount(q, k, c) = IF c < k - 1 THEN b ELSE q - c * b
    BY DEF QueryStart, QueryCount
  <2> HIDE DEF b
  <2> QED
    BY <1>1, <2>1, <2>2 DEF Batch
<1> HIDE DEF b
<1>3. \A c, d \in 0 .. k - 1 : c < d => End(c) <= d * b
  <2> SUFFICES ASSUME NEW c \in 0 .. k - 1, NEW d \in 0 .. k - 1, c < d
               PROVE  c * b + b <= d * b
    OBVIOUS
  <2>1. (c + 1) * b <= d * b /\ (c + 1) * b = c * b + b
    BY <1>1, Products
  <2> QED
    BY <2>1
<1>4. \A c \in 0 .. k - 1 : 0 <= c * b /\ End(c) <= q /\ c * b \in Nat
  <2> SUFFICES ASSUME NEW c \in 0 .. k - 1
               PROVE  0 <= c * b /\ End(c) <= q /\ c * b \in Nat
    OBVIOUS
  <2>1. c * b \in Nat
    BY <1>1, Products
  <2>2. c * b <= last
    BY <1>1, Products
  <2> QED
    BY <1>1, <2>1, <2>2
<1>5. ASSUME i \in 0 .. q - 1 PROVE \E c \in 0 .. k - 1 : i \in Batch(q, k, c)
  <2>1. CASE last <= i
    BY <1>2, <1>5, <2>1
  <2>2. CASE i < last
    <3> DEFINE c == i \div b
    <3>0. i \in Nat
      BY <1>5
    <3>1. c \in Nat /\ i = c * b + (i % b) /\ i % b \in 0 .. b - 1
      BY <1>1, <3>0, Division
    <3> HIDE DEF c
    <3>2. c < k - 1
      <4> SUFFICES ASSUME k - 1 <= c PROVE FALSE
        BY <3>1
      <4>1. last <= c * b /\ c * b \in Nat
        BY <1>1, <3>1, Products
      <4> HIDE DEF last
      <4> QED
        BY <1>1, <2>2, <3>1, <4>1
    <3>3. c * b \in Nat
      BY <1>1, <3>1, Products
    <3>4. c * b <= i /\ i < c * b + b
      BY <1>1, <3>1, <3>3
    <3> QED
      BY <1>2, <3>1, <3>2, <3>4
  <2> HIDE DEF last
  <2> QED
    BY <1>1, <1>5, <2>1, <2>2
<1>6. ASSUME NEW c \in 0 .. k - 1, NEW d \in 0 .. k - 1,
             i \in Batch(q, k, c), i \in Batch(q, k, d)
      PROVE  c = d
  <2>1. c * b <= i /\ i < End(c) /\ d * b <= i /\ i < End(d)
    BY <1>2, <1>6
  <2>2. c * b \in Nat /\ d * b \in Nat /\ End(c) \in Int /\ End(d) \in Int
    BY <1>1, <1>4
  <2>3. ~(c < d) /\ ~(d < c)
    <3> HIDE DEF End
    <3> QED
      BY <1>3, <2>1, <2>2
  <2> QED
    BY <2>3
<1>7. ASSUME NEW c \in 0 .. k - 1, i \in Batch(q, k, c) PROVE i \in 0 .. q - 1
  <2>1. c * b <= i /\ i < End(c) /\ c * b \in Nat /\ End(c) <= q /\ End(c) \in Int
    BY <1>1, <1>2, <1>4, <1>7
  <2> HIDE DEF End
  <2> QED
    BY <2>1
<1> QED
  BY <1>5, <1>6, <1>7

\* With at least two coroutines more than queries, some query an index that
\* does not exist: the guard of one query per coroutine overruns the total.
THEOREM FewQueriesOverrun ==
  ASSUME NEW q \in Nat, NEW k \in Nat, q + 2 <= k
  PROVE  q \in 0 .. k - 1 /\ q \in Batch(q, k, q)
<1>1. q \div k = 0
  <2>1. q \div k \in Nat /\ q % k \in Nat /\ q = (q \div k) * k + (q % k)
    BY Division
  <2>2. q \div k >= 1 => 1 * k <= (q \div k) * k
    BY <2>1, Products
  <2>3. (q \div k) * k \in Nat
    BY <2>1, Products
  <2> QED
    BY <2>1, <2>2, <2>3
<1>2. BatchSize(q, k) = 1
  BY <1>1 DEF BatchSize
<1> QED
  BY <1>2 DEF Batch, QueryStart, QueryCount

\* Every decode step writes whole pages inside the context (usecase_06:91-97).
THEOREM DecodeInsideContext ==
  ASSUME NEW step \in Nat, NEW prefill \in Nat, NEW page \in Nat \ {0}
  PROVE  /\ DecodeOffset(step, prefill, page) \in Nat
         /\ DecodeOffset(step, prefill, page) + page <= ContextBytes(prefill, page)
<1> DEFINE size == ContextBytes(prefill, page)
           n == size \div page
           x == (step * 37) % n
<1>1. size \in Nat /\ page <= size
  BY DEF ContextBytes
<1> HIDE DEF size
<1>2. n \in Nat \ {0} /\ size = n * page + (size % page) /\ size % page \in Nat
  BY <1>1, Division, QuotientPositive
<1>3. Pages(prefill, page) = IF n > 1 THEN n ELSE 1
  BY DEF Pages, size
<1> HIDE DEF n
<1>4. x \in 0 .. n - 1
  <2>1. step * 37 \in Nat
    OBVIOUS
  <2> QED
    BY <1>2, <2>1, Division
<1>5. DecodeOffset(step, prefill, page) = x * page
  <2>1. Pages(prefill, page) = n
    BY <1>2, <1>3
  <2> QED
    BY <2>1 DEF DecodeOffset
<1> HIDE DEF x
<1>6. (x + 1) * page <= n * page /\ (x + 1) * page = x * page + page
      /\ x * page \in Nat /\ n * page \in Nat
  BY <1>2, <1>4, Products
<1> QED
  BY <1>1, <1>2, <1>5, <1>6 DEF size

-----------------------------------------------------------------------------
(* The plans of the use cases. *)

CollectorNames ==
    {"upsert", "query", "s3", "prefill", "decode", "a_baseline", "a_contended", "a_qos",
     "b_unthrottled", "b_qos", "hot", "warm", "cold", "steady", "burst", "combined"}
LoopType ==
    [ops : Nat, first : Nat, adapter : {"none", "posix", "vector", "s3"},
     path : Paths \cup {""}, shared : Nat, slots : Nat \ {0},
     payload : {"pool", "seed", "zeroes", "sample", "audit"}, pause : Nat,
     collectors : SUBSET CollectorNames, flush : BOOLEAN]

\* The loops of n operations on an adapter, with their buffers from the shared
\* pool i, 0 for none, that are counted by some collectors.
LoopsWith(i, adapter, n, collectors) ==
    {l \in LoopType : /\ l.shared = i /\ l.adapter = adapter
                      /\ l.ops = n /\ l.collectors = collectors}

LEMMA LoopIs ==
  ASSUME NEW n \in Nat, NEW a \in {"none", "posix", "vector", "s3"}
  PROVE  Loop(n, a) \in LoopsWith(0, a, n, {})
<1>1. Loop(n, a) \in LoopType
  BY DEF Loop, LoopType
<1>2. /\ Loop(n, a).shared = 0 /\ Loop(n, a).adapter = a
      /\ Loop(n, a).ops = n /\ Loop(n, a).collectors = {}
  BY DEF Loop
<1> QED
  BY <1>1, <1>2 DEF LoopsWith

\* What else is said of a loop leaves these four as they are.
LEMMA LoopStays ==
  ASSUME NEW i, NEW a, NEW n, NEW C, NEW l \in LoopsWith(i, a, n, C)
  PROVE  /\ \A k \in Nat \ {0} : Pooled(l, k) \in LoopsWith(i, a, n, C)
         /\ \A p \in {"seed", "zeroes", "sample", "audit"} : Seeded(l, p) \in LoopsWith(i, a, n, C)
         /\ \A p \in Paths : OnFile(l, p) \in LoopsWith(i, a, n, C)
         /\ \A D \in SUBSET CollectorNames : Into(l, D) \in LoopsWith(i, a, n, D)
         /\ \A k \in Nat : Paced(l, k) \in LoopsWith(i, a, n, C)
         /\ Flushed(l) \in LoopsWith(i, a, n, C)
         /\ \A j \in Nat : Sharing(l, j) \in LoopsWith(j, a, n, C)
<1> USE DEF LoopType, LoopsWith
<1>1. \A k \in Nat \ {0} : Pooled(l, k) \in LoopsWith(i, a, n, C)
  BY DEF Pooled
<1>2. \A p \in {"seed", "zeroes", "sample", "audit"} : Seeded(l, p) \in LoopsWith(i, a, n, C)
  BY DEF Seeded
<1>3. \A p \in Paths : OnFile(l, p) \in LoopsWith(i, a, n, C)
  BY DEF OnFile
<1>4. \A D \in SUBSET CollectorNames : Into(l, D) \in LoopsWith(i, a, n, D)
  BY DEF Into
<1>5. \A k \in Nat : Paced(l, k) \in LoopsWith(i, a, n, C)
  BY DEF Paced
<1>6. Flushed(l) \in LoopsWith(i, a, n, C)
  BY DEF Flushed
<1>7. \A j \in Nat : Sharing(l, j) \in LoopsWith(j, a, n, C)
  BY DEF Sharing
<1> HIDE DEF LoopType, LoopsWith
<1> QED
  BY <1>1, <1>2, <1>3, <1>4, <1>5, <1>6, <1>7

\* What the rest of the proofs needs of a plan: loops of the right type, pools
\* that are open while they are used, and no coroutine on a shared pool next to
\* one that can raise.
OpenDuring(p, s, i) ==
    /\ i \in DOMAIN p.shared /\ p.shared[i].from <= s
    /\ p.shared[i].to = 0 \/ s <= p.shared[i].to
StageOK(p, s) ==
    /\ \A t \in DOMAIN p.stages[s] :
          /\ p.stages[s][t] \in LoopType
          /\ p.stages[s][t].shared # 0 => OpenDuring(p, s, p.stages[s][t].shared)
    /\ \A t, u \in DOMAIN p.stages[s] :
          t # u /\ p.stages[s][u].adapter = "posix" => p.stages[s][t].shared = 0
PoolOK(p, i) ==
    /\ p.shared[i].from \in 1 .. Len(p.stages)
    /\ p.shared[i].to = 0 \/ p.shared[i].to \in p.shared[i].from .. Len(p.stages)
WellFormed(p) ==
    /\ Len(p.stages) \in Nat /\ DOMAIN p.stages = 1 .. Len(p.stages)
    /\ \A i \in DOMAIN p.shared : PoolOK(p, i)
    /\ \A s \in DOMAIN p.stages : StageOK(p, s)

\* A stage of one coroutine, and one of two on pools of their own.
LEMMA Alone ==
  ASSUME NEW l
  PROVE  /\ DOMAIN <<l>> = {1} /\ <<l>>[1] = l
         /\ \A t, u \in DOMAIN <<l>> : t = u
  OBVIOUS

LEMMA Pair ==
  ASSUME NEW l, NEW k
  PROVE  DOMAIN <<l, k>> = {1, 2} /\ <<l, k>>[1] = l /\ <<l, k>>[2] = k
  OBVIOUS

LEMMA LargerOf ==
  ASSUME NEW a \in Nat, NEW b \in Nat
  PROVE  Max({a, b}) \in Nat /\ a <= Max({a, b})
<1>1. \E x \in {a, b} : \A y \in {a, b} : x >= y
  <2>1. CASE a >= b
    BY <2>1
  <2>2. CASE b >= a
    BY <2>2
  <2> QED
    BY <2>1, <2>2
<1> QED
  BY <1>1 DEF Max

\* The stage s of a plan is one loop.
Lone(p, s, i, adapter, n, collectors) ==
    \E l \in LoopsWith(i, adapter, n, collectors) : p.stages[s] = <<l>>

LEMMA LoneStage ==
  ASSUME NEW p, NEW s, NEW i, NEW a, NEW n, NEW C, Lone(p, s, i, a, n, C)
  PROVE  /\ i = 0 \/ OpenDuring(p, s, i) => StageOK(p, s)
         /\ DOMAIN p.stages[s] = {1}
         /\ p.stages[s][1].ops = n /\ p.stages[s][1].collectors = C
<1>1. PICK l \in LoopsWith(i, a, n, C) : p.stages[s] = <<l>>
  BY DEF Lone
<1>2. DOMAIN p.stages[s] = {1} /\ p.stages[s][1] = l
  BY <1>1, Alone
<1>3. l \in LoopType /\ l.shared = i /\ l.ops = n /\ l.collectors = C
  BY DEF LoopsWith
<1>4. i = 0 \/ OpenDuring(p, s, i) => StageOK(p, s)
  BY <1>2, <1>3 DEF StageOK
<1> QED
  BY <1>2, <1>3, <1>4

LEMMA LoneLoop ==
  ASSUME NEW p, NEW s, NEW i, NEW a, NEW n, NEW C, Lone(p, s, i, a, n, C)
  PROVE  DOMAIN p.stages[s] = {1} /\ p.stages[s][1].ops = n /\ p.stages[s][1].collectors = C
  BY LoneStage

\* The stage s of a plan is two POSIX loops with buffers of their own.
Twin(p, s, n, collectors, m, others) ==
    \E l \in LoopsWith(0, "posix", n, collectors), k \in LoopsWith(0, "posix", m, others) :
        p.stages[s] = <<l, k>>

LEMMA TwinStage ==
  ASSUME NEW p, NEW s, NEW n, NEW C, NEW m, NEW D, Twin(p, s, n, C, m, D)
  PROVE  /\ StageOK(p, s) /\ DOMAIN p.stages[s] = {1, 2}
         /\ p.stages[s][1].ops = n /\ p.stages[s][1].collectors = C
         /\ p.stages[s][2].ops = m /\ p.stages[s][2].collectors = D
<1>1. PICK l \in LoopsWith(0, "posix", n, C), k \in LoopsWith(0, "posix", m, D) :
          p.stages[s] = <<l, k>>
  BY DEF Twin
<1>2. DOMAIN p.stages[s] = {1, 2} /\ p.stages[s][1] = l /\ p.stages[s][2] = k
  BY <1>1, Pair
<1>3. /\ l \in LoopType /\ l.shared = 0 /\ l.ops = n /\ l.collectors = C
      /\ k \in LoopType /\ k.shared = 0 /\ k.ops = m /\ k.collectors = D
  BY DEF LoopsWith
<1>4. StageOK(p, s)
  BY <1>2, <1>3 DEF StageOK
<1> QED
  BY <1>2, <1>3, <1>4

LEMMA PlanWellFormed ==
  ASSUME NEW p, NEW n \in Nat, Len(p.stages) = n, DOMAIN p.stages = 1 .. n,
         \A i \in DOMAIN p.shared : PoolOK(p, i),
         \A s \in 1 .. n : StageOK(p, s)
  PROVE  WellFormed(p)
  BY DEF WellFormed

LEMMA DedupStages ==
  ASSUME NEW n \in Nat, NEW p, p = DedupCompression(n)
  PROVE  /\ Len(p.stages) = 6 /\ DOMAIN p.stages = 1 .. 6 /\ DOMAIN p.shared = {}
         /\ \A s \in 1 .. 6 : \E k \in Nat : Lone(p, s, 0, "none", k, {})
<1> DEFINE sweep(kind) == Seeded(Loop(1 + n, "none"), kind)
           audit == Seeded(Loop(2 * AuditBlocks, "none"), "audit")
           stages == << <<sweep("zeroes")>>, <<sweep("sample")>>, <<sweep("sample")>>,
                        <<sweep("sample")>>, <<sweep("sample")>>, <<audit>> >>
<1>1. \A kind \in {"zeroes", "sample"} : sweep(kind) \in LoopsWith(0, "none", 1 + n, {})
  BY LoopIs, LoopStays
<1>2. audit \in LoopsWith(0, "none", 2 * AuditBlocks, {}) /\ 2 * AuditBlocks \in Nat
  <2>1. 2 * AuditBlocks \in Nat
    BY DEF AuditBlocks
  <2> QED
    BY <2>1, LoopIs, LoopStays
<1>3. p = UseCase(stages, <<>>, FALSE)
  BY DEF DedupCompression
<1> HIDE DEF sweep, audit
<1>4. /\ Len(stages) = 6 /\ DOMAIN stages = 1 .. 6
      /\ \A s \in 1 .. 6 : stages[s] \in {<<sweep("zeroes")>>, <<sweep("sample")>>, <<audit>>}
  OBVIOUS
<1>5. p.stages = stages /\ DOMAIN p.shared = {}
  BY <1>3 DEF UseCase
<1> HIDE DEF stages
<1>6. ASSUME NEW s \in 1 .. 6 PROVE \E k \in Nat : Lone(p, s, 0, "none", k, {})
  <2>1. CASE p.stages[s] = <<audit>>
    BY <1>2, <2>1 DEF Lone
  <2>2. CASE \E kind \in {"zeroes", "sample"} : p.stages[s] = <<sweep(kind)>>
    BY <1>1, <2>2 DEF Lone
  <2> QED
    BY <1>4, <1>5, <2>1, <2>2
<1> QED
  BY <1>4, <1>5, <1>6

LEMMA DedupWellFormed ==
  ASSUME NEW n \in Nat
  PROVE  WellFormed(DedupCompression(n))
<1>1. PICK p : p = DedupCompression(n)
  OBVIOUS
<1>2. \A s \in 1 .. 6 : StageOK(p, s)
  BY <1>1, DedupStages, LoneStage
<1> QED
  BY <1>1, <1>2, DedupStages, PlanWellFormed

LEMMA BatchesTyped ==
  ASSUME NEW q \in Nat, NEW k \in Nat \ {0}, NEW c \in 0 .. k - 1
  PROVE  QueryStart(q, k, c) \in Nat /\ QueryCount(q, k, c) \in Int
<1>1. BatchSize(q, k) \in Nat
  BY Division DEF BatchSize
<1>2. QueryStart(q, k, c) \in Nat
  BY <1>1, Products DEF QueryStart
<1> QED
  BY <1>1, <1>2 DEF QueryCount

\* The query coroutines of use case 05.
BusyClients(queries, clients) == {c \in 1 .. clients : QueryCount(queries, clients, c - 1) > 0}

\* The three stages of the vector use case.
VectorShape(p, upserts, queries, clients, chunks) ==
    /\ Len(p.stages) = 3 /\ DOMAIN p.stages = 1 .. 3
    /\ Lone(p, 1, 1, "vector", upserts, {"upsert"})
    /\ DOMAIN p.stages[2] = BusyClients(queries, clients)
    /\ \A c \in BusyClients(queries, clients) :
          p.stages[2][c] \in LoopsWith(1, "vector", QueryCount(queries, clients, c - 1),
                                       {"query"})
    /\ Lone(p, 3, 0, "s3", chunks, {"s3"})
    /\ DOMAIN p.shared = {1} /\ p.shared[1].from = 1 /\ p.shared[1].to = 3

LEMMA VectorStages ==
  ASSUME NEW upserts \in Nat, NEW queries \in Nat, NEW clients \in Nat \ {0},
         NEW chunks \in Nat, NEW p, p = VectorS3(upserts, queries, clients, chunks)
  PROVE  VectorShape(p, upserts, queries, clients, chunks)
<1> DEFINE loop(n) == Sharing(Pooled(Loop(n, "vector"), VectorPool(clients)), 1)
           worker(c) == Into([loop(QueryCount(queries, clients, c)) EXCEPT
                                  !.first = QueryStart(queries, clients, c)], {"query"})
           busy == {c \in 1 .. clients : QueryCount(queries, clients, c - 1) > 0}
           upsert == Flushed(Into(loop(upserts), {"upsert"}))
           tasks == [c \in busy |-> worker(c - 1)]
           s3 == Flushed(Into(Pooled(Loop(chunks, "s3"), 4), {"s3"}))
           stages == << <<upsert>>, tasks, <<s3>> >>
<1>1. p = UseCase(stages, <<Shared(1, 3)>>, FALSE)
  BY DEF VectorS3
<1>2. VectorPool(clients) \in Nat \ {0}
  <2>1. clients * 2 \in Nat
    OBVIOUS
  <2>2. Max({8, clients * 2}) \in Nat /\ 8 <= Max({8, clients * 2})
    BY <2>1, LargerOf
  <2> QED
    BY <2>2 DEF VectorPool
<1>3. \A n \in Nat : loop(n) \in LoopsWith(1, "vector", n, {})
  <2> TAKE n \in Nat
  <2>1. Pooled(Loop(n, "vector"), VectorPool(clients)) \in LoopsWith(0, "vector", n, {})
    BY <1>2, LoopIs, LoopStays
  <2> QED
    BY <2>1, LoopStays
<1> HIDE DEF loop
<1>4. /\ {"upsert"} \in SUBSET CollectorNames /\ {"query"} \in SUBSET CollectorNames
      /\ {"s3"} \in SUBSET CollectorNames
  BY DEF CollectorNames
<1>5. upsert \in LoopsWith(1, "vector", upserts, {"upsert"})
  <2>1. Into(loop(upserts), {"upsert"}) \in LoopsWith(1, "vector", upserts, {"upsert"})
    BY <1>3, <1>4, LoopStays
  <2> QED
    BY <2>1, LoopStays
<1>6. ASSUME NEW c \in busy
      PROVE  worker(c - 1) \in LoopsWith(1, "vector", QueryCount(queries, clients, c - 1), {"query"})
  <2> DEFINE start == QueryStart(queries, clients, c - 1)
             count == QueryCount(queries, clients, c - 1)
             base == [loop(count) EXCEPT !.first = start]
  <2>1. start \in Nat /\ count \in Nat
    BY BatchesTyped
  <2>2. loop(count) \in LoopsWith(1, "vector", count, {})
    BY <1>3, <2>1
  <2>3. worker(c - 1) = Into(base, {"query"})
    OBVIOUS
  <2> HIDE DEF start, count, worker
  <2>4. base \in LoopsWith(1, "vector", count, {})
    BY <2>1, <2>2 DEF LoopType, LoopsWith
  <2> HIDE DEF base
  <2>5. Into(base, {"query"}) \in LoopsWith(1, "vector", count, {"query"})
    BY <1>4, <2>4, LoopStays
  <2> QED
    BY <2>3, <2>5 DEF count
<1>7. s3 \in LoopsWith(0, "s3", chunks, {"s3"})
  <2>1. Loop(chunks, "s3") \in LoopsWith(0, "s3", chunks, {}) /\ 4 \in Nat \ {0}
    BY LoopIs
  <2>2. Pooled(Loop(chunks, "s3"), 4) \in LoopsWith(0, "s3", chunks, {})
    BY <2>1, LoopStays
  <2>3. Into(Pooled(Loop(chunks, "s3"), 4), {"s3"}) \in LoopsWith(0, "s3", chunks, {"s3"})
    BY <1>4, <2>2, LoopStays
  <2> QED
    BY <2>3, LoopStays
<1> HIDE DEF worker, upsert, s3
<1>8. /\ DOMAIN tasks = busy /\ busy = BusyClients(queries, clients)
      /\ \A c \in busy : tasks[c] = worker(c - 1)
  BY DEF BusyClients
<1> HIDE DEF tasks, busy
<1>9. /\ Len(stages) = 3 /\ DOMAIN stages = 1 .. 3
      /\ stages[1] = <<upsert>> /\ stages[2] = tasks /\ stages[3] = <<s3>>
  OBVIOUS
<1>10. /\ p.stages = stages /\ DOMAIN p.shared = {1}
       /\ p.shared[1].from = 1 /\ p.shared[1].to = 3
  BY <1>1 DEF UseCase, Shared
<1> HIDE DEF stages
<1>11. /\ Lone(p, 1, 1, "vector", upserts, {"upsert"})
       /\ Lone(p, 3, 0, "s3", chunks, {"s3"})
  BY <1>5, <1>7, <1>9, <1>10 DEF Lone
<1>12. /\ DOMAIN p.stages[2] = busy
       /\ \A c \in busy : p.stages[2][c] \in
             LoopsWith(1, "vector", QueryCount(queries, clients, c - 1), {"query"})
  BY <1>6, <1>8, <1>9, <1>10
<1>13. Len(p.stages) = 3 /\ DOMAIN p.stages = 1 .. 3
  BY <1>9, <1>10
<1> QED
  BY <1>8, <1>10, <1>11, <1>12, <1>13 DEF VectorShape

LEMMA OneToThree ==
  ASSUME NEW s \in 1 .. 3
  PROVE  s = 1 \/ s = 2 \/ s = 3
  OBVIOUS

LEMMA VectorWellFormed ==
  ASSUME NEW upserts \in Nat, NEW queries \in Nat, NEW clients \in Nat \ {0}, NEW chunks \in Nat
  PROVE  WellFormed(VectorS3(upserts, queries, clients, chunks))
<1>1. PICK p : p = VectorS3(upserts, queries, clients, chunks)
  OBVIOUS
<1>2. /\ Len(p.stages) = 3 /\ DOMAIN p.stages = 1 .. 3
      /\ Lone(p, 1, 1, "vector", upserts, {"upsert"})
      /\ \A c \in DOMAIN p.stages[2] :
            p.stages[2][c] \in LoopsWith(1, "vector", QueryCount(queries, clients, c - 1),
                                         {"query"})
      /\ Lone(p, 3, 0, "s3", chunks, {"s3"})
      /\ DOMAIN p.shared = {1} /\ p.shared[1].from = 1 /\ p.shared[1].to = 3
  <2>1. VectorShape(p, upserts, queries, clients, chunks)
    BY <1>1, VectorStages
  <2> QED
    BY <2>1 DEF VectorShape
<1>3. \A s \in 1 .. 3 : OpenDuring(p, s, 1)
  BY <1>2 DEF OpenDuring
<1>4. StageOK(p, 1) /\ StageOK(p, 3)
  BY <1>2, <1>3, LoneStage
<1>5. StageOK(p, 2)
  <2>1. \A c \in DOMAIN p.stages[2] : /\ p.stages[2][c] \in LoopType
                                      /\ p.stages[2][c].shared = 1
                                      /\ p.stages[2][c].adapter = "vector"
    BY <1>2 DEF LoopsWith
  <2> QED
    BY <1>3, <2>1 DEF StageOK
<1>6. \A s \in 1 .. 3 : StageOK(p, s)
  BY <1>4, <1>5, OneToThree
<1>7. \A i \in DOMAIN p.shared : PoolOK(p, i)
  BY <1>2 DEF PoolOK
<1> QED
  BY <1>1, <1>2, <1>6, <1>7, PlanWellFormed

LEMMA KvCacheStages ==
  ASSUME NEW prefill \in Nat, NEW tokens \in Nat, NEW checkpoint \in Nat,
         NEW p, p = KvCache(prefill, tokens, checkpoint)
  PROVE  /\ Len(p.stages) = 3 /\ DOMAIN p.stages = 1 .. 3 /\ DOMAIN p.shared = {1, 2}
         /\ \A i \in {1, 2} : p.shared[i].from = i /\ p.shared[i].to = 0
         /\ Lone(p, 1, 1, "posix", Max({1, prefill}), {"prefill"})
         /\ Lone(p, 2, 2, "posix", tokens, {"decode"})
         /\ Lone(p, 3, 0, "posix", checkpoint, {})
<1> DEFINE loop(n) == OnFile(Loop(n, "posix"), "ai_sim_target.dat")
           fill == Sharing(Seeded(Into(loop(Max({1, prefill})), {"prefill"}), "seed"), 1)
           decode == Sharing(Seeded(Into(loop(tokens), {"decode"}), "seed"), 2)
           save == Flushed(Pooled(loop(checkpoint), 4))
           stages == << <<fill>>, <<decode>>, <<save>> >>
<1>1. p = UseCase(stages, <<Shared(1, 0), Shared(2, 0)>>, TRUE)
  BY DEF KvCache
<1>2. \A n \in Nat : loop(n) \in LoopsWith(0, "posix", n, {})
  BY LoopIs, LoopStays DEF Paths
<1> HIDE DEF loop
<1>3. \A c \in CollectorNames, n \in Nat :
          Seeded(Into(loop(n), {c}), "seed") \in LoopsWith(0, "posix", n, {c})
  <2> TAKE c \in CollectorNames, n \in Nat
  <2>1. Into(loop(n), {c}) \in LoopsWith(0, "posix", n, {c})
    BY <1>2, LoopStays
  <2> QED
    BY <2>1, LoopStays
<1>4. fill \in LoopsWith(1, "posix", Max({1, prefill}), {"prefill"})
  <2>1. Max({1, prefill}) \in Nat /\ "prefill" \in CollectorNames
    BY LargerOf DEF CollectorNames
  <2> QED
    BY <1>3, <2>1, LoopStays
<1>5. decode \in LoopsWith(2, "posix", tokens, {"decode"})
  <2>1. "decode" \in CollectorNames
    BY DEF CollectorNames
  <2> QED
    BY <1>3, <2>1, LoopStays
<1>6. save \in LoopsWith(0, "posix", checkpoint, {})
  <2>1. loop(checkpoint) \in LoopsWith(0, "posix", checkpoint, {}) /\ 4 \in Nat \ {0}
    BY <1>2
  <2>2. Pooled(loop(checkpoint), 4) \in LoopsWith(0, "posix", checkpoint, {})
    BY <2>1, LoopStays
  <2> QED
    BY <2>2, LoopStays
<1> HIDE DEF fill, decode, save
<1>7. /\ Len(stages) = 3 /\ DOMAIN stages = 1 .. 3
      /\ stages[1] = <<fill>> /\ stages[2] = <<decode>> /\ stages[3] = <<save>>
  OBVIOUS
<1>8. /\ p.stages = stages /\ DOMAIN p.shared = {1, 2}
      /\ \A i \in {1, 2} : p.shared[i].from = i /\ p.shared[i].to = 0
  BY <1>1 DEF UseCase, Shared
<1> HIDE DEF stages
<1>9. /\ Lone(p, 1, 1, "posix", Max({1, prefill}), {"prefill"})
      /\ Lone(p, 2, 2, "posix", tokens, {"decode"})
      /\ Lone(p, 3, 0, "posix", checkpoint, {})
  BY <1>4, <1>5, <1>6, <1>7, <1>8 DEF Lone
<1> QED
  BY <1>7, <1>8, <1>9

LEMMA KvCacheWellFormed ==
  ASSUME NEW prefill \in Nat, NEW tokens \in Nat, NEW checkpoint \in Nat
  PROVE  WellFormed(KvCache(prefill, tokens, checkpoint))
<1>1. PICK p : p = KvCache(prefill, tokens, checkpoint)
  OBVIOUS
<1>2. /\ Len(p.stages) = 3 /\ DOMAIN p.stages = 1 .. 3 /\ DOMAIN p.shared = {1, 2}
      /\ \A i \in {1, 2} : p.shared[i].from = i /\ p.shared[i].to = 0
      /\ Lone(p, 1, 1, "posix", Max({1, prefill}), {"prefill"})
      /\ Lone(p, 2, 2, "posix", tokens, {"decode"})
      /\ Lone(p, 3, 0, "posix", checkpoint, {})
  BY <1>1, KvCacheStages
<1>3. OpenDuring(p, 1, 1) /\ OpenDuring(p, 2, 2)
  BY <1>2 DEF OpenDuring
<1>4. StageOK(p, 1) /\ StageOK(p, 2) /\ StageOK(p, 3)
  BY <1>2, <1>3, LoneStage
<1>5. \A s \in 1 .. 3 : StageOK(p, s)
  BY <1>4, OneToThree
<1>6. \A i \in DOMAIN p.shared : PoolOK(p, i)
  BY <1>2 DEF PoolOK
<1> QED
  BY <1>1, <1>2, <1>5, <1>6, PlanWellFormed

LEMMA TenantsAre ==
  ASSUME NEW n \in Nat, NEW c \in CollectorNames, NEW pause \in {0, 1}
  PROVE  /\ TenantA(n, c) \in LoopsWith(0, "posix", n, {c})
         /\ TenantB(n, c, pause) \in LoopsWith(0, "posix", n, {c})
<1> DEFINE a == OnFile(Loop(n, "posix"), "tenant_a_oltp.dat")
           b == OnFile(Loop(n, "posix"), "tenant_b_batch.dat")
<1>1. /\ a \in LoopsWith(0, "posix", n, {}) /\ b \in LoopsWith(0, "posix", n, {})
      /\ 4 \in Nat \ {0}
  BY LoopIs, LoopStays DEF Paths
<1>2. TenantA(n, c) = Paced(Into(Pooled(a, 4), {c}), 1)
      /\ TenantB(n, c, pause) = Paced(Into(Seeded(b, "seed"), {c}), pause)
  BY DEF TenantA, TenantB
<1> HIDE DEF a, b
<1>3. /\ Pooled(a, 4) \in LoopsWith(0, "posix", n, {})
      /\ Seeded(b, "seed") \in LoopsWith(0, "posix", n, {})
  BY <1>1, LoopStays
<1>4. /\ Into(Pooled(a, 4), {c}) \in LoopsWith(0, "posix", n, {c})
      /\ Into(Seeded(b, "seed"), {c}) \in LoopsWith(0, "posix", n, {c})
  <2>1. {c} \in SUBSET CollectorNames
    OBVIOUS
  <2> QED
    BY <1>3, <2>1, LoopStays
<1>5. /\ Paced(Into(Pooled(a, 4), {c}), 1) \in LoopsWith(0, "posix", n, {c})
      /\ Paced(Into(Seeded(b, "seed"), {c}), pause) \in LoopsWith(0, "posix", n, {c})
  BY <1>4, LoopStays
<1> QED
  BY <1>2, <1>5

LEMMA QosStages ==
  ASSUME NEW ops \in Nat, NEW chunks \in Nat, NEW throttle \in BOOLEAN,
         NEW p, p = MultitenantQos(ops, chunks, throttle)
  PROVE  /\ Len(p.stages) = IF throttle THEN 3 ELSE 2
         /\ DOMAIN p.stages = 1 .. Len(p.stages) /\ DOMAIN p.shared = {}
         /\ Lone(p, 1, 0, "posix", ops, {"a_baseline"})
         /\ Twin(p, 2, ops, {"a_contended"}, chunks, {"b_unthrottled"})
         /\ throttle => Twin(p, 3, ops, {"a_qos"}, chunks, {"b_qos"})
<1> DEFINE alone == <<TenantA(ops, "a_baseline")>>
           contended == <<TenantA(ops, "a_contended"), TenantB(chunks, "b_unthrottled", 0)>>
           qos == <<TenantA(ops, "a_qos"), TenantB(chunks, "b_qos", 1)>>
           stages == IF throttle THEN <<alone, contended, qos>> ELSE <<alone, contended>>
<1>1. p.stages = stages /\ DOMAIN p.shared = {}
  BY DEF MultitenantQos, UseCase
<1>2. \A c \in {"a_baseline", "a_contended", "a_qos"} :
          TenantA(ops, c) \in LoopsWith(0, "posix", ops, {c})
  BY TenantsAre DEF CollectorNames
<1>3. /\ TenantB(chunks, "b_unthrottled", 0) \in LoopsWith(0, "posix", chunks, {"b_unthrottled"})
      /\ TenantB(chunks, "b_qos", 1) \in LoopsWith(0, "posix", chunks, {"b_qos"})
  BY TenantsAre DEF CollectorNames
<1>4. /\ stages[1] = alone /\ stages[2] = contended
      /\ throttle => stages[3] = qos
      /\ DOMAIN stages = 1 .. Len(stages) /\ Len(stages) = IF throttle THEN 3 ELSE 2
  <2> HIDE DEF alone, contended, qos
  <2>1. CASE throttle
    BY <2>1
  <2>2. CASE ~throttle
    BY <2>2
  <2> QED
    BY <2>1, <2>2
<1>5. Lone(p, 1, 0, "posix", ops, {"a_baseline"})
  BY <1>1, <1>2, <1>4 DEF Lone
<1>6. Twin(p, 2, ops, {"a_contended"}, chunks, {"b_unthrottled"})
  <2> HIDE DEF stages
  <2> QED
    BY <1>1, <1>2, <1>3, <1>4 DEF Twin
<1>7. throttle => Twin(p, 3, ops, {"a_qos"}, chunks, {"b_qos"})
  <2> HIDE DEF stages
  <2> QED
    BY <1>1, <1>2, <1>3, <1>4 DEF Twin
<1> HIDE DEF stages
<1> QED
  BY <1>1, <1>4, <1>5, <1>6, <1>7

LEMMA QosWellFormed ==
  ASSUME NEW ops \in Nat, NEW chunks \in Nat, NEW throttle \in BOOLEAN
  PROVE  WellFormed(MultitenantQos(ops, chunks, throttle))
<1>1. PICK p : p = MultitenantQos(ops, chunks, throttle)
  OBVIOUS
<1>2. /\ StageOK(p, 1) /\ StageOK(p, 2)
      /\ throttle => StageOK(p, 3)
  BY <1>1, QosStages, LoneStage, TwinStage
<1>3. /\ Len(p.stages) = IF throttle THEN 3 ELSE 2
      /\ DOMAIN p.stages = 1 .. Len(p.stages) /\ DOMAIN p.shared = {}
  BY <1>1, QosStages
<1>4. ASSUME NEW s \in 1 .. Len(p.stages) PROVE StageOK(p, s)
  <2>1. s = 1 \/ s = 2 \/ (s = 3 /\ throttle)
    BY <1>3
  <2> QED
    BY <1>2, <2>1
<1>5. Len(p.stages) \in Nat
  BY <1>3
<1> QED
  BY <1>1, <1>3, <1>4, <1>5, PlanWellFormed

\* The three stages of the tiering use case.
TieringShape(p, hotOps, warmMb, coldChunks) ==
    /\ Len(p.stages) = 3 /\ DOMAIN p.stages = 1 .. 3 /\ DOMAIN p.shared = {}
    /\ Lone(p, 1, 0, "posix", hotOps, {"hot"})
    /\ Lone(p, 2, 0, "posix", warmMb, {"warm"})
    /\ Lone(p, 3, 0, "s3", coldChunks, {"cold"})

LEMMA TieringStages ==
  ASSUME NEW hotOps \in Nat, NEW warmMb \in Nat, NEW coldChunks \in Nat,
         NEW p, p = StorageTiering(hotOps, warmMb, coldChunks)
  PROVE  TieringShape(p, hotOps, warmMb, coldChunks)
<1> DEFINE hotFile == OnFile(Loop(hotOps, "posix"), "tier_hot_nvme.dat")
           warmFile == OnFile(Loop(warmMb, "posix"), "tier_warm_block.dat")
           hot == Into(Pooled(hotFile, 4), {"hot"})
           warm == Into(Seeded(warmFile, "seed"), {"warm"})
           cold == Flushed(Into(Pooled(Loop(coldChunks, "s3"), 2), {"cold"}))
           stages == << <<hot>>, <<warm>>, <<cold>> >>
<1>1. p = UseCase(stages, <<>>, TRUE)
  BY DEF StorageTiering
<1>2. /\ {"hot"} \in SUBSET CollectorNames /\ {"warm"} \in SUBSET CollectorNames
      /\ {"cold"} \in SUBSET CollectorNames
  BY DEF CollectorNames
<1>3. /\ hotFile \in LoopsWith(0, "posix", hotOps, {})
      /\ warmFile \in LoopsWith(0, "posix", warmMb, {})
      /\ Loop(coldChunks, "s3") \in LoopsWith(0, "s3", coldChunks, {})
      /\ 4 \in Nat \ {0} /\ 2 \in Nat \ {0}
  BY LoopIs, LoopStays DEF Paths
<1> HIDE DEF hotFile, warmFile
<1>4. /\ Pooled(hotFile, 4) \in LoopsWith(0, "posix", hotOps, {})
      /\ Seeded(warmFile, "seed") \in LoopsWith(0, "posix", warmMb, {})
      /\ Pooled(Loop(coldChunks, "s3"), 2) \in LoopsWith(0, "s3", coldChunks, {})
  BY <1>3, LoopStays
<1>5. /\ hot \in LoopsWith(0, "posix", hotOps, {"hot"})
      /\ warm \in LoopsWith(0, "posix", warmMb, {"warm"})
  BY <1>2, <1>4, LoopStays
<1>6. cold \in LoopsWith(0, "s3", coldChunks, {"cold"})
  <2>1. Into(Pooled(Loop(coldChunks, "s3"), 2), {"cold"})
            \in LoopsWith(0, "s3", coldChunks, {"cold"})
    BY <1>2, <1>4, LoopStays
  <2> QED
    BY <2>1, LoopStays
<1> HIDE DEF hot, warm, cold
<1>7. /\ Len(stages) = 3 /\ DOMAIN stages = 1 .. 3
      /\ stages[1] = <<hot>> /\ stages[2] = <<warm>> /\ stages[3] = <<cold>>
  OBVIOUS
<1>8. p.stages = stages /\ DOMAIN p.shared = {}
  BY <1>1 DEF UseCase
<1> HIDE DEF stages
<1> QED
  BY <1>5, <1>6, <1>7, <1>8 DEF Lone, TieringShape

LEMMA TieringWellFormed ==
  ASSUME NEW hotOps \in Nat, NEW warmMb \in Nat, NEW coldChunks \in Nat
  PROVE  WellFormed(StorageTiering(hotOps, warmMb, coldChunks))
<1>1. PICK p : p = StorageTiering(hotOps, warmMb, coldChunks)
  OBVIOUS
<1>2. TieringShape(p, hotOps, warmMb, coldChunks)
  BY <1>1, TieringStages
<1>3. StageOK(p, 1) /\ StageOK(p, 2) /\ StageOK(p, 3)
  BY <1>2, LoneStage DEF TieringShape
<1>4. \A s \in 1 .. 3 : StageOK(p, s)
  BY <1>3, OneToThree
<1>5. Len(p.stages) = 3 /\ DOMAIN p.stages = 1 .. 3 /\ DOMAIN p.shared = {}
  BY <1>2 DEF TieringShape
<1>6. 3 \in Nat /\ \A i \in DOMAIN p.shared : PoolOK(p, i)
  BY <1>5
<1>7. WellFormed(p)
  BY <1>4, <1>5, <1>6 DEF WellFormed
<1> QED
  BY <1>1, <1>7

BurstPlan(p, steadyOps, cycles, intensity) ==
    /\ Len(p.stages) = 1 + cycles /\ DOMAIN p.stages = 1 .. 1 + cycles
    /\ DOMAIN p.shared = {1} /\ p.shared[1].from = 1 /\ p.shared[1].to = 1 + cycles
    /\ Lone(p, 1, 1, "posix", steadyOps, {"steady", "combined"})
    /\ \A s \in 2 .. 1 + cycles : Lone(p, s, 1, "posix", intensity, {"burst", "combined"})

LEMMA MicroburstStages ==
  ASSUME NEW steadyOps \in Nat, NEW cycles \in Nat, NEW intensity \in Nat,
         NEW p, p = Microburst(steadyOps, cycles, intensity)
  PROVE  BurstPlan(p, steadyOps, cycles, intensity)
<1> DEFINE file(n) == OnFile(Loop(n, "posix"), "microburst_target.dat")
           loop(n, c) == Into(Sharing(Pooled(file(n), 8), 1), {c, "combined"})
           steady == Paced(loop(steadyOps, "steady"), 1)
           burst == Paced(loop(intensity, "burst"), intensity)
           stages == [s \in 1 .. 1 + cycles |-> IF s = 1 THEN <<steady>> ELSE <<burst>>]
<1>1. p = UseCase(stages, <<Shared(1, 1 + cycles)>>, TRUE)
  BY DEF Microburst
<1>2. ASSUME NEW n \in Nat, NEW c \in {"steady", "burst"}
      PROVE  loop(n, c) \in LoopsWith(1, "posix", n, {c, "combined"})
  <2>1. file(n) \in LoopsWith(0, "posix", n, {}) /\ 8 \in Nat \ {0}
    BY LoopIs, LoopStays DEF Paths
  <2> HIDE DEF file
  <2>2. Pooled(file(n), 8) \in LoopsWith(0, "posix", n, {})
    BY <2>1, LoopStays
  <2>3. Sharing(Pooled(file(n), 8), 1) \in LoopsWith(1, "posix", n, {})
    BY <2>2, LoopStays
  <2>4. {c, "combined"} \in SUBSET CollectorNames
    BY DEF CollectorNames
  <2> QED
    BY <2>3, <2>4, LoopStays
<1> HIDE DEF loop
<1>3. /\ steady \in LoopsWith(1, "posix", steadyOps, {"steady", "combined"})
      /\ burst \in LoopsWith(1, "posix", intensity, {"burst", "combined"})
  BY <1>2, LoopStays
<1> HIDE DEF steady, burst
<1>4. /\ DOMAIN stages = 1 .. 1 + cycles /\ Len(stages) = 1 + cycles
      /\ \A s \in 1 .. 1 + cycles : stages[s] = IF s = 1 THEN <<steady>> ELSE <<burst>>
  <2>1. stages \in Seq({<<steady>>, <<burst>>})
    OBVIOUS
  <2> QED
    BY <2>1
<1>5. /\ p.stages = stages /\ DOMAIN p.shared = {1}
      /\ p.shared[1].from = 1 /\ p.shared[1].to = 1 + cycles
  BY <1>1 DEF UseCase, Shared
<1> HIDE DEF stages
<1>6. p.stages[1] = <<steady>> /\ \A s \in 2 .. 1 + cycles : p.stages[s] = <<burst>>
  BY <1>4, <1>5
<1> QED
  BY <1>3, <1>4, <1>5, <1>6 DEF Lone, BurstPlan

LEMMA MicroburstWellFormed ==
  ASSUME NEW steadyOps \in Nat, NEW cycles \in Nat, NEW intensity \in Nat
  PROVE  WellFormed(Microburst(steadyOps, cycles, intensity))
<1>1. PICK p : p = Microburst(steadyOps, cycles, intensity)
  OBVIOUS
<1>2. BurstPlan(p, steadyOps, cycles, intensity)
  BY <1>1, MicroburstStages
<1>3. ASSUME NEW s \in 1 .. 1 + cycles PROVE StageOK(p, s)
  <2>1. OpenDuring(p, s, 1)
    BY <1>2 DEF OpenDuring, BurstPlan
  <2>2. s = 1 \/ s \in 2 .. 1 + cycles
    OBVIOUS
  <2> QED
    BY <1>2, <2>1, <2>2, LoneStage DEF BurstPlan
<1>4. \A i \in DOMAIN p.shared : PoolOK(p, i)
  BY <1>2 DEF PoolOK, BurstPlan
<1>5. /\ Len(p.stages) = 1 + cycles /\ DOMAIN p.stages = 1 .. 1 + cycles
      /\ 1 + cycles \in Nat
  BY <1>2 DEF BurstPlan
<1> QED
  BY <1>1, <1>3, <1>4, <1>5, PlanWellFormed

\* The plan of every use case is well formed, whatever its arguments.
LEMMA PlansWellFormed ==
  ASSUME NEW r \in Runs
  PROVE  WellFormed(Plan(r))
<1>1. r.name \in DOMAIN Arity /\ r.args \in [1 .. Arity[r.name] -> Nat]
  BY WorkloadsAssumption
<1>2. r.name = "usecase_05" => r.args[3] > 0
  BY WorkloadsAssumption
<1>3. CASE r.name = "usecase_02"
  <2>1. r.args[1] \in Nat
    BY <1>1, <1>3 DEF Arity
  <2> QED
    BY <1>3, <2>1, DedupWellFormed DEF Plan
<1>4. CASE r.name = "usecase_05"
  <2>1. {r.args[1], r.args[2], r.args[4]} \subseteq Nat /\ r.args[3] \in Nat \ {0}
    BY <1>1, <1>2, <1>4 DEF Arity
  <2> QED
    BY <1>4, <2>1, VectorWellFormed DEF Plan
<1>5. CASE r.name = "usecase_06"
  <2>1. {r.args[1], r.args[2], r.args[3]} \subseteq Nat
    BY <1>1, <1>5 DEF Arity
  <2> QED
    BY <1>5, <2>1, KvCacheWellFormed DEF Plan
<1>6. CASE r.name = "usecase_07"
  <2>1. {r.args[1], r.args[2]} \subseteq Nat
    BY <1>1, <1>6 DEF Arity
  <2> QED
    BY <1>6, <2>1, QosWellFormed DEF Plan
<1>7. CASE r.name = "usecase_09"
  <2>1. {r.args[1], r.args[2], r.args[3]} \subseteq Nat
    BY <1>1, <1>7 DEF Arity
  <2> QED
    BY <1>7, <2>1, TieringWellFormed DEF Plan
<1>8. CASE r.name = "usecase_10"
  <2>1. {r.args[1], r.args[2], r.args[3]} \subseteq Nat
    BY <1>1, <1>8 DEF Arity
  <2> QED
    BY <1>8, <2>1, MicroburstWellFormed DEF Plan
<1> QED
  BY <1>1, <1>3, <1>4, <1>5, <1>6, <1>7, <1>8 DEF Arity

-----------------------------------------------------------------------------
(* How many operations a plan makes for each collector. *)

\* The operations a collector sees, by stage, coroutine and number.
Operations(p, c) ==
    UNION {UNION {{<<s, t, j>> : j \in 0 .. p.stages[s][t].ops - 1} :
                      t \in {u \in DOMAIN p.stages[s] : c \in p.stages[s][u].collectors}} :
               s \in DOMAIN p.stages}

LEMMA InOperations ==
  ASSUME NEW p, NEW c, NEW x
  PROVE  x \in Operations(p, c) <=>
            \E s \in DOMAIN p.stages : \E t \in DOMAIN p.stages[s] :
                /\ c \in p.stages[s][t].collectors
                /\ \E j \in 0 .. p.stages[s][t].ops - 1 : x = <<s, t, j>>
  BY DEF Operations

Makes(p, c, n) == IsFiniteSet(Operations(p, c)) /\ Cardinality(Operations(p, c)) = n

\* A set that can be numbered from 0 to n - 1 has n elements.
LEMMA Numbered ==
  ASSUME NEW S, NEW n \in Nat, NEW f \in [S -> 0 .. n - 1],
         \A x, y \in S : f[x] = f[y] => x = y,
         \A i \in 0 .. n - 1 : \E x \in S : f[x] = i
  PROVE  IsFiniteSet(S) /\ Cardinality(S) = n
<1>1. IsFiniteSet(0 .. n - 1) /\ Cardinality(0 .. n - 1) = n
  BY FS_Interval
<1>2. f \in Injection(S, 0 .. n - 1) /\ f \in Surjection(S, 0 .. n - 1)
  BY DEF Injection, Surjection, IsInjective
<1> QED
  BY <1>1, <1>2, FS_Injection

\* A collector of one loop only.
LEMMA OneLoop ==
  ASSUME NEW p, NEW c, NEW s \in DOMAIN p.stages, NEW t \in DOMAIN p.stages[s],
         c \in p.stages[s][t].collectors, p.stages[s][t].ops \in Nat,
         \A u \in DOMAIN p.stages : \A v \in DOMAIN p.stages[u] :
             c \in p.stages[u][v].collectors => u = s /\ v = t
  PROVE  Makes(p, c, p.stages[s][t].ops)
<1> DEFINE n == p.stages[s][t].ops
           S == Operations(p, c)
           f == [x \in S |-> x[3]]
<1>1. \A x : x \in S <=> \E j \in 0 .. n - 1 : x = <<s, t, j>>
  BY InOperations
<1> HIDE DEF S, n
<1>2. f \in [S -> 0 .. n - 1]
  BY <1>1
<1>3. \A x, y \in S : f[x] = f[y] => x = y
  BY <1>1
<1>4. ASSUME NEW i \in 0 .. n - 1 PROVE \E x \in S : f[x] = i
  <2>1. <<s, t, i>> \in S
    BY <1>1
  <2>2. f[<<s, t, i>>] = i
    BY <2>1
  <2> QED
    BY <2>1, <2>2
<1>5. n \in Nat
  BY DEF n
<1> HIDE DEF f
<1>6. IsFiniteSet(S) /\ Cardinality(S) = n
  BY <1>2, <1>3, <1>4, <1>5, Numbered
<1> QED
  BY <1>6 DEF Makes, S, n

LEMMA VectorCounts ==
  ASSUME NEW upserts \in Nat, NEW queries \in Nat, NEW clients \in Nat \ {0},
         NEW chunks \in Nat, NEW p, p = VectorS3(upserts, queries, clients, chunks)
  PROVE  /\ Makes(p, "upsert", upserts) /\ Makes(p, "s3", chunks)
         /\ Makes(p, "query", IF queries >= clients THEN queries ELSE clients - 1)
         /\ \A s \in DOMAIN p.stages : \A t \in DOMAIN p.stages[s] :
               p.stages[s][t].collectors \subseteq {"upsert", "query", "s3"}
<1> DEFINE busy == BusyClients(queries, clients)
           Count(t) == QueryCount(queries, clients, t - 1)
           First(t) == QueryStart(queries, clients, t - 1)
<1>0. VectorShape(p, upserts, queries, clients, chunks)
  BY VectorStages
<1>1. /\ DOMAIN p.stages = 1 .. 3
      /\ DOMAIN p.stages[1] = {1} /\ DOMAIN p.stages[2] = busy /\ DOMAIN p.stages[3] = {1}
      /\ p.stages[1][1].ops = upserts /\ p.stages[1][1].collectors = {"upsert"}
      /\ p.stages[3][1].ops = chunks /\ p.stages[3][1].collectors = {"s3"}
  <2>1. /\ DOMAIN p.stages = 1 .. 3 /\ DOMAIN p.stages[2] = busy
        /\ Lone(p, 1, 1, "vector", upserts, {"upsert"})
        /\ Lone(p, 3, 0, "s3", chunks, {"s3"})
    BY <1>0 DEF VectorShape
  <2>2. /\ DOMAIN p.stages[1] = {1}
        /\ p.stages[1][1].ops = upserts /\ p.stages[1][1].collectors = {"upsert"}
    <3>1. Lone(p, 1, 1, "vector", upserts, {"upsert"})
      BY <2>1
    <3> QED
      BY <3>1, LoneLoop
  <2>3. /\ DOMAIN p.stages[3] = {1}
        /\ p.stages[3][1].ops = chunks /\ p.stages[3][1].collectors = {"s3"}
    <3>1. Lone(p, 3, 0, "s3", chunks, {"s3"})
      BY <2>1
    <3> QED
      BY <3>1, LoneLoop
  <2> QED
    BY <2>1, <2>2, <2>3
<1>2. \A t \in busy : p.stages[2][t].ops = Count(t) /\ p.stages[2][t].collectors = {"query"}
  <2>1. \A t \in busy : p.stages[2][t] \in LoopsWith(1, "vector", Count(t), {"query"})
    BY <1>0 DEF VectorShape
  <2> QED
    BY <2>1 DEF LoopsWith
<1>3. \A t \in busy : /\ t \in 1 .. clients /\ Count(t) \in Nat \ {0} /\ First(t) \in Nat
  BY BatchesTyped DEF BusyClients
<1>4. \A t \in 1 .. clients : Count(t) > 0 => t \in busy
  BY DEF BusyClients
<1> HIDE DEF busy
<1>5. \A s \in DOMAIN p.stages : \A t \in DOMAIN p.stages[s] :
          \/ s = 1 /\ t = 1 /\ p.stages[s][t].collectors = {"upsert"}
          \/ s = 2 /\ t \in busy /\ p.stages[s][t].collectors = {"query"}
          \/ s = 3 /\ t = 1 /\ p.stages[s][t].collectors = {"s3"}
  BY <1>1, <1>2, OneToThree
<1>6. Makes(p, "upsert", upserts) /\ Makes(p, "s3", chunks)
  BY <1>1, <1>5, OneLoop
<1> DEFINE S == Operations(p, "query")
           f == [x \in S |-> First(x[2]) + x[3]]
           n == IF queries >= clients THEN queries ELSE clients - 1
<1>7. \A x : x \in S <=> \E t \in busy : \E j \in 0 .. Count(t) - 1 : x = <<2, t, j>>
  BY <1>1, <1>2, <1>5, InOperations
<1> HIDE DEF S
<1>8. /\ \A t \in busy : \A j \in 0 .. Count(t) - 1 : First(t) + j \in 0 .. n - 1
      /\ \A t, u \in busy : \A j \in 0 .. Count(t) - 1 : \A k \in 0 .. Count(u) - 1 :
            First(t) + j = First(u) + k => t = u /\ j = k
      /\ \A i \in 0 .. n - 1 : \E t \in busy : \E j \in 0 .. Count(t) - 1 : i = First(t) + j
  <2>1. CASE queries >= clients
    <3>1. \A t \in busy : t - 1 \in 0 .. clients - 1
      BY <1>3
    <3>2. \A t \in busy : \A j \in 0 .. Count(t) - 1 :
              First(t) + j \in Int /\ First(t) + j \in Batch(queries, clients, t - 1)
      BY <1>3 DEF Batch
    <3>3. ASSUME NEW t \in busy, NEW j \in 0 .. Count(t) - 1
          PROVE  First(t) + j \in 0 .. queries - 1
      <4> DEFINE i == First(t) + j
      <4>1. i \in Int /\ t - 1 \in 0 .. clients - 1 /\ i \in Batch(queries, clients, t - 1)
        BY <3>1, <3>2
      <4> HIDE DEF i
      <4>2. i \in 0 .. queries - 1
        BY <2>1, <4>1, QueriesPartitioned
      <4> QED
        BY <4>2 DEF i
    <3>4. ASSUME NEW t \in busy, NEW u \in busy, NEW j \in 0 .. Count(t) - 1,
                 NEW k \in 0 .. Count(u) - 1, First(t) + j = First(u) + k
          PROVE  t = u /\ j = k
      <4>1. t - 1 = u - 1
        BY <2>1, <3>1, <3>2, <3>4, QueriesPartitioned
      <4>2. t = u
        BY <1>3, <4>1
      <4> QED
        BY <1>3, <3>4, <4>2
    <3>5. ASSUME NEW i \in 0 .. queries - 1
          PROVE  \E t \in busy : \E j \in 0 .. Count(t) - 1 : i = First(t) + j
      <4>1. PICK c \in 0 .. clients - 1 : i \in Batch(queries, clients, c)
        BY <2>1, QueriesPartitioned
      <4>2. c + 1 \in 1 .. clients /\ (c + 1) - 1 = c
        OBVIOUS
      <4>3. /\ First(c + 1) <= i /\ i < First(c + 1) + Count(c + 1)
            /\ First(c + 1) \in Nat /\ Count(c + 1) \in Int
        BY <4>1, <4>2, BatchesTyped DEF Batch
      <4>4. i - First(c + 1) \in 0 .. Count(c + 1) - 1 /\ c + 1 \in busy
        BY <1>4, <4>2, <4>3
      <4> QED
        BY <4>3, <4>4
    <3> QED
      BY <2>1, <3>3, <3>4, <3>5
  <2>2. CASE queries < clients
    <3>1. BatchSize(queries, clients) = 1
      BY <2>2, Division, QuotientZero DEF BatchSize
    <3>2. \A t \in 1 .. clients :
              First(t) = t - 1 /\ Count(t) = IF t < clients THEN 1 ELSE queries - (clients - 1)
      BY <3>1 DEF QueryStart, QueryCount
    <3> HIDE DEF First, Count
    <3>3. \A t \in busy : t < clients /\ First(t) = t - 1 /\ Count(t) = 1
      BY <1>3, <2>2, <3>2
    <3>4. \A t \in 1 .. clients - 1 : t \in busy
      BY <1>4, <3>2
    <3>5. n = clients - 1
      BY <2>2
    <3>6. ASSUME NEW i \in 0 .. n - 1
          PROVE  \E t \in busy : \E j \in 0 .. Count(t) - 1 : i = First(t) + j
      <4>1. i + 1 \in 1 .. clients - 1 /\ i \in Int
        BY <3>5, <3>6
      <4>2. i + 1 \in busy
        BY <3>4, <4>1
      <4>3. First(i + 1) = (i + 1) - 1 /\ Count(i + 1) = 1
        BY <3>3, <4>2
      <4>4. i = First(i + 1) + 0 /\ 0 \in 0 .. Count(i + 1) - 1
        BY <4>1, <4>3
      <4> QED
        BY <4>2, <4>4
    <3>7. \A t \in busy : \A j \in 0 .. Count(t) - 1 : j = 0 /\ First(t) + j = t - 1
      BY <1>3, <3>3
    <3>8. \A t \in busy : t - 1 \in 0 .. n - 1
      BY <1>3, <3>3, <3>5
    <3>9. \A t, u \in busy : t - 1 = u - 1 => t = u
      BY <1>3
    <3> HIDE DEF n
    <3> QED
      BY <3>6, <3>7, <3>8, <3>9
  <2> QED
    BY <2>1, <2>2
<1>9. n \in Nat
  OBVIOUS
<1> HIDE DEF n, First, Count
<1>10. f \in [S -> 0 .. n - 1]
  BY <1>7, <1>8
<1>11. \A x, y \in S : f[x] = f[y] => x = y
  BY <1>7, <1>8
<1>12. ASSUME NEW i \in 0 .. n - 1 PROVE \E x \in S : f[x] = i
  <2>1. PICK t \in busy : \E j \in 0 .. Count(t) - 1 : i = First(t) + j
    BY <1>8
  <2>2. PICK j \in 0 .. Count(t) - 1 : i = First(t) + j
    BY <2>1
  <2>3. <<2, t, j>> \in S
    BY <1>7
  <2>4. f[<<2, t, j>>] = i
    BY <2>2, <2>3
  <2> QED
    BY <2>3, <2>4
<1> HIDE DEF f
<1>13. IsFiniteSet(S) /\ Cardinality(S) = n
  BY <1>9, <1>10, <1>11, <1>12, Numbered
<1> QED
  BY <1>5, <1>6, <1>13 DEF Makes, S, n

LEMMA KvCacheCounts ==
  ASSUME NEW prefill \in Nat, NEW tokens \in Nat, NEW checkpoint \in Nat,
         NEW p, p = KvCache(prefill, tokens, checkpoint)
  PROVE  /\ Makes(p, "prefill", Max({1, prefill})) /\ Makes(p, "decode", tokens)
         /\ \A s \in DOMAIN p.stages : \A t \in DOMAIN p.stages[s] :
               p.stages[s][t].collectors \subseteq {"prefill", "decode"}
<1>1. /\ DOMAIN p.stages = 1 .. 3
      /\ \A s \in 1 .. 3 : DOMAIN p.stages[s] = {1}
      /\ p.stages[1][1].ops = Max({1, prefill}) /\ p.stages[1][1].collectors = {"prefill"}
      /\ p.stages[2][1].ops = tokens /\ p.stages[2][1].collectors = {"decode"}
      /\ p.stages[3][1].collectors = {}
  <2>1. /\ Len(p.stages) = 3 /\ DOMAIN p.stages = 1 .. 3 /\ DOMAIN p.shared = {1, 2}
        /\ \A i \in {1, 2} : p.shared[i].from = i /\ p.shared[i].to = 0
        /\ Lone(p, 1, 1, "posix", Max({1, prefill}), {"prefill"})
        /\ Lone(p, 2, 2, "posix", tokens, {"decode"})
        /\ Lone(p, 3, 0, "posix", checkpoint, {})
    BY KvCacheStages
  <2>2. /\ DOMAIN p.stages[1] = {1} /\ p.stages[1][1].ops = Max({1, prefill})
        /\ p.stages[1][1].collectors = {"prefill"}
    BY <2>1, LoneLoop
  <2>3. /\ DOMAIN p.stages[2] = {1} /\ p.stages[2][1].ops = tokens
        /\ p.stages[2][1].collectors = {"decode"}
    BY <2>1, LoneLoop
  <2>4. DOMAIN p.stages[3] = {1} /\ p.stages[3][1].collectors = {}
    BY <2>1, LoneLoop
  <2> QED
    BY <2>1, <2>2, <2>3, <2>4, OneToThree
<1>2. \A s \in DOMAIN p.stages : \A t \in DOMAIN p.stages[s] :
          /\ t = 1
          /\ \/ s = 1 /\ p.stages[s][t].collectors = {"prefill"}
             \/ s = 2 /\ p.stages[s][t].collectors = {"decode"}
             \/ s = 3 /\ p.stages[s][t].collectors = {}
  BY <1>1, OneToThree
<1>3. Max({1, prefill}) \in Nat
  BY LargerOf
<1> QED
  BY <1>1, <1>2, <1>3, OneLoop

LEMMA QosCounts ==
  ASSUME NEW ops \in Nat, NEW chunks \in Nat, NEW throttle \in BOOLEAN,
         NEW p, p = MultitenantQos(ops, chunks, throttle),
         NEW s \in DOMAIN p.stages, NEW t \in DOMAIN p.stages[s],
         NEW c \in p.stages[s][t].collectors
  PROVE  \/ c \in {"a_baseline", "a_contended", "a_qos"} /\ Makes(p, c, ops)
         \/ c \in {"b_unthrottled", "b_qos"} /\ Makes(p, c, chunks)
<1>1. /\ DOMAIN p.stages[1] = {1}
      /\ p.stages[1][1].ops = ops /\ p.stages[1][1].collectors = {"a_baseline"}
  BY QosStages, LoneStage
<1>2. /\ DOMAIN p.stages[2] = {1, 2}
      /\ p.stages[2][1].ops = ops /\ p.stages[2][1].collectors = {"a_contended"}
      /\ p.stages[2][2].ops = chunks /\ p.stages[2][2].collectors = {"b_unthrottled"}
  BY QosStages, TwinStage
<1>3. throttle => /\ DOMAIN p.stages[3] = {1, 2}
                  /\ p.stages[3][1].ops = ops /\ p.stages[3][1].collectors = {"a_qos"}
                  /\ p.stages[3][2].ops = chunks /\ p.stages[3][2].collectors = {"b_qos"}
  <2> DEFINE C == {"a_qos"}
             D == {"b_qos"}
             B == Twin(p, 3, ops, C, chunks, D)
  <2>1. throttle => B
    BY QosStages
  <2> HIDE DEF B, C, D
  <2>2. B => /\ DOMAIN p.stages[3] = {1, 2}
             /\ p.stages[3][1].ops = ops /\ p.stages[3][1].collectors = C
             /\ p.stages[3][2].ops = chunks /\ p.stages[3][2].collectors = D
    BY TwinStage DEF B
  <2> QED
    BY <2>1, <2>2 DEF C, D
<1>4. \A u \in DOMAIN p.stages : u = 1 \/ u = 2 \/ (u = 3 /\ throttle)
  BY QosStages
<1>5. \A u \in DOMAIN p.stages : \A v \in DOMAIN p.stages[u] :
          \/ u = 1 /\ v = 1 /\ p.stages[u][v].collectors = {"a_baseline"}
             /\ p.stages[u][v].ops = ops
          \/ u = 2 /\ v = 1 /\ p.stages[u][v].collectors = {"a_contended"}
             /\ p.stages[u][v].ops = ops
          \/ u = 2 /\ v = 2 /\ p.stages[u][v].collectors = {"b_unthrottled"}
             /\ p.stages[u][v].ops = chunks
          \/ u = 3 /\ v = 1 /\ p.stages[u][v].collectors = {"a_qos"}
             /\ p.stages[u][v].ops = ops
          \/ u = 3 /\ v = 2 /\ p.stages[u][v].collectors = {"b_qos"}
             /\ p.stages[u][v].ops = chunks
  BY <1>1, <1>2, <1>3, <1>4
<1>6. \A u \in DOMAIN p.stages : \A v \in DOMAIN p.stages[u] :
          c \in p.stages[u][v].collectors => u = s /\ v = t
  BY <1>5
<1>7. p.stages[s][t].ops \in Nat
  BY <1>5
<1>8. Makes(p, c, p.stages[s][t].ops)
  BY <1>6, <1>7, OneLoop
<1> QED
  BY <1>5, <1>8

LEMMA TieringCounts ==
  ASSUME NEW hotOps \in Nat, NEW warmMb \in Nat, NEW coldChunks \in Nat,
         NEW p, p = StorageTiering(hotOps, warmMb, coldChunks)
  PROVE  /\ Makes(p, "hot", hotOps) /\ Makes(p, "warm", warmMb) /\ Makes(p, "cold", coldChunks)
         /\ \A s \in DOMAIN p.stages : \A t \in DOMAIN p.stages[s] :
               p.stages[s][t].collectors \subseteq {"hot", "warm", "cold"}
<1>1. /\ DOMAIN p.stages = 1 .. 3
      /\ \A s \in 1 .. 3 : DOMAIN p.stages[s] = {1}
      /\ p.stages[1][1].ops = hotOps /\ p.stages[1][1].collectors = {"hot"}
      /\ p.stages[2][1].ops = warmMb /\ p.stages[2][1].collectors = {"warm"}
      /\ p.stages[3][1].ops = coldChunks /\ p.stages[3][1].collectors = {"cold"}
  <2>1. /\ DOMAIN p.stages = 1 .. 3
        /\ Lone(p, 1, 0, "posix", hotOps, {"hot"})
        /\ Lone(p, 2, 0, "posix", warmMb, {"warm"})
        /\ Lone(p, 3, 0, "s3", coldChunks, {"cold"})
    <3>1. TieringShape(p, hotOps, warmMb, coldChunks)
      BY TieringStages
    <3> QED
      BY <3>1 DEF TieringShape
  <2>2. /\ DOMAIN p.stages[1] = {1} /\ p.stages[1][1].ops = hotOps
        /\ p.stages[1][1].collectors = {"hot"}
    <3>1. Lone(p, 1, 0, "posix", hotOps, {"hot"})
      BY <2>1
    <3> QED
      BY <3>1, LoneLoop
  <2>3. /\ DOMAIN p.stages[2] = {1} /\ p.stages[2][1].ops = warmMb
        /\ p.stages[2][1].collectors = {"warm"}
    <3>1. Lone(p, 2, 0, "posix", warmMb, {"warm"})
      BY <2>1
    <3> QED
      BY <3>1, LoneLoop
  <2>4. /\ DOMAIN p.stages[3] = {1} /\ p.stages[3][1].ops = coldChunks
        /\ p.stages[3][1].collectors = {"cold"}
    <3>1. Lone(p, 3, 0, "s3", coldChunks, {"cold"})
      BY <2>1
    <3> QED
      BY <3>1, LoneLoop
  <2> QED
    BY <2>1, <2>2, <2>3, <2>4, OneToThree
<1>2. \A s \in DOMAIN p.stages : \A t \in DOMAIN p.stages[s] :
          /\ t = 1
          /\ \/ s = 1 /\ p.stages[s][t].collectors = {"hot"}
             \/ s = 2 /\ p.stages[s][t].collectors = {"warm"}
             \/ s = 3 /\ p.stages[s][t].collectors = {"cold"}
  BY <1>1, OneToThree
<1> QED
  BY <1>1, <1>2, OneLoop

\* Rounds of n operations, counted through.
LEMMA Rounds ==
  ASSUME NEW m \in Nat, NEW n \in Nat
  PROVE  /\ m * n \in Nat
         /\ \A a \in 0 .. m - 1 : \A j \in 0 .. n - 1 : a * n + j \in 0 .. m * n - 1
         /\ \A a, b \in 0 .. m - 1 : \A j, k \in 0 .. n - 1 :
               a * n + j = b * n + k => a = b /\ j = k
         /\ \A i \in 0 .. m * n - 1 : \E a \in 0 .. m - 1 : \E j \in 0 .. n - 1 : i = a * n + j
<1>1. m * n \in Nat
  BY Products
<1>2. ASSUME NEW a \in Nat, NEW b \in Nat, a < b
      PROVE  a * n + n <= b * n /\ a * n \in Nat /\ b * n \in Nat
  <2>1. (a + 1) * n <= b * n /\ (a + 1) * n = a * n + n
    BY <1>2, Products
  <2> QED
    BY <2>1, Products
<1>3. ASSUME NEW a \in 0 .. m - 1, NEW j \in 0 .. n - 1 PROVE a * n + j \in 0 .. m * n - 1
  <2>1. a * n + n <= m * n /\ a * n \in Nat
    BY <1>2
  <2> QED
    BY <1>1, <2>1
<1>4. ASSUME NEW a \in 0 .. m - 1, NEW b \in 0 .. m - 1, NEW j \in 0 .. n - 1,
             NEW k \in 0 .. n - 1, a * n + j = b * n + k
      PROVE  a = b /\ j = k
  <2>1. a * n \in Nat /\ b * n \in Nat
    BY Products
  <2>2. ~(a < b)
    <3> SUFFICES ASSUME a < b PROVE FALSE
      OBVIOUS
    <3>1. a * n + n <= b * n
      BY <1>2
    <3> QED
      BY <1>4, <2>1, <3>1
  <2>3. ~(b < a)
    <3> SUFFICES ASSUME b < a PROVE FALSE
      OBVIOUS
    <3>1. b * n + n <= a * n
      BY <1>2
    <3> QED
      BY <1>4, <2>1, <3>1
  <2>4. a = b
    BY <2>2, <2>3
  <2> QED
    BY <1>4, <2>1, <2>4
<1>5. ASSUME NEW i \in 0 .. m * n - 1
      PROVE  \E a \in 0 .. m - 1 : \E j \in 0 .. n - 1 : i = a * n + j
  <2>1. n # 0 /\ i \in Nat
    <3>1. n = 0 => m * n = 0
      OBVIOUS
    <3> QED
      BY <1>1, <1>5, <3>1
  <2> DEFINE a == i \div n
             j == i % n
  <2>2. a \in Nat /\ j \in 0 .. n - 1 /\ i = a * n + j
    BY <2>1, Division
  <2> HIDE DEF a, j
  <2>3. a < m
    <3> SUFFICES ASSUME m <= a PROVE FALSE
      BY <2>2
    <3>1. m * n <= a * n /\ a * n \in Nat
      BY <2>2, Products
    <3> QED
      BY <1>1, <1>5, <2>2, <3>1
  <2>4. a \in 0 .. m - 1
    BY <2>2, <2>3
  <2> QED
    BY <2>2, <2>4
<1> QED
  BY <1>1, <1>3, <1>4, <1>5

LEMMA MicroburstCounts ==
  ASSUME NEW steadyOps \in Nat, NEW cycles \in Nat, NEW intensity \in Nat,
         NEW p, p = Microburst(steadyOps, cycles, intensity)
  PROVE  /\ Makes(p, "steady", steadyOps) /\ Makes(p, "burst", cycles * intensity)
         /\ Makes(p, "combined", steadyOps + cycles * intensity)
         /\ \A s \in DOMAIN p.stages : \A t \in DOMAIN p.stages[s] :
               p.stages[s][t].collectors \subseteq {"steady", "burst", "combined"}
<1>1. BurstPlan(p, steadyOps, cycles, intensity)
  BY MicroburstStages
<1>2. /\ DOMAIN p.stages = 1 .. 1 + cycles /\ DOMAIN p.stages[1] = {1}
      /\ p.stages[1][1].ops = steadyOps
      /\ p.stages[1][1].collectors = {"steady", "combined"}
  BY <1>1, LoneStage DEF BurstPlan
<1>3. \A s \in 2 .. 1 + cycles : /\ DOMAIN p.stages[s] = {1}
                                 /\ p.stages[s][1].ops = intensity
                                 /\ p.stages[s][1].collectors = {"burst", "combined"}
  BY <1>1, LoneStage DEF BurstPlan
<1>4. \A s \in DOMAIN p.stages : s = 1 \/ s \in 2 .. 1 + cycles
  BY <1>2
<1>5. 1 \in DOMAIN p.stages /\ \A s \in 2 .. 1 + cycles : s \in DOMAIN p.stages
  BY <1>2
<1>6. Makes(p, "steady", steadyOps)
  <2>1. \A s \in DOMAIN p.stages : \A t \in DOMAIN p.stages[s] :
            "steady" \in p.stages[s][t].collectors => s = 1 /\ t = 1
    BY <1>2, <1>3, <1>4
  <2>2. /\ 1 \in DOMAIN p.stages /\ 1 \in DOMAIN p.stages[1]
        /\ "steady" \in p.stages[1][1].collectors /\ p.stages[1][1].ops \in Nat
    BY <1>2, <1>5
  <2>3. Makes(p, "steady", p.stages[1][1].ops)
    BY <2>1, <2>2, OneLoop
  <2> QED
    BY <1>2, <2>3
<1>7. \A x : x \in Operations(p, "burst") <=>
                 \E s \in 2 .. 1 + cycles : \E j \in 0 .. intensity - 1 : x = <<s, 1, j>>
  <2> TAKE x
  <2>1. ASSUME x \in Operations(p, "burst")
        PROVE  \E s \in 2 .. 1 + cycles : \E j \in 0 .. intensity - 1 : x = <<s, 1, j>>
    <3>1. PICK s \in DOMAIN p.stages : \E t \in DOMAIN p.stages[s] :
                   /\ "burst" \in p.stages[s][t].collectors
                   /\ \E j \in 0 .. p.stages[s][t].ops - 1 : x = <<s, t, j>>
      BY <2>1, InOperations
    <3>2. s # 1
      BY <1>2, <3>1
    <3> QED
      BY <1>3, <1>4, <3>1, <3>2
  <2>2. ASSUME NEW s \in 2 .. 1 + cycles, NEW j \in 0 .. intensity - 1, x = <<s, 1, j>>
        PROVE  x \in Operations(p, "burst")
    <3>1. /\ s \in DOMAIN p.stages /\ 1 \in DOMAIN p.stages[s]
          /\ "burst" \in p.stages[s][1].collectors /\ j \in 0 .. p.stages[s][1].ops - 1
      BY <1>3, <1>5
    <3> QED
      BY <2>2, <3>1, InOperations
  <2> QED
    BY <2>1, <2>2
<1>8. \A x : x \in Operations(p, "combined") <=>
                 \/ \E j \in 0 .. steadyOps - 1 : x = <<1, 1, j>>
                 \/ \E s \in 2 .. 1 + cycles : \E j \in 0 .. intensity - 1 : x = <<s, 1, j>>
  <2> TAKE x
  <2>1. ASSUME x \in Operations(p, "combined")
        PROVE  \/ \E j \in 0 .. steadyOps - 1 : x = <<1, 1, j>>
               \/ \E s \in 2 .. 1 + cycles : \E j \in 0 .. intensity - 1 : x = <<s, 1, j>>
    <3>1. PICK s \in DOMAIN p.stages : \E t \in DOMAIN p.stages[s] :
                   \E j \in 0 .. p.stages[s][t].ops - 1 : x = <<s, t, j>>
      BY <2>1, InOperations
    <3>2. CASE s = 1
      BY <1>2, <3>1, <3>2
    <3>3. CASE s \in 2 .. 1 + cycles
      BY <1>3, <3>1, <3>3
    <3> QED
      BY <1>4, <3>2, <3>3
  <2>2. ASSUME NEW s \in 2 .. 1 + cycles, NEW j \in 0 .. intensity - 1, x = <<s, 1, j>>
        PROVE  x \in Operations(p, "combined")
    <3>1. /\ s \in DOMAIN p.stages /\ 1 \in DOMAIN p.stages[s]
          /\ "combined" \in p.stages[s][1].collectors /\ j \in 0 .. p.stages[s][1].ops - 1
      BY <1>3, <1>5
    <3> QED
      BY <2>2, <3>1, InOperations
  <2>3. ASSUME NEW j \in 0 .. steadyOps - 1, x = <<1, 1, j>>
        PROVE  x \in Operations(p, "combined")
    <3>1. /\ 1 \in DOMAIN p.stages /\ 1 \in DOMAIN p.stages[1]
          /\ "combined" \in p.stages[1][1].collectors /\ j \in 0 .. p.stages[1][1].ops - 1
      BY <1>2, <1>5
    <3> QED
      BY <2>3, <3>1, InOperations
  <2> QED
    BY <2>1, <2>2, <2>3
<1> DEFINE n == cycles * intensity
           Nth(s, j) == (s - 2) * intensity + j
<1>9. /\ n \in Nat
      /\ \A s \in 2 .. 1 + cycles : \A j \in 0 .. intensity - 1 : Nth(s, j) \in 0 .. n - 1
      /\ \A s, u \in 2 .. 1 + cycles : \A j, k \in 0 .. intensity - 1 :
            Nth(s, j) = Nth(u, k) => s = u /\ j = k
      /\ \A i \in 0 .. n - 1 :
            \E s \in 2 .. 1 + cycles : \E j \in 0 .. intensity - 1 : i = Nth(s, j)
  <2>1. \A s \in 2 .. 1 + cycles : s - 2 \in 0 .. cycles - 1
    OBVIOUS
  <2>2. ASSUME NEW i \in 0 .. n - 1
        PROVE  \E s \in 2 .. 1 + cycles : \E j \in 0 .. intensity - 1 : i = Nth(s, j)
    <3> HIDE DEF Nth
    <3>0. i \in 0 .. cycles * intensity - 1
      OBVIOUS
    <3> HIDE DEF n
    <3>1. PICK a \in 0 .. cycles - 1 : \E j \in 0 .. intensity - 1 : i = a * intensity + j
      <4>1. \A k \in 0 .. cycles * intensity - 1 :
                \E a \in 0 .. cycles - 1 : \E j \in 0 .. intensity - 1 : k = a * intensity + j
        BY Rounds, Zenon
      <4> QED
        BY <3>0, <4>1, Zenon
    <3>2. a + 2 \in 2 .. 1 + cycles /\ (a + 2) - 2 = a
      OBVIOUS
    <3>3. PICK j \in 0 .. intensity - 1 : i = a * intensity + j
      BY <3>1
    <3>4. i = Nth(a + 2, j)
      BY <3>2, <3>3 DEF Nth
    <3> QED
      BY <3>2, <3>4
  <2>3. ASSUME NEW s \in 2 .. 1 + cycles, NEW u \in 2 .. 1 + cycles,
               NEW j \in 0 .. intensity - 1, NEW k \in 0 .. intensity - 1, Nth(s, j) = Nth(u, k)
        PROVE  s = u /\ j = k
    <3>1. s - 2 = u - 2 /\ j = k
      BY <2>1, <2>3, Rounds
    <3> QED
      BY <3>1
  <2>4. \A s \in 2 .. 1 + cycles : \A j \in 0 .. intensity - 1 : Nth(s, j) \in 0 .. n - 1
    BY <2>1, Rounds
  <2>5. n \in Nat
    BY Rounds
  <2> QED
    BY <2>2, <2>3, <2>4, <2>5
<1> HIDE DEF n, Nth
<1>9a. n \in Nat /\ steadyOps + n \in Nat
  BY <1>9
<1>9b. \A i \in 0 .. n - 1 :
           \E s \in 2 .. 1 + cycles : \E j \in 0 .. intensity - 1 : i = Nth(s, j)
  BY <1>9
<1>9c. \A s, u \in 2 .. 1 + cycles : \A j, k \in 0 .. intensity - 1 :
           Nth(s, j) = Nth(u, k) => s = u /\ j = k
  BY <1>9
<1>10. Makes(p, "burst", n)
  <2> DEFINE S == Operations(p, "burst")
             f == [x \in S |-> Nth(x[1], x[3])]
  <2> HIDE DEF S
  <2>1. \A x : x \in S <=>
            \E s \in 2 .. 1 + cycles : \E j \in 0 .. intensity - 1 : x = <<s, 1, j>>
    BY <1>7 DEF S
  <2>2. f \in [S -> 0 .. n - 1]
    BY <1>9, <2>1
  <2>3. ASSUME NEW x \in S, NEW y \in S, f[x] = f[y] PROVE x = y
    <3>1. PICK s \in 2 .. 1 + cycles : \E j \in 0 .. intensity - 1 : x = <<s, 1, j>>
      BY <2>1
    <3>2. PICK j \in 0 .. intensity - 1 : x = <<s, 1, j>>
      BY <3>1
    <3>3. PICK u \in 2 .. 1 + cycles : \E k \in 0 .. intensity - 1 : y = <<u, 1, k>>
      BY <2>1
    <3>4. PICK k \in 0 .. intensity - 1 : y = <<u, 1, k>>
      BY <3>3
    <3>5. f[x] = Nth(s, j) /\ f[y] = Nth(u, k)
      BY <3>2, <3>4
    <3>6. s = u /\ j = k
      BY <1>9c, <2>3, <3>5
    <3> QED
      BY <3>2, <3>4, <3>6
  <2>4. ASSUME NEW i \in 0 .. n - 1 PROVE \E x \in S : f[x] = i
    <3>1. PICK s \in 2 .. 1 + cycles : \E j \in 0 .. intensity - 1 : i = Nth(s, j)
      BY <1>9b
    <3>2. PICK j \in 0 .. intensity - 1 : i = Nth(s, j)
      BY <3>1
    <3>3. <<s, 1, j>> \in S
      BY <2>1
    <3>4. f[<<s, 1, j>>] = i
      BY <3>2, <3>3
    <3> QED
      BY <3>3, <3>4
  <2> HIDE DEF f
  <2>5. IsFiniteSet(S) /\ Cardinality(S) = n
    BY <1>9a, <2>2, <2>3, <2>4, Numbered
  <2> QED
    BY <2>5 DEF Makes, S
<1>11. Makes(p, "combined", steadyOps + n)
  <2> DEFINE S == Operations(p, "combined")
             f == [x \in S |-> IF x[1] = 1 THEN x[3] ELSE steadyOps + Nth(x[1], x[3])]
  <2> HIDE DEF S
  <2>1. \A x \in S : \/ \E j \in 0 .. steadyOps - 1 : x = <<1, 1, j>>
                     \/ \E s \in 2 .. 1 + cycles : \E j \in 0 .. intensity - 1 : x = <<s, 1, j>>
    BY <1>8 DEF S
  <2>2. /\ \A j \in 0 .. steadyOps - 1 : <<1, 1, j>> \in S
        /\ \A s \in 2 .. 1 + cycles : \A j \in 0 .. intensity - 1 : <<s, 1, j>> \in S
    BY <1>8 DEF S
  <2>3. \A x \in S : \/ \E j \in 0 .. steadyOps - 1 : x = <<1, 1, j>> /\ f[x] = j
                     \/ \E s \in 2 .. 1 + cycles : \E j \in 0 .. intensity - 1 :
                            x = <<s, 1, j>> /\ f[x] = steadyOps + Nth(s, j)
    BY <2>1
  <2>4. f \in [S -> 0 .. (steadyOps + n) - 1]
    <3>1. \A x \in S : f[x] \in 0 .. (steadyOps + n) - 1
      <4> HIDE DEF f
      <4> QED
        BY <1>9, <2>3
    <3> QED
      BY <3>1
  <2>5. f = [x \in S |-> f[x]]
    OBVIOUS
  <2> HIDE DEF f
  <2>6. \A x, y \in S : f[x] = f[y] => x = y
    <3> SUFFICES ASSUME NEW x \in S, NEW y \in S, f[x] = f[y] PROVE x = y
      OBVIOUS
    <3>0. f[x] = f[y]
      OBVIOUS
    <3>1. CASE \E j \in 0 .. steadyOps - 1 : x = <<1, 1, j>> /\ f[x] = j
      BY <1>9, <2>3, <3>1
    <3>2. CASE \E s \in 2 .. 1 + cycles : \E j \in 0 .. intensity - 1 :
                   x = <<s, 1, j>> /\ f[x] = steadyOps + Nth(s, j)
      <4>1. PICK s \in 2 .. 1 + cycles : \E j \in 0 .. intensity - 1 :
                     x = <<s, 1, j>> /\ f[x] = steadyOps + Nth(s, j)
        BY <3>2
      <4>2. PICK j \in 0 .. intensity - 1 : x = <<s, 1, j>> /\ f[x] = steadyOps + Nth(s, j)
        BY <4>1
      <4>3. Nth(s, j) \in Nat
        BY <1>9
      <4>4. PICK u \in 2 .. 1 + cycles : \E k \in 0 .. intensity - 1 :
                     y = <<u, 1, k>> /\ f[y] = steadyOps + Nth(u, k)
        <5>1. ~ \E k \in 0 .. steadyOps - 1 : y = <<1, 1, k>> /\ f[y] = k
          BY <4>2, <4>3
        <5> QED
          BY <2>3, <5>1
      <4>5. PICK k \in 0 .. intensity - 1 : y = <<u, 1, k>> /\ f[y] = steadyOps + Nth(u, k)
        BY <4>4
      <4>6. Nth(s, j) = Nth(u, k)
        <5>1. Nth(u, k) \in Nat
          BY <1>9
        <5> QED
          BY <3>0, <4>2, <4>3, <4>5, <5>1
      <4> QED
        BY <1>9, <4>2, <4>5, <4>6
    <3> QED
      BY <2>3, <3>1, <3>2
  <2>7. ASSUME NEW i \in 0 .. (steadyOps + n) - 1 PROVE \E x \in S : f[x] = i
    <3>1. CASE i < steadyOps
      <4>1. <<1, 1, i>> \in S
        BY <2>2, <3>1
      <4>2. f[<<1, 1, i>>] = i
        BY <4>1 DEF f
      <4> QED
        BY <4>1, <4>2
    <3>2. CASE i >= steadyOps
      <4>1. i - steadyOps \in 0 .. n - 1
        BY <1>9, <3>2
      <4>2. PICK s \in 2 .. 1 + cycles : \E j \in 0 .. intensity - 1 : i - steadyOps = Nth(s, j)
        BY <1>9b, <4>1
      <4>3. PICK j \in 0 .. intensity - 1 : i - steadyOps = Nth(s, j)
        BY <4>2
      <4>4. <<s, 1, j>> \in S
        BY <2>2
      <4>5. f[<<s, 1, j>>] = steadyOps + Nth(s, j)
        BY <4>4 DEF f
      <4>6. steadyOps + Nth(s, j) = i
        BY <1>9, <4>3
      <4> QED
        BY <4>4, <4>5, <4>6
    <3> QED
      BY <3>1, <3>2
  <2>8. IsFiniteSet(S) /\ Cardinality(S) = steadyOps + n
    BY <1>9a, <2>4, <2>6, <2>7, Numbered
  <2> QED
    BY <2>8 DEF Makes, S
<1>12. \A s \in DOMAIN p.stages : \A t \in DOMAIN p.stages[s] :
           p.stages[s][t].collectors \subseteq {"steady", "burst", "combined"}
  BY <1>2, <1>3, <1>4
<1> QED
  BY <1>6, <1>10, <1>11, <1>12 DEF n

-----------------------------------------------------------------------------
(* The invariant of the event loop. *)

Places == {"ready", "running", "inflight", "asleep", "done", "failed", "cancelled"}
Busy == {"running", "inflight"}
Active == Busy \cup {"asleep"}

\* One coroutine runs at a time, and none has more operations under way than
\* its loop has left.
OneAtATime ==
    /\ \A t, u \in Tasks : task[t] \in Busy /\ task[u] \in Busy => t = u
    /\ \A t \in Tasks : task[t] = "inflight" => done[t] < Loops[t].ops

\* A pool of a coroutine is open from its first turn to its end; nothing else
\* is but the shared pools.
OwnPools ==
    /\ \A t \in Tasks : Loops[t].shared = 0 /\ task[t] \in Active => <<stage, t>> \in open
    /\ \A x \in open :
          \/ \E t \in Tasks : x = <<stage, t>> /\ Loops[t].shared = 0 /\ task[t] \in Active
          \/ \E i \in DOMAIN plan.shared : x = <<0, i>>

\* A shared pool is open from its first to its last stage, if nothing fails.
InUse(i) ==
    /\ plan.shared[i].from <= stage
    /\ \/ plan.shared[i].to = 0 \/ stage < plan.shared[i].to
       \/ main = "awaiting" /\ stage = plan.shared[i].to
SharedPools ==
    \A i \in DOMAIN plan.shared :
        IF main \in {"running", "awaiting"} THEN <<0, i>> \in open <=> InUse(i)
        ELSE <<0, i>> \in open => plan.shared[i].to = 0

\* Where the main coroutine is says how far the others are.
Outcome ==
    /\ \A t \in Tasks : /\ task[t] = "failed" => Loops[t].adapter = "posix"
                        /\ task[t] = "cancelled" => main = "failed"
    /\ main \in {"running", "returned"} => AllDone
    /\ main = "raised" => SomeFailed
    /\ main = "failed" => \A t \in Tasks : task[t] \in {"done", "failed", "cancelled"}
    /\ main = "awaiting" => stage > 0

WInv == WTypeOK /\ OneAtATime /\ OwnPools /\ SharedPools /\ Outcome

LEMMA PlanOfRun ==
  ASSUME WTypeOK
  PROVE  /\ WellFormed(plan)
         /\ stage \in 0 .. Len(plan.stages) /\ Len(plan.stages) \in Nat
         /\ Tasks = IF stage = 0 THEN {} ELSE DOMAIN plan.stages[stage]
         /\ Tasks # {} => stage \in Nat \ {0} /\ Loops = plan.stages[stage] /\ StageOK(plan, stage)
<1>1. run \in Runs /\ stage \in 0 .. Len(plan.stages)
  BY DEF WTypeOK
<1>2. WellFormed(plan)
  BY <1>1, PlansWellFormed DEF plan
<1>3. Len(plan.stages) \in Nat /\ DOMAIN plan.stages = 1 .. Len(plan.stages)
      /\ \A s \in DOMAIN plan.stages : StageOK(plan, s)
  BY <1>2 DEF WellFormed
<1>4. CASE stage = 0
  <2>1. stage \notin DOMAIN plan.stages
    BY <1>3, <1>4
  <2>2. Loops = <<>>
    BY <2>1 DEF Loops
  <2>3. DOMAIN Loops = {}
    BY <2>2
  <2> QED
    BY <1>1, <1>2, <1>3, <1>4, <2>3 DEF Tasks
<1>5. CASE stage # 0
  <2>1. stage \in DOMAIN plan.stages /\ stage \in Nat \ {0}
    BY <1>1, <1>3, <1>5
  <2>2. Loops = plan.stages[stage]
    BY <2>1 DEF Loops
  <2> QED
    BY <1>1, <1>2, <1>3, <1>5, <2>1, <2>2 DEF Tasks
<1> QED
  BY <1>4, <1>5

LEMMA LoopOfTask ==
  ASSUME WTypeOK, NEW t \in Tasks
  PROVE  /\ Loops[t] \in LoopType
         /\ Loops[t].shared # 0 => OpenDuring(plan, stage, Loops[t].shared)
         /\ \A u \in Tasks :
               t # u /\ Loops[u].adapter = "posix" => Loops[t].shared = 0
  BY PlanOfRun DEF StageOK

LEMMA OwnIs ==
  ASSUME NEW t
  PROVE  Own(t) = IF Loops[t].shared = 0 THEN {<<stage, t>>} ELSE {}
<1>1. CASE Loops[t].shared = 0
  <2>1. {v \in {t} : Loops[v].shared = 0} = {t}
    BY <1>1
  <2> QED
    BY <1>1, <2>1 DEF Own, Source
<1>2. CASE Loops[t].shared # 0
  <2>1. {v \in {t} : Loops[v].shared = 0} = {}
    BY <1>2
  <2> QED
    BY <1>2, <2>1 DEF Own
<1> QED
  BY <1>1, <1>2

\* What follows from the plan, the stage and the coroutines there are.
LEMMA SameStage ==
  ASSUME run' = run, stage' = stage
  PROVE  /\ plan' = plan /\ Loops' = Loops /\ Tasks' = Tasks /\ Collectors' = Collectors
<1>1. plan' = plan
  BY DEF plan
<1>2. Loops' = Loops
  BY <1>1 DEF Loops
<1> QED
  BY <1>1, <1>2 DEF Tasks, Collectors

LEMMA Initially == Init => WInv
<1> SUFFICES ASSUME Init PROVE WInv
  OBVIOUS
<1>1. run \in Runs /\ WellFormed(plan)
  BY PlansWellFormed DEF Init, plan
<1>2. Len(plan.stages) \in Nat /\ DOMAIN plan.stages = 1 .. Len(plan.stages)
      /\ \A i \in DOMAIN plan.shared : PoolOK(plan, i)
  BY <1>1 DEF WellFormed
<1>3. Tasks = {}
  <2>1. stage \notin DOMAIN plan.stages
    BY <1>2 DEF Init
  <2>2. Loops = <<>>
    BY <2>1 DEF Loops
  <2> QED
    BY <2>2 DEF Tasks
<1>4. WTypeOK
  BY <1>1, <1>2, <1>3 DEF Init, WTypeOK
<1>5. SharedPools
  BY <1>2 DEF Init, SharedPools, InUse, PoolOK
<1> QED
  BY <1>3, <1>4, <1>5 DEF Init, WInv, OneAtATime, OwnPools, Outcome, AllDone

\* What every step of a coroutine has in common: it moves, and opens or closes
\* what is its own.
LEMMA CoroutineMoves ==
  ASSUME WInv, NEW t \in Tasks, NEW place \in Places,
         MayRun(t), task[t] \in Active \cup {"ready"}, Moves(t, place),
         UNCHANGED <<run, stage, main, dir>>,
         \/ place \in Active /\ open' = open \cup Own(t)
         \/ place \in Active /\ task[t] \in Active /\ open' = open
         \/ place \in {"done", "failed"} /\ open' = open \ Own(t),
         place = "failed" => Loops[t].adapter = "posix"
  PROVE  /\ task' \in [Tasks -> Places]
         /\ \A u, v \in Tasks : task'[u] \in Busy /\ task'[v] \in Busy => u = v
         /\ OwnPools' /\ SharedPools' /\ Outcome'
<1> USE DEF Active, Busy
<1>1. /\ plan' = plan /\ Loops' = Loops /\ Tasks' = Tasks /\ stage' = stage
      /\ main' = main /\ dir' = dir
  BY SameStage
<1>2. task \in [Tasks -> Places] /\ stage \in Nat \ {0}
  BY PlanOfRun DEF WInv, WTypeOK, Places
<1>3. /\ task' \in [Tasks -> Places] /\ task'[t] = place
      /\ \A u \in Tasks \ {t} : task'[u] = task[u]
  BY <1>2 DEF Moves
<1>4. \A u \in Tasks \ {t} : task[u] \notin Busy
  BY <1>2 DEF MayRun, Suspends
<1>5. \A u, v \in Tasks : task'[u] \in Busy /\ task'[v] \in Busy => u = v
  BY <1>3, <1>4
<1>6. main \in {"awaiting", "raised"}
  BY DEF WInv, WTypeOK, Outcome, AllDone
<1>7. Own(t) = IF Loops[t].shared = 0 THEN {<<stage, t>>} ELSE {}
  BY OwnIs
<1>8. \A x : x \notin Own(t) => (x \in open' <=> x \in open)
  OBVIOUS
<1>9. \A u \in Tasks : (\A i : <<stage, u>> # <<0, i>>) /\ (u # t => <<stage, u>> # <<stage, t>>)
  BY <1>2
<1>10. OwnPools'
  <2>1. ASSUME NEW u \in Tasks, Loops[u].shared = 0, task'[u] \in Active
        PROVE  <<stage, u>> \in open'
    <3>1. CASE u = t
      BY <1>3, <1>7, <2>1, <3>1 DEF WInv, OwnPools
    <3>2. CASE u # t
      <4>1. <<stage, u>> \in open
        BY <1>3, <2>1, <3>2 DEF WInv, OwnPools
      <4>2. <<stage, u>> \notin Own(t)
        BY <1>7, <1>9, <3>2
      <4> QED
        BY <1>8, <4>1, <4>2
    <3> QED
      BY <3>1, <3>2
  <2>2. ASSUME NEW x \in open'
        PROVE  \/ \E u \in Tasks : x = <<stage, u>> /\ Loops[u].shared = 0 /\ task'[u] \in Active
               \/ \E i \in DOMAIN plan.shared : x = <<0, i>>
    <3>1. CASE x \in Own(t)
      <4>1. x = <<stage, t>> /\ Loops[t].shared = 0
        BY <1>7, <3>1
      <4>2. place \in Active
        BY <2>2, <3>1
      <4> QED
        BY <1>3, <4>1, <4>2
    <3>2. CASE x \notin Own(t)
      <4>1. x \in open
        BY <1>8, <3>2
      <4>2. CASE \E i \in DOMAIN plan.shared : x = <<0, i>>
        BY <4>2
      <4>3. CASE \E u \in Tasks : x = <<stage, u>> /\ Loops[u].shared = 0 /\ task[u] \in Active
        <5>1. PICK u \in Tasks : x = <<stage, u>> /\ Loops[u].shared = 0 /\ task[u] \in Active
          BY <4>3
        <5>2. u # t
          BY <1>7, <3>2, <5>1
        <5> QED
          BY <1>3, <5>1, <5>2
      <4> QED
        BY <4>1, <4>2, <4>3 DEF WInv, OwnPools
    <3> QED
      BY <3>1, <3>2
  <2> QED
    BY <1>1, <2>1, <2>2 DEF OwnPools
<1>11. SharedPools'
  <2>1. \A i : <<0, i>> \notin Own(t)
    BY <1>7, <1>9
  <2>2. \A i : <<0, i>> \in open' <=> <<0, i>> \in open
    BY <1>8, <2>1
  <2>3. \A i : InUse(i)' <=> InUse(i)
    BY <1>1 DEF InUse
  <2> QED
    BY <1>1, <2>2, <2>3 DEF WInv, SharedPools
<1>12. Outcome'
  <2>1. main = "raised" => \E u \in Tasks : task'[u] = "failed"
    BY <1>3 DEF WInv, Outcome, SomeFailed
  <2>2. \A u \in Tasks : (task'[u] = "failed" => Loops[u].adapter = "posix")
                         /\ task'[u] # "cancelled"
    BY <1>3, <1>6 DEF WInv, Outcome
  <2> QED
    BY <1>1, <1>6, <2>1, <2>2 DEF WInv, Outcome, SomeFailed, AllDone
<1> QED
  BY <1>3, <1>5, <1>10, <1>11, <1>12

\* The types of what the steps of a coroutine change besides.
LEMMA StillTyped ==
  ASSUME WTypeOK, UNCHANGED <<run, stage, main, dir>>, task' \in [Tasks -> Places],
         done' \in [Tasks -> Nat], \A u \in Tasks : done'[u] <= Loops[u].ops,
         blocks' \in [Tasks -> Seq(Content)], opened' \in [Paths -> 0 .. 1],
         counted' \in [Collectors -> Nat]
  PROVE  WTypeOK'
  BY SameStage DEF WTypeOK, Places

LEMMA ResumeStep ==
  ASSUME WInv, NEW t \in Tasks, Resume(t)
  PROVE  WInv'
<1>1. WTypeOK /\ UNCHANGED <<run, stage, main, dir, done, blocks, opened, counted>>
  BY DEF WInv, Resume
<1>2. \/ open' = open \cup Own(t)
      \/ task[t] \in Active /\ open' = open
  BY DEF Resume, Active, Busy
<1>3. /\ task' \in [Tasks -> Places]
      /\ \A u, v \in Tasks : task'[u] \in Busy /\ task'[v] \in Busy => u = v
      /\ OwnPools' /\ SharedPools' /\ Outcome'
  BY <1>1, <1>2, CoroutineMoves DEF Resume, Active, Busy, Places
<1>4. task[t] # "inflight" /\ task' = [task EXCEPT ![t] = "running"]
  BY DEF Resume, Moves
<1>5. \A u \in Tasks : task'[u] = "inflight" => task[u] = "inflight"
  BY <1>1, <1>4 DEF WTypeOK
<1>6. WTypeOK'
  BY <1>1, <1>3, StillTyped DEF WTypeOK
<1> QED
  BY <1>1, <1>3, <1>5, <1>6, SameStage DEF WInv, OneAtATime

LEMMA BlocksTyped ==
  ASSUME WTypeOK, NEW t \in Tasks, NEW payload
  PROVE  Append(blocks[t], Mutated(Held(t), payload, done[t])) \in Seq(Content)
<1>1. blocks[t] \in Seq(Content)
  BY DEF WTypeOK
<1>2. Held(t) \in Content
  <2>1. Zeros \in Content
    BY DEF Zeros, Content
  <2>2. blocks[t] # <<>> => Last(blocks[t]) \in Content
    BY <1>1 DEF Last
  <2> QED
    BY <2>1, <2>2 DEF Held
<1>3. \A n : Bits(n) \in SUBSET SeedBits
  BY DEF Bits
<1>4. Mutated(Held(t), payload, done[t]) \in Content
  <2> DEFINE held == Held(t)
             bits == Bits(SeedOf(payload, done[t]))
  <2>1. held.odd \in BOOLEAN /\ held.seeds \in SUBSET SeedBits
    BY <1>2 DEF Content
  <2>2. bits \in SUBSET SeedBits
    BY <1>3
  <2> HIDE DEF bits
  <2>3. SymDiff(held.seeds, bits) \in SUBSET SeedBits
    BY <2>1, <2>2 DEF SymDiff
  <2>4. [odd |-> ~held.odd, seeds |-> SymDiff(held.seeds, bits)] \in Content
    BY <2>1, <2>3 DEF Content
  <2> QED
    BY <1>2, <2>4 DEF Mutated, bits
<1> QED
  BY <1>1, <1>4

LEMMA IssueStep ==
  ASSUME WInv, NEW t \in Tasks, Issue(t)
  PROVE  WInv'
<1>1. /\ WTypeOK /\ UNCHANGED <<run, stage, main, dir, done, open, counted>>
      /\ task[t] = "running" /\ done[t] < Loops[t].ops
      /\ task' = [task EXCEPT ![t] = "inflight"]
  BY DEF WInv, Issue, Moves
<1>2. /\ task' \in [Tasks -> Places]
      /\ \A u, v \in Tasks : task'[u] \in Busy /\ task'[v] \in Busy => u = v
      /\ OwnPools' /\ SharedPools' /\ Outcome'
  BY <1>1, CoroutineMoves DEF Issue, Active, Busy, Places
<1>3. \A u \in Tasks : task'[u] = "inflight" => done[u] < Loops[u].ops
  BY <1>1 DEF WInv, OneAtATime, WTypeOK
<1>4. blocks' \in [Tasks -> Seq(Content)]
  <2>1. CASE Loops[t].payload = "pool"
    BY <1>1, <2>1 DEF Issue, WTypeOK
  <2>2. CASE Loops[t].payload # "pool"
    <3> DEFINE new == Append(blocks[t], Mutated(Held(t), Loops[t].payload, done[t]))
    <3>1. new \in Seq(Content)
      BY <1>1, BlocksTyped
    <3>2. blocks' = [blocks EXCEPT ![t] = new]
      BY <2>2 DEF Issue
    <3> HIDE DEF new
    <3> QED
      BY <1>1, <3>1, <3>2 DEF WTypeOK
  <2> QED
    BY <2>1, <2>2
<1>5. opened' \in [Paths -> 0 .. 1]
  <2>1. CASE ToBeOpened(Loops[t].path)
    BY <1>1, <2>1 DEF Issue, WTypeOK, ToBeOpened
  <2>2. CASE ~ToBeOpened(Loops[t].path)
    BY <1>1, <2>2 DEF Issue, WTypeOK
  <2> QED
    BY <2>1, <2>2
<1>6. WTypeOK'
  BY <1>1, <1>2, <1>4, <1>5, StillTyped DEF WTypeOK
<1> QED
  BY <1>1, <1>2, <1>3, <1>6, SameStage DEF WInv, OneAtATime

LEMMA CompleteStep ==
  ASSUME WInv, NEW t \in Tasks, Complete(t)
  PROVE  WInv'
<1>1. /\ WTypeOK /\ UNCHANGED <<run, stage, main, blocks, open, dir, opened>>
      /\ task[t] = "inflight" /\ done' = [done EXCEPT ![t] = @ + 1]
      /\ counted' = Counted(t)
  BY DEF WInv, Complete
<1>2. PICK place \in {"asleep", "running"} : Moves(t, place)
  BY DEF Complete
<1>3. /\ task' \in [Tasks -> Places]
      /\ \A u, v \in Tasks : task'[u] \in Busy /\ task'[v] \in Busy => u = v
      /\ OwnPools' /\ SharedPools' /\ Outcome'
  BY <1>1, <1>2, CoroutineMoves DEF Complete, Active, Busy, Places
<1>4. \A u \in Tasks : task'[u] = "inflight" => u # t /\ task[u] = "inflight"
  BY <1>1, <1>2 DEF WTypeOK, Moves
<1>5. Loops[t].ops \in Nat /\ done \in [Tasks -> Nat] /\ done[t] < Loops[t].ops
      /\ \A u \in Tasks : done[u] <= Loops[u].ops
  BY <1>1, LoopOfTask DEF WInv, OneAtATime, WTypeOK, LoopType
<1>6. done' \in [Tasks -> Nat] /\ \A u \in Tasks : done'[u] <= Loops[u].ops
  BY <1>1, <1>5
<1>7. \A u \in Tasks : task'[u] = "inflight" => done'[u] < Loops[u].ops
  BY <1>1, <1>4, <1>5 DEF WInv, OneAtATime
<1>8. counted' \in [Collectors -> Nat]
  BY <1>1 DEF Counted, WTypeOK
<1>9. WTypeOK'
  BY <1>1, <1>3, <1>6, <1>8, StillTyped DEF WTypeOK
<1> QED
  BY <1>1, <1>3, <1>7, <1>9, SameStage DEF WInv, OneAtATime

\* A coroutine that raises or ends.
LEMMA LeavesStep ==
  ASSUME WInv, NEW t \in Tasks, Raises(t) \/ Ends(t)
  PROVE  WInv'
<1>1. PICK place \in {"done", "failed"} :
          Leaves(t, place) /\ (place = "failed" => Loops[t].adapter = "posix")
  BY DEF Raises, Ends
<1>2. /\ WTypeOK /\ UNCHANGED <<run, stage, main, done, blocks, dir, opened, counted>>
      /\ MayRun(t) /\ task[t] \in Busy
      /\ Moves(t, place) /\ open' = open \ Own(t)
  BY <1>1 DEF WInv, Raises, Ends, Leaves, Busy
<1>3. /\ task' \in [Tasks -> Places]
      /\ \A u, v \in Tasks : task'[u] \in Busy /\ task'[v] \in Busy => u = v
      /\ OwnPools' /\ SharedPools' /\ Outcome'
  BY <1>1, <1>2, CoroutineMoves DEF Active, Busy, Places
<1>4. \A u \in Tasks : task'[u] = "inflight" => task[u] = "inflight"
  BY <1>1, <1>2 DEF WTypeOK, Moves
<1>5. WTypeOK'
  BY <1>2, <1>3, StillTyped DEF WTypeOK
<1> QED
  BY <1>2, <1>3, <1>4, <1>5, SameStage DEF WInv, OneAtATime

-----------------------------------------------------------------------------
(* The main coroutine. *)

LEMMA StageStartsStep ==
  ASSUME WInv, StageStarts
  PROVE  WInv'
<1>1. /\ WTypeOK /\ OwnPools /\ SharedPools /\ Outcome
      /\ main = "running" /\ main' = "awaiting" /\ run' = run /\ stage' = stage + 1
      /\ opened' = opened /\ counted' = counted
  BY DEF WInv, StageStarts
<1>2. /\ stage \in Nat /\ stage + 1 \in DOMAIN plan.stages /\ WellFormed(plan)
      /\ \A i \in DOMAIN plan.shared : PoolOK(plan, i)
      /\ Len(plan.stages) \in Nat /\ stage + 1 \in 0 .. Len(plan.stages)
  BY <1>1, PlanOfRun DEF WellFormed, StageStarts
<1>3. plan' = plan /\ Collectors' = Collectors
  BY <1>1 DEF plan, Collectors
<1> DEFINE loops == plan.stages[stage + 1]
           new == DOMAIN loops
<1>4. Loops' = loops /\ Tasks' = new
  BY <1>1, <1>2, <1>3 DEF Loops, Tasks
<1>5. \A t \in new : loops[t] \in LoopType /\ loops[t].ops \in Nat
  BY <1>2 DEF WellFormed, StageOK, LoopType
<1>6. /\ task' = [t \in new |-> "ready"] /\ done' = [t \in new |-> 0]
      /\ blocks' = [t \in new |-> <<>>]
  BY DEF StageStarts
<1> HIDE DEF loops, new
<1>7. WTypeOK'
  <2>1. dir' \in {"none", "there", "gone"}
    BY <1>1 DEF StageStarts, WTypeOK
  <2>2. \A t \in new : done'[t] <= loops[t].ops
    BY <1>5, <1>6
  <2>3. blocks' \in [new -> Seq(Content)]
    BY <1>6
  <2>4. run \in Runs /\ opened \in [Paths -> 0 .. 1] /\ counted \in [Collectors -> Nat]
    BY <1>1 DEF WTypeOK
  <2>5. /\ run' \in Runs /\ stage' \in 0 .. Len(plan'.stages)
        /\ main' \in {"running", "awaiting", "raised", "failed", "returned"}
    BY <1>1, <1>2, <1>3, <2>4
  <2>6. /\ task' \in [Tasks' -> Places] /\ done' \in [Tasks' -> Nat]
        /\ blocks' \in [Tasks' -> Seq(Content)]
        /\ \A t \in Tasks' : done'[t] <= Loops'[t].ops
    BY <1>4, <1>6, <2>2, <2>3 DEF Places
  <2> QED
    BY <1>1, <1>3, <2>1, <2>4, <2>5, <2>6 DEF WTypeOK, Places
<1>8. OneAtATime'
  BY <1>4, <1>6 DEF OneAtATime, Busy
<1>9. open' = open \cup SharedIn(stage + 1, "from")
      /\ \A i : <<0, i>> \in SharedIn(stage + 1, "from")
                <=> i \in DOMAIN plan.shared /\ plan.shared[i].from = stage + 1
  BY DEF StageStarts, SharedIn
<1>10. OwnPools'
  <2>1. \A x \in open : \E i \in DOMAIN plan.shared : x = <<0, i>>
    BY <1>1 DEF OwnPools, Outcome, AllDone, Active, Busy
  <2>2. \A x \in SharedIn(stage + 1, "from") : \E i \in DOMAIN plan.shared : x = <<0, i>>
    BY DEF SharedIn
  <2>3. \A x \in open' : \E i \in DOMAIN plan.shared : x = <<0, i>>
    BY <1>9, <2>1, <2>2
  <2>4. \A t \in new : task'[t] \notin Active
    BY <1>6 DEF Active, Busy
  <2> QED
    BY <1>3, <1>4, <2>3, <2>4 DEF OwnPools
<1>11. SharedPools'
  <2> SUFFICES ASSUME NEW i \in DOMAIN plan.shared
               PROVE  <<0, i>> \in open' <=> InUse(i)'
    BY <1>1, <1>3 DEF SharedPools
  <2>1. <<0, i>> \in open <=> InUse(i)
    BY <1>1 DEF SharedPools
  <2>2. <<0, i>> \in open' <=> InUse(i) \/ plan.shared[i].from = stage + 1
    BY <1>9, <2>1
  <2>3. /\ plan.shared[i].from \in Nat
        /\ \/ plan.shared[i].to = 0
           \/ /\ plan.shared[i].to \in Nat
              /\ plan.shared[i].from <= plan.shared[i].to
    BY <1>2 DEF PoolOK
  <2>4. InUse(i)' <=> /\ plan.shared[i].from <= stage + 1
                      /\ \/ plan.shared[i].to = 0 \/ stage + 1 < plan.shared[i].to
                         \/ stage + 1 = plan.shared[i].to
    BY <1>1, <1>3 DEF InUse
  <2>5. InUse(i) <=> /\ plan.shared[i].from <= stage
                     /\ plan.shared[i].to = 0 \/ stage < plan.shared[i].to
    BY <1>1 DEF InUse
  <2> QED
    BY <1>2, <2>2, <2>3, <2>4, <2>5
<1>12. Outcome'
  BY <1>1, <1>2, <1>4, <1>6 DEF Outcome
<1> QED
  BY <1>7, <1>8, <1>10, <1>11, <1>12 DEF WInv

\* The steps of the main coroutine within a stage close no pool of a coroutine.
LEMMA MainStep ==
  ASSUME WInv, StageOver \/ StageRaises \/ Return
  PROVE  WTypeOK' /\ OneAtATime' /\ OwnPools'
<1>1. /\ WTypeOK /\ OneAtATime /\ OwnPools
      /\ UNCHANGED <<run, stage, task, done, blocks, opened, counted>>
  BY DEF WInv, StageOver, StageRaises, Return
<1>2. /\ plan' = plan /\ Loops' = Loops /\ Tasks' = Tasks /\ Collectors' = Collectors
      /\ main' \in {"running", "raised", "failed", "returned"}
  BY <1>1, SameStage DEF StageOver, StageRaises, Return
<1>3. dir' \in {"none", "there", "gone"}
  BY <1>1 DEF WTypeOK, StageOver, StageRaises, Return, Cleanup
<1>4. WTypeOK'
  BY <1>1, <1>2, <1>3 DEF WTypeOK
<1>5. open' \subseteq open /\ \A x \in open \ open' : \E i : x = <<0, i>>
  BY DEF StageOver, StageRaises, Return, SharedIn
<1>6. \A t \in Tasks : stage \in Nat \ {0}
  BY <1>1, PlanOfRun
<1>7. \A t \in Tasks : \A i : <<stage, t>> # <<0, i>>
  BY <1>6
<1>8. OwnPools'
  <2>1. \A t \in Tasks : <<stage, t>> \in open => <<stage, t>> \in open'
    BY <1>5, <1>7
  <2> QED
    BY <1>1, <1>2, <1>5, <2>1 DEF OwnPools
<1>9. OneAtATime'
  BY <1>1, <1>2 DEF OneAtATime
<1> QED
  BY <1>4, <1>8, <1>9

LEMMA StageOverStep ==
  ASSUME WInv, StageOver
  PROVE  WInv'
<1>1. /\ WTypeOK' /\ OneAtATime' /\ OwnPools'
      /\ WTypeOK /\ SharedPools /\ Outcome
      /\ plan' = plan /\ Loops' = Loops /\ Tasks' = Tasks /\ stage' = stage /\ task' = task
      /\ main = "awaiting" /\ main' = "running" /\ AllDone
  BY MainStep, SameStage DEF WInv, StageOver
<1>2. /\ stage \in Nat /\ WellFormed(plan)
      /\ \A i \in DOMAIN plan.shared : PoolOK(plan, i)
  BY <1>1, PlanOfRun DEF WellFormed
<1>3. SharedPools'
  <2> SUFFICES ASSUME NEW i \in DOMAIN plan.shared
               PROVE  <<0, i>> \in open' <=> InUse(i)'
    BY <1>1 DEF SharedPools
  <2>1. <<0, i>> \in open <=> InUse(i)
    BY <1>1 DEF SharedPools
  <2>2. <<0, i>> \in open' <=> <<0, i>> \in open /\ plan.shared[i].to # stage
    BY DEF StageOver, SharedIn
  <2>3. InUse(i)' <=> /\ plan.shared[i].from <= stage
                      /\ plan.shared[i].to = 0 \/ stage < plan.shared[i].to
    BY <1>1 DEF InUse
  <2>4. InUse(i) <=> /\ plan.shared[i].from <= stage
                     /\ \/ plan.shared[i].to = 0 \/ stage < plan.shared[i].to
                        \/ stage = plan.shared[i].to
    BY <1>1 DEF InUse
  <2>5. plan.shared[i].to = 0 \/ plan.shared[i].to \in Nat
    BY <1>2 DEF PoolOK
  <2>6. stage # 0
    BY <1>1 DEF Outcome
  <2> QED
    BY <1>2, <2>1, <2>2, <2>3, <2>4, <2>5, <2>6
<1>4. Outcome'
  BY <1>1 DEF Outcome, AllDone
<1> QED
  BY <1>1, <1>3, <1>4 DEF WInv

LEMMA StageRaisesStep ==
  ASSUME WInv, StageRaises
  PROVE  WInv'
<1>1. /\ WTypeOK' /\ OneAtATime' /\ OwnPools'
      /\ WTypeOK /\ Outcome
      /\ plan' = plan /\ Loops' = Loops /\ Tasks' = Tasks /\ stage' = stage /\ task' = task
      /\ main = "awaiting" /\ main' = "raised" /\ SomeFailed
  BY MainStep, SameStage DEF WInv, StageRaises
<1>2. \A i \in DOMAIN plan.shared : PoolOK(plan, i)
  BY <1>1, PlanOfRun DEF WellFormed
<1>3. SharedPools'
  <2> SUFFICES ASSUME NEW i \in DOMAIN plan.shared, <<0, i>> \in open'
               PROVE  plan.shared[i].to = 0
    BY <1>1 DEF SharedPools
  <2>1. ~(plan.shared[i].to > 0)
    BY DEF StageRaises
  <2> QED
    BY <1>1, <1>2, <2>1, PlanOfRun DEF PoolOK
<1>4. Outcome'
  BY <1>1 DEF Outcome, SomeFailed
<1> QED
  BY <1>1, <1>3, <1>4 DEF WInv

LEMMA ReturnStep ==
  ASSUME WInv, Return
  PROVE  WInv'
<1>1. /\ WTypeOK' /\ OneAtATime' /\ OwnPools'
      /\ WTypeOK /\ SharedPools /\ Outcome
      /\ plan' = plan /\ Loops' = Loops /\ Tasks' = Tasks /\ stage' = stage /\ task' = task
      /\ main = "running" /\ main' \in {"returned", "failed"} /\ open' = open
      /\ stage = Len(plan.stages)
  BY MainStep, SameStage DEF WInv, Return
<1>2. Len(plan.stages) \in Nat /\ \A i \in DOMAIN plan.shared : PoolOK(plan, i)
  BY <1>1, PlanOfRun DEF WellFormed
<1>3. SharedPools'
  <2> SUFFICES ASSUME NEW i \in DOMAIN plan.shared, <<0, i>> \in open
               PROVE  plan.shared[i].to = 0
    BY <1>1 DEF SharedPools
  <2>1. InUse(i)
    BY <1>1 DEF SharedPools
  <2> QED
    BY <1>1, <1>2, <2>1 DEF InUse, PoolOK
<1>4. Outcome'
  BY <1>1 DEF Outcome, AllDone
<1> QED
  BY <1>1, <1>3, <1>4 DEF WInv

LEMMA CancelOrphansStep ==
  ASSUME WInv, CancelOrphans
  PROVE  WInv'
<1>1. /\ WTypeOK /\ OwnPools /\ SharedPools /\ Outcome
      /\ UNCHANGED <<run, stage, done, blocks, dir, opened, counted>>
      /\ main = "raised" /\ main' = "failed"
      /\ \A t \in Tasks : task[t] \notin {"running", "inflight"}
      /\ task' = [t \in Tasks |-> IF t \in Orphans THEN "cancelled" ELSE task[t]]
      /\ open' = open \ ClosedByOrphans
  BY DEF WInv, CancelOrphans
<1>2. plan' = plan /\ Loops' = Loops /\ Tasks' = Tasks /\ Collectors' = Collectors
  BY <1>1, SameStage
<1>3. \A t \in Tasks : /\ task'[t] \in {"done", "failed", "cancelled"}
                       /\ task[t] = "failed" <=> task'[t] = "failed"
  BY <1>1 DEF WTypeOK, Orphans
<1>4. task' \in [Tasks -> Places]
  BY <1>1, <1>3 DEF Places
<1>5. WTypeOK'
  BY <1>1, <1>2, <1>4 DEF WTypeOK, Places
<1>6. OneAtATime'
  BY <1>2, <1>3 DEF OneAtATime, Busy
<1>7. OwnPools'
  <2>1. ASSUME NEW x \in open' PROVE \E i \in DOMAIN plan.shared : x = <<0, i>>
    <3> SUFFICES ASSUME NEW t \in Tasks, x = <<stage, t>>, Loops[t].shared = 0,
                        task[t] \in Active
                 PROVE  FALSE
      BY <1>1, <2>1 DEF OwnPools
    <3>1. t \in Orphans
      BY <1>1 DEF Orphans, Active, Busy
    <3>2. x \in Own(t)
      BY OwnIs
    <3>3. x \in ClosedByOrphans
      BY <3>1, <3>2 DEF ClosedByOrphans
    <3> QED
      BY <1>1, <2>1, <3>3
  <2>2. \A t \in Tasks : task'[t] \notin Active
    BY <1>3 DEF Active, Busy
  <2> QED
    BY <1>2, <2>1, <2>2 DEF OwnPools
<1>8. SharedPools'
  BY <1>1, <1>2 DEF SharedPools
<1>9. Outcome'
  <2>1. \A t \in Tasks : task'[t] = "failed" => Loops[t].adapter = "posix"
    BY <1>1, <1>3 DEF Outcome
  <2> QED
    BY <1>1, <1>2, <1>3, <2>1 DEF Outcome
<1> QED
  BY <1>5, <1>6, <1>7, <1>8, <1>9 DEF WInv

LEMMA StepKeepsInv ==
  ASSUME WInv, [Next]_vars
  PROVE  WInv'
<1>1. CASE StageStarts
  BY <1>1, StageStartsStep
<1>2. CASE StageOver
  BY <1>2, StageOverStep
<1>3. CASE StageRaises
  BY <1>3, StageRaisesStep
<1>4. CASE Return
  BY <1>4, ReturnStep
<1>5. CASE CancelOrphans
  BY <1>5, CancelOrphansStep
<1>6. CASE \E t \in Tasks : Resume(t) \/ Issue(t) \/ Complete(t) \/ Raises(t) \/ Ends(t)
  BY <1>6, ResumeStep, IssueStep, CompleteStep, LeavesStep
<1>7. CASE UNCHANGED vars
  <2>1. /\ UNCHANGED <<run, stage, main, task, done, blocks, open, dir, opened, counted>>
        /\ plan' = plan /\ Loops' = Loops /\ Tasks' = Tasks /\ Collectors' = Collectors
    BY <1>7, SameStage DEF vars
  <2>2. WTypeOK' /\ OneAtATime'
    BY <2>1 DEF WInv, WTypeOK, OneAtATime
  <2>3. OwnPools' /\ SharedPools'
    BY <2>1 DEF WInv, OwnPools, SharedPools, InUse
  <2>4. Outcome'
    BY <2>1 DEF WInv, Outcome, SomeFailed, AllDone
  <2> QED
    BY <2>2, <2>3, <2>4 DEF WInv
<1> QED
  BY <1>1, <1>2, <1>3, <1>4, <1>5, <1>6, <1>7 DEF Next

THEOREM Invariance == Spec => []WInv
<1>1. WInv /\ [Next]_vars => WInv'
  BY StepKeepsInv
<1> QED
  BY <1>1, Initially, PTL DEF Spec

-----------------------------------------------------------------------------
(* What the collectors have seen. *)

\* The operations of the plan that are behind the coroutines: all of the stages
\* before, and those each coroutine of this one completed.
RecordedAt(p, reached, ran, c) ==
    {x \in Operations(p, c) : x[1] < reached \/ (x[1] = reached /\ x[3] < ran[x[2]])}
Recorded(c) == RecordedAt(plan, stage, done, c)
CInv ==
    /\ \A c \in Collectors : counted[c] = Cardinality(Recorded(c))
    /\ \A t \in Tasks : task[t] = "done" => done[t] = Loops[t].ops
    /\ main = "returned" => stage = Len(plan.stages)

\* What a plan makes for a collector: what its arguments ask for, but that in
\* use case 05 every client except the last makes a query at least.
Made(r, c) ==
    IF r.name = "usecase_05" /\ c = "query" /\ r.args[2] < r.args[3] THEN r.args[3] - 1
    ELSE Asked(r)[c]

LEMMA MadeAsAsked ==
  ASSUME NEW r \in Runs, NEW c, ~(TooFewQueries(r) /\ c = "query")
  PROVE  Made(r, c) = Asked(r)[c]
<1> SUFFICES ASSUME r.name = "usecase_05", c = "query", r.args[2] < r.args[3]
             PROVE  r.args[3] - 1 = Asked(r)[c]
  BY DEF Made
<1>1. r.args[2] \in Nat /\ r.args[3] \in Nat
  BY WorkloadsAssumption DEF Arity
<1>2. r.args[3] - 1 = r.args[2]
  BY <1>1 DEF TooFewQueries
<1>3. Asked(r) = [upsert |-> r.args[1], query |-> r.args[2], s3 |-> r.args[4]]
  BY DEF Asked
<1> QED
  BY <1>2, <1>3

LEMMA PlanCounts ==
  ASSUME NEW r \in Runs, NEW s \in DOMAIN Plan(r).stages,
         NEW t \in DOMAIN Plan(r).stages[s], NEW c \in Plan(r).stages[s][t].collectors
  PROVE  Makes(Plan(r), c, Made(r, c))
<1>1. r.name \in DOMAIN Arity /\ r.args \in [1 .. Arity[r.name] -> Nat]
  BY WorkloadsAssumption
<1>2. r.name = "usecase_05" => r.args[3] > 0
  BY WorkloadsAssumption
<1>3. PICK p : p = Plan(r)
  OBVIOUS
<1>4. s \in DOMAIN p.stages /\ t \in DOMAIN p.stages[s] /\ c \in p.stages[s][t].collectors
  BY <1>3
<1>5. CASE r.name = "usecase_02"
  <2>1. r.args[1] \in Nat /\ p = DedupCompression(r.args[1])
    BY <1>1, <1>3, <1>5 DEF Arity, Plan
  <2>2. DOMAIN p.stages = 1 .. 6
        /\ \A u \in 1 .. 6 : \E k \in Nat : Lone(p, u, 0, "none", k, {})
    BY <2>1, DedupStages
  <2>3. DOMAIN p.stages[s] = {1} /\ p.stages[s][1].collectors = {}
    BY <1>4, <2>2, LoneLoop
  <2> QED
    BY <1>4, <2>3
<1>6. CASE r.name = "usecase_05"
  <2> DEFINE queries == IF r.args[2] >= r.args[3] THEN r.args[2] ELSE r.args[3] - 1
  <2>1. /\ {r.args[1], r.args[2], r.args[4]} \subseteq Nat /\ r.args[3] \in Nat \ {0}
        /\ p = VectorS3(r.args[1], r.args[2], r.args[3], r.args[4])
    BY <1>1, <1>2, <1>3, <1>6 DEF Arity, Plan
  <2>2. /\ Makes(p, "upsert", r.args[1]) /\ Makes(p, "s3", r.args[4])
        /\ Makes(p, "query", queries)
    BY <2>1, VectorCounts
  <2>3. c \in {"upsert", "query", "s3"}
    BY <1>4, <2>1, VectorCounts
  <2>4. Asked(r) = [upsert |-> r.args[1], query |-> r.args[2], s3 |-> r.args[4]]
    BY <1>6 DEF Asked
  <2>5. c = "query" => Made(r, c) = queries
    BY <1>6, <2>1, <2>4 DEF Made
  <2>6. c # "query" => Made(r, c) = Asked(r)[c]
    BY DEF Made
  <2> HIDE DEF queries
  <2> QED
    BY <1>3, <2>2, <2>3, <2>4, <2>5, <2>6
<1>a. r.name # "usecase_05" => Made(r, c) = Asked(r)[c]
  BY DEF Made
<1>7. CASE r.name = "usecase_06"
  <2> DEFINE prefill == Max({1, r.args[1]})
  <2>1. /\ {r.args[1], r.args[2], r.args[3]} \subseteq Nat
        /\ p = KvCache(r.args[1], r.args[2], r.args[3])
    BY <1>1, <1>3, <1>7 DEF Arity, Plan
  <2>2. Makes(p, "prefill", prefill) /\ Makes(p, "decode", r.args[2])
    BY <2>1, KvCacheCounts
  <2>3. c \in {"prefill", "decode"}
    BY <1>4, <2>1, KvCacheCounts
  <2>4. Asked(r) = [prefill |-> prefill, decode |-> r.args[2]]
    BY <1>7 DEF Asked
  <2> HIDE DEF prefill
  <2> QED
    BY <1>3, <1>a, <1>7, <2>2, <2>3, <2>4
<1>8. CASE r.name = "usecase_07"
  <2> DEFINE throttle == r.args[3] = 1
  <2>1. /\ {r.args[1], r.args[2]} \subseteq Nat /\ throttle \in BOOLEAN
        /\ p = MultitenantQos(r.args[1], r.args[2], throttle)
    BY <1>1, <1>3, <1>8 DEF Arity, Plan
  <2> HIDE DEF throttle
  <2>2. \/ c \in {"a_baseline", "a_contended", "a_qos"} /\ Makes(p, c, r.args[1])
        \/ c \in {"b_unthrottled", "b_qos"} /\ Makes(p, c, r.args[2])
    BY <1>4, <2>1, QosCounts
  <2>3. Asked(r) =
            [a_baseline |-> r.args[1], a_contended |-> r.args[1], a_qos |-> r.args[1],
             b_unthrottled |-> r.args[2], b_qos |-> r.args[2]]
    BY <1>8 DEF Asked
  <2> QED
    BY <1>3, <1>a, <1>8, <2>2, <2>3
<1>9. CASE r.name = "usecase_09"
  <2>1. /\ {r.args[1], r.args[2], r.args[3]} \subseteq Nat
        /\ p = StorageTiering(r.args[1], r.args[2], r.args[3])
    BY <1>1, <1>3, <1>9 DEF Arity, Plan
  <2>2. /\ Makes(p, "hot", r.args[1]) /\ Makes(p, "warm", r.args[2])
        /\ Makes(p, "cold", r.args[3])
    BY <2>1, TieringCounts
  <2>3. c \in {"hot", "warm", "cold"}
    BY <1>4, <2>1, TieringCounts
  <2>4. Asked(r) = [hot |-> r.args[1], warm |-> r.args[2], cold |-> r.args[3]]
    BY <1>9 DEF Asked
  <2> QED
    BY <1>3, <1>a, <1>9, <2>2, <2>3, <2>4
<1>10. CASE r.name = "usecase_10"
  <2> DEFINE bursts == r.args[2] * r.args[3]
  <2>1. /\ {r.args[1], r.args[2], r.args[3]} \subseteq Nat
        /\ p = Microburst(r.args[1], r.args[2], r.args[3])
    BY <1>1, <1>3, <1>10 DEF Arity, Plan
  <2>2. /\ Makes(p, "steady", r.args[1]) /\ Makes(p, "burst", bursts)
        /\ Makes(p, "combined", r.args[1] + bursts)
    BY <2>1, MicroburstCounts
  <2>3. c \in {"steady", "burst", "combined"}
    BY <1>4, <2>1, MicroburstCounts
  <2>4. Asked(r) = [steady |-> r.args[1], burst |-> bursts, combined |-> r.args[1] + bursts]
    BY <1>10 DEF Asked
  <2> HIDE DEF bursts
  <2> QED
    BY <1>3, <1>a, <1>10, <2>2, <2>3, <2>4
<1> QED
  BY <1>1, <1>5, <1>6, <1>7, <1>8, <1>9, <1>10 DEF Arity

LEMMA CollectorsCounted ==
  ASSUME WTypeOK, NEW c \in Collectors
  PROVE  Makes(plan, c, Made(run, c))
<1>1. PICK s \in DOMAIN plan.stages : c \in UNION {loop.collectors : loop \in ToSet(plan.stages[s])}
  BY DEF Collectors, ToSet
<1>2. PICK t \in DOMAIN plan.stages[s] : c \in plan.stages[s][t].collectors
  BY <1>1 DEF ToSet
<1>3. run \in Runs
  BY DEF WTypeOK
<1> QED
  BY <1>2, <1>3, PlanCounts DEF plan

LEMMA InRecorded ==
  ASSUME NEW p, NEW reached, NEW ran, NEW c, NEW x
  PROVE  x \in RecordedAt(p, reached, ran, c) <=>
            \E s \in DOMAIN p.stages : \E t \in DOMAIN p.stages[s] :
                /\ c \in p.stages[s][t].collectors
                /\ \E j \in 0 .. p.stages[s][t].ops - 1 :
                       x = <<s, t, j>> /\ (s < reached \/ (s = reached /\ j < ran[t]))
<1>1. ASSUME NEW s, NEW t, NEW j, x = <<s, t, j>>
      PROVE  x[1] = s /\ x[2] = t /\ x[3] = j
  BY <1>1
<1> QED
  BY <1>1, InOperations DEF RecordedAt

\* A stage that starts records nothing: the one before is complete.
LEMMA StartRecords ==
  ASSUME WInv, CInv, StageStarts, NEW c
  PROVE  Recorded(c)' = Recorded(c)
<1>1. /\ WTypeOK /\ plan' = plan /\ stage' = stage + 1 /\ AllDone
      /\ \A t \in Tasks : done[t] = Loops[t].ops
  BY DEF WInv, CInv, Outcome, AllDone, StageStarts, plan
<1>2. /\ stage \in Nat /\ stage + 1 \in DOMAIN plan.stages /\ DOMAIN plan.stages \subseteq Nat \ {0}
      /\ stage # 0 => Loops = plan.stages[stage] /\ Tasks = DOMAIN plan.stages[stage]
  BY <1>1, PlanOfRun DEF WellFormed, StageStarts, Loops, Tasks
<1>3. done' = [t \in DOMAIN plan.stages[stage + 1] |-> 0]
  BY DEF StageStarts
<1>4. ASSUME NEW s \in DOMAIN plan.stages, NEW t \in DOMAIN plan.stages[s],
             NEW j \in 0 .. plan.stages[s][t].ops - 1
      PROVE  (s < stage + 1 \/ (s = stage + 1 /\ j < done'[t]))
             <=> (s < stage \/ (s = stage /\ j < done[t]))
  <2>1. CASE s < stage
    BY <1>2, <2>1
  <2>2. CASE s = stage
    <3>1. t \in Tasks /\ done[t] = plan.stages[s][t].ops
      BY <1>1, <1>2, <2>2
    <3>2. plan.stages[s][t].ops \in Nat
      BY <1>1, PlanOfRun DEF WellFormed, StageOK, LoopType
    <3> QED
      BY <1>2, <2>2, <3>1, <3>2
  <2>3. CASE s = stage + 1
    BY <1>2, <1>3, <2>3
  <2>4. CASE s > stage + 1
    BY <1>2, <2>4
  <2> QED
    BY <1>2, <2>1, <2>2, <2>3, <2>4
<1>5. Recorded(c)' = RecordedAt(plan, stage + 1, done', c)
  BY <1>1 DEF Recorded
<1>6. ASSUME NEW x
      PROVE  x \in RecordedAt(plan, stage + 1, done', c) <=> x \in RecordedAt(plan, stage, done, c)
  BY <1>4, InRecorded
<1> QED
  BY <1>5, <1>6 DEF Recorded

\* An operation that completes is recorded where its loop is counted.
LEMMA CompleteRecords ==
  ASSUME WInv, NEW t \in Tasks, Complete(t), NEW c
  PROVE  Recorded(c)' = IF c \in Loops[t].collectors
                        THEN Recorded(c) \cup {<<stage, t, done[t]>>} ELSE Recorded(c)
<1>1. /\ WTypeOK /\ plan' = plan /\ stage' = stage
      /\ done' = [done EXCEPT ![t] = @ + 1] /\ done[t] < Loops[t].ops
  BY DEF WInv, OneAtATime, Complete, plan
<1>2. /\ done \in [Tasks -> Nat] /\ stage \in DOMAIN plan.stages /\ Loops = plan.stages[stage]
      /\ Tasks = DOMAIN plan.stages[stage] /\ Loops[t].ops \in Nat
  <2>1. Loops[t].ops \in Nat
    BY <1>1, LoopOfTask DEF LoopType
  <2> QED
    BY <1>1, <2>1, PlanOfRun DEF WTypeOK, WellFormed
<1>3. done' \in [Tasks -> Nat] /\ done'[t] = done[t] + 1
      /\ \A u \in Tasks \ {t} : done'[u] = done[u]
  BY <1>1, <1>2
<1> DEFINE new == <<stage, t, done[t]>>
           Before == RecordedAt(plan, stage, done, c)
           After == RecordedAt(plan, stage, done', c)
<1>0. Recorded(c) = Before /\ Recorded(c)' = After
  BY <1>1 DEF Recorded
<1>4. ASSUME NEW x
      PROVE  x \in After <=> x \in Before \/ (c \in Loops[t].collectors /\ x = new)
  <2>1. ASSUME x \in After PROVE x \in Before \/ (c \in Loops[t].collectors /\ x = new)
    <3>1. PICK s \in DOMAIN plan.stages : \E u \in DOMAIN plan.stages[s] :
              /\ c \in plan.stages[s][u].collectors
              /\ \E j \in 0 .. plan.stages[s][u].ops - 1 :
                     x = <<s, u, j>> /\ (s < stage \/ (s = stage /\ j < done'[u]))
      BY <2>1, InRecorded
    <3>2. PICK u \in DOMAIN plan.stages[s] :
              /\ c \in plan.stages[s][u].collectors
              /\ \E j \in 0 .. plan.stages[s][u].ops - 1 :
                     x = <<s, u, j>> /\ (s < stage \/ (s = stage /\ j < done'[u]))
      BY <3>1
    <3>3. PICK j \in 0 .. plan.stages[s][u].ops - 1 :
              x = <<s, u, j>> /\ (s < stage \/ (s = stage /\ j < done'[u]))
      BY <3>2
    <3>4. CASE s < stage \/ (s = stage /\ j < done[u])
      BY <3>2, <3>3, <3>4, InRecorded
    <3>5. CASE s = stage /\ j < done'[u] /\ ~(j < done[u])
      <4>1. u = t /\ j = done[t]
        BY <1>2, <1>3, <3>3, <3>5
      <4> QED
        BY <1>2, <3>2, <3>3, <3>5, <4>1
    <3> QED
      BY <3>3, <3>4, <3>5
  <2>2. ASSUME x \in Before PROVE x \in After
    <3>1. PICK s \in DOMAIN plan.stages : \E u \in DOMAIN plan.stages[s] :
              /\ c \in plan.stages[s][u].collectors
              /\ \E j \in 0 .. plan.stages[s][u].ops - 1 :
                     x = <<s, u, j>> /\ (s < stage \/ (s = stage /\ j < done[u]))
      BY <2>2, InRecorded
    <3>2. PICK u \in DOMAIN plan.stages[s] :
              /\ c \in plan.stages[s][u].collectors
              /\ \E j \in 0 .. plan.stages[s][u].ops - 1 :
                     x = <<s, u, j>> /\ (s < stage \/ (s = stage /\ j < done[u]))
      BY <3>1
    <3>3. PICK j \in 0 .. plan.stages[s][u].ops - 1 :
              x = <<s, u, j>> /\ (s < stage \/ (s = stage /\ j < done[u]))
      BY <3>2
    <3>4. s < stage \/ (s = stage /\ j < done'[u])
      BY <1>2, <1>3, <3>3
    <3> QED
      BY <3>2, <3>3, <3>4, InRecorded
  <2>3. ASSUME c \in Loops[t].collectors, x = new PROVE x \in After
    <3>1. /\ stage \in DOMAIN plan.stages /\ t \in DOMAIN plan.stages[stage]
          /\ c \in plan.stages[stage][t].collectors
          /\ done[t] \in 0 .. plan.stages[stage][t].ops - 1 /\ done[t] < done'[t]
      BY <1>1, <1>2, <1>3, <2>3
    <3> QED
      BY <2>3, <3>1, InRecorded
  <2> QED
    BY <2>1, <2>2, <2>3
<1> QED
  BY <1>4, <1>0

LEMMA RecordedFinite ==
  ASSUME WTypeOK, NEW c \in Collectors
  PROVE  IsFiniteSet(Recorded(c))
<1>1. IsFiniteSet(Operations(plan, c))
  BY CollectorsCounted DEF Makes
<1>2. Recorded(c) \in SUBSET Operations(plan, c)
  BY DEF Recorded, RecordedAt
<1> QED
  BY <1>1, <1>2, FS_Subset

LEMMA CountsInitially == Init => CInv
<1> SUFFICES ASSUME Init PROVE CInv
  OBVIOUS
<1>1. WTypeOK /\ Tasks = {} /\ DOMAIN plan.stages \subseteq Nat \ {0} /\ stage = 0
  BY Initially, PlanOfRun DEF WInv, WellFormed, Init
<1>2. ASSUME NEW c PROVE Recorded(c) = {}
  BY <1>1, InRecorded DEF Recorded
<1> QED
  BY <1>1, <1>2, FS_EmptySet DEF CInv, Init

LEMMA CountsKept ==
  ASSUME WInv, CInv, [Next]_vars
  PROVE  CInv'
<1>1. WTypeOK /\ WTypeOK'
  BY StepKeepsInv DEF WInv
<1>2. CASE StageStarts
  <2>1. plan' = plan /\ Collectors' = Collectors /\ counted' = counted /\ main' # "returned"
    BY <1>2 DEF StageStarts, plan, Collectors
  <2>2. \A c \in Collectors : counted'[c] = Cardinality(Recorded(c)')
    BY <1>2, <2>1, StartRecords DEF CInv
  <2>3. Tasks' = DOMAIN plan.stages[stage + 1]
    BY <1>1, <1>2, <2>1, PlanOfRun DEF Loops, Tasks, StageStarts, WellFormed
  <2>4. \A t \in Tasks' : task'[t] # "done"
    BY <1>2, <2>3 DEF StageStarts
  <2> QED
    BY <2>1, <2>2, <2>4 DEF CInv
<1>3. CASE \E t \in Tasks : Complete(t)
  <2>1. PICK t \in Tasks : Complete(t)
    BY <1>3
  <2>2. /\ plan' = plan /\ Loops' = Loops /\ Tasks' = Tasks /\ Collectors' = Collectors
        /\ stage' = stage /\ main' = main
    BY <2>1, SameStage DEF Complete
  <2>3. ASSUME NEW c \in Collectors PROVE counted'[c] = Cardinality(Recorded(c)')
    <3>1. /\ counted \in [Collectors -> Nat] /\ done \in [Tasks -> Nat] /\ stage \in Nat
          /\ counted'[c] = IF c \in Loops[t].collectors THEN counted[c] + 1 ELSE counted[c]
      BY <1>1, <2>1, PlanOfRun DEF WTypeOK, Complete, Counted
    <3>2. counted[c] = Cardinality(Recorded(c)) /\ IsFiniteSet(Recorded(c))
      BY <1>1, RecordedFinite DEF CInv
    <3>3. <<stage, t, done[t]>> \notin Recorded(c)
      <4> SUFFICES ASSUME <<stage, t, done[t]>> \in Recorded(c) PROVE FALSE
        OBVIOUS
      <4>1. PICK s \in DOMAIN plan.stages : \E u \in DOMAIN plan.stages[s] :
                 \E j : /\ <<stage, t, done[t]>> = <<s, u, j>>
                        /\ s < stage \/ (s = stage /\ j < done[u])
        BY InRecorded DEF Recorded
      <4> QED
        BY <3>1, <4>1
    <3>4. CASE c \in Loops[t].collectors
      <4>1. Recorded(c)' = Recorded(c) \cup {<<stage, t, done[t]>>}
        BY <2>1, <3>4, CompleteRecords
      <4>2. Cardinality(Recorded(c) \cup {<<stage, t, done[t]>>}) = Cardinality(Recorded(c)) + 1
        BY <3>2, <3>3, FS_AddElement
      <4> QED
        BY <3>1, <3>2, <3>4, <4>1, <4>2
    <3>5. CASE c \notin Loops[t].collectors
      <4>1. Recorded(c)' = Recorded(c)
        BY <2>1, <3>5, CompleteRecords
      <4> QED
        BY <3>1, <3>2, <3>5, <4>1
    <3> QED
      BY <3>4, <3>5
  <2>4. \A u \in Tasks : task'[u] = "done" => u # t /\ task[u] = "done"
    BY <1>1, <2>1 DEF Complete, Moves, WTypeOK
  <2>5. \A u \in Tasks : task'[u] = "done" => done'[u] = Loops[u].ops
    BY <1>1, <2>1, <2>4 DEF CInv, Complete, WTypeOK
  <2> QED
    BY <2>2, <2>3, <2>5 DEF CInv
<1>4. CASE ~StageStarts /\ ~(\E t \in Tasks : Complete(t))
  <2>1. /\ UNCHANGED <<run, stage, done, counted>>
        /\ main' = "returned" => main = "returned" \/ stage = Len(plan.stages)
    BY <1>4 DEF Next, vars, StageOver, StageRaises, Return, CancelOrphans, Resume, Issue,
                Raises, Ends, Leaves
  <2>2. plan' = plan /\ Loops' = Loops /\ Tasks' = Tasks /\ Collectors' = Collectors
    BY <2>1, SameStage
  <2>3. \A c : Recorded(c)' = Recorded(c)
    BY <2>1, <2>2 DEF Recorded
  <2>4. ASSUME NEW u \in Tasks, task'[u] = "done" PROVE done[u] = Loops[u].ops
    <3>1. CASE task[u] = "done"
      BY <3>1 DEF CInv
    <3>2. CASE \E t \in Tasks : Ends(t)
      <4>1. PICK t \in Tasks : Ends(t)
        BY <3>2
      <4>2. u = t \/ task[u] = "done"
        BY <1>1, <2>4, <4>1 DEF Ends, Leaves, Moves, WTypeOK
      <4> QED
        BY <3>1, <4>1, <4>2 DEF Ends
    <3>3. CASE CancelOrphans
      BY <2>4, <3>1, <3>3 DEF CancelOrphans
    <3>4. CASE UNCHANGED task
      BY <2>4, <3>1, <3>4
    <3>5. CASE \E t \in Tasks : Resume(t) \/ Issue(t) \/ Raises(t)
      <4>1. PICK t \in Tasks : Resume(t) \/ Issue(t) \/ Raises(t)
        BY <3>5
      <4>2. task[u] = "done"
        BY <1>1, <2>4, <4>1 DEF Resume, Issue, Raises, Leaves, Moves, WTypeOK
      <4> QED
        BY <3>1, <4>2
    <3> QED
      BY <1>4, <3>2, <3>3, <3>4, <3>5 DEF Next, vars, StageOver, StageRaises, Return
  <2> QED
    BY <2>1, <2>2, <2>3, <2>4 DEF CInv
<1> QED
  BY <1>2, <1>3, <1>4

THEOREM CountsInvariance == Spec => [](WInv /\ CInv)
<1>1. WInv /\ CInv /\ [Next]_vars => CInv'
  BY CountsKept
<1> QED
  BY <1>1, Invariance, CountsInitially, PTL DEF Spec

-----------------------------------------------------------------------------

\* Every variable of a use case keeps its type: no loop does more operations
\* than it has, and a path is opened once at most (posix.py:36-60).
THEOREM TypeCorrect == Spec => []WTypeOK
<1>1. WInv => WTypeOK
  BY DEF WInv
<1> QED
  BY <1>1, Invariance, PTL

\* No coroutine uses a pool or mutator that was closed, for any number of
\* coroutines, and also when one of them raises: only coroutines on pools of
\* their own live on then (usecase_05:131-134, usecase_07:29-68).
THEOREM NeverUsedAfterClose == Spec => []NoUseAfterClose
<1>1. WInv => NoUseAfterClose
  <2> SUFFICES ASSUME WInv, NEW t \in Tasks, task[t] \in Active
               PROVE  Source(t) \in open
    BY DEF NoUseAfterClose, Active, Busy
  <2>1. WTypeOK /\ OwnPools /\ SharedPools /\ Outcome
    BY DEF WInv
  <2>2. CASE Loops[t].shared = 0
    BY <2>1, <2>2 DEF Source, OwnPools
  <2>3. CASE Loops[t].shared # 0
    <3> DEFINE i == Loops[t].shared
    <3>1. OpenDuring(plan, stage, i) /\ stage \in Nat
      BY <2>1, <2>3, LoopOfTask, PlanOfRun
    <3>2. main \in {"awaiting", "raised"}
      BY <2>1 DEF WTypeOK, Outcome, AllDone, Active, Busy
    <3>3. main # "raised"
      <4> SUFFICES ASSUME NEW u \in Tasks, task[u] = "failed" PROVE FALSE
        BY <2>1 DEF Outcome, SomeFailed
      <4>1. u # t /\ Loops[u].adapter = "posix"
        BY <2>1 DEF Outcome, Active, Busy
      <4> QED
        BY <2>1, <2>3, <4>1, LoopOfTask
    <3>4. main = "awaiting" /\ InUse(i)
      <4>1. plan.shared[i].to \in Nat
        <5>1. PoolOK(plan, i) /\ Len(plan.stages) \in Nat
          BY <2>1, <3>1, PlanOfRun DEF WellFormed, OpenDuring
        <5> QED
          BY <5>1 DEF PoolOK
      <4> QED
        BY <3>1, <3>2, <3>3, <4>1 DEF OpenDuring, InUse
    <3>5. <<0, i>> \in open
      BY <2>1, <3>1, <3>4 DEF SharedPools, OpenDuring
    <3> QED
      BY <2>3, <3>5 DEF Source
  <2> QED
    BY <2>2, <2>3
<1> QED
  BY <1>1, Invariance, PTL

\* However a use case ends, its coroutines have ended, and only the mutators
\* nobody closes are open (usecase_07:45-68, usecase_05:122-134).
THEOREM NothingHeld == Spec => []ResourcesReleased
<1>1. WInv => ResourcesReleased
  <2> SUFFICES ASSUME WInv, main \in {"failed", "returned"}
               PROVE  /\ \A t \in Tasks : task[t] \in {"done", "failed", "cancelled"}
                      /\ \A x \in open : x[1] = 0 /\ plan.shared[x[2]].to = 0
    BY DEF ResourcesReleased
  <2>1. \A t \in Tasks : task[t] \in {"done", "failed", "cancelled"}
    BY DEF WInv, Outcome, AllDone
  <2>2. ASSUME NEW x \in open PROVE x[1] = 0 /\ plan.shared[x[2]].to = 0
    <3>1. PICK i \in DOMAIN plan.shared : x = <<0, i>>
      BY <2>1, <2>2 DEF WInv, OwnPools, Active, Busy
    <3>2. plan.shared[i].to = 0
      BY <2>2, <3>1 DEF WInv, SharedPools
    <3> QED
      BY <3>1, <3>2
  <2> QED
    BY <2>1, <2>2
<1> QED
  BY <1>1, Invariance, PTL

\* A use case that returns has made the operations its arguments ask for, and
\* each of its collectors has counted every one of its operations once: use
\* case 05 all the queries of its batches (usecase_05:96-138), use case 10 its
\* steady and burst operations together (usecase_10:60-113).  Left out are the
\* queries of use case 05 with two or more clients more than queries, of which
\* it makes more than asked for (FewQueriesOverrun).
THEOREM PlanCarriedOut == Spec => []PlanExecuted
<1>1. WInv /\ CInv => PlanExecuted
  <2> SUFFICES ASSUME WInv, CInv, main = "returned", NEW c \in Collectors,
                      ~(TooFewQueries(run) /\ c = "query")
               PROVE  counted[c] = Asked(run)[c]
    BY DEF PlanExecuted
  <2>1. WTypeOK /\ AllDone /\ stage = Len(plan.stages)
    BY DEF WInv, Outcome, CInv
  <2>2. \A t \in Tasks : done[t] = Loops[t].ops
    BY <2>1 DEF CInv, AllDone
  <2>3. ASSUME NEW s \in DOMAIN plan.stages, NEW t \in DOMAIN plan.stages[s],
               NEW j \in 0 .. plan.stages[s][t].ops - 1
        PROVE  s < stage \/ (s = stage /\ j < done[t])
    <3>1. /\ stage \in Nat /\ s \in 1 .. stage
          /\ Loops = plan.stages[stage] /\ Tasks = DOMAIN plan.stages[stage]
      BY <2>1, PlanOfRun DEF WellFormed, Loops, Tasks
    <3>2. CASE s = stage
      <4>1. done[t] = plan.stages[s][t].ops
        BY <2>2, <3>1, <3>2
      <4>2. plan.stages[s][t].ops \in Nat
        BY <2>1, PlanOfRun DEF WellFormed, StageOK, LoopType
      <4> QED
        BY <3>2, <4>1, <4>2
    <3> QED
      BY <3>1, <3>2
  <2>4. \A x : x \in Recorded(c) <=> x \in Operations(plan, c)
    BY <2>3, InRecorded, InOperations DEF Recorded
  <2>5. Recorded(c) = Operations(plan, c)
    BY <2>4
  <2>6. Cardinality(Operations(plan, c)) = Asked(run)[c]
    <3>1. Cardinality(Operations(plan, c)) = Made(run, c)
      BY <2>1, CollectorsCounted DEF Makes
    <3>2. run \in Runs
      BY <2>1 DEF WTypeOK
    <3> QED
      BY <3>1, <3>2, MadeAsAsked
  <2> QED
    BY <2>5, <2>6 DEF CInv
<1> QED
  BY <1>1, CountsInvariance, PTL

-----------------------------------------------------------------------------
(* What the deduplication audit counts. *)

\* The bits of a seed of the audit, a number below 16.
LEMMA Powers ==
  /\ 2^0 = 1 /\ 2^1 = 2 /\ 2^2 = 4 /\ 2^3 = 8
  /\ 2^4 = 16 /\ 2^5 = 32 /\ 2^6 = 64 /\ 2^7 = 128
  /\ 2^8 = 256 /\ 2^9 = 512 /\ 2^10 = 1024 /\ 2^11 = 2048
  /\ 2^12 = 4096 /\ 2^13 = 8192 /\ 2^14 = 16384 /\ 2^15 = 32768
  /\ 2^16 = 65536 /\ 2^17 = 131072 /\ 2^18 = 262144 /\ 2^19 = 524288
  /\ 2^20 = 1048576 /\ 2^21 = 2097152 /\ 2^22 = 4194304 /\ 2^23 = 8388608
  /\ 2^24 = 16777216 /\ 2^25 = 33554432 /\ 2^26 = 67108864 /\ 2^27 = 134217728
  /\ 2^28 = 268435456 /\ 2^29 = 536870912 /\ 2^30 = 1073741824
  OBVIOUS

LEMMA HighPowers == \A k \in 4 .. 30 : 2^k \in Nat /\ 2^k >= 16
<1> SUFFICES ASSUME NEW k \in 4 .. 30 PROVE 2^k \in Nat /\ 2^k >= 16
  OBVIOUS
<1>1. \/ k = 4 \/ k = 5 \/ k = 6 \/ k = 7 \/ k = 8 \/ k = 9 \/ k = 10 \/ k = 11 \/ k = 12
      \/ k = 13 \/ k = 14 \/ k = 15 \/ k = 16 \/ k = 17 \/ k = 18 \/ k = 19 \/ k = 20
      \/ k = 21 \/ k = 22 \/ k = 23 \/ k = 24 \/ k = 25 \/ k = 26 \/ k = 27 \/ k = 28
      \/ k = 29 \/ k = 30
  OBVIOUS
<1>2. \A i \in 4 .. 30 : k = i => 2^k = 2^i
  OBVIOUS
<1> QED
  BY <1>1, <1>2, Powers

LEMMA InBits ==
  ASSUME NEW n \in 0 .. 15
  PROVE  /\ Bits(n) \subseteq 0 .. 3
         /\ 0 \in Bits(n) <=> n % 2 = 1
         /\ 1 \in Bits(n) <=> (n \div 2) % 2 = 1
         /\ 2 \in Bits(n) <=> (n \div 4) % 2 = 1
         /\ 3 \in Bits(n) <=> (n \div 8) % 2 = 1
<1>1. ASSUME NEW k \in 4 .. 30 PROVE n \div 2^k = 0
  <2>1. PICK m \in Nat : m = 2^k /\ m >= 16
    BY HighPowers
  <2>2. n \div m = 0
    BY <2>1
  <2> QED
    BY <2>1, <2>2
<1>2. \A k \in Bits(n) : k \in 0 .. 30 /\ (n \div 2^k) % 2 = 1
  BY DEF Bits, SeedBits
<1>3. ASSUME NEW k \in Bits(n) PROVE k \in 0 .. 3
  <2>1. ASSUME k \in 4 .. 30 PROVE FALSE
    <3>1. n \div 2^k = 0 /\ (n \div 2^k) % 2 = 1
      BY <1>1, <1>2, <2>1
    <3> QED
      BY <3>1
  <2> QED
    BY <1>2, <2>1
<1>4. \A k \in 0 .. 3 : k \in Bits(n) <=> (n \div 2^k) % 2 = 1
  BY DEF Bits, SeedBits
<1>5. n \div 1 = n /\ 2^0 = 1 /\ 2^1 = 2 /\ 2^2 = 4 /\ 2^3 = 8
  BY Powers
<1>6. 0 \in Bits(n) <=> n % 2 = 1
  BY <1>4, <1>5
<1>7. 1 \in Bits(n) <=> (n \div 2) % 2 = 1
  BY <1>4, <1>5
<1>8. 2 \in Bits(n) <=> (n \div 4) % 2 = 1
  BY <1>4, <1>5
<1>9. 3 \in Bits(n) <=> (n \div 8) % 2 = 1
  BY <1>4, <1>5
<1> QED
  BY <1>3, <1>6, <1>7, <1>8, <1>9

LEMMA BitsTellApart ==
  ASSUME NEW n \in 0 .. 15, NEW m \in 0 .. 15, Bits(n) = Bits(m)
  PROVE  n = m
<1>1. /\ n % 2 = m % 2 /\ (n \div 2) % 2 = (m \div 2) % 2
      /\ (n \div 4) % 2 = (m \div 4) % 2 /\ (n \div 8) % 2 = (m \div 8) % 2
  <2>1. \A k \in 0 .. 15 : /\ k % 2 \in {0, 1} /\ (k \div 2) % 2 \in {0, 1}
                           /\ (k \div 4) % 2 \in {0, 1} /\ (k \div 8) % 2 \in {0, 1}
    OBVIOUS
  <2>2. /\ n % 2 = 1 <=> m % 2 = 1
        /\ (n \div 2) % 2 = 1 <=> (m \div 2) % 2 = 1
        /\ (n \div 4) % 2 = 1 <=> (m \div 4) % 2 = 1
        /\ (n \div 8) % 2 = 1 <=> (m \div 8) % 2 = 1
    BY InBits
  <2> QED
    BY <2>1, <2>2
<1> QED
  BY <1>1

\* An odd number has one bit more than the even one before it.
LEMMA OddBits ==
  ASSUME NEW n \in 0 .. 14, n % 2 = 0
  PROVE  0 \notin Bits(n) /\ Bits(n + 1) = Bits(n) \cup {0}
<1>1. n \in 0 .. 15 /\ n + 1 \in 0 .. 15 /\ n % 2 # 1 /\ (n + 1) % 2 = 1
  OBVIOUS
<1>2. /\ (n + 1) \div 2 = n \div 2 /\ (n + 1) \div 4 = n \div 4 /\ (n + 1) \div 8 = n \div 8
  OBVIOUS
<1>3. 0 \notin Bits(n) /\ 0 \in Bits(n + 1)
  BY <1>1, InBits
<1>4. /\ 1 \in Bits(n) <=> 1 \in Bits(n + 1)
      /\ 2 \in Bits(n) <=> 2 \in Bits(n + 1)
      /\ 3 \in Bits(n) <=> 3 \in Bits(n + 1)
  BY <1>1, <1>2, InBits
<1>5. Bits(n) \subseteq {0, 1, 2, 3} /\ Bits(n + 1) \subseteq {0, 1, 2, 3}
  <2>1. 0 .. 3 = {0, 1, 2, 3}
    OBVIOUS
  <2> QED
    BY <1>1, <2>1, InBits
<1> QED
  BY <1>3, <1>4, <1>5

\* What k of the seeds 0, 1, 2 ... leave of a block, applied one after another.
PrefixSeeds(k) ==
    CASE k % 4 = 0 -> {}
      [] k % 4 = 1 -> Bits(k - 1)
      [] k % 4 = 2 -> {0}
      [] k % 4 = 3 -> Bits(k)
Prefix(k) == [odd |-> k % 2 = 1, seeds |-> PrefixSeeds(k)]

LEMMA PrefixSeedsIs ==
  ASSUME NEW k \in Nat
  PROVE  /\ k % 4 = 0 => PrefixSeeds(k) = {}
         /\ k % 4 = 1 => PrefixSeeds(k) = Bits(k - 1)
         /\ k % 4 = 2 => PrefixSeeds(k) = {0}
         /\ k % 4 = 3 => PrefixSeeds(k) = Bits(k)
  BY DEF PrefixSeeds

LEMMA PrefixNext ==
  ASSUME NEW k \in 0 .. 15
  PROVE  Prefix(k + 1) = [odd |-> ~Prefix(k).odd, seeds |-> SymDiff(Prefix(k).seeds, Bits(k))]
<1>1. (k + 1) % 2 = 1 <=> ~(k % 2 = 1)
  OBVIOUS
<1>2. PrefixSeeds(k + 1) = SymDiff(PrefixSeeds(k), Bits(k))
  <2>1. CASE k % 4 = 0
    <3>1. (k + 1) % 4 = 1 /\ k + 1 - 1 = k /\ k \in Nat /\ k + 1 \in Nat
      BY <2>1
    <3>2. PrefixSeeds(k) = {} /\ PrefixSeeds(k + 1) = Bits(k)
      BY <2>1, <3>1, PrefixSeedsIs
    <3> QED
      BY <3>2 DEF SymDiff
  <2>2. CASE k % 4 = 1
    <3>1. (k + 1) % 4 = 2 /\ k - 1 \in 0 .. 14 /\ (k - 1) % 2 = 0 /\ k - 1 + 1 = k
          /\ k \in Nat /\ k + 1 \in Nat
      BY <2>2
    <3>2. PrefixSeeds(k) = Bits(k - 1) /\ PrefixSeeds(k + 1) = {0}
      BY <2>2, <3>1, PrefixSeedsIs
    <3>3. 0 \notin Bits(k - 1) /\ Bits(k) = Bits(k - 1) \cup {0}
      BY <3>1, OddBits
    <3> QED
      BY <3>2, <3>3 DEF SymDiff
  <2>3. CASE k % 4 = 2
    <3>1. (k + 1) % 4 = 3 /\ k \in 0 .. 14 /\ k % 2 = 0 /\ k \in Nat /\ k + 1 \in Nat
      BY <2>3
    <3>2. PrefixSeeds(k) = {0} /\ PrefixSeeds(k + 1) = Bits(k + 1)
      BY <2>3, <3>1, PrefixSeedsIs
    <3>3. 0 \notin Bits(k) /\ Bits(k + 1) = Bits(k) \cup {0}
      BY <3>1, OddBits
    <3> QED
      BY <3>2, <3>3 DEF SymDiff
  <2>4. CASE k % 4 = 3
    <3>1. (k + 1) % 4 = 0 /\ k \in Nat /\ k + 1 \in Nat
      BY <2>4
    <3>2. PrefixSeeds(k) = Bits(k) /\ PrefixSeeds(k + 1) = {}
      BY <2>4, <3>1, PrefixSeedsIs
    <3> QED
      BY <3>2 DEF SymDiff
  <2>5. k % 4 \in 0 .. 3
    OBVIOUS
  <2> QED
    BY <2>1, <2>2, <2>3, <2>4, <2>5
<1> QED
  BY <1>1, <1>2 DEF Prefix

\* Ten of them differ: without, with one, or with two of the seeds, and one for
\* each odd number.
Distinct10 == {0, 1, 2, 3, 5, 7, 9, 11, 13, 15}

LEMMA PrefixesDiffer ==
  ASSUME NEW j \in Distinct10, NEW k \in Distinct10, Prefix(j) = Prefix(k)
  PROVE  j = k
<1>1. /\ j \in 0 .. 15 /\ k \in 0 .. 15 /\ j \in Nat /\ k \in Nat
      /\ j % 2 = 0 => j = 0 \/ j = 2
      /\ k % 2 = 0 => k = 0 \/ k = 2
  BY DEF Distinct10
<1>2. (j % 2 = 1 <=> k % 2 = 1) /\ PrefixSeeds(j) = PrefixSeeds(k)
  BY DEF Prefix
<1>3. CASE j % 2 = 0
  <2>1. (j = 0 \/ j = 2) /\ (k = 0 \/ k = 2)
    BY <1>1, <1>2, <1>3
  <2>2. PrefixSeeds(0) = {} /\ PrefixSeeds(2) = {0}
    BY PrefixSeedsIs
  <2> QED
    BY <1>2, <2>1, <2>2
<1>4. CASE j % 2 = 1
  <2> DEFINE s(n) == IF n % 4 = 1 THEN n - 1 ELSE n
  <2>1. ASSUME NEW n \in 0 .. 15, n % 2 = 1
        PROVE  /\ s(n) \in 0 .. 15 /\ s(n) % 2 = (IF n % 4 = 1 THEN 0 ELSE 1)
               /\ PrefixSeeds(n) = Bits(s(n))
    <3>1. (n % 4 = 1 \/ n % 4 = 3) /\ n \in Nat
      BY <2>1
    <3>2. PrefixSeeds(n) = Bits(s(n))
      BY <3>1, PrefixSeedsIs
    <3>3. s(n) \in 0 .. 15 /\ s(n) % 2 = (IF n % 4 = 1 THEN 0 ELSE 1)
      BY <2>1, <3>1
    <3> QED
      BY <3>2, <3>3
  <2>2. k % 2 = 1
    BY <1>1, <1>2, <1>4
  <2>3. s(j) = s(k)
    <3>1. Bits(s(j)) = Bits(s(k)) /\ s(j) \in 0 .. 15 /\ s(k) \in 0 .. 15
      BY <1>1, <1>2, <1>4, <2>1, <2>2
    <3> HIDE DEF s
    <3> QED
      BY <3>1, BitsTellApart
  <2>4. (j % 4 = 1 \/ j % 4 = 3) /\ (k % 4 = 1 \/ k % 4 = 3)
    BY <1>1, <1>4, <2>2
  <2>5. j % 4 = k % 4
    BY <1>1, <1>4, <2>1, <2>2, <2>3, <2>4
  <2> QED
    BY <1>1, <2>3, <2>4, <2>5
<1> QED
  BY <1>1, <1>3, <1>4

LEMMA PrefixesRecur ==
  /\ \A k \in 0 .. 16 : \E j \in Distinct10 : Prefix(k) = Prefix(j)
  /\ Distinct10 \subseteq 0 .. 15
  /\ \A j \in Distinct10 : \E k \in 1 .. 16 : Prefix(j) = Prefix(k)
<1>1. \A k \in Nat : /\ k % 4 = 0 => Prefix(k) = Prefix(0)
                     /\ k % 4 = 2 => Prefix(k) = Prefix(2)
  <2> TAKE k \in Nat
  <2>1. CASE k % 4 = 0
    <3>1. (k % 2 = 1 <=> 0 % 2 = 1) /\ 0 % 4 = 0 /\ k % 4 # 2
      BY <2>1
    <3>2. PrefixSeeds(k) = PrefixSeeds(0)
      BY <2>1, <3>1, PrefixSeedsIs
    <3> QED
      BY <3>1, <3>2 DEF Prefix
  <2>2. CASE k % 4 = 2
    <3>1. (k % 2 = 1 <=> 2 % 2 = 1) /\ 2 % 4 = 2 /\ k % 4 # 0
      BY <2>2
    <3>2. PrefixSeeds(k) = PrefixSeeds(2)
      BY <2>2, <3>1, PrefixSeedsIs
    <3> QED
      BY <3>1, <3>2 DEF Prefix
  <2> QED
    BY <2>1, <2>2
<1>2. ASSUME NEW k \in 0 .. 16 PROVE \E j \in Distinct10 : Prefix(k) = Prefix(j)
  <2>1. k \in Distinct10 \/ k % 4 = 0 \/ k % 4 = 2
    BY DEF Distinct10
  <2>2. 0 \in Distinct10 /\ 2 \in Distinct10 /\ k \in Nat
    BY DEF Distinct10
  <2> QED
    BY <1>1, <2>1, <2>2
<1>3. Distinct10 \subseteq 0 .. 15
  BY DEF Distinct10
<1>4. ASSUME NEW j \in Distinct10 PROVE \E k \in 1 .. 16 : Prefix(j) = Prefix(k)
  <2>1. CASE j = 0
    <3>1. Prefix(4) = Prefix(0) /\ 4 \in 1 .. 16
      BY <1>1
    <3> QED
      BY <2>1, <3>1
  <2>2. CASE j # 0
    BY <1>3, <2>2
  <2> QED
    BY <2>1, <2>2
<1> QED
  BY <1>2, <1>3, <1>4

LEMMA TenPrefixes ==
  ASSUME NEW S, \A x : x \in S <=> \E k \in Distinct10 : x = Prefix(k)
  PROVE  Cardinality(S) = 10
<1> DEFINE Nth(i) == IF i <= 3 THEN i ELSE 2 * i - 3
           f == [x \in S |-> CHOOSE i \in 0 .. 10 - 1 : x = Prefix(Nth(i))]
<1>1. \A i \in 0 .. 10 - 1 : Nth(i) \in Distinct10
  BY DEF Distinct10
<1>2. \A k \in Distinct10 : \E i \in 0 .. 10 - 1 : k = Nth(i)
  <2>1. /\ 0 = Nth(0) /\ 1 = Nth(1) /\ 2 = Nth(2) /\ 3 = Nth(3) /\ 5 = Nth(4) /\ 7 = Nth(5)
        /\ 9 = Nth(6) /\ 11 = Nth(7) /\ 13 = Nth(8) /\ 15 = Nth(9)
    OBVIOUS
  <2>2. /\ 0 \in 0 .. 10 - 1 /\ 1 \in 0 .. 10 - 1 /\ 2 \in 0 .. 10 - 1 /\ 3 \in 0 .. 10 - 1
        /\ 4 \in 0 .. 10 - 1 /\ 5 \in 0 .. 10 - 1 /\ 6 \in 0 .. 10 - 1 /\ 7 \in 0 .. 10 - 1
        /\ 8 \in 0 .. 10 - 1 /\ 9 \in 0 .. 10 - 1
    OBVIOUS
  <2> HIDE DEF Nth
  <2> QED
    BY <2>1, <2>2 DEF Distinct10
<1>3. \A i, j \in 0 .. 10 - 1 : Nth(i) = Nth(j) => i = j
  OBVIOUS
<1> HIDE DEF Nth
<1>4. \A x \in S : f[x] \in 0 .. 10 - 1 /\ x = Prefix(Nth(f[x]))
  <2> TAKE x \in S
  <2>1. \E i \in 0 .. 10 - 1 : x = Prefix(Nth(i))
    BY <1>2
  <2> QED
    BY <2>1
<1>5. f \in [S -> 0 .. 10 - 1]
  <2>1. f = [x \in S |-> f[x]]
    OBVIOUS
  <2> HIDE DEF f
  <2> QED
    BY <1>4, <2>1
<1> HIDE DEF f
<1>6. \A x, y \in S : f[x] = f[y] => x = y
  BY <1>4
<1>7. ASSUME NEW i \in 0 .. 10 - 1 PROVE \E x \in S : f[x] = i
  <2>1. Prefix(Nth(i)) \in S
    BY <1>1
  <2>2. Prefix(Nth(f[Prefix(Nth(i))])) = Prefix(Nth(i)) /\ f[Prefix(Nth(i))] \in 0 .. 10 - 1
    BY <1>4, <2>1
  <2>3. Nth(f[Prefix(Nth(i))]) = Nth(i)
    BY <1>1, <2>2, PrefixesDiffer
  <2>4. f[Prefix(Nth(i))] = i
    BY <1>3, <2>2, <2>3
  <2> QED
    BY <2>1, <2>4
<1>8. PICK n \in Nat : n = 10
  OBVIOUS
<1>9. f \in [S -> 0 .. n - 1] /\ \A i \in 0 .. n - 1 : \E x \in S : f[x] = i
  BY <1>5, <1>7, <1>8
<1>10. Cardinality(S) = n
  BY <1>6, <1>9, Numbered
<1> QED
  BY <1>8, <1>10

\* The audit is one loop, over its blocks in pairs.
LEMMA AuditLoop ==
  ASSUME WTypeOK, run.name = "usecase_02"
  PROVE  /\ Len(plan.stages) = 6 /\ DOMAIN plan.stages[6] = {1}
         /\ stage = 6 => /\ Tasks = {1} /\ Loops[1].ops = 32
                         /\ Loops[1].payload = "audit" /\ Loops[1].adapter = "none"
<1> DEFINE n == run.args[1]
           sweep(kind) == Seeded(Loop(1 + n, "none"), kind)
           audit == Seeded(Loop(2 * AuditBlocks, "none"), "audit")
           stages == << <<sweep("zeroes")>>, <<sweep("sample")>>, <<sweep("sample")>>,
                        <<sweep("sample")>>, <<sweep("sample")>>, <<audit>> >>
<1>1. plan = UseCase(stages, <<>>, FALSE)
  BY DEF plan, Plan, DedupCompression
<1>2. audit.ops = 32 /\ audit.payload = "audit" /\ audit.adapter = "none"
  BY DEF Seeded, Loop, AuditBlocks
<1> HIDE DEF sweep, audit
<1>3. Len(stages) = 6 /\ DOMAIN stages = 1 .. 6 /\ stages[6] = <<audit>>
  OBVIOUS
<1>4. plan.stages = stages
  BY <1>1 DEF UseCase
<1> HIDE DEF stages
<1>5. ASSUME stage = 6 PROVE Loops = <<audit>>
  <2>1. stage \in DOMAIN plan.stages /\ plan.stages[stage] = <<audit>>
    BY <1>3, <1>4, <1>5
  <2> QED
    BY <2>1 DEF Loops
<1>6. ASSUME stage = 6 PROVE Tasks = {1} /\ Loops[1] = audit
  BY <1>5, <1>6, Alone DEF Tasks
<1>7. DOMAIN plan.stages[6] = {1}
  BY <1>3, <1>4, Alone
<1> QED
  BY <1>2, <1>3, <1>4, <1>6, <1>7

\* Each block of the audit holds what the seeds so far leave: its first is
\* taken before its seed, its second after.
AuditRight ==
    run.name = "usecase_02" /\ stage = 6 =>
        /\ Len(blocks[1]) = done[1] + (IF task[1] = "inflight" THEN 1 ELSE 0)
        /\ \A m \in 1 .. Len(blocks[1]) : blocks[1][m] = Prefix(m \div 2)

LEMMA Halves ==
  ASSUME NEW n \in 0 .. 31
  PROVE  /\ n \div 2 \in 0 .. 15
         /\ n % 2 = 0 => (n + 1) \div 2 = n \div 2
         /\ n % 2 # 0 => (n + 1) \div 2 = n \div 2 + 1
  OBVIOUS

LEMMA HeldIsPrefix ==
  ASSUME WTypeOK, AuditRight, run.name = "usecase_02", stage = 6, task[1] # "inflight",
         NEW n \in 0 .. 31, n = done[1]
  PROVE  /\ Held(1) = Prefix(n \div 2)
         /\ Mutated(Held(1), "audit", n) = Prefix((n + 1) \div 2)
<1>1. blocks[1] \in Seq(Content) /\ Len(blocks[1]) = n
  <2>1. 1 \in Tasks
    BY AuditLoop
  <2>2. blocks[1] \in Seq(Content)
    BY <2>1 DEF WTypeOK
  <2>3. Len(blocks[1]) = n + 0
    BY DEF AuditRight
  <2> QED
    BY <2>2, <2>3
<1>2. Held(1) = Prefix(n \div 2)
  <2>1. CASE n = 0
    <3>1. PrefixSeeds(0) = {} /\ n \div 2 = 0 /\ ~(0 % 2 = 1)
      BY <2>1, PrefixSeedsIs
    <3>2. Prefix(n \div 2) = Zeros
      BY <3>1 DEF Prefix, Zeros
    <3>3. blocks[1] = <<>>
      BY <1>1, <2>1, EmptySeq
    <3> QED
      BY <3>2, <3>3 DEF Held
  <2>2. CASE n # 0
    <3>1. blocks[1] # <<>> /\ n \in 1 .. Len(blocks[1])
      BY <1>1, <2>2, EmptySeq
    <3>2. Held(1) = blocks[1][n]
      BY <1>1, <3>1 DEF Held, Last
    <3> QED
      BY <3>1, <3>2 DEF AuditRight
  <2> QED
    BY <2>1, <2>2
<1>3. CASE n % 2 = 0
  <2>1. (n + 1) \div 2 = n \div 2
    BY <1>3, Halves
  <2>2. Untouched("audit", n)
    BY <1>3 DEF Untouched
  <2>3. Mutated(Held(1), "audit", n) = Held(1)
    BY <2>2 DEF Mutated
  <2> QED
    BY <1>2, <2>1, <2>3
<1>4. CASE n % 2 # 0
  <2>1. n \div 2 \in 0 .. 15 /\ (n + 1) \div 2 = n \div 2 + 1
    BY <1>4, Halves
  <2>2. SeedOf("audit", n) = n \div 2 /\ ~Untouched("audit", n)
    BY <1>4 DEF SeedOf, Untouched
  <2>3. Mutated(Held(1), "audit", n) =
            [odd |-> ~Held(1).odd, seeds |-> SymDiff(Held(1).seeds, Bits(n \div 2))]
    BY <2>2 DEF Mutated
  <2> QED
    BY <1>2, <2>1, <2>3, PrefixNext
<1> QED
  BY <1>3, <1>4

LEMMA AuditKept == WInv /\ AuditRight /\ [Next]_vars => AuditRight'
<1> SUFFICES ASSUME WInv, AuditRight, [Next]_vars, (run.name = "usecase_02")', (stage = 6)'
             PROVE  /\ Len(blocks[1])' = done'[1] + (IF task'[1] = "inflight" THEN 1 ELSE 0)
                    /\ \A m \in 1 .. Len(blocks[1])' : blocks'[1][m] = Prefix(m \div 2)
  BY DEF AuditRight, Prefix, PrefixSeeds
<1>1. WTypeOK /\ WTypeOK' /\ run' = run /\ run.name = "usecase_02"
  <2>1. run' = run
    BY DEF Next, vars, StageStarts, StageOver, StageRaises, Return, CancelOrphans, Resume, Issue,
           Complete, Raises, Ends, Leaves
  <2> QED
    BY <2>1, StepKeepsInv DEF WInv
<1>2. CASE StageStarts
  <2>1. DOMAIN plan.stages[6] = {1} /\ stage' = stage + 1 /\ stage' = 6
    BY <1>1, <1>2, AuditLoop DEF StageStarts
  <2>2. 1 \in DOMAIN plan.stages[stage + 1]
    BY <2>1
  <2>3. blocks'[1] = <<>> /\ done'[1] = 0 /\ task'[1] = "ready"
    BY <1>2, <2>2 DEF StageStarts
  <2>4. Len(blocks'[1]) = 0
    BY <2>3
  <2> QED
    BY <2>3, <2>4
<1>3. ASSUME UNCHANGED <<run, stage>>
      PROVE  /\ stage = 6 /\ Tasks = {1} /\ Loops[1].ops = 32
             /\ Loops[1].payload = "audit" /\ Loops[1].adapter = "none"
             /\ blocks[1] \in Seq(Content) /\ done[1] \in Nat
             /\ task \in [{1} -> Places] /\ DOMAIN blocks = {1} /\ DOMAIN done = {1}
             /\ Len(blocks[1]) = done[1] + (IF task[1] = "inflight" THEN 1 ELSE 0)
             /\ \A m \in 1 .. Len(blocks[1]) : blocks[1][m] = Prefix(m \div 2)
  <2>1. stage = 6
    BY <1>3
  <2> QED
    BY <1>1, <2>1, AuditLoop DEF AuditRight, WTypeOK, Places
<1>4. ASSUME NEW t \in Tasks, Issue(t)
      PROVE  /\ Len(blocks[1])' = done'[1] + (IF task'[1] = "inflight" THEN 1 ELSE 0)
             /\ \A m \in 1 .. Len(blocks[1])' : blocks'[1][m] = Prefix(m \div 2)
  <2> DEFINE n == done[1]
             new == Mutated(Held(1), "audit", n)
  <2>1. UNCHANGED <<run, stage, done>> /\ task[t] = "running" /\ done[t] < Loops[t].ops
    BY <1>4 DEF Issue
  <2>2. t = 1 /\ task[1] = "running" /\ n < 32 /\ stage = 6
    BY <1>3, <2>1
  <2>3. n \in 0 .. 31 /\ new = Prefix((n + 1) \div 2)
    <3>1. n \in Nat
      BY <1>3, <2>1
    <3>2. n \in 0 .. 31
      BY <2>2, <3>1
    <3> HIDE DEF n
    <3>3. Mutated(Held(1), "audit", n) = Prefix((n + 1) \div 2)
      <4>1. n = done[1]
        BY DEF n
      <4> QED
        BY <1>1, <2>2, <3>2, <4>1, HeldIsPrefix
    <3> QED
      BY <3>2, <3>3 DEF n
  <2>4. blocks' = [blocks EXCEPT ![1] = Append(@, new)] /\ task'[1] = "inflight"
    BY <1>3, <1>4, <2>1, <2>2 DEF Issue, Moves
  <2>5. blocks[1] \in Seq(Content) /\ Len(blocks[1]) = n /\ DOMAIN blocks = {1}
    BY <1>3, <2>1, <2>2
  <2> HIDE DEF new
  <2>6. blocks'[1] = Append(blocks[1], new)
    BY <2>4, <2>5
  <2>7. /\ Len(blocks'[1]) = n + 1 /\ blocks'[1][n + 1] = new
        /\ \A m \in 1 .. n : blocks'[1][m] = blocks[1][m]
    BY <2>5, <2>6
  <2>8. ASSUME NEW m \in 1 .. n + 1 PROVE blocks'[1][m] = Prefix(m \div 2)
    <3>1. CASE m = n + 1
      BY <2>3, <2>7, <3>1
    <3>2. CASE m # n + 1
      <4>1. m \in 1 .. n
        BY <2>3, <3>2
      <4> QED
        BY <1>3, <2>1, <2>5, <2>7, <4>1
    <3> QED
      BY <3>1, <3>2
  <2> QED
    BY <2>1, <2>4, <2>7, <2>8
<1>5. ASSUME NEW t \in Tasks, Complete(t)
      PROVE  /\ Len(blocks[1])' = done'[1] + (IF task'[1] = "inflight" THEN 1 ELSE 0)
             /\ \A m \in 1 .. Len(blocks[1])' : blocks'[1][m] = Prefix(m \div 2)
  <2>1. UNCHANGED <<run, stage, blocks>> /\ task[t] = "inflight"
    BY <1>5 DEF Complete
  <2>2. t = 1 /\ task[1] = "inflight"
    BY <1>3, <2>1
  <2>3. done'[1] = done[1] + 1 /\ task'[1] # "inflight"
    BY <1>3, <1>5, <2>1, <2>2 DEF Complete, Moves
  <2> QED
    BY <1>3, <2>1, <2>2, <2>3
<1>6. CASE ~StageStarts /\ ~(\E t \in Tasks : Issue(t) \/ Complete(t))
  <2>1. UNCHANGED <<run, stage, done, blocks>>
    BY <1>6 DEF Next, vars, StageOver, StageRaises, Return, CancelOrphans, Resume,
                Raises, Ends, Leaves
  <2>2. task'[1] = "inflight" <=> task[1] = "inflight"
    <3>1. CASE \E t \in Tasks : Resume(t) \/ Raises(t) \/ Ends(t)
      <4>1. PICK t \in Tasks : Resume(t) \/ Raises(t) \/ Ends(t)
        BY <3>1
      <4>2. t = 1 /\ ~Raises(t)
        BY <1>3, <2>1, <4>1 DEF Raises
      <4> QED
        BY <1>3, <2>1, <4>1, <4>2 DEF Resume, Ends, Leaves, Moves
    <3>2. CASE CancelOrphans
      BY <1>3, <2>1, <3>2 DEF CancelOrphans, Orphans
    <3>3. CASE UNCHANGED task
      BY <3>3
    <3> QED
      BY <1>6, <3>1, <3>2, <3>3 DEF Next, vars, StageOver, StageRaises, Return
  <2> QED
    BY <1>3, <2>1, <2>2
<1> QED
  BY <1>2, <1>4, <1>5, <1>6

\* What the deduplication audit has counted when the use case returns: the
\* blocks at odd places are those of ratio 0, the others those of ratio 1.
AuditCounts ==
    (main = "returned" /\ run.name = "usecase_02") =>
        LET Seen(parity) ==
                {blocks[1][n] : n \in {m \in DOMAIN blocks[1] : m % 2 = parity}}
        IN  Cardinality(Seen(1)) = 10 /\ Cardinality(Seen(0)) = 10

\* The audit of use case 02 counts ten distinct blocks of sixteen of each kind.
\* This contradicts what the source says of them, "all identical zero pattern"
\* (usecase_02:123) and "93.8% Saved" (line 130), one distinct block, and
\* "random seeds" and "Incompressible" (lines 126 and 132), sixteen: the buffer
\* keeps what the seeds before left in it (mutator.py:60-95).
THEOREM TenOfSixteen == Spec => []AuditCounts
<1>1. Init => AuditRight
  <2>1. Init => stage = 0
    BY DEF Init
  <2> QED
    BY <2>1 DEF AuditRight
<1>2. WInv /\ CInv /\ AuditRight => AuditCounts
  <2> SUFFICES ASSUME WInv, CInv, AuditRight, main = "returned", run.name = "usecase_02",
                      NEW parity \in {0, 1}
               PROVE  Cardinality({blocks[1][n] : n \in {m \in DOMAIN blocks[1] :
                                                          m % 2 = parity}}) = 10
    BY DEF AuditCounts
  <2> DEFINE Seen == {blocks[1][n] : n \in {m \in DOMAIN blocks[1] : m % 2 = parity}}
  <2>1. WTypeOK /\ AllDone /\ stage = 6 /\ Tasks = {1} /\ Loops[1].ops = 32
    BY AuditLoop DEF WInv, Outcome, CInv
  <2>2. task[1] = "done" /\ done[1] = 32
    BY <2>1 DEF AllDone, CInv
  <2>3. DOMAIN blocks[1] = 1 .. 32 /\ \A m \in 1 .. 32 : blocks[1][m] = Prefix(m \div 2)
    <3>1. blocks[1] \in Seq(Content)
      BY <2>1 DEF WTypeOK
    <3>2. /\ Len(blocks[1]) = done[1] + 0
          /\ \A m \in 1 .. Len(blocks[1]) : blocks[1][m] = Prefix(m \div 2)
      BY <2>1, <2>2 DEF AuditRight
    <3>3. Len(blocks[1]) = 32
      BY <2>2, <3>2
    <3>4. DOMAIN blocks[1] = 1 .. Len(blocks[1])
      BY <3>1, LenProperties
    <3> QED
      BY <3>2, <3>3, <3>4
  <2>4. ASSUME NEW x \in Seen PROVE \E k \in Distinct10 : x = Prefix(k)
    <3>1. PICK m \in 1 .. 32 : x = Prefix(m \div 2)
      BY <2>3
    <3>2. m \div 2 \in 0 .. 16
      OBVIOUS
    <3> QED
      BY <3>1, <3>2, PrefixesRecur
  <2>5. ASSUME NEW j \in Distinct10 PROVE Prefix(j) \in Seen
    <3>1. CASE parity = 1
      <4>1. j \in 0 .. 15
        BY PrefixesRecur
      <4>2. 2 * j + 1 \in 1 .. 32 /\ (2 * j + 1) % 2 = 1 /\ (2 * j + 1) \div 2 = j
        BY <4>1
      <4> QED
        BY <2>3, <3>1, <4>2
    <3>2. CASE parity = 0
      <4>1. PICK k \in 1 .. 16 : Prefix(j) = Prefix(k)
        BY PrefixesRecur
      <4>2. 2 * k \in 1 .. 32 /\ (2 * k) % 2 = 0 /\ (2 * k) \div 2 = k
        OBVIOUS
      <4> QED
        BY <2>3, <3>2, <4>1, <4>2
    <3> QED
      BY <3>1, <3>2
  <2> HIDE DEF Seen
  <2>6. Cardinality(Seen) = 10
    BY <2>4, <2>5, TenPrefixes
  <2> QED
    BY <2>6 DEF Seen
<1> QED
  BY <1>1, <1>2, AuditKept, CountsInvariance, PTL DEF Spec
=============================================================================
