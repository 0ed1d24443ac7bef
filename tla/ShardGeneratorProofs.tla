------------------------ MODULE ShardGeneratorProofs ------------------------
(***************************************************************************)
(* Proofs about the shard generator, for every node list, block size and   *)
(* throughput, and for operations of any number (Ops may be Nat); and      *)
(* about the chaos simulation, which calls it three times.                 *)
(***************************************************************************)
EXTENDS ChaosRebalance, FiniteSetTheorems, SequenceTheorems, TLAPS

\* Arithmetic the provers need to be led through.
LEMMA ProductIsNat == \A a, b \in Nat : a * b \in Nat
  OBVIOUS

LEMMA ProductMonotone ==
  ASSUME NEW a \in Nat, NEW b \in Nat, NEW c \in Nat, a <= b
  PROVE  a * c <= b * c
<1>1. b - a \in Nat
  OBVIOUS
<1>2. b * c = a * c + (b - a) * c
  OBVIOUS
<1>3. (b - a) * c \in Nat /\ a * c \in Nat
  BY <1>1, ProductIsNat
<1> QED
  BY <1>2, <1>3

\* The bytes of two different blocks are disjoint.
LEMMA BlocksApart ==
  ASSUME NEW a \in Nat, NEW b \in Nat, NEW c \in Nat, a < b
  PROVE  a * c + c <= b * c
<1>1. (a + 1) * c <= b * c
  BY ProductMonotone
<1>2. (a + 1) * c = a * c + c
  OBVIOUS
<1> QED
  BY <1>1, <1>2

\* Two different residues never meet, whatever the rounds.
LEMMA RoundsApart ==
  ASSUME NEW T \in Nat, NEW g \in Nat, NEW h \in Nat, g < T, h < T, g # h,
         NEW j \in Nat, NEW k \in Nat
  PROVE  g + j * T # h + k * T
<1>0. j * T \in Nat /\ k * T \in Nat
  BY ProductIsNat
<1>1. CASE j = k
  BY <1>0, <1>1
<1>2. CASE j < k
  <2>1. j * T + T <= k * T
    BY <1>2, BlocksApart
  <2> QED
    BY <2>1, <1>0
<1>3. CASE k < j
  <2>1. k * T + T <= j * T
    BY <1>3, BlocksApart
  <2> QED
    BY <2>1, <1>0
<1> QED
  BY <1>1, <1>2, <1>3

-----------------------------------------------------------------------------
\* Membership in the lists stored and the list under construction.
LEMMA Members ==
  ASSUME NEW sh, NEW ns, NEW x
  PROVE  x \in (UNION {sh[i] : i \in DOMAIN sh}) \cup ns
           <=> x \in ns \/ \E i \in DOMAIN sh : x \in sh[i]
  OBVIOUS

Member(x) == x \in nodeShards \/ \E i \in DOMAIN shards : x \in shards[i]

LEMMA MemberNow == \A x : x \in AllShards <=> Member(x)
  BY Members DEF AllShards, Member

LEMMA MemberNext == \A x : x \in AllShards' <=> Member(x)'
  BY Members DEF AllShards, Member

\* How far the partial sums are filled in.
Filled == IF phase = "sum" THEN position ELSE Len(nodes) + 1

Types ==
    /\ nodes \in Seq(NodeEntry)
    /\ target \in Nat
    /\ phase \in {"sum", "shard", "done"}
    /\ position \in 1 .. Len(nodes) + 1
    /\ before \in [1 .. Len(nodes) + 1 -> Nat]
    /\ totalCores \in Nat /\ localCore \in Nat /\ globalCoreIndex \in Nat

\* The partial sums add up to the total.
SumsRight ==
    /\ before[1] = 0
    /\ totalCores = before[Filled]
    /\ \A i \in 1 .. Len(nodes) :
          i < Filled => before[i + 1] = before[i] + nodes[i].cores
    /\ \A i \in 1 .. Filled : before[i] <= totalCores

\* The global core index counts the cores enumerated so far.
IndexRight ==
    IF phase = "sum"
    THEN /\ globalCoreIndex = 0 /\ localCore = 0
         /\ nodeShards = {} /\ DOMAIN shards = {}
    ELSE /\ globalCoreIndex = before[position] + localCore
         /\ IF position <= Len(nodes)
            THEN localCore <= nodes[position].cores
            ELSE localCore = 0
         /\ phase = "done" => position = Len(nodes) + 1

\* The shard of the core with global index g.
IsShardOf(s, g) ==
    /\ s.base = g * BlockSize
    /\ s.seed = SeedOf(g)
    /\ s.stride = totalCores * BlockSize
    /\ s.bps = PerCoreThroughput

ShardsRight ==
    /\ \A s \in AllShards : \E g \in Nat : g < globalCoreIndex /\ IsShardOf(s, g)
    /\ \A s, t \in AllShards : s.base = t.base => s = t

IInv == Types /\ SumsRight /\ IndexRight /\ ShardsRight

\* Where a call begins.
Begin ==
    /\ nodes \in Seq(NodeEntry) /\ target \in Nat
    /\ phase = "sum" /\ position = 1
    /\ before = [i \in 1 .. Len(nodes) + 1 |-> 0]
    /\ totalCores = 0 /\ localCore = 0 /\ globalCoreIndex = 0
    /\ nodeShards = {} /\ shards = <<>>

LEMMA InitBegins == Init => Begin
BY GeneratorAssumption DEF Init, Begin

LEMMA InitIInv == Begin => IInv
<1> SUFFICES ASSUME Begin PROVE IInv
  OBVIOUS
<1>1. Types
  BY DEF Begin, Types
<1>2. SumsRight /\ IndexRight
  BY <1>1 DEF Begin, SumsRight, IndexRight, Filled, Types
<1>3. AllShards = {}
  BY DEF Begin, AllShards
<1> QED
  BY <1>1, <1>2, <1>3 DEF IInv, ShardsRight

\* Nothing the shards are described by changes while cores are enumerated.
LEMMA ShardsKept ==
  ASSUME ShardsRight, AllShards' \subseteq AllShards,
         UNCHANGED <<globalCoreIndex, totalCores, target>>
  PROVE  ShardsRight'
  BY DEF ShardsRight, IsShardOf, PerCoreThroughput

\* A core adds its shard; a node that is stored adds none.
LEMMA AddCoreAdds == AddCore => AllShards' = AllShards \cup {Spec4Core}
<1> SUFFICES ASSUME AddCore PROVE AllShards' = AllShards \cup {Spec4Core}
  OBVIOUS
<1>1. nodeShards' = nodeShards \cup {Spec4Core} /\ shards' = shards
  BY DEF AddCore
<1> HIDE DEF Spec4Core
<1> QED
  BY <1>1, MemberNow, MemberNext DEF Member

LEMMA StoreNodeAddsNone == StoreNode => AllShards' \subseteq AllShards
<1> SUFFICES ASSUME StoreNode PROVE AllShards' \subseteq AllShards
  OBVIOUS
<1> DEFINE id == nodes[position].id
<1>1. /\ DOMAIN shards' = DOMAIN shards \cup {id}
      /\ \A i \in DOMAIN shards' : shards'[i] = IF i = id THEN nodeShards ELSE shards[i]
      /\ nodeShards' = {}
  BY DEF StoreNode, FreshNodeShards
<1> HIDE DEF id
<1>2. \A i \in DOMAIN shards' : shards'[i] \subseteq AllShards
  BY <1>1, MemberNow DEF Member
<1>3. AllShards' = UNION {shards'[i] : i \in DOMAIN shards'}
  BY <1>1 DEF AllShards
<1> QED
  BY <1>2, <1>3

LEMMA StepIInv == IInv /\ [Next]_vars => IInv'
<1> SUFFICES ASSUME IInv, [Next]_vars PROVE IInv'
  OBVIOUS
<1> USE DEF IInv
<1>n. \A i \in 1 .. Len(nodes) : nodes[i].cores \in Nat
  <2>1. \A i \in 1 .. Len(nodes) : nodes[i] \in NodeEntry
    BY DEF Types
  <2> QED
    BY <2>1 DEF NodeEntry
<1>1. CASE SumNode
  <2>1. Types'
    <3>1. totalCores' \in Nat
      BY <1>1, <1>n DEF SumNode, Types
    <3>2. before' \in [1 .. Len(nodes) + 1 -> Nat]
      BY <1>1, <3>1 DEF SumNode, Types
    <3>3. position' \in 1 .. Len(nodes) + 1
      BY <1>1 DEF SumNode, Types
    <3> QED
      BY <1>1, <3>1, <3>2, <3>3 DEF SumNode, Types
  <2>2. SumsRight'
    <3>1. Filled' = position + 1 /\ Filled = position
      BY <1>1 DEF SumNode, Filled
    <3>2. before'[position + 1] = totalCores'
          /\ \A i \in 1 .. position : before'[i] = before[i]
      BY <1>1 DEF SumNode, Types
    <3>3. totalCores' = totalCores + nodes[position].cores
          /\ totalCores' >= totalCores
      BY <1>1, <1>n DEF SumNode, Types
    <3>4. \A i \in 1 .. position : before[i] <= totalCores'
      BY <3>1, <3>3 DEF SumsRight, Types
    <3> QED
      BY <1>1, <3>1, <3>2, <3>3, <3>4 DEF SumNode, SumsRight, Types
  <2>3. IndexRight'
    BY <1>1 DEF SumNode, IndexRight
  <2>4. ShardsRight'
    <3>1. AllShards' = {}
      BY <1>1 DEF SumNode, AllShards, IndexRight
    <3> QED
      BY <3>1 DEF ShardsRight
  <2> QED
    BY <2>1, <2>2, <2>3, <2>4
<1>2. CASE StartSharding
  <2>1. Types'
    BY <1>2 DEF StartSharding, Types
  <2>2. SumsRight'
    <3>1. position = Len(nodes) + 1 /\ Filled = position /\ Filled' = Filled
      BY <1>2 DEF StartSharding, Filled, Types
    <3> QED
      BY <1>2, <3>1 DEF StartSharding, SumsRight
  <2>3. IndexRight'
    BY <1>2, <1>n DEF StartSharding, IndexRight, SumsRight, Types
  <2>4. AllShards' = AllShards
    BY <1>2 DEF StartSharding, AllShards
  <2> QED
    BY <1>2, <2>1, <2>2, <2>3, <2>4, ShardsKept DEF StartSharding
<1>3. CASE AddCore
  <2>1. Types'
    BY <1>3 DEF AddCore, Types
  <2>2. SumsRight'
    BY <1>3 DEF AddCore, SumsRight, Filled
  <2>3. IndexRight'
    <3>1. /\ phase = "shard" /\ phase' = phase /\ position' = position /\ before' = before
          /\ nodes' = nodes /\ position <= Len(nodes)
          /\ localCore' = localCore + 1 /\ localCore < nodes[position].cores
          /\ globalCoreIndex' = globalCoreIndex + 1
      BY <1>3 DEF AddCore
    <3>2. localCore \in Nat /\ before[position] \in Nat /\ nodes[position].cores \in Nat
      BY <1>n, <3>1 DEF Types
    <3>3. globalCoreIndex = before[position] + localCore
      BY <3>1 DEF IndexRight
    <3>4. globalCoreIndex' = before'[position'] + localCore'
      BY <3>1, <3>2, <3>3
    <3>5. localCore' <= nodes'[position'].cores
      BY <3>1, <3>2
    <3> QED
      BY <3>1, <3>4, <3>5 DEF IndexRight
  <2>4. ShardsRight'
    <3>1. AllShards' = AllShards \cup {Spec4Core}
      BY <1>3, AddCoreAdds
    <3>2. IsShardOf(Spec4Core, globalCoreIndex)
      BY DEF IsShardOf, Spec4Core, WorkerSeed, Base, Stride
    <3>3. globalCoreIndex' = globalCoreIndex + 1 /\ globalCoreIndex \in Nat
          /\ PerCoreThroughput' = PerCoreThroughput
      BY <1>3 DEF AddCore, Types, PerCoreThroughput
    <3>4. \A s \in AllShards : s.base # Spec4Core.base
      <4> SUFFICES ASSUME NEW g \in Nat, g < globalCoreIndex
                   PROVE  g * BlockSize # globalCoreIndex * BlockSize
        BY <3>2 DEF ShardsRight, IsShardOf
      <4>1. g * BlockSize + BlockSize <= globalCoreIndex * BlockSize
        BY <3>3, BlocksApart, GeneratorAssumption
      <4>2. g * BlockSize \in Nat /\ globalCoreIndex * BlockSize \in Nat
        BY <3>3, ProductIsNat, GeneratorAssumption
      <4> QED
        BY <4>1, <4>2, GeneratorAssumption
    <3>5. \A s \in AllShards' : \E g \in Nat : g < globalCoreIndex' /\ IsShardOf(s, g)'
      <4>1. \A s, g : IsShardOf(s, g)' <=> IsShardOf(s, g)
        BY <1>3, <3>3 DEF AddCore, IsShardOf
      <4>2. \A g \in Nat : g < globalCoreIndex => g < globalCoreIndex'
        BY <3>3
      <4>3. globalCoreIndex < globalCoreIndex'
        BY <3>3
      <4> QED
        BY <3>1, <3>2, <3>3, <4>1, <4>2, <4>3 DEF ShardsRight
    <3>6. \A s, t \in AllShards' : s.base = t.base => s = t
      BY <3>1, <3>4 DEF ShardsRight
    <3> QED
      BY <3>5, <3>6 DEF ShardsRight
  <2> QED
    BY <2>1, <2>2, <2>3, <2>4
<1>4. CASE StoreNode
  <2>1. Types'
    BY <1>4 DEF StoreNode, Types
  <2>2. SumsRight'
    BY <1>4 DEF StoreNode, SumsRight, Filled
  <2>3. IndexRight'
    <3>1. globalCoreIndex = before[position + 1]
      BY <1>4, <1>n DEF StoreNode, IndexRight, SumsRight, Filled, Types
    <3>2. 0 <= nodes[position + 1].cores \/ position + 1 > Len(nodes)
      BY <1>4, <1>n DEF StoreNode, Types
    <3> QED
      BY <1>4, <1>n, <3>1, <3>2 DEF StoreNode, IndexRight, Types
  <2>4. AllShards' \subseteq AllShards
    BY <1>4, StoreNodeAddsNone
  <2> QED
    BY <1>4, <2>1, <2>2, <2>3, <2>4, ShardsKept DEF StoreNode
<1>5. CASE Return
  <2>1. Types' /\ SumsRight' /\ IndexRight'
    BY <1>5 DEF Return, Types, SumsRight, Filled, IndexRight
  <2>2. AllShards' = AllShards
    BY <1>5 DEF Return, AllShards
  <2> QED
    BY <1>5, <2>1, <2>2, ShardsKept DEF Return
<1>6. CASE UNCHANGED vars
  <2>1. Types' /\ SumsRight' /\ IndexRight'
    BY <1>6 DEF vars, Types, SumsRight, Filled, IndexRight
  <2>2. AllShards' = AllShards
    BY <1>6 DEF vars, AllShards
  <2> QED
    BY <1>6, <2>1, <2>2, ShardsKept DEF vars
<1> QED
  BY <1>1, <1>2, <1>3, <1>4, <1>5, <1>6 DEF Next

THEOREM Invariance == Spec => []IInv
  BY InitBegins, InitIInv, StepIInv, PTL DEF Spec

-----------------------------------------------------------------------------
\* Every shard belongs to a core below the total.
LEMMA ShardInRange ==
  ASSUME IInv, NEW s \in AllShards
  PROVE  \E g \in Nat : g < totalCores /\ IsShardOf(s, g)
<1>1. PICK g \in Nat : g < globalCoreIndex /\ IsShardOf(s, g)
  BY DEF IInv, ShardsRight
<1>2. globalCoreIndex <= totalCores
  <2>1. CASE phase = "sum"
    BY <2>1 DEF IInv, IndexRight, Types
  <2>2. CASE phase # "sum" /\ position <= Len(nodes)
    <3>1. before[position + 1] = before[position] + nodes[position].cores
          /\ before[position + 1] <= totalCores
      BY <2>2 DEF IInv, SumsRight, Filled, Types
    <3>2. nodes[position].cores \in Nat
      <4>1. nodes[position] \in NodeEntry
        BY <2>2 DEF IInv, Types
      <4> QED
        BY <4>1 DEF NodeEntry
    <3> QED
      BY <2>2, <3>1, <3>2 DEF IInv, IndexRight, Types
  <2>3. CASE phase # "sum" /\ position = Len(nodes) + 1
    BY <2>3 DEF IInv, IndexRight, SumsRight, Filled, Types
  <2> QED
    BY <2>1, <2>2, <2>3 DEF IInv, Types
<1> QED
  BY <1>1, <1>2 DEF IInv, Types

\* Every shard is a WorkerShardSpec of a node of the list.
Ids == {nodes[i].id : i \in 1 .. Len(nodes)}
Records ==
    /\ nodes \in NodeLists /\ target \in Throughputs
    /\ DOMAIN shards \subseteq Ids
    /\ \A s \in AllShards :
          s \in [node_id : Ids, core_id : Nat, seed : {SeedOf(i) : i \in 0 .. totalCores - 1},
                 base : Nat, stride : Nat, bps : Nat]

LEMMA QuotientIsNat == \A a \in Nat, b \in Nat \ {0} : a \div b \in Nat
  OBVIOUS

LEMMA StepRecords ==
  ASSUME IInv, IInv', Records, [Next]_vars
  PROVE  Records'
<1>1. CASE AddCore
  <2>1. /\ UNCHANGED <<nodes, target, totalCores, shards, phase, position, before>>
        /\ nodeShards' = nodeShards \cup {Spec4Core}
        /\ position \in 1 .. Len(nodes) /\ globalCoreIndex' = globalCoreIndex + 1
    BY <1>1 DEF AddCore, IInv, Types
  <2>2. AllShards' = AllShards \cup {Spec4Core}
    BY <1>1, AddCoreAdds
  <2>3. /\ globalCoreIndex \in Nat /\ totalCores \in Nat /\ localCore \in Nat
        /\ target \in Nat /\ BlockSize \in Nat
    BY GeneratorAssumption DEF IInv, Types
  <2>4. globalCoreIndex < totalCores
    <3>1. before[position + 1] <= totalCores
          /\ before[position + 1] = before[position] + nodes[position].cores
          /\ before[position] \in Nat
      BY <1>1, <2>1 DEF AddCore, IInv, SumsRight, Filled, Types
    <3>2. nodes[position].cores \in Nat
      <4>1. nodes[position] \in NodeEntry
        BY <2>1 DEF IInv, Types
      <4> QED
        BY <4>1 DEF NodeEntry
    <3>3. globalCoreIndex = before[position] + localCore /\ localCore < nodes[position].cores
      BY <1>1 DEF AddCore, IInv, IndexRight
    <3> QED
      BY <2>3, <3>1, <3>2, <3>3
  <2>5. /\ Base \in Nat /\ Stride \in Nat /\ PerCoreThroughput \in Nat
        /\ WorkerSeed \in {SeedOf(i) : i \in 0 .. totalCores - 1}
        /\ nodes[position].id \in Ids
    BY <2>1, <2>3, <2>4, ProductIsNat, QuotientIsNat
       DEF Base, Stride, PerCoreThroughput, WorkerSeed, Ids
  <2>6. Spec4Core \in [node_id : Ids, core_id : Nat,
                       seed : {SeedOf(i) : i \in 0 .. totalCores - 1},
                       base : Nat, stride : Nat, bps : Nat]
    BY <2>3, <2>5 DEF Spec4Core
  <2> HIDE DEF Spec4Core
  <2>7. Ids' = Ids
    BY <2>1 DEF Ids
  <2> QED
    BY <2>1, <2>2, <2>6, <2>7 DEF Records
<1>2. CASE SumNode
  <2>1. UNCHANGED <<nodes, target, shards>> /\ AllShards' = {}
    BY <1>2 DEF SumNode, AllShards, IInv, IndexRight
  <2>2. Ids' = Ids
    BY <2>1 DEF Ids
  <2> QED
    BY <2>1, <2>2 DEF Records
<1>3. CASE StoreNode
  <2> DEFINE id == nodes[position].id
  <2>1. /\ DOMAIN shards' = DOMAIN shards \cup {id}
        /\ \A i \in DOMAIN shards' : shards'[i] = IF i = id THEN nodeShards ELSE shards[i]
        /\ nodeShards' = {} /\ UNCHANGED <<nodes, target, totalCores>>
    BY <1>3 DEF StoreNode, FreshNodeShards
  <2>2. Ids' = Ids /\ id \in Ids
    BY <1>3, <2>1 DEF Ids, StoreNode, IInv, Types
  <2> HIDE DEF id
  <2>3. AllShards' \subseteq AllShards
    BY <1>3, StoreNodeAddsNone
  <2> QED
    BY <2>1, <2>2, <2>3 DEF Records
<1>4. CASE StartSharding \/ Return \/ UNCHANGED vars
  <2>1. UNCHANGED <<nodes, target, shards, nodeShards, totalCores>>
    BY <1>4 DEF StartSharding, Return, vars
  <2>2. AllShards' = AllShards /\ Ids' = Ids
    BY <2>1 DEF AllShards, Ids
  <2> QED
    BY <2>1, <2>2 DEF Records
<1> QED
  BY <1>1, <1>2, <1>3, <1>4 DEF Next

\* The variables of the generator and the fields of its shards have their types.
THEOREM TypeCorrect == Spec => []TypeOK
<1>1. Init => Records
  BY DEF Init, Records, AllShards
<1>2. IInv /\ Records => TypeOK
  BY DEF IInv, Types, Records, Ids, TypeOK
<1>3. IInv /\ IInv' /\ Records /\ [Next]_vars => Records'
  BY StepRecords
<1> QED
  BY <1>1, <1>2, <1>3, Invariance, PTL DEF Spec

\* The offset of an operation, in blocks.
LEMMA BlockNumber ==
  ASSUME IInv, NEW s, NEW g \in Nat, IsShardOf(s, g), NEW k \in Nat
  PROVE  /\ g + k * totalCores \in Nat
         /\ BlockOf(s, k) = (g + k * totalCores) * BlockSize
<1>1. /\ totalCores \in Nat /\ BlockSize \in Nat /\ k * totalCores \in Nat
  BY ProductIsNat, GeneratorAssumption DEF IInv, Types
<1>2. k * (totalCores * BlockSize) = (k * totalCores) * BlockSize
  BY <1>1
<1>3. g * BlockSize + (k * totalCores) * BlockSize = (g + k * totalCores) * BlockSize
  BY <1>1
<1> QED
  BY <1>1, <1>2, <1>3 DEF BlockOf, IsShardOf

\* The blocks of two global core indices are apart.
LEMMA Apart == IInv => NoOverlap
<1> SUFFICES ASSUME IInv, NEW s \in AllShards, NEW t \in AllShards, s # t,
                    NEW j \in Ops, NEW k \in Ops
             PROVE  \/ BlockOf(s, j) + BlockSize <= BlockOf(t, k)
                    \/ BlockOf(t, k) + BlockSize <= BlockOf(s, j)
  BY DEF NoOverlap
<1>0. j \in Nat /\ k \in Nat /\ BlockSize \in Nat /\ totalCores \in Nat
  BY GeneratorAssumption DEF IInv, Types
<1>1. PICK g \in Nat : g < totalCores /\ IsShardOf(s, g)
  BY ShardInRange
<1>2. PICK h \in Nat : h < totalCores /\ IsShardOf(t, h)
  BY ShardInRange
<1>3. g # h
  BY <1>1, <1>2 DEF IInv, ShardsRight, IsShardOf
<1> DEFINE m == g + j * totalCores
           n == h + k * totalCores
<1>4. m # n
  BY <1>0, <1>1, <1>2, <1>3, RoundsApart
<1>5. m \in Nat /\ BlockOf(s, j) = m * BlockSize
  BY <1>0, <1>1, BlockNumber
<1>6. n \in Nat /\ BlockOf(t, k) = n * BlockSize
  BY <1>0, <1>2, BlockNumber
<1> HIDE DEF m, n
<1>7. CASE m < n
  BY <1>0, <1>5, <1>6, <1>7, BlocksApart
<1>8. CASE n < m
  BY <1>0, <1>5, <1>6, <1>8, BlocksApart
<1> QED
  BY <1>4, <1>5, <1>6, <1>7, <1>8

\* No two workers of the cluster ever touch a common byte, for clusters of any
\* size, any block size and arbitrarily long runs.
THEOREM NeverOverlap == Spec => []NoOverlap
<1> QED
  BY Apart, Invariance, PTL

\* When the seed hash is one-to-one below the largest core count of the
\* inputs, no two workers get the same seed.
THEOREM SeedsNeverCollide ==
  ASSUME NEW N \in Nat,
         \A i, j \in 0 .. N - 1 : SeedOf(i) = SeedOf(j) => i = j
  PROVE  Spec /\ [](totalCores <= N) => []SeedsDistinct
<1>1. IInv /\ totalCores <= N => SeedsDistinct
  <2> SUFFICES ASSUME IInv, totalCores <= N, NEW s \in AllShards, NEW t \in AllShards,
                      s.seed = t.seed
               PROVE  s = t
    BY DEF SeedsDistinct
  <2>1. PICK g \in Nat : g < totalCores /\ IsShardOf(s, g)
    BY ShardInRange
  <2>2. PICK h \in Nat : h < totalCores /\ IsShardOf(t, h)
    BY ShardInRange
  <2>3. g \in 0 .. N - 1 /\ h \in 0 .. N - 1
    BY <2>1, <2>2 DEF IInv, Types
  <2>4. g = h
    BY <2>1, <2>2, <2>3 DEF IsShardOf
  <2> QED
    BY <2>1, <2>2, <2>4 DEF IInv, ShardsRight, IsShardOf
<1> QED
  BY <1>1, Invariance, PTL

\* The rates of all the workers together stay within the target.
THEOREM RatesBounded == Spec => []ThroughputBounded
<1>1. IInv => ThroughputBounded
  <2> SUFFICES ASSUME IInv, NEW s \in AllShards
               PROVE  s.bps * totalCores <= target
    BY DEF ThroughputBounded
  <2>1. PICK g \in Nat : g < totalCores /\ IsShardOf(s, g)
    BY ShardInRange
  <2>2. totalCores \in Nat \ {0} /\ target \in Nat
    BY <2>1 DEF IInv, Types
  <2>3. s.bps = target \div totalCores
    BY <2>1, <2>2 DEF IsShardOf, PerCoreThroughput
  <2>4. \A t \in Nat, c \in Nat \ {0} : (t \div c) * c <= t
    OBVIOUS
  <2> QED
    BY <2>2, <2>3, <2>4
<1> QED
  BY <1>1, Invariance, PTL

-----------------------------------------------------------------------------
\* With distinct ids, every core enumerated so far has its shard.
Stored == DOMAIN shards = {nodes[i].id : i \in {j \in 1 .. Len(nodes) :
                                                 phase # "sum" /\ j < position}}
Covered ==
    \A g \in Nat : g < globalCoreIndex => \E s \in AllShards : IsShardOf(s, g)
CInv == Stored /\ (UniqueIds => Covered)

LEMMA StepCInv == IInv /\ CInv /\ [Next]_vars => CInv'
<1> SUFFICES ASSUME IInv, CInv, [Next]_vars PROVE CInv'
  OBVIOUS
<1>1. CASE SumNode
  <2>1. Stored'
    BY <1>1 DEF SumNode, CInv, Stored
  <2>2. globalCoreIndex' = 0
    BY <1>1 DEF SumNode, IInv, IndexRight
  <2> QED
    BY <2>1, <2>2 DEF CInv, Covered
<1>2. CASE StartSharding
  <2>1. Stored'
    BY <1>2 DEF StartSharding, CInv, Stored, IInv, Types
  <2>2. globalCoreIndex' = 0
    BY <1>2 DEF StartSharding, IInv, IndexRight
  <2> QED
    BY <2>1, <2>2 DEF CInv, Covered
<1>3. CASE AddCore
  <2>1. Stored'
    BY <1>3 DEF AddCore, CInv, Stored
  <2>2. ASSUME UniqueIds' PROVE Covered'
    <3>1. Covered
      BY <1>3, <2>2 DEF AddCore, UniqueIds, CInv
    <3>2. AllShards \subseteq AllShards' /\ Spec4Core \in AllShards'
      <4>1. nodeShards' = nodeShards \cup {Spec4Core} /\ shards' = shards
        BY <1>3 DEF AddCore
      <4> HIDE DEF Spec4Core
      <4> QED
        BY <4>1, MemberNow, MemberNext DEF Member
    <3>3. IsShardOf(Spec4Core, globalCoreIndex)
      BY DEF IsShardOf, Spec4Core, WorkerSeed, Base, Stride
    <3>4. \A s, g : IsShardOf(s, g)' <=> IsShardOf(s, g)
      BY <1>3 DEF AddCore, IsShardOf, PerCoreThroughput
    <3>5. \A g \in Nat : g < globalCoreIndex' => g < globalCoreIndex \/ g = globalCoreIndex
      BY <1>3 DEF AddCore, IInv, Types
    <3> QED
      BY <3>1, <3>2, <3>3, <3>4, <3>5 DEF Covered
  <2> QED
    BY <2>1, <2>2 DEF CInv
<1>4. CASE StoreNode
  <2> DEFINE id == nodes[position].id
  <2>1. /\ DOMAIN shards' = DOMAIN shards \cup {id}
        /\ \A i \in DOMAIN shards' : shards'[i] = IF i = id THEN nodeShards ELSE shards[i]
        /\ position' = position + 1 /\ position <= Len(nodes)
        /\ UNCHANGED <<nodes, phase, globalCoreIndex, totalCores, target>>
        /\ phase = "shard"
    BY <1>4 DEF StoreNode
  <2>2. Stored'
    <3>1. \A j \in 1 .. Len(nodes) : j < position + 1 <=> j < position \/ j = position
      BY DEF IInv, Types
    <3>2. position \in 1 .. Len(nodes)
      BY <2>1 DEF IInv, Types
    <3> QED
      BY <2>1, <3>1, <3>2 DEF CInv, Stored
  <2>3. ASSUME UniqueIds' PROVE Covered'
    <3>1. UniqueIds /\ Covered
      BY <2>1, <2>3 DEF UniqueIds, CInv
    <3>2. id \notin DOMAIN shards
      <4>1. position \in 1 .. Len(nodes)
        BY <2>1 DEF IInv, Types
      <4>2. \A j \in 1 .. Len(nodes) : j < position => j # position
        BY <4>1
      <4>3. \A j \in 1 .. Len(nodes) : j < position => nodes[j].id # id
        BY <3>1, <4>1, <4>2 DEF UniqueIds
      <4> QED
        BY <4>3 DEF CInv, Stored
    <3> HIDE DEF id
    <3>3. AllShards \subseteq AllShards'
      <4>1. \A i \in DOMAIN shards : i \in DOMAIN shards' /\ shards'[i] = shards[i]
        BY <2>1, <3>2
      <4>2. id \in DOMAIN shards' /\ shards'[id] = nodeShards
        BY <2>1
      <4> QED
        BY <4>1, <4>2, MemberNow, MemberNext DEF Member
    <3>4. \A s, g : IsShardOf(s, g)' <=> IsShardOf(s, g)
      BY <2>1 DEF IsShardOf, PerCoreThroughput
    <3> QED
      BY <2>1, <3>1, <3>3, <3>4 DEF Covered
  <2> QED
    BY <2>2, <2>3 DEF CInv
<1>5. CASE Return \/ UNCHANGED vars
  <2>1. UNCHANGED <<nodes, target, position, totalCores, globalCoreIndex, nodeShards, shards>>
        /\ (phase # "sum" <=> phase' # "sum")
    BY <1>5 DEF Return, vars
  <2>2. AllShards' = AllShards
    BY <2>1 DEF AllShards
  <2>3. \A s, g : IsShardOf(s, g)' <=> IsShardOf(s, g)
    BY <2>1 DEF IsShardOf, PerCoreThroughput
  <2>4. Stored'
    BY <2>1 DEF CInv, Stored
  <2>5. UniqueIds' <=> UniqueIds
    BY <2>1 DEF UniqueIds
  <2>6. Covered => Covered'
    BY <2>1, <2>2, <2>3 DEF Covered
  <2> QED
    BY <2>4, <2>5, <2>6 DEF CInv
<1> QED
  BY <1>1, <1>2, <1>3, <1>4, <1>5 DEF Next

LEMMA Gapless == IInv /\ CInv => NoGap
<1> SUFFICES ASSUME IInv, CInv, phase = "done", UniqueIds,
                    NEW k \in Ops, NEW b \in 0 .. totalCores - 1
             PROVE  \E s \in AllShards :
                       BlockOf(s, k) = (k * totalCores + b) * BlockSize
  BY DEF NoGap
<1>1. globalCoreIndex = totalCores
  BY DEF IInv, IndexRight, SumsRight, Filled, Types
<1>2. b \in Nat /\ b < totalCores /\ k \in Nat /\ k * totalCores \in Nat
  BY GeneratorAssumption, ProductIsNat DEF IInv, Types
<1>3. PICK s \in AllShards : IsShardOf(s, b)
  BY <1>1, <1>2 DEF CInv, Covered
<1>4. BlockOf(s, k) = (b + k * totalCores) * BlockSize
  BY <1>2, <1>3, BlockNumber
<1>5. b + k * totalCores = k * totalCores + b
  BY <1>2
<1> QED
  BY <1>3, <1>4, <1>5

\* When the ids are distinct, every block of every round belongs to a worker.
THEOREM NeverGap == Spec => []NoGap
<1>1. Init => CInv
  BY DEF Init, CInv, Stored, Covered
<1> QED
  BY <1>1, Gapless, StepCInv, Invariance, PTL DEF Spec
-----------------------------------------------------------------------------
\* The list of a node: one shard for each of its first n cores, under its id.
HasCores(list, id, n) ==
    /\ \A s \in list : s.node_id = id /\ s.core_id \in 0 .. n - 1
    /\ \A c \in 0 .. n - 1 : \E s \in list : s.core_id = c

\* The list under construction, and the lists stored when no id is repeated.
Numbered ==
    /\ phase = "shard" /\ position <= Len(nodes)
          => HasCores(nodeShards, nodes[position].id, localCore)
    /\ phase # "sum" /\ UniqueIds
          => \A j \in 1 .. Len(nodes) :
                j < position => HasCores(shards[nodes[j].id], nodes[j].id, nodes[j].cores)

LEMMA StepNumbered == IInv /\ CInv /\ Numbered /\ [Next]_vars => Numbered'
<1> SUFFICES ASSUME IInv, CInv, Numbered, [Next]_vars PROVE Numbered'
  OBVIOUS
<1>t. position \in 1 .. Len(nodes) + 1 /\ localCore \in Nat
  BY DEF IInv, Types
<1>1. CASE SumNode
  BY <1>1 DEF SumNode, Numbered
<1>2. CASE StartSharding
  <2>1. phase' = "shard" /\ position' = 1 /\ nodeShards' = {} /\ localCore' = 0
    BY <1>2 DEF StartSharding, IInv, IndexRight
  <2> QED
    BY <2>1 DEF Numbered, HasCores
<1>3. CASE AddCore
  <2>1. /\ UNCHANGED <<nodes, phase, position, shards>>
        /\ phase = "shard" /\ position <= Len(nodes)
        /\ nodeShards' = nodeShards \cup {Spec4Core} /\ localCore' = localCore + 1
    BY <1>3 DEF AddCore
  <2>2. Spec4Core.node_id = nodes[position].id /\ Spec4Core.core_id = localCore
    BY DEF Spec4Core
  <2> HIDE DEF Spec4Core
  <2>3. HasCores(nodeShards, nodes[position].id, localCore)
    BY <2>1 DEF Numbered
  <2>4. HasCores(nodeShards', nodes[position].id, localCore + 1)
    BY <1>t, <2>1, <2>2, <2>3 DEF HasCores
  <2> QED
    BY <2>1, <2>4 DEF Numbered, UniqueIds
<1>4. CASE StoreNode
  <2> DEFINE id == nodes[position].id
  <2>1. /\ UNCHANGED <<nodes, phase>> /\ phase = "shard"
        /\ position <= Len(nodes) /\ position' = position + 1
        /\ localCore = nodes[position].cores /\ localCore' = 0 /\ nodeShards' = {}
        /\ shards' = [i \in DOMAIN shards \cup {id} |-> IF i = id THEN nodeShards ELSE shards[i]]
    BY <1>4 DEF StoreNode, FreshNodeShards
  <2>2. HasCores(nodeShards, id, nodes[position].cores)
    BY <2>1 DEF Numbered
  <2>3. ASSUME UniqueIds, NEW j \in 1 .. Len(nodes), j < position + 1
        PROVE  HasCores(shards'[nodes[j].id], nodes[j].id, nodes[j].cores)
    <3>1. CASE j = position
      BY <2>1, <2>2, <3>1
    <3>2. CASE j < position
      <4>1. nodes[j].id # id
        BY <1>t, <2>1, <2>3, <3>2 DEF UniqueIds
      <4>2. nodes[j].id \in DOMAIN shards
        BY <2>1, <3>2 DEF CInv, Stored
      <4>3. HasCores(shards[nodes[j].id], nodes[j].id, nodes[j].cores)
        BY <2>1, <2>3, <3>2 DEF Numbered
      <4> QED
        BY <2>1, <4>1, <4>2, <4>3
    <3> QED
      BY <1>t, <2>3, <3>1, <3>2
  <2>4. HasCores({}, nodes'[position'].id, 0)
    BY DEF HasCores
  <2> QED
    BY <2>1, <2>3, <2>4 DEF Numbered, UniqueIds
<1>5. CASE Return \/ UNCHANGED vars
  BY <1>5 DEF Return, vars, Numbered, UniqueIds
<1> QED
  BY <1>1, <1>2, <1>3, <1>4, <1>5 DEF Next

THEOREM ListsNumbered == Spec => [](CInv /\ Numbered)
<1>1. Init => CInv /\ Numbered
  BY DEF Init, CInv, Stored, Covered, Numbered
<1> QED
  BY <1>1, StepCInv, StepNumbered, Invariance, PTL DEF Spec

\* With distinct ids, every node is given exactly its cores.
THEOREM AllCoresListed == Spec => []CoresComplete
<1>1. IInv /\ Numbered => CoresComplete
  <2> SUFFICES ASSUME IInv, Numbered, phase = "done", UniqueIds, NEW i \in 1 .. Len(nodes)
               PROVE  {s.core_id : s \in shards[nodes[i].id]} = 0 .. nodes[i].cores - 1
    BY DEF CoresComplete
  <2>1. i < position
    BY DEF IInv, IndexRight, Types
  <2>2. HasCores(shards[nodes[i].id], nodes[i].id, nodes[i].cores)
    BY <2>1 DEF Numbered
  <2> QED
    BY <2>2 DEF HasCores
<1> QED
  BY <1>1, ListsNumbered, Invariance, PTL

-----------------------------------------------------------------------------
(* Which shard is whose. *)

\* The shard of core c of the j-th node, counted on from the cores before it.
CoreSpec(list, sums, total, bound, j, c) ==
    [node_id |-> list[j].id, core_id |-> c, seed |-> SeedOf(sums[j] + c),
     base |-> (sums[j] + c) * BlockSize, stride |-> total * BlockSize,
     bps |-> IF total = 0 THEN 0 ELSE bound \div total]
CoreSpecs(list, sums, total, bound, j, n) ==
    {CoreSpec(list, sums, total, bound, j, c) : c \in 0 .. n - 1}

Placed ==
    /\ phase # "sum" =>
          nodeShards = IF position <= Len(nodes)
                       THEN CoreSpecs(nodes, before, totalCores, target, position, localCore)
                       ELSE {}
    /\ phase # "sum" /\ UniqueIds =>
          \A j \in 1 .. Len(nodes) :
             j < position =>
                shards[nodes[j].id] =
                   CoreSpecs(nodes, before, totalCores, target, j, nodes[j].cores)

LEMMA StepPlaced == IInv /\ CInv /\ Placed /\ [Next]_vars => Placed'
<1> SUFFICES ASSUME IInv, CInv, Placed, [Next]_vars PROVE Placed'
  OBVIOUS
<1>t. position \in 1 .. Len(nodes) + 1 /\ localCore \in Nat
  BY DEF IInv, Types
<1>e. \A list, sums, total, bound, j : CoreSpecs(list, sums, total, bound, j, 0) = {}
  BY DEF CoreSpecs
<1>1. CASE SumNode
  BY <1>1 DEF SumNode, Placed
<1>2. CASE StartSharding
  <2>1. phase' = "shard" /\ position' = 1 /\ nodeShards' = {} /\ localCore' = 0
    BY <1>2 DEF StartSharding, IInv, IndexRight
  <2> QED
    BY <1>t, <1>e, <2>1 DEF Placed
<1>3. CASE AddCore
  <2>1. /\ UNCHANGED <<nodes, target, before, totalCores, phase, position, shards>>
        /\ phase = "shard" /\ position <= Len(nodes)
        /\ nodeShards' = nodeShards \cup {Spec4Core} /\ localCore' = localCore + 1
    BY <1>3 DEF AddCore
  <2>2. Spec4Core = CoreSpec(nodes, before, totalCores, target, position, localCore)
    <3>1. globalCoreIndex = before[position] + localCore
      BY <2>1 DEF IInv, IndexRight
    <3> QED
      BY <3>1 DEF Spec4Core, CoreSpec, WorkerSeed, Base, Stride, PerCoreThroughput
  <2>3. CoreSpecs(nodes, before, totalCores, target, position, localCore + 1) =
           CoreSpecs(nodes, before, totalCores, target, position, localCore) \cup {Spec4Core}
    <3>1. 0 .. localCore + 1 - 1 = 0 .. localCore - 1 \cup {localCore}
      BY <1>t
    <3> HIDE DEF Spec4Core
    <3> QED
      BY <2>2, <3>1 DEF CoreSpecs
  <2>4. nodeShards' = CoreSpecs(nodes, before, totalCores, target, position, localCore + 1)
    BY <2>1, <2>3 DEF Placed
  <2>5. nodeShards' = CoreSpecs(nodes', before', totalCores', target', position', localCore')
    BY <2>1, <2>4
  <2> QED
    BY <2>1, <2>5 DEF Placed, UniqueIds
<1>4. CASE StoreNode
  <2> DEFINE id == nodes[position].id
  <2>1. /\ UNCHANGED <<nodes, target, before, totalCores, phase>> /\ phase = "shard"
        /\ position <= Len(nodes) /\ position' = position + 1
        /\ localCore = nodes[position].cores /\ localCore' = 0 /\ nodeShards' = {}
        /\ shards' = [i \in DOMAIN shards \cup {id} |-> IF i = id THEN nodeShards ELSE shards[i]]
    BY <1>4 DEF StoreNode, FreshNodeShards
  <2>2. nodeShards = CoreSpecs(nodes, before, totalCores, target, position, nodes[position].cores)
    BY <2>1 DEF Placed
  <2>3. ASSUME UniqueIds, NEW j \in 1 .. Len(nodes), j < position + 1
        PROVE  shards'[nodes[j].id] = CoreSpecs(nodes, before, totalCores, target, j, nodes[j].cores)
    <3>1. CASE j = position
      BY <2>1, <2>2, <3>1
    <3>2. CASE j < position
      <4>1. nodes[j].id # id
        BY <1>t, <2>1, <2>3, <3>2 DEF UniqueIds
      <4>2. nodes[j].id \in DOMAIN shards
        BY <2>1, <3>2 DEF CInv, Stored
      <4>3. shards[nodes[j].id] = CoreSpecs(nodes, before, totalCores, target, j, nodes[j].cores)
        BY <2>1, <2>3, <3>2 DEF Placed
      <4> QED
        BY <2>1, <4>1, <4>2, <4>3
    <3> QED
      BY <1>t, <2>3, <3>1, <3>2
  <2>4. CoreSpecs(nodes', before', totalCores', target', position', localCore') = {}
    BY <1>e, <2>1
  <2> QED
    BY <2>1, <2>3, <2>4 DEF Placed, UniqueIds
<1>5. CASE Return \/ UNCHANGED vars
  <2>1. UNCHANGED <<nodes, target, before, totalCores, position, localCore, nodeShards, shards>>
        /\ (phase' # "sum" <=> phase # "sum")
    BY <1>5 DEF Return, vars
  <2> QED
    BY <2>1 DEF Placed, UniqueIds
<1> QED
  BY <1>1, <1>2, <1>3, <1>4, <1>5 DEF Next

\* What one call of the generator keeps true, and is true when it begins.
CallInv == IInv /\ CInv /\ Placed

LEMMA BeginCallInv == Begin => CallInv
<1> SUFFICES ASSUME Begin PROVE CallInv
  OBVIOUS
<1>1. CInv
  BY DEF Begin, CInv, Stored, Covered
<1>2. Placed
  BY DEF Begin, Placed
<1> QED
  BY <1>1, <1>2, InitIInv DEF CallInv

LEMMA StepCallInv == CallInv /\ [Next]_vars => CallInv'
BY StepIInv, StepCInv, StepPlaced DEF CallInv

\* What a call of the generator returns for distinct ids.
Total(list, sums) == sums[Len(list) + 1]

SumsOf(list, sums) ==
    /\ sums[1] = 0 /\ \A i \in 1 .. Len(list) + 1 : sums[i] \in Nat
    /\ \A i \in 1 .. Len(list) : sums[i + 1] = sums[i] + list[i].cores
    /\ \A i \in 1 .. Len(list) + 1 : sums[i] <= Total(list, sums)

MapOf(map, list, sums, bound) ==
    /\ DOMAIN map = {list[j].id : j \in 1 .. Len(list)}
    /\ \A j \in 1 .. Len(list) :
          map[list[j].id] = CoreSpecs(list, sums, Total(list, sums), bound, j, list[j].cores)

LEMMA Returned ==
  ASSUME CallInv, phase = "done", UniqueIds
  PROVE  /\ SumsOf(nodes, before) /\ MapOf(shards, nodes, before, target)
         /\ totalCores = Total(nodes, before)
<1>1. /\ position = Len(nodes) + 1 /\ Len(nodes) \in Nat /\ Filled = Len(nodes) + 1
      /\ before \in [1 .. Len(nodes) + 1 -> Nat]
  BY LenProperties DEF CallInv, IInv, IndexRight, Types, Filled
<1>2. totalCores = Total(nodes, before)
  BY <1>1 DEF CallInv, IInv, SumsRight, Total
<1>3. SumsOf(nodes, before)
  BY <1>1, <1>2 DEF CallInv, IInv, SumsRight, SumsOf
<1>4. DOMAIN shards = {nodes[j].id : j \in 1 .. Len(nodes)}
  BY <1>1 DEF CallInv, CInv, Stored
<1>5. \A j \in 1 .. Len(nodes) :
         shards[nodes[j].id] = CoreSpecs(nodes, before, totalCores, target, j, nodes[j].cores)
  BY <1>1 DEF CallInv, Placed
<1> QED
  BY <1>2, <1>3, <1>4, <1>5 DEF MapOf

\* The first blocks of the shards are as many as the shards, and without a gap.
LEMMA OffsetsReturned ==
  ASSUME CallInv, phase = "done", UniqueIds
  PROVE  UniqueOffsets(shards) /\ Contiguous(shards)
<1> DEFINE S == ShardsOf(shards)
           B == {s.base : s \in S}
           N == 0 .. totalCores - 1
<1>0. totalCores \in Nat /\ BlockSize \in Nat /\ BlockSize > 0
  BY GeneratorAssumption DEF CallInv, IInv, Types
<1>1. AllShards = S
  <2>1. nodeShards = {}
    BY DEF CallInv, IInv, Types, IndexRight, Placed
  <2> QED
    BY <2>1 DEF AllShards, ShardsOf
<1>2. \A s \in S : \E g \in N : s.base = g * BlockSize
  <2> SUFFICES ASSUME NEW s \in AllShards PROVE \E g \in N : s.base = g * BlockSize
    BY <1>1
  <2>1. PICK g \in Nat : g < totalCores /\ IsShardOf(s, g)
    BY ShardInRange DEF CallInv
  <2> QED
    BY <1>0, <2>1 DEF IsShardOf
<1>3. \A g \in N : \E s \in S : s.base = g * BlockSize
  <2>1. globalCoreIndex = totalCores
    BY DEF CallInv, IInv, IndexRight, SumsRight, Filled, Types
  <2> SUFFICES ASSUME NEW g \in N PROVE \E s \in S : s.base = g * BlockSize
    OBVIOUS
  <2>2. PICK s \in AllShards : IsShardOf(s, g)
    BY <1>0, <2>1 DEF CallInv, CInv, Covered
  <2> QED
    BY <1>1, <2>2 DEF IsShardOf
<1>4. \A s, t \in S : s.base = t.base => s = t
  BY <1>1 DEF CallInv, IInv, ShardsRight
<1>5. \A g, h \in N : g * BlockSize = h * BlockSize => g = h
  <2> SUFFICES ASSUME NEW g \in N, NEW h \in N, g < h
               PROVE  g * BlockSize # h * BlockSize
    OBVIOUS
  <2>1. g * BlockSize + BlockSize <= h * BlockSize
    BY <1>0, BlocksApart
  <2>2. g * BlockSize \in Nat /\ h * BlockSize \in Nat
    BY <1>0, ProductIsNat
  <2> QED
    BY <1>0, <2>1, <2>2
<1>6. IsFiniteSet(N) /\ Cardinality(N) = totalCores
  BY <1>0, FS_Interval
<1>7. B = {g * BlockSize : g \in N}
  <2> HIDE DEF N, S
  <2> QED
    BY <1>2, <1>3
<1>8. IsFiniteSet(B) /\ Cardinality(B) = totalCores
  <2> DEFINE f == [g \in N |-> g * BlockSize]
  <2> HIDE DEF N, S
  <2>1. f \in Bijection(N, B)
    BY <1>5, <1>7 DEF Bijection, Injection, IsInjective, Surjection
  <2> HIDE DEF f, B
  <2> QED
    BY <1>6, <2>1, FS_Bijection DEF ExistsBijection
<1>9. Cardinality(S) = totalCores
  <2> DEFINE f == [s \in S |-> s.base]
  <2> HIDE DEF S
  <2>1. f \in Injection(S, B) /\ f \in Surjection(S, B)
    BY <1>4 DEF Injection, IsInjective, Surjection
  <2> HIDE DEF f, B
  <2> QED
    BY <1>8, <2>1, FS_Injection
<1>10. UniqueOffsets(shards)
  BY <1>8, <1>9 DEF UniqueOffsets, NumberOf
<1>11. Contiguous(shards)
  <2> HIDE DEF S
  <2> QED
    BY <1>7, <1>9 DEF Contiguous, NumberOf, S
<1> QED
  BY <1>10, <1>11

-----------------------------------------------------------------------------
(* The chaos simulation. *)

\* The nodes that survive are the first ones of the list, and one at least.
LEMMA SurvivorsAreFirst ==
  ASSUME initialSpecs \in Seq(NodeEntry), Len(initialSpecs) >= 1, failed \in Nat
  PROVE  /\ SurvivingSpecs \in Seq(NodeEntry)
         /\ Len(SurvivingSpecs) \in 1 .. Len(initialSpecs)
         /\ \A i \in 1 .. Len(SurvivingSpecs) : SurvivingSpecs[i] = initialSpecs[i]
<1> DEFINE n == Len(initialSpecs)  m == Max({1, n - failed})
<1>1. n \in Nat /\ n >= 1
  BY LenProperties
<1>2. m \in {1, n - failed} /\ \A y \in {1, n - failed} : m >= y
  <2>1. \E x \in {1, n - failed} : \A y \in {1, n - failed} : x >= y
    BY <1>1
  <2> QED
    BY <2>1 DEF Max
<1> HIDE DEF m
<1>3. m \in 1 .. n
  BY <1>1, <1>2
<1>4. 1 \in 1 .. n + 1 /\ m \in 1 - 1 .. n /\ ~(1 > m) /\ m - 1 + 1 = m
  BY <1>1, <1>3
<1>5. /\ SubSeq(initialSpecs, 1, m) \in Seq(NodeEntry)
      /\ Len(SubSeq(initialSpecs, 1, m)) = m
      /\ \A i \in 1 .. m : SubSeq(initialSpecs, 1, m)[i] = initialSpecs[1 + i - 1]
  BY <1>1, <1>3, <1>4, SubSeqProperties
<1>6. \A i \in 1 .. m : 1 + i - 1 = i
  OBVIOUS
<1>7. SurvivingSpecs = SubSeq(initialSpecs, 1, m)
  BY DEF SurvivingSpecs, m
<1> QED
  BY <1>3, <1>5, <1>6, <1>7

Distinct(list) == \A i, j \in 1 .. Len(list) : list[i].id = list[j].id => i = j

\* The plan of a simulation: distinct nodes, at least one of them.
Planned ==
    /\ initialSpecs \in Seq(NodeEntry) /\ Len(initialSpecs) >= 1 /\ Distinct(initialSpecs)
    /\ failed \in Nat
    /\ nodes = IF stage = "rebalance" THEN SurvivingSpecs ELSE initialSpecs

\* The partial sums of the first call are those of the second as well.
Agree(sums) == \A i \in 1 .. Filled : before[i] = sums[i]

Recorded(sums) ==
    /\ SumsOf(initialSpecs, sums) /\ MapOf(initialMap, initialSpecs, sums, target)
    /\ IF stage = "rebalance" THEN Agree(sums)
       ELSE SumsOf(SurvivingSpecs, sums) /\ MapOf(rebalancedMap, SurvivingSpecs, sums, target)

Checked(map) == UniqueOffsets(map) /\ Contiguous(map)

ChaosInv ==
    /\ CallInv
    /\ stage \in {"single", "initial", "rebalance", "heal", "reported"}
    /\ stage # "single" => Planned
    /\ stage \in {"rebalance", "heal", "reported"} => \E sums : Recorded(sums)
    /\ stage \in {"heal", "reported"} => Checked(rebalancedMap)
    /\ stage = "reported" => Checked(healedMap) /\ integrity

\* The lists of the inputs repeat no id.
LEMMA SpecsDistinct == \A list \in InitialSpecs : Len(list) >= 1 /\ Distinct(list)
<1> SUFFICES ASSUME NEW list \in InitialSpecs PROVE Len(list) >= 1 /\ Distinct(list)
  OBVIOUS
<1>1. PICK n \in 1 .. Len(NodeIds) :
         list = Heterogeneous(n) \/ \E c \in CoreCounts : list = Homogeneous(n, c)
  BY DEF InitialSpecs
<1>2. Len(NodeIds) \in Nat /\ DOMAIN NodeIds = 1 .. Len(NodeIds)
  BY ChaosAssumption, LenProperties
<1>3. DOMAIN list = 1 .. n /\ \A i \in 1 .. n : list[i].id = NodeIds[i]
  BY <1>1 DEF Heterogeneous, Homogeneous
<1>4. list \in Seq(NodeEntry)
  BY ChaosAssumption, GeneratorAssumption
<1>5. Len(list) = n
  BY <1>1, <1>2, <1>3, <1>4, LenProperties
<1>6. \A i, j \in 1 .. Len(NodeIds) : i # j => NodeIds[i] # NodeIds[j]
  BY ChaosAssumption
<1>7. n \in 1 .. Len(NodeIds) /\ Len(list) = n /\ \A i \in 1 .. n : i \in 1 .. Len(NodeIds)
  BY <1>2, <1>5
<1> QED
  BY <1>3, <1>6, <1>7 DEF Distinct

LEMMA ChaosInitInv == ChaosInit => ChaosInv
<1> SUFFICES ASSUME ChaosInit PROVE ChaosInv
  OBVIOUS
<1>1. CallInv
  BY InitBegins, BeginCallInv DEF ChaosInit
<1>2. stage = "initial" => Planned
  <2> SUFFICES ASSUME stage = "initial" PROVE Planned
    OBVIOUS
  <2>1. initialSpecs \in InitialSpecs /\ nodes = initialSpecs /\ failed \in Nat
    BY ChaosAssumption DEF ChaosInit
  <2>2. initialSpecs \in Seq(NodeEntry)
    BY <2>1, ChaosAssumption, GeneratorAssumption
  <2> QED
    BY <2>1, <2>2, SpecsDistinct DEF Planned
<1> QED
  BY <1>1, <1>2 DEF ChaosInv, ChaosInit

LEMMA NextBegin == Begin' => CallInv'
BY BeginCallInv, PTL

LEMMA GenerateKeepsInv ==
  ASSUME ChaosInv, [Next]_vars, UNCHANGED <<stage, plan, maps, integrity>>
  PROVE  ChaosInv'
<1>1. CallInv'
  BY StepCallInv DEF ChaosInv
<1>2. UNCHANGED <<nodes, target, stage, initialSpecs, failed, initialMap, rebalancedMap,
                  healedMap, integrity>>
  BY DEF Next, SumNode, StartSharding, AddCore, StoreNode, Return, vars, plan, maps
<1>3. SurvivingSpecs' = SurvivingSpecs
  BY <1>2 DEF SurvivingSpecs
<1>4. stage # "single" => Planned'
  BY <1>2, <1>3 DEF ChaosInv, Planned
<1>5. ASSUME stage = "rebalance", NEW sums, Recorded(sums) PROVE Agree(sums)'
  <2>1. nodes = SurvivingSpecs /\ Agree(sums) /\ SumsOf(initialSpecs, sums)
    BY <1>5 DEF ChaosInv, Planned, Recorded
  <2>2. /\ Len(nodes) \in 1 .. Len(initialSpecs)
        /\ \A i \in 1 .. Len(nodes) : nodes[i] = initialSpecs[i]
    BY <1>5, <2>1, SurvivorsAreFirst DEF ChaosInv, Planned
  <2>3. /\ position \in 1 .. Len(nodes) + 1 /\ Len(nodes) \in Nat /\ Len(initialSpecs) \in Nat
        /\ before \in [1 .. Len(nodes) + 1 -> Nat]
    BY <2>1, <2>2, LenProperties DEF ChaosInv, CallInv, IInv, Types
  <2>4. CASE SumNode
    <3>1. /\ Filled = position /\ Filled' = position + 1 /\ position <= Len(nodes)
          /\ before' = [before EXCEPT ![position + 1] = totalCores']
          /\ totalCores' = totalCores + nodes[position].cores
      BY <2>4 DEF SumNode, Filled
    <3>2. totalCores = sums[position]
      BY <2>1, <2>3, <3>1 DEF ChaosInv, CallInv, IInv, SumsRight, Agree
    <3>3. sums[position + 1] = sums[position] + nodes[position].cores
      <4>1. /\ position \in 1 .. Len(nodes) /\ position \in 1 .. Len(initialSpecs)
            /\ nodes[position] = initialSpecs[position]
        BY <2>2, <2>3, <3>1
      <4>2. sums[position + 1] = sums[position] + initialSpecs[position].cores
        BY <2>1, <4>1 DEF SumsOf
      <4> QED
        BY <4>1, <4>2
    <3>4. before'[position + 1] = sums[position + 1]
      BY <2>3, <3>1, <3>2, <3>3
    <3>5. \A i \in 1 .. position : before'[i] = before[i]
      BY <2>3, <3>1
    <3> QED
      BY <2>1, <2>3, <3>1, <3>4, <3>5 DEF Agree
  <2>5. CASE ~SumNode
    <3>1. before' = before /\ Filled' = Filled
      BY <1>2, <2>3, <2>5 DEF Next, StartSharding, AddCore, StoreNode, Return, vars, Filled
    <3> QED
      BY <2>1, <3>1 DEF Agree
  <2> QED
    BY <2>4, <2>5
<1>6. ASSUME NEW sums, Recorded(sums) PROVE Recorded(sums)'
  BY <1>2, <1>3, <1>5, <1>6 DEF Recorded
<1>7. /\ Checked(rebalancedMap) => Checked(rebalancedMap)'
      /\ Checked(healedMap) => Checked(healedMap)'
  BY <1>2 DEF Checked, UniqueOffsets, Contiguous, NumberOf, ShardsOf
<1> QED
  BY <1>1, <1>2, <1>4, <1>6, <1>7 DEF ChaosInv

\* The first lists are kept, with their partial sums.
LEMMA RebalanceKeepsInv ==
  ASSUME ChaosInv, Rebalance
  PROVE  ChaosInv'
<1>1. /\ Planned /\ nodes = initialSpecs /\ phase = "done" /\ CallInv
      /\ initialMap' = shards /\ Call(SurvivingSpecs) /\ stage' = "rebalance"
      /\ UNCHANGED <<initialSpecs, failed, target>>
  BY DEF ChaosInv, Planned, Rebalance, plan, Call
<1>2. /\ SurvivingSpecs \in Seq(NodeEntry)
      /\ Len(SurvivingSpecs) \in 1 .. Len(initialSpecs) /\ Len(initialSpecs) \in Nat
  BY <1>1, SurvivorsAreFirst, LenProperties DEF Planned
<1>3. SurvivingSpecs' = SurvivingSpecs
  BY <1>1 DEF SurvivingSpecs
<1>4. CallInv'
  <2>1. Begin'
    BY <1>1, <1>2 DEF Begin, Call, CallInv, IInv, Types
  <2> QED
    BY <2>1, NextBegin
<1>5. Planned'
  BY <1>1, <1>3 DEF Planned, Call
<1>6. \E sums : Recorded(sums)'
  <2>1. PICK sums : sums = before
    OBVIOUS
  <2>2. SumsOf(initialSpecs, sums) /\ MapOf(shards, initialSpecs, sums, target)
    BY <1>1, <2>1, Returned DEF UniqueIds, Planned, Distinct
  <2>3. Agree(sums)'
    <3>1. Filled' = 1 /\ before'[1] = 0
      BY <1>1, <1>2 DEF Call, Filled
    <3> QED
      BY <2>2, <3>1 DEF Agree, SumsOf
  <2> QED
    BY <1>1, <2>2, <2>3 DEF Recorded
<1> QED
  BY <1>1, <1>4, <1>5, <1>6 DEF ChaosInv

\* The second lists are those of the survivors, with the same partial sums.
LEMMA HealKeepsInv ==
  ASSUME ChaosInv, Heal
  PROVE  ChaosInv'
<1>1. /\ Planned /\ nodes = SurvivingSpecs /\ phase = "done" /\ CallInv /\ stage = "rebalance"
      /\ rebalancedMap' = shards /\ Call(initialSpecs) /\ stage' = "heal"
      /\ UNCHANGED <<initialSpecs, failed, initialMap, target>>
  BY DEF ChaosInv, Planned, Heal, plan, Call
<1>2. /\ nodes \in Seq(NodeEntry)
      /\ Len(nodes) \in 1 .. Len(initialSpecs) /\ Len(initialSpecs) \in Nat
      /\ \A i \in 1 .. Len(nodes) : nodes[i] = initialSpecs[i]
  BY <1>1, SurvivorsAreFirst, LenProperties DEF Planned
<1>3. SurvivingSpecs' = SurvivingSpecs
  BY <1>1 DEF SurvivingSpecs
<1>4. CallInv'
  <2>1. Begin'
    BY <1>1 DEF Begin, Call, CallInv, IInv, Types, Planned
  <2> QED
    BY <2>1, NextBegin
<1>5. Planned'
  BY <1>1 DEF Planned, Call
<1>6. UniqueIds
  BY <1>1, <1>2 DEF UniqueIds, Planned, Distinct
<1>7. \E sums : Recorded(sums)'
  <2>1. PICK sums : Recorded(sums)
    BY <1>1 DEF ChaosInv
  <2>2. /\ SumsOf(nodes, before) /\ MapOf(shards, nodes, before, target)
    BY <1>1, <1>6, Returned
  <2>3. \A i \in 1 .. Len(nodes) + 1 : before[i] = sums[i]
    BY <1>1, <2>1 DEF Recorded, Agree, Filled
  <2>4. /\ Len(nodes) + 1 \in 1 .. Len(nodes) + 1
        /\ \A i \in 1 .. Len(nodes) : {i, i + 1} \subseteq 1 .. Len(nodes) + 1
    BY <1>2
  <2>5. SumsOf(nodes, sums)
    BY <2>2, <2>3, <2>4 DEF SumsOf, Total
  <2>6. MapOf(shards, nodes, sums, target)
    BY <2>2, <2>3, <2>4 DEF MapOf, Total, CoreSpecs, CoreSpec
  <2> QED
    BY <1>1, <1>3, <2>1, <2>5, <2>6 DEF Recorded
<1>8. Checked(rebalancedMap)'
  <2>1. Checked(shards)
    BY <1>1, <1>6, OffsetsReturned DEF Checked
  <2> QED
    BY <1>1, <2>1 DEF Checked, UniqueOffsets, Contiguous, NumberOf, ShardsOf
<1> QED
  BY <1>1, <1>4, <1>5, <1>7, <1>8 DEF ChaosInv

LEMMA ReportKeepsInv ==
  ASSUME ChaosInv, Report
  PROVE  ChaosInv'
<1>1. /\ Planned /\ nodes = initialSpecs /\ phase = "done" /\ CallInv /\ stage = "heal"
      /\ stage' = "reported" /\ healedMap' = shards
      /\ integrity' = (UniqueOffsets(rebalancedMap) /\ UniqueOffsets(shards))
      /\ UNCHANGED vars /\ UNCHANGED <<initialSpecs, failed, initialMap, rebalancedMap>>
  BY DEF ChaosInv, Planned, Report, plan
<1>2. CallInv'
  BY <1>1, StepCallInv
<1>3. Checked(shards)
  BY <1>1, OffsetsReturned DEF Checked, UniqueIds, Planned, Distinct
<1>4. Checked(rebalancedMap) /\ Checked(rebalancedMap)' /\ Checked(healedMap)' /\ integrity'
  <2>1. Checked(rebalancedMap)
    BY <1>1 DEF ChaosInv
  <2>2. rebalancedMap' = rebalancedMap /\ healedMap' = shards
    BY <1>1
  <2>3. Checked(rebalancedMap)'
    BY <2>1, <2>2 DEF Checked, UniqueOffsets, Contiguous, NumberOf, ShardsOf
  <2>4. Checked(healedMap)'
    BY <1>3, <2>2 DEF Checked, UniqueOffsets, Contiguous, NumberOf, ShardsOf
  <2>5. UniqueOffsets(rebalancedMap) /\ UniqueOffsets(shards)
    BY <1>3, <2>1 DEF Checked
  <2>6. integrity'
    BY <1>1, <2>5
  <2> QED
    BY <2>1, <2>3, <2>4, <2>6
<1>5. SurvivingSpecs' = SurvivingSpecs /\ nodes' = nodes /\ target' = target
  BY <1>1 DEF SurvivingSpecs, vars
<1>6. Planned'
  BY <1>1, <1>5 DEF Planned
<1>7. \E sums : Recorded(sums)'
  <2>1. PICK sums : Recorded(sums)
    BY <1>1 DEF ChaosInv
  <2>2. Recorded(sums)'
    BY <1>1, <1>5, <2>1 DEF Recorded
  <2> QED
    BY <2>2
<1> QED
  BY <1>1, <1>2, <1>4, <1>6, <1>7 DEF ChaosInv

THEOREM ChaosInvariance == ChaosSpec => []ChaosInv
<1>1. ChaosInv /\ [ChaosNext]_chaosVars => ChaosInv'
  <2> SUFFICES ASSUME ChaosInv, [ChaosNext]_chaosVars PROVE ChaosInv'
    OBVIOUS
  <2>1. CASE Generate \/ UNCHANGED chaosVars
    BY <2>1, GenerateKeepsInv DEF Generate, chaosVars
  <2> QED
    BY <2>1, RebalanceKeepsInv, HealKeepsInv, ReportKeepsInv DEF ChaosNext
<1> QED
  BY <1>1, ChaosInitInv, PTL DEF ChaosSpec

\* Every list handed out during the simulation is apart and without a gap.
THEOREM ChaosApart == ChaosSpec => [](NoOverlap /\ NoGap)
<1>1. ChaosInv => NoOverlap /\ NoGap
  BY Apart, Gapless DEF ChaosInv, CallInv
<1> QED
  BY <1>1, ChaosInvariance, PTL

\* A larger divisor gives a smaller share.
LEMMA SharesShrink ==
  ASSUME NEW t \in Nat, NEW a \in Nat \ {0}, NEW b \in Nat, a <= b
  PROVE  t \div b <= t \div a
<1> DEFINE p == t \div a  q == t \div b
<1>1. /\ p \in Nat /\ p * a <= t /\ t < p * a + a
      /\ q \in Nat /\ q * b <= t
  OBVIOUS
<1> HIDE DEF p, q
<1>2. CASE p < q
  <2>1. p * a + a <= q * a
    BY <1>1, <1>2, BlocksApart
  <2>2. q * a <= q * b
    <3>1. a * q <= b * q
      BY <1>1, ProductMonotone
    <3> QED
      BY <1>1, <3>1
  <2>3. p * a \in Nat /\ q * a \in Nat /\ q * b \in Nat
    BY <1>1, ProductIsNat
  <2> QED
    BY <1>1, <2>1, <2>2, <2>3
<1>3. CASE q <= p
  BY <1>3 DEF p, q
<1> QED
  BY <1>1, <1>2, <1>3

\* A core that survives keeps its place and its seed, and gets a larger share,
\* whatever the cluster, the failure and the throughput (usecase_08:104-111).
THEOREM SurvivorsStay == ChaosSpec => []SurvivorsKeepPlace
<1>1. ChaosInv => SurvivorsKeepPlace
  <2> SUFFICES ASSUME ChaosInv, stage \in {"heal", "reported"}, NEW s \in ShardsOf(rebalancedMap)
               PROVE  \E t \in ShardsOf(initialMap) :
                         /\ s.node_id = t.node_id /\ s.core_id = t.core_id
                         /\ s.base = t.base /\ s.seed = t.seed
                         /\ s.stride <= t.stride /\ s.bps >= t.bps
    BY DEF SurvivorsKeepPlace
  <2> DEFINE L == SurvivingSpecs  n == Len(initialSpecs)  m == Len(L)
  <2>1. PICK sums : Recorded(sums)
    BY DEF ChaosInv
  <2>2. /\ SumsOf(initialSpecs, sums) /\ MapOf(initialMap, initialSpecs, sums, target)
        /\ SumsOf(L, sums) /\ MapOf(rebalancedMap, L, sums, target)
    BY <2>1 DEF Recorded
  <2>3. Planned /\ target \in Nat /\ BlockSize \in Nat
    BY GeneratorAssumption DEF ChaosInv, CallInv, IInv, Types
  <2>4. /\ m \in 1 .. n /\ n \in Nat /\ \A i \in 1 .. m : L[i] = initialSpecs[i]
        /\ L \in Seq(NodeEntry)
    BY <2>3, SurvivorsAreFirst, LenProperties DEF Planned
  <2> HIDE DEF L, n, m
  <2> DEFINE big == Total(initialSpecs, sums)  small == Total(L, sums)
  <2>5. PICK j \in 1 .. m : s \in CoreSpecs(L, sums, small, target, j, L[j].cores)
    BY <2>2 DEF MapOf, ShardsOf, m
  <2>6. PICK c \in 0 .. L[j].cores - 1 : s = CoreSpec(L, sums, small, target, j, c)
    BY <2>5 DEF CoreSpecs
  <2> DEFINE t == CoreSpec(initialSpecs, sums, big, target, j, c)
  <2>7. j \in 1 .. n /\ L[j] = initialSpecs[j] /\ L[j].cores \in Nat
    <3>1. L[j] \in NodeEntry
      BY <2>4, ElementOfSeq DEF m
    <3> QED
      BY <2>4, <3>1 DEF NodeEntry
  <2>8. t \in ShardsOf(initialMap)
    <3>1. t \in CoreSpecs(initialSpecs, sums, big, target, j, initialSpecs[j].cores)
      BY <2>7 DEF CoreSpecs
    <3> HIDE DEF t, big
    <3>2. /\ initialSpecs[j].id \in DOMAIN initialMap
          /\ t \in initialMap[initialSpecs[j].id]
      BY <2>2, <2>7, <3>1 DEF MapOf, n, big
    <3> QED
      BY <3>2 DEF ShardsOf
  <2>9. small \in Nat \ {0} /\ big \in Nat /\ small <= big
    <3>1. /\ sums[j + 1] = sums[j] + L[j].cores /\ sums[j] \in Nat /\ sums[j + 1] <= small
          /\ small \in Nat
      BY <2>2, <2>4 DEF SumsOf, Total, m
    <3>2. small <= big /\ big \in Nat
      <4>1. m + 1 \in 1 .. n + 1 /\ n + 1 \in 1 .. n + 1
        BY <2>4
      <4> QED
        BY <2>2, <4>1 DEF SumsOf, Total, m, n
    <3>3. L[j].cores > 0
      BY <2>7
    <3> HIDE DEF small, big
    <3> QED
      BY <2>7, <3>1, <3>2, <3>3
  <2> HIDE DEF small, big
  <2>10. small * BlockSize <= big * BlockSize /\ target \div small >= target \div big
    <3>1. target \div small \in Nat /\ target \div big \in Nat
      BY <2>3, <2>9, QuotientIsNat
    <3> QED
      BY <2>3, <2>9, <3>1, ProductMonotone, SharesShrink
  <2>11. /\ s.node_id = t.node_id /\ s.core_id = t.core_id
         /\ s.base = t.base /\ s.seed = t.seed
         /\ s.stride <= t.stride /\ s.bps >= t.bps
    BY <2>6, <2>7, <2>9, <2>10 DEF CoreSpec
  <2> HIDE DEF t
  <2> QED
    BY <2>8, <2>11
<1> QED
  BY <1>1, ChaosInvariance, PTL

\* The check at the end of the simulation tells the truth, and passes.
THEOREM IntegrityIsHonest == ChaosSpec => [](IntegrityHonest /\ (stage = "reported" => integrity))
<1>1. ChaosInv => IntegrityHonest /\ (stage = "reported" => integrity)
  BY DEF ChaosInv, IntegrityHonest, Checked
<1> QED
  BY <1>1, ChaosInvariance, PTL
=============================================================================
