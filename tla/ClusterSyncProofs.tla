-------------------------- MODULE ClusterSyncProofs --------------------------
(***************************************************************************)
(* Proofs about the cluster barrier, for every set of nodes, every id      *)
(* assignment, every expected count and every pattern of retries,          *)
(* cancellations and crashes.                                              *)
(***************************************************************************)
EXTENDS ClusterSync, FiniteSetTheorems, TLAPS

\* The keys of _ready_nodes are the ids of the calls made so far.
ReadyExact == readyNodes = {IdOf(c[1]) : c \in Called}

\* Before the release nothing is stamped and nobody is past the await.
BeforeRelease ==
    ~releaseEvent => /\ synchronizedStartUs = 0
                     /\ \A c \in Call : handler[c] \notin {"woken", "done"}

\* After the release enough ids are recorded and the instant is real.
AfterRelease ==
    releaseEvent => AllReady(readyNodes) /\ synchronizedStartUs > 0

\* A response is an instant stamped so far; only finished calls have one.
ResponseStamped ==
    \A c \in Call : IF handler[c] = "done"
                    THEN response[c] > 0 ELSE response[c] = 0

IInv == TypeOK /\ ReadyExact /\ BeforeRelease /\ AfterRelease
        /\ ResponseStamped

LEMMA InitIInv == Init => IInv
<1> SUFFICES ASSUME Init PROVE IInv
  OBVIOUS
<1> USE ConstantAssumption DEF Init
<1>1. TypeOK
  <2>1. handler \in [Call -> HandlerState]
    BY DEF HandlerState
  <2>2. response \in [Call -> Nat] /\ now \in Nat \ {0} /\ synchronizedStartUs \in Nat
    OBVIOUS
  <2>3. readyNodes \subseteq NodeIds /\ releaseEvent \in BOOLEAN /\ alive \subseteq Node
    OBVIOUS
  <2> QED
    BY <2>1, <2>2, <2>3 DEF TypeOK
<1>2. ReadyExact
  <2>1. Called = {}
    BY DEF Called
  <2> QED
    BY <2>1 DEF ReadyExact
<1>3. BeforeRelease /\ AfterRelease /\ ResponseStamped
  BY DEF BeforeRelease, AfterRelease, ResponseStamped
<1> QED
  BY <1>1, <1>2, <1>3 DEF IInv

\* Type correctness is preserved by every step.
LEMMA TypeStep == TypeOK /\ [Next]_vars => TypeOK'
<1> SUFFICES ASSUME TypeOK, [Next]_vars PROVE TypeOK'
  OBVIOUS
<1> USE ConstantAssumption DEF TypeOK, HandlerState
<1>1. CASE \E c \in Call : SignalAndWait(c)
  BY <1>1 DEF SignalAndWait, MaySignal, Call
<1>2. CASE \E c \in Call : SignalAndRelease(c)
  <2> PICK c \in Call : SignalAndRelease(c)
    BY <1>2
  <2>1. WokenBySet \in [Call -> HandlerState]
    BY DEF WokenBySet
  <2>2. FutureEpoch \in Nat
    BY DEF FutureEpoch
  <2> QED
    BY <2>1, <2>2 DEF SignalAndRelease, MaySignal, Call
<1>3. CASE \E c \in Call : Resume(c)
  BY <1>3 DEF Resume, ReturnedStart, servicerVars
<1>4. CASE \E c \in Call : Cancel(c)
  BY <1>4 DEF Cancel, servicerVars
<1>5. CASE \E n \in Node : Crash(n)
  BY <1>5 DEF Crash, servicerVars
<1>6. CASE Tick
  BY <1>6 DEF Tick, servicerVars
<1>7. CASE UNCHANGED vars
  BY <1>7 DEF vars
<1> QED
  BY <1>1, <1>2, <1>3, <1>4, <1>5, <1>6, <1>7 DEF Next

\* A call that starts adds exactly its id to the ids of the calls made.
LEMMA CallRecorded ==
  ASSUME TypeOK, ReadyExact, NEW c \in Call, handler[c] = "idle",
         readyNodes' = readyNodes \cup {IdOf(c[1])},
         \A d \in Call : d # c => (handler'[d] = "idle" <=> handler[d] = "idle"),
         handler'[c] # "idle"
  PROVE  ReadyExact'
<1>1. Called' = Called \cup {c}
  BY DEF Called
<1> QED
  BY <1>1 DEF ReadyExact

\* A step that starts no call leaves the recorded ids exact.
LEMMA CallsKept ==
  ASSUME ReadyExact, readyNodes' = readyNodes,
         \A d \in Call : handler'[d] = "idle" <=> handler[d] = "idle"
  PROVE  ReadyExact'
<1>1. Called' = Called
  BY DEF Called
<1> QED
  BY <1>1 DEF ReadyExact

LEMMA StepIInv == IInv /\ [Next]_vars => IInv'
<1> SUFFICES ASSUME IInv, [Next]_vars PROVE IInv'
  OBVIOUS
<1>t. TypeOK /\ TypeOK'
  BY TypeStep DEF IInv
<1> USE ConstantAssumption
<1>1. CASE \E c \in Call : SignalAndWait(c)
  <2> PICK c \in Call : SignalAndWait(c)
    BY <1>1
  <2>1. ReadyExact'
    BY <1>t, CallRecorded DEF SignalAndWait, MaySignal, IInv, TypeOK
  <2>2. /\ BeforeRelease' /\ AfterRelease' /\ ResponseStamped'
    BY <1>t DEF SignalAndWait, MaySignal, IInv, TypeOK, BeforeRelease,
                AfterRelease, ResponseStamped
  <2> QED
    BY <1>t, <2>1, <2>2 DEF IInv
<1>2. CASE \E c \in Call : SignalAndRelease(c)
  <2> PICK c \in Call : SignalAndRelease(c)
    BY <1>2
  <2>a. handler' = [d \in Call |-> IF d = c THEN "done"
                                   ELSE IF handler[d] = "waiting" THEN "woken"
                                   ELSE handler[d]]
    BY <1>t DEF SignalAndRelease, WokenBySet, TypeOK
  <2>b. handler[c] = "idle"
    BY DEF SignalAndRelease, MaySignal
  <2>1. ReadyExact'
    BY <1>t, <2>a, <2>b, CallRecorded DEF SignalAndRelease, IInv, TypeOK
  <2>2. BeforeRelease' /\ AfterRelease'
    BY <1>t DEF SignalAndRelease, FutureEpoch, IInv, TypeOK, BeforeRelease,
                AfterRelease
  <2>3. ResponseStamped'
    <3>1. synchronizedStartUs' > 0
      BY <1>t DEF SignalAndRelease, FutureEpoch, IInv, TypeOK
    <3> QED
      BY <1>t, <2>a, <2>b, <3>1
         DEF SignalAndRelease, IInv, TypeOK, ResponseStamped
  <2> QED
    BY <1>t, <2>1, <2>2, <2>3 DEF IInv
<1>3. CASE \E c \in Call : Resume(c)
  <2> PICK c \in Call : Resume(c)
    BY <1>3
  <2>1. ReadyExact'
    BY <1>t, CallsKept DEF Resume, servicerVars, IInv, TypeOK
  <2>2. BeforeRelease' /\ AfterRelease' /\ ResponseStamped'
    BY <1>t DEF Resume, ReturnedStart, servicerVars, IInv, TypeOK,
                BeforeRelease, AfterRelease, ResponseStamped
  <2> QED
    BY <1>t, <2>1, <2>2 DEF IInv
<1>4. CASE \E c \in Call : Cancel(c)
  <2> PICK c \in Call : Cancel(c)
    BY <1>4
  <2>1. ReadyExact'
    BY <1>t, CallsKept DEF Cancel, servicerVars, IInv, TypeOK
  <2>2. BeforeRelease' /\ AfterRelease' /\ ResponseStamped'
    BY <1>t DEF Cancel, servicerVars, IInv, TypeOK,
                BeforeRelease, AfterRelease, ResponseStamped
  <2> QED
    BY <1>t, <2>1, <2>2 DEF IInv
<1>5. CASE (\E n \in Node : Crash(n)) \/ Tick \/ UNCHANGED vars
  <2>1. UNCHANGED <<servicerVars, handler, response>>
    BY <1>5 DEF Crash, Tick, vars, servicerVars
  <2>2. ReadyExact'
    BY <2>1, CallsKept DEF servicerVars, IInv
  <2>3. BeforeRelease' /\ AfterRelease' /\ ResponseStamped'
    BY <2>1 DEF servicerVars, IInv, BeforeRelease, AfterRelease,
                ResponseStamped, AllReady
  <2> QED
    BY <1>t, <2>2, <2>3 DEF IInv
<1> QED
  BY <1>1, <1>2, <1>3, <1>4, <1>5 DEF Next

THEOREM Invariance == Spec => []IInv
<1> QED
  BY InitIInv, StepIInv, PTL DEF Spec

\* The variables of the servicer and its handlers always have their types.
THEOREM TypeCorrect == Spec => []TypeOK
<1>1. IInv => TypeOK
  BY DEF IInv
<1> QED
  BY <1>1, Invariance, PTL

\* signal_ready never returns before Expected distinct node ids have called,
\* whatever is retried, duplicated, cancelled or dead.
THEOREM NeverReleasedEarly == Spec => []NoEarlyRelease
<1>1. IInv => NoEarlyRelease
  BY DEF IInv, ReadyExact, BeforeRelease, AfterRelease, AllReady,
         NoEarlyRelease, Done, TypeOK
<1> QED
  BY <1>1, Invariance, PTL

\* Every response carries a stamped instant.
THEOREM AlwaysReleasedWithStart == Spec => []ReleasedWithStart
<1>1. IInv => ReleasedWithStart
  BY DEF IInv, ResponseStamped, ReleasedWithStart, Done
<1> QED
  BY <1>1, Invariance, PTL

-----------------------------------------------------------------------------
(***************************************************************************)
(* A signal stamps at most one instant, and the first Expected - 1 signals *)
(* stamp none.  What is counted is the instants handed out so far together *)
(* with the one a woken handler would read.                                *)
(***************************************************************************)
Instants == {synchronizedStartUs} \cup {response[c] : c \in Done}

InstantsCounted ==
    releaseEvent => Cardinality(Instants) + Expected <= Cardinality(Called) + 1

LEMMA ImageCount ==
  ASSUME NEW S, NEW f, IsFiniteSet(S)
  PROVE  IsFiniteSet({f[x] : x \in S}) /\ Cardinality({f[x] : x \in S}) <= Cardinality(S)
<1> DEFINE T == {f[x] : x \in S}
           g == [x \in S |-> f[x]]
<1>1. g \in Surjection(S, T)
  BY DEF Surjection
<1> HIDE DEF g, T
<1>2. IsFiniteSet(T) /\ Cardinality(T) <= Cardinality(S)
  BY <1>1, FS_Surjection
<1> QED
  BY <1>2 DEF T

LEMMA OneMore ==
  ASSUME NEW S, NEW x, NEW T \in SUBSET (S \cup {x}), IsFiniteSet(S)
  PROVE  /\ Cardinality(S) \in Nat /\ Cardinality(T) \in Nat
         /\ Cardinality(T) <= Cardinality(S) + 1
<1>1. /\ IsFiniteSet(S \cup {x})
      /\ Cardinality(S \cup {x}) = IF x \in S THEN Cardinality(S) ELSE Cardinality(S) + 1
  BY FS_AddElement
<1>2. IsFiniteSet(T) /\ Cardinality(T) <= Cardinality(S \cup {x})
  BY <1>1, FS_Subset
<1>3. Cardinality(S) \in Nat /\ Cardinality(T) \in Nat
  BY <1>2, FS_CardinalityType
<1> QED
  BY <1>1, <1>2, <1>3

\* There are finitely many calls, hence finitely many that were made, and
\* finitely many instants.
LEMMA FinitelyMany ==
  /\ \A S \in SUBSET Call : IsFiniteSet(S) /\ Cardinality(S) \in Nat
  /\ IsFiniteSet({response[c] : c \in Done}) /\ IsFiniteSet(Instants)
  /\ Cardinality(Instants) \in Nat
<1>1. IsFiniteSet(Call)
  <2>1. IsFiniteSet(1 .. MaxCalls)
    BY ConstantAssumption, FS_Interval
  <2> QED
    BY <2>1, ConstantAssumption, FS_Product DEF Call
<1>2. \A S \in SUBSET Call : IsFiniteSet(S) /\ Cardinality(S) \in Nat
  BY <1>1, FS_Subset, FS_CardinalityType
<1>3. IsFiniteSet({response[c] : c \in Done})
  BY <1>2, ImageCount DEF Done
<1>4. IsFiniteSet(Instants)
  <2>1. Instants = {response[c] : c \in Done} \cup {synchronizedStartUs}
    BY DEF Instants
  <2> QED
    BY <1>3, <2>1, FS_AddElement
<1> QED
  BY <1>2, <1>3, <1>4, FS_CardinalityType

\* A signal adds one call; when it stamps, at most one instant.
LEMMA StampCounted ==
  ASSUME IInv, IInv', InstantsCounted, NEW c \in Call, SignalAndRelease(c)
  PROVE  InstantsCounted'
<1>t. handler \in [Call -> HandlerState] /\ response \in [Call -> Nat]
  BY DEF IInv, TypeOK
<1>c. handler[c] = "idle" /\ synchronizedStartUs' = FutureEpoch
  BY DEF SignalAndRelease, MaySignal
<1>h. /\ handler'[c] = "done" /\ response'[c] = synchronizedStartUs'
      /\ \A d \in Call \ {c} : /\ handler'[d] = "done" <=> handler[d] = "done"
                               /\ handler'[d] = "idle" <=> handler[d] = "idle"
                               /\ response'[d] = response[d]
  BY <1>t DEF SignalAndRelease, WokenBySet
<1>1. Called' = Called \cup {c} /\ c \notin Called
  BY <1>c, <1>h DEF Called
<1>2. Done' = Done \cup {c} /\ c \notin Done
  BY <1>c, <1>h DEF Done
<1>3. Cardinality(Called') = Cardinality(Called) + 1
      /\ IsFiniteSet(Called') /\ Cardinality(Called) \in Nat
  <2>1. IsFiniteSet(Called) /\ Cardinality(Called) \in Nat
    BY FinitelyMany DEF Called
  <2> QED
    BY <1>1, <2>1, FS_AddElement
<1>4. CASE releaseEvent
  <2>1. Instants' \subseteq Instants \cup {synchronizedStartUs'}
    BY <1>2, <1>h DEF Instants, Done
  <2>2. IsFiniteSet(Instants)
    BY FinitelyMany
  <2>3. /\ Cardinality(Instants) \in Nat /\ Cardinality(Instants') \in Nat
        /\ Cardinality(Instants') <= Cardinality(Instants) + 1
    BY <2>1, <2>2, OneMore
  <2>4. Cardinality(Instants) + Expected <= Cardinality(Called) + 1
    BY <1>4 DEF InstantsCounted
  <2> QED
    BY <1>3, <2>3, <2>4, ConstantAssumption DEF InstantsCounted
<1>5. CASE ~releaseEvent
  <2>1. Done = {}
    BY <1>5 DEF IInv, BeforeRelease, Done
  <2>2. Instants' = {synchronizedStartUs'}
    BY <1>2, <1>h, <2>1 DEF Instants
  <2>3. Cardinality(Instants') = 1
    BY <2>2, FS_Singleton
  <2>4. Cardinality(readyNodes') >= Expected
    BY DEF SignalAndRelease, AllReady
  <2>5. readyNodes' = {IdOf(d[1]) : d \in Called'}
    BY DEF IInv, ReadyExact
  <2>6. Cardinality(readyNodes') \in Nat /\ Cardinality(readyNodes') <= Cardinality(Called')
    <3> DEFINE f == [d \in Called' |-> IdOf(d[1])]
    <3>1. readyNodes' = {f[d] : d \in Called'}
      BY <2>5
    <3> HIDE DEF f
    <3> QED
      BY <1>3, <3>1, ImageCount, FS_CardinalityType
  <2> QED
    BY <1>3, <2>3, <2>4, <2>6, ConstantAssumption DEF InstantsCounted
<1> QED
  BY <1>4, <1>5

LEMMA CountStep == IInv /\ IInv' /\ InstantsCounted /\ [Next]_vars => InstantsCounted'
<1> SUFFICES ASSUME IInv, IInv', InstantsCounted, [Next]_vars PROVE InstantsCounted'
  OBVIOUS
<1>t. handler \in [Call -> HandlerState] /\ response \in [Call -> Nat]
  BY DEF IInv, TypeOK
<1>1. CASE \E c \in Call : SignalAndRelease(c)
  BY <1>1, StampCounted
<1>2. CASE \E c \in Call : SignalAndWait(c)
  BY <1>2 DEF SignalAndWait, InstantsCounted
<1>3. CASE \E c \in Call : Resume(c)
  <2> PICK c \in Call : Resume(c)
    BY <1>3
  <2>h. /\ handler[c] = "woken" /\ UNCHANGED <<releaseEvent, synchronizedStartUs>>
        /\ handler' = [handler EXCEPT ![c] = "done"]
        /\ response' = [response EXCEPT ![c] = synchronizedStartUs]
    BY DEF Resume, ReturnedStart, servicerVars
  <2>1. Called' = Called
    BY <1>t, <2>h DEF Called
  <2>2. Instants' \subseteq Instants
    BY <1>t, <2>h DEF Instants, Done
  <2>3. Cardinality(Instants') \in Nat /\ Cardinality(Instants') <= Cardinality(Instants)
        /\ Cardinality(Instants) \in Nat /\ Cardinality(Called) \in Nat
    BY <2>2, FinitelyMany, FS_Subset, FS_CardinalityType DEF Called
  <2> QED
    BY <2>h, <2>1, <2>3, ConstantAssumption DEF InstantsCounted
<1>4. CASE \/ (\E c \in Call : Cancel(c)) \/ (\E n \in Node : Crash(n)) \/ Tick
           \/ UNCHANGED vars
  <2>1. UNCHANGED <<releaseEvent, synchronizedStartUs, response>>
    BY <1>4 DEF Cancel, Crash, Tick, servicerVars, vars
  <2>2. \A c \in Call : /\ handler'[c] = "done" <=> handler[c] = "done"
                        /\ handler'[c] = "idle" <=> handler[c] = "idle"
    BY <1>4, <1>t DEF Cancel, Crash, Tick, vars
  <2>3. Called' = Called /\ Done' = Done
    BY <2>2 DEF Called, Done
  <2>4. Instants' = Instants
    BY <2>1, <2>3 DEF Instants
  <2> QED
    BY <2>1, <2>3, <2>4 DEF InstantsCounted
<1> QED
  BY <1>1, <1>2, <1>3, <1>4 DEF Next

\* Every signal beyond the expected number adds at most one start instant, for
\* any retries, shared ids, cancellations and crashes, and any wall clock.
THEOREM SignalsBoundStarts == Spec => []OneStartPerSignal
<1>1. Init => InstantsCounted
  BY DEF Init, InstantsCounted
<1>2. IInv /\ InstantsCounted => OneStartPerSignal
  <2> SUFFICES ASSUME IInv, InstantsCounted, Done # {}
               PROVE  Cardinality({response[c] : c \in Done}) + Expected
                        <= Cardinality(Called) + 1
    BY DEF OneStartPerSignal
  <2>1. releaseEvent
    BY DEF IInv, BeforeRelease, Done
  <2>2. {response[c] : c \in Done} \subseteq Instants
    BY DEF Instants
  <2>3. /\ Cardinality({response[c] : c \in Done}) <= Cardinality(Instants)
        /\ Cardinality({response[c] : c \in Done}) \in Nat
        /\ Cardinality(Instants) \in Nat /\ Cardinality(Called) \in Nat
    BY <2>2, FinitelyMany, FS_Subset, FS_CardinalityType DEF Called
  <2>4. Cardinality(Instants) + Expected <= Cardinality(Called) + 1
    BY <2>1 DEF InstantsCounted
  <2> QED
    BY <2>3, <2>4, ConstantAssumption
<1> QED
  BY <1>1, <1>2, CountStep, Invariance, PTL DEF Spec

\* The event is set exactly when enough ids are in, and then nobody is left at
\* the await.
ReleaseRight ==
    /\ AllReady(readyNodes) => releaseEvent
    /\ releaseEvent => \A c \in Call : handler[c] # "waiting"

LEMMA ReleaseInvariance == Spec => []ReleaseRight
<1>1. Init => ReleaseRight
  <2>1. Cardinality({}) = 0
    BY FS_EmptySet
  <2> QED
    BY <2>1, ConstantAssumption DEF Init, ReleaseRight, AllReady
<1>2. IInv /\ ReleaseRight /\ [Next]_vars => ReleaseRight'
  <2> SUFFICES ASSUME IInv, ReleaseRight, [Next]_vars PROVE ReleaseRight'
    OBVIOUS
  <2>0. handler \in [Call -> HandlerState]
    BY DEF IInv, TypeOK
  <2>1. CASE \E c \in Call : SignalAndWait(c)
    BY <2>1 DEF SignalAndWait, AllReady, ReleaseRight
  <2>2. CASE \E c \in Call : SignalAndRelease(c)
    <3>1. releaseEvent' /\ \A c \in Call : handler'[c] # "waiting"
      BY <2>0, <2>2 DEF SignalAndRelease, WokenBySet
    <3> QED
      BY <3>1 DEF ReleaseRight
  <2>3. CASE \E c \in Call : Resume(c) \/ Cancel(c)
    <3>1. /\ UNCHANGED <<readyNodes, releaseEvent>>
          /\ \A c \in Call : handler'[c] = "waiting" => handler[c] = "waiting"
      BY <2>0, <2>3 DEF Resume, Cancel, servicerVars
    <3> QED
      BY <3>1 DEF ReleaseRight, AllReady
  <2>4. CASE (\E n \in Node : Crash(n)) \/ Tick \/ UNCHANGED vars
    <3>1. UNCHANGED <<readyNodes, releaseEvent, handler>>
      BY <2>4 DEF Crash, Tick, servicerVars, vars
    <3> QED
      BY <3>1 DEF ReleaseRight, AllReady
  <2> QED
    BY <2>1, <2>2, <2>3, <2>4 DEF Next
<1> QED
  BY <1>1, <1>2, Invariance, PTL DEF Spec

\* With enough ids recorded no handler still waits: the check of the count, the
\* event and the await cannot miss each other, as they could if signal_ready
\* was suspended between them.  A handler that waits waits for a node.
THEOREM WakeUpNeverLost ==
  Spec => [](\A c \in Call : handler[c] = "waiting" => ~AllReady(readyNodes))
<1>1. ReleaseRight => \A c \in Call : handler[c] = "waiting" => ~AllReady(readyNodes)
  BY DEF ReleaseRight
<1> QED
  BY <1>1, ReleaseInvariance, PTL

\* Only nodes that may die are gone, and only calls that may be cancelled were.
FaultsNamed ==
    /\ Node \ MayCrash \subseteq alive
    /\ \A c \in Call : handler[c] = "cancelled" => c[1] \in MayCancel

LEMMA FaultsInvariance == Spec => []FaultsNamed
<1>1. Init => FaultsNamed
  BY DEF Init, FaultsNamed
<1>2. IInv /\ FaultsNamed /\ [Next]_vars => FaultsNamed'
  <2> SUFFICES ASSUME IInv, FaultsNamed, [Next]_vars PROVE FaultsNamed'
    OBVIOUS
  <2>0. handler \in [Call -> HandlerState]
    BY DEF IInv, TypeOK
  <2>1. Node \ MayCrash \subseteq alive'
    BY DEF FaultsNamed, Next, SignalAndWait, SignalAndRelease, Resume, Cancel, Crash, Tick, vars
  <2>2. ASSUME NEW c \in Call, handler'[c] = "cancelled" PROVE c[1] \in MayCancel
    <3>1. CASE \E d \in Call : Cancel(d)
      BY <2>0, <2>2, <3>1 DEF Cancel, FaultsNamed
    <3>2. CASE ~\E d \in Call : Cancel(d)
      <4>1. handler[c] = "cancelled"
        BY <2>0, <2>2, <3>2 DEF Next, SignalAndWait, SignalAndRelease, WokenBySet, Resume,
           Crash, Tick, vars
      <4> QED
        BY <4>1 DEF FaultsNamed
    <3> QED
      BY <3>1, <3>2
  <2> QED
    BY <2>1, <2>2 DEF FaultsNamed
<1> QED
  BY <1>1, <1>2, Invariance, PTL DEF Spec

-----------------------------------------------------------------------------
(***************************************************************************)
(* When every node signals once and all nodes are expected, nobody is left *)
(* to signal after the release, so the instant is stamped once.            *)
(***************************************************************************)
SignalsOnce == MaxCalls = 1 /\ Expected = Cardinality(Node)

\* Finished calls carry the instant that is recorded.
OneInstant == \A c \in Call : handler[c] = "done" => response[c] = synchronizedStartUs

\* With one call per node, the ids recorded when the handlers are in states h
\* are those of the nodes that called.
LEMMA ReadyByNode ==
  ASSUME SignalsOnce, NEW h
  PROVE  {IdOf(c[1]) : c \in {d \in Call : h[d] # "idle"}}
           = {IdOf(n) : n \in {m \in Node : h[<<m, 1>>] # "idle"}}
<1> DEFINE Calls == {d \in Call : h[d] # "idle"}
           Callers == {n \in Node : h[<<n, 1>>] # "idle"}
<1>1. Call = Node \X {1}
  BY DEF SignalsOnce, Call
<1>2. \A c \in Calls : c[1] \in Callers
  BY <1>1
<1>3. \A n \in Callers : <<n, 1>> \in Calls /\ <<n, 1>>[1] = n
  BY <1>1
<1> HIDE DEF Calls, Callers
<1>4. {IdOf(c[1]) : c \in Calls} = {IdOf(n) : n \in Callers}
  BY <1>2, <1>3
<1> QED
  BY <1>4 DEF Calls, Callers

\* A set of nodes has at most as many ids as members, and as many if the
\* nodes have ids of their own.
LEMMA IdCount ==
  ASSUME NEW S, IsFiniteSet(S)
  PROVE  LET ids == {IdOf(n) : n \in S}
         IN  /\ IsFiniteSet(ids)
             /\ Cardinality(ids) <= Cardinality(S)
             /\ (\A m, n \in S : IdOf(m) = IdOf(n) => m = n)
                  => Cardinality(ids) = Cardinality(S)
<1> DEFINE ids == {IdOf(n) : n \in S}
           f == [n \in S |-> IdOf(n)]
<1>1. f \in Surjection(S, ids)
  BY DEF Surjection
<1>2. (\A m, n \in S : IdOf(m) = IdOf(n) => m = n) => f \in Injection(S, ids)
  BY DEF Injection, IsInjective
<1> HIDE DEF f
<1>3. /\ IsFiniteSet(ids)
      /\ Cardinality(ids) <= Cardinality(S)
      /\ Cardinality(ids) = Cardinality(S) <=> f \in Injection(S, ids)
  BY <1>1, FS_Surjection
<1> QED
  BY <1>2, <1>3

\* With as many ids recorded as there are nodes, every node has called; and
\* when every node has an id of its own, the converse holds.
OwnIds == \A m, n \in Node : IdOf(m) = IdOf(n) => m = n

LEMMA AllArrived ==
  ASSUME SignalsOnce, NEW h
  PROVE  LET r == {IdOf(c[1]) : c \in {d \in Call : h[d] # "idle"}}
             callers == {n \in Node : h[<<n, 1>>] # "idle"}
         IN  /\ AllReady(r) => callers = Node
             /\ OwnIds /\ callers = Node => AllReady(r)
<1> DEFINE r == {IdOf(c[1]) : c \in {d \in Call : h[d] # "idle"}}
           callers == {n \in Node : h[<<n, 1>>] # "idle"}
           ids == {IdOf(n) : n \in callers}
<1>1. IsFiniteSet(Node) /\ callers \in SUBSET Node
  BY ConstantAssumption
<1>2. r = ids
  BY ReadyByNode
<1>3. IsFiniteSet(callers) /\ Cardinality(callers) <= Cardinality(Node)
      /\ (Cardinality(Node) = Cardinality(callers) => Node = callers)
  BY <1>1, FS_Subset
<1>4. /\ IsFiniteSet(ids)
      /\ Cardinality(ids) <= Cardinality(callers)
      /\ OwnIds => Cardinality(ids) = Cardinality(callers)
  BY <1>1, <1>3, IdCount DEF OwnIds
<1>5. Cardinality(callers) \in Nat /\ Cardinality(ids) \in Nat
      /\ Cardinality(Node) \in Nat
  BY <1>1, <1>3, <1>4, FS_CardinalityType
<1>6. Expected = Cardinality(Node)
  BY DEF SignalsOnce
<1> HIDE DEF r, callers, ids
<1>7. /\ AllReady(r) => callers = Node
      /\ OwnIds /\ callers = Node => AllReady(r)
  BY <1>2, <1>3, <1>4, <1>5, <1>6 DEF AllReady
<1> QED
  BY <1>7 DEF r, callers

LEMMA FirstCall == \A n \in Node : <<n, 1>> \in Call
<1>1. 1 \in 1 .. MaxCalls
  BY ConstantAssumption
<1> QED
  BY <1>1 DEF Call

\* When every node has called under its own id, nobody waits any more.
LEMMA BarrierOpens ==
  ASSUME SignalsOnce, OwnIds, IInv, ReleaseRight, \A n \in Node : handler[<<n, 1>>] # "idle"
  PROVE  \A n \in Node : handler[<<n, 1>>] # "waiting"
<1> DEFINE r == {IdOf(c[1]) : c \in {d \in Call : handler[d] # "idle"}}
           callers == {n \in Node : handler[<<n, 1>>] # "idle"}
<1>1. callers = Node
  OBVIOUS
<1>2. /\ AllReady(r) => callers = Node
      /\ OwnIds /\ callers = Node => AllReady(r)
  BY AllArrived, Zenon
<1>3. readyNodes = r
  BY DEF IInv, ReadyExact, Called
<1>4. \A n \in Node : <<n, 1>> \in Call
  BY FirstCall
<1> HIDE DEF r, callers
<1>5. AllReady(r)
  BY <1>1, <1>2
<1>6. AllReady(readyNodes)
  BY <1>3, <1>5
<1> QED
  BY <1>4, <1>6 DEF ReleaseRight

\* The call that releases the barrier finds it unreleased.
LEMMA ReleasedOnce ==
  ASSUME SignalsOnce, IInv, NEW c \in Call, SignalAndRelease(c)
  PROVE  ~releaseEvent
<1> SUFFICES ASSUME releaseEvent PROVE FALSE
  OBVIOUS
<1>1. handler[<<c[1], 1>>] # "idle"
  BY AllArrived DEF IInv, ReadyExact, Called, AfterRelease, Call
<1>2. c = <<c[1], 1>>
  BY DEF SignalsOnce, Call
<1> QED
  BY <1>1, <1>2 DEF SignalAndRelease, MaySignal

LEMMA StepOneInstant ==
  ASSUME SignalsOnce, IInv, OneInstant, [Next]_vars
  PROVE  OneInstant'
<1>t. TypeOK /\ TypeOK'
  BY TypeStep DEF IInv
<1>1. CASE \E c \in Call : SignalAndRelease(c)
  <2> PICK c \in Call : SignalAndRelease(c)
    BY <1>1
  <2>1. \A d \in Call : handler[d] # "done"
    BY ReleasedOnce DEF IInv, BeforeRelease
  <2>2. \A d \in Call : handler'[d] = "done" => d = c
    BY <1>t, <2>1 DEF SignalAndRelease, WokenBySet, TypeOK
  <2> QED
    BY <1>t, <2>2 DEF SignalAndRelease, TypeOK, OneInstant
<1>2. CASE ~(\E c \in Call : SignalAndRelease(c))
  BY <1>t, <1>2 DEF Next, vars, servicerVars, SignalAndWait, Resume,
     ReturnedStart, Cancel, Crash, Tick, TypeOK, OneInstant
<1> QED
  BY <1>1, <1>2

\* When the expected nodes signal once each, all of them are released with
\* the same instant, whatever is cancelled or dies in between.
THEOREM Agreement == ASSUME SignalsOnce PROVE Spec => []OneInstant
<1>1. Init => OneInstant
  BY DEF Init, OneInstant
<1>2. IInv /\ OneInstant /\ [Next]_vars => OneInstant'
  BY StepOneInstant
<1> QED
  BY <1>1, <1>2, Invariance, PTL DEF Spec

\* Then ClusterSyncServicer implements the abstract start barrier.
THEOREM Refinement == ASSUME SignalsOnce, OwnIds PROVE Spec => ImplementsBarrier
<1>i. Call = Node \X {1}
  BY DEF SignalsOnce, Call
<1> DEFINE Arrived == {n \in Node : handler[<<n, 1>>] # "idle"}
           LeftWith == [n \in Node |-> response[<<n, 1>>]]
<1>1. Init => Barrier!BInit
  BY <1>i DEF Init, Barrier!BInit
<1>2. IInv /\ IInv' /\ OneInstant /\ OneInstant' /\ [Next]_vars
        => [Barrier!BNext]_Barrier!bvars
  <2> SUFFICES ASSUME IInv, IInv', OneInstant, OneInstant', [Next]_vars
               PROVE  [Barrier!BNext]_Barrier!bvars
    OBVIOUS
  <2>t. TypeOK /\ TypeOK'
    BY DEF IInv
  <2>n. \A c \in Call : c[1] \in Node /\ c = <<c[1], 1>>
    BY <1>i
  <2>f. \A n \in Node : <<n, 1>> \in Call /\ <<n, 1>>[1] = n
    BY <1>i
  <2>a. Arrived' = Node <=> AllReady(readyNodes)'
    BY AllArrived DEF IInv, ReadyExact, Called
  <2>1. CASE \E c \in Call : SignalAndWait(c)
    <3> PICK c \in Call : SignalAndWait(c)
      BY <2>1
    <3>1. c[1] \notin Arrived /\ Arrived' = Arrived \cup {c[1]}
      BY <2>t, <2>n, <2>f DEF SignalAndWait, MaySignal, TypeOK
    <3>2. Arrived' # Node
      BY <2>a DEF SignalAndWait, AllReady
    <3> QED
      BY <3>1, <3>2, <2>n DEF SignalAndWait, Barrier!Arrive, Barrier!BNext
  <2>2. CASE \E c \in Call : SignalAndRelease(c)
    <3> PICK c \in Call : SignalAndRelease(c)
      BY <2>2
    <3>1. c[1] \notin Arrived /\ Arrived' = Arrived \cup {c[1]}
      BY <2>t, <2>n, <2>f DEF SignalAndRelease, WokenBySet, MaySignal, TypeOK
    <3>2. Arrived' = Node
      BY <2>a DEF SignalAndRelease, AllReady
    <3>3. synchronizedStartUs = 0 /\ synchronizedStartUs' \in Nat \ {0}
      <4>1. synchronizedStartUs = 0
        BY ReleasedOnce DEF IInv, BeforeRelease
      <4>2. releaseEvent'
        BY DEF SignalAndRelease
      <4> QED
        BY <2>t, <4>1, <4>2 DEF IInv, AfterRelease, TypeOK
    <3>4. LeftWith' = [LeftWith EXCEPT ![c[1]] = synchronizedStartUs']
      BY <2>t, <2>n, <2>f DEF SignalAndRelease, TypeOK
    <3> QED
      BY <3>1, <3>2, <3>3, <3>4, <2>n DEF Barrier!ArriveLast, Barrier!BNext
  <2>3. CASE \E c \in Call : Resume(c)
    <3> PICK c \in Call : Resume(c)
      BY <2>3
    <3>1. Arrived' = Arrived
      BY <2>t, <2>f DEF Resume, TypeOK
    <3>2. Arrived = Node /\ Arrived # {} /\ c[1] \in Arrived
      <4>1. AllReady(readyNodes)
        BY DEF Resume, IInv, BeforeRelease, AfterRelease
      <4> QED
        BY <4>1, AllArrived, <2>n DEF IInv, ReadyExact, Called
    <3>3. LeftWith[c[1]] = 0
      BY <2>n DEF Resume, IInv, ResponseStamped
    <3>4. LeftWith' = [LeftWith EXCEPT ![c[1]] = synchronizedStartUs]
      BY <2>t, <2>n, <2>f DEF Resume, ReturnedStart, TypeOK
    <3> QED
      BY <3>1, <3>2, <3>3, <3>4, <2>n
         DEF Resume, servicerVars, Barrier!Leave, Barrier!BNext
  <2>4. CASE ~(\E c \in Call : SignalAndWait(c) \/ SignalAndRelease(c) \/ Resume(c))
    <3>1. UNCHANGED <<synchronizedStartUs, response>>
          /\ \A c \in Call : handler'[c] = "idle" <=> handler[c] = "idle"
      BY <2>t, <2>4 DEF Next, vars, servicerVars, Cancel, Crash, Tick, TypeOK
    <3>2. Arrived' = Arrived
      BY <3>1, <2>f
    <3> QED
      BY <3>1, <3>2 DEF Barrier!bvars
  <2> QED
    BY <2>1, <2>2, <2>3, <2>4
<1>3. Init => OneInstant
  BY DEF Init, OneInstant
<1>4. IInv /\ OneInstant /\ [Next]_vars => OneInstant'
  BY StepOneInstant
<1> QED
  BY <1>1, <1>2, <1>3, <1>4, Invariance, PTL DEF Spec, ImplementsBarrier, Barrier!BSpec
=============================================================================
