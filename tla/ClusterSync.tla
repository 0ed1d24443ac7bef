----------------------------- MODULE ClusterSync -----------------------------
(***************************************************************************)
(* The cluster barrier of src/steve/orchestrator/sync.py.                  *)
(*                                                                         *)
(* A node daemon reports readiness with the RPC signal_ready.  The servicer*)
(* is one asyncio object: a handler runs without interruption up to its    *)
(* only await, so one action is one stretch of a handler between two       *)
(* suspensions.  A call is a pair <<node, attempt>>: a node may signal     *)
(* again (retry after a client timeout, duplicate delivery, a daemon that  *)
(* restarted), up to MaxCalls times.                                       *)
(***************************************************************************)
EXTENDS Integers, FiniteSets

CONSTANTS
    Node,       \* the node daemons
    NodeIds,    \* the values request.node_id can take, "local_node" included
    IdOf(_),    \* the node_id the requests of a node carry
    Expected,   \* expected_node_count
    Lead,       \* sync_lead_time_ms, in the unit of the clock
    MaxCalls,   \* bound: signal_ready calls one node makes
    MaxClock,   \* bound: the largest value the clock takes
    MayCrash,   \* the nodes that may die before they signal
    MayCancel   \* the nodes whose pending call may be cancelled (RPC deadline)

ASSUME ConstantAssumption ==
    /\ IsFiniteSet(Node)
    /\ \A n \in Node : IdOf(n) \in NodeIds
    /\ Expected \in Nat \ {0}
    /\ Lead \in Nat
    /\ MaxCalls \in Nat \ {0}
    /\ MaxClock \in Nat \ {0}
    /\ MayCrash \subseteq Node
    /\ MayCancel \subseteq Node

Call == Node \X (1 .. MaxCalls)

VARIABLES
    readyNodes,             \* keys of self._ready_nodes
    releaseEvent,           \* self._release_event.is_set()
    synchronizedStartUs,    \* self._synchronized_start_us
    handler,                \* where the handler of each call is
    response,               \* synchronized_start_us returned to a call, 0 if none
    alive,                  \* the node daemons that are running
    now                     \* time.time(), a positive instant of the wall clock

servicerVars == <<readyNodes, releaseEvent, synchronizedStartUs>>
vars == <<readyNodes, releaseEvent, synchronizedStartUs, handler, response,
          alive, now>>

\* "waiting": suspended in the event's wait; "woken": its future was resolved
\* by set() and the task is scheduled, but has not run yet.
HandlerState == {"idle", "waiting", "woken", "done", "cancelled"}

TypeOK ==
    /\ readyNodes \subseteq NodeIds
    /\ releaseEvent \in BOOLEAN
    /\ synchronizedStartUs \in Nat
    /\ handler \in [Call -> HandlerState]
    /\ response \in [Call -> Nat]
    /\ alive \subseteq Node
    /\ now \in Nat \ {0}

Init ==
    /\ readyNodes = {}
    /\ releaseEvent = FALSE
    /\ synchronizedStartUs = 0
    /\ handler = [c \in Call |-> "idle"]
    /\ response = [c \in Call |-> 0]
    /\ alive = Node
    /\ now = 1

-----------------------------------------------------------------------------
\* len(self._ready_nodes) >= self._expected_node_count, line 33.
AllReadyOffByOne(ready) == Cardinality(ready) + 1 >= Expected
AllReady(ready) == Cardinality(ready) >= Expected

\* The instant stamped on line 35.
FutureEpoch == now + Lead

\* The handlers suspended in wait() are all resolved by one set().
WokenBySetFirstOnly ==
    [c \in Call |-> IF handler[c] = "waiting" /\ c = CHOOSE d \in Call : handler[d] = "waiting"
                    THEN "woken" ELSE handler[c]]
WokenBySet ==
    [c \in Call |-> IF handler[c] = "waiting" THEN "woken" ELSE handler[c]]

\* The call is the first of its node, or a repetition of an earlier one.
MaySignal(c) ==
    /\ handler[c] = "idle"
    /\ c[1] \in alive
    /\ c[2] > 1 => handler[<<c[1], c[2] - 1>>] # "idle"

\* signal_ready up to its await, when not every node is in: the call suspends.
SignalAndWait(c) ==
    /\ MaySignal(c)
    /\ readyNodes' = readyNodes \cup {IdOf(c[1])}
    /\ ~AllReady(readyNodes')
    /\ ~releaseEvent
    /\ handler' = [handler EXCEPT ![c] = "waiting"]
    /\ UNCHANGED <<releaseEvent, synchronizedStartUs, response, alive, now>>

\* signal_ready when enough distinct ids are in: the start instant is stamped
\* (again, if the barrier was released before), the event is set, and wait()
\* returns at once, so the same step returns the response.
SignalAndRelease(c) ==
    /\ MaySignal(c)
    /\ readyNodes' = readyNodes \cup {IdOf(c[1])}
    /\ AllReady(readyNodes')
    /\ synchronizedStartUs' = FutureEpoch
    /\ releaseEvent' = TRUE
    /\ handler' = [WokenBySet EXCEPT ![c] = "done"]
    /\ response' = [response EXCEPT ![c] = synchronizedStartUs']
    /\ UNCHANGED <<alive, now>>

\* A woken handler runs to its return and reads the instant as it is now.
ReturnedStartFresh == now + Lead
ReturnedStart == synchronizedStartUs

Resume(c) ==
    /\ handler[c] = "woken"
    /\ handler' = [handler EXCEPT ![c] = "done"]
    /\ response' = [response EXCEPT ![c] = ReturnedStart]
    /\ UNCHANGED <<servicerVars, alive, now>>

\* The RPC deadline of the client expires: CancelledError is thrown at the
\* await and propagates.  Nothing is undone: the node stays in _ready_nodes.
Cancel(c) ==
    /\ c[1] \in MayCancel
    /\ handler[c] \in {"waiting", "woken"}
    /\ handler' = [handler EXCEPT ![c] = "cancelled"]
    /\ UNCHANGED <<servicerVars, response, alive, now>>

\* A node daemon dies; the servicer keeps no heartbeat and learns nothing.
Crash(n) ==
    /\ n \in MayCrash \cap alive
    /\ alive' = alive \ {n}
    /\ UNCHANGED <<servicerVars, handler, response, now>>

\* time.time() is a wall clock: between two readings it may advance by any
\* amount, or be stepped back by NTP or an operator.
Tick ==
    /\ now' \in (1 .. MaxClock) \ {now}
    /\ UNCHANGED <<servicerVars, handler, response, alive>>

Next ==
    \/ \E c \in Call : \/ SignalAndWait(c)
                       \/ SignalAndRelease(c)
                       \/ Resume(c)
                       \/ Cancel(c)
    \/ \E n \in Node : Crash(n)
    \/ Tick

Spec == Init /\ [][Next]_vars

\* A running node does signal, and the event loop runs every ready task.
Fairness ==
    /\ \A n \in Node :
          WF_vars(SignalAndWait(<<n, 1>>) \/ SignalAndRelease(<<n, 1>>))
    /\ \A c \in Call : WF_vars(Resume(c))

FairSpec == Spec /\ Fairness

-----------------------------------------------------------------------------
Called == {c \in Call : handler[c] # "idle"}
Done   == {c \in Call : handler[c] = "done"}

\* No call returns before requests with Expected distinct node ids arrived:
\* the condition on line 33 counts ids, so duplicates and retries of one node
\* never release the others.
NoEarlyRelease ==
    Done # {} => Cardinality({IdOf(c[1]) : c \in Called}) >= Expected

\* A released call carries a real instant, never the 0 the servicer starts
\* with: a woken handler reads the field after it was stamped.
ReleasedWithStart == \A c \in Done : response[c] > 0

\* Every signal beyond the expected number adds at most one start instant to
\* those handed out.  With as many signals as nodes are expected all responses
\* are equal (resp1 and resp2 in tests/test_cluster_sync.py:31); line 36 stamps
\* a new instant on each later signal, and a woken handler returns one of the
\* stamped instants, whatever the clock does between its signal and its return.
OneStartPerSignal ==
    Done # {} => Cardinality({response[c] : c \in Done}) + Expected
                   <= Cardinality(Called) + 1

\* Every waiting handler is eventually released (or cancelled by its client).
WaiterReleased ==
    \A c \in Call : handler[c] = "waiting" ~> handler[c] \in {"done", "cancelled"}

-----------------------------------------------------------------------------
\* Refinement of the abstract barrier, where every node signals once.
Barrier == INSTANCE StartBarrier WITH
    Party    <- Node,
    arrived  <- {n \in Node : handler[<<n, 1>>] # "idle"},
    start    <- synchronizedStartUs,
    leftWith <- [n \in Node |-> response[<<n, 1>>]]

\* ClusterSyncServicer implements the abstract barrier when each of the
\* Expected nodes signals exactly once: one instant, decided by the last node.
ImplementsBarrier == Barrier!BSpec
=============================================================================
