------------------------------- MODULE IoUring -------------------------------
(***************************************************************************)
(* IoUringTargetAdapter (src/steve/adapters/io_uring.py) over a ring and a *)
(* kernel, driven by one caller as in the worker: one request at a time,   *)
(* then the teardown of WorkerExecutionEngine.execute (buffer released,    *)
(* adapter flushed, adapter closed).                                       *)
(*                                                                         *)
(* write and read take the same path; a request is its number.  Opening    *)
(* and caching the descriptor matters only as an early error.              *)
(***************************************************************************)
EXTENDS Integers, Sequences, FiniteSets

CONSTANTS
    MaxOps,         \* bound: requests made
    QueueDepth,     \* queue_depth, the size of the submission queue
    Callers,        \* whether a caller goes on after an error, also after close
    IoErrors,       \* whether a request may complete with a negative result
    SubmitFaults    \* whether io_uring_submit may fail or take only some entries

ASSUME IoUringAssumption ==
    /\ MaxOps \in Nat \ {0} /\ QueueDepth \in Nat \ {0}
    /\ {IoErrors, SubmitFaults} \subseteq BOOLEAN /\ Callers \subseteq BOOLEAN

Op == 1 .. MaxOps

VARIABLES
    retries,        \* whether the caller of this run goes on after an error
    initialized,    \* self._initialized
    pc,             \* "idle", "waiting" in io_uring_wait_cqe, or a teardown step
    calls,          \* the number of requests made: the last one is current
    outcome,        \* what each request returned or raised
    failed,         \* whether a request raised since the ring was set up
    sq,             \* submission queue: prepared, not taken by the kernel
    inflight,       \* requests the kernel is executing
    cq,             \* completion queue: [op, res] entries not marked seen
    mapped          \* whether the buffer the entries point into is mapped

ringVars == <<sq, inflight, cq>>
vars == <<retries, initialized, pc, calls, outcome, failed, sq, inflight, cq, mapped>>

Errors == {"AdapterError", "AlignmentError", "QueueFullError", "HardwareIoError"}
\* "from" is the request whose completion entry gave the result, 0 if none.
Outcome == [kind : {"none", "ok"} \cup Errors, from : 0 .. MaxOps]
Completion == [op : Op, res : {"ok", "error"}]

TypeOK ==
    /\ retries \in Callers /\ initialized \in BOOLEAN /\ failed \in BOOLEAN /\ mapped \in BOOLEAN
    /\ pc \in {"idle", "waiting", "released", "flushed", "closed"}
    /\ calls \in 0 .. MaxOps
    /\ outcome \in [Op -> Outcome]
    /\ sq \in Seq(Op) /\ Len(sq) <= QueueDepth
    /\ inflight \subseteq Op
    /\ cq \in Seq(Completion)

Init ==
    /\ retries \in Callers
    /\ initialized = FALSE /\ pc = "idle" /\ calls = 0 /\ failed = FALSE
    /\ outcome = [o \in Op |-> [kind |-> "none", from |-> 0]]
    /\ sq = <<>> /\ inflight = {} /\ cq = <<>> /\ mapped = TRUE

-----------------------------------------------------------------------------
\* The caller makes its next request: the worker stops at the first error.
MayCall ==
    /\ pc = "idle"
    /\ calls < MaxOps
    /\ failed => retries

Ends(o, kind, from) == outcome' = [outcome EXCEPT ![o] = [kind |-> kind, from |-> from]]

\* io_uring_queue_init fails in the lazy initialize.
InitializeFails ==
    /\ MayCall
    /\ ~initialized
    /\ calls' = calls + 1
    /\ Ends(calls', "AdapterError", 0)
    /\ failed' = TRUE
    /\ UNCHANGED <<retries, initialized, pc, ringVars, mapped>>

\* _verify_alignment or _get_or_open_fd raises: nothing reached the ring.
Refuse ==
    /\ MayCall
    /\ initialized' = TRUE
    /\ calls' = calls + 1
    /\ \E e \in {"AlignmentError", "AdapterError"} : Ends(calls', e, 0)
    /\ failed' = TRUE
    /\ UNCHANGED <<retries, pc, ringVars, mapped>>

\* What io_uring_submit may take of a queue: all of it, or part of it.
TakenMaybeNone(q) == 0 .. Len(q)
Taken(q) == IF SubmitFaults THEN 1 .. Len(q) ELSE {Len(q)}

SubmitLeavingQueue(q, n) == q
AfterSubmit(q, n) == SubSeq(q, n + 1, Len(q))
Submitted(q, n) == {q[i] : i \in 1 .. n}

\* The submission queue is full and the submit on line 129 frees no entry.
QueueFull ==
    /\ MayCall
    /\ SubmitFaults
    /\ Len(sq) = QueueDepth
    /\ calls' = calls + 1
    /\ Ends(calls', "QueueFullError", 0)
    /\ failed' = TRUE
    /\ initialized' = TRUE
    /\ UNCHANGED <<retries, pc, ringVars, mapped>>

\* The entries left and taken when get_sqe has found a free entry: on a full
\* queue the submit on line 129 has taken n of them.
FreeEntry(n) == IF Len(sq) = QueueDepth THEN n \in Taken(sq) ELSE n = 0

\* The entry is prepared and io_uring_submit fails: it stays in the queue.
SubmitFails ==
    /\ MayCall
    /\ SubmitFaults
    /\ calls' = calls + 1
    /\ \E n \in 0 .. Len(sq) :
          /\ FreeEntry(n)
          /\ sq' = Append(AfterSubmit(sq, n), calls')
          /\ inflight' = inflight \cup Submitted(sq, n)
    /\ Ends(calls', "AdapterError", 0)
    /\ failed' = TRUE
    /\ initialized' = TRUE
    /\ UNCHANGED <<retries, pc, cq, mapped>>

\* The entry is prepared, the queue submitted, and the caller blocks in
\* io_uring_wait_cqe.
Submit ==
    /\ MayCall
    /\ calls' = calls + 1
    /\ \E n \in 0 .. Len(sq) :
          /\ FreeEntry(n)
          /\ LET q == Append(AfterSubmit(sq, n), calls')
             IN  \E m \in Taken(q) :
                    /\ sq' = AfterSubmit(q, m)
                    /\ inflight' = inflight \cup Submitted(sq, n) \cup Submitted(q, m)
    /\ pc' = "waiting"
    /\ initialized' = TRUE
    /\ UNCHANGED <<retries, outcome, failed, cq, mapped>>

\* The kernel completes any request it has, in any order.
Complete(o) ==
    /\ o \in inflight
    /\ inflight' = inflight \ {o}
    /\ \E r \in IF IoErrors THEN {"ok", "error"} ELSE {"ok"} :
          cq' = Append(cq, [op |-> o, res |-> r])
    /\ UNCHANGED <<retries, initialized, pc, calls, outcome, failed, sq, mapped>>

\* The wait returns the oldest entry not seen.  io_uring_cqe_seen is reached
\* only when the result is not negative (lines 145-148).
SeenNever == cq
Seen == Tail(cq)

HarvestOk ==
    /\ pc = "waiting" /\ cq # <<>>
    /\ Head(cq).res = "ok"
    /\ Ends(calls, "ok", Head(cq).op)
    /\ cq' = Seen
    /\ pc' = "idle"
    /\ UNCHANGED <<retries, initialized, calls, failed, sq, inflight, mapped>>

HarvestError ==
    /\ pc = "waiting" /\ cq # <<>>
    /\ Head(cq).res = "error"
    /\ Ends(calls, "HardwareIoError", Head(cq).op)
    /\ failed' = TRUE
    /\ pc' = "idle"
    /\ UNCHANGED <<retries, initialized, calls, sq, inflight, cq, mapped>>

\* Teardown of execute(): mutator.close() comes first (worker.py:99).
ReleaseBuffer ==
    /\ pc = "idle"
    /\ mapped' = FALSE
    /\ pc' = "released"
    /\ UNCHANGED <<retries, initialized, calls, outcome, failed, ringVars>>

\* adapter.flush(): submits what is queued, ignores the result, waits for
\* nothing, and syncs the descriptor.
Flush ==
    /\ pc = "released"
    /\ \E n \in IF sq = <<>> \/ ~initialized THEN {0}
                ELSE Taken(sq) \cup (IF SubmitFaults THEN {0} ELSE {}) :
          /\ sq' = AfterSubmit(sq, n)
          /\ inflight' = inflight \cup Submitted(sq, n)
    /\ pc' = "flushed"
    /\ UNCHANGED <<retries, initialized, calls, outcome, failed, cq, mapped>>

\* adapter.close(): io_uring_queue_exit gives the ring back.
Close ==
    /\ pc = "flushed"
    /\ initialized' = FALSE
    /\ sq' = <<>> /\ inflight' = {} /\ cq' = <<>>
    /\ pc' = "closed"
    /\ UNCHANGED <<retries, calls, outcome, failed, mapped>>

\* Another caller uses the adapter after close: the next request sets up a
\* new ring.
Reopen ==
    /\ pc = "closed"
    /\ retries
    /\ calls < MaxOps
    /\ pc' = "idle" /\ failed' = FALSE /\ mapped' = TRUE
    /\ UNCHANGED <<retries, initialized, calls, outcome, ringVars>>

Next ==
    \/ InitializeFails \/ Refuse \/ QueueFull \/ SubmitFails \/ Submit
    \/ \E o \in Op : Complete(o)
    \/ HarvestOk \/ HarvestError
    \/ ReleaseBuffer \/ Flush \/ Close \/ Reopen

Spec == Init /\ [][Next]_vars

\* The kernel completes every request; a call that can return does.
FairSpec ==
    Spec /\ WF_vars(HarvestOk \/ HarvestError) /\ \A o \in Op : WF_vars(Complete(o))

-----------------------------------------------------------------------------
\* The result a request returns or raises is the result of that request, not
\* of an earlier one whose completion was still in the ring.
ResultIsOwn ==
    \A o \in Op : outcome[o].kind \in {"ok", "HardwareIoError"} => outcome[o].from = o

\* Nothing fails once the ring is reached, or the caller stops at the first
\* error, as the worker does (worker.py:77-95).
Faultless == ~IoErrors /\ ~SubmitFaults
Orderly == Faultless \/ ~retries

\* With the worker as caller no request is answered with the completion of
\* another, although a failed one is never marked seen (io_uring.py:145).
WorkerResultIsOwn == Orderly => ResultIsOwn

\* The requests that failed in a way that can leave an entry in the ring: a
\* failed submit (line 138), a completion not marked seen (line 145).
Failures == {o \in Op : outcome[o].kind \in {"AdapterError", "HardwareIoError"}}

\* The ring does not fill up: every failure leaves one entry at most, queued,
\* executing or completed, and a request that returns takes one out for the one
\* it put in, whosever it was.  The current request, which waits, has one more.
LeftoversAreFailures ==
    Len(sq) + Cardinality(inflight) + Len(cq)
        <= Cardinality(Failures) + (IF pc = "waiting" THEN 1 ELSE 0)

\* A caller that waits does get an answer: it never waits with nothing left
\* that could complete.
CallReturns == pc = "waiting" ~> pc = "idle"

\* "Upon reaching test duration, workers flush pending completion queues, unmap
\* ring buffers" (HLD-DIST-001.md:141): the kernel executes nothing that points
\* into a buffer given back.  execute() unmaps first (worker.py:99-101).
FlushedBeforeUnmap == ~mapped => inflight = {}
=============================================================================
