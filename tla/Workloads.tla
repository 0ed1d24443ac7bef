------------------------------ MODULE Workloads ------------------------------
(***************************************************************************)
(* The use cases that drive adapters from one event loop: 02, 05, 06, 07,  *)
(* 09 and 10 of src/usecases, with the buffer pool, the payload mutator,   *)
(* the descriptor cache of the POSIX adapter and the S3 and vector         *)
(* adapters they share.                                                    *)
(*                                                                         *)
(* A use case is a list of stages; a stage is one inline loop, or several  *)
(* coroutines under asyncio.gather.  The loop runs one coroutine at a      *)
(* time, from one suspension to the next.  Which of the coroutines that    *)
(* can go on is next is left open: all but the first turn of each come     *)
(* after sleeps of free length.  One coroutine is a "task" below, whether  *)
(* gather made a task of it or the main coroutine awaits it.               *)
(***************************************************************************)
EXTENDS QueryBatches, SequencesExt

CONSTANTS
    Runs            \* the use cases run: [name, args], args as in the source

\* How many arguments each of them takes here.
Arity == [usecase_02 |-> 1, usecase_05 |-> 4, usecase_06 |-> 3,
          usecase_07 |-> 3, usecase_09 |-> 3, usecase_10 |-> 3]

\* Use case 05 divides by its query_concurrency.
ASSUME WorkloadsAssumption ==
    \A r \in Runs :
        /\ r.name \in DOMAIN Arity /\ r.args \in [1 .. Arity[r.name] -> Nat]
        /\ r.name = "usecase_05" => r.args[3] > 0

\* The resource paths of the POSIX targets.
Paths == {"ai_sim_target.dat", "tenant_a_oltp.dat", "tenant_b_batch.dat",
          "tier_hot_nvme.dat", "tier_warm_block.dat", "microburst_target.dat"}

\* What a loop does: so many operations from an index, with buffers of a pool
\* or a mutator, on an adapter, asleep after every "pause"-th of them (0 never).
Loop(ops, adapter) ==
    [ops |-> ops, first |-> 0, adapter |-> adapter, path |-> "", shared |-> 0,
     slots |-> 1, payload |-> "pool", pause |-> 0, collectors |-> {}, flush |-> FALSE]
Pooled(loop, slots) == [loop EXCEPT !.slots = slots]
Seeded(loop, payload) == [loop EXCEPT !.payload = payload]
OnFile(loop, path) == [loop EXCEPT !.path = path]
Into(loop, collectors) == [loop EXCEPT !.collectors = collectors]
Paced(loop, pause) == [loop EXCEPT !.pause = pause]
Sharing(loop, pool) == [loop EXCEPT !.shared = pool]
Flushed(loop) == [loop EXCEPT !.flush = TRUE]

\* A pool or mutator the main coroutine opens before the stage "from"; "to" is
\* the last stage it is used in, 0 if nothing ever closes it.
ClosedAtOnce(from, to) == [from |-> from, to |-> from]
Shared(from, to) == [from |-> from, to |-> to]
UseCase(stages, shared, dir) == [stages |-> stages, shared |-> shared, dir |-> dir]

-----------------------------------------------------------------------------
(* The use cases. *)

\* The ratios 0.0 to 1.0, each with its own mutator, then the audit.
AuditBlocks == 16
DedupCompression(iterations) ==
    LET Sweep(kind) == <<Seeded(Loop(1 + iterations, "none"), kind)>>
    IN  UseCase(<<Sweep("zeroes"), Sweep("sample"), Sweep("sample"), Sweep("sample"),
                  Sweep("sample"), <<Seeded(Loop(2 * AuditBlocks, "none"), "audit")>> >>,
                <<>>, FALSE)

VectorPool(clients) == Max({8, clients * 2})
VectorS3(upserts, queries, clients, chunks) ==
    LET loop(n) == Sharing(Pooled(Loop(n, "vector"), VectorPool(clients)), 1)
        QueryWorker(c) ==
            Into([loop(QueryCount(queries, clients, c)) EXCEPT
                      !.first = QueryStart(queries, clients, c)], {"query"})
        busy == {c \in 1 .. clients : QueryCount(queries, clients, c - 1) > 0}
    IN  UseCase(<< <<Flushed(Into(loop(upserts), {"upsert"}))>>,
                   [c \in busy |-> QueryWorker(c - 1)],
                   <<Flushed(Into(Pooled(Loop(chunks, "s3"), 4), {"s3"}))>> >>,
                <<Shared(1, 3)>>, FALSE)

KvCache(prefillMb, tokens, checkpointMb) ==
    LET loop(n) == OnFile(Loop(n, "posix"), "ai_sim_target.dat")
    IN  UseCase(<< <<Sharing(Seeded(Into(loop(Max({1, prefillMb})), {"prefill"}), "seed"), 1)>>,
                   <<Sharing(Seeded(Into(loop(tokens), {"decode"}), "seed"), 2)>>,
                   <<Flushed(Pooled(loop(checkpointMb), 4))>> >>,
                <<Shared(1, 0), Shared(2, 0)>>, TRUE)

TenantA(ops, collector) ==
    Paced(Into(Pooled(OnFile(Loop(ops, "posix"), "tenant_a_oltp.dat"), 4), {collector}), 1)
TenantB(chunks, collector, pause) ==
    Paced(Into(Seeded(OnFile(Loop(chunks, "posix"), "tenant_b_batch.dat"), "seed"),
               {collector}), pause)
MultitenantQos(ops, chunks, throttle) ==
    LET baseline == <<TenantA(ops, "a_baseline")>>
        contended == <<TenantA(ops, "a_contended"), TenantB(chunks, "b_unthrottled", 0)>>
        qos == <<TenantA(ops, "a_qos"), TenantB(chunks, "b_qos", 1)>>
    IN  UseCase(IF throttle THEN <<baseline, contended, qos>> ELSE <<baseline, contended>>,
                <<>>, TRUE)

StorageTiering(hotOps, warmMb, coldChunks) ==
    UseCase(<< <<Into(Pooled(OnFile(Loop(hotOps, "posix"), "tier_hot_nvme.dat"), 4), {"hot"})>>,
               <<Into(Seeded(OnFile(Loop(warmMb, "posix"), "tier_warm_block.dat"), "seed"),
                      {"warm"})>>,
               <<Flushed(Into(Pooled(Loop(coldChunks, "s3"), 2), {"cold"}))>> >>,
            <<>>, TRUE)

Microburst(steadyOps, cycles, intensity) ==
    LET loop(n, collector) ==
            Into(Sharing(Pooled(OnFile(Loop(n, "posix"), "microburst_target.dat"), 8), 1),
                 {collector, "combined"})
        steady == Paced(loop(steadyOps, "steady"), 1)
        burst == Paced(loop(intensity, "burst"), intensity)
    IN  UseCase([s \in 1 .. 1 + cycles |-> IF s = 1 THEN <<steady>> ELSE <<burst>>],
                <<Shared(1, 1 + cycles)>>, TRUE)

Plan(r) ==
    CASE r.name = "usecase_02" -> DedupCompression(r.args[1])
      [] r.name = "usecase_05" -> VectorS3(r.args[1], r.args[2], r.args[3], r.args[4])
      [] r.name = "usecase_06" -> KvCache(r.args[1], r.args[2], r.args[3])
      [] r.name = "usecase_07" -> MultitenantQos(r.args[1], r.args[2], r.args[3] = 1)
      [] r.name = "usecase_09" -> StorageTiering(r.args[1], r.args[2], r.args[3])
      [] r.name = "usecase_10" -> Microburst(r.args[1], r.args[2], r.args[3])

-----------------------------------------------------------------------------
VARIABLES
    run,            \* the use case that runs
    stage,          \* the stage reached; 0 before the first
    main,           \* the main coroutine and, once it raised, asyncio.run
    task,           \* where each coroutine of the stage is
    done,           \* operations each of them completed
    blocks,         \* the payloads each mutator handed out in this stage
    open,           \* pools and mutators not closed
    dir,            \* the temporary directory; no data file is in it
    opened,         \* os.open calls per path: the adapter caches what it opens
    counted         \* operations recorded, per collector

vars == <<run, stage, main, task, done, blocks, open, dir, opened, counted>>

plan == Plan(run)
Loops == IF stage \in DOMAIN plan.stages THEN plan.stages[stage] ELSE <<>>
Tasks == DOMAIN Loops

Collectors ==
    UNION {UNION {loop.collectors : loop \in ToSet(tasks)} : tasks \in ToSet(plan.stages)}

\* The words of a block that every positive ratio changes: the XOR of the seeds
\* applied so far, as the set of its bits, and, for an odd number of them, of the
\* constant of the mask.  Seeds are small: those of the audit are below 16.
SeedBits == 0 .. 30
Bits(n) == {k \in SeedBits : (n \div 2^k) % 2 = 1}
Content == [odd : BOOLEAN, seeds : SUBSET SeedBits]
Zeros == [odd |-> FALSE, seeds |-> {}]

WTypeOK ==
    /\ run \in Runs /\ stage \in 0 .. Len(plan.stages)
    /\ main \in {"running", "awaiting", "raised", "failed", "returned"}
    /\ task \in [Tasks -> {"ready", "running", "inflight", "asleep", "done", "failed",
                           "cancelled"}]
    /\ done \in [Tasks -> Nat] /\ blocks \in [Tasks -> Seq(Content)]
    /\ \A t \in Tasks : done[t] <= Loops[t].ops
    /\ dir \in {"none", "there", "gone"}
    /\ opened \in [Paths -> 0 .. 1]
    /\ counted \in [Collectors -> Nat]

Init ==
    /\ run \in Runs
    /\ stage = 0 /\ main = "running"
    /\ task = <<>> /\ done = <<>> /\ blocks = <<>> /\ open = {} /\ dir = "none"
    /\ opened = [p \in Paths |-> 0]
    /\ counted = [c \in Collectors |-> 0]

-----------------------------------------------------------------------------
(* The main coroutine. *)

SharedIn(s, field) == {<<0, i>> : i \in {j \in DOMAIN plan.shared : plan.shared[j][field] = s}}

StageStarts ==
    /\ main = "running" /\ stage < Len(plan.stages)
    /\ main' = "awaiting" /\ stage' = stage + 1
    /\ task' = [t \in DOMAIN plan.stages[stage + 1] |-> "ready"]
    /\ done' = [t \in DOMAIN plan.stages[stage + 1] |-> 0]
    /\ blocks' = [t \in DOMAIN plan.stages[stage + 1] |-> <<>>]
    /\ open' = open \cup SharedIn(stage + 1, "from")
    /\ dir' = IF stage = 0 /\ plan.dir THEN "there" ELSE dir
    /\ UNCHANGED <<run, opened, counted>>

AllDone == \A t \in Tasks : task[t] = "done"

StageOver ==
    /\ main = "awaiting" /\ AllDone
    /\ main' = "running"
    /\ open' = open \ SharedIn(stage, "to")
    /\ UNCHANGED <<run, stage, task, done, blocks, dir, opened, counted>>

\* The cleanup of the temporary directory may fail.  Use cases 06, 07 and 10
\* suppress that, the with statement of use case 09 raises it.
Cleanup == IF dir = "there" THEN {"there", "gone"} ELSE {dir}
Suppressed(r) == r.name # "usecase_09"

\* gather raises the first exception at once; the other coroutines are still
\* there when the finally clauses of the main coroutine run.
NeverNoticed == FALSE
SomeFailed == \E t \in Tasks : task[t] = "failed"

StageRaises ==
    /\ main = "awaiting" /\ SomeFailed
    /\ main' = "raised"
    /\ open' = open \ {<<0, i>> : i \in {j \in DOMAIN plan.shared : plan.shared[j].to > 0}}
    /\ dir' \in Cleanup
    /\ UNCHANGED <<run, stage, task, done, blocks, opened, counted>>

Return ==
    /\ main = "running" /\ stage = Len(plan.stages)
    /\ dir' \in Cleanup
    /\ main' = IF dir' # "there" \/ Suppressed(run) THEN "returned" ELSE "failed"
    /\ UNCHANGED <<run, stage, task, done, blocks, open, opened, counted>>

-----------------------------------------------------------------------------
(* A coroutine. *)

\* No write, read or flush of an adapter awaits anything that suspends.
Suspends(adapter) == FALSE

\* The loop has nobody else to run.
MayRun(t) ==
    \A u \in Tasks \ {t} :
        task[u] # "running" /\ (task[u] = "inflight" => Suspends(Loops[u].adapter))

Source(t) == IF Loops[t].shared = 0 THEN <<stage, t>> ELSE <<0, Loops[t].shared>>
Own(t) == {Source(u) : u \in {v \in {t} : Loops[v].shared = 0}}
Moves(t, place) == task' = [task EXCEPT ![t] = place]

\* Its first turn, in which it opens a pool or mutator of its own, or the one
\* after its sleep is over.
Resume(t) ==
    /\ task[t] \in {"ready", "asleep"} /\ MayRun(t)
    /\ Moves(t, "running")
    /\ open' = IF task[t] = "ready" THEN open \cup Own(t) ELSE open
    /\ UNCHANGED <<run, stage, main, done, blocks, dir, opened, counted>>

\* acquire(index)
Slot(t) == (Loops[t].first + done[t]) % Loops[t].slots

\* mutate_entropy_block and apply_entropy XOR the mask of the seed into what
\* the buffer holds already; a ratio of 0 changes nothing.
SeedOf(payload, n) ==
    CASE payload = "sample" -> IF n = 0 THEN 42 ELSE n - 1
      [] payload = "audit" -> n \div 2
      [] OTHER -> n
Untouched(payload, n) == payload = "zeroes" \/ (payload = "audit" /\ n % 2 = 0)
Mutated(content, payload, n) ==
    IF Untouched(payload, n) THEN content
    ELSE [odd |-> ~content.odd, seeds |-> SymDiff(content.seeds, Bits(SeedOf(payload, n)))]

Held(t) == IF blocks[t] = <<>> THEN Zeros ELSE Last(blocks[t])

Uncached(path) == path \in Paths
ToBeOpened(path) == path \in Paths /\ opened[path] = 0

\* The payload is taken, the descriptor found or opened, the request made.
Issue(t) ==
    /\ task[t] = "running" /\ MayRun(t) /\ done[t] < Loops[t].ops
    /\ Moves(t, "inflight")
    /\ blocks' = IF Loops[t].payload = "pool" THEN blocks
                 ELSE [blocks EXCEPT ![t] =
                          Append(@, Mutated(Held(t), Loops[t].payload, done[t]))]
    /\ opened' = IF ToBeOpened(Loops[t].path)
                 THEN [opened EXCEPT ![Loops[t].path] = @ + 1] ELSE opened
    /\ UNCHANGED <<run, stage, main, done, open, dir, counted>>

Sleeps(t) == Loops[t].pause > 0 /\ (done[t] + 1) % Loops[t].pause = 0

\* The request returns and is recorded in every collector of the loop.
Counted(t) ==
    [c \in DOMAIN counted |-> IF c \in Loops[t].collectors THEN counted[c] + 1
                              ELSE counted[c]]

Complete(t) ==
    /\ task[t] = "inflight" /\ MayRun(t)
    /\ done' = [done EXCEPT ![t] = @ + 1]
    /\ counted' = Counted(t)
    /\ Moves(t, IF Sleeps(t) THEN "asleep" ELSE "running")
    /\ UNCHANGED <<run, stage, main, blocks, open, dir, opened>>

\* A coroutine that ends, in whatever way, closes what it opened.
Leaves(t, place) ==
    /\ Moves(t, place)
    /\ open' = open \ Own(t)
    /\ UNCHANGED <<run, stage, main, done, blocks, dir, opened, counted>>

\* Only the POSIX adapter raises: on open, on lseek or write, on fsync.
Raises(t) ==
    /\ Loops[t].adapter = "posix" /\ MayRun(t)
    /\ \/ task[t] = "inflight"
       \/ /\ task[t] = "running" /\ done[t] < Loops[t].ops /\ ToBeOpened(Loops[t].path)
       \/ /\ task[t] = "running" /\ done[t] = Loops[t].ops /\ Loops[t].flush
          /\ opened[Loops[t].path] > 0
    /\ Leaves(t, "failed")

Ends(t) ==
    /\ task[t] = "running" /\ MayRun(t) /\ done[t] = Loops[t].ops
    /\ Leaves(t, "done")

\* asyncio.run cancels what is left once the main coroutine has raised; the
\* coroutines get the cancellation where they sleep.
Orphans == {t \in Tasks : task[t] \in {"ready", "asleep"}}
LeftOpen == {}
ClosedByOrphans == UNION {Own(t) : t \in Orphans}

CancelOrphans ==
    /\ main = "raised"
    /\ \A t \in Tasks : task[t] \notin {"running", "inflight"}
    /\ main' = "failed"
    /\ task' = [t \in Tasks |-> IF t \in Orphans THEN "cancelled" ELSE task[t]]
    /\ open' = open \ ClosedByOrphans
    /\ UNCHANGED <<run, stage, done, blocks, dir, opened, counted>>

Next ==
    \/ StageStarts \/ StageOver \/ StageRaises \/ Return \/ CancelOrphans
    \/ \E t \in Tasks : Resume(t) \/ Issue(t) \/ Complete(t) \/ Raises(t) \/ Ends(t)

Spec == Init /\ [][Next]_vars

\* The process is scheduled and its clock runs, so sleeps end.
FairSpec == Spec /\ WF_vars(Next)

-----------------------------------------------------------------------------
\* No coroutine gets or uses a buffer of a pool or mutator that was closed: the
\* main coroutine closes a shared one only when all of its users are through
\* (acquire on a closed pool divides by zero, buffer_pool.py:49).
NoUseAfterClose ==
    \A t \in Tasks : task[t] \in {"running", "inflight", "asleep"} => Source(t) \in open

\* However a use case ends, no coroutine of it lives on, and every pool and
\* mutator is closed, also those of coroutines that outlive the finally clauses
\* of the main one; but for the two that use case 06 has no finally clause for
\* (mutator and decode_mutator).  Nothing is said of the directory, whose
\* removal may fail unseen, nor of the data files: they are not in it, since the
\* adapter opens the bare resource path (posix.py:38), and stay.
ResourcesReleased ==
    main \in {"failed", "returned"} =>
        /\ \A t \in Tasks : task[t] \in {"done", "failed", "cancelled"}
        /\ \A source \in open : source[1] = 0 /\ plan.shared[source[2]].to = 0

\* The numbers of operations that the arguments name.
Asked(r) ==
    CASE r.name = "usecase_05" ->
            [upsert |-> r.args[1], query |-> r.args[2], s3 |-> r.args[4]]
      [] r.name = "usecase_06" -> [prefill |-> Max({1, r.args[1]}), decode |-> r.args[2]]
      [] r.name = "usecase_07" ->
            [a_baseline |-> r.args[1], a_contended |-> r.args[1], a_qos |-> r.args[1],
             b_unthrottled |-> r.args[2], b_qos |-> r.args[2]]
      [] r.name = "usecase_09" ->
            [hot |-> r.args[1], warm |-> r.args[2], cold |-> r.args[3]]
      [] r.name = "usecase_10" ->
            [steady |-> r.args[1], burst |-> r.args[2] * r.args[3],
             combined |-> r.args[1] + r.args[2] * r.args[3]]

\* A use case that returns has done what its arguments ask for, and its
\* collectors have seen every operation once: use case 05 every query of the
\* batches, use case 10 steady and burst operations together.  The queries of
\* use case 05 are left out when there are two or more fewer of them than
\* clients: then each client but the last makes one (usecase_05:88), more than
\* the argument asks for.
TooFewQueries(r) == r.name = "usecase_05" /\ r.args[2] + 1 < r.args[3]
PlanExecuted ==
    main = "returned" =>
        \A c \in Collectors :
            ~(TooFewQueries(run) /\ c = "query") => counted[c] = Asked(run)[c]

\* Every use case comes to an end, by a return or by an exception.
UseCaseReturns == <>(main \in {"failed", "returned"})
=============================================================================
