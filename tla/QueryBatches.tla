---------------------------- MODULE QueryBatches ----------------------------
(***************************************************************************)
(* How use case 05 distributes its similarity queries over concurrent      *)
(* coroutines (src/usecases/usecase_05_ai_vector_s3.py:87-94), and the     *)
(* block a decode step of use case 06 writes                               *)
(* (src/usecases/usecase_06_ai_kv_cache_checkpointing.py:91-97).           *)
(***************************************************************************)
EXTENDS Integers

\* batch_size = max(1, vector_queries // query_concurrency)
BatchSize(queries, clients) ==
    IF queries \div clients > 1 THEN queries \div clients ELSE 1

\* c_start and c_count of the coroutine c; without a positive count it is not
\* created.
QueryStart(queries, clients, c) == c * BatchSize(queries, clients)
CountOfBatch(queries, clients, c) == BatchSize(queries, clients)
QueryCount(queries, clients, c) ==
    IF c < clients - 1 THEN BatchSize(queries, clients)
    ELSE queries - QueryStart(queries, clients, c)

\* The indices the coroutine c queries.
Batch(queries, clients, c) ==
    {i \in Int : /\ QueryStart(queries, clients, c) <= i
                 /\ i < QueryStart(queries, clients, c) + QueryCount(queries, clients, c)}

\* max_context_bytes of the prefilled context and the blocks it is paged into.
ContextBytes(prefillBytes, pageBytes) ==
    IF prefillBytes > pageBytes THEN prefillBytes ELSE pageBytes
Pages(prefillBytes, pageBytes) ==
    LET n == ContextBytes(prefillBytes, pageBytes) \div pageBytes
    IN  IF n > 1 THEN n ELSE 1

\* offset = virtual_block_id * decode_block_size
DecodeOffset(step, prefillBytes, pageBytes) ==
    ((step * 37) % Pages(prefillBytes, pageBytes)) * pageBytes
=============================================================================
