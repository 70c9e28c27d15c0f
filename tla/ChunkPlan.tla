------------------------------ MODULE ChunkPlan ------------------------------
(***************************************************************************)
(* The download plan of src/src/downloader.py, _calculate_chunks, as pure  *)
(* operators.  Time is counted in slots: a slot is one second of the code, *)
(* and in the models also the place of one bar.  A chunk is closed at both *)
(* ends and the next one starts one slot after its end, so a chunk of      *)
(* nominal size s holds s + 1 slots.                                       *)
(***************************************************************************)
EXTENDS Integers

Chunk == [start_ts : Int, end_ts : Int, is_final : BOOLEAN]

\* How many chunks the while loop of _calculate_chunks appends.
ChunkCount(start, now, size) ==
    IF start >= now THEN 0 ELSE (now - start + size) \div (size + 1)

\* The k-th chunk the loop appends: its end is cut off at now.
AscendingChunk(start, now, size, k) ==
    LET first == start + (k - 1) * (size + 1)
        last  == IF first + size <= now THEN first + size ELSE now
    IN  [start_ts |-> first, end_ts |-> last, is_final |-> last >= now]

\* The list returned: empty when up to date, otherwise the newest chunk first.
CalculateChunks(start, now, size) ==
    LET n == ChunkCount(start, now, size)
    IN  [k \in 1..n |-> AscendingChunk(start, now, size, n + 1 - k)]

\* The slots a chunk stands for, both ends included.  What the gateway is asked for
\* instead, an end and a duration in whole units, is not the chunk's affair.
Slots(chunk) == chunk.start_ts .. chunk.end_ts

\* The slots of all chunks of a plan.
PlanSlots(chunks) == UNION {Slots(chunks[k]) : k \in DOMAIN chunks}

\* Newest first and disjoint: each chunk ends before the one ahead of it starts.
NewestFirst(chunks) ==
    \A i, j \in DOMAIN chunks : i < j => chunks[j].end_ts < chunks[i].start_ts
=============================================================================
