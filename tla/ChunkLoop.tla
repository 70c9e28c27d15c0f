------------------------------ MODULE ChunkLoop ------------------------------
(***************************************************************************)
(* The loop of src/src/downloader.py, _calculate_chunks, one action per    *)
(* pass of `while chunk_start < now` (lines 317-331), the early return     *)
(* (312-313) and the final reverse (334).  The reference it is compared    *)
(* with is the closed form of module ChunkPlan, which the model of the     *)
(* whole downloader uses.                                                  *)
(***************************************************************************)
EXTENDS ChunkPlan, Sequences

CONSTANTS
    MaxSlot,     \* bound: the clock reads at most this slot
    MaxSize,     \* bound: the largest CHUNK_DURATION
    MaxLookback  \* bound: the largest MAX_HISTORY_LOOKBACK

ASSUME ChunkLoopAssumption ==
    /\ MaxSlot \in Nat
    /\ MaxSize \in Nat \ {0}
    /\ MaxLookback \in Nat \ {0}

VARIABLES
    start,        \* last_ts + 1, or now - lookback when nothing is stored
    now,          \* int(time.time()), read once
    chunk_size,   \* CHUNK_DURATION of the timeframe
    chunk_start,  \* where the next chunk begins
    chunks,       \* the list built so far
    pc            \* "enter", "loop" or "done"

vars == <<start, now, chunk_size, chunk_start, chunks, pc>>

\* A delta download starts after the last stored bar, wherever that is (a bar
\* may be stamped after now); a full one starts a lookback before now.
Init ==
    /\ now \in 0..MaxSlot
    /\ \/ \E last_ts \in 0..MaxSlot : start = last_ts + 1
       \/ \E lookback \in 1..MaxLookback : start = now - lookback
    /\ chunk_size \in 1..MaxSize
    /\ chunk_start = start
    /\ chunks = <<>>
    /\ pc = "enter"

UpToDate ==
    /\ pc = "enter"
    /\ start >= now
    /\ pc' = "done"
    /\ UNCHANGED <<start, now, chunk_size, chunk_start, chunks>>

EnterLoop ==
    /\ pc = "enter"
    /\ start < now
    /\ pc' = "loop"
    /\ UNCHANGED <<start, now, chunk_size, chunk_start, chunks>>

\* The end of a chunk, not cut off at now.
UncutChunkEnd == chunk_start + chunk_size

ChunkEnd == IF chunk_start + chunk_size <= now THEN chunk_start + chunk_size ELSE now

\* One pass of the loop with the wrong step: the next chunk begins on the
\* last slot of this one.
AppendChunkOverlapping ==
    /\ pc = "loop"
    /\ chunk_start < now
    /\ chunks' = Append(chunks, [start_ts |-> chunk_start, end_ts |-> ChunkEnd,
                                 is_final |-> ChunkEnd >= now])
    /\ chunk_start' = ChunkEnd
    /\ UNCHANGED <<start, now, chunk_size, pc>>

\* One pass of the loop that drops the chunk cut off at now.
AppendWholeChunksOnly ==
    /\ pc = "loop"
    /\ chunk_start < now
    /\ chunks' = IF chunk_start + chunk_size <= now
                 THEN Append(chunks, [start_ts |-> chunk_start, end_ts |-> ChunkEnd,
                                      is_final |-> ChunkEnd >= now])
                 ELSE chunks
    /\ chunk_start' = ChunkEnd + 1
    /\ UNCHANGED <<start, now, chunk_size, pc>>

AppendChunk ==
    /\ pc = "loop"
    /\ chunk_start < now
    /\ chunks' = Append(chunks, [start_ts |-> chunk_start, end_ts |-> ChunkEnd,
                                 is_final |-> ChunkEnd >= now])
    /\ chunk_start' = ChunkEnd + 1
    /\ UNCHANGED <<start, now, chunk_size, pc>>

ReverseOf(s) == [k \in 1..Len(s) |-> s[Len(s) + 1 - k]]

\* The end of the loop without the reverse.
ReturnOldestFirst ==
    /\ pc = "loop"
    /\ ~(chunk_start < now)
    /\ pc' = "done"
    /\ UNCHANGED <<start, now, chunk_size, chunk_start, chunks>>

ReturnReversed ==
    /\ pc = "loop"
    /\ ~(chunk_start < now)
    /\ chunks' = ReverseOf(chunks)
    /\ pc' = "done"
    /\ UNCHANGED <<start, now, chunk_size, chunk_start>>

Next == UpToDate \/ EnterLoop \/ AppendChunk \/ ReturnReversed

Spec == Init /\ [][Next]_vars

-----------------------------------------------------------------------------
(* Properties *)

\* Types of the variables of _calculate_chunks.  The loop variable never runs
\* past the slot after now: the last chunk is cut off (min at line 321).
TypeOK ==
    /\ start \in Int /\ now \in Int /\ chunk_start \in Int
    /\ chunk_start = start \/ chunk_start <= now + 1
    /\ chunk_size \in Nat \ {0}
    /\ chunks \in Seq(Chunk)
    /\ pc \in {"enter", "loop", "done"}

\* The list returned is newest first and no slot is asked for twice
\* (downloader.py 333-336: "newest chunks first").
NewestFirstNoOverlap == pc = "done" => NewestFirst(chunks)

\* The chunks returned cover every slot from start up to the one before now,
\* and nothing before start or after now is asked for.
CoversHistory ==
    (pc = "done" /\ start < now) =>
        /\ start .. (now - 1) \subseteq PlanSlots(chunks)
        /\ PlanSlots(chunks) \subseteq start .. now

\* The loop computes the closed form that the model of the downloader uses.
ReturnsThePlan == pc = "done" => chunks = CalculateChunks(start, now, chunk_size)
=============================================================================
