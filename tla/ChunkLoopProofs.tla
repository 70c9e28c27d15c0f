--------------------------- MODULE ChunkLoopProofs ---------------------------
(***************************************************************************)
(* Proofs about ChunkLoop, for every start, now and chunk size: the list   *)
(* returned by _calculate_chunks is newest first, disjoint, and covers     *)
(* exactly the history it should.                                          *)
(***************************************************************************)
EXTENDS ChunkLoop, TLAPS

\* The chunks appended so far, oldest first, end before one another and before
\* the loop variable, and none starts before the requested range or ends after now.
Ascending ==
    /\ \A i, j \in 1..Len(chunks) : i < j => chunks[i].end_ts < chunks[j].start_ts
    /\ \A i \in 1..Len(chunks) :
         /\ start <= chunks[i].start_ts
         /\ chunks[i].end_ts < chunk_start
         /\ chunks[i].end_ts <= now

\* Every slot the loop variable has passed lies in a chunk.
Covered ==
    \A t \in start .. (chunk_start - 1) :
        \E i \in 1..Len(chunks) : t \in Slots(chunks[i])

\* What holds once the list is returned.
Returned ==
    /\ NewestFirst(chunks)
    /\ \A i \in 1..Len(chunks) :
         start <= chunks[i].start_ts /\ chunks[i].end_ts <= now
    /\ start < now =>
         \A t \in start .. (now - 1) : \E i \in 1..Len(chunks) : t \in Slots(chunks[i])

\* The inductive invariant: the list is ascending and gap-free while it is
\* built, and newest first and complete once it is returned.
IInv ==
    /\ TypeOK
    /\ pc = "enter" => chunks = <<>> /\ chunk_start = start
    /\ pc = "loop" => start < now /\ start <= chunk_start /\ Ascending /\ Covered
    /\ pc = "done" => Returned

\* Init establishes the inductive invariant.
LEMMA InitIInv == Init => IInv
<1> SUFFICES ASSUME Init PROVE IInv
  OBVIOUS
<1>1. TypeOK
  BY ChunkLoopAssumption DEF Init, TypeOK, Chunk
<1> QED
  BY <1>1 DEF IInv, Init

\* The early return and the entry of the loop keep the inductive invariant.
LEMMA EnterIInv == IInv /\ (UpToDate \/ EnterLoop) => IInv'
<1> SUFFICES ASSUME IInv, UpToDate \/ EnterLoop PROVE IInv'
  OBVIOUS
<1>1. TypeOK'
  BY DEF IInv, TypeOK, UpToDate, EnterLoop
<1>2. CASE UpToDate
  <2>1. chunks' = <<>> /\ pc' = "done" /\ ~(start' < now')
    BY <1>2 DEF IInv, TypeOK, UpToDate
  <2>2. Returned'
    BY <2>1 DEF Returned, NewestFirst
  <2> QED
    BY <1>1, <2>1, <2>2 DEF IInv
<1>3. CASE EnterLoop
  <2>1. /\ chunks' = <<>> /\ pc' = "loop" /\ chunk_start' = start'
        /\ start' < now' /\ start' \in Int /\ start' <= chunk_start'
    BY <1>3 DEF IInv, TypeOK, EnterLoop
  <2>2. /\ Len(chunks') = 0
        /\ \A i : i \notin 1..0
        /\ \A t : t \notin start' .. (chunk_start' - 1)
    BY <2>1
  <2>3. Ascending'
    BY <2>2 DEF Ascending
  <2>4. Covered'
    BY <2>2 DEF Covered
  <2> QED
    BY <1>1, <2>1, <2>3, <2>4 DEF IInv
<1> QED
  BY <1>2, <1>3

\* One pass of the loop keeps the inductive invariant.
LEMMA AppendIInv == IInv /\ AppendChunk => IInv'
<1> SUFFICES ASSUME IInv, AppendChunk PROVE IInv'
  OBVIOUS
<1> DEFINE n == Len(chunks)
           c == [start_ts |-> chunk_start, end_ts |-> ChunkEnd, is_final |-> ChunkEnd >= now]
<1>1. /\ TypeOK /\ Ascending /\ Covered
      /\ pc = "loop" /\ pc' = "loop"
      /\ start < now /\ start <= chunk_start /\ chunk_start < now
      /\ start' = start /\ now' = now /\ chunk_size' = chunk_size
      /\ chunks' = Append(chunks, c) /\ chunk_start' = ChunkEnd + 1
  BY DEF IInv, AppendChunk
<1>2. /\ n \in Nat /\ chunks \in Seq(Chunk)
      /\ start \in Int /\ now \in Int /\ chunk_start \in Int /\ chunk_size \in Nat \ {0}
  BY <1>1 DEF TypeOK
<1>3. ChunkEnd \in Int /\ chunk_start <= ChunkEnd /\ ChunkEnd <= now
  BY <1>1, <1>2 DEF ChunkEnd
<1>4. c \in Chunk /\ c.start_ts = chunk_start /\ c.end_ts = ChunkEnd
  BY <1>2, <1>3 DEF Chunk
<1> HIDE DEF c
<1>5. /\ chunks' \in Seq(Chunk) /\ Len(chunks') = n + 1 /\ chunks'[n + 1] = c
      /\ \A i \in 1..n : chunks'[i] = chunks[i] /\ chunks[i] \in Chunk
  BY <1>1, <1>2, <1>4
<1>6. TypeOK'
  BY <1>1, <1>2, <1>3, <1>5 DEF TypeOK
<1>7. Ascending'
  <2>1. ASSUME NEW i \in 1..(n + 1)
        PROVE  start <= chunks'[i].start_ts /\ chunks'[i].end_ts < ChunkEnd + 1
               /\ chunks'[i].end_ts <= now
    <3>1. CASE i = n + 1
      BY <3>1, <1>1, <1>2, <1>3, <1>4, <1>5
    <3>2. CASE i \in 1..n
      <4>1. chunks'[i] = chunks[i] /\ chunks[i].end_ts \in Int
        BY <3>2, <1>5 DEF Chunk
      <4> QED
        BY <3>2, <4>1, <1>1, <1>2, <1>3 DEF Ascending
    <3> QED
      BY <3>1, <3>2, <1>2
  <2>2. ASSUME NEW i \in 1..(n + 1), NEW j \in 1..(n + 1), i < j
        PROVE  chunks'[i].end_ts < chunks'[j].start_ts
    <3>1. i \in 1..n /\ chunks'[i] = chunks[i]
      BY <2>2, <1>2, <1>5
    <3>2. CASE j = n + 1
      BY <3>1, <3>2, <1>1, <1>4, <1>5 DEF Ascending
    <3>3. CASE j \in 1..n
      BY <2>2, <3>1, <3>3, <1>1, <1>5 DEF Ascending
    <3> QED
      BY <3>2, <3>3, <1>2
  <2> QED
    BY <2>1, <2>2, <1>1, <1>5 DEF Ascending
<1>8. Covered'
  <2> SUFFICES ASSUME NEW t \in start .. ChunkEnd
               PROVE  \E i \in 1..(n + 1) : t \in Slots(chunks'[i])
    BY <1>1, <1>2, <1>3, <1>5 DEF Covered
  <2>1. CASE t < chunk_start
    <3>1. PICK i \in 1..n : t \in Slots(chunks[i])
      BY <2>1, <1>1, <1>2, <1>3 DEF Covered
    <3> QED
      BY <3>1, <1>2, <1>5
  <2>2. CASE chunk_start <= t
    BY <2>2, <1>2, <1>3, <1>4, <1>5 DEF Slots
  <2> QED
    BY <2>1, <2>2, <1>2, <1>3
<1> QED
  BY <1>1, <1>2, <1>3, <1>6, <1>7, <1>8 DEF IInv

\* Reversing the complete ascending list keeps the inductive invariant.
LEMMA ReturnIInv == IInv /\ ReturnReversed => IInv'
<1> SUFFICES ASSUME IInv, ReturnReversed PROVE IInv'
  OBVIOUS
<1> DEFINE n == Len(chunks)
<1>1. /\ TypeOK /\ Ascending /\ Covered /\ now <= chunk_start /\ pc' = "done"
      /\ start' = start /\ now' = now /\ chunk_size' = chunk_size /\ chunk_start' = chunk_start
      /\ chunks' = ReverseOf(chunks) /\ start < now
  BY DEF IInv, TypeOK, ReturnReversed
<1>2. /\ n \in Nat /\ chunks \in Seq(Chunk)
      /\ start \in Int /\ now \in Int /\ chunk_start \in Int
  BY <1>1 DEF TypeOK
<1>3. /\ chunks' \in Seq(Chunk) /\ Len(chunks') = n /\ DOMAIN chunks' = 1..n
      /\ \A k \in 1..n : chunks'[k] = chunks[n + 1 - k]
  BY <1>1, <1>2 DEF ReverseOf
<1>4. TypeOK'
  BY <1>1, <1>3 DEF TypeOK
<1>5. NewestFirst(chunks')
  <2> SUFFICES ASSUME NEW i \in 1..n, NEW j \in 1..n, i < j
               PROVE  chunks'[j].end_ts < chunks'[i].start_ts
    BY <1>3 DEF NewestFirst
  <2>1. n + 1 - i \in 1..n /\ n + 1 - j \in 1..n /\ n + 1 - j < n + 1 - i
    BY <1>2
  <2> QED
    BY <2>1, <1>1, <1>3 DEF Ascending
<1>6. \A i \in 1..n : start <= chunks'[i].start_ts /\ chunks'[i].end_ts <= now
  BY <1>1, <1>2, <1>3 DEF Ascending
<1>7. \A t \in start .. (now - 1) : \E i \in 1..n : t \in Slots(chunks'[i])
  <2> SUFFICES ASSUME NEW t \in start .. (now - 1)
               PROVE  \E i \in 1..n : t \in Slots(chunks'[i])
    OBVIOUS
  <2>1. t \in start .. (chunk_start - 1)
    BY <1>1, <1>2
  <2>2. PICK k \in 1..n : t \in Slots(chunks[k])
    BY <2>1, <1>1 DEF Covered
  <2>3. n + 1 - k \in 1..n /\ chunks'[n + 1 - k] = chunks[k]
    BY <1>2, <1>3
  <2> QED
    BY <2>2, <2>3
<1>8. Returned'
  BY <1>1, <1>3, <1>5, <1>6, <1>7 DEF Returned
<1> QED
  BY <1>1, <1>4, <1>8 DEF IInv

\* Stuttering keeps the inductive invariant.
LEMMA StutterIInv == IInv /\ UNCHANGED vars => IInv'
BY DEF IInv, vars, TypeOK, Ascending, Covered, Returned, NewestFirst, ChunkEnd

\* The inductive invariant holds in every reachable state of the loop.
THEOREM LoopInvariant == Spec => []IInv
<1>1. IInv /\ [Next]_vars => IInv'
  BY EnterIInv, AppendIInv, ReturnIInv, StutterIInv DEF Next
<1> QED
  BY InitIInv, <1>1, PTL DEF Spec

\* The variables of _calculate_chunks keep their types, and the loop variable
\* never runs past the slot after now.
THEOREM LoopTypeOK == Spec => []TypeOK
<1>1. IInv => TypeOK
  BY DEF IInv
<1> QED
  BY LoopInvariant, <1>1, PTL

\* The list _calculate_chunks returns is newest first and its chunks are disjoint.
THEOREM LoopNewestFirst == Spec => []NewestFirstNoOverlap
<1>1. IInv => NewestFirstNoOverlap
  BY DEF IInv, Returned, NewestFirstNoOverlap
<1> QED
  BY LoopInvariant, <1>1, PTL

\* The list covers start .. now - 1 without a gap and stays inside start .. now.
THEOREM LoopCoversHistory == Spec => []CoversHistory
<1>1. ASSUME IInv, pc = "done", start < now
      PROVE  /\ start .. (now - 1) \subseteq PlanSlots(chunks)
             /\ PlanSlots(chunks) \subseteq start .. now
  <2>1. Returned /\ start \in Int /\ now \in Int /\ chunks \in Seq(Chunk)
    BY <1>1 DEF IInv, TypeOK
  <2>2. DOMAIN chunks = 1..Len(chunks)
    BY <2>1
  <2>3. start .. (now - 1) \subseteq PlanSlots(chunks)
    <3> SUFFICES ASSUME NEW t \in start .. (now - 1)
                 PROVE  t \in PlanSlots(chunks)
      OBVIOUS
    <3>1. PICK i \in 1..Len(chunks) : t \in Slots(chunks[i])
      BY <2>1, <1>1 DEF Returned
    <3> QED
      BY <3>1, <2>2 DEF PlanSlots
  <2>4. PlanSlots(chunks) \subseteq start .. now
    <3> SUFFICES ASSUME NEW t \in PlanSlots(chunks) PROVE t \in start .. now
      OBVIOUS
    <3>1. PICK i \in 1..Len(chunks) : t \in Slots(chunks[i])
      BY <2>2 DEF PlanSlots
    <3>2. chunks[i].start_ts \in Int /\ chunks[i].end_ts \in Int
      <4>1. chunks[i] \in Chunk
        BY <2>1
      <4> QED
        BY <4>1 DEF Chunk
    <3> QED
      BY <3>1, <3>2, <2>1 DEF Returned, Slots
  <2> QED
    BY <2>3, <2>4
<1>2. IInv => CoversHistory
  BY <1>1 DEF CoversHistory
<1> QED
  BY LoopInvariant, <1>2, PTL
-----------------------------------------------------------------------------
(* The loop computes the closed form *)

\* While the list is built its k-th chunk is the k-th of the closed form, every chunk
\* began before now, and the loop variable is where the next one begins, or after now.
PlanInv ==
    LET step == chunk_size + 1
        n == Len(chunks)
    IN  /\ pc \in {"enter", "loop"} =>
             /\ \A k \in 1..n : chunks[k] = AscendingChunk(start, now, chunk_size, k)
             /\ n # 0 => start + (n - 1) * step < now
             /\ \/ chunk_start = start + n * step
                \/ chunk_start = now + 1 /\ now < start + n * step
        /\ pc = "done" => chunks = CalculateChunks(start, now, chunk_size)

\* The next multiple, and nothing times a number.
LEMMA MultipleStep ==
  ASSUME NEW n \in Nat, NEW step \in Nat
  PROVE  n * step \in Int /\ (n + 1) * step = n * step + step /\ 0 * step = 0
BY SMT

\* The quotient that rounds a length up to whole steps.
LEMMA RoundedUp ==
  ASSUME NEW n \in Nat, NEW length \in Int, NEW size \in Nat,
         (n - 1) * (size + 1) < length, length <= n * (size + 1), n # 0
  PROVE  (length + size) \div (size + 1) = n
<1> DEFINE step == size + 1
           k == n - 1
<1>1. k \in Nat /\ n = k + 1 /\ step \in Nat \ {0} /\ length + size \in Int
  OBVIOUS
<1>2. n * step = k * step + step /\ (n + 1) * step = n * step + step
      /\ k * step \in Int /\ n * step \in Int
  BY <1>1, MultipleStep
<1>3. n * step <= length + size /\ length + size < n * step + step
  BY <1>1, <1>2
<1> HIDE DEF step, k
<1>4. length + size - n * step \in 0..(step - 1)
  BY <1>1, <1>2, <1>3
<1> DEFINE r == length + size - n * step
<1>5. r \in 0..(step - 1) /\ length + size = n * step + r
  BY <1>1, <1>2, <1>4
<1> HIDE DEF r
<1>6. (n * step + r) \div step = n
  BY <1>1, <1>5, SMT
<1> QED
  BY <1>5, <1>6 DEF step

LEMMA InitPlanInv == Init => PlanInv
<1> SUFFICES ASSUME Init PROVE PlanInv
  OBVIOUS
<1>1. /\ IInv /\ chunks = <<>> /\ Len(chunks) = 0 /\ chunk_start = start /\ pc = "enter"
      /\ start \in Int /\ chunk_size \in Nat
  BY InitIInv DEF Init, IInv, TypeOK
<1>2. 0 * (chunk_size + 1) = 0
  BY <1>1
<1> QED
  BY <1>1, <1>2 DEF PlanInv

\* Each pass appends the next chunk of the closed form, and there are as many passes
\* as it has chunks.
LEMMA StepPlanInv == IInv /\ PlanInv /\ [Next]_vars => PlanInv'
<1> SUFFICES ASSUME IInv, PlanInv, [Next]_vars PROVE PlanInv'
  OBVIOUS
<1> DEFINE n == Len(chunks)
           step == chunk_size + 1
<1>1. /\ start \in Int /\ now \in Int /\ chunk_start \in Int /\ chunk_size \in Nat \ {0}
      /\ chunks \in Seq(Chunk) /\ n \in Nat /\ step \in Nat \ {0}
  BY DEF IInv, TypeOK
<1>2. n * step \in Int /\ (n + 1) * step = n * step + step
  BY <1>1, MultipleStep
<1>3. CASE UpToDate
  <2>1. chunks' = <<>> /\ pc' = "done" /\ start' = start /\ now' = now /\ start >= now
        /\ chunk_size' = chunk_size
    BY <1>3 DEF UpToDate, IInv
  <2>2. ChunkCount(start, now, chunk_size) = 0
    BY <2>1 DEF ChunkCount
  <2>3. CalculateChunks(start, now, chunk_size) = <<>>
    BY <2>2 DEF CalculateChunks
  <2> QED
    BY <2>1, <2>3 DEF PlanInv
<1>4. CASE EnterLoop
  BY <1>4 DEF EnterLoop, PlanInv
<1>5. CASE AppendChunk
  <2> DEFINE c == [start_ts |-> chunk_start, end_ts |-> ChunkEnd, is_final |-> ChunkEnd >= now]
  <2>1. /\ pc = "loop" /\ pc' = "loop" /\ chunk_start < now /\ chunk_start' = ChunkEnd + 1
        /\ chunks' = Append(chunks, c)
        /\ UNCHANGED <<start, now, chunk_size>>
    BY <1>5 DEF AppendChunk
  <2>2. chunk_start = start + n * step
    BY <1>1, <2>1 DEF PlanInv
  <2>3. c = AscendingChunk(start, now, chunk_size, n + 1)
    BY <1>1, <2>2 DEF AscendingChunk, ChunkEnd
  <2>4. /\ Len(chunks') = n + 1 /\ chunks'[n + 1] = c
        /\ \A k \in 1..n : chunks'[k] = chunks[k]
    BY <1>1, <2>1
  <2>5. \A k \in 1..(n + 1) : chunks'[k] = AscendingChunk(start, now, chunk_size, k)
    BY <1>1, <2>1, <2>3, <2>4 DEF PlanInv
  <2>6. \/ chunk_start' = start + (n + 1) * step
        \/ chunk_start' = now + 1 /\ now < start + (n + 1) * step
    <3>1. CASE chunk_start + chunk_size <= now
      BY <1>1, <1>2, <2>1, <2>2, <3>1 DEF ChunkEnd
    <3>2. CASE ~(chunk_start + chunk_size <= now)
      BY <1>1, <1>2, <2>1, <2>2, <3>2 DEF ChunkEnd
    <3> QED
      BY <3>1, <3>2
  <2>7. start + ((n + 1) - 1) * step < now
    BY <1>1, <2>1, <2>2, (n + 1) - 1 = n
  <2> QED
    BY <1>1, <2>1, <2>4, <2>5, <2>6, <2>7 DEF PlanInv
<1>6. CASE ReturnReversed
  <2>1. /\ pc = "loop" /\ pc' = "done" /\ now <= chunk_start /\ start < now
        /\ chunks' = ReverseOf(chunks)
        /\ UNCHANGED <<start, now, chunk_size>>
    BY <1>1, <1>6 DEF ReturnReversed, IInv
  <2>2. now <= start + n * step /\ (n # 0 => start + (n - 1) * step < now)
    BY <1>1, <1>2, <2>1 DEF PlanInv
  <2>3. n # 0
    BY <1>1, <2>1, <2>2, MultipleStep
  <2>4. (n - 1) * step \in Int
    BY <1>1, <2>3, MultipleStep, n - 1 \in Nat
  <2>5. (n - 1) * step < now - start /\ now - start <= n * step
    BY <1>1, <1>2, <2>2, <2>3, <2>4
  <2>6. (now - start + chunk_size) \div step = n
    BY <1>1, <2>3, <2>5, RoundedUp, now - start \in Int
  <2>7. ChunkCount(start, now, chunk_size) = n
    BY <1>1, <2>1, <2>6 DEF ChunkCount
  <2>8. \A k \in 1..n : n + 1 - k \in 1..n
                        /\ chunks[n + 1 - k] = AscendingChunk(start, now, chunk_size, n + 1 - k)
    BY <1>1, <2>1 DEF PlanInv
  <2>9. chunks' = [k \in 1..n |-> AscendingChunk(start, now, chunk_size, n + 1 - k)]
    BY <2>1, <2>8 DEF ReverseOf
  <2> QED
    BY <2>1, <2>7, <2>9 DEF PlanInv, CalculateChunks
<1>7. CASE UNCHANGED vars
  BY <1>7 DEF PlanInv, vars
<1> QED
  BY <1>3, <1>4, <1>5, <1>6, <1>7 DEF Next

\* The loop of _calculate_chunks returns the closed form, which the model of the
\* downloader uses in its place.
THEOREM LoopReturnsThePlan == Spec => []ReturnsThePlan
<1>1. PlanInv => ReturnsThePlan
  BY DEF PlanInv, ReturnsThePlan
<1> QED
  BY LoopInvariant, InitPlanInv, StepPlanInv, <1>1, PTL DEF Spec
=============================================================================
