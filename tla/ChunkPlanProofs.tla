--------------------------- MODULE ChunkPlanProofs ---------------------------
(***************************************************************************)
(* Facts about the closed form of the download plan, for every start, now  *)
(* and chunk size.  The proofs about the downloader cite PlanFacts.        *)
(***************************************************************************)
EXTENDS ChunkPlan, Sequences, TLAPS

\* Integer division rounds down, and a positive quotient needs no more than that.
LEMMA DivBound ==
  ASSUME NEW a \in Nat, NEW b \in Nat \ {0}
  PROVE  a \div b \in Nat /\ (a \div b) * b <= a /\ (b <= a => a \div b >= 1)
BY SMT

\* What integer division leaves is less than the divisor.
LEMMA DivRest ==
  ASSUME NEW a \in Nat, NEW b \in Nat \ {0}
  PROVE  a < (a \div b) * b + b
BY SMT

\* Multiplication by a natural number is monotone.
LEMMA MulMono ==
  ASSUME NEW i \in Int, NEW j \in Int, NEW b \in Nat, i <= j
  PROVE  i * b <= j * b
BY SMT

\* One more multiple.
LEMMA MulStep ==
  ASSUME NEW i \in Int, NEW b \in Int
  PROVE  i * b \in Int /\ (i + 1) * b = i * b + b /\ 0 * b = 0
BY SMT

\* The k-th ascending chunk starts in the range and is cut off at now, and the next
\* one starts after its end.
LEMMA AscendingFacts ==
  ASSUME NEW start \in Int, NEW now \in Int, NEW size \in Nat \ {0}, start < now,
         NEW k \in 1..ChunkCount(start, now, size)
  PROVE  LET c == AscendingChunk(start, now, size, k)
         IN  /\ c \in Chunk
             /\ c.start_ts = start + (k - 1) * (size + 1)
             /\ start <= c.start_ts /\ c.start_ts <= c.end_ts /\ c.end_ts <= now
             /\ c.end_ts < start + k * (size + 1)
<1> DEFINE n == ChunkCount(start, now, size)
           c == AscendingChunk(start, now, size, k)
           first == start + (k - 1) * (size + 1)
           last == IF first + size <= now THEN first + size ELSE now
<1>1. n = (now - start + size) \div (size + 1) /\ now - start + size \in Nat
  BY DEF ChunkCount
<1>2. n \in Nat /\ n * (size + 1) <= now - start + size
  BY <1>1, DivBound, size + 1 \in Nat \ {0}
<1>3. k \in Int /\ 1 <= k /\ k <= n
  BY <1>2
<1>4. k * (size + 1) <= n * (size + 1)
  BY <1>2, <1>3, MulMono, size + 1 \in Nat
<1>5. /\ (k - 1) * (size + 1) \in Int /\ k * (size + 1) = (k - 1) * (size + 1) + (size + 1)
  BY <1>3, MulStep, k - 1 \in Int, size + 1 \in Int, (k - 1) + 1 = k
<1>6. 0 <= (k - 1) * (size + 1)
  BY <1>3, MulMono, MulStep, k - 1 \in Int, size + 1 \in Nat, 0 <= k - 1
<1> HIDE DEF n
<1>7. first \in Int /\ start <= first /\ first < now
  BY <1>2, <1>4, <1>5, <1>6
<1>8. last \in Int /\ first <= last /\ last <= now /\ last < start + k * (size + 1)
  BY <1>5, <1>7
<1>9. c = [start_ts |-> first, end_ts |-> last, is_final |-> last >= now]
  BY DEF AscendingChunk
<1> HIDE DEF first, last
<1>10. c \in Chunk /\ c.start_ts = first /\ c.end_ts = last
  BY <1>7, <1>8, <1>9 DEF Chunk
<1> QED
  BY <1>7, <1>8, <1>10 DEF first

\* Every ascending chunk but the last has its full size and touches the next one; the
\* last one ends at now or one slot before it.
LEMMA AscendingEdges ==
  ASSUME NEW start \in Int, NEW now \in Int, NEW size \in Nat \ {0}, start < now,
         NEW k \in 1..ChunkCount(start, now, size)
  PROVE  LET c == AscendingChunk(start, now, size, k)
             n == ChunkCount(start, now, size)
         IN  /\ n \in Nat
             /\ c.end_ts <= c.start_ts + size
             /\ k = n => now - 1 <= c.end_ts
             /\ k < n => /\ c.end_ts = c.start_ts + size
                         /\ AscendingChunk(start, now, size, k + 1).start_ts = c.end_ts + 1
<1> DEFINE n == ChunkCount(start, now, size)
           c == AscendingChunk(start, now, size, k)
           step == size + 1
           first == start + (k - 1) * step
           last == IF first + size <= now THEN first + size ELSE now
<1>1. step \in Nat \ {0} /\ now - start + size \in Nat /\ n = (now - start + size) \div step
  BY DEF ChunkCount
<1> HIDE DEF step
<1>2. n \in Nat /\ n * step <= now - start + size /\ now - start + size < n * step + step
  BY <1>1, DivBound, DivRest
<1> HIDE DEF n
<1>3. k \in Int /\ 1 <= k /\ k <= n /\ k - 1 \in Int
  BY <1>2 DEF n
<1>4. /\ (k - 1) * step \in Int /\ k * step = (k - 1) * step + step
      /\ (n - 1) * step \in Int /\ n * step = (n - 1) * step + step
  BY <1>1, <1>2, <1>3, MulStep, (k - 1) + 1 = k, n - 1 \in Int, (n - 1) + 1 = n
<1>5. k < n => k * step <= (n - 1) * step
  BY <1>1, <1>2, <1>3, MulMono, n - 1 \in Int
<1>6. c.start_ts = first /\ c.end_ts = last
  BY DEF AscendingChunk, step
<1>7. AscendingChunk(start, now, size, k + 1).start_ts = start + k * step
  BY <1>3, (k + 1) - 1 = k DEF AscendingChunk, step
<1> HIDE DEF c
<1>8. first \in Int /\ last \in Int /\ last <= first + size
  BY <1>4
<1>9. k = n => now - 1 <= last
  BY <1>2, <1>4 DEF step
<1>10. k < n => last = first + size /\ start + k * step = last + 1
  <2> SUFFICES ASSUME k < n PROVE last = first + size /\ start + k * step = last + 1
    OBVIOUS
  <2>1. k * step + step <= now - start + size
    BY <1>1, <1>2, <1>3, <1>4, <1>5
  <2>2. first + size <= now
    BY <1>1, <1>4, <2>1 DEF step
  <2> QED
    BY <1>4, <2>2 DEF step
<1> QED
  BY <1>2, <1>6, <1>7, <1>8, <1>9, <1>10 DEF c, n

\* Every chunk holds a slot.
NoneEmpty(chunks) == \A k \in DOMAIN chunks : chunks[k].start_ts <= chunks[k].end_ts

\* A plan made while something is missing is a non-empty list of chunks, none of them
\* empty, newest first and disjoint, and asks for nothing outside start .. now.
LEMMA PlanFacts ==
  ASSUME NEW start \in Int, NEW now \in Int, NEW size \in Nat \ {0}, start < now
  PROVE  LET chunks == CalculateChunks(start, now, size)
         IN  /\ chunks \in Seq(Chunk) /\ chunks # <<>>
             /\ NewestFirst(chunks) /\ NoneEmpty(chunks)
             /\ PlanSlots(chunks) \subseteq start .. now
<1> DEFINE n == ChunkCount(start, now, size)
           A(k) == AscendingChunk(start, now, size, k)
           chunks == CalculateChunks(start, now, size)
<1>1. n \in Nat /\ n >= 1
  <2>1. n = (now - start + size) \div (size + 1)
    BY DEF ChunkCount
  <2> QED
    BY <2>1, DivBound, now - start + size \in Nat, size + 1 \in Nat \ {0},
       size + 1 <= now - start + size
<1>2. chunks = [k \in 1..n |-> A(n + 1 - k)]
  BY DEF CalculateChunks
<1>3. \A k \in 1..n :
        /\ A(k) \in Chunk
        /\ A(k).start_ts = start + (k - 1) * (size + 1)
        /\ start <= A(k).start_ts /\ A(k).start_ts <= A(k).end_ts /\ A(k).end_ts <= now
        /\ A(k).end_ts < start + k * (size + 1)
  BY AscendingFacts
<1> HIDE DEF n, A, chunks
<1>4. \A k \in 1..n : n + 1 - k \in 1..n /\ chunks[k] = A(n + 1 - k)
  BY <1>1, <1>2
<1>5. chunks \in Seq(Chunk) /\ Len(chunks) = n /\ DOMAIN chunks = 1..n
  BY <1>1, <1>2, <1>3, <1>4
<1>6. NewestFirst(chunks)
  <2> SUFFICES ASSUME NEW i \in 1..n, NEW j \in 1..n, i < j
               PROVE  chunks[j].end_ts < chunks[i].start_ts
    BY <1>5 DEF NewestFirst
  <2> DEFINE p == n + 1 - j
             q == n + 1 - i
  <2>1. p \in 1..n /\ q \in 1..n /\ p <= q - 1 /\ chunks[i] = A(q) /\ chunks[j] = A(p)
    BY <1>1, <1>4
  <2> HIDE DEF p, q
  <2>2. p * (size + 1) <= (q - 1) * (size + 1)
    BY <2>1, MulMono, p \in Int, q - 1 \in Int, size + 1 \in Nat
  <2>3. p * (size + 1) \in Int /\ (q - 1) * (size + 1) \in Int
    BY <2>1, MulStep, p \in Int, q - 1 \in Int, size + 1 \in Int
  <2>4. A(p).end_ts \in Int /\ A(p).end_ts < start + p * (size + 1)
    BY <1>3, <2>1 DEF Chunk
  <2>5. A(q).start_ts = start + (q - 1) * (size + 1)
    BY <1>3, <2>1
  <2> QED
    BY <2>1, <2>2, <2>3, <2>4, <2>5
<1>7. PlanSlots(chunks) \subseteq start .. now
  <2> SUFFICES ASSUME NEW t \in PlanSlots(chunks) PROVE t \in start .. now
    OBVIOUS
  <2>1. PICK k \in 1..n : t \in Slots(chunks[k])
    BY <1>5 DEF PlanSlots
  <2>2. chunks[k] \in Chunk /\ start <= chunks[k].start_ts /\ chunks[k].end_ts <= now
    BY <1>3, <1>4
  <2>3. chunks[k].start_ts \in Int /\ chunks[k].end_ts \in Int
    BY <2>2 DEF Chunk
  <2> QED
    BY <2>1, <2>2, <2>3 DEF Slots
<1>8. chunks # <<>>
  BY <1>1, <1>5
<1>9. NoneEmpty(chunks)
  BY <1>3, <1>4, <1>5 DEF NoneEmpty
<1> QED
  BY <1>5, <1>6, <1>7, <1>8, <1>9 DEF chunks

\* The chunks of a plan leave no slot out, up to the one before now.
LEMMA PlanCovers ==
  ASSUME NEW start \in Int, NEW now \in Int, NEW size \in Nat \ {0}, start < now
  PROVE  start .. (now - 1) \subseteq PlanSlots(CalculateChunks(start, now, size))
<1> DEFINE n == ChunkCount(start, now, size)
           step == size + 1
           chunks == CalculateChunks(start, now, size)
<1> SUFFICES ASSUME NEW t \in start .. (now - 1) PROVE t \in PlanSlots(chunks)
  OBVIOUS
<1> DEFINE q == (t - start) \div step
<1>1. /\ n = (now - start + size) \div step /\ step \in Nat \ {0}
      /\ now - start + size \in Nat /\ t - start \in Nat
  BY DEF ChunkCount
<1>2. /\ n \in Nat /\ now - start + size < n * step + step
      /\ q \in Nat /\ q * step <= t - start /\ t - start < q * step + step
  BY <1>1, DivBound, DivRest
<1>3. /\ q * step \in Int /\ n * step \in Int
      /\ (q + 1) * step = q * step + step
  BY <1>1, <1>2, MulStep
<1> HIDE DEF n, q
<1>4. q < n
  <2> SUFFICES ASSUME n <= q PROVE FALSE
    BY <1>2
  <2>1. n * step <= q * step
    BY <1>1, <1>2, MulMono
  <2> QED
    BY <1>1, <1>2, <1>3, <2>1
<1> DEFINE k == n - q
           c == AscendingChunk(start, now, size, q + 1)
<1>5. k \in 1..n /\ n + 1 - k = q + 1
  BY <1>2, <1>4
<1>6. chunks = [j \in 1..n |-> AscendingChunk(start, now, size, n + 1 - j)]
  BY DEF CalculateChunks, n
<1>7. DOMAIN chunks = 1..n /\ chunks[k] = c
  BY <1>5, <1>6
<1>8. c.start_ts = start + q * step
      /\ c.end_ts = IF start + q * step + size <= now THEN start + q * step + size ELSE now
  BY <1>2, (q + 1) - 1 = q DEF AscendingChunk
<1>9. t \in Slots(c)
  BY <1>2, <1>3, <1>8 DEF Slots
<1> QED
  BY <1>5, <1>7, <1>9 DEF PlanSlots

\* An empty plan asks for no slot, and dropping the first chunk of a plan leaves a plan
\* of the same kind whose slots are disjoint from those of the dropped chunk.
LEMMA TailFacts ==
  ASSUME NEW chunks \in Seq(Chunk), chunks # <<>>, NewestFirst(chunks)
  PROVE  /\ Head(chunks) \in Chunk /\ Tail(chunks) \in Seq(Chunk)
         /\ NewestFirst(Tail(chunks))
         /\ NoneEmpty(chunks) => NoneEmpty(Tail(chunks))
         /\ Tail(chunks) # <<>> => Head(Tail(chunks)).end_ts < Head(chunks).start_ts
         /\ Slots(Head(chunks)) \subseteq PlanSlots(chunks)
         /\ PlanSlots(Tail(chunks)) \subseteq PlanSlots(chunks)
         /\ Slots(Head(chunks)) \cap PlanSlots(Tail(chunks)) = {}
         /\ PlanSlots(chunks) = Slots(Head(chunks)) \cup PlanSlots(Tail(chunks))
<1> DEFINE n == Len(chunks)
           rest == Tail(chunks)
<1>1. n \in Nat /\ n >= 1 /\ DOMAIN chunks = 1..n /\ Head(chunks) = chunks[1]
  OBVIOUS
<1>2. /\ rest \in Seq(Chunk) /\ Len(rest) = n - 1 /\ DOMAIN rest = 1..(n - 1)
      /\ \A k \in 1..(n - 1) : rest[k] = chunks[k + 1]
  BY <1>1
<1>3. \A k \in 1..n : chunks[k] \in Chunk
  BY <1>1
<1> HIDE DEF n, rest
<1>4. NewestFirst(rest)
  <2> SUFFICES ASSUME NEW i \in 1..(n - 1), NEW j \in 1..(n - 1), i < j
               PROVE  rest[j].end_ts < rest[i].start_ts
    BY <1>2 DEF NewestFirst
  <2>1. i + 1 \in 1..n /\ j + 1 \in 1..n /\ i + 1 < j + 1
    BY <1>1
  <2> QED
    BY <2>1, <1>1, <1>2 DEF NewestFirst
<1>5. PlanSlots(rest) \subseteq PlanSlots(chunks)
  BY <1>1, <1>2 DEF PlanSlots
<1>6. Slots(Head(chunks)) \subseteq PlanSlots(chunks)
  BY <1>1 DEF PlanSlots
<1>7. ASSUME NEW t \in Slots(Head(chunks)), t \in PlanSlots(rest) PROVE FALSE
  <2>1. PICK k \in 1..(n - 1) : t \in Slots(chunks[k + 1])
    BY <1>2, <1>7 DEF PlanSlots
  <2>2. k + 1 \in 1..n /\ 1 \in 1..n /\ 1 < k + 1
    BY <1>1
  <2>3. chunks[k + 1].end_ts < chunks[1].start_ts
    BY <2>2, <1>1 DEF NewestFirst
  <2>4. /\ chunks[1].start_ts \in Int /\ chunks[1].end_ts \in Int
        /\ chunks[k + 1].start_ts \in Int /\ chunks[k + 1].end_ts \in Int
    BY <2>2, <1>3 DEF Chunk
  <2> QED
    BY <1>1, <1>7, <2>1, <2>3, <2>4 DEF Slots
<1>8. ASSUME NEW t \in PlanSlots(chunks) PROVE t \in Slots(Head(chunks)) \cup PlanSlots(rest)
  <2>1. PICK k \in 1..n : t \in Slots(chunks[k])
    BY <1>1, <1>8 DEF PlanSlots
  <2>2. CASE k = 1
    BY <1>1, <2>1, <2>2
  <2>3. CASE k # 1
    <3>1. k - 1 \in 1..(n - 1) /\ rest[k - 1] = chunks[k]
      BY <1>1, <1>2, <2>3
    <3> QED
      BY <1>2, <2>1, <3>1 DEF PlanSlots
  <2> QED
    BY <2>2, <2>3
<1>9. NoneEmpty(chunks) => NoneEmpty(rest)
  BY <1>1, <1>2 DEF NoneEmpty
<1>10. rest # <<>> => Head(rest).end_ts < Head(chunks).start_ts
  <2> SUFFICES ASSUME rest # <<>> PROVE Head(rest).end_ts < Head(chunks).start_ts
    OBVIOUS
  <2>1. n >= 2 /\ Head(rest) = rest[1]
    BY <1>1, <1>2
  <2>2. rest[1] = chunks[2] /\ 1 \in 1..n /\ 2 \in 1..n
    BY <1>1, <1>2, <2>1
  <2> QED
    BY <1>1, <2>1, <2>2 DEF NewestFirst
<1> QED
  BY <1>1, <1>2, <1>3, <1>4, <1>5, <1>6, <1>7, <1>8, <1>9, <1>10 DEF rest
=============================================================================
