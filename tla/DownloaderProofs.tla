-------------------------- MODULE DownloaderProofs --------------------------
(***************************************************************************)
(* Proofs about Downloader, for every set of tickers, timeframes, requests *)
(* and answers, every chunk size and lookback, and every bound.            *)
(***************************************************************************)
EXTENDS Downloader, ChunkPlanProofs, FiniteSetTheorems, WellFoundedInduction

\* The series of a request is one of the series.
LEMMA SeriesOfRequest ==
  ASSUME TypeOK, NEW i \in Ids
  PROVE  SeriesOf(i) \in AllSeries /\ reqs[i] \in Request
<1>1. reqs[i] \in Request
  BY DEF TypeOK, Ids
<1> QED
  BY <1>1 DEF SeriesOf, AllSeries, Request

\* The slots of a plan are whole numbers.
LEMMA PlanSlotsInt ==
  ASSUME NEW chunks \in Seq(Chunk)
  PROVE  PlanSlots(chunks) \subseteq Int
BY DEF PlanSlots, Slots

\* An answer ends with its chunk, and reaches back beyond it by the overreach at most.
LEMMA BarsOfChunk ==
  ASSUME NEW chunk \in Chunk, NEW bars \in Bars(chunk)
  PROVE  /\ \E t \in Int : bars = t .. chunk.end_ts
         /\ bars \subseteq Int
         /\ \A t \in bars : t >= chunk.start_ts - Overreach
<1>1. chunk.start_ts \in Int /\ chunk.end_ts \in Int /\ Overreach \in Nat
  BY DownloaderAssumption DEF Chunk
<1>2. PICK d \in {"long", "full", "short", "empty"} :
        \E t \in OldestBars(chunk)[d] : bars = t .. chunk.end_ts
  BY DownloaderAssumption DEF Bars
<1>3. PICK t \in OldestBars(chunk)[d] : bars = t .. chunk.end_ts
  BY <1>2
<1>4. t \in Int /\ (t >= chunk.start_ts - Overreach \/ t = chunk.end_ts + 1)
  BY <1>1, <1>3 DEF OldestBars
<1> QED
  BY <1>1, <1>3, <1>4

\* The first slot of a delta download is a whole number.
LEMMA DeltaStartInt ==
  ASSUME TypeOK, NEW s \in AllSeries, NEW start \in DeltaStart(s)
  PROVE  /\ start \in Int
         /\ \A t \in store[s] : t < start
<1>1. s[2] \in Timeframes /\ store[s] \subseteq Int /\ now \in Int
  BY DEF TypeOK, AllSeries
<1>2. Lookback[s[2]] \in Nat
  BY <1>1, DownloaderAssumption
<1> QED
  BY <1>1, <1>2 DEF DeltaStart

-----------------------------------------------------------------------------
(* Types *)

\* The initial state has the types.
LEMMA InitTypeOK == Init => TypeOK
<1> SUFFICES ASSUME Init PROVE TypeOK
  OBVIOUS
<1>1. reqs \in Seq(Request) /\ status \in Seq(TickerStatus) /\ plan \in Seq(Chunk)
      /\ Len(reqs) = 0 /\ Len(status) = 0
  BY DEF Init
<1>2. store \in [AllSeries -> SUBSET Int]
  BY DownloaderAssumption DEF Init
<1>3. abandoned \in [AllSeries -> SUBSET Int]
  BY DEF Init
<1>4. tmap \in [Tickers -> {"absent", "mapped", "null"}]
  BY DEF Init
<1>5. now \in Int /\ overtakes \in Nat
  BY DownloaderAssumption DEF Init
<1> QED
  BY <1>1, <1>2, <1>3, <1>4, <1>5 DEF Init, TypeOK, NoRequest, Ids

\* The steps of the loop that leave requests, files and plan alone keep the types.
LEMMA WaitingTypeOK ==
  ASSUME TypeOK,
         LoopEnds \/ ReloadRaises \/ QueueEmpty \/ Wake \/ PaceChunk
           \/ Acquired \/ Reacquired \/ AnswerPacing
  PROVE  TypeOK'
<1>1. /\ UNCHANGED <<reqVars, envVars, cur, plan, got, running, abandoned, refused>>
      /\ overtakes' \in {overtakes, overtakes + 1}
  BY DEF LoopEnds, ReloadRaises, QueueEmpty, Wake, PaceChunk, Acquired, Reacquired,
         CountCall, AnswerPacing, histVars
<1>2. /\ pc' \in {"top", "sleep", "chunk", "pacing", "request", "repacing", "rerequest",
                  "stopped", "died"}
      /\ cur' # NoRequest <=> pc' \in {"chunk", "pacing", "request", "repacing", "rerequest"}
      /\ pc' \in {"pacing", "request", "repacing", "rerequest"} => plan' # <<>>
  BY <1>1 DEF TypeOK, LoopEnds, ReloadRaises, ReadyToDequeue, QueueEmpty, Wake,
       PaceChunk, Acquired, Reacquired, AnswerPacing
<1> QED
  BY <1>1, <1>2 DEF TypeOK, Ids, reqVars, envVars

\* Taking a request keeps the types.
LEMMA TakeTypeOK ==
  ASSUME TypeOK, NEW i \in Ids,
         RequeueDisconnected(i) \/ UpToDate(i) \/ StartRequest(i)
  PROVE  TypeOK'
<1>1. /\ i \in 1..Len(status) /\ i # NoRequest
      /\ \A st \in TickerStatus : /\ [status EXCEPT ![i] = st] \in Seq(TickerStatus)
                                  /\ Len([status EXCEPT ![i] = st]) = Len(status)
  BY DEF TypeOK, Ids, NoRequest
<1>2. CASE RequeueDisconnected(i)
  BY <1>1, <1>2 DEF TypeOK, Ids, NoRequest, RequeueDisconnected, ReadyToDequeue,
       envVars, histVars, TickerStatus
<1>3. CASE UpToDate(i)
  BY <1>1, <1>3 DEF TypeOK, Ids, NoRequest, UpToDate, ReadyToDequeue, CountsForApi,
       loopVars, envVars, TickerStatus
<1>4. CASE StartRequest(i)
  <2>1. plan' \in Seq(Chunk)
    <3>1. PICK start \in DeltaStart(SeriesOf(i)) :
            start < now /\ plan' = PlanFrom(SeriesOf(i), start)
      BY <1>4 DEF StartRequest
    <3>2. SeriesOf(i) \in AllSeries /\ SeriesOf(i)[2] \in Timeframes
      BY SeriesOfRequest DEF AllSeries
    <3>3. start \in Int /\ now \in Int /\ ChunkDuration[SeriesOf(i)[2]] \in Nat \ {0}
      BY <3>1, <3>2, DeltaStartInt, DownloaderAssumption DEF TypeOK
    <3> QED
      BY <3>1, <3>3, PlanFacts DEF PlanFrom
  <2>2. abandoned' \in [AllSeries -> SUBSET Int]
    BY <1>4 DEF TypeOK, StartRequest
  <2> QED
    BY <1>1, <1>4, <2>1, <2>2 DEF TypeOK, Ids, NoRequest, StartRequest, ReadyToDequeue,
       CountsForApi, envVars, TickerStatus
<1> QED
  BY <1>2, <1>3, <1>4

\* Giving slots of a plan up keeps the type of the history.
LEMMA AbandonTypeOK ==
  ASSUME TypeOK, cur # NoRequest, NEW slots \in SUBSET Int, Abandon(slots)
  PROVE  abandoned' \in [AllSeries -> SUBSET Int]
BY SeriesOfRequest DEF TypeOK, Abandon, NoRequest

\* Interrupting a request, and losing it to an exception, keep the types.
LEMMA DropTypeOK ==
  ASSUME TypeOK,
         Preempt \/ (\E bars \in Bars(Head(plan)) : AppendRaises(bars))
  PROVE  TypeOK'
<1>1. cur \in Ids /\ cur # NoRequest
  BY DEF TypeOK, Preempt, AppendRaises, Answered, NoRequest
<1>2. PlanSlots(plan) \subseteq Int
  BY PlanSlotsInt DEF TypeOK
<1>3. abandoned' \in [AllSeries -> SUBSET Int]
  BY <1>1, <1>2, AbandonTypeOK DEF Preempt, AppendRaises
<1>4. /\ cur' = NoRequest /\ plan' = <<>> /\ got' = FALSE /\ pc' = "top"
      /\ queue' \in {queue, queue \cup {cur}} /\ lost' \in {lost, lost \cup {cur}}
      /\ UNCHANGED <<reqs, status, running, envVars, refused, overtakes>>
  BY DEF Preempt, AppendRaises
<1>5. <<>> \in Seq(Chunk) /\ queue' \subseteq Ids /\ lost' \subseteq Ids /\ Ids' = Ids
  BY <1>1, <1>4 DEF TypeOK, Ids
<1> QED
  BY <1>3, <1>4, <1>5 DEF TypeOK, envVars

\* Storing an answer and skipping a chunk keep the types.
LEMMA ChunkTypeOK ==
  ASSUME TypeOK,
         \/ \E bars \in Bars(Head(plan)) : AnswerBars(bars)
         \/ \E category \in ErrorCategory : AnswerSkipped(category)
  PROVE  TypeOK'
<1>1. cur \in Ids /\ cur # NoRequest /\ plan # <<>> /\ plan \in Seq(Chunk)
  BY DEF TypeOK, AnswerBars, AnswerSkipped, Answered, NoRequest
<1>2. Head(plan) \in Chunk /\ Tail(plan) \in Seq(Chunk)
  BY <1>1
<1>3. Slots(Head(plan)) \subseteq Int
  BY <1>2 DEF Slots
<1>4. CASE \E bars \in Bars(Head(plan)) : AnswerBars(bars)
  <2>1. PICK bars \in Bars(Head(plan)) : AnswerBars(bars)
    BY <1>4
  <2>2. bars \subseteq Int
    BY <1>2, BarsOfChunk
  <2>3. abandoned' \in [AllSeries -> SUBSET Int]
    BY <1>1, <1>3, <2>1, AbandonTypeOK, Slots(Head(plan)) \ bars \in SUBSET Int
       DEF AnswerBars
  <2>4. store' \in [AllSeries -> SUBSET Int]
    BY <1>1, <2>1, <2>2, SeriesOfRequest DEF TypeOK, AnswerBars
  <2>5. got' \in BOOLEAN
    BY <2>1 DEF AnswerBars
  <2> QED
    BY <1>1, <1>2, <2>1, <2>3, <2>4, <2>5
       DEF TypeOK, Ids, NoRequest, AnswerBars, Answered, reqVars
<1>5. CASE \E category \in ErrorCategory : AnswerSkipped(category)
  <2>1. abandoned' \in [AllSeries -> SUBSET Int]
    BY <1>1, <1>3, <1>5, AbandonTypeOK DEF AnswerSkipped
  <2> QED
    BY <1>1, <1>2, <1>5, <2>1
       DEF TypeOK, Ids, NoRequest, AnswerSkipped, reqVars, envVars
<1> QED
  BY <1>4, <1>5

\* Failing and finishing a request keep the types.
LEMMA EndTypeOK ==
  ASSUME TypeOK,
         \/ AnswerQualifyFailed \/ AnswerNoPermissions \/ FinishRequest
         \/ \E category \in ErrorCategory : RetryFails(category)
  PROVE  TypeOK'
<1>1. cur \in Ids /\ cur # NoRequest /\ reqs[cur].ticker \in Tickers
  <2>1. cur \in Ids /\ cur # NoRequest
    BY DEF TypeOK, AnswerQualifyFailed, AnswerNoPermissions, FinishRequest, RetryFails,
           NoRequest
  <2> QED
    BY <2>1, SeriesOfRequest DEF Request
<1>2. \A st \in TickerStatus : /\ [status EXCEPT ![cur] = st] \in Seq(TickerStatus)
                               /\ Len([status EXCEPT ![cur] = st]) = Len(status)
  BY <1>1 DEF TypeOK, Ids
<1>3. PlanSlots(plan) \subseteq Int /\ <<>> \in Seq(Chunk)
  BY PlanSlotsInt DEF TypeOK
<1>4. CASE FinishRequest
  <2>1. status[cur] \in TickerStatus
    BY <1>1 DEF TypeOK, Ids
  <2>2. status' = [status EXCEPT ![cur] = IF status[cur] = "FAILED" THEN "FAILED" ELSE "DONE"]
    BY <1>4 DEF FinishRequest
  <2>3. status' \in Seq(TickerStatus) /\ Len(status') = Len(status)
    BY <1>2, <2>1, <2>2 DEF TickerStatus
  <2> QED
    BY <1>1, <1>4, <2>3 DEF TypeOK, Ids, NoRequest, FinishRequest, histVars
<1>5. ASSUME FailRequest, pc \in {"request", "rerequest"}
      PROVE  /\ abandoned' \in [AllSeries -> SUBSET Int]
             /\ status' \in Seq(TickerStatus) /\ Len(status') = Len(status)
             /\ plan' = <<>> /\ pc' = "chunk"
             /\ UNCHANGED <<cur, got, running, reqs, queue, lost>>
  BY <1>1, <1>2, <1>3, <1>5, AbandonTypeOK DEF FailRequest, TickerStatus
<1>6. CASE AnswerQualifyFailed
  <2>1. tmap' \in [Tickers -> {"absent", "mapped", "null"}]
    BY <1>1, <1>6 DEF TypeOK, AnswerQualifyFailed, RegisterUnmapped
  <2>2. blacklist' \subseteq Tickers /\ refused' \subseteq Tickers
    BY <1>1, <1>6 DEF TypeOK, AnswerQualifyFailed
  <2> QED
    BY <1>1, <1>3, <1>5, <1>6, <2>1, <2>2 DEF TypeOK, Ids, NoRequest, AnswerQualifyFailed
<1>7. CASE AnswerNoPermissions
  BY <1>1, <1>3, <1>5, <1>7 DEF TypeOK, Ids, NoRequest, AnswerNoPermissions, envVars
<1>8. CASE \E category \in ErrorCategory : RetryFails(category)
  BY <1>1, <1>3, <1>5, <1>8 DEF TypeOK, Ids, NoRequest, RetryFails, envVars
<1> QED
  BY <1>4, <1>6, <1>7, <1>8

\* The other tasks, the clock, the link and the user keep the types.
LEMMA OthersTypeOK ==
  ASSUME TypeOK, Others
  PROVE  TypeOK'
<1> USE DEF loopVars, envVars, histVars, reqVars
<1>1. ASSUME NEW r \in Requests, Accept(r) PROVE TypeOK'
  <2>1. r \in Request /\ "PENDING" \in TickerStatus
    BY DownloaderAssumption DEF TickerStatus
  <2>2. /\ reqs' \in Seq(Request) /\ status' \in Seq(TickerStatus)
        /\ Len(reqs') = Len(reqs) + 1 /\ Len(status') = Len(reqs')
    <3>1. reqs \in Seq(Request) /\ status \in Seq(TickerStatus) /\ Len(status) = Len(reqs)
      BY DEF TypeOK
    <3>2. reqs' = Append(reqs, r) /\ status' = Append(status, "PENDING")
      BY <1>1 DEF Accept
    <3> QED
      BY <2>1, <3>1, <3>2
  <2>3. Ids \subseteq Ids' /\ queue' \subseteq Ids' /\ Len(reqs) \in Nat
    <3>1. Len(reqs) \in Nat /\ Ids' = 1..(Len(reqs) + 1) /\ Ids = 1..Len(reqs)
      BY <2>2 DEF TypeOK, Ids
    <3>2. queue' = queue \cup {Len(reqs) + 1} /\ queue \subseteq Ids
      BY <1>1 DEF TypeOK, Accept
    <3>3. Len(reqs) + 1 \in 1..(Len(reqs) + 1)
          /\ \A k \in 1..Len(reqs) : k \in 1..(Len(reqs) + 1)
      BY <3>1
    <3> HIDE DEF Ids
    <3> QED
      BY <3>1, <3>2, <3>3
  <2>4. /\ pc' = pc /\ cur' = cur /\ plan' = plan /\ got' = got /\ running' = running
        /\ lost' = lost
        /\ UNCHANGED <<envVars, histVars>>
    BY <1>1 DEF Accept
  <2> QED
    BY <2>2, <2>3, <2>4 DEF TypeOK
<1>2. CASE Stop
  BY <1>2 DEF TypeOK, Ids, Stop
<1>3. CASE LinkDrops
  BY <1>3 DEF TypeOK, Ids, LinkDrops
<1>4. CASE Tick
  BY <1>4 DEF TypeOK, Ids, Tick
<1>5. CASE UserBreaksConfig \/ UserRepairsConfig
  BY <1>5 DEF TypeOK, Ids, UserBreaksConfig, UserRepairsConfig
<1>6. ASSUME NEW t \in Tickers, ApiRejects(t) PROVE TypeOK'
  BY <1>6 DEF TypeOK, Ids, ApiRejects
<1>7. ASSUME NEW t \in Tickers, UserUnblacklists(t) PROVE TypeOK'
  BY <1>7 DEF TypeOK, Ids, UserUnblacklists
<1>8. ASSUME NEW t \in Tickers, UserMaps(t) PROVE TypeOK'
  BY <1>8 DEF TypeOK, Ids, UserMaps
<1> QED
  BY <1>1, <1>2, <1>3, <1>4, <1>5, <1>6, <1>7, <1>8 DEF Others

\* Every step keeps the types.
LEMMA StepTypeOK == TypeOK /\ [Next]_vars => TypeOK'
<1>1. TypeOK /\ LoopStep => TypeOK'
  BY WaitingTypeOK, TakeTypeOK, DropTypeOK, ChunkTypeOK, EndTypeOK DEF LoopStep
<1>2. TypeOK /\ UNCHANGED vars => TypeOK'
  BY DEF TypeOK, Ids, vars, reqVars, loopVars, envVars, histVars
<1> QED
  BY <1>1, <1>2, OthersTypeOK DEF Next

\* The variables of the downloader keep their types, and each part of the loop's
\* state is in use exactly where the code uses it.
THEOREM DownloaderTypeOK == Spec => []TypeOK
BY InitTypeOK, StepTypeOK, PTL DEF Spec
-----------------------------------------------------------------------------
(* Where a request is *)

\* A request in hand that has failed has nothing left to do, so it cannot be put back
\* or lost any more.
FailedHasNoPlan == cur # NoRequest /\ status[cur] = "FAILED" => plan = <<>>

\* Requests are conserved as far as the loop's own steps on a single request go.
CInv == RequestsConserved /\ FailedHasNoPlan

\* Steps that leave the requests, the heap and the one in hand alone.
LEMMA SameRequestsCInv ==
  ASSUME CInv, UNCHANGED <<reqVars, cur>>, plan' = plan \/ status[cur] # "FAILED"
  PROVE  CInv'
BY DEF CInv, RequestsConserved, FailedHasNoPlan, reqVars, Ids, Settled

\* Every step of the loop keeps every request in exactly one place.
LEMMA LoopCInv == TypeOK /\ CInv /\ LoopStep => CInv'
<1> SUFFICES ASSUME TypeOK, CInv, LoopStep PROVE CInv'
  OBVIOUS
<1> USE DEF Ids, Settled
<1>0. /\ Len(status) = Len(reqs) /\ status \in Seq(TickerStatus) /\ Len(reqs) \in Nat
      /\ \A k \in Ids : \A st : /\ Len([status EXCEPT ![k] = st]) = Len(status)
                                /\ \A j \in Ids : [status EXCEPT ![k] = st][j]
                                                    = IF j = k THEN st ELSE status[j]
      /\ queue \subseteq Ids /\ lost \subseteq Ids /\ NoRequest \notin Ids
  BY DEF TypeOK, NoRequest
<1>1. CASE LoopEnds \/ ReloadRaises \/ QueueEmpty \/ Wake \/ PaceChunk
             \/ Acquired \/ Reacquired \/ AnswerPacing
  <2>1. UNCHANGED <<reqVars, cur, plan>>
    BY <1>1 DEF LoopEnds, ReloadRaises, QueueEmpty, Wake, PaceChunk, Acquired, Reacquired,
                AnswerPacing
  <2> QED
    BY <2>1, SameRequestsCInv
<1>2. ASSUME NEW i \in Ids, RequeueDisconnected(i) PROVE CInv'
  <2>1. /\ i \in queue /\ cur = NoRequest /\ cur' = NoRequest /\ queue' = queue
        /\ lost' = lost /\ reqs' = reqs /\ status' = [status EXCEPT ![i] = "DOWNLOADING"]
    BY <1>2 DEF RequeueDisconnected, ReadyToDequeue, IsTop, TypeOK
  <2> QED
    BY <1>0, <2>1 DEF CInv, RequestsConserved, FailedHasNoPlan
<1>3. ASSUME NEW i \in Ids, UpToDate(i) PROVE CInv'
  <2>1. /\ i \in queue /\ cur = NoRequest /\ cur' = NoRequest /\ queue' = queue \ {i}
        /\ lost' = lost /\ reqs' = reqs /\ status' = [status EXCEPT ![i] = "DONE"]
    BY <1>3 DEF UpToDate, ReadyToDequeue, IsTop, TypeOK, loopVars
  <2> QED
    BY <1>0, <2>1 DEF CInv, RequestsConserved, FailedHasNoPlan
<1>4. ASSUME NEW i \in Ids, StartRequest(i) PROVE CInv'
  <2>1. /\ i \in queue /\ cur = NoRequest /\ cur' = i /\ queue' = queue \ {i}
        /\ lost' = lost /\ reqs' = reqs /\ status' = [status EXCEPT ![i] = "DOWNLOADING"]
    BY <1>4 DEF StartRequest, ReadyToDequeue, IsTop, TypeOK
  <2>2. status'[i] = "DOWNLOADING"
    BY <1>0, <2>1
  <2>3. FailedHasNoPlan'
    BY <2>1, <2>2 DEF FailedHasNoPlan
  <2>4. RequestsConserved'
    BY <1>0, <2>1 DEF CInv, RequestsConserved
  <2> QED
    BY <2>3, <2>4 DEF CInv
<1>5. CASE Preempt
  <2>1. /\ cur \in Ids /\ status[cur] \notin Settled /\ cur' = NoRequest
        /\ queue' = queue \cup {cur} /\ UNCHANGED <<reqs, status, lost>>
    BY <1>0, <1>5 DEF Preempt, TypeOK, CInv, RequestsConserved, FailedHasNoPlan
  <2> QED
    BY <1>0, <2>1 DEF CInv, RequestsConserved, FailedHasNoPlan
<1>6. ASSUME NEW bars, AppendRaises(bars) PROVE CInv'
  <2>1. /\ cur \in Ids /\ status[cur] \notin Settled /\ cur' = NoRequest
        /\ lost' = lost \cup {cur} /\ UNCHANGED <<reqs, status, queue>>
    BY <1>0, <1>6 DEF AppendRaises, Answered, TypeOK, CInv, RequestsConserved, FailedHasNoPlan
  <2> QED
    BY <1>0, <2>1 DEF CInv, RequestsConserved, FailedHasNoPlan
<1>7. ASSUME NEW bars, AnswerBars(bars) PROVE CInv'
  <2>1. UNCHANGED <<reqVars, cur>> /\ status[cur] # "FAILED"
    BY <1>7 DEF AnswerBars, Answered, TypeOK, CInv, FailedHasNoPlan
  <2> QED
    BY <2>1, SameRequestsCInv
<1>8. ASSUME NEW category, AnswerSkipped(category) PROVE CInv'
  <2>1. UNCHANGED <<reqVars, cur>> /\ status[cur] # "FAILED"
    BY <1>8 DEF AnswerSkipped, TypeOK, CInv, FailedHasNoPlan
  <2> QED
    BY <2>1, SameRequestsCInv
<1>9. ASSUME FailRequest, pc # "chunk", cur \in Ids PROVE CInv'
  BY <1>0, <1>9 DEF FailRequest, CInv, RequestsConserved, FailedHasNoPlan
<1>10. CASE AnswerQualifyFailed \/ AnswerNoPermissions
  BY <1>9, <1>10 DEF AnswerQualifyFailed, AnswerNoPermissions, TypeOK
<1>11. ASSUME NEW category, RetryFails(category) PROVE CInv'
  BY <1>9, <1>11 DEF RetryFails, TypeOK
<1>12. CASE FinishRequest
  <2>1. /\ cur \in Ids /\ cur' = NoRequest /\ UNCHANGED <<reqs, queue, lost>>
        /\ status' = [status EXCEPT ![cur] = IF status[cur] = "FAILED" THEN "FAILED" ELSE "DONE"]
    BY <1>12 DEF FinishRequest, TypeOK
  <2> QED
    BY <1>0, <2>1 DEF CInv, RequestsConserved, FailedHasNoPlan
<1> QED
  BY <1>1, <1>2, <1>3, <1>4, <1>5, <1>6, <1>7, <1>8, <1>10, <1>11, <1>12 DEF LoopStep

\* Accepting a request puts it into the heap and touches no other; the other tasks and
\* the user leave the requests alone.
LEMMA OthersCInv == TypeOK /\ CInv /\ Others => CInv'
<1> SUFFICES ASSUME TypeOK, CInv, Others PROVE CInv'
  OBVIOUS
<1>1. ASSUME NEW r \in Requests, Accept(r) PROVE CInv'
  <2> DEFINE n == Len(reqs)
  <2>1. /\ n \in Nat /\ Ids = 1..n /\ Len(status) = n /\ status \in Seq(TickerStatus)
        /\ reqs \in Seq(Request) /\ r \in Request
        /\ queue \subseteq Ids /\ lost \subseteq Ids /\ cur \in Ids \cup {0}
    BY DownloaderAssumption DEF TypeOK, Ids, NoRequest
  <2>2. /\ reqs' = Append(reqs, r) /\ status' = Append(status, "PENDING")
        /\ queue' = queue \cup {n + 1} /\ lost' = lost /\ cur' = cur /\ plan' = plan
    BY <1>1 DEF Accept, loopVars
  <2>3. /\ Ids' = 1..(n + 1) /\ status'[n + 1] = "PENDING"
        /\ \A i \in 1..n : status'[i] = status[i]
    BY <2>1, <2>2 DEF Ids
  <2>4. FailedHasNoPlan'
    BY <2>1, <2>2, <2>3 DEF CInv, FailedHasNoPlan, NoRequest
  <2>5. RequestsConserved'
    <3> SUFFICES ASSUME NEW i \in 1..(n + 1)
                 PROVE  /\ i \in queue' => i # cur' /\ i \notin lost' /\ status'[i] \notin Settled
                        /\ i = cur'  => i \notin lost' /\ status'[i] # "DONE"
                        /\ i \in lost' => status'[i] \notin Settled
                        /\ i \in queue' \/ i = cur' \/ i \in lost' \/ status'[i] \in Settled
      BY <2>3 DEF RequestsConserved
    <3>1. CASE i = n + 1
      BY <3>1, <2>1, <2>2, <2>3 DEF Settled
    <3>2. CASE i \in 1..n
      BY <3>2, <2>1, <2>2, <2>3 DEF CInv, RequestsConserved, Settled
    <3> QED
      BY <3>1, <3>2, <2>1
  <2> QED
    BY <2>4, <2>5 DEF CInv
<1>2. UNCHANGED <<reqVars, cur, plan>> => CInv'
  BY SameRequestsCInv
<1> QED
  BY <1>1, <1>2 DEF Others, Stop, LinkDrops, Tick, UserBreaksConfig, UserRepairsConfig,
     ApiRejects, UserUnblacklists, UserMaps, loopVars

\* Every step keeps every request in exactly one place.
LEMMA StepCInv == TypeOK /\ CInv /\ [Next]_vars => CInv'
<1>1. CInv /\ UNCHANGED vars => CInv'
  BY SameRequestsCInv DEF vars, loopVars
<1> QED
  BY <1>1, LoopCInv, OthersCInv DEF Next

\* No request has been accepted at the start.
LEMMA InitCInv == Init => CInv
BY DEF Init, CInv, RequestsConserved, FailedHasNoPlan, Ids

\* Every accepted request is, at every moment, in exactly one place: queued, in hand,
\* settled, or thrown away by an exception.
THEOREM RequestsAreConserved == Spec => []RequestsConserved
<1>1. CInv => RequestsConserved
  BY DEF CInv
<1> QED
  BY <1>1, InitCInv, StepCInv, InitTypeOK, StepTypeOK, PTL DEF Spec
-----------------------------------------------------------------------------
(* What a settled request and a mapping of the user can rely on *)

\* A request that is settled keeps its status, a failed one even while it is in hand,
\* and is not taken up again.
KeepsSettled ==
    \A i \in Ids :
        /\ status[i] = "FAILED" => status'[i] = "FAILED"
        /\ (status[i] \in Settled /\ i # cur)
             => status'[i] = status[i] /\ i \notin queue' /\ i # cur'

\* A step that changes the status of no request, keeps the one in hand or lets it go,
\* and puts none into the heap but one that is not settled.
LEMMA SameStatusKeeps ==
  ASSUME TypeOK, CInv, status' = status, cur' \in {cur, NoRequest},
         \A i \in Ids : i \in queue' => i \in queue \/ (i = cur /\ status[i] # "FAILED")
  PROVE  KeepsSettled
<1>1. NoRequest \notin Ids
  BY DEF Ids, NoRequest
<1> QED
  BY <1>1 DEF KeepsSettled, CInv, RequestsConserved, Settled

\* A step of the loop that sets the status of one request: one of the heap, which may
\* leave it for the loop's hands, or the one in hand.
LEMMA OneStatusKeeps ==
  ASSUME TypeOK, CInv, NEW k \in Ids, NEW st, status' = [status EXCEPT ![k] = st],
         k \in queue \/ k = cur, status[k] = "FAILED" => st = "FAILED",
         cur' \in {cur, k, NoRequest}, queue' \subseteq queue
  PROVE  KeepsSettled
<1>1. /\ NoRequest \notin Ids
      /\ \A i \in Ids : status'[i] = IF i = k THEN st ELSE status[i]
  BY DEF TypeOK, Ids, NoRequest
<1> QED
  BY <1>1 DEF KeepsSettled, CInv, RequestsConserved, Settled

\* No step of the node, of the user or of the gateway touches a settled request.
LEMMA StepKeepsSettled == TypeOK /\ CInv /\ [Next]_vars => KeepsSettled
<1> SUFFICES ASSUME TypeOK, CInv, [Next]_vars PROVE KeepsSettled
  OBVIOUS
<1>1. CASE \/ LoopEnds \/ ReloadRaises \/ QueueEmpty \/ Wake \/ PaceChunk
           \/ Acquired \/ Reacquired \/ AnswerPacing \/ UNCHANGED vars
           \/ (\E bars \in Bars(Head(plan)) : AnswerBars(bars) \/ AppendRaises(bars))
           \/ (\E category \in ErrorCategory : AnswerSkipped(category))
           \/ Stop \/ LinkDrops \/ Tick \/ UserBreaksConfig \/ UserRepairsConfig
           \/ \E t \in Tickers : ApiRejects(t) \/ UserUnblacklists(t) \/ UserMaps(t)
  <2>1. status' = status /\ queue' = queue /\ cur' \in {cur, NoRequest}
    BY <1>1 DEF vars, reqVars, loopVars, LoopEnds, ReloadRaises, QueueEmpty, Wake,
         PaceChunk, Acquired, Reacquired, AnswerPacing, AnswerBars, AppendRaises,
         AnswerSkipped, Stop, LinkDrops, Tick, UserBreaksConfig, UserRepairsConfig,
         ApiRejects, UserUnblacklists, UserMaps
  <2> QED
    BY <2>1, SameStatusKeeps
<1>2. CASE Preempt
  <2>1. /\ cur # NoRequest /\ status[cur] # "FAILED" /\ cur' = NoRequest
        /\ status' = status /\ queue' = queue \cup {cur}
    BY <1>2 DEF Preempt, TypeOK, CInv, FailedHasNoPlan
  <2> QED
    BY <2>1, SameStatusKeeps
<1>3. ASSUME NEW i \in Ids, RequeueDisconnected(i) \/ UpToDate(i) \/ StartRequest(i)
      PROVE  KeepsSettled
  <2>1. /\ i \in queue /\ cur = NoRequest /\ cur' \in {NoRequest, i} /\ queue' \subseteq queue
        /\ \E st : status' = [status EXCEPT ![i] = st]
    BY <1>3 DEF RequeueDisconnected, UpToDate, StartRequest, ReadyToDequeue, IsTop, TypeOK,
         loopVars
  <2>2. status[i] # "FAILED"
    BY <2>1 DEF CInv, RequestsConserved, Settled
  <2> QED
    BY <2>1, <2>2, OneStatusKeeps
<1>4. CASE \/ AnswerQualifyFailed \/ AnswerNoPermissions
           \/ \E category \in ErrorCategory : RetryFails(category)
  <2>1. cur \in Ids
    BY <1>4 DEF AnswerQualifyFailed, AnswerNoPermissions, RetryFails, TypeOK
  <2>2. cur' = cur /\ queue' = queue /\ status' = [status EXCEPT ![cur] = "FAILED"]
    BY <1>4 DEF AnswerQualifyFailed, AnswerNoPermissions, RetryFails, FailRequest
  <2> QED
    BY <2>1, <2>2, OneStatusKeeps
<1>5. CASE FinishRequest
  <2>1. cur \in Ids /\ cur' = NoRequest /\ queue' = queue
    BY <1>5 DEF FinishRequest, TypeOK
  <2>2. status' = [status EXCEPT ![cur] = IF status[cur] = "FAILED" THEN "FAILED" ELSE "DONE"]
    BY <1>5 DEF FinishRequest
  <2> QED
    BY <2>1, <2>2, OneStatusKeeps
<1>6. ASSUME NEW r \in Requests, Accept(r) PROVE KeepsSettled
  <2>1. /\ status' = Append(status, "PENDING") /\ queue' = queue \cup {Len(reqs) + 1}
        /\ cur' = cur
    BY <1>6 DEF Accept, loopVars
  <2>2. /\ Len(status) = Len(reqs) /\ status \in Seq(TickerStatus) /\ Len(reqs) \in Nat
        /\ Ids = 1..Len(reqs)
    BY DEF TypeOK, Ids
  <2>3. \A i \in Ids : status'[i] = status[i] /\ i # Len(reqs) + 1
    BY <2>1, <2>2
  <2> QED
    BY <2>1, <2>3 DEF KeepsSettled, CInv, RequestsConserved
<1> QED
  BY <1>1, <1>2, <1>3, <1>4, <1>5, <1>6 DEF Next, LoopStep, Others

\* A request that failed never ends as done, for every order of answers and requests.
THEOREM FailuresStick == Spec => FailureSticks
<1>1. TypeOK /\ CInv /\ [Next]_vars
        => [\A i \in Ids : status[i] = "FAILED" => status'[i] = "FAILED"]_vars
  BY StepKeepsSettled DEF KeepsSettled
<1> QED
  BY <1>1, InitCInv, InitTypeOK, StepTypeOK, StepCInv, PTL DEF Spec, FailureSticks

\* A settled request is never touched again: not its status, and it comes back neither
\* into the heap nor into the loop's hands.
THEOREM SettledIsForGood == Spec => SettledForGood
<1>1. TypeOK /\ CInv /\ [Next]_vars
        => [\A i \in Ids : (status[i] \in Settled /\ i # cur)
              => status'[i] = status[i] /\ i \notin queue' /\ i # cur']_vars
  BY StepKeepsSettled DEF KeepsSettled
<1> QED
  BY <1>1, InitCInv, InitTypeOK, StepTypeOK, StepCInv, PTL DEF Spec, SettledForGood
-----------------------------------------------------------------------------
(* Hardly a bar is asked for twice *)

\* The plan of the request in hand is newest first and disjoint, no chunk of it is
\* empty, and what of it is stored is at the end of the chunk ahead.
MInv == NewestFirst(plan) /\ NoneEmpty(plan) /\ RepeatsOnlyAtJoints

\* An empty plan asks for nothing.
LEMMA EmptyPlanMInv == plan = <<>> => MInv
BY DEF MInv, NewestFirst, NoneEmpty, RepeatsOnlyAtJoints

\* Steps that leave the plan, the stored bars and the request in hand alone.
LEMMA SamePlanMInv ==
  ASSUME TypeOK, MInv, UNCHANGED <<cur, plan, store>>,
         cur # NoRequest => SeriesOf(cur)' = SeriesOf(cur)
  PROVE  MInv'
BY DEF MInv, NewestFirst, NoneEmpty, RepeatsOnlyAtJoints, PlanSlots, Slots

\* Going on to the next chunk: what is stored of the rest of a plan lies at the end of
\* the chunk that is then ahead, whether it was stored before or came with the answer.
LEMMA RestRepeatsAtJoint ==
  ASSUME NEW chunks \in Seq(Chunk), chunks # <<>>, NewestFirst(chunks), NoneEmpty(chunks),
         Tail(chunks) # <<>>, NEW held,
         \A t \in PlanSlots(chunks) \cap held : t > Head(chunks).end_ts - Overreach,
         NEW bars \in SUBSET Int,
         \A t \in bars : t >= Head(chunks).start_ts - Overreach
  PROVE  \A t \in PlanSlots(Tail(chunks)) \cap (held \cup bars) :
            t > Head(Tail(chunks)).end_ts - Overreach
<1>1. Head(chunks) \in Chunk /\ Tail(chunks) \in Seq(Chunk)
      /\ PlanSlots(Tail(chunks)) \subseteq PlanSlots(chunks)
      /\ Head(Tail(chunks)).end_ts < Head(chunks).start_ts
  BY TailFacts
<1>2. Head(Tail(chunks)) \in Chunk
  BY <1>1
<1>3. /\ Head(chunks).start_ts \in Int /\ Head(chunks).end_ts \in Int
      /\ Head(Tail(chunks)).end_ts \in Int /\ Overreach \in Nat
  BY <1>1, <1>2, DownloaderAssumption DEF Chunk
<1>4. Head(chunks).start_ts <= Head(chunks).end_ts
  BY DEF NoneEmpty
<1>5. PlanSlots(Tail(chunks)) \subseteq Int
  BY <1>1, PlanSlotsInt
<1> QED
  BY <1>1, <1>3, <1>4, <1>5

\* Every step keeps it so: a plan starts after the last bar, and an answer adds slots
\* of the chunk that then leaves the plan, and of the end of the next one.
LEMMA StepMInv == TypeOK /\ MInv /\ [Next]_vars => MInv'
<1> SUFFICES ASSUME TypeOK, MInv, [Next]_vars PROVE MInv'
  OBVIOUS
<1>1. CASE \/ LoopEnds \/ ReloadRaises \/ QueueEmpty \/ Wake \/ PaceChunk
           \/ Acquired \/ Reacquired \/ AnswerPacing \/ UNCHANGED vars
           \/ \E i \in Ids : RequeueDisconnected(i) \/ UpToDate(i)
           \/ Stop \/ LinkDrops \/ Tick \/ UserBreaksConfig \/ UserRepairsConfig
           \/ \E t \in Tickers : ApiRejects(t) \/ UserUnblacklists(t) \/ UserMaps(t)
  <2>1. UNCHANGED <<reqs, cur, plan, store>>
    BY <1>1 DEF vars, reqVars, loopVars, envVars, LoopEnds, ReloadRaises, QueueEmpty, Wake,
         PaceChunk, Acquired, Reacquired, AnswerPacing, RequeueDisconnected, UpToDate, Stop,
         LinkDrops, Tick, UserBreaksConfig, UserRepairsConfig, ApiRejects,
         UserUnblacklists, UserMaps
  <2>2. SeriesOf(cur)' = SeriesOf(cur)
    BY <2>1 DEF SeriesOf
  <2> QED
    BY <2>1, <2>2, SamePlanMInv
<1>2. ASSUME NEW r \in Requests, Accept(r) PROVE MInv'
  <2>1. UNCHANGED <<cur, plan, store>> /\ reqs' = Append(reqs, r)
    BY <1>2 DEF Accept, loopVars, envVars
  <2>2. cur # NoRequest => cur \in 1..Len(reqs) /\ reqs \in Seq(Request) /\ r \in Request
    BY DownloaderAssumption DEF TypeOK, Ids
  <2>3. cur # NoRequest => reqs'[cur] = reqs[cur]
    BY <2>1, <2>2
  <2>4. cur # NoRequest => SeriesOf(cur)' = SeriesOf(cur)
    BY <2>1, <2>3 DEF SeriesOf
  <2> QED
    BY <2>1, <2>4, SamePlanMInv
<1>3. ASSUME NEW i \in Ids, StartRequest(i) PROVE MInv'
  <2>1. PICK start \in DeltaStart(SeriesOf(i)) :
          start < now /\ plan' = PlanFrom(SeriesOf(i), start)
    BY <1>3 DEF StartRequest
  <2>2. SeriesOf(i) \in AllSeries /\ SeriesOf(i)[2] \in Timeframes
    BY SeriesOfRequest DEF AllSeries
  <2>3. /\ start \in Int /\ now \in Int /\ ChunkDuration[SeriesOf(i)[2]] \in Nat \ {0}
        /\ \A t \in store[SeriesOf(i)] : t < start
    BY <2>1, <2>2, DeltaStartInt, DownloaderAssumption DEF TypeOK
  <2>4. /\ NewestFirst(plan') /\ NoneEmpty(plan')
        /\ PlanSlots(plan') \subseteq start .. now
    BY <2>1, <2>3, PlanFacts DEF PlanFrom
  <2>5. cur' = i /\ store' = store /\ reqs' = reqs
    BY <1>3 DEF StartRequest, envVars
  <2>6. PlanSlots(plan') \cap store[SeriesOf(i)] = {}
    <3> SUFFICES ASSUME NEW t \in PlanSlots(plan'), t \in store[SeriesOf(i)] PROVE FALSE
      OBVIOUS
    <3> QED
      BY <2>3, <2>4
  <2> QED
    BY <2>4, <2>5, <2>6 DEF MInv, RepeatsOnlyAtJoints, SeriesOf, NewestFirst, NoneEmpty,
       PlanSlots, Slots
<1>4. CASE \/ Preempt \/ FinishRequest \/ AnswerQualifyFailed \/ AnswerNoPermissions
           \/ \E bars \in Bars(Head(plan)) : AppendRaises(bars)
           \/ \E category \in ErrorCategory : RetryFails(category)
  <2>1. plan' = <<>>
    BY <1>4 DEF Preempt, FinishRequest, AnswerQualifyFailed, AnswerNoPermissions,
         AppendRaises, RetryFails, FailRequest
  <2> QED
    BY <2>1 DEF MInv, NewestFirst, NoneEmpty, RepeatsOnlyAtJoints
<1>5. ASSUME cur # NoRequest, plan # <<>>, plan' = Tail(plan), cur' = cur, reqs' = reqs,
             NEW bars \in SUBSET Int, store'[SeriesOf(cur)] = store[SeriesOf(cur)] \cup bars,
             \A t \in bars : t >= Head(plan).start_ts - Overreach
      PROVE  MInv'
  <2>1. plan \in Seq(Chunk) /\ NewestFirst(Tail(plan)) /\ NoneEmpty(Tail(plan))
    BY <1>5, TailFacts DEF TypeOK, MInv
  <2>2. \A t \in PlanSlots(plan) \cap store[SeriesOf(cur)] : t > Head(plan).end_ts - Overreach
    BY <1>5 DEF MInv, RepeatsOnlyAtJoints
  <2>3. Tail(plan) # <<>> =>
          \A t \in PlanSlots(Tail(plan)) \cap (store[SeriesOf(cur)] \cup bars) :
             t > Head(Tail(plan)).end_ts - Overreach
    BY <1>5, <2>1, <2>2, RestRepeatsAtJoint DEF MInv
  <2>4. SeriesOf(cur)' = SeriesOf(cur) /\ PlanSlots(plan)' = PlanSlots(Tail(plan))
    BY <1>5 DEF SeriesOf, PlanSlots, Slots
  <2>5. RepeatsOnlyAtJoints'
    BY <1>5, <2>3, <2>4 DEF RepeatsOnlyAtJoints
  <2> QED
    BY <1>5, <2>1, <2>5 DEF MInv, NewestFirst, NoneEmpty
<1>6. ASSUME NEW bars \in Bars(Head(plan)), AnswerBars(bars) PROVE MInv'
  <2>1. /\ plan # <<>> /\ cur # NoRequest /\ cur' = cur /\ reqs' = reqs /\ plan' = Tail(plan)
        /\ store' = [store EXCEPT ![SeriesOf(cur)] = @ \cup bars]
    BY <1>6 DEF AnswerBars, Answered, TypeOK, reqVars
  <2>2. Head(plan) \in Chunk /\ SeriesOf(cur) \in AllSeries
    BY <2>1, SeriesOfRequest DEF TypeOK
  <2>3. store'[SeriesOf(cur)] = store[SeriesOf(cur)] \cup bars
    BY <2>1, <2>2 DEF TypeOK
  <2>4. bars \in SUBSET Int /\ \A t \in bars : t >= Head(plan).start_ts - Overreach
    BY <2>2, BarsOfChunk
  <2> QED
    BY <1>5, <2>1, <2>3, <2>4
<1>7. ASSUME NEW category, AnswerSkipped(category) PROVE MInv'
  <2>1. /\ plan # <<>> /\ cur # NoRequest /\ cur' = cur /\ reqs' = reqs /\ plan' = Tail(plan)
        /\ store' = store
    BY <1>7 DEF AnswerSkipped, TypeOK, reqVars, envVars
  <2>2. store'[SeriesOf(cur)] = store[SeriesOf(cur)] \cup {} /\ {} \in SUBSET Int
    BY <2>1
  <2> QED
    BY <1>5, <2>1, <2>2
<1> QED
  BY <1>1, <1>2, <1>3, <1>4, <1>6, <1>7 DEF Next, LoopStep, Others

\* What the loop asks for is missing but for the end of the chunk ahead, for every chunk
\* size, lookback, clock and overreach, and whatever the answers bring.
THEOREM RepeatsAreAtJoints == Spec => []RepeatsOnlyAtJoints
<1>1. Init => MInv
  BY EmptyPlanMInv DEF Init
<1>2. MInv => RepeatsOnlyAtJoints
  BY DEF MInv
<1> QED
  BY <1>1, <1>2, InitTypeOK, StepTypeOK, StepMInv, PTL DEF Spec
-----------------------------------------------------------------------------
(* Holes have a cause *)

\* A set of slots without a hole.
WithoutHoles(slots) == \A a, b \in slots : a .. b \subseteq slots

\* A download that goes on right after a slot of a set without holes leaves none.
LEMMA GoingOnLeavesNoHole ==
  ASSUME NEW known \in SUBSET Int, WithoutHoles(known), NEW planned \in SUBSET Int,
         NEW start \in Int, NEW end \in Int, start < end, start - 1 \in known,
         start .. (end - 1) \subseteq planned, planned \subseteq start .. end
  PROVE  WithoutHoles(known \cup planned)
<1> SUFFICES ASSUME NEW a \in known \cup planned, NEW b \in known \cup planned, NEW t \in a .. b
             PROVE  t \in known \cup planned
  BY DEF WithoutHoles
<1>1. a \in Int /\ b \in Int /\ t \in Int /\ a <= t /\ t <= b
  OBVIOUS
<1>2. CASE b \in known
  <2>1. \A x, y \in known : x .. y \subseteq known
    BY DEF WithoutHoles
  <2>2. CASE a \in known
    BY <1>2, <2>1, <2>2
  <2>3. CASE a \in planned
    <3>1. start <= a
      BY <2>3
    <3>2. t \in (start - 1) .. b
      BY <1>1, <3>1
    <3> QED
      BY <1>2, <2>1, <3>2
  <2> QED
    BY <2>2, <2>3
<1>3. CASE b \in planned
  <2>1. b <= end
    BY <1>3
  <2>2. CASE t = b
    BY <1>3, <2>2
  <2>3. CASE t # b /\ start <= t
    <3>1. t \in start .. (end - 1)
      BY <1>1, <2>1, <2>3
    <3> QED
      BY <3>1
  <2>4. CASE t < start
    <3>1. a \in known
      BY <1>1, <2>4
    <3>2. a .. (start - 1) \subseteq known
      BY <3>1 DEF WithoutHoles
    <3>3. t \in a .. (start - 1)
      BY <1>1, <2>4
    <3> QED
      BY <3>2, <3>3
  <2> QED
    BY <1>1, <2>2, <2>3, <2>4
<1> QED
  BY <1>2, <1>3

\* A full download leaves none by itself.
LEMMA FullPlanHasNoHole ==
  ASSUME NEW planned \in SUBSET Int, NEW start \in Int, NEW end \in Int,
         start .. (end - 1) \subseteq planned, planned \subseteq start .. end
  PROVE  WithoutHoles(planned)
<1> SUFFICES ASSUME NEW a \in planned, NEW b \in planned, NEW t \in a .. b
             PROVE  t \in planned
  BY DEF WithoutHoles
<1>1. a \in Int /\ b \in Int /\ t \in Int /\ start <= a /\ a <= t /\ t <= b /\ b <= end
  OBVIOUS
<1>2. t = b \/ t \in start .. (end - 1)
  BY <1>1
<1> QED
  BY <1>2

\* Slots that begin anywhere and end at a slot of the set fill it up without a hole.
LEMMA EndingWithinLeavesNoHole ==
  ASSUME NEW known \in SUBSET Int, WithoutHoles(known), NEW first \in Int, NEW last \in known
  PROVE  WithoutHoles(known \cup first .. last)
<1> SUFFICES ASSUME NEW a \in known \cup first .. last, NEW b \in known \cup first .. last,
                    NEW t \in a .. b
             PROVE  t \in known \cup first .. last
  BY DEF WithoutHoles
<1>1. a \in Int /\ b \in Int /\ t \in Int /\ last \in Int /\ a <= t /\ t <= b
  OBVIOUS
<1>2. CASE t > last
  <2>1. b \in known /\ last .. b \subseteq known
    BY <1>1, <1>2 DEF WithoutHoles
  <2> QED
    BY <1>1, <1>2, <2>1
<1>3. CASE t < first /\ t <= last
  <2>1. a \in known /\ a .. last \subseteq known
    BY <1>1, <1>3 DEF WithoutHoles
  <2> QED
    BY <1>1, <1>3, <2>1
<1> QED
  BY <1>1, <1>2, <1>3

\* Steps that account for the same slots as before.
LEMMA SameAccounts ==
  ASSUME HolesHaveACause, \A s \in AllSeries : Accounted(s)' = Accounted(s)
  PROVE  HolesHaveACause'
BY DEF HolesHaveACause

\* A request is started with a plan that goes on where its series ends, or that is all
\* there is of the series.
LEMMA StartAccounts ==
  ASSUME TypeOK, HolesHaveACause, NEW i \in Ids, StartRequest(i)
  PROVE  HolesHaveACause'
<1>0. PICK mine \in AllSeries : mine = SeriesOf(i)
  BY SeriesOfRequest
<1>1. PICK start \in DeltaStart(mine) : start < now /\ plan' = PlanFrom(mine, start)
  BY <1>0 DEF StartRequest
<1>2. mine \in AllSeries /\ mine[2] \in Timeframes
  BY <1>0 DEF AllSeries
<1>3. /\ start \in Int /\ now \in Int /\ ChunkDuration[mine[2]] \in Nat \ {0}
      /\ store[mine] \subseteq Int /\ abandoned[mine] \subseteq Int
  BY <1>1, <1>2, DeltaStartInt, DownloaderAssumption DEF TypeOK
<1>4. PlanSlots(plan') \subseteq start .. now /\ start .. (now - 1) \subseteq PlanSlots(plan')
  BY <1>1, <1>3, PlanFacts, PlanCovers DEF PlanFrom
<1>5. /\ cur = NoRequest /\ cur' = i /\ i # NoRequest
      /\ store' = store /\ reqs' = reqs
      /\ abandoned' = IF store[mine] = {} THEN [abandoned EXCEPT ![mine] = {}] ELSE abandoned
  BY <1>0 DEF StartRequest, ReadyToDequeue, TypeOK, envVars, Ids, NoRequest
<1>6. ASSUME NEW s \in AllSeries, s # mine PROVE Accounted(s)' = Accounted(s)
  <2>1. abandoned'[s] = abandoned[s]
    BY <1>5, <1>6 DEF TypeOK
  <2>2. SeriesOf(i)' = mine
    BY <1>0, <1>5 DEF SeriesOf
  <2> QED
    BY <1>5, <1>6, <2>1, <2>2 DEF Accounted
<1>7. Accounted(mine)' = store[mine] \cup abandoned'[mine] \cup PlanSlots(plan')
  <2>1. SeriesOf(cur)' = mine
    BY <1>0, <1>5 DEF SeriesOf
  <2>2. PlanSlots(plan)' = PlanSlots(plan')
    BY DEF PlanSlots, Slots
  <2> QED
    BY <1>5, <2>1, <2>2 DEF Accounted
<1>8. PlanSlots(plan') \in SUBSET Int
  BY <1>3, <1>4
<1>9. WithoutHoles(Accounted(mine)')
  <2>1. CASE store[mine] = {}
    <3>1. abandoned'[mine] = {}
      BY <1>2, <1>5, <2>1 DEF TypeOK
    <3>2. Accounted(mine)' = PlanSlots(plan')
      BY <1>7, <2>1, <3>1
    <3> QED
      BY <1>3, <1>4, <1>8, <3>2, FullPlanHasNoHole
  <2>2. CASE store[mine] # {}
    <3> DEFINE known == store[mine] \cup abandoned[mine]
    <3>1. start - 1 \in store[mine]
      BY <1>1, <1>3, <2>2 DEF DeltaStart
    <3>2. Accounted(mine) = known
      BY <1>5 DEF Accounted
    <3>3. WithoutHoles(known)
      BY <1>2, <3>2 DEF HolesHaveACause, WithoutHoles
    <3>4. Accounted(mine)' = known \cup PlanSlots(plan')
      BY <1>5, <1>7, <2>2
    <3>5. known \in SUBSET Int
      BY <1>3
    <3> HIDE DEF known
    <3>6. start - 1 \in known
      BY <3>1 DEF known
    <3> QED
      BY <1>1, <1>3, <1>4, <1>8, <3>3, <3>4, <3>5, <3>6, GoingOnLeavesNoHole
  <2> QED
    BY <2>1, <2>2
<1> SUFFICES ASSUME NEW s \in AllSeries PROVE WithoutHoles(Accounted(s)')
  BY DEF HolesHaveACause, WithoutHoles
<1>10. CASE s = mine
  BY <1>9, <1>10
<1>11. CASE s # mine
  BY <1>6, <1>11 DEF HolesHaveACause, WithoutHoles
<1> QED
  BY <1>10, <1>11

\* Giving up all that is planned, and letting the request go or keeping it, accounts
\* for the same slots.
LEMMA AbandonAccounts ==
  ASSUME TypeOK, cur \in Ids, Abandon(PlanSlots(plan)), plan' = <<>>,
         UNCHANGED <<reqs, store>>, cur' \in {cur, NoRequest}, NEW s \in AllSeries
  PROVE  Accounted(s)' = Accounted(s)
<1>1. SeriesOf(cur) \in AllSeries /\ cur # NoRequest
  BY SeriesOfRequest DEF Ids, NoRequest
<1>2. abandoned'[s] = IF s = SeriesOf(cur) THEN abandoned[s] \cup PlanSlots(plan) ELSE abandoned[s]
  BY <1>1 DEF Abandon, TypeOK
<1>3. PlanSlots(plan)' = {}
  BY DEF PlanSlots
<1>4. (IF cur # NoRequest /\ SeriesOf(cur) = s THEN PlanSlots(plan) ELSE {})' = {}
  BY <1>3
<1> QED
  BY <1>1, <1>2, <1>4 DEF Accounted

\* Going on to the next chunk accounts for the same slots, those of the chunk being
\* stored or given up now, and for the bars of the answer.
LEMMA ChunkAccounts ==
  ASSUME TypeOK, MInv, cur \in Ids, plan # <<>>, NEW bars \in SUBSET Int,
         store' = [store EXCEPT ![SeriesOf(cur)] = @ \cup bars],
         Abandon(Slots(Head(plan)) \ bars), plan' = Tail(plan),
         UNCHANGED <<reqs, cur>>, NEW s \in AllSeries
  PROVE  Accounted(s)' = Accounted(s) \cup (IF s = SeriesOf(cur) THEN bars ELSE {})
<1>1. SeriesOf(cur) \in AllSeries /\ cur # NoRequest /\ SeriesOf(cur)' = SeriesOf(cur)
  BY SeriesOfRequest DEF Ids, NoRequest, SeriesOf
<1>2. PlanSlots(plan) = Slots(Head(plan)) \cup PlanSlots(Tail(plan))
  BY TailFacts DEF TypeOK, MInv
<1>3. PlanSlots(plan)' = PlanSlots(Tail(plan))
  BY DEF PlanSlots, Slots
<1>4. CASE s = SeriesOf(cur)
  <2>1. store'[s] = store[s] \cup bars /\ abandoned'[s] = abandoned[s] \cup (Slots(Head(plan)) \ bars)
    BY <1>1, <1>4 DEF Abandon, TypeOK
  <2>2. Accounted(s)' = store'[s] \cup abandoned'[s] \cup PlanSlots(Tail(plan))
    BY <1>1, <1>3, <1>4 DEF Accounted
  <2>3. Accounted(s) = store[s] \cup abandoned[s] \cup PlanSlots(plan)
    BY <1>1, <1>4 DEF Accounted
  <2> QED
    BY <1>2, <2>1, <2>2, <2>3
<1>5. CASE s # SeriesOf(cur)
  <2>1. store'[s] = store[s] /\ abandoned'[s] = abandoned[s]
    BY <1>1, <1>5 DEF Abandon, TypeOK
  <2> QED
    BY <1>1, <1>5, <2>1 DEF Accounted
<1> QED
  BY <1>4, <1>5

\* No step opens a hole: a started request continues its series, and every later step
\* moves slots between planned, stored and given up.
LEMMA StepHoles == TypeOK /\ MInv /\ HolesHaveACause /\ [Next]_vars => HolesHaveACause'
<1> SUFFICES ASSUME TypeOK, MInv, HolesHaveACause, [Next]_vars PROVE HolesHaveACause'
  OBVIOUS
<1>1. CASE \/ LoopEnds \/ ReloadRaises \/ QueueEmpty \/ Wake \/ PaceChunk
           \/ Acquired \/ Reacquired \/ AnswerPacing \/ UNCHANGED vars
           \/ \E i \in Ids : RequeueDisconnected(i) \/ UpToDate(i)
           \/ Stop \/ LinkDrops \/ Tick \/ UserBreaksConfig \/ UserRepairsConfig
           \/ \E t \in Tickers : ApiRejects(t) \/ UserUnblacklists(t) \/ UserMaps(t)
  <2>1. UNCHANGED <<reqs, cur, plan, store, abandoned>>
    BY <1>1 DEF vars, reqVars, loopVars, envVars, histVars, LoopEnds, ReloadRaises,
         QueueEmpty, Wake, PaceChunk, Acquired, Reacquired, AnswerPacing,
         RequeueDisconnected, UpToDate, Stop, LinkDrops, Tick, UserBreaksConfig,
         UserRepairsConfig, ApiRejects, UserUnblacklists, UserMaps
  <2> QED
    BY <2>1, SameAccounts DEF Accounted, SeriesOf, PlanSlots, Slots
<1>2. ASSUME NEW r \in Requests, Accept(r) PROVE HolesHaveACause'
  <2>1. UNCHANGED <<cur, plan, store, abandoned>> /\ reqs' = Append(reqs, r)
    BY <1>2 DEF Accept, loopVars, envVars, histVars
  <2>2. cur # NoRequest => cur \in 1..Len(reqs) /\ reqs \in Seq(Request) /\ r \in Request
    BY DownloaderAssumption DEF TypeOK, Ids
  <2>3. cur # NoRequest => SeriesOf(cur)' = SeriesOf(cur)
    BY <2>1, <2>2 DEF SeriesOf
  <2>4. PlanSlots(plan)' = PlanSlots(plan)
    BY <2>1 DEF PlanSlots, Slots
  <2>5. \A s \in AllSeries : Accounted(s)' = Accounted(s)
    BY <2>1, <2>3, <2>4 DEF Accounted
  <2> QED
    BY <2>5, SameAccounts
<1>3. ASSUME NEW i \in Ids, StartRequest(i) PROVE HolesHaveACause'
  BY <1>3, StartAccounts
<1>4. CASE \/ Preempt \/ AnswerQualifyFailed \/ AnswerNoPermissions
           \/ \E bars \in Bars(Head(plan)) : AppendRaises(bars)
           \/ \E category \in ErrorCategory : RetryFails(category)
  <2>1. /\ cur \in Ids /\ Abandon(PlanSlots(plan)) /\ plan' = <<>>
        /\ UNCHANGED <<reqs, store>> /\ cur' \in {cur, NoRequest}
    BY <1>4 DEF Preempt, AnswerQualifyFailed, AnswerNoPermissions, AppendRaises,
         RetryFails, FailRequest, Answered, envVars, TypeOK
  <2> QED
    BY <2>1, AbandonAccounts, SameAccounts
<1>5. CASE FinishRequest
  <2>1. /\ plan = <<>> /\ cur' = NoRequest /\ UNCHANGED <<store, abandoned>>
    BY <1>5 DEF FinishRequest, histVars
  <2>2. PlanSlots(plan) = {}
    BY <2>1 DEF PlanSlots
  <2>3. \A s \in AllSeries : Accounted(s)' = Accounted(s)
    BY <2>1, <2>2 DEF Accounted
  <2> QED
    BY <2>3, SameAccounts
<1>6. ASSUME NEW bars \in Bars(Head(plan)), AnswerBars(bars) PROVE HolesHaveACause'
  <2>1. cur \in Ids /\ plan # <<>>
    BY <1>6 DEF AnswerBars, Answered, TypeOK
  <2>2. /\ Head(plan) \in Chunk /\ Head(plan).start_ts <= Head(plan).end_ts
        /\ Slots(Head(plan)) \subseteq PlanSlots(plan)
    BY <2>1, TailFacts DEF TypeOK, MInv, NoneEmpty
  <2>3. PICK first \in Int : bars = first .. Head(plan).end_ts
    BY <2>2, BarsOfChunk
  <2>4. \A s \in AllSeries :
          Accounted(s)' = Accounted(s) \cup (IF s = SeriesOf(cur) THEN bars ELSE {})
    BY <1>6, <2>1, <2>2, BarsOfChunk, ChunkAccounts DEF AnswerBars, reqVars
  <2>5. /\ SeriesOf(cur) \in AllSeries /\ cur # NoRequest
        /\ Head(plan).end_ts \in PlanSlots(plan)
    BY <2>1, <2>2, SeriesOfRequest DEF Ids, NoRequest, Slots, Chunk
  <2>6. Head(plan).end_ts \in Accounted(SeriesOf(cur))
    BY <2>5 DEF Accounted
  <2>7. Accounted(SeriesOf(cur)) \subseteq Int
    BY <2>5, PlanSlotsInt DEF Accounted, TypeOK
  <2>8. WithoutHoles(Accounted(SeriesOf(cur)) \cup bars)
    BY <2>3, <2>5, <2>6, <2>7, EndingWithinLeavesNoHole DEF HolesHaveACause, WithoutHoles
  <2> SUFFICES ASSUME NEW s \in AllSeries PROVE WithoutHoles(Accounted(s)')
    BY DEF HolesHaveACause, WithoutHoles
  <2>9. CASE s = SeriesOf(cur)
    BY <2>4, <2>8, <2>9
  <2>10. CASE s # SeriesOf(cur)
    BY <2>4, <2>10 DEF HolesHaveACause, WithoutHoles
  <2> QED
    BY <2>9, <2>10
<1>7. ASSUME NEW category, AnswerSkipped(category) PROVE HolesHaveACause'
  <2>1. cur \in Ids /\ plan # <<>>
    BY <1>7 DEF AnswerSkipped, TypeOK
  <2>2. store' = [store EXCEPT ![SeriesOf(cur)] = @ \cup {}]
    BY <1>7, <2>1, SeriesOfRequest DEF AnswerSkipped, envVars, TypeOK
  <2>3. Abandon(Slots(Head(plan)) \ {})
    BY <1>7 DEF AnswerSkipped, Abandon
  <2>4. \A s \in AllSeries : Accounted(s)' = Accounted(s)
    BY <1>7, <2>1, <2>2, <2>3, ChunkAccounts, {} \in SUBSET Int DEF AnswerSkipped, reqVars
  <2> QED
    BY <2>4, SameAccounts
<1> QED
  BY <1>1, <1>2, <1>3, <1>4, <1>5, <1>6, <1>7 DEF Next, LoopStep, Others

\* If the series hold no holes when the node starts, every later hole is one the code
\* knows of: a chunk skipped, cut short or dropped with its request, whatever the chunk
\* size, the answers, the preemptions and the clock.
THEOREM HolesHaveCauses ==
  ASSUME \A bars \in InitialBars : WithoutHoles(bars)
  PROVE  Spec => []HolesHaveACause
<1>1. Init => MInv
  BY EmptyPlanMInv DEF Init
<1>2. Init => HolesHaveACause
  <2> SUFFICES ASSUME Init, NEW s \in AllSeries PROVE WithoutHoles(Accounted(s))
    BY DEF HolesHaveACause, WithoutHoles
  <2>1. Accounted(s) = store[s] /\ store[s] \in InitialBars
    BY DEF Init, Accounted
  <2> QED
    BY <2>1
<1> QED
  BY <1>1, <1>2, InitTypeOK, StepTypeOK, StepMInv, StepHoles, PTL DEF Spec

-----------------------------------------------------------------------------
\* The order of the requests: how often an API request is overtaken, the order
\* in which requests settle, and the refinement of WorkQueue.
\* The requests have numbers, and one of two priorities.
LEMMA Priority == ASSUME TypeOK, NEW i \in Ids PROVE i \in Nat /\ reqs[i].priority \in {1, 2}
<1>1. reqs[i] \in Request
  BY SeriesOfRequest
<1> QED
  BY <1>1 DEF Request, API, WATCHER, Ids, TypeOK

\* The root of the heap is an API request if any request of the heap is.
LEMMA TopIsUrgent ==
  ASSUME TypeOK, NEW i \in Ids, IsTop(i), HigherPriorityWaiting(WATCHER)
  PROVE  reqs[i].priority = API
<1>1. PICK j \in queue : reqs[j].priority < 2
  BY DEF HigherPriorityWaiting, WATCHER
<1>2. j \in Ids
  BY <1>1 DEF TypeOK
<1>3. reqs[j].priority = 1
  BY <1>1, <1>2, Priority
<1>4. i = j \/ Before(i, j)
  BY <1>1 DEF IsTop
<1> QED
  BY <1>2, <1>3, <1>4, Priority DEF Before, API

-----------------------------------------------------------------------------
(* How often an API request is overtaken *)

\* No call is counted before an API request waits; each place of the loop bounds what
\* has been counted since.
OInv ==
    /\ overtakes \in 0..2
    /\ ~HigherPriorityWaiting(WATCHER) => overtakes = 0
    /\ (cur # NoRequest /\ reqs[cur].priority = API) => overtakes = 0
    /\ pc = "pacing" => overtakes = 0
    /\ pc \in {"request", "repacing"} => overtakes <= 1

\* Steps that count nothing and leave the requests and the heap alone.
LEMMA SameQueueOInv ==
  ASSUME OInv, UNCHANGED <<reqs, queue, overtakes>>, cur' \in {cur, NoRequest},
         pc' \in {"request", "repacing"} => pc \in {"request", "repacing"},
         pc' = "pacing" => pc = "pacing" \/ overtakes = 0
  PROVE  OInv'
BY DEF OInv, HigherPriorityWaiting

\* Taking a request resets the count when it is an API request, and finds it at zero
\* otherwise.
LEMMA TakeOInv ==
  ASSUME TypeOK, OInv, NEW i \in Ids, UpToDate(i) \/ StartRequest(i)
  PROVE  OInv'
<1>1. /\ IsTop(i) /\ reqs' = reqs /\ queue' = queue \ {i} /\ CountsForApi(i)
      /\ pc' \in {"top", "chunk"} /\ cur' \in {cur, i} /\ cur = NoRequest
  BY DEF UpToDate, StartRequest, ReadyToDequeue, loopVars, TypeOK
<1>2. overtakes' = 0
  BY <1>1, TopIsUrgent DEF CountsForApi, OInv
<1> QED
  BY <1>1, <1>2 DEF OInv

\* Every step of the loop and of the others keeps the bounds.
LEMMA StepOInv == TypeOK /\ TypeOK' /\ OInv /\ [Next]_vars => OInv'
<1> SUFFICES ASSUME TypeOK, TypeOK', OInv, [Next]_vars PROVE OInv'
  OBVIOUS
<1>1. CASE \/ UNCHANGED vars \/ LoopEnds \/ ReloadRaises \/ QueueEmpty \/ Wake
           \/ (\E i \in Ids : RequeueDisconnected(i))
           \/ (\E bars \in Bars(Head(plan)) : AnswerBars(bars) \/ AppendRaises(bars))
           \/ AnswerPacing \/ AnswerQualifyFailed \/ AnswerNoPermissions
           \/ (\E category \in ErrorCategory : AnswerSkipped(category) \/ RetryFails(category))
           \/ FinishRequest
  BY <1>1, SameQueueOInv
     DEF vars, reqVars, loopVars, envVars, histVars, LoopEnds, ReloadRaises, QueueEmpty, Wake,
         RequeueDisconnected, ReadyToDequeue, AnswerBars, AppendRaises, AnswerPacing,
         AnswerQualifyFailed, AnswerNoPermissions, AnswerSkipped, RetryFails, FailRequest,
         FinishRequest
<1>2. CASE \/ Stop \/ LinkDrops \/ Tick \/ UserBreaksConfig \/ UserRepairsConfig
           \/ \E t \in Tickers : ApiRejects(t) \/ UserUnblacklists(t) \/ UserMaps(t)
  BY <1>2, SameQueueOInv
     DEF reqVars, loopVars, histVars, Stop, LinkDrops, Tick, UserBreaksConfig,
         UserRepairsConfig, ApiRejects, UserUnblacklists, UserMaps
<1>3. ASSUME NEW i \in Ids, UpToDate(i) \/ StartRequest(i) PROVE OInv'
  BY <1>3, TakeOInv
<1>4. CASE PaceChunk
  <2>1. cur \in Ids /\ reqs[cur].priority \in {1, 2}
    BY <1>4, Priority DEF PaceChunk, TypeOK
  <2>2. overtakes = 0
    BY <1>4, <2>1 DEF PaceChunk, MustGiveWay, OInv, API, WATCHER, NoRequest, Ids
  <2> QED
    BY <1>4, <2>2, SameQueueOInv DEF PaceChunk, reqVars, histVars
<1>5. CASE Preempt
  <2>1. HigherPriorityWaiting(WATCHER)
    BY <1>5 DEF Preempt, MustGiveWay
  <2>2. HigherPriorityWaiting(WATCHER)'
    BY <1>5, <2>1 DEF Preempt, HigherPriorityWaiting
  <2> QED
    BY <1>5, <2>2 DEF Preempt, OInv
<1>6. CASE Acquired \/ Reacquired
  <2>1. /\ cur \in Ids /\ cur' = cur /\ reqs' = reqs /\ queue' = queue /\ CountCall
        /\ \/ pc = "pacing" /\ pc' = "request"
           \/ pc = "repacing" /\ pc' = "rerequest"
    BY <1>6 DEF Acquired, Reacquired, reqVars, TypeOK
  <2>2. reqs[cur].priority = API => reqs[cur].priority # WATCHER
    BY DEF API, WATCHER
  <2> QED
    BY <2>1, <2>2 DEF OInv, CountCall, HigherPriorityWaiting
<1>7. ASSUME NEW r \in Requests, Accept(r) PROVE OInv'
  <2>1. /\ reqs' = Append(reqs, r) /\ reqs \in Seq(Request) /\ r \in Request
        /\ queue \subseteq 1..Len(reqs) /\ queue \subseteq queue'
        /\ UNCHANGED <<cur, pc, overtakes>>
    BY <1>7, DownloaderAssumption DEF Accept, TypeOK, Ids, loopVars, histVars
  <2>2. \A j \in 1..Len(reqs) : reqs'[j] = reqs[j]
    BY <2>1
  <2>3. HigherPriorityWaiting(WATCHER) => HigherPriorityWaiting(WATCHER)'
    BY <2>1, <2>2 DEF HigherPriorityWaiting, WATCHER
  <2>4. cur # NoRequest => reqs'[cur] = reqs[cur]
    BY <2>2 DEF TypeOK, Ids
  <2> QED
    BY <2>1, <2>3, <2>4 DEF OInv
<1> QED
  BY <1>1, <1>2, <1>3, <1>4, <1>5, <1>6, <1>7 DEF Next, LoopStep, Others

\* While an API request waits, the loop makes at most two more gateway calls for file
\* watcher requests, however many of these there are and however long their plans.
THEOREM ApiIsOvertakenAtMostTwice == Spec => []ApiOvertakenAtMostTwice
<1>1. Init => OInv
  BY DEF Init, OInv, HigherPriorityWaiting
<1>2. OInv => ApiOvertakenAtMostTwice
  BY DEF OInv, ApiOvertakenAtMostTwice
<1> QED
  BY <1>1, <1>2, InitTypeOK, StepTypeOK, StepOInv, PTL DEF Spec
-----------------------------------------------------------------------------
(* Requests of a priority are settled in the order of their creation *)

\* While a request waits or is in hand, every younger one of its priority waits.
QInv ==
    \A i, j \in Ids :
        (i < j /\ reqs[i].priority = reqs[j].priority /\ (i \in queue \/ i = cur))
            => j \in queue

\* Every step of the loop and of the others keeps that order.
LEMMA StepQInv == TypeOK /\ TypeOK' /\ QInv /\ [Next]_vars => QInv'
<1> SUFFICES ASSUME TypeOK, TypeOK', QInv, [Next]_vars PROVE QInv'
  OBVIOUS
<1>1. CASE UNCHANGED <<reqs, queue>> /\ cur' \in {cur, NoRequest}
  BY <1>1 DEF QInv, Ids, NoRequest
<1>2. CASE \/ UNCHANGED vars \/ LoopEnds \/ ReloadRaises \/ QueueEmpty \/ Wake \/ PaceChunk
           \/ Acquired \/ Reacquired
           \/ (\E i \in Ids : RequeueDisconnected(i))
           \/ (\E bars \in Bars(Head(plan)) : AnswerBars(bars) \/ AppendRaises(bars))
           \/ AnswerPacing \/ AnswerQualifyFailed \/ AnswerNoPermissions
           \/ (\E category \in ErrorCategory : AnswerSkipped(category) \/ RetryFails(category))
           \/ FinishRequest
  BY <1>1, <1>2
     DEF vars, reqVars, loopVars, LoopEnds, ReloadRaises, QueueEmpty, Wake, PaceChunk, Acquired,
         Reacquired, RequeueDisconnected, AnswerBars, AppendRaises, AnswerPacing,
         AnswerQualifyFailed, AnswerNoPermissions, AnswerSkipped, RetryFails, FailRequest,
         FinishRequest
<1>3. CASE \/ Stop \/ LinkDrops \/ Tick \/ UserBreaksConfig \/ UserRepairsConfig
           \/ \E t \in Tickers : ApiRejects(t) \/ UserUnblacklists(t) \/ UserMaps(t)
  BY <1>1, <1>3
     DEF reqVars, loopVars, Stop, LinkDrops, Tick, UserBreaksConfig, UserRepairsConfig,
         ApiRejects, UserUnblacklists, UserMaps
<1>4. ASSUME NEW k \in Ids, UpToDate(k) \/ StartRequest(k) PROVE QInv'
  <2>1. /\ reqs' = reqs /\ queue' = queue \ {k} /\ IsTop(k)
        /\ cur = NoRequest /\ cur' \in {NoRequest, k}
    BY <1>4 DEF UpToDate, StartRequest, ReadyToDequeue, loopVars, TypeOK
  <2> SUFFICES ASSUME NEW i \in Ids, NEW j \in Ids, i < j,
                      reqs[i].priority = reqs[j].priority, i \in queue' \/ i = cur'
               PROVE  j \in queue'
    BY <2>1 DEF QInv, Ids
  <2>2. i \in queue /\ j \in queue
    BY <2>1 DEF QInv, IsTop, Ids, NoRequest
  <2>3. CASE j = k
    <3>1. Before(j, i)
      BY <2>1, <2>2, <2>3 DEF IsTop, Ids
    <3> QED
      BY <3>1, Priority DEF Before
  <2> QED
    BY <2>1, <2>2, <2>3
<1>5. CASE Preempt
  <2>1. reqs' = reqs /\ queue' = queue \cup {cur} /\ cur' = NoRequest
    BY <1>5 DEF Preempt
  <2> QED
    BY <2>1 DEF QInv, Ids, NoRequest
<1>6. ASSUME NEW r \in Requests, Accept(r) PROVE QInv'
  <2> DEFINE n == Len(reqs)
  <2>1. /\ reqs' = Append(reqs, r) /\ reqs \in Seq(Request) /\ r \in Request /\ n \in Nat
        /\ queue \subseteq 1..n /\ cur \in 1..n \cup {0}
        /\ queue' = queue \cup {n + 1} /\ cur' = cur
    BY <1>6, DownloaderAssumption DEF Accept, TypeOK, Ids, NoRequest, loopVars
  <2>2. Ids = 1..n /\ Ids' = 1..(n + 1) /\ \A k \in 1..n : reqs'[k] = reqs[k]
    BY <2>1 DEF Ids
  <2> SUFFICES ASSUME NEW i \in 1..(n + 1), NEW j \in 1..(n + 1), i < j,
                      reqs'[i].priority = reqs'[j].priority, i \in queue' \/ i = cur'
               PROVE  j \in queue'
    BY <2>2 DEF QInv
  <2>3. i \in 1..n /\ (j = n + 1 \/ j \in 1..n)
    BY <2>1
  <2>4. i \in queue \/ i = cur
    BY <2>1, <2>3
  <2> QED
    BY <2>1, <2>2, <2>3, <2>4 DEF QInv
<1> QED
  BY <1>2, <1>3, <1>4, <1>5, <1>6 DEF Next, LoopStep, Others

\* The initial state has no requests to lose or to put in a wrong order.
LEMMA InitOrder == Init => CInv /\ QInv
BY DEF Init, CInv, QInv, RequestsConserved, FailedHasNoPlan, Ids

\* Interruptions do not let a younger request of the same priority go ahead: requests
\* of a priority are settled in the order of their creation.
THEOREM RequestsSettleInOrder == Spec => []SettledInOrder
<1>1. TypeOK /\ CInv /\ QInv => SettledInOrder
  BY DEF CInv, QInv, RequestsConserved, SettledInOrder, Settled, TypeOK
<1> QED
  BY <1>1, InitOrder, InitTypeOK, StepTypeOK, StepCInv, StepQInv, PTL DEF Spec
-----------------------------------------------------------------------------
(* Progress *)

\* A step that keeps the plan or shortens it, and the request in hand, brings the loop
\* nearer if the plan is shorter or the answer closer.
LEMMA SameRequestNearer ==
  ASSUME UNCHANGED <<reqs, queue, cur>>,
         Len(plan') < Len(plan) \/ (plan' = plan /\ Distance[pc'] < Distance[pc])
  PROVE  Nearer
BY DEF Nearer, Outstanding, Turn

\* Whatever the loop does between two sleeps brings it nearer to the end of its work.
LEMMA LoopNearer ==
  ASSUME TypeOK, CInv, LoopStep, pc # "sleep", pc' \notin {"sleep", "stopped", "died"}
  PROVE  Nearer
<1>1. queue \subseteq Ids /\ NoRequest \notin Ids /\ NoRequest \notin queue
  BY DEF TypeOK, Ids, NoRequest
<1>2. CASE \/ LoopEnds \/ ReloadRaises \/ QueueEmpty \/ Wake
           \/ \E i \in Ids : RequeueDisconnected(i)
  BY <1>2 DEF LoopEnds, ReloadRaises, QueueEmpty, Wake, RequeueDisconnected
<1>3. ASSUME NEW i \in Ids, UpToDate(i) PROVE Nearer
  <2>1. i \in queue /\ queue' = queue \ {i} /\ cur = NoRequest /\ cur' = cur
    BY <1>3 DEF UpToDate, ReadyToDequeue, IsTop, TypeOK, loopVars
  <2> QED
    BY <1>1, <2>1 DEF Nearer, Outstanding
<1>4. ASSUME NEW i \in Ids, StartRequest(i) PROVE Nearer
  <2>1. /\ IsTop(i) /\ i \in queue /\ queue' = queue \ {i} /\ cur = NoRequest /\ cur' = i
        /\ reqs' = reqs
    BY <1>4 DEF StartRequest, ReadyToDequeue, IsTop, TypeOK
  <2>2. Outstanding' = Outstanding
    BY <1>1, <2>1 DEF Outstanding
  <2>3. Turn' = IF reqs[i].priority = API THEN 0 ELSE 2
    BY <1>1, <2>1 DEF Turn
  <2>4. reqs[i].priority = API \/ \A j \in queue : reqs[j].priority # API
    BY <1>1, <2>1, Priority DEF IsTop, Before, API
  <2>5. Turn = IF reqs[i].priority = API THEN 1 ELSE 3
    BY <2>1, <2>4 DEF Turn
  <2>6. Turn' < Turn
    BY <2>3, <2>5
  <2> QED
    BY <2>2, <2>6 DEF Nearer
<1>5. CASE Preempt
  <2>1. /\ cur \in Ids /\ cur # NoRequest /\ cur' = NoRequest /\ queue' = queue \cup {cur}
        /\ reqs' = reqs /\ reqs[cur].priority = WATCHER
        /\ \E j \in queue : reqs[j].priority < WATCHER
    BY <1>5 DEF Preempt, TypeOK, MustGiveWay, HigherPriorityWaiting, NoRequest
  <2>2. Outstanding' = Outstanding
    BY <1>1, <2>1 DEF Outstanding
  <2>3. PICK j \in queue : reqs[j].priority = API
    BY <1>1, <2>1, Priority DEF API, WATCHER
  <2>4. Turn = 2 /\ Turn' = 1
    BY <1>1, <2>1, <2>3 DEF Turn, API, WATCHER
  <2> QED
    BY <2>2, <2>4 DEF Nearer
<1>6. ASSUME pc \in {"chunk", "request", "rerequest"}, cur' = NoRequest, queue' = queue
      PROVE  Nearer
  <2>1. cur # NoRequest /\ cur \in Ids /\ cur \notin queue
    BY <1>6 DEF TypeOK, CInv, RequestsConserved
  <2> QED
    BY <1>6, <2>1 DEF Nearer, Outstanding
<1>7. CASE FinishRequest \/ \E bars \in Bars(Head(plan)) : AppendRaises(bars)
  BY <1>6, <1>7 DEF FinishRequest, AppendRaises, Answered
<1>8. CASE PaceChunk \/ Acquired \/ Reacquired \/ AnswerPacing
  <2>1. UNCHANGED <<reqs, queue, cur, plan>>
    BY <1>8 DEF PaceChunk, Acquired, Reacquired, AnswerPacing, reqVars
  <2>2. Distance[pc'] < Distance[pc]
    BY <1>8 DEF PaceChunk, Acquired, Reacquired, AnswerPacing, Distance
  <2> QED
    BY <2>1, <2>2, SameRequestNearer
<1>9. CASE \/ \E bars \in Bars(Head(plan)) : AnswerBars(bars)
           \/ AnswerQualifyFailed \/ AnswerNoPermissions
           \/ \E category \in ErrorCategory : AnswerSkipped(category) \/ RetryFails(category)
  <2>1. plan \in Seq(Chunk) /\ plan # <<>>
    BY <1>9 DEF TypeOK, AnswerBars, Answered, AnswerQualifyFailed, AnswerNoPermissions,
                AnswerSkipped, RetryFails
  <2>2. plan' \in {Tail(plan), <<>>} /\ UNCHANGED <<reqs, queue, cur>>
    BY <1>9 DEF AnswerBars, AnswerQualifyFailed, AnswerNoPermissions, AnswerSkipped,
                RetryFails, FailRequest, reqVars
  <2>3. Len(plan') < Len(plan)
    BY <2>1, <2>2
  <2> QED
    BY <2>2, <2>3, SameRequestNearer
<1> QED
  BY <1>2, <1>3, <1>4, <1>5, <1>7, <1>8, <1>9 DEF LoopStep

\* What goes down is a natural number each.
Bounded ==
    /\ IsFiniteSet(Outstanding) /\ Cardinality(Outstanding) \in Nat
    /\ Turn \in Nat /\ Len(plan) \in Nat /\ Distance[pc] \in Nat

LEMMA MeasureIsBounded == TypeOK => Bounded
<1> SUFFICES ASSUME TypeOK PROVE Bounded
  OBVIOUS
<1>1. Turn \in Nat /\ Len(plan) \in Nat /\ Len(reqs) \in Nat
  BY DEF TypeOK, Turn
<1>2. Distance[pc] \in Nat
  BY DEF TypeOK, Distance
<1>3. Outstanding \in SUBSET (1..Len(reqs))
  BY DEF TypeOK, Outstanding, Ids
<1>4. IsFiniteSet(1..Len(reqs))
  BY <1>1, FS_Interval
<1>5. IsFiniteSet(Outstanding)
  BY <1>3, <1>4, FS_Subset
<1> QED
  BY <1>1, <1>2, <1>5, FS_CardinalityType DEF Bounded

LEMMA NextMeasureIsBounded == TypeOK' => Bounded'
BY MeasureIsBounded, PTL

\* The measure of the loop, and its order: the parts count in the order of their weight.
Measure == <<<<Cardinality(Outstanding), Turn>>, <<Len(plan), Distance[pc]>>>>
Pairs == Nat \X Nat
Below == OpToRel(<, Nat)
PairBelow == LexPairOrdering(Below, Below, Nat, Nat)
MeasureBelow == LexPairOrdering(PairBelow, PairBelow, Pairs, Pairs)

\* No measure falls for ever.
LEMMA MeasureBelowIsWellFounded == IsWellFoundedOn(MeasureBelow, Pairs \X Pairs)
<1>1. IsWellFoundedOn(Below, Nat)
  BY NatLessThanWellFounded DEF Below
<1>2. IsWellFoundedOn(PairBelow, Pairs)
  BY <1>1, WFLexPairOrdering DEF PairBelow, Pairs
<1> QED
  BY <1>2, WFLexPairOrdering DEF MeasureBelow

\* One pair of numbers below another.
LEMMA PairBelowMeans ==
  ASSUME NEW a \in Nat, NEW b \in Nat, NEW c \in Nat, NEW d \in Nat,
         a < c \/ (a = c /\ b < d)
  PROVE  <<<<a, b>>, <<c, d>>>> \in PairBelow
<1>1. \A x, y \in Nat : <<x, y>> \in Below <=> x < y
  BY DEF Below, OpToRel
<1> QED
  BY <1>1 DEF PairBelow, LexPairOrdering

\* Whoever gets nearer has a smaller measure.
LEMMA NearerIsBelow ==
  ASSUME TypeOK, TypeOK', Nearer
  PROVE  <<Measure', Measure>> \in MeasureBelow
<1> PICK n, t, l, d : /\ n = Cardinality(Outstanding) /\ t = Turn
                     /\ l = Len(plan) /\ d = Distance[pc]
  OBVIOUS
<1> PICK m, u, k, e : /\ m = Cardinality(Outstanding') /\ u = Turn'
                     /\ k = Len(plan') /\ e = Distance'[pc']
  OBVIOUS
<1>1. n \in Nat /\ t \in Nat /\ l \in Nat /\ d \in Nat /\ IsFiniteSet(Outstanding)
  BY MeasureIsBounded DEF Bounded
<1>2. m \in Nat /\ u \in Nat /\ k \in Nat /\ e \in Nat /\ IsFiniteSet(Outstanding')
  BY NextMeasureIsBounded DEF Bounded
<1>3. \/ m < n \/ (m = n /\ u < t)
      \/ m = n /\ u = t /\ (k < l \/ (k = l /\ e < d))
  <2>1. CASE Outstanding' \subseteq Outstanding /\ Outstanding' # Outstanding
    <3>1. m <= n /\ (n = m => Outstanding' = Outstanding)
      BY <1>1, <2>1, FS_Subset
    <3> QED
      BY <1>1, <1>2, <2>1, <3>1
  <2>2. CASE Outstanding' = Outstanding
    BY <2>2 DEF Nearer, Distance
  <2> QED
    BY <2>1, <2>2 DEF Nearer
<1>4. Measure = <<<<n, t>>, <<l, d>>>> /\ Measure' = <<<<m, u>>, <<k, e>>>>
  BY DEF Measure
<1>5. CASE m < n \/ (m = n /\ u < t)
  <2>1. <<<<m, u>>, <<n, t>>>> \in PairBelow
    BY <1>1, <1>2, <1>5, PairBelowMeans
  <2> QED
    BY <1>1, <1>2, <1>4, <2>1 DEF MeasureBelow, LexPairOrdering, Pairs
<1>6. CASE m = n /\ u = t /\ (k < l \/ (k = l /\ e < d))
  <2>1. <<<<k, e>>, <<l, d>>>> \in PairBelow
    BY <1>1, <1>2, <1>6, PairBelowMeans
  <2> QED
    BY <1>1, <1>2, <1>4, <1>6, <2>1 DEF MeasureBelow, LexPairOrdering, Pairs
<1> QED
  BY <1>3, <1>5, <1>6

\* For any number of requests, chunks, retries and interruptions: between two sleeps
\* the loop never comes back to where it was.
THEOREM LoopMakesProgress == Spec => EveryStepIsProgress
<1>1. TypeOK /\ CInv /\ [Next]_vars
        => [LoopStep /\ pc # "sleep" /\ pc' \notin {"sleep", "stopped", "died"} => Nearer]_vars
  BY LoopNearer
<1> QED
  BY <1>1, InitTypeOK, StepTypeOK, InitCInv, StepCInv, PTL DEF Spec, EveryStepIsProgress

\* What the loop brings down cannot go down for ever: between two sleeps, and while no
\* task adds a request, the loop takes finitely many steps, for every instance.
THEOREM LoopTurnsAreFinite ==
  /\ IsWellFoundedOn(MeasureBelow, Pairs \X Pairs)
  /\ Spec => [][LoopStep /\ pc # "sleep" /\ pc' \notin {"sleep", "stopped", "died"}
                   => Measure \in Pairs \X Pairs /\ <<Measure', Measure>> \in MeasureBelow]_vars
<1>1. TypeOK /\ TypeOK' /\ CInv /\ [Next]_vars
        => [LoopStep /\ pc # "sleep" /\ pc' \notin {"sleep", "stopped", "died"}
              => Measure \in Pairs \X Pairs /\ <<Measure', Measure>> \in MeasureBelow]_vars
  <2> SUFFICES ASSUME TypeOK, TypeOK', CInv, LoopStep, pc # "sleep",
                      pc' \notin {"sleep", "stopped", "died"}
               PROVE  Measure \in Pairs \X Pairs /\ <<Measure', Measure>> \in MeasureBelow
    OBVIOUS
  <2>1. Measure \in Pairs \X Pairs
    BY MeasureIsBounded DEF Measure, Pairs, Bounded
  <2>2. Nearer
    BY LoopNearer
  <2> QED
    BY <2>1, <2>2, NearerIsBelow
<1> QED
  BY <1>1, MeasureBelowIsWellFounded, InitTypeOK, StepTypeOK, InitCInv, StepCInv, PTL DEF Spec
-----------------------------------------------------------------------------
(* The loop implements WorkQueue *)

\* What the refinement mapping makes of the requests.
Prio == [i \in Ids |-> reqs[i].priority]
Phase == [i \in Ids |-> PhaseOf(i)]

\* One more entry at the end is an Append.
LEMMA OneMore ==
  ASSUME NEW S, NEW n \in Nat, NEW f \in [1..n -> S], NEW g \in [1..(n + 1) -> S],
         \A k \in 1..n : g[k] = f[k]
  PROVE  g = Append(f, g[n + 1])
<1>1. f \in Seq(S) /\ Len(f) = n
  OBVIOUS
<1> DEFINE a == Append(f, g[n + 1])
<1>2. a \in Seq(S) /\ Len(a) = n + 1 /\ a[n + 1] = g[n + 1] /\ \A k \in 1..n : a[k] = f[k]
  BY <1>1
<1> HIDE DEF a
<1>3. a \in [1..(n + 1) -> S]
  BY <1>2
<1>4. \A k \in 1..(n + 1) : a[k] = g[k]
  BY <1>2
<1>5. a = g
  BY <1>3, <1>4
<1> QED
  BY <1>5 DEF a

\* Nothing is in hand, lost or queued twice at the start.
LEMMA InitRefines == Init => WQ!Init
<1> SUFFICES ASSUME Init PROVE WQ!Init
  OBVIOUS
<1>1. Ids = {}
  BY DEF Init, Ids
<1>2. Prio = <<>> /\ Phase = <<>>
  BY <1>1 DEF Prio, Phase
<1> QED
  BY <1>2 DEF WQ!Init, Prio, Phase

\* A step that changes no phase is a stutter of WorkQueue.
LEMMA SamePhases ==
  ASSUME UNCHANGED <<reqs, queue, lost, cur>>
  PROVE  UNCHANGED <<Prio, Phase>>
BY DEF Prio, Phase, PhaseOf, Ids

\* A step that moves one request to another phase and leaves the others changes the
\* image of the state at that request.
LEMMA OneMoves ==
  ASSUME NEW k \in Ids, reqs' = reqs, NEW q, PhaseOf(k)' = q,
         \A i \in Ids : i # k => PhaseOf(i)' = PhaseOf(i)
  PROVE  Prio' = Prio /\ Phase' = [Phase EXCEPT ![k] = q]
BY DEF Prio, Phase, Ids

\* Every step of the loop and of the others maps to a step of WorkQueue or a stutter.
LEMMA StepRefines == TypeOK /\ TypeOK' /\ CInv /\ [Next]_vars => WQ!Next \/ UNCHANGED <<Prio, Phase>>
<1> SUFFICES ASSUME TypeOK, TypeOK', CInv, [Next]_vars PROVE WQ!Next \/ UNCHANGED <<Prio, Phase>>
  OBVIOUS
<1>1. CASE \/ UNCHANGED vars \/ LoopEnds \/ ReloadRaises \/ QueueEmpty \/ Wake \/ PaceChunk
           \/ Acquired \/ Reacquired
           \/ (\E i \in Ids : RequeueDisconnected(i))
           \/ (\E bars \in Bars(Head(plan)) : AnswerBars(bars))
           \/ AnswerPacing \/ AnswerQualifyFailed \/ AnswerNoPermissions
           \/ (\E category \in ErrorCategory : AnswerSkipped(category) \/ RetryFails(category))
  BY <1>1, SamePhases
     DEF vars, reqVars, loopVars, LoopEnds, ReloadRaises, QueueEmpty, Wake, PaceChunk, Acquired,
         Reacquired, RequeueDisconnected, AnswerBars, AnswerPacing,
         AnswerQualifyFailed, AnswerNoPermissions, AnswerSkipped, RetryFails, FailRequest
<1>2. CASE \/ Stop \/ LinkDrops \/ Tick \/ UserBreaksConfig \/ UserRepairsConfig
           \/ \E t \in Tickers : ApiRejects(t) \/ UserUnblacklists(t) \/ UserMaps(t)
  BY <1>2, SamePhases
     DEF reqVars, loopVars, Stop, LinkDrops, Tick, UserBreaksConfig, UserRepairsConfig,
         ApiRejects, UserUnblacklists, UserMaps
<1>3. \A i \in Ids : i \in DOMAIN Phase /\ Prio[i] = reqs[i].priority /\ Phase[i] = PhaseOf(i)
  BY DEF Prio, Phase
<1>4. DOMAIN Phase = Ids /\ queue \subseteq Ids /\ NoRequest \notin Ids
  BY DEF Phase, TypeOK, Ids, NoRequest
<1>5. ASSUME NEW k \in Ids, IsTop(k), cur = NoRequest
      PROVE  WQ!Idle /\ WQ!Best(k)
  <2>1. \A i \in Ids : Phase[i] # "active" /\ (Phase[i] = "waiting" <=> i \in queue)
    BY <1>3, <1>4, <1>5 DEF PhaseOf
  <2>2. \A i, j \in Ids : Before(i, j) <=> (Prio[i] < Prio[j] \/ (Prio[i] = Prio[j] /\ i < j))
    BY <1>3 DEF Before
  <2> QED
    BY <1>4, <1>5, <2>1, <2>2 DEF WQ!Idle, WQ!Best, WQ!Before, IsTop, Prio, Phase
<1>6. ASSUME NEW k \in Ids, StartRequest(k) PROVE WQ!Next
  <2>1. /\ IsTop(k) /\ cur = NoRequest /\ cur' = k /\ queue' = queue \ {k}
        /\ reqs' = reqs /\ lost' = lost
    BY <1>6 DEF StartRequest, ReadyToDequeue, TypeOK
  <2>2. PhaseOf(k)' = "active" /\ \A i \in Ids : i # k => PhaseOf(i)' = PhaseOf(i)
    BY <1>4, <2>1 DEF PhaseOf
  <2>3. Prio' = Prio /\ Phase' = [Phase EXCEPT ![k] = "active"]
    BY <2>1, <2>2, OneMoves
  <2> QED
    BY <1>4, <1>5, <2>1, <2>3 DEF WQ!Next, WQ!Begin, Prio, Phase
<1>7. ASSUME NEW k \in Ids, UpToDate(k) PROVE WQ!Next
  <2>1. /\ IsTop(k) /\ k \in queue /\ cur = NoRequest /\ cur' = cur /\ queue' = queue \ {k}
        /\ reqs' = reqs /\ lost' = lost
    BY <1>7 DEF UpToDate, ReadyToDequeue, TypeOK, loopVars, IsTop
  <2>2. k \notin lost
    BY <2>1 DEF CInv, RequestsConserved
  <2>3. PhaseOf(k)' = "settled" /\ \A i \in Ids : i # k => PhaseOf(i)' = PhaseOf(i)
    BY <1>4, <2>1, <2>2 DEF PhaseOf
  <2>4. Prio' = Prio /\ Phase' = [Phase EXCEPT ![k] = "settled"]
    BY <2>1, <2>3, OneMoves
  <2> QED
    BY <1>4, <1>5, <2>1, <2>4 DEF WQ!Next, WQ!SettleAtOnce, Prio, Phase
<1>8. CASE Preempt
  <2>1. /\ cur \in Ids /\ MustGiveWay /\ cur' = NoRequest /\ queue' = queue \cup {cur}
        /\ reqs' = reqs /\ lost' = lost
    BY <1>8 DEF Preempt, TypeOK
  <2>2. PICK j \in queue : reqs[j].priority < reqs[cur].priority
    BY <2>1 DEF MustGiveWay, HigherPriorityWaiting
  <2>3. j \in Ids /\ j # cur
    BY <1>4, <2>1, <2>2, Priority
  <2>4. Phase[cur] = "active" /\ Phase[j] = "waiting" /\ Prio[j] < Prio[cur]
    BY <1>3, <2>1, <2>2, <2>3 DEF PhaseOf
  <2>5. PICK k \in Ids : k = cur
    BY <2>1
  <2>6. PhaseOf(k)' = "waiting" /\ \A i \in Ids : i # k => PhaseOf(i)' = PhaseOf(i)
    BY <1>4, <2>1, <2>5 DEF PhaseOf
  <2>7. Prio' = Prio /\ Phase' = [Phase EXCEPT ![cur] = "waiting"]
    BY <2>1, <2>5, <2>6, OneMoves
  <2>8. WQ!GiveWay(cur)
    BY <1>4, <2>1, <2>3, <2>4, <2>7 DEF WQ!GiveWay, Prio, Phase
  <2> QED
    BY <1>4, <2>1, <2>8 DEF WQ!Next, Phase
<1>9. ASSUME pc \in {"chunk", "request", "rerequest"}, cur' = NoRequest, reqs' = reqs,
             queue' = queue, NEW q \in {"settled", "lost"},
             lost' = IF q = "lost" THEN lost \cup {cur} ELSE lost
      PROVE  /\ cur \in Ids /\ Phase[cur] = "active"
             /\ Prio' = Prio /\ Phase' = [Phase EXCEPT ![cur] = q]
  <2>1. cur \in Ids /\ cur \notin queue /\ cur \notin lost
    BY <1>9 DEF TypeOK, CInv, RequestsConserved
  <2>2. PICK k \in Ids : k = cur
    BY <2>1
  <2>3. PhaseOf(k)' = q /\ \A i \in Ids : i # k => PhaseOf(i)' = PhaseOf(i)
    BY <1>4, <1>9, <2>1, <2>2 DEF PhaseOf
  <2> QED
    BY <1>3, <1>9, <2>1, <2>2, <2>3, OneMoves DEF PhaseOf
<1>10. CASE FinishRequest
  <2>1. pc = "chunk" /\ cur' = NoRequest /\ UNCHANGED <<reqs, queue, lost>>
    BY <1>10 DEF FinishRequest
  <2>2. cur \in Ids /\ Phase[cur] = "active" /\ Prio' = Prio
        /\ Phase' = [Phase EXCEPT ![cur] = "settled"]
    BY <1>9, <2>1
  <2>3. WQ!Settle(cur)
    BY <2>2 DEF WQ!Settle, Prio, Phase
  <2> QED
    BY <1>4, <2>2, <2>3 DEF WQ!Next, Phase
<1>11. ASSUME NEW bars, AppendRaises(bars) PROVE WQ!Next
  <2>1. /\ pc \in {"request", "rerequest"} /\ cur' = NoRequest /\ UNCHANGED <<reqs, queue>>
        /\ lost' = lost \cup {cur}
    BY <1>11 DEF AppendRaises, Answered
  <2>2. cur \in Ids /\ Phase[cur] = "active" /\ Prio' = Prio
        /\ Phase' = [Phase EXCEPT ![cur] = "lost"]
    BY <1>9, <2>1
  <2>3. WQ!Lose(cur)
    BY <2>2 DEF WQ!Lose, Prio, Phase
  <2> QED
    BY <1>4, <2>2, <2>3 DEF WQ!Next, Phase
<1>12. ASSUME NEW r \in Requests, Accept(r) PROVE WQ!Next
  <2> PICK n \in Nat : n = Len(reqs)
    BY DEF TypeOK
  <2>1. /\ reqs' = Append(reqs, r) /\ reqs \in Seq(Request) /\ r \in Request /\ n \in Nat
        /\ queue \subseteq 1..n /\ lost \subseteq 1..n /\ cur \in 1..n \cup {0}
        /\ queue' = queue \cup {n + 1} /\ cur' = cur /\ lost' = lost
    BY <1>12, DownloaderAssumption DEF Accept, TypeOK, Ids, NoRequest, loopVars
  <2>2. Ids = 1..n /\ Ids' = 1..(n + 1) /\ \A k \in 1..n : reqs'[k] = reqs[k]
    BY <2>1 DEF Ids
  <2>3. reqs'[n + 1] = r
    BY <2>1
  <2>4. Prio' = Append(Prio, r.priority)
    <3>1. Prio \in [1..n -> {1, 2}] /\ Prio' \in [1..(n + 1) -> {1, 2}]
      <4>1. \A k \in Ids : reqs[k].priority \in {1, 2}
        BY Priority
      <4>2. r.priority \in {1, 2}
        BY <2>1 DEF Request, API, WATCHER
      <4> QED
        BY <2>2, <2>3, <4>1, <4>2 DEF Prio
    <3>2. (\A k \in 1..n : Prio'[k] = Prio[k]) /\ Prio'[n + 1] = r.priority
      BY <2>1, <2>2, <2>3 DEF Prio
    <3> QED
      BY <3>1, <3>2, OneMore
  <2>5. PhaseOf(n + 1)' = "waiting" /\ \A k \in 1..n : PhaseOf(k)' = PhaseOf(k)
    BY <2>1 DEF PhaseOf
  <2>6. Phase' = Append(Phase, "waiting")
    <3>1. Phase \in [1..n -> WQ!Phases] /\ Phase' \in [1..(n + 1) -> WQ!Phases]
      BY <2>2 DEF Phase, PhaseOf, WQ!Phases
    <3>2. (\A k \in 1..n : Phase'[k] = Phase[k]) /\ Phase'[n + 1] = "waiting"
      BY <2>1, <2>2, <2>5 DEF Phase
    <3> QED
      BY <3>1, <3>2, OneMore
  <2>7. WQ!Accept(r.priority) /\ r.priority \in {API, WATCHER}
    BY <2>1, <2>4, <2>6 DEF WQ!Accept, Request, Prio, Phase
  <2> QED
    BY <2>7 DEF WQ!Next
<1> QED
  BY <1>1, <1>2, <1>6, <1>7, <1>8, <1>10, <1>11, <1>12 DEF Next, LoopStep, Others

\* The loop with its chunks, retries, failures and interruptions implements the queue of
\* WorkQueue: one request at a time, the most urgent and then the oldest first, an
\* interruption only for a more urgent one, and nothing settled is touched again.
THEOREM DownloaderImplementsWorkQueue == Spec => ImplementsWorkQueue
<1>1. TypeOK /\ TypeOK' /\ CInv /\ [Next]_vars => [WQ!Next]_(WQ!vars)
  BY StepRefines DEF WQ!vars, Prio, Phase
<1> QED
  BY <1>1, InitRefines, InitOrder, InitTypeOK, StepTypeOK, StepCInv, PTL
     DEF Spec, ImplementsWorkQueue, WQ!Spec

\* What WorkQueue promises of itself holds of the loop: it has one request in hand,
\* and what is in hand or was settled stands before all that waits of its priority.
THEOREM LoopKeepsQueueOrder == Spec => [](WQ!OneActive /\ WQ!InOrder)
<1>1. TypeOK /\ CInv /\ QInv => WQ!OneActive /\ WQ!InOrder
  <2> SUFFICES ASSUME TypeOK, CInv, QInv PROVE WQ!OneActive /\ WQ!InOrder
    OBVIOUS
  <2>1. WQ!OneActive
    BY DEF WQ!OneActive, PhaseOf
  <2>2. ASSUME NEW i \in Ids, NEW j \in Ids, i < j, reqs[i].priority = reqs[j].priority,
               PhaseOf(j) # "waiting"
        PROVE  PhaseOf(i) \in {"settled", "lost"}
    <3>1. j \notin queue
      BY <2>2 DEF PhaseOf, CInv, RequestsConserved
    <3> QED
      BY <2>2, <3>1 DEF QInv, PhaseOf
  <2> QED
    BY <2>1, <2>2 DEF WQ!InOrder
<1> QED
  BY <1>1, InitTypeOK, StepTypeOK, InitOrder, StepCInv, StepQInv, PTL DEF Spec
-----------------------------------------------------------------------------
(* The loop implements TickerLists *)

\* The series of a request that is still to be served has been asked for.
LEMMA AskedFor ==
  ASSUME TypeOK, NEW k \in Outstanding
  PROVE  k \in Ids /\ SeriesOf(k) \in Asked /\ SeriesOf(k) \in Tickers \X Timeframes
<1>1. k \in Ids
  BY DEF TypeOK, Outstanding
<1> QED
  BY <1>1, SeriesOfRequest DEF Asked, AllSeries

\* Moving a request between the heap and the loop's hands asks for nothing new and
\* serves nothing.
LEMMA SameAsked ==
  ASSUME reqs' = reqs, Outstanding' = Outstanding
  PROVE  Asked' = Asked
BY DEF Asked, SeriesOf

\* Serving one request serves its series, unless it is asked for once more.
LEMMA OneServed ==
  ASSUME TypeOK, reqs' = reqs, NEW k \in Outstanding, Outstanding' = Outstanding \ {k}
  PROVE  Asked' \in {Asked, Asked \ {SeriesOf(k)}}
<1>1. Asked' = {SeriesOf(i) : i \in Outstanding \ {k}}
  BY DEF Asked, SeriesOf
<1>2. CASE \E j \in Outstanding \ {k} : SeriesOf(j) = SeriesOf(k)
  BY <1>1, <1>2 DEF Asked
<1>3. CASE \A j \in Outstanding \ {k} : SeriesOf(j) # SeriesOf(k)
  BY <1>1, <1>3 DEF Asked
<1> QED
  BY <1>2, <1>3

\* The loop's steps on the lists: a refusal, the end of a request, and no others.
LEMMA LoopKeepsLists ==
  ASSUME TypeOK, CInv, LoopStep
  PROVE  TL!Next \/ UNCHANGED <<Asked, blacklist, tmap, config>>
<1>0. queue \subseteq Ids /\ NoRequest \notin Ids /\ NoRequest \notin queue
      /\ (cur # NoRequest => cur \notin queue /\ cur \in Outstanding)
  BY DEF TypeOK, CInv, RequestsConserved, Ids, NoRequest, Outstanding
<1>1. CASE \/ LoopEnds \/ ReloadRaises \/ QueueEmpty \/ Wake \/ PaceChunk
           \/ Acquired \/ Reacquired \/ AnswerPacing \/ AnswerNoPermissions
           \/ (\E i \in Ids : RequeueDisconnected(i))
           \/ (\E bars \in Bars(Head(plan)) : AnswerBars(bars))
           \/ (\E category \in ErrorCategory : AnswerSkipped(category) \/ RetryFails(category))
  <2>1. UNCHANGED <<reqs, queue, cur, blacklist, tmap, config>>
    BY <1>1 DEF LoopEnds, ReloadRaises, QueueEmpty, Wake, PaceChunk, Acquired, Reacquired,
                AnswerPacing, AnswerNoPermissions, RequeueDisconnected, AnswerBars,
                AnswerSkipped, RetryFails, FailRequest, reqVars, loopVars, envVars
  <2> QED
    BY <2>1, SameAsked DEF Outstanding
<1>2. ASSUME NEW i \in Ids, StartRequest(i) PROVE UNCHANGED <<Asked, blacklist, tmap, config>>
  <2>1. /\ i \in queue /\ queue' = queue \ {i} /\ cur = NoRequest /\ cur' = i
        /\ UNCHANGED <<reqs, blacklist, tmap, config>>
    BY <1>2 DEF StartRequest, ReadyToDequeue, IsTop, TypeOK, envVars
  <2>2. Outstanding' = Outstanding
    BY <1>0, <2>1 DEF Outstanding
  <2> QED
    BY <2>1, <2>2, SameAsked
<1>3. CASE Preempt
  <2>1. /\ cur # NoRequest /\ queue' = queue \cup {cur} /\ cur' = NoRequest
        /\ UNCHANGED <<reqs, blacklist, tmap, config>>
    BY <1>3 DEF Preempt, TypeOK, envVars
  <2>2. Outstanding' = Outstanding
    BY <1>0, <2>1 DEF Outstanding
  <2> QED
    BY <2>1, <2>2, SameAsked
<1>4. ASSUME NEW k \in Outstanding, reqs' = reqs, Outstanding' = Outstanding \ {k},
             UNCHANGED <<blacklist, tmap, config>>
      PROVE  TL!Next \/ UNCHANGED <<Asked, blacklist, tmap, config>>
  <2>1. CASE Asked' = Asked \ {SeriesOf(k)}
    <3>1. SeriesOf(k) \in Tickers \X Timeframes /\ TL!End(SeriesOf(k))
      BY <1>4, <2>1, AskedFor DEF TL!End
    <3> QED
      BY <3>1 DEF TL!Next
  <2> QED
    BY <1>4, <2>1, OneServed
<1>5. ASSUME NEW i \in Ids, UpToDate(i)
      PROVE  TL!Next \/ UNCHANGED <<Asked, blacklist, tmap, config>>
  <2>1. /\ i \in queue /\ queue' = queue \ {i} /\ cur = NoRequest /\ cur' = cur
        /\ UNCHANGED <<reqs, blacklist, tmap, config>>
    BY <1>5 DEF UpToDate, ReadyToDequeue, IsTop, TypeOK, loopVars, envVars
  <2>2. i \in Outstanding /\ Outstanding' = Outstanding \ {i}
    BY <1>0, <2>1 DEF Outstanding
  <2> QED
    BY <1>4, <2>1, <2>2
<1>6. ASSUME pc \in {"chunk", "request", "rerequest"}, queue' = queue, cur' = NoRequest
      PROVE  cur \in Outstanding /\ Outstanding' = Outstanding \ {cur}
  <2>1. cur # NoRequest
    BY <1>6 DEF TypeOK
  <2> QED
    BY <1>0, <1>6, <2>1 DEF Outstanding
<1>7. ASSUME NEW bars, AppendRaises(bars)
      PROVE  TL!Next \/ UNCHANGED <<Asked, blacklist, tmap, config>>
  <2>1. /\ pc \in {"request", "rerequest"} /\ queue' = queue /\ cur' = NoRequest
        /\ UNCHANGED <<reqs, blacklist, tmap, config>>
    BY <1>7 DEF AppendRaises, Answered, envVars
  <2> QED
    BY <1>4, <1>6, <2>1
<1>8. CASE FinishRequest
  <2>1. /\ pc = "chunk" /\ queue' = queue /\ cur' = NoRequest
        /\ UNCHANGED <<reqs, tmap, config>>
        /\ blacklist' = IF got THEN blacklist \ {reqs[cur].ticker} ELSE blacklist
    BY <1>8 DEF FinishRequest
  <2>2. cur \in Outstanding /\ Outstanding' = Outstanding \ {cur}
    BY <1>6, <2>1
  <2>3. CASE got
    <3>1. SeriesOf(cur)[1] = reqs[cur].ticker
      BY DEF SeriesOf
    <3>2. SeriesOf(cur) \in Tickers \X Timeframes /\ TL!Recover(SeriesOf(cur))
      BY <2>1, <2>2, <2>3, <3>1, AskedFor, OneServed DEF TL!Recover, TL!Serves
    <3> QED
      BY <3>2 DEF TL!Next
  <2>4. CASE ~got
    BY <1>4, <2>1, <2>2, <2>4
  <2> QED
    BY <2>3, <2>4
<1>9. CASE AnswerQualifyFailed
  <2>1. /\ cur # NoRequest /\ UNCHANGED <<reqs, queue, cur, config>>
        /\ blacklist' = blacklist \cup {reqs[cur].ticker}
        /\ tmap' = RegisterUnmapped(reqs[cur].ticker)
    BY <1>9 DEF AnswerQualifyFailed, FailRequest, TypeOK
  <2>2. cur \in Outstanding /\ Outstanding' = Outstanding
    BY <1>0, <2>1 DEF Outstanding
  <2>3. SeriesOf(cur)[1] = reqs[cur].ticker
    BY DEF SeriesOf
  <2>4. RegisterUnmapped(reqs[cur].ticker) = TL!Registered(reqs[cur].ticker)
    BY DEF RegisterUnmapped, TL!Registered
  <2>5. SeriesOf(cur) \in Tickers \X Timeframes /\ TL!Refuse(SeriesOf(cur))
    BY <2>1, <2>2, <2>3, <2>4, AskedFor, SameAsked DEF TL!Refuse, TL!Serves
  <2> QED
    BY <2>5 DEF TL!Next
<1> QED
  BY <1>1, <1>2, <1>3, <1>5, <1>7, <1>8, <1>9 DEF LoopStep

\* The others: what is accepted has been resolved, and the user edits what he likes.
LEMMA OthersKeepLists ==
  ASSUME TypeOK, Others
  PROVE  TL!Next \/ UNCHANGED <<Asked, blacklist, tmap, config>>
<1>1. ASSUME UNCHANGED <<reqs, queue, cur>> PROVE Asked' = Asked
  BY <1>1, SameAsked DEF Outstanding
<1>2. ASSUME NEW r \in Requests, Accept(r) PROVE TL!Next
  <2> PICK n \in Nat : n = Len(reqs)
    BY DEF TypeOK
  <2> DEFINE s == <<r.ticker, r.timeframe>>
  <2>1. /\ reqs' = Append(reqs, r) /\ reqs \in Seq(Request) /\ r \in Request /\ n \in Nat
        /\ queue \subseteq 1..n /\ cur \in 1..n \cup {0}
        /\ queue' = queue \cup {n + 1} /\ cur' = cur
        /\ UNCHANGED <<blacklist, tmap, config>> /\ Resolvable(r.ticker)
    BY <1>2, DownloaderAssumption DEF Accept, TypeOK, Ids, NoRequest, loopVars, envVars
  <2>2. Outstanding' = Outstanding \cup {n + 1} /\ Outstanding \subseteq 1..n
    BY <2>1 DEF Outstanding, NoRequest
  <2>3. reqs'[n + 1] = r /\ \A i \in 1..n : reqs'[i] = reqs[i]
    BY <2>1
  <2>4. /\ SeriesOf(n + 1)' = s
        /\ \A i \in Outstanding : SeriesOf(i)' = SeriesOf(i)
    BY <2>2, <2>3 DEF SeriesOf
  <2>5. Asked' = Asked \cup {s}
    BY <2>2, <2>4 DEF Asked
  <2>6. {s} \in SUBSET (Tickers \X Timeframes) /\ TL!Passes(s[1])
    BY <2>1 DEF Request, Resolvable, TL!Passes
  <2>7. TL!Ask({s})
    BY <2>1, <2>5, <2>6 DEF TL!Ask
  <2> QED
    BY <2>6, <2>7 DEF TL!Next
<1>3. CASE Stop \/ LinkDrops \/ Tick
  BY <1>1, <1>3 DEF Stop, LinkDrops, Tick, reqVars, loopVars, envVars
<1>4. CASE UserBreaksConfig \/ UserRepairsConfig
  BY <1>1, <1>4 DEF UserBreaksConfig, UserRepairsConfig, reqVars, loopVars, TypeOK,
                    TL!Next, TL!UserBreaksOrRepairs
<1>5. ASSUME NEW t \in Tickers, ApiRejects(t) PROVE TL!Next
  <2>1. TL!Reject(t)
    BY <1>1, <1>5 DEF ApiRejects, reqVars, loopVars, TL!Reject
  <2> QED
    BY <2>1 DEF TL!Next
<1>6. ASSUME NEW t \in Tickers, UserUnblacklists(t) PROVE TL!Next
  <2>1. TL!UserUnblacklists(t)
    BY <1>1, <1>6 DEF UserUnblacklists, reqVars, loopVars, TL!UserUnblacklists
  <2> QED
    BY <2>1 DEF TL!Next
<1>7. ASSUME NEW t \in Tickers, UserMaps(t) PROVE TL!Next
  <2>1. TL!UserMaps(t)
    BY <1>1, <1>7 DEF UserMaps, reqVars, loopVars, TL!UserMaps
  <2> QED
    BY <2>1 DEF TL!Next
<1> QED
  BY <1>2, <1>3, <1>4, <1>5, <1>6, <1>7 DEF Others

\* For any number of tickers and requests: what the loop and its neighbours do to the
\* blacklist and to the ticker map, and what they accept, is what TickerLists allows.
THEOREM DownloaderImplementsTickerLists == Spec => ImplementsTickerLists
<1>1. Init => TL!Init
  BY DEF Init, TL!Init, TL!Entries, Asked, Outstanding
<1>2. TypeOK /\ CInv /\ [Next]_vars => [TL!Next]_(TL!vars)
  <2>1. UNCHANGED vars => UNCHANGED <<Asked, blacklist, tmap, config>>
    BY SameAsked DEF vars, reqVars, loopVars, envVars, Outstanding
  <2> QED
    BY <2>1, LoopKeepsLists, OthersKeepLists DEF Next, TL!vars
<1> QED
  BY <1>1, <1>2, InitTypeOK, StepTypeOK, InitCInv, StepCInv, PTL
     DEF Spec, ImplementsTickerLists, TL!Spec
=============================================================================
