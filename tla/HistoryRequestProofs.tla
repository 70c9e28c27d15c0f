------------------------- MODULE HistoryRequestProofs -------------------------
(***************************************************************************)
(* Proofs about HistoryRequest, for every length of a day (86400 slots in  *)
(* the code), every time zone, every sequence of pauses and any number of  *)
(* downloads.                                                              *)
(***************************************************************************)
EXTENDS HistoryRequest, ChunkPlanProofs

-----------------------------------------------------------------------------
(* Durations *)

\* A quotient is known from its bounds.
LEMMA DivIs ==
  ASSUME NEW a \in Nat, NEW b \in Nat \ {0}, NEW k \in Nat, k * b <= a, a < (k + 1) * b
  PROVE  a \div b = k
BY SMT

\* Months of the calendar are no more than two days shorter than as many times thirty.
LEMMA MonthsAreLong ==
  ASSUME NEW n \in 1..12
  PROVE  ShortestMonths[n] \in Nat \ {0} /\ 30 * n <= ShortestMonths[n] + 2
<1>1. \/ n = 1 \/ n = 2 \/ n = 3 \/ n = 4 \/ n = 5 \/ n = 6
      \/ n = 7 \/ n = 8 \/ n = 9 \/ n = 10 \/ n = 11 \/ n = 12
  OBVIOUS
<1> QED
  BY <1>1 DEF ShortestMonths

\* The units, from the largest to the day.
LEMMA UnitFacts ==
  ASSUME NEW k \in 1..4
  PROVE  /\ Units[k] \in {"Y", "M", "W", "D"}
         /\ DaysOf[Units[k]] * DAY \in Nat \ {0} /\ DAY <= DaysOf[Units[k]] * DAY
<1>1. DAY \in Nat \ {0}
  BY HistoryRequestAssumption
<1>2. k = 1 \/ k = 2 \/ k = 3 \/ k = 4
  OBVIOUS
<1> QED
  BY <1>1, <1>2 DEF Units, DaysOf

\* The same for a duration: two days, if it is counted in months.
SlackOf(d) == IF d.unit = "M" THEN 2 * DAY ELSE 0

\* The gateway brings no less than the nominal length of a duration, but for the slack.
LEMMA DaysFacts ==
  ASSUME NEW count \in Nat \ {0}, NEW k \in 1..4, k = 2 => count <= 12,
         NEW days \in Days([count |-> count, unit |-> Units[k]])
  PROVE  LET d == [count |-> count, unit |-> Units[k]]
         IN  /\ days * DAY \in Nat /\ DAY <= days * DAY /\ SlackOf(d) \in Nat
             /\ count * (DaysOf[Units[k]] * DAY) <= days * DAY + SlackOf(d)
<1> DEFINE d == [count |-> count, unit |-> Units[k]]
<1>1. DAY \in Nat \ {0}
  BY HistoryRequestAssumption
<1>2. k = 1 \/ k = 2 \/ k = 3 \/ k = 4
  OBVIOUS
<1>3. /\ days \in Nat \ {0} /\ DaysOf[Units[k]] \in Nat
      /\ count * DaysOf[Units[k]] <= days + (IF k = 2 THEN 2 ELSE 0)
  <2>1. CASE k = 1
    <3>1. Units[k] = "Y" /\ DaysOf["Y"] = 365
      BY <2>1 DEF Units, DaysOf
    <3>2. days \in 365 * count + (count \div 4) .. 365 * count + ((count + 3) \div 4)
      BY <3>1 DEF Days
    <3>3. count \div 4 \in Nat /\ (count + 3) \div 4 \in Nat
      BY SMT
    <3> QED
      BY <2>1, <3>1, <3>2, <3>3
  <2>2. CASE k = 2
    <3>1. Units[k] = "M" /\ DaysOf["M"] = 30 /\ count \in 1..12
      BY <2>2 DEF Units, DaysOf
    <3>2. /\ days \in ShortestMonths[count] ..
                        ShortestMonths[count] + (IF count = 12 THEN 1 ELSE 3)
          /\ ShortestMonths[count] \in Nat \ {0} /\ 30 * count <= ShortestMonths[count] + 2
      BY <3>1, MonthsAreLong DEF Days
    <3> QED
      BY <2>2, <3>1, <3>2
  <2>3. CASE k = 3 \/ k = 4
    <3>1. Units[k] \in {"W", "D"} /\ DaysOf["W"] = 7 /\ DaysOf["D"] = 1
      BY <2>3 DEF Units, DaysOf
    <3>2. days = count * DaysOf[Units[k]]
      BY <3>1 DEF Days
    <3> QED
      BY <2>3, <3>1, <3>2
  <2> QED
    BY <1>2, <2>1, <2>2, <2>3
<1>4. SlackOf(d) = (IF k = 2 THEN 2 ELSE 0) * DAY
  BY <1>1, <1>2 DEF SlackOf, Units
<1> HIDE DEF d
<1> DEFINE nominal == count * DaysOf[Units[k]]
           extra == IF k = 2 THEN 2 ELSE 0
<1>5. nominal \in Nat /\ extra \in Nat /\ nominal <= days + extra /\ days \in Nat \ {0}
  BY <1>3
<1>6. count * (DaysOf[Units[k]] * DAY) = nominal * DAY
  BY <1>1, <1>3, SMT
<1> HIDE DEF nominal, extra
<1>7. nominal * DAY <= (days + extra) * DAY /\ 1 * DAY <= days * DAY
  <2>1. nominal * DAY <= (days + extra) * DAY
    BY <1>1, <1>5, MulMono, days + extra \in Int
  <2>2. 1 * DAY <= days * DAY
    BY <1>1, <1>5, MulMono, 1 <= days
  <2> QED
    BY <2>1, <2>2
<1>8. (days + extra) * DAY = days * DAY + extra * DAY
  BY <1>1, <1>5, SMT
<1>9. days * DAY \in Nat /\ extra * DAY \in Nat /\ 1 * DAY = DAY
  BY <1>1, <1>5, SMT
<1> QED
  BY <1>4, <1>6, <1>7, <1>8, <1>9 DEF d, extra

\* A window with not a whole year has no more than twelve whole months.
LEMMA MonthsOfAYear ==
  ASSUME NEW seconds \in Nat, ~(seconds \div (DaysOf[Units[1]] * DAY) >= 1)
  PROVE  seconds \div (DaysOf[Units[2]] * DAY) <= 12
<1> DEFINE year == DaysOf[Units[1]] * DAY
           month == DaysOf[Units[2]] * DAY
           years == seconds \div year
           months == seconds \div month
<1>1. /\ year \in Nat \ {0} /\ month \in Nat \ {0} /\ year <= 13 * month
  BY HistoryRequestAssumption DEF DaysOf, Units
<1>2. ~(years >= 1)
  OBVIOUS
<1> HIDE DEF year, month
<1>3. years \in Nat /\ seconds < years * year + year /\ years = 0
  <2>1. years \in Nat /\ seconds < years * year + year
    BY <1>1, DivBound, DivRest
  <2> QED
    BY <1>2, <2>1
<1>4. months \in Nat /\ months * month <= seconds
  BY <1>1, DivBound, DivRest
<1> HIDE DEF years, months
<1>5. ASSUME months >= 13 PROVE FALSE
  <2>1. 13 * month <= months * month
    BY <1>1, <1>4, <1>5, MulMono
  <2>2. seconds < year
    BY <1>1, <1>3
  <2>3. months * month \in Nat
    BY <1>1, <1>4
  <2> QED
    BY <1>1, <1>4, <2>1, <2>2, <2>3
<1>6. months <= 12
  BY <1>4, <1>5
<1> QED
  BY <1>6 DEF months, month

\* The unit chosen is the largest of those that count.
LEMMA UnitChosen ==
  ASSUME NEW units \in SUBSET (1..4), units # {}
  PROVE  LET k == CHOOSE k \in units : \A l \in units : k <= l
         IN  k \in units /\ \A l \in units : k <= l
<1>1. \E k \in units : \A l \in units : k <= l
  <2>1. CASE 1 \in units
    BY <2>1
  <2>2. CASE 1 \notin units /\ 2 \in units
    BY <2>2
  <2>3. CASE 1 \notin units /\ 2 \notin units /\ 3 \in units
    BY <2>3
  <2>4. CASE 1 \notin units /\ 2 \notin units /\ 3 \notin units
    <3>1. \A l \in 1..4 : l \in units => l = 4
      BY <2>4
    <3>2. 4 \in units
      BY <3>1
    <3> QED
      BY <3>1, <3>2
  <2> QED
    BY <2>1, <2>2, <2>3, <2>4
<1> QED
  BY <1>1

\* How _seconds_to_duration comes to its result: the first unit of which there is a
\* whole one, if any, and at least one of it.
LEMMA ToDurationIs ==
  ASSUME NEW seconds \in Nat, NEW tf
  PROVE  \E k \in 1..4 :
           LET whole(l) == seconds \div (DaysOf[Units[l]] * DAY)
           IN  /\ ToDuration(seconds, tf) =
                    [count |-> IF whole(k) >= 1 THEN whole(k) ELSE 1, unit |-> Units[k]]
               /\ tf = "1M" => k = 1
               /\ tf # "1M" => /\ whole(k) >= 1 \/ k = 4
                               /\ \A l \in 1..3 : l < k => ~(whole(l) >= 1)
<1> DEFINE whole(l) == seconds \div (DaysOf[Units[l]] * DAY)
           units == IF tf = "1M" THEN {1} ELSE {k \in 1..4 : whole(k) >= 1 \/ k = 4}
           k == CHOOSE k \in units : \A l \in units : k <= l
<1>1. units \in SUBSET (1..4) /\ units # {}
  <2>1. CASE tf = "1M"
    BY <2>1
  <2>2. CASE tf # "1M"
    <3>1. 4 \in units
      BY <2>2
    <3> QED
      BY <2>2, <3>1
  <2> QED
    BY <2>1, <2>2
<1>2. k \in units /\ \A l \in units : k <= l
  BY <1>1, UnitChosen
<1>3. ToDuration(seconds, tf) =
        [count |-> IF whole(k) >= 1 THEN whole(k) ELSE 1, unit |-> Units[k]]
  BY DEF ToDuration
<1> HIDE DEF k
<1>4. tf = "1M" => k = 1
  BY <1>2
<1>5. tf # "1M" => (whole(k) >= 1 \/ k = 4) /\ \A l \in 1..3 : l < k => ~(whole(l) >= 1)
  <2> SUFFICES ASSUME tf # "1M"
               PROVE  (whole(k) >= 1 \/ k = 4) /\ \A l \in 1..3 : l < k => ~(whole(l) >= 1)
    OBVIOUS
  <2>1. k \in 1..4
    BY <1>1, <1>2
  <2>2. \A l \in 1..3 : whole(l) >= 1 => l \in units
    OBVIOUS
  <2> HIDE DEF whole
  <2>3. \A l \in 1..3 : l < k => l \notin units
    BY <1>2, <2>1
  <2> QED
    BY <1>2, <2>2, <2>3
<1>6. k \in 1..4
  BY <1>1, <1>2
<1> HIDE DEF units
<1> QED
  BY <1>3, <1>4, <1>5, <1>6

\* A duration brings at least a day, and the window but for less than its unit and the
\* slack.
LEMMA DurationFacts ==
  ASSUME NEW seconds \in Nat, NEW tf
  PROVE  LET d == ToDuration(seconds, tf)
         IN  /\ d \in Duration /\ SlackOf(d) \in Nat /\ DaysOf[d.unit] * DAY \in Nat \ {0}
             /\ \A days \in Days(d) :
                  /\ days * DAY \in Nat /\ DAY <= days * DAY
                  /\ seconds < days * DAY + DaysOf[d.unit] * DAY + SlackOf(d)
<1> DEFINE whole(l) == seconds \div (DaysOf[Units[l]] * DAY)
<1>1. PICK k \in 1..4 :
        /\ ToDuration(seconds, tf) =
             [count |-> IF whole(k) >= 1 THEN whole(k) ELSE 1, unit |-> Units[k]]
        /\ k = 2 => ~(whole(1) >= 1)
  <2>1. PICK k \in 1..4 :
          /\ ToDuration(seconds, tf) =
               [count |-> IF whole(k) >= 1 THEN whole(k) ELSE 1, unit |-> Units[k]]
          /\ tf = "1M" => k = 1
          /\ tf # "1M" => \A l \in 1..3 : l < k => ~(whole(l) >= 1)
    BY ToDurationIs
  <2> HIDE DEF whole
  <2>2. k = 2 => ~(whole(1) >= 1)
    BY <2>1
  <2> QED
    BY <2>1, <2>2
<1> DEFINE unit == DaysOf[Units[k]] * DAY
           count == IF whole(k) >= 1 THEN whole(k) ELSE 1
           d == [count |-> count, unit |-> Units[k]]
<1>2. unit \in Nat \ {0} /\ DAY <= unit /\ Units[k] \in {"Y", "M", "W", "D"}
  BY UnitFacts
<1>3. whole(k) \in Nat /\ seconds < whole(k) * unit + unit
  <2> HIDE DEF unit
  <2>1. seconds \div unit \in Nat /\ seconds < (seconds \div unit) * unit + unit
    BY <1>2, DivBound, DivRest
  <2> QED
    BY <2>1 DEF unit
<1>4. count \in Nat \ {0} /\ whole(k) <= count
  BY <1>3
<1>5. k = 2 => count <= 12
  <2> SUFFICES ASSUME k = 2 PROVE count <= 12
    OBVIOUS
  <2>1. whole(2) <= 12
    BY <1>1, MonthsOfAYear
  <2> HIDE DEF whole
  <2> QED
    BY <2>1
<1>6. d \in Duration /\ d.unit = Units[k]
  BY <1>2, <1>4 DEF Duration
<1> HIDE DEF unit, count, whole
<1>7. unit <= count * unit /\ whole(k) * unit <= count * unit
  <2>1. 1 * unit <= count * unit
    BY <1>2, <1>4, MulMono, 1 <= count
  <2>2. whole(k) * unit <= count * unit
    BY <1>2, <1>3, <1>4, MulMono
  <2> QED
    BY <1>2, <2>1, <2>2
<1>8. count * unit \in Nat /\ whole(k) * unit \in Nat
  BY <1>2, <1>3, <1>4
<1>9. ToDuration(seconds, tf) = d /\ DaysOf[d.unit] * DAY = unit
  BY <1>1, <1>6 DEF count, whole, unit
<1>10. SlackOf(d) \in Nat
  BY <1>2, HistoryRequestAssumption DEF SlackOf
<1>11. ASSUME NEW days \in Days(d)
       PROVE  /\ days * DAY \in Nat /\ DAY <= days * DAY
              /\ seconds < days * DAY + unit + SlackOf(d)
  <2>1. /\ days * DAY \in Nat /\ DAY <= days * DAY
        /\ count * unit <= days * DAY + SlackOf(d)
    BY <1>4, <1>5, <1>11, DaysFacts DEF unit
  <2> HIDE DEF d
  <2> QED
    BY <1>2, <1>3, <1>7, <1>8, <1>10, <2>1
<1> HIDE DEF d
<1> QED
  BY <1>2, <1>6, <1>9, <1>10, <1>11

\* A window is asked for whole, but for what its months may be short of thirty days.
Whole(seconds, tf) ==
    \A days \in Days(ToDuration(seconds, tf)) :
        seconds <= days * DAY + SlackOf(ToDuration(seconds, tf))

\* A window of a whole number of units, and of no larger one, is asked for whole.
LEMMA ExactDuration ==
  ASSUME NEW seconds \in Nat, NEW tf, NEW j \in 1..4, NEW n \in Nat \ {0},
         seconds = n * (DaysOf[Units[j]] * DAY), tf = "1M" => j = 1,
         \A l \in 1..3 : l < j => seconds < DaysOf[Units[l]] * DAY
  PROVE  Whole(seconds, tf)
<1> DEFINE whole(l) == seconds \div (DaysOf[Units[l]] * DAY)
<1>1. PICK k \in 1..4 :
        /\ ToDuration(seconds, tf) =
             [count |-> IF whole(k) >= 1 THEN whole(k) ELSE 1, unit |-> Units[k]]
        /\ tf = "1M" => k = 1
        /\ tf # "1M" => /\ whole(k) >= 1 \/ k = 4
                        /\ \A l \in 1..3 : l < k => ~(whole(l) >= 1)
  BY ToDurationIs
<1>2. whole(j) = n
  <2> DEFINE unit == DaysOf[Units[j]] * DAY
  <2>1. unit \in Nat \ {0}
    BY UnitFacts
  <2> HIDE DEF unit
  <2>2. n * unit \in Nat /\ n * unit < (n + 1) * unit
    BY <2>1, MulStep
  <2>3. (n * unit) \div unit = n
    BY <2>1, <2>2, DivIs
  <2> QED
    BY <2>3 DEF unit
<1>3. \A l \in 1..3 : l < j => whole(l) = 0
  <2> SUFFICES ASSUME NEW l \in 1..3, l < j PROVE whole(l) = 0
    OBVIOUS
  <2> DEFINE unit == DaysOf[Units[l]] * DAY
  <2>1. unit \in Nat \ {0} /\ seconds < unit
    BY UnitFacts
  <2> HIDE DEF unit
  <2>2. seconds \div unit = 0
    BY <2>1, DivIs, 0 * unit <= seconds, seconds < (0 + 1) * unit
  <2> QED
    BY <2>2 DEF unit
<1>4. ~(whole(1) >= 1) => whole(2) <= 12
  BY MonthsOfAYear
<1> HIDE DEF whole
<1>5. k = j
  BY <1>1, <1>2, <1>3
<1>6. ToDuration(seconds, tf) = [count |-> n, unit |-> Units[j]]
  BY <1>1, <1>2, <1>5
<1>7. j = 2 => n <= 12
  BY <1>2, <1>3, <1>4
<1> QED
  BY <1>6, <1>7, DaysFacts DEF Whole

\* The chunk size of each time frame is such a window: downloader.py 34-46 fits
\* gateway_client.py 288-307.
LEMMA FullChunksAreWhole ==
  ASSUME NEW tf \in DOMAIN CHUNK_DURATION
  PROVE  /\ CHUNK_DURATION[tf] * DAY \in Nat \ {0}
         /\ Whole(CHUNK_DURATION[tf] * DAY, tf)
         /\ tf # "1m" => 7 * DAY <= CHUNK_DURATION[tf] * DAY
         /\ tf = "1m" => CHUNK_DURATION[tf] = 1
<1>1. DAY \in Nat \ {0}
  BY HistoryRequestAssumption
<1>2. /\ DaysOf[Units[1]] = 365 /\ DaysOf[Units[2]] = 30
      /\ DaysOf[Units[3]] = 7 /\ DaysOf[Units[4]] = 1
  BY DEF DaysOf, Units
<1>3. \A l \in 1..3 : l = 1 \/ l = 2 \/ l = 3
  OBVIOUS
<1>4. CASE tf = "1m"
  <2>1. CHUNK_DURATION[tf] = 1
    BY <1>4 DEF CHUNK_DURATION
  <2>2. Whole(1 * DAY, tf)
    BY <1>1, <1>2, <1>3, <1>4, ExactDuration, 1 * DAY = 1 * (DaysOf[Units[4]] * DAY), 4 \in 1..4
  <2> QED
    BY <1>1, <1>4, <2>1, <2>2
<1>5. CASE tf = "5m"
  <2>1. CHUNK_DURATION[tf] = 7
    BY <1>5 DEF CHUNK_DURATION
  <2>2. Whole(7 * DAY, tf)
    BY <1>1, <1>2, <1>3, <1>5, ExactDuration, 7 * DAY = 1 * (DaysOf[Units[3]] * DAY), 3 \in 1..4
  <2> QED
    BY <1>1, <1>5, <2>1, <2>2
<1>6. CASE tf \in {"15m", "30m"}
  <2>1. CHUNK_DURATION[tf] = 14
    BY <1>6 DEF CHUNK_DURATION
  <2>2. Whole(14 * DAY, tf)
    <3>1. /\ 14 * DAY \in Nat /\ 14 * DAY = 2 * (DaysOf[Units[3]] * DAY) /\ tf # "1M"
          /\ \A l \in 1..3 : l < 3 => 14 * DAY < DaysOf[Units[l]] * DAY
      BY <1>1, <1>2, <1>3, <1>6
    <3>2. 2 \in Nat \ {0} /\ 3 \in 1..4
      OBVIOUS
    <3> HIDE DEF DaysOf, Units
    <3> QED
      BY <3>1, <3>2, ExactDuration
  <2> QED
    BY <1>1, <1>6, <2>1, <2>2
<1>7. CASE tf = "1h"
  <2>1. CHUNK_DURATION[tf] = 30
    BY <1>7 DEF CHUNK_DURATION
  <2>2. Whole(30 * DAY, tf)
    BY <1>1, <1>2, <1>3, <1>7, ExactDuration, 30 * DAY = 1 * (DaysOf[Units[2]] * DAY), 2 \in 1..4
  <2> QED
    BY <1>1, <1>7, <2>1, <2>2
<1>8. CASE tf = "4h"
  <2>1. CHUNK_DURATION[tf] = 90
    BY <1>8 DEF CHUNK_DURATION
  <2>2. Whole(90 * DAY, tf)
    BY <1>1, <1>2, <1>3, <1>8, ExactDuration, 90 * DAY = 3 * (DaysOf[Units[2]] * DAY), 2 \in 1..4
  <2> QED
    BY <1>1, <1>8, <2>1, <2>2
<1>9. ASSUME NEW years \in {1, 5, 10}, CHUNK_DURATION[tf] = years * 365, tf # "1m"
      PROVE  /\ CHUNK_DURATION[tf] * DAY \in Nat \ {0} /\ 7 * DAY <= CHUNK_DURATION[tf] * DAY
             /\ Whole(CHUNK_DURATION[tf] * DAY, tf)
  <2> DEFINE size == CHUNK_DURATION[tf] * DAY
  <2>1. size \in Nat \ {0} /\ size = years * (DaysOf[Units[1]] * DAY) /\ 7 * DAY <= size
    BY <1>1, <1>2, <1>9
  <2> HIDE DEF size
  <2>2. Whole(size, tf)
    <3>1. \A l \in 1..3 : l < 1 => size < DaysOf[Units[l]] * DAY
      OBVIOUS
    <3>2. years \in Nat \ {0} /\ 1 \in 1..4 /\ size \in Nat
      BY <2>1
    <3> QED
      BY <2>1, <3>1, <3>2, ExactDuration
  <2> QED
    BY <2>1, <2>2 DEF size
<1>10. CASE tf \in {"1D", "1W", "1M"}
  <2>1. CHUNK_DURATION["1D"] = 1 * 365 /\ CHUNK_DURATION["1W"] = 5 * 365
        /\ CHUNK_DURATION["1M"] = 10 * 365
    BY DEF CHUNK_DURATION
  <2> QED
    BY <1>9, <1>10, <2>1
<1> QED
  BY <1>4, <1>5, <1>6, <1>7, <1>8, <1>10 DEF CHUNK_DURATION
-----------------------------------------------------------------------------
(* The invariant *)

Count == ChunkCount(Start, now, ChunkSize)
Ascending(k) == AscendingChunk(Start, now, ChunkSize, k)

\* The variables, one by one.
Types ==
    /\ timeframe \in Timeframes /\ skew \in Skews
    /\ now \in Nat /\ Lookback <= now /\ newest \in -1..now
    /\ edge \in Int /\ edge <= now + 1
    /\ downloads \in 0..MaxDownloads
    /\ lost \in Nat /\ grain \in Nat /\ slack \in Nat /\ daily \in BOOLEAN

\* What is left of the plan are the oldest chunks of it, newest first.
PlanShape ==
    plan = <<>> \/ \E m \in 1..Count : plan = [k \in 1..m |-> Ascending(m + 1 - k)]

UnitOf(chunk) == DaysOf[DurationOf(chunk).unit] * DAY

\* Before its first chunk a download has left nothing out; from then on no more than the
\* rounding of the first chunk and the slack cost, what the next chunk will leave out
\* included.
Progress ==
    plan # <<>> =>
      IF Len(plan) = Count
      THEN lost = 0 /\ edge = Head(plan).end_ts + 1 /\ grain = UnitOf(Head(plan))
      ELSE lost + Positive((edge - 1) - Head(plan).end_ts) < grain + slack

\* The bars of a node that downloads at least once a day are never more than a day
\* and a slot behind, and its newest chunk brings all that is missing.
Daily ==
    (daily /\ skew <= 0 /\ newest # -1) =>
      /\ now - newest <= DAY + 1
      /\ plan = <<>> /\ downloads > 1 => lost = 0
      /\ plan # <<>> =>
           /\ lost = 0
           /\ Len(plan) < Count => edge <= newest + 1 /\ edge <= Head(plan).end_ts + 1

\* Before the first download is over there has been no other.
FirstDownload == newest = -1 => downloads <= 1 /\ (plan = <<>> => downloads = 0)

HInv == Types /\ PlanShape /\ Progress /\ LossIsBounded /\ Daily /\ FirstDownload

\* The lookback is not empty.
LEMMA LookbackFacts ==
  ASSUME timeframe \in Timeframes
  PROVE  Lookback \in Nat \ {0}
<1>1. timeframe \in DOMAIN CHUNK_DURATION /\ DAY \in Nat \ {0}
  BY HistoryRequestAssumption
<1>2. MAX_HISTORY_LOOKBACK[timeframe] \in Nat \ {0}
  BY <1>1 DEF CHUNK_DURATION, MAX_HISTORY_LOOKBACK
<1> QED
  BY <1>1, <1>2 DEF Lookback

\* The constants of a series.
LEMMA SeriesFacts ==
  ASSUME Types
  PROVE  /\ DAY \in Nat \ {0} /\ skew \in -DAY .. DAY
         /\ ChunkSize \in Nat \ {0} /\ Lookback \in Nat \ {0}
         /\ Whole(ChunkSize, timeframe)
         /\ ChunkSize = DAY \/ 7 * DAY <= ChunkSize
         /\ Start \in Int /\ now \in Int /\ Count \in Nat
<1>1. timeframe \in DOMAIN CHUNK_DURATION /\ DAY \in Nat \ {0} /\ skew \in -DAY .. DAY
  BY HistoryRequestAssumption DEF Types
<1>2. /\ ChunkSize \in Nat \ {0} /\ Whole(ChunkSize, timeframe)
      /\ ChunkSize = DAY \/ 7 * DAY <= ChunkSize
  BY <1>1, FullChunksAreWhole DEF ChunkSize
<1>3. Lookback \in Nat \ {0}
  BY LookbackFacts DEF Types
<1>4. Start \in Int /\ now \in Int
  BY <1>1, <1>3 DEF Types, Start, Stored
<1>5. Count \in Nat
  <2> DEFINE rest == now - Start + ChunkSize
  <2>1. ~(Start >= now) => rest \in Nat
    BY <1>2, <1>4
  <2>2. ChunkSize + 1 \in Nat \ {0}
    BY <1>2
  <2>3. ~(Start >= now) => rest \div (ChunkSize + 1) \in Nat
    BY <2>1, <2>2, DivBound
  <2> QED
    BY <2>3 DEF Count, ChunkCount
<1> QED
  BY <1>1, <1>2, <1>3, <1>4, <1>5

\* The download begins at most the advance of the exchange after what is missing.
LEMMA StartAndMissing ==
  ASSUME Types
  PROVE  /\ Missing \in Int /\ Start <= Missing + Positive(skew) /\ Positive(skew) \in Nat
         /\ newest # -1 => Missing = newest + 1 /\ Start = newest + skew + 1
BY SeriesFacts DEF Types, Missing, Start, Stored, Positive

\* The chunks of a plan, counted from the oldest.
LEMMA ChunkFacts ==
  ASSUME Types, NEW m \in 1..Count
  PROVE  LET c == Ascending(m)
         IN  /\ Count \in Nat /\ Start < now
             /\ c \in Chunk /\ c.start_ts \in Int /\ c.end_ts \in Int
             /\ Start <= c.start_ts /\ c.start_ts <= c.end_ts /\ c.end_ts <= now
             /\ c.end_ts - c.start_ts \in Nat /\ c.end_ts - c.start_ts <= ChunkSize
             /\ m = 1 => c.start_ts = Start
             /\ m = Count => now - 1 <= c.end_ts
             /\ m < Count => /\ c.end_ts - c.start_ts = ChunkSize
                             /\ Ascending(m + 1).start_ts = c.end_ts + 1
<1> DEFINE c == Ascending(m)
<1>1. Start \in Int /\ now \in Int /\ ChunkSize \in Nat \ {0}
  BY SeriesFacts
<1>2. Start < now
  <2>1. CASE Start >= now
    BY <2>1 DEF Count, ChunkCount
  <2> QED
    BY <1>1, <2>1
<1>3. /\ c \in Chunk /\ c.start_ts = Start + (m - 1) * (ChunkSize + 1)
      /\ Start <= c.start_ts /\ c.start_ts <= c.end_ts /\ c.end_ts <= now
  BY <1>1, <1>2, AscendingFacts DEF Count, Ascending
<1>4. /\ Count \in Nat /\ c.end_ts <= c.start_ts + ChunkSize
      /\ m = Count => now - 1 <= c.end_ts
      /\ m < Count => /\ c.end_ts = c.start_ts + ChunkSize
                      /\ Ascending(m + 1).start_ts = c.end_ts + 1
  BY <1>1, <1>2, AscendingEdges DEF Count, Ascending
<1>5. c.start_ts \in Int /\ c.end_ts \in Int
  BY <1>3 DEF Chunk
<1>6. m = 1 => c.start_ts = Start
  BY <1>1, <1>3, (1 - 1) * (ChunkSize + 1) = 0
<1> HIDE DEF c
<1> QED
  BY <1>1, <1>2, <1>3, <1>4, <1>5, <1>6 DEF c

\* What a request for a chunk brings: at least a day, all of a full chunk, and of any
\* other all but less than the unit of its duration, but for the slack.
LEMMA AskedFacts ==
  ASSUME Types, NEW m \in 1..Count
  PROVE  LET c == Ascending(m)
         IN  /\ UnitOf(c) \in Nat \ {0} /\ Slack(c) \in Nat
             /\ \A asked \in AskedFrom(c) :
                  /\ asked \in Int /\ asked <= c.end_ts - DAY
                  /\ asked < c.start_ts + UnitOf(c) + Slack(c)
                  /\ m < Count => asked <= c.start_ts + Slack(c)
<1> DEFINE c == Ascending(m)
           d == ToDuration(c.end_ts - c.start_ts, timeframe)
<1>1. /\ c.start_ts \in Int /\ c.end_ts \in Int /\ c.end_ts - c.start_ts \in Nat
      /\ m < Count => c.end_ts - c.start_ts = ChunkSize
  BY ChunkFacts
<1>2. /\ SlackOf(d) \in Nat /\ DaysOf[d.unit] * DAY \in Nat \ {0}
      /\ \A days \in Days(d) :
           /\ days * DAY \in Nat /\ DAY <= days * DAY
           /\ c.end_ts - c.start_ts < days * DAY + DaysOf[d.unit] * DAY + SlackOf(d)
  BY <1>1, DurationFacts
<1>3. m < Count => \A days \in Days(d) : ChunkSize <= days * DAY + SlackOf(d)
  BY <1>1, SeriesFacts DEF Whole
<1>4. /\ AskedFrom(c) = {c.end_ts - days * DAY : days \in Days(d)}
      /\ UnitOf(c) = DaysOf[d.unit] * DAY /\ Slack(c) = SlackOf(d)
  BY DEF AskedFrom, UnitOf, Slack, SlackOf, DurationOf
<1>5. DAY \in Nat
  BY SeriesFacts
<1> HIDE DEF c, d
<1>6. ASSUME NEW asked \in AskedFrom(c)
      PROVE  /\ asked \in Int /\ asked <= c.end_ts - DAY
             /\ asked < c.start_ts + UnitOf(c) + Slack(c)
             /\ m < Count => asked <= c.start_ts + Slack(c)
  <2>1. PICK days \in Days(d) : asked = c.end_ts - days * DAY
    BY <1>4, <1>6
  <2>2. /\ days * DAY \in Nat /\ DAY <= days * DAY
        /\ c.end_ts - c.start_ts < days * DAY + DaysOf[d.unit] * DAY + SlackOf(d)
        /\ m < Count => ChunkSize <= days * DAY + SlackOf(d)
    BY <1>2, <1>3, <2>1
  <2> DEFINE span == days * DAY
             unit == DaysOf[d.unit] * DAY
  <2>3. /\ asked = c.end_ts - span /\ span \in Nat /\ DAY <= span
        /\ unit \in Nat /\ UnitOf(c) = unit /\ SlackOf(d) \in Nat
        /\ c.end_ts - c.start_ts < span + unit + SlackOf(d)
        /\ m < Count => ChunkSize <= span + SlackOf(d)
    BY <1>2, <1>4, <2>1, <2>2
  <2> HIDE DEF span, unit
  <2> QED
    BY <1>1, <1>4, <1>5, <2>3
<1> QED
  BY <1>2, <1>4, <1>6 DEF c

\* The invariant holds of the types the property states.
LEMMA HInvTypeOK == HInv => TypeOK
<1> SUFFICES ASSUME HInv PROVE TypeOK
  OBVIOUS
<1>1. ASSUME NEW k \in DOMAIN plan
      PROVE  /\ plan[k] \in Chunk
             /\ DurationOf(plan[k]) \in Duration
  <2>1. PICK m \in 1..Count : plan = [j \in 1..m |-> Ascending(m + 1 - j)]
    BY <1>1 DEF HInv, PlanShape
  <2>2. Count \in Nat
    BY SeriesFacts DEF HInv
  <2>3. k \in 1..m /\ plan[k] = Ascending(m + 1 - k)
    BY <1>1, <2>1
  <2>4. m + 1 - k \in 1..Count
    BY <2>2, <2>3
  <2>5. plan[k] \in Chunk /\ plan[k].end_ts - plan[k].start_ts \in Nat
    BY <2>3, <2>4, ChunkFacts DEF HInv
  <2> QED
    BY <2>5, DurationFacts DEF DurationOf
<1> QED
  BY <1>1 DEF HInv, Types, TypeOK
-----------------------------------------------------------------------------
(* The steps *)

\* A series that was never downloaded.
LEMMA InitHInv == Init => HInv
<1> SUFFICES ASSUME Init PROVE HInv
  OBVIOUS
<1>1. Lookback \in Nat \ {0}
  BY LookbackFacts DEF Init
<1>2. Types
  BY <1>1, HistoryRequestAssumption DEF Init, Types
<1> QED
  BY <1>2 DEF Init, HInv, PlanShape, Progress, LossIsBounded, Daily, FirstDownload

\* Nothing but the plan decides which chunks it has.
LEMMA SameChunks ==
  ASSUME UNCHANGED <<timeframe, skew, now, newest>>
  PROVE  /\ Count' = Count /\ Start' = Start /\ Missing' = Missing
         /\ \A k : Ascending(k)' = Ascending(k)
         /\ \A c : UnitOf(c)' = UnitOf(c)
BY DEF Count, Start, Stored, Missing, ChunkSize, Lookback, Ascending, UnitOf, DurationOf

\* There is something to download unless the series is up to date.
LEMMA SomeChunks ==
  ASSUME Types, Start < now
  PROVE  Chunks # <<>>
BY SeriesFacts, PlanFacts DEF Chunks

\* The list of all chunks.
LEMMA ChunksAre ==
  ASSUME Types, Chunks # <<>>
  PROVE  /\ Chunks = [k \in 1..Count |-> Ascending(Count + 1 - k)]
         /\ Count \in Nat /\ 1 <= Count /\ Len(Chunks) = Count
         /\ Chunks[1] = Ascending(Count) /\ Head(Chunks) = Ascending(Count)
<1>1. Chunks = [k \in 1..Count |-> Ascending(Count + 1 - k)]
  BY DEF Chunks, CalculateChunks, Count, Ascending
<1>2. Count \in Nat
  BY SeriesFacts
<1>3. Count # 0
  BY <1>1
<1>4. 1 \in 1..Count /\ Count + 1 - 1 = Count
  BY <1>2, <1>3
<1> HIDE DEF Chunks
<1>5. Len(Chunks) = Count /\ Chunks[1] = Ascending(Count)
  BY <1>1, <1>2, <1>4
<1> QED
  BY <1>1, <1>2, <1>4, <1>5

\* A download begins with its newest chunk, and has left nothing out yet.
LEMMA PlanHInv == HInv /\ Plan => HInv'
<1> SUFFICES ASSUME HInv, Plan PROVE HInv'
  OBVIOUS
<1>1. Types
  BY DEF HInv
<1>2. Chunks # <<>>
  <2>1. CASE newest = -1
    <3>1. Start < now
      BY <1>1, <2>1, SeriesFacts DEF Start
    <3> QED
      BY <1>1, <3>1, SomeChunks
  <2>2. CASE newest # -1
    BY <2>2 DEF Plan, UpToDate
  <2> QED
    BY <2>1, <2>2
<1> DEFINE c == Ascending(Count)
<1>3. /\ Chunks = [k \in 1..Count |-> Ascending(Count + 1 - k)]
      /\ Count \in 1..Count /\ Count \in Nat /\ Len(Chunks) = Count
      /\ Chunks[1] = c /\ Head(Chunks) = c
  BY <1>1, <1>2, ChunksAre
<1>4. /\ c.end_ts \in Int /\ c.end_ts <= now /\ UnitOf(c) \in Nat
  BY <1>1, <1>3, ChunkFacts, AskedFacts
<1>5. /\ plan = <<>> /\ plan' = Chunks /\ downloads < MaxDownloads
      /\ downloads' = downloads + 1 /\ edge' = c.end_ts + 1 /\ lost' = 0 /\ slack' = 0
      /\ UNCHANGED <<timeframe, skew, now, newest, daily>>
  BY <1>3 DEF Plan
<1>6. grain' = UnitOf(c)
  BY <1>3, <1>5 DEF Plan, UnitOf, DurationOf
<1>7. /\ Count' = Count /\ \A k : Ascending(k)' = Ascending(k)
      /\ \A chunk : UnitOf(chunk)' = UnitOf(chunk)
  BY <1>5, SameChunks
<1> HIDE DEF c
<1>8. Types'
  BY <1>1, <1>4, <1>5, <1>6, HistoryRequestAssumption DEF Types, Lookback
<1>9. PlanShape'
  BY <1>3, <1>5, <1>7 DEF PlanShape
<1>10. Progress'
  BY <1>3, <1>5, <1>6, <1>7 DEF Progress
<1>11. LossIsBounded'
  BY <1>2, <1>5 DEF LossIsBounded
<1>12. Daily'
  BY <1>2, <1>3, <1>5, <1>7 DEF HInv, Daily
<1>13. FirstDownload'
  BY <1>1, <1>2, <1>5 DEF HInv, FirstDownload, Types
<1> QED
  BY <1>8, <1>9, <1>10, <1>11, <1>12, <1>13 DEF HInv

\* A list that is given by its members.
LEMMA ListFacts ==
  ASSUME NEW m \in Nat \ {0}, NEW list, DOMAIN list = 1..m, list = [k \in 1..m |-> list[k]]
  PROVE  /\ Len(list) = m /\ Head(list) = list[1]
         /\ Tail(list) = [k \in 1..(m - 1) |-> list[k + 1]] /\ Len(Tail(list)) = m - 1
         /\ m > 1 => Tail(list) # <<>> /\ Head(Tail(list)) = Tail(list)[1]
<1>1. list \in Seq({list[k] : k \in 1..m})
  OBVIOUS
<1>2. Len(list) = m
  BY <1>1
<1>3. Tail(list) \in Seq({list[k] : k \in 1..m}) /\ Len(Tail(list)) = m - 1
  BY <1>1, <1>2
<1>4. \A k \in 1..(m - 1) : Tail(list)[k] = list[k + 1]
  BY <1>1, <1>2
<1>5. Tail(list) = [k \in 1..(m - 1) |-> list[k + 1]]
  BY <1>3, <1>4
<1>6. Head(list) = list[1] /\ (m > 1 => Tail(list) # <<>> /\ Head(Tail(list)) = Tail(list)[1])
  BY <1>1, <1>2, <1>3
<1> QED
  BY <1>2, <1>3, <1>5, <1>6

\* What a step of a download works on: the m-th chunk, and those before it.
LEMMA HeadFacts ==
  ASSUME HInv, plan # <<>>
  PROVE  \E m \in 1..Count :
           /\ Len(plan) = m /\ Head(plan) = Ascending(m)
           /\ m > 1 => /\ Tail(plan) = [k \in 1..(m - 1) |-> Ascending((m - 1) + 1 - k)]
                       /\ Tail(plan) # <<>> /\ Len(Tail(plan)) = m - 1
                       /\ Head(Tail(plan)) = Ascending(m - 1)
           /\ m = 1 => Tail(plan) = <<>>
<1>1. PICK m \in 1..Count : plan = [k \in 1..m |-> Ascending(m + 1 - k)]
  BY DEF HInv, PlanShape
<1>2. m \in Nat /\ m >= 1
  BY SeriesFacts DEF HInv
<1>3. /\ Len(plan) = m /\ Head(plan) = plan[1] /\ \A k \in 1..m : plan[k] = Ascending(m + 1 - k)
      /\ Tail(plan) = [k \in 1..(m - 1) |-> plan[k + 1]] /\ Len(Tail(plan)) = m - 1
      /\ m > 1 => Tail(plan) # <<>> /\ Head(Tail(plan)) = Tail(plan)[1]
  BY <1>1, <1>2, ListFacts
<1>4. Head(plan) = Ascending(m)
  <2>1. 1 \in 1..m /\ m + 1 - 1 = m
    BY <1>2
  <2> QED
    BY <1>3, <2>1
<1>5. \A k \in 1..(m - 1) : Tail(plan)[k] = plan[k + 1]
  BY <1>3
<1>6. \A k \in 1..(m - 1) : Tail(plan)[k] = Ascending((m - 1) + 1 - k)
  <2> SUFFICES ASSUME NEW k \in 1..(m - 1) PROVE Tail(plan)[k] = Ascending((m - 1) + 1 - k)
    OBVIOUS
  <2>1. k + 1 \in 1..m /\ m + 1 - (k + 1) = (m - 1) + 1 - k
    BY <1>2
  <2> QED
    BY <1>3, <1>5, <2>1
<1>7. m > 1 => Head(Tail(plan)) = Ascending(m - 1) /\ Tail(plan) # <<>>
  <2> SUFFICES ASSUME m > 1 PROVE Head(Tail(plan)) = Ascending(m - 1) /\ Tail(plan) # <<>>
    OBVIOUS
  <2>1. 1 \in 1..(m - 1) /\ (m - 1) + 1 - 1 = m - 1
    BY <1>2
  <2>2. Tail(plan)[1] = Ascending(m - 1)
    BY <1>6, <2>1
  <2> QED
    BY <1>2, <1>3, <1>5, <2>2
<1>8. Tail(plan) = [k \in 1..(m - 1) |-> Ascending((m - 1) + 1 - k)]
  BY <1>3, <1>5, <1>6
<1>9. m = 1 => Tail(plan) = <<>>
  BY <1>3
<1> QED
  BY <1>2, <1>3, <1>4, <1>5, <1>7, <1>8, <1>9

\* A chunk that is not the last of its download comes in.
LEMMA MiddleHInv == HInv /\ RequestBars /\ Len(plan) > 1 => HInv'
<1> SUFFICES ASSUME HInv, RequestBars, Len(plan) > 1 PROVE HInv'
  OBVIOUS
<1>1. Types /\ plan # <<>>
  BY DEF HInv, RequestBars
<1>2. PICK m \in 1..Count :
        /\ Len(plan) = m /\ Head(plan) = Ascending(m)
        /\ m > 1 => /\ Tail(plan) = [k \in 1..(m - 1) |-> Ascending((m - 1) + 1 - k)]
                    /\ Tail(plan) # <<>> /\ Len(Tail(plan)) = m - 1
                    /\ Head(Tail(plan)) = Ascending(m - 1)
  BY <1>1, HeadFacts
<1> DEFINE c == Ascending(m)
           b == Ascending(m - 1)
           oldest(asked) == IF asked < edge THEN asked ELSE edge
<1>3. m \in Nat /\ Count \in Nat /\ 1 < m /\ m <= Count /\ m - 1 \in 1..Count
  BY <1>1, <1>2, SeriesFacts
<1>4. /\ c.start_ts \in Int /\ c.end_ts \in Int /\ c.end_ts <= now /\ c.start_ts <= c.end_ts
      /\ c.end_ts - c.start_ts <= ChunkSize
  BY <1>1, ChunkFacts
<1>5. /\ b.start_ts \in Int /\ b.end_ts \in Int /\ Start <= b.start_ts
      /\ b.end_ts - b.start_ts = ChunkSize /\ c.start_ts = b.end_ts + 1
  BY <1>1, <1>3, ChunkFacts, (m - 1) + 1 = m
<1>6. PICK asked \in AskedFrom(c) :
        /\ lost' = lost + Positive((edge - 1) - c.end_ts)
        /\ edge' = oldest(asked) /\ newest' = newest /\ plan' = Tail(plan)
        /\ slack' = slack + Slack(c)
        /\ UNCHANGED <<timeframe, skew, now, downloads, grain, daily>>
  <2>1. ~(Len(plan) = 1) /\ Head(plan) = c
    BY <1>2, <1>3
  <2>2. Positive((edge - 1) - c.end_ts) \in Int /\ lost \in Int
    BY <1>1, <1>4 DEF Positive, Types
  <2> HIDE DEF c
  <2> QED
    BY <2>1, <2>2 DEF RequestBars
<1>7. /\ asked \in Int /\ UnitOf(c) \in Nat \ {0} /\ asked <= c.end_ts - DAY
      /\ Slack(c) \in Nat /\ asked < c.start_ts + UnitOf(c) + Slack(c)
      /\ m < Count => asked <= c.start_ts + Slack(c)
  BY <1>1, AskedFacts
<1>8. /\ DAY \in Nat \ {0} /\ skew \in -DAY .. DAY /\ ChunkSize \in Nat \ {0}
      /\ (ChunkSize = DAY \/ 7 * DAY <= ChunkSize) /\ Start \in Int
      /\ newest # -1 => Start = newest + skew + 1
  BY <1>1, SeriesFacts, StartAndMissing
<1>9. /\ Count' = Count /\ \A k : Ascending(k)' = Ascending(k)
      /\ \A chunk : UnitOf(chunk)' = UnitOf(chunk)
  BY <1>6, SameChunks
<1>10. /\ plan' # <<>> /\ Len(plan') = m - 1 /\ Head(plan') = b
       /\ plan' = [k \in 1..(m - 1) |-> Ascending((m - 1) + 1 - k)]
  BY <1>2, <1>3, <1>6
<1>11. /\ m = Count => lost = 0 /\ edge = c.end_ts + 1 /\ grain = UnitOf(c)
       /\ m < Count => lost + Positive((edge - 1) - c.end_ts) < grain + slack
  BY <1>1, <1>2, <1>3 DEF HInv, Progress
<1>12. daily /\ skew <= 0 /\ newest # -1 =>
         /\ now - newest <= DAY + 1 /\ lost = 0
         /\ m < Count => edge <= newest + 1 /\ edge <= c.end_ts + 1
  BY <1>1, <1>2 DEF HInv, Daily
<1>13. newest = -1 => downloads <= 1
  BY DEF HInv, FirstDownload
<1> DEFINE old == oldest(asked)
<1> HIDE DEF c, b
<1>14. old \in Int /\ old <= asked /\ old <= edge
  BY <1>1, <1>7 DEF Types
<1>15. m = Count => old = asked
  BY <1>4, <1>7, <1>8, <1>11
<1> HIDE DEF old
<1>16. lost' \in Nat
  BY <1>1, <1>4, <1>6 DEF Types, Positive
<1>17. Types'
  BY <1>1, <1>6, <1>7, <1>14, <1>16 DEF Types, Lookback, old
<1>18. PlanShape'
  BY <1>3, <1>9, <1>10 DEF PlanShape
<1>19. lost' + Positive((edge' - 1) - b.end_ts) < grain + slack'
  <2> DEFINE between == Positive((edge - 1) - c.end_ts)
             below == Positive((old - 1) - b.end_ts)
  <2>1. lost \in Nat /\ slack \in Nat /\ grain \in Nat /\ edge \in Int
    BY <1>1 DEF Types
  <2>2. between \in Nat /\ below \in Nat
    BY <1>4, <1>5, <1>14, <2>1 DEF Positive
  <2>3. (lost + between) + below < grain + (slack + Slack(c))
    <3>1. CASE m = Count
      <4>1. between = 0
        BY <1>4, <1>11, <3>1 DEF Positive
      <4>2. below < UnitOf(c) + Slack(c)
        BY <1>4, <1>5, <1>7, <1>15, <3>1 DEF Positive
      <4> HIDE DEF between, below
      <4> QED
        BY <1>7, <1>11, <2>1, <2>2, <3>1, <4>1, <4>2
    <3>2. CASE m < Count
      <4>1. below <= Slack(c)
        BY <1>5, <1>7, <1>14, <3>2 DEF Positive
      <4>2. lost + between < grain + slack
        BY <1>11, <3>2
      <4> HIDE DEF between, below
      <4> QED
        BY <1>7, <2>1, <2>2, <4>1, <4>2
    <3> QED
      BY <1>3, <3>1, <3>2
  <2>4. lost' = lost + between /\ slack' = slack + Slack(c) /\ edge' = old
    BY <1>6 DEF old
  <2>5. below = Positive((edge' - 1) - b.end_ts)
    BY <2>4
  <2> HIDE DEF between, below
  <2> QED
    BY <2>3, <2>4, <2>5
<1>20. Progress'
  BY <1>3, <1>6, <1>9, <1>10, <1>19 DEF Progress
<1>21. LossIsBounded'
  BY <1>10 DEF LossIsBounded
<1>22. ASSUME daily, skew <= 0, newest # -1
       PROVE  lost' = 0 /\ edge' <= newest + 1 /\ edge' <= b.end_ts + 1
  <2>1. newest \in Int /\ now \in Int /\ edge' = old /\ edge \in Int
    BY <1>1, <1>6 DEF Types, old
  <2>2. CASE m = Count
    <3>1. lost' = 0
      BY <1>4, <1>6, <1>11, <2>2 DEF Positive
    <3>2. edge' <= newest + 1
      BY <1>4, <1>7, <1>6, <1>8, <1>12, <1>15, <1>22, <2>1, <2>2
    <3>3. ChunkSize = DAY
      BY <1>4, <1>5, <1>8, <1>12, <1>22, <2>1
    <3>4. asked <= c.start_ts
      BY <1>4, <1>7, <1>8, <3>3
    <3> QED
      BY <1>5, <1>7, <1>6, <1>15, <2>2, <3>1, <3>2, <3>4
  <2>3. CASE m < Count
    <3>1. lost' = 0
      BY <1>1, <1>4, <1>6, <1>12, <1>22, <2>3 DEF Positive, Types
    <3>2. ChunkSize = DAY
      BY <1>4, <1>5, <1>8, <1>12, <1>22, <2>1
    <3>3. asked <= c.start_ts
      BY <1>4, <1>7, <1>8, <3>2
    <3>4. edge' <= newest + 1
      BY <1>12, <1>14, <1>22, <2>1, <2>3
    <3> QED
      BY <1>5, <1>7, <1>14, <2>1, <3>1, <3>3, <3>4
  <2> QED
    BY <1>3, <2>2, <2>3
<1>23. Daily'
  BY <1>6, <1>10, <1>12, <1>22 DEF Daily
<1>24. FirstDownload'
  BY <1>6, <1>10, <1>13 DEF FirstDownload
<1> QED
  BY <1>17, <1>18, <1>20, <1>21, <1>23, <1>24 DEF HInv

\* The oldest chunk of a download comes in, and the series is as new as the newest one.
LEMMA LastHInv == HInv /\ RequestBars /\ Len(plan) = 1 => HInv'
<1> SUFFICES ASSUME HInv, RequestBars, Len(plan) = 1 PROVE HInv'
  OBVIOUS
<1>1. Types /\ plan # <<>>
  BY DEF HInv, RequestBars
<1>2. PICK m \in 1..Count :
        Len(plan) = m /\ Head(plan) = Ascending(m) /\ (m = 1 => Tail(plan) = <<>>)
  BY <1>1, HeadFacts
<1> DEFINE c == Ascending(1)
           oldest(asked) == IF asked < edge THEN asked ELSE edge
           top == Ascending(Count).end_ts
<1>3. m = 1 /\ Count \in Nat /\ 1 <= Count /\ 1 \in 1..Count /\ Count \in 1..Count
  <2>1. m = 1 /\ Count \in Nat
    BY <1>1, <1>2, SeriesFacts
  <2> QED
    BY <2>1
<1>4. /\ c.start_ts = Start /\ c.end_ts \in Int /\ c.end_ts <= now /\ Start <= c.end_ts
  BY <1>1, <1>3, ChunkFacts
<1>5. top \in Int /\ now - 1 <= top /\ top <= now
  BY <1>1, <1>3, ChunkFacts
<1>6. Chunks[1].end_ts = top
  <2>1. Chunks # <<>>
    BY <1>1, <1>3, ChunkFacts, SomeChunks
  <2> QED
    BY <1>1, <2>1, ChunksAre
<1>7. PICK asked \in AskedFrom(c) :
        /\ lost' = lost + Positive((edge - 1) - c.end_ts) + Positive(oldest(asked) - Missing)
        /\ edge' = oldest(asked) /\ newest' = top /\ plan' = <<>> /\ slack' = slack + Slack(c)
        /\ UNCHANGED <<timeframe, skew, now, downloads, grain, daily>>
  <2>1. Len(plan) = 1 /\ Head(plan) = c /\ Tail(plan) = <<>>
    BY <1>2, <1>3
  <2> HIDE DEF c, top
  <2> QED
    BY <1>6, <2>1 DEF RequestBars
<1>8. /\ asked \in Int /\ UnitOf(c) \in Nat \ {0} /\ asked <= c.end_ts - DAY
      /\ Slack(c) \in Nat /\ asked < Start + UnitOf(c) + Slack(c)
      /\ 1 < Count => asked <= Start + Slack(c)
  BY <1>1, <1>3, <1>4, AskedFacts
<1>9. /\ DAY \in Nat \ {0} /\ Start \in Int /\ Missing \in Int
      /\ Start <= Missing + Positive(skew) /\ Positive(skew) \in Nat
      /\ newest # -1 => Missing = newest + 1
      /\ Lookback \in Nat \ {0}
  BY <1>1, SeriesFacts, StartAndMissing
<1>10. /\ 1 = Count => lost = 0 /\ edge = c.end_ts + 1 /\ grain = UnitOf(c)
       /\ 1 < Count => lost + Positive((edge - 1) - c.end_ts) < grain + slack
  BY <1>1, <1>2, <1>3 DEF HInv, Progress
<1>11. daily /\ skew <= 0 /\ newest # -1 =>
         /\ now - newest <= DAY + 1 /\ lost = 0
         /\ 1 < Count => edge <= newest + 1 /\ edge <= c.end_ts + 1
  BY <1>1, <1>2, <1>3 DEF HInv, Daily
<1>12. newest = -1 => downloads <= 1
  BY DEF HInv, FirstDownload
<1> DEFINE old == oldest(asked)
<1> HIDE DEF c, top
<1>13. old \in Int /\ old <= asked /\ old <= edge
  BY <1>1, <1>8 DEF Types
<1> HIDE DEF old
<1>14. newest' \in 0..now /\ newest' # -1
  BY <1>1, <1>5, <1>7, <1>9 DEF Types
<1>15. /\ lost \in Nat /\ slack \in Nat /\ grain \in Nat /\ edge \in Int
       /\ newest \in Int /\ now \in Int /\ edge' = old
       /\ lost' = lost + Positive((edge - 1) - c.end_ts) + Positive(old - Missing)
  BY <1>1, <1>7 DEF Types, old
<1> DEFINE between == Positive((edge - 1) - c.end_ts)
           before == Positive(old - Missing)
<1>16. between \in Nat /\ before \in Nat
  BY <1>4, <1>9, <1>13, <1>15 DEF Positive
<1>17. Types' /\ lost' < grain + slack' + Positive(skew)
  <2>1. lost + between + before < grain + (slack + Slack(c)) + Positive(skew)
    <3>1. CASE 1 = Count
      <4>1. between = 0
        BY <1>4, <1>10, <3>1 DEF Positive
      <4>2. before < grain + Slack(c) + Positive(skew)
        BY <1>8, <1>9, <1>10, <1>13, <3>1 DEF Positive
      <4> HIDE DEF between, before
      <4> QED
        BY <1>8, <1>9, <1>10, <1>15, <1>16, <3>1, <4>1, <4>2
    <3>2. CASE 1 < Count
      <4>1. before <= Positive(skew) + Slack(c)
        BY <1>8, <1>9, <1>13, <3>2 DEF Positive
      <4>2. lost + between < grain + slack
        BY <1>10, <3>2
      <4> HIDE DEF between, before
      <4> QED
        BY <1>8, <1>9, <1>15, <1>16, <4>1, <4>2
    <3> QED
      BY <1>3, <3>1, <3>2
  <2>2. lost + between + before \in Nat /\ slack + Slack(c) \in Nat
    <3> HIDE DEF between, before
    <3> QED
      BY <1>8, <1>15, <1>16
  <2>3. lost' = lost + between + before /\ slack' = slack + Slack(c)
    BY <1>7, <1>15
  <2> HIDE DEF between, before
  <2>4. Types'
    BY <1>1, <1>7, <1>13, <1>14, <1>15, <2>2, <2>3 DEF Types, Lookback
  <2> QED
    BY <2>1, <2>3, <2>4
<1>18. LossIsBounded'
  BY <1>7, <1>17 DEF LossIsBounded, Positive
<1>19. ASSUME daily, skew <= 0, downloads > 1 PROVE lost' = 0
  <2>1. newest # -1 /\ Missing = newest + 1 /\ lost = 0 /\ now - newest <= DAY + 1
    BY <1>1, <1>9, <1>11, <1>12, <1>19 DEF Types
  <2>2. CASE 1 = Count
    <3>1. Positive((edge - 1) - c.end_ts) = 0
      BY <1>4, <1>10, <2>2 DEF Positive
    <3>2. Positive(old - Missing) = 0
      BY <1>4, <1>8, <1>9, <1>13, <1>15, <2>1 DEF Positive
    <3> QED
      BY <1>15, <2>1, <3>1, <3>2
  <2>3. CASE 1 < Count
    <3>1. edge <= newest + 1 /\ edge <= c.end_ts + 1
      BY <1>11, <1>19, <2>1, <2>3
    <3>2. Positive((edge - 1) - c.end_ts) = 0 /\ Positive(old - Missing) = 0
      BY <1>4, <1>9, <1>13, <1>15, <2>1, <3>1 DEF Positive
    <3> QED
      BY <1>15, <2>1, <3>2
  <2> QED
    BY <1>3, <2>2, <2>3
<1>20. Daily'
  <2>1. now - newest' <= DAY + 1
    BY <1>5, <1>7, <1>9, <1>15
  <2> QED
    BY <1>7, <1>19, <2>1 DEF Daily
<1>21. FirstDownload'
  BY <1>14 DEF FirstDownload
<1>22. PlanShape' /\ Progress'
  BY <1>7 DEF PlanShape, Progress
<1> QED
  BY <1>17, <1>18, <1>20, <1>21, <1>22 DEF HInv

\* Time passes between two downloads.
LEMMA WaitHInv ==
  ASSUME HInv, NEW gap \in Gaps, Wait(gap)
  PROVE  HInv'
<1>1. Types
  BY DEF HInv
<1>2. /\ plan = <<>> /\ plan' = <<>> /\ now' = now + gap /\ daily' = (daily /\ gap <= DAY)
      /\ UNCHANGED <<timeframe, skew, newest, edge, downloads, lost, grain, slack>>
      /\ newest >= now - 1 \/ UpToDate
  BY DEF Wait
<1>3. gap \in Nat \ {0} /\ DAY \in Nat
  BY HistoryRequestAssumption
<1>4. Types'
  <2>1. Lookback' = Lookback /\ Lookback \in Nat
    BY <1>1, <1>2, LookbackFacts DEF Types, Lookback
  <2> QED
    BY <1>1, <1>2, <1>3, <2>1 DEF Types
<1>5. newest # -1 /\ skew <= 0 => newest >= now - 1
  <2> SUFFICES ASSUME newest # -1, skew <= 0, UpToDate PROVE newest >= now - 1
    BY <1>2
  <2>1. ~(Start < now)
    BY <1>1, SomeChunks DEF UpToDate
  <2>2. Start = newest + skew + 1 /\ now \in Int /\ newest \in Int /\ skew \in Int
    BY <1>1, SeriesFacts, StartAndMissing DEF Types
  <2> QED
    BY <2>1, <2>2
<1>6. Daily'
  <2> SUFFICES ASSUME daily', skew <= 0, newest # -1
               PROVE  now' - newest <= DAY + 1 /\ (downloads > 1 => lost = 0)
    BY <1>2 DEF Daily
  <2>1. daily /\ gap <= DAY
    BY <1>2
  <2>2. now' - newest <= DAY + 1
    BY <1>1, <1>2, <1>3, <1>5, <2>1 DEF Types
  <2> QED
    BY <1>2, <2>1, <2>2 DEF HInv, Daily
<1>7. LossIsBounded' /\ FirstDownload'
  BY <1>2 DEF HInv, LossIsBounded, FirstDownload, Positive
<1> QED
  BY <1>2, <1>4, <1>6, <1>7 DEF HInv, PlanShape, Progress

\* Every step keeps the invariant.
LEMMA StepHInv == HInv /\ [Next]_vars => HInv'
<1>1. HInv /\ RequestBars => HInv'
  <2> SUFFICES ASSUME HInv, RequestBars PROVE Len(plan) > 1 \/ Len(plan) = 1
    BY MiddleHInv, LastHInv
  <2>1. Count \in Nat /\ \E m \in 1..Count : Len(plan) = m
    BY SeriesFacts, HeadFacts DEF HInv, RequestBars
  <2> QED
    BY <2>1
<1>2. HInv /\ UNCHANGED vars => HInv'
  <2> SUFFICES ASSUME HInv, UNCHANGED vars PROVE HInv'
    OBVIOUS
  <2>1. /\ UNCHANGED <<timeframe, skew, now, newest, plan, edge, downloads, lost, grain,
                       slack, daily>>
        /\ Count' = Count /\ \A k : Ascending(k)' = Ascending(k)
        /\ \A chunk : UnitOf(chunk)' = UnitOf(chunk)
    BY SameChunks DEF vars
  <2>2. Types' /\ PlanShape' /\ LossIsBounded' /\ Daily' /\ FirstDownload'
    BY <2>1 DEF HInv, Types, Lookback, PlanShape, LossIsBounded, Positive, Daily, FirstDownload
  <2>3. Progress'
    BY <2>1 DEF HInv, Progress, Positive
  <2> QED
    BY <2>2, <2>3 DEF HInv
<1> QED
  BY <1>1, <1>2, PlanHInv, WaitHInv DEF Next

-----------------------------------------------------------------------------
(* The theorems *)

\* The variables keep their types, and no request is made for a duration of zero, for
\* every length of a day, time zone and sequence of pauses.
THEOREM HistoryTypeOK == Spec => []TypeOK
BY InitHInv, StepHInv, HInvTypeOK, PTL DEF Spec

\* Rounding a duration down costs a download less than one unit of its newest chunk, two
\* days for each chunk asked for in months, however the months fall, and what the
\* exchange is ahead of UTC, whatever its number of chunks (gateway_client.py 288-307
\* with downloader.py 34-59).
THEOREM RoundingLossIsBounded == Spec => []LossIsBounded
<1>1. HInv => LossIsBounded
  BY DEF HInv
<1> QED
  BY <1>1, InitHInv, StepHInv, PTL DEF Spec

\* A node that tries a series at least once a day leaves nothing out of its deltas, on
\* every exchange that is not ahead of UTC.
THEOREM DailyDownloadsLoseNothing == Spec => []DailyLosesNothing
<1>1. HInv => DailyLosesNothing
  <2> SUFFICES ASSUME HInv, plan = <<>>, downloads > 1, daily, skew <= 0 PROVE lost = 0
    BY DEF DailyLosesNothing
  <2>1. newest # -1
    BY DEF HInv, FirstDownload, Types
  <2> QED
    BY <2>1 DEF HInv, Daily
<1> QED
  BY <1>1, InitHInv, StepHInv, PTL DEF Spec
=============================================================================
