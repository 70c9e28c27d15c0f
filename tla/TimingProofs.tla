---------------------------- MODULE TimingProofs ----------------------------
(***************************************************************************)
(* Proofs about the two components that work with time: RateLimiter, for   *)
(* every set of callers, delays and configurations, when no two calls      *)
(* overlap, and MarketClock, for every calendar and change of the clock.   *)
(***************************************************************************)
EXTENDS RateLimiter, MarketClock, WellFoundedInduction, TLAPS

\* The least of two numbers is one of them and not above either.
LEMMA LeastBound ==
  ASSUME NEW a \in Int, NEW b \in Int
  PROVE  /\ Least(a, b) \in {a, b} /\ Least(a, b) <= a /\ Least(a, b) <= b
BY DEF Least

\* The initial state has the types.
LEMMA InitTypeOK == Init => TypeOK
<1> SUFFICES ASSUME Init PROVE TypeOK
  OBVIOUS
<1>1. /\ MAX_BACKOFF \in Nat /\ 0 \in 0..MAX_BACKOFF
      /\ DEFAULT_DELAY \in 0..MAX_BACKOFF /\ DEFAULT_DELAY \in DEFAULT_DELAY..MAX_BACKOFF
  BY RateLimiterAssumption
<1>2. base = DEFAULT_DELAY /\ delay = DEFAULT_DELAY /\ free = 1 /\ configured = FALSE
  BY DEF Init
<1>3. since \in 0..MAX_BACKOFF
  BY DEF Init
<1>4. at \in [Callers -> {"idle", "queued", "sleeping", "granted"}]
  BY DEF Init
<1>5. timer \in [Callers -> 0..MAX_BACKOFF] /\ asked \in [Callers -> 0..MAX_BACKOFF]
  BY <1>1 DEF Init
<1> QED
  BY <1>1, <1>2, <1>3, <1>4, <1>5 DEF TypeOK

\* Every step keeps the types and the bounds on the delay.
LEMMA TypeOKStep == TypeOK /\ [Next]_vars => TypeOK'
<1> SUFFICES ASSUME TypeOK, [Next]_vars PROVE TypeOK'
  OBVIOUS
<1> USE RateLimiterAssumption DEF TypeOK
<1>1. ASSUME NEW batch \in BatchConfigs, Configure(batch) PROVE TypeOK'
  BY <1>1 DEF Configure
<1>2. ASSUME NEW c \in Callers, Enter(c) \/ Return(c) PROVE TypeOK'
  BY <1>2 DEF Enter, Return
<1>3. ASSUME NEW c \in Callers, PassAtOnce(c) PROVE TypeOK'
  BY <1>3 DEF PassAtOnce
<1>4. ASSUME NEW c \in Callers, Sleep(c) PROVE TypeOK'
  BY <1>4 DEF Sleep
<1>5. ASSUME NEW c \in Callers, WakeUp(c) PROVE TypeOK'
  BY <1>5 DEF WakeUp
<1>6. ASSUME NEW c \in Callers, ReportPacingError(c) PROVE TypeOK'
  <2>1. Least(2 * delay, MAX_BACKOFF) \in base..MAX_BACKOFF
    BY DEF Least
  <2> QED
    BY <1>6, <2>1 DEF ReportPacingError
<1>7. ASSUME NEW c \in Callers, ReportSuccess(c) PROVE TypeOK'
  BY <1>7 DEF ReportSuccess
<1>8. CASE Tick
  <2>1. Least(since + 1, MAX_BACKOFF) \in 0..MAX_BACKOFF
    BY DEF Least
  <2> QED
    BY <1>8, <2>1 DEF Tick
<1>9. CASE UNCHANGED vars
  BY <1>9 DEF vars
<1> QED
  BY <1>1, <1>2, <1>3, <1>4, <1>5, <1>6, <1>7, <1>8, <1>9 DEF Next

\* The variables of the rate limiter keep their types, and the delay stays
\* between the base delay and MAX_BACKOFF.
THEOREM RateLimiterTypeOK == Spec => []TypeOK
<1> QED
  BY InitTypeOK, TypeOKStep, PTL DEF Spec

\* A sleeper will have waited what it asked for when its timer is out, and while it
\* sleeps nobody else can get through.
SleeperAlone ==
    \A c \in Callers :
        at[c] = "sleeping" =>
            /\ asked[c] >= base
            /\ since + timer[c] >= asked[c]
            /\ \A d \in Callers : d = c \/ (at[d] # "sleeping" /\ free = 0)

\* With one slot in every configuration, it is free or a sleeper holds it.
OneSlotFree ==
    (\A batch \in BatchConfigs : batch.concurrent = 1)
        => free \in 0..1 /\ \A c \in Callers : at[c] = "sleeping" => free = 0

\* Nothing sleeps before configure().
QuietBeforeConfigure ==
    ~configured => \A c \in Callers : at[c] = "idle"

PInv == TypeOK /\ SleeperAlone /\ OneSlotFree /\ QuietBeforeConfigure

\* If calls do not overlap, every step keeps the pacing invariant and lets a caller
\* through only after its delay.
LEMMA PacingStep ==
  ASSUME OneAtATime, PInv, [Next]_vars
  PROVE  /\ PInv'
         /\ \A c \in Callers :
              (at[c] # "granted" /\ at'[c] = "granted")
                 => asked'[c] >= base /\ since >= asked'[c]
<1> DEFINE Let(c) == (at[c] # "granted" /\ at'[c] = "granted")
                        => asked'[c] >= base /\ since >= asked'[c]
           Goal == /\ SleeperAlone' /\ OneSlotFree' /\ QuietBeforeConfigure'
                   /\ \A c \in Callers : Let(c)
<1>0. TypeOK' /\ TypeOK /\ SleeperAlone /\ OneSlotFree /\ QuietBeforeConfigure
  BY TypeOKStep DEF PInv
<1> USE <1>0, RateLimiterAssumption
        DEF TypeOK, SleeperAlone, OneSlotFree, QuietBeforeConfigure
<1>1. ASSUME NEW batch \in BatchConfigs, Configure(batch) PROVE Goal
  BY <1>1 DEF Configure
<1>2. ASSUME NEW c \in Callers, Enter(c) PROVE Goal
  BY <1>2 DEF Enter
<1>3. ASSUME NEW c \in Callers, Return(c) PROVE Goal
  BY <1>3 DEF Return
<1>4. ASSUME NEW c \in Callers, PassAtOnce(c) PROVE Goal
  <2>1. \A d \in Callers : at[d] # "sleeping"
    BY <1>4, OneAtATime DEF PassAtOnce, OneAtATime
  <2>2. \A d \in Callers : at'[d] # "sleeping"
    BY <1>4, <2>1 DEF PassAtOnce
  <2>3. \A d \in Callers : Let(d)
    BY <1>4 DEF PassAtOnce
  <2> QED
    BY <1>4, <2>2, <2>3 DEF PassAtOnce
<1>5. ASSUME NEW c \in Callers, Sleep(c) PROVE Goal
  <2>1. \A d \in Callers : at[d] # "sleeping"
    BY <1>5, OneAtATime DEF Sleep, OneAtATime
  <2>2. \A d \in Callers : d = c \/ at'[d] # "sleeping"
    BY <1>5, <2>1 DEF Sleep
  <2>3. asked'[c] = delay /\ timer'[c] = delay - since /\ since' = since /\ base' = base
    BY <1>5 DEF Sleep
  <2>4. free' = 0 \/ \A d \in Callers : d = c
    BY <1>5, OneAtATime DEF Sleep, OneAtATime
  <2>5. SleeperAlone'
    BY <2>2, <2>3, <2>4
  <2>6. OneSlotFree' /\ QuietBeforeConfigure' /\ \A d \in Callers : Let(d)
    BY <1>5 DEF Sleep
  <2> QED
    BY <2>5, <2>6
<1>6. ASSUME NEW c \in Callers, WakeUp(c) PROVE Goal
  <2>1. \A d \in Callers : at'[d] # "sleeping"
    BY <1>6 DEF WakeUp
  <2>2. OneSlotFree' /\ QuietBeforeConfigure'
    BY <1>6 DEF WakeUp
  <2>3. \A d \in Callers : Let(d)
    BY <1>6 DEF WakeUp
  <2> QED
    BY <2>1, <2>2, <2>3
<1>7. ASSUME NEW c \in Callers, ReportPacingError(c) PROVE Goal
  BY <1>7 DEF ReportPacingError
<1>8. ASSUME NEW c \in Callers, ReportSuccess(c) PROVE Goal
  BY <1>8 DEF ReportSuccess
<1>9. ASSUME Tick PROVE Goal
  <2>1. since' = since + 1 \/ since' = MAX_BACKOFF
    BY <1>9 DEF Tick, Least
  <2>2. \A d \in Callers : timer'[d] >= timer[d] - 1 /\ timer'[d] >= 0
    BY <1>9 DEF Tick
  <2>3. ASSUME NEW d \in Callers, at'[d] = "sleeping"
        PROVE  since' + timer'[d] >= asked'[d]
    BY <1>9, <2>1, <2>2, <2>3 DEF Tick
  <2>4. SleeperAlone'
    BY <1>9, <2>3 DEF Tick
  <2> QED
    BY <1>9, <2>4 DEF Tick
<1>10. ASSUME UNCHANGED vars PROVE Goal
  BY <1>10 DEF vars
<1> QED
  BY <1>1, <1>2, <1>3, <1>4, <1>5, <1>6, <1>7, <1>8, <1>9, <1>10 DEF Next, PInv

\* Calls that do not overlap keep the pacing delay, whatever the backoff does.
THEOREM PacingIsKept ==
  ASSUME OneAtATime
  PROVE  Spec => PacingKept
<1>1. Init => PInv
  BY InitTypeOK DEF Init, PInv, SleeperAlone, OneSlotFree, QuietBeforeConfigure
<1>2. PInv /\ [Next]_vars => PInv'
  BY PacingStep, OneAtATime
<1>3. PInv /\ [Next]_vars
        => [\A c \in Callers :
             (at[c] # "granted" /\ at'[c] = "granted")
                => asked'[c] >= base /\ since >= asked'[c]]_vars
  BY PacingStep, OneAtATime
<1> QED
  BY <1>1, <1>2, <1>3, PTL DEF Spec, PacingKept
-----------------------------------------------------------------------------
(* The market clock *)

\* A set of natural numbers that is not empty has a least element.
LEMMA LeastOfSet ==
  ASSUME NEW S \in SUBSET Nat, S # {}
  PROVE  \E m \in S : \A n \in S : m <= n
<1> DEFINE R == OpToRel(<, Nat)
<1>1. \E m \in S : \A n \in S : <<n, m>> \notin R
  <2>1. IsWellFoundedOn(R, Nat)
    BY NatLessThanWellFounded
  <2> HIDE DEF R
  <2> QED
    BY <2>1, WFMin
<1>2. \A m, n \in Nat : <<n, m>> \in R <=> n < m
  BY DEF OpToRel
<1> HIDE DEF R
<1>3. PICK m \in S : \A n \in S : <<n, m>> \notin R
  BY <1>1
<1>4. \A n \in S : ~(n < m)
  BY <1>2, <1>3
<1>5. \A n \in S : m <= n
  BY <1>4
<1> QED
  BY <1>3, <1>5

\* d is the first trading day after today.
FirstAfter(h, today, d) ==
    TradingDay(h, d) /\ \A e \in (today + 1)..(d - 1) : ~TradingDay(h, e)

\* The search of _get_next_open finds the first trading day after today.
LEMMA NextOpenDayIsFirst ==
  ASSUME NEW h \in Calendars, NEW today \in 0..LastDay
  PROVE  /\ NextOpenDay(h, today) \in (today + 1)..(today + LongestBreak)
         /\ FirstAfter(h, today, NextOpenDay(h, today))
<1>1. LongestBreak \in Nat /\ LastDay \in Nat /\ today \in Nat
  BY MarketClockAssumption
<1> DEFINE S == {e \in (today + 1)..(today + LongestBreak) : TradingDay(h, e)}
<1>2. S # {}
  BY MarketClockAssumption
<1>3. S \in SUBSET Nat
  BY <1>1
<1>4. PICK m \in S : \A n \in S : m <= n
  BY <1>2, <1>3, LeastOfSet
<1>5. /\ m \in (today + 1)..(today + LongestBreak)
      /\ TradingDay(h, m) /\ \A e \in (today + 1)..(m - 1) : ~TradingDay(h, e)
  BY <1>1, <1>4
<1> QED
  BY <1>5 DEF NextOpenDay, FirstAfter

\* There is only one first trading day after today.
LEMMA FirstIsUnique ==
  ASSUME NEW h, NEW today \in Int, NEW d \in Int, NEW e \in Int, d > today, e > today,
         FirstAfter(h, today, d), FirstAfter(h, today, e)
  PROVE  d = e
BY DEF FirstAfter

\* What the search finds today, if it is tomorrow, and if it is not.
LEMMA NextOpenDayTomorrow ==
  ASSUME NEW h \in Calendars, NEW today \in 0..LastDay, today + 1 \in 0..LastDay
  PROVE  IF TradingDay(h, today + 1) THEN NextOpenDay(h, today) = today + 1
         ELSE NextOpenDay(h, today + 1) = NextOpenDay(h, today)
<1> DEFINE d == NextOpenDay(h, today)
           e == NextOpenDay(h, today + 1)
<1>1. LongestBreak \in Nat /\ LastDay \in Nat /\ today \in Nat
  BY MarketClockAssumption
<1>2. d \in Int /\ d > today /\ FirstAfter(h, today, d)
  BY <1>1, NextOpenDayIsFirst
<1>3. e \in Int /\ e > today + 1 /\ FirstAfter(h, today + 1, e)
  BY <1>1, NextOpenDayIsFirst
<1> HIDE DEF d, e
<1>4. CASE TradingDay(h, today + 1)
  <2>1. FirstAfter(h, today, today + 1)
    BY <1>1, <1>4 DEF FirstAfter
  <2>2. d = today + 1
    BY <1>1, <1>2, <2>1, FirstIsUnique
  <2> QED
    BY <1>4, <2>2 DEF d
<1>5. CASE ~TradingDay(h, today + 1)
  <2>1. FirstAfter(h, today, e)
    <3>1. \A k \in (today + 1)..(e - 1) : k = today + 1 \/ k \in (today + 1 + 1)..(e - 1)
      BY <1>1, <1>3
    <3> QED
      BY <1>3, <1>5, <3>1 DEF FirstAfter
  <2>2. e = d
    BY <1>1, <1>2, <1>3, <2>1, FirstIsUnique
  <2> QED
    BY <1>5, <2>2 DEF d, e
<1> QED
  BY <1>4, <1>5

\* The types of the variables.
ClockVarsOK ==
    /\ holidays \in Calendars /\ shift \in Shifts /\ put \in BOOLEAN
    /\ day \in 0..LastDay /\ time \in 0..(DAY - 1)

\* The time to the next event, spelled out.
LEMMA NextEventAhead ==
  ASSUME ClockVarsOK
  PROVE  /\ ToNextEvent \in Int /\ ToNextEvent > 0 /\ Status \in Statuses
         /\ Status \notin {"PRE_MARKET", "OPEN"} =>
              /\ ToNextEvent = NextOpenDay(holidays, day) * DAY + OPEN_TIME - Wall
              /\ ToNextEvent > OPEN_TIME
<1>1. /\ day \in 0..LastDay /\ LastDay \in Nat /\ LongestBreak \in Nat
      /\ day \in Nat /\ time \in 0..47 /\ holidays \in Calendars
  BY MarketClockAssumption DEF ClockVarsOK, DAY
<1>2. Status \in Statuses
  BY DEF Status, Statuses
<1>3. NextOpenDay(holidays, day) \in Int /\ NextOpenDay(holidays, day) >= day + 1
  BY <1>1, NextOpenDayIsFirst
<1>4. CASE Status = "PRE_MARKET"
  <2>1. time < 19
    BY <1>4 DEF Status, OPEN_TIME
  <2> QED
    BY <1>1, <1>2, <1>4, <2>1 DEF ToNextEvent, OPEN_TIME
<1>5. CASE Status = "OPEN"
  <2>1. time < 32
    BY <1>5 DEF Status, CLOSE_TIME
  <2> QED
    BY <1>1, <1>2, <1>5, <2>1 DEF ToNextEvent, CLOSE_TIME
<1>6. CASE Status \notin {"PRE_MARKET", "OPEN"}
  <2>1. ToNextEvent = NextOpenDay(holidays, day) * DAY + OPEN_TIME - Wall
    BY <1>6 DEF ToNextEvent
  <2> QED
    BY <1>1, <1>2, <1>3, <2>1 DEF DAY, OPEN_TIME, Wall
<1> QED
  BY <1>4, <1>5, <1>6

\* A wall-clock time is a day and a time of the day.
LEMMA DayAndTime ==
  ASSUME NEW d \in Nat, NEW t \in 0..47
  PROVE  (d * 48 + t) \div 48 = d /\ (d * 48 + t) % 48 = t
OBVIOUS

\* The clock on the wall goes on by half an hour, or by an hour more or less in the
\* night of the change, and only then does a day end.
LEMMA ClockAdvances ==
  ASSUME ClockVarsOK, ClockTicks
  PROVE  /\ ClockVarsOK' /\ holidays' = holidays
         /\ \/ /\ day' = day /\ time' = time + 1
            \/ /\ day' = day /\ time = 3 /\ time' \in {2, 6}
            \/ /\ day' = day + 1 /\ time = 47 /\ time' = 0
<1>1. /\ day \in Nat /\ LastDay \in Nat /\ day + 1 \in 0..LastDay /\ time \in 0..47
      /\ shift \in {-2, 0, 2}
  BY MarketClockAssumption DEF ClockVarsOK, ClockTicks, DAY
<1> DEFINE changes == day = ShiftDay /\ time + 1 = ShiftTime /\ ~put
           step == 1 + IF changes THEN shift ELSE 0
           wall == day * 48 + time + step
<1>2. day' = wall \div 48 /\ time' = wall % 48 /\ put' = (put \/ changes)
      /\ UNCHANGED <<holidays, shift>>
  BY <1>1 DEF ClockTicks, Wall, DAY
<1>3. step = 1 \/ (time = 3 /\ step \in {-1, 3})
  BY <1>1 DEF ShiftTime
<1> HIDE DEF step, wall
<1>4. CASE time + step < 48
  <2>1. time + step \in 0..47
    BY <1>1, <1>3, <1>4
  <2>2. day' = day /\ time' = time + step
    <3>1. wall = day * 48 + (time + step)
      BY <1>1, <1>3 DEF wall
    <3>2. wall \div 48 = day /\ wall % 48 = time + step
      BY <1>1, <2>1, <3>1, DayAndTime
    <3> QED
      BY <1>2, <3>2
  <2> QED
    BY <1>1, <1>2, <1>3, <2>1, <2>2 DEF ClockVarsOK, DAY
<1>5. CASE time + step = 48
  <2>1. time = 47 /\ day' = day + 1 /\ time' = 0
    <3>1. time = 47 /\ wall = (day + 1) * 48 + 0
      BY <1>1, <1>3, <1>5 DEF wall
    <3>2. wall \div 48 = day + 1 /\ wall % 48 = 0
      BY <1>1, <3>1, DayAndTime
    <3> QED
      BY <1>2, <3>1, <3>2
  <2> QED
    BY <1>1, <1>2, <2>1 DEF ClockVarsOK, DAY
<1> QED
  BY <1>1, <1>3, <1>4, <1>5

\* For every calendar and every change of the clock: the clock keeps its types, and the
\* next event always lies ahead.
THEOREM ClockIsTyped == ClockSpec => []ClockTypeOK
<1>1. ClockInit => ClockVarsOK
  <2>1. 0 \in 0..LastDay /\ 0 \in 0..(DAY - 1)
    BY MarketClockAssumption DEF DAY
  <2> QED
    BY <2>1 DEF ClockInit, ClockVarsOK
<1>2. ClockVarsOK /\ [ClockTicks]_clock => ClockVarsOK'
  BY ClockAdvances DEF clock, ClockVarsOK
<1>3. ClockVarsOK => ClockTypeOK
  BY NextEventAhead DEF ClockVarsOK, ClockTypeOK
<1> QED
  BY <1>1, <1>2, <1>3, PTL DEF ClockSpec

\* What the status says about a trading day, and the time to the next event.
LEMMA StatusOfDay ==
  ASSUME ClockVarsOK
  PROVE  /\ Status = IF ~TradingDay(holidays, day) THEN Status
                     ELSE IF time < 19 THEN "PRE_MARKET"
                     ELSE IF time < 32 THEN "OPEN" ELSE "POST_MARKET"
         /\ ~TradingDay(holidays, day) => Status \in {"CLOSED_HOLIDAY", "CLOSED_WEEKEND"}
         /\ ToNextEvent = IF Status = "PRE_MARKET" THEN 19 - time
                          ELSE IF Status = "OPEN" THEN 32 - time
                          ELSE NextOpenDay(holidays, day) * 48 + 19 - (day * 48 + time)
<1>1. TradingDay(holidays, day) <=> ~Weekend(day) /\ day \notin holidays
  BY DEF TradingDay
<1> QED
  BY <1>1 DEF Status, ToNextEvent, OPEN_TIME, CLOSE_TIME, DAY, Wall

\* The same, a step of the clock later.
LEMMA StatusOfDayNext ==
  ASSUME ClockVarsOK', holidays' = holidays
  PROVE  /\ Status' = IF ~TradingDay(holidays, day') THEN Status'
                      ELSE IF time' < 19 THEN "PRE_MARKET"
                      ELSE IF time' < 32 THEN "OPEN" ELSE "POST_MARKET"
         /\ ~TradingDay(holidays, day') => Status' \in {"CLOSED_HOLIDAY", "CLOSED_WEEKEND"}
         /\ ToNextEvent' = IF Status' = "PRE_MARKET" THEN 19 - time'
                           ELSE IF Status' = "OPEN" THEN 32 - time'
                           ELSE NextOpenDay(holidays, day') * 48 + 19 - (day' * 48 + time')
<1>1. TradingDay(holidays, day') <=> ~Weekend(day') /\ day' \notin holidays
  BY DEF TradingDay
<1> QED
  BY <1>1 DEF Status, ToNextEvent, OPEN_TIME, CLOSE_TIME, DAY, Wall

\* A step within a day keeps the announcement: its status is that of the day and the
\* time, and a change of the clock comes long before the market opens.
LEMMA SameDayKeeps ==
  ASSUME NEW t \in 0..47, NEW u \in 0..47, u = t + 1 \/ (t = 3 /\ u \in {2, 6}),
         NEW trading \in BOOLEAN, NEW ahead \in Nat, ahead >= 48 + 19 - 47, NEW was, NEW is,
         trading => /\ was = IF t < 19 THEN "PRE_MARKET" ELSE IF t < 32 THEN "OPEN" ELSE "POST_MARKET"
                    /\ is = IF u < 19 THEN "PRE_MARKET" ELSE IF u < 32 THEN "OPEN" ELSE "POST_MARKET",
         ~trading => {was, is} \subseteq {"CLOSED_HOLIDAY", "CLOSED_WEEKEND"},
         NEW T, T = IF was = "PRE_MARKET" THEN 19 - t ELSE IF was = "OPEN" THEN 32 - t ELSE ahead,
         NEW U, U = IF is = "PRE_MARKET" THEN 19 - u ELSE IF is = "OPEN" THEN 32 - u
                    ELSE ahead - (u - t)
  PROVE  IF T > u - t
         THEN (is = "OPEN" <=> was = "OPEN") /\ U = T - (u - t)
         ELSE T = u - t /\ (is = "OPEN" <=> was # "OPEN")
<1>1. u - t \in Int /\ u - t <= 3
  OBVIOUS
<1>2. CASE ~trading
  BY <1>1, <1>2
<1>3. CASE trading /\ t < 19
  BY <1>1, <1>3
<1>4. CASE trading /\ t >= 19
  BY <1>1, <1>4
<1> QED
  BY <1>2, <1>3, <1>4

\* The same of a step over midnight: the day that begins is the day announced, or the
\* announcement is still of the same day.
LEMMA MidnightKeeps ==
  ASSUME NEW h \in Calendars, NEW d \in 0..LastDay, d + 1 \in 0..LastDay,
         NEW was, was \notin {"PRE_MARKET", "OPEN"}, NEW is,
         IF TradingDay(h, d + 1) THEN is = "PRE_MARKET"
         ELSE is \in {"CLOSED_HOLIDAY", "CLOSED_WEEKEND"},
         NEW T, T = NextOpenDay(h, d) * 48 + 19 - (d * 48 + 47),
         NEW U, U = IF is = "PRE_MARKET" THEN 19
                    ELSE NextOpenDay(h, d + 1) * 48 + 19 - (d + 1) * 48
  PROVE  T > 1 /\ U = T - 1 /\ (is = "OPEN" <=> was = "OPEN")
<1>1. d \in Nat
  BY MarketClockAssumption
<1>2. /\ NextOpenDay(h, d) \in Int /\ NextOpenDay(h, d) >= d + 1
      /\ TradingDay(h, NextOpenDay(h, d))
  BY <1>1, NextOpenDayIsFirst, MarketClockAssumption DEF FirstAfter
<1>3. IF TradingDay(h, d + 1) THEN NextOpenDay(h, d) = d + 1
      ELSE NextOpenDay(h, d + 1) = NextOpenDay(h, d)
  BY NextOpenDayTomorrow
<1>4. is # "OPEN" /\ was # "OPEN"
  OBVIOUS
<1>5. CASE TradingDay(h, d + 1)
  <2>1. NextOpenDay(h, d) = d + 1 /\ U = 19
    BY <1>3, <1>5
  <2>2. T = 20
    BY <1>1, <2>1
  <2> QED
    BY <1>4, <2>1, <2>2
<1>6. CASE ~TradingDay(h, d + 1)
  <2>1. /\ NextOpenDay(h, d + 1) = NextOpenDay(h, d)
        /\ NextOpenDay(h, d) # d + 1
        /\ U = NextOpenDay(h, d + 1) * 48 + 19 - (d + 1) * 48
    BY <1>2, <1>3, <1>6
  <2>2. PICK n \in Int : n = NextOpenDay(h, d)
    BY <1>2
  <2>3. n >= d + 2 /\ T = n * 48 + 19 - (d * 48 + 47) /\ U = n * 48 + 19 - (d + 1) * 48
    BY <1>1, <1>2, <2>1, <2>2
  <2>4. T > 1 /\ U = T - 1
    BY <1>1, <2>3
  <2> QED
    BY <1>4, <2>4
<1> QED
  BY <1>5, <1>6

\* What is announced in the status was, half hours before the market opens or closes.
Announced(was, h, d, t) ==
    /\ was = IF ~TradingDay(h, d) THEN was
             ELSE IF t < 19 THEN "PRE_MARKET" ELSE IF t < 32 THEN "OPEN" ELSE "POST_MARKET"
    /\ ~TradingDay(h, d) => was \in {"CLOSED_HOLIDAY", "CLOSED_WEEKEND"}

HalfHours(was, h, d, t) ==
    IF was = "PRE_MARKET" THEN 19 - t ELSE IF was = "OPEN" THEN 32 - t
    ELSE NextOpenDay(h, d) * 48 + 19 - (d * 48 + t)

\* Every step of the clock, as a fact about days and times.
LEMMA StepKeeps ==
  ASSUME NEW h \in Calendars, NEW d \in 0..LastDay, NEW e \in 0..LastDay,
         NEW t \in 0..47, NEW u \in 0..47,
         \/ e = d /\ (u = t + 1 \/ (t = 3 /\ u \in {2, 6}))
         \/ e = d + 1 /\ t = 47 /\ u = 0,
         NEW was, Announced(was, h, d, t), NEW is, Announced(is, h, e, u),
         NEW T, T = HalfHours(was, h, d, t), NEW U, U = HalfHours(is, h, e, u),
         NEW passed, passed = (e * 48 + u) - (d * 48 + t)
  PROVE  IF T > passed
         THEN (is = "OPEN" <=> was = "OPEN") /\ U = T - passed
         ELSE T = passed /\ (is = "OPEN" <=> was # "OPEN")
<1>1. d \in Nat /\ NextOpenDay(h, d) \in Int /\ NextOpenDay(h, d) >= d + 1
  BY NextOpenDayIsFirst, MarketClockAssumption
<1>2. TradingDay(h, d) \in BOOLEAN /\ TradingDay(h, e) \in BOOLEAN
  BY DEF TradingDay, Weekend
<1>3. CASE e = d /\ (u = t + 1 \/ (t = 3 /\ u \in {2, 6}))
  <2> DEFINE ahead == NextOpenDay(h, d) * 48 + 19 - (d * 48 + t)
  <2>1. ahead \in Nat /\ ahead >= 48 + 19 - 47
    BY <1>1
  <2>2. passed = u - t
    BY <1>1, <1>3
  <2>3. NextOpenDay(h, e) * 48 + 19 - (e * 48 + u) = ahead - (u - t)
    BY <1>1, <1>3
  <2>4. T = IF was = "PRE_MARKET" THEN 19 - t ELSE IF was = "OPEN" THEN 32 - t ELSE ahead
    BY DEF HalfHours
  <2> HIDE DEF ahead
  <2>5. U = IF is = "PRE_MARKET" THEN 19 - u ELSE IF is = "OPEN" THEN 32 - u
            ELSE ahead - (u - t)
    BY <2>3 DEF HalfHours
  <2>6. /\ TradingDay(h, d) =>
              /\ was = IF t < 19 THEN "PRE_MARKET" ELSE IF t < 32 THEN "OPEN" ELSE "POST_MARKET"
              /\ is = IF u < 19 THEN "PRE_MARKET" ELSE IF u < 32 THEN "OPEN" ELSE "POST_MARKET"
        /\ ~TradingDay(h, d) => {was, is} \subseteq {"CLOSED_HOLIDAY", "CLOSED_WEEKEND"}
    BY <1>3 DEF Announced
  <2>7. IF T > u - t
        THEN (is = "OPEN" <=> was = "OPEN") /\ U = T - (u - t)
        ELSE T = u - t /\ (is = "OPEN" <=> was # "OPEN")
    BY <1>2, <1>3, <2>1, <2>4, <2>5, <2>6, SameDayKeeps
  <2> QED
    BY <2>2, <2>7
<1>4. CASE e = d + 1 /\ t = 47 /\ u = 0
  <2>1. passed = 1
    BY <1>1, <1>4
  <2>2. was \notin {"PRE_MARKET", "OPEN"}
    BY <1>2, <1>4 DEF Announced
  <2>3. T = NextOpenDay(h, d) * 48 + 19 - (d * 48 + 47)
    BY <1>4, <2>2 DEF HalfHours
  <2>4. IF TradingDay(h, d + 1) THEN is = "PRE_MARKET"
        ELSE is \in {"CLOSED_HOLIDAY", "CLOSED_WEEKEND"}
    BY <1>2, <1>4 DEF Announced
  <2>5. U = IF is = "PRE_MARKET" THEN 19
            ELSE NextOpenDay(h, d + 1) * 48 + 19 - (d + 1) * 48
    <3>1. (d + 1) * 48 + 0 = (d + 1) * 48 /\ 19 - 0 = 19
      BY <1>1
    <3> QED
      BY <1>2, <1>4, <2>4, <3>1 DEF HalfHours
  <2>6. T > 1 /\ U = T - 1 /\ (is = "OPEN" <=> was = "OPEN")
    BY <1>4, <2>2, <2>3, <2>4, <2>5, MidnightKeeps
  <2> QED
    BY <2>1, <2>6
<1> QED
  BY <1>3, <1>4

\* A step of the clock keeps the announcement.
LEMMA TickKeepsAnnouncement ==
  ASSUME ClockVarsOK, ClockTicks
  PROVE  LET passed == Wall' - Wall IN
         IF ToNextEvent > passed
         THEN NextEvent' = NextEvent /\ ToNextEvent' = ToNextEvent - passed
         ELSE ToNextEvent = passed /\ (Status' = "OPEN" <=> NextEvent = "OPEN")
<1>1. /\ ClockVarsOK' /\ holidays' = holidays
      /\ \/ /\ day' = day /\ time' = time + 1
         \/ /\ day' = day /\ time = 3 /\ time' \in {2, 6}
         \/ /\ day' = day + 1 /\ time = 47 /\ time' = 0
  BY ClockAdvances
<1>2. /\ holidays \in Calendars /\ day \in 0..LastDay /\ day' \in 0..LastDay
      /\ time \in 0..47 /\ time' \in 0..47
  BY <1>1 DEF ClockVarsOK, DAY
<1>3. Announced(Status, holidays, day, time)
  BY StatusOfDay DEF Announced
<1>4. Announced(Status', holidays, day', time')
  BY <1>1, StatusOfDayNext DEF Announced
<1>5. ToNextEvent = HalfHours(Status, holidays, day, time)
  BY StatusOfDay DEF HalfHours
<1>6. ToNextEvent' = HalfHours(Status', holidays, day', time')
  BY <1>1, StatusOfDayNext DEF HalfHours
<1>7. Wall' - Wall = (day' * 48 + time') - (day * 48 + time)
  BY DEF Wall, DAY
<1>8. IF ToNextEvent > Wall' - Wall
      THEN (Status' = "OPEN" <=> Status = "OPEN") /\ ToNextEvent' = ToNextEvent - (Wall' - Wall)
      ELSE ToNextEvent = Wall' - Wall /\ (Status' = "OPEN" <=> Status # "OPEN")
  BY <1>1, <1>2, <1>3, <1>4, <1>5, <1>6, <1>7, StepKeeps
<1> QED
  BY <1>8 DEF NextEvent

\* For every calendar and every change of the clock, over nights, weekends and any run
\* of holidays: what get_status announces comes when it was said to.
THEOREM AnnouncementsHold == ClockSpec => AnnouncementHolds
<1>1. ClockInit => ClockVarsOK
  <2>1. 0 \in 0..LastDay /\ 0 \in 0..(DAY - 1)
    BY MarketClockAssumption DEF DAY
  <2> QED
    BY <2>1 DEF ClockInit, ClockVarsOK
<1>2. ClockVarsOK /\ [ClockTicks]_clock => ClockVarsOK'
  BY ClockAdvances DEF clock, ClockVarsOK
<1>3. ClockVarsOK /\ [ClockTicks]_clock
        => [LET passed == Wall' - Wall IN
            IF ToNextEvent > passed
            THEN NextEvent' = NextEvent /\ ToNextEvent' = ToNextEvent - passed
            ELSE ToNextEvent = passed /\ (Status' = "OPEN" <=> NextEvent = "OPEN")]_clock
  BY TickKeepsAnnouncement
<1> QED
  BY <1>1, <1>2, <1>3, PTL DEF ClockSpec, AnnouncementHolds
=============================================================================
