------------------------------ MODULE MarketClock ------------------------------
(***************************************************************************)
(* The trading hours of market_clock.py: the status that get_status gives, *)
(* the next event it announces and how far away it says that is, while the *)
(* clock on the wall in New York goes on, summer time included.            *)
(*                                                                         *)
(* All arithmetic of the module is on wall-clock times: pytz adds days     *)
(* without a look at the offset, and two times of one zone are subtracted  *)
(* as they stand.  Day 0 is a Monday; a day has 48 half hours.             *)
(***************************************************************************)
EXTENDS Integers

CONSTANTS
    Calendars,     \* sets of holidays that may be in HOLIDAYS
    LongestBreak,  \* bound: the days up to the next trading day, at most
    Shifts,        \* by how much the clock may be put forward (or back)
    ShiftDay,      \* the Sunday on which it is
    LastDay        \* bound: the clock stops there

DAY == 48
OPEN_TIME == 19
CLOSE_TIME == 32
ShiftTime == 4

VARIABLES
    holidays,  \* HOLIDAYS
    shift, put, \* the change of the clock of this year, and whether it was made
    day, time  \* the clock on the wall

clock == <<holidays, shift, put, day, time>>

Wall == day * DAY + time
-----------------------------------------------------------------------------
(* get_status *)

Weekend(d) == d % 7 >= 5
TradingDay(calendar, d) == ~Weekend(d) /\ d \notin calendar

\* The table of holidays is finite: after every day there is a trading day.
ASSUME MarketClockAssumption ==
    /\ \A h \in Calendars : h \subseteq Nat
    /\ Shifts \subseteq {-2, 0, 2} /\ ShiftDay \in Nat
    /\ LastDay \in Nat /\ LongestBreak \in Nat
    /\ \A h \in Calendars, d \in 0..LastDay :
         \E e \in (d + 1)..(d + LongestBreak) : TradingDay(h, e)

Status ==
    IF day \in holidays THEN "CLOSED_HOLIDAY"
    ELSE IF Weekend(day) THEN "CLOSED_WEEKEND"
    ELSE IF time < OPEN_TIME THEN "PRE_MARKET"
    ELSE IF time < CLOSE_TIME THEN "OPEN" ELSE "POST_MARKET"

NextEvent == IF Status = "OPEN" THEN "CLOSE" ELSE "OPEN"

\* The search begins today.
OpenFromToday(calendar, today) ==
    CHOOSE d \in today..(today + LongestBreak) :
        TradingDay(calendar, d) /\ \A e \in today..(d - 1) : ~TradingDay(calendar, e)

\* First the weekend is passed, then at most one holiday.
OpenAfterWeekend(calendar, today) ==
    LET d == CHOOSE d \in (today + 1)..(today + 3) :
                 ~Weekend(d) /\ \A e \in (today + 1)..(d - 1) : Weekend(e)
    IN  IF d \in calendar THEN d + 1 ELSE d

\* _get_next_open: the first day after today that is neither.
NextOpenDay(calendar, today) ==
    CHOOSE d \in (today + 1)..(today + LongestBreak) :
        TradingDay(calendar, d) /\ \A e \in (today + 1)..(d - 1) : ~TradingDay(calendar, e)

\* seconds_to_next_event, here in half hours.
ToNextEvent ==
    CASE Status = "PRE_MARKET" -> OPEN_TIME - time
      [] Status = "OPEN" -> CLOSE_TIME - time
      [] OTHER -> NextOpenDay(holidays, day) * DAY + OPEN_TIME - Wall
-----------------------------------------------------------------------------
ClockInit ==
    /\ holidays \in Calendars /\ shift \in Shifts /\ put = FALSE
    /\ day = 0 /\ time = 0

\* Half an hour passes; on one night the clock is put forward or back.
ClockTicks ==
    /\ day < LastDay
    /\ LET changes == day = ShiftDay /\ time + 1 = ShiftTime /\ ~put
           wall == Wall + 1 + IF changes THEN shift ELSE 0
       IN  day' = wall \div DAY /\ time' = wall % DAY /\ put' = (put \/ changes)
    /\ UNCHANGED <<holidays, shift>>

ClockSpec == ClockInit /\ [][ClockTicks]_clock
-----------------------------------------------------------------------------
Statuses == {"CLOSED_HOLIDAY", "CLOSED_WEEKEND", "PRE_MARKET", "OPEN", "POST_MARKET"}

\* Types of the variables; the next event always lies ahead.
ClockTypeOK ==
    /\ holidays \in Calendars /\ shift \in Shifts /\ put \in BOOLEAN
    /\ day \in 0..LastDay /\ time \in 0..(DAY - 1)
    /\ Status \in Statuses /\ ToNextEvent > 0

\* The announcement holds: the time to the next event falls by exactly what the
\* clock on the wall advances, over nights, weekends and runs of holidays, and when
\* it is over the market opens or closes as was said (market_clock.py 74-143).
\* (In real time it is off by an hour while a change of the clock lies ahead.)
AnnouncementHolds ==
    [][LET passed == Wall' - Wall IN
       IF ToNextEvent > passed
       THEN NextEvent' = NextEvent /\ ToNextEvent' = ToNextEvent - passed
       ELSE ToNextEvent = passed /\ (Status' = "OPEN" <=> NextEvent = "OPEN")]_clock
=============================================================================
