---------------------------- MODULE HistoryRequest ----------------------------
(***************************************************************************)
(* How much of a download the node asks the gateway for: the chunks of     *)
(* downloader.py are windows of time, but a request to the gateway         *)
(* (gateway_client.py, request_historical_bars) names its end and a        *)
(* duration in whole days, weeks, months or years.  And the newest bar,    *)
(* from which the next download goes on, has the wall-clock time of its    *)
(* exchange, stored as if it were UTC.                                     *)
(*                                                                         *)
(* One series, every download of which succeeds, chunk by chunk.  The time *)
(* is counted in slots as in ChunkPlan, of which DAY make a day; the       *)
(* market is always open and has a bar in every slot, so that a slot which *)
(* is not asked for is a bar that is missed.                               *)
(***************************************************************************)
EXTENDS ChunkPlan, Sequences

CONSTANTS
    DAY,           \* slots of a day (86400 in the code)
    Timeframes,    \* the time frames tried
    Skews,         \* how far the time of the exchange may be ahead of UTC, in slots
    Gaps,          \* how long nothing may be downloaded, in slots
    MaxDownloads   \* bound: how many downloads there are

\* In days, as the node has them.
CHUNK_DURATION ==
    [1m |-> 1, 5m |-> 7, 15m |-> 14, 30m |-> 14, 1h |-> 30, 4h |-> 90,
     1D |-> 365, 1W |-> 5 * 365, 1M |-> 10 * 365]
MAX_HISTORY_LOOKBACK ==
    [1m |-> 30, 5m |-> 90, 15m |-> 180, 30m |-> 180, 1h |-> 365, 4h |-> 2 * 365,
     1D |-> 20 * 365, 1W |-> 20 * 365, 1M |-> 20 * 365]

Units == <<"Y", "M", "W", "D">>
DaysOf == [Y |-> 365, M |-> 30, W |-> 7, D |-> 1]

ASSUME HistoryRequestAssumption ==
    /\ DAY \in Nat \ {0} /\ MaxDownloads \in Nat
    /\ Timeframes \subseteq DOMAIN CHUNK_DURATION
    /\ Skews \subseteq -DAY .. DAY /\ Gaps \subseteq Nat \ {0}

VARIABLES
    timeframe, skew, \* of the series
    now,             \* the clock
    newest,          \* the newest bar there is, in real time; none before the first download
    plan,            \* the chunks still to be asked for, newest first
    edge,            \* the oldest slot the download in hand has brought so far
    downloads,       \* counter of the bound
    \* history variables, for the properties only
    lost,            \* slots that the download in hand has left out
    grain,           \* the unit its newest chunk was asked for in, in slots
    slack,           \* two days for each of its chunks that was asked for in months
    daily            \* since the first download no more than a day passed untried

vars == <<timeframe, skew, now, newest, plan, edge, downloads, lost, grain, slack, daily>>

ChunkSize == CHUNK_DURATION[timeframe] * DAY
Lookback == MAX_HISTORY_LOOKBACK[timeframe] * DAY

Duration == [count : Nat \ {0}, unit : {"Y", "M", "W", "D"}]

\* Whole weeks of what is not a whole year.
WeeksAndYears(seconds, tf) ==
    LET unit == IF seconds >= 365 * DAY THEN "Y" ELSE IF seconds >= 7 * DAY THEN "W" ELSE "D"
        whole == seconds \div (DaysOf[unit] * DAY)
    IN  [count |-> IF whole >= 1 THEN whole ELSE 1, unit |-> unit]

\* No less than what is left of the day.
DurationWithoutMinimum(seconds, tf) ==
    LET whole(unit) == seconds \div (DaysOf[unit] * DAY)
        units == IF tf = "1M" THEN {1} ELSE {k \in 1..4 : whole(Units[k]) >= 1 \/ k = 4}
        unit == Units[CHOOSE k \in units : \A l \in units : k <= l]
    IN  [count |-> whole(unit), unit |-> unit]

\* _seconds_to_duration: the largest unit of which the window holds a whole one,
\* rounded down; at least one day, and for the bars of a month at least one year.
ToDuration(seconds, tf) ==
    LET whole(unit) == seconds \div (DaysOf[unit] * DAY)
        units == IF tf = "1M" THEN {1} ELSE {k \in 1..4 : whole(Units[k]) >= 1 \/ k = 4}
        unit == Units[CHOOSE k \in units : \A l \in units : k <= l]
    IN  [count |-> IF whole(unit) >= 1 THEN whole(unit) ELSE 1, unit |-> unit]

\* The fewest days that one to twelve successive months of the calendar have.  The
\* most are three more, and one more for the year.
ShortestMonths == <<28, 59, 89, 120, 150, 181, 212, 242, 273, 303, 334, 365>>

\* What the gateway may take a duration for, in days: it counts months and years by
\* the calendar, back from the end that is asked for.
Days(d) ==
    CASE d.unit = "Y" -> 365 * d.count + (d.count \div 4) .. 365 * d.count + ((d.count + 3) \div 4)
      [] d.unit = "M" -> ShortestMonths[d.count] ..
                           ShortestMonths[d.count] + (IF d.count = 12 THEN 1 ELSE 3)
      [] OTHER        -> {d.count * DaysOf[d.unit]}

DurationOf(chunk) == ToDuration(chunk.end_ts - chunk.start_ts, timeframe)

\* The oldest slots a request for a chunk may bring, its end being the newest.
AskedFrom(chunk) == {chunk.end_ts - days * DAY : days \in Days(DurationOf(chunk))}

\* By how much the calendar may fall short of months of thirty days.
Slack(chunk) == IF DurationOf(chunk).unit = "M" THEN 2 * DAY ELSE 0

Positive(n) == IF n > 0 THEN n ELSE 0
-----------------------------------------------------------------------------
Init ==
    /\ timeframe \in Timeframes /\ skew \in Skews
    /\ now = Lookback /\ newest = -1
    /\ plan = <<>> /\ edge = now + 1 /\ downloads = 0
    /\ lost = 0 /\ grain = 0 /\ slack = 0 /\ daily = TRUE

\* _bar_date_to_timestamp: the wall-clock time of the exchange, taken for UTC.
Stored(slot) == slot + skew

\* The day after the day of the newest bar.
StartNextDay == IF newest = -1 THEN now - Lookback ELSE Stored(newest) + DAY

\* The delta begins after the newest stored bar.
Start == IF newest = -1 THEN now - Lookback ELSE Stored(newest) + 1

Chunks == CalculateChunks(Start, now, ChunkSize)
UpToDate == newest # -1 /\ Chunks = <<>>

\* _process_request plans a download.
Plan ==
    /\ plan = <<>> /\ downloads < MaxDownloads /\ ~UpToDate
    /\ plan' = Chunks
    /\ downloads' = downloads + 1
    /\ edge' = plan'[1].end_ts + 1 /\ lost' = 0 /\ slack' = 0
    /\ grain' = DaysOf[DurationOf(plan'[1]).unit] * DAY
    /\ UNCHANGED <<timeframe, skew, now, newest, daily>>

\* The oldest slot that was missing before the download in hand.
Missing == IF newest = -1 THEN now - Lookback ELSE newest + 1

\* A chunk is asked for, and every slot of the duration comes in.  What lies between
\* it and the chunk before is left out, and after the last one what lies before it.
RequestBars ==
    /\ plan # <<>>
    /\ \E asked \in AskedFrom(Head(plan)) :
         LET chunk  == Head(plan)
             oldest == IF asked < edge THEN asked ELSE edge
             last   == Len(plan) = 1
         IN  /\ lost' = lost + Positive((edge - 1) - chunk.end_ts)
                             + IF last THEN Positive(oldest - Missing) ELSE 0
             /\ edge' = oldest
             /\ newest' = IF last THEN Chunks[1].end_ts ELSE newest
             /\ slack' = slack + Slack(chunk)
    /\ plan' = Tail(plan)
    /\ UNCHANGED <<timeframe, skew, now, downloads, grain, daily>>

\* The series was tried, and nothing happens for a while.
Wait(gap) ==
    /\ plan = <<>> /\ (newest >= now - 1 \/ UpToDate)
    /\ downloads < MaxDownloads /\ now - newest <= DAY
    /\ now' = now + gap
    /\ daily' = (daily /\ gap <= DAY)
    /\ UNCHANGED <<timeframe, skew, newest, plan, edge, downloads, lost, grain, slack>>

Next == Plan \/ RequestBars \/ \E gap \in Gaps : Wait(gap)

Spec == Init /\ [][Next]_vars
-----------------------------------------------------------------------------
\* Types of the variables; a duration is never zero.
TypeOK ==
    /\ timeframe \in Timeframes /\ skew \in Skews
    /\ now \in Nat /\ newest \in -1..now
    /\ \A k \in DOMAIN plan :
        /\ plan[k] \in Chunk
        /\ DurationOf(plan[k]) \in Duration
    /\ edge \in Int /\ edge <= now + 1
    /\ downloads \in 0..MaxDownloads
    /\ lost \in Nat /\ grain \in Nat /\ slack \in Nat /\ daily \in BOOLEAN

\* Rounding the duration down costs a download less than one of the units in
\* which its newest chunk is asked for, and two days for each chunk that is asked for
\* in months: a full chunk behind it is asked for whole in days, weeks and years, and
\* but for what its months are shorter than thirty days; what lies between two chunks
\* is not forgotten (downloader.py 34-59 and gateway_client.py 288-307 have to fit).
LossIsBounded ==
    plan = <<>> /\ downloads > 0 => lost < grain + slack + Positive(skew)

\* A node that tries a series at least once a day leaves nothing out, although
\* the stored times are behind UTC: a delta is never asked for with less than a
\* day.  (Ahead of UTC the node may find itself up to date with bars that are missing.)
DailyLosesNothing ==
    plan = <<>> /\ downloads > 1 /\ daily /\ skew <= 0 => lost = 0

\* "Downloads historical bars for a given contract and time window"
\* (gateway_client.py 194): a download asks for all that was missing.
WindowAskedWhole == plan = <<>> => lost = 0
=============================================================================
