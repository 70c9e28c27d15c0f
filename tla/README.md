# Stock data node: specification, model checking and proofs

The stock data node is a small Python service (asyncio, FastAPI, `ib_insync`,
`pyarrow`) that downloads historical price bars from an Interactive Brokers
gateway and keeps them in parquet files that a dashboard reads. This directory
holds TLA+ models of it, TLC configurations, and theorems proved with TLAPS.

Line numbers below are those of the files under `src/src/` unless another path is given.

## 1. The system

### Components

| component | code | state | operations | what makes it correct |
|---|---|---|---|---|
| downloader | `downloader.py` | `_running`; per request: plan of chunks, bars so far, status | `run_loop`, `stop`, `_process_request`, `_calculate_chunks`, `_download_chunk`, `classify_error` | every request ends, once, in order of urgency; hardly anything is fetched twice; nothing is left out without a cause |
| priority queue | `priority_queue.py`, `DownloadRequest` of `models.py` | a heap | `enqueue`, `dequeue`, `has_higher_priority_waiting` | API before watcher, FIFO within a priority, also for requests that were put back |
| rate limiter | `rate_limiter.py` | base and current delay, time of the last request, semaphore | `configure`, `acquire`, `report_success`, `report_pacing_error` | no request before its delay has passed; the delay stays between base and maximum |
| parquet writer | `parquet_writer.py` | one file per ticker and timeframe, and its `.tmp` | `append_bars`, `read_last_timestamp`, `validate_parquet` | a reader finds the old or the new bars, whatever step the node dies at |
| startup checks | `startup_checks.py` | list of corrupt tickers, `_recovery.txt` | `run_all_checks` | no unreadable file survives a start; what was deleted is downloaded again |
| failed ticker store | `failed_ticker_store.py` | `failed_ticker.json` | `is_blacklisted`, `add`, `remove` | edits of the node and of the user are both kept |
| configuration loader | `config_loader.py` | ticker map, modification times, `timeframes.json` per ticker | `reload_if_changed`, `register_unmapped_ticker`, `add_timeframe_to_ticker` | a change on disk takes effect; the changes of node and user add up |
| ticker resolver | `ticker_resolver.py` | none | `resolve` | a blacklisted or skipped ticker is never downloaded |
| REST API | `api_server.py` | none | `POST /download`, `POST /trigger-staleness`, `GET /status`, `/health` | what was answered "queued" is in the queue, daily bars first |
| file watcher | `file_watcher.py` | watch files | `scan_once` | each ticker of a file is asked for, and the file then goes |
| gateway client | `gateway_client.py` | connection, market data type | `connect`, `disconnect`, `request_historical_bars`, ... | the window asked for is the window that is missing |
| entry point | `main.py` | the tasks | start, watcher loop, API server, shutdown | the order of a start; a stop reaches the loop |
| market clock | `market_clock.py` | none (a table of holidays) | `get_status` | the next opening or closing comes when it was announced; no other part calls it yet |
| not called | `staleness.py`, `run_logger.py`, `check_year_coverage`, `qualify_contracts_batch` | - | - | no other part of the node uses them |

### How they interact

One process, one event loop. Four tasks are gathered in `main.py`: the download
loop, the file watcher (a timer of a few seconds), the API server and the
shutdown watcher. They share the queue, the blacklist file, the ticker map and
the parquet files. Code between two awaits is atomic for the other tasks; the
download loop awaits in `asyncio.sleep` (empty queue, lost link), in
`rate_limiter.acquire`, and for the gateway. The API handlers, `scan_once`,
`append_bars` and the startup checks contain no await. Outside the process, and
at any time: the user edits `ticker_map.json`, `failed_ticker.json` and the watch
files, a dashboard reads parquet files, the gateway's link drops, the container
dies and is restarted (`restart: unless-stopped` in `docker-compose.yml`).

### What is hard

* The plan of a download is made once, from the stored bars and the clock, and
  is worked off over many awaits, in which other requests, also for the same
  series, come in; a preemption throws the rest of the plan away.
* Five error paths set the status of a request, and two of them are at the retry
  after a pacing error.
* Files are written by a process that may die between any two steps while others
  read them; the recovery of a corrupt file spans a restart, a file and the
  in-memory queue.
* Files edited by a user and rewritten by the node; copies of them in memory, kept
  current by a modification time.
* Three ways of counting time: seconds (the plan), whole days, weeks, months and
  years (the request to the gateway), and the wall clock of an exchange (the bars).

`PROJECT.json` lists each hazard at its line, with the property that covers it
or the reason why none does yet.

## 2. The modules

```
ChunkPlan                      the plan of a download
    |--- ChunkLoop             the loop that builds it            ChunkLoopProofs
    |--- HistoryRequest        what the gateway is asked for      HistoryRequestProofs
    |--- Downloader            the loop, its queue, the user,     DownloaderProofs
    |       |                  the gateway, the clock
    |       |--- WorkQueue     what the queue promises (abstract; Downloader implements it)
    |       '--- TickerLists   what the blacklist and the ticker map promise
    |                          (abstract; Downloader and Intake both implement it)
    '--- ChunkPlanProofs       lemmas, used by the three proof modules above
RateLimiter                    delays between two calls           TimingProofs
ParquetStore                   the files, over several lives      ParquetStoreProofs
    '--- BarStore              what a reader finds (abstract; ParquetStore implements it)
Intake                         the ways into the queue            IntakeProofs
    '--- TickerLists           (see above)
ConfigFiles                    the JSON files, step by step       ConfigFilesProofs
MarketClock                    the trading hours                  TimingProofs
MC...                          the instances for TLC
```

**ChunkPlan** is `_calculate_chunks` (297-336) as a closed form: how many chunks
there are, the bounds of the k-th, newest first. Time is counted in *slots*: one
slot is a second of the code and, in the small instances, the place of a bar.
**ChunkLoop** is the same function as the `while` loop the code has, one action
per pass, and is compared with the closed form.

**Downloader** models `run_loop` and `_process_request` (116-295) at the grain of
their awaits. `pc` names the await (or the stretch of code) the loop is at;
`cur`, `plan`, `got` are the request in hand, the chunks still to do and
`total_bars > 0`. The heap is the set `queue`; a request's number is its
`created_at`, so that `Before` is `__lt__`. One action stands for one way
from an await to the next: `RequeueDisconnected`, `UpToDate`, `StartRequest`,
`Preempt`, `PaceChunk`, `AnswerBars`, `AnswerPacing`, `AnswerSkipped`,
`AnswerQualifyFailed`, ... Each holds all that the code does on that way,
`append_bars`, the blacklist and the ticker map included. The other tasks
(`Accept`, `ApiRejects`, `Stop`) run only while the loop awaits (`OthersRun`);
the clock, the link and the user run at any time. An error of the gateway is its
category (`classify_error`). An answer ends where its chunk ends and is not confined to it,
for the gateway is asked for an end and a duration in whole units (`gateway_client.py` 213-234,
288-307): `OldestBars` has it begin where the chunk begins, later (the duration is rounded
down), or up to `Overreach` slots before (at least a day, or a year for the bars of a month, is asked for, and months and
years are those of the calendar), in slots that a chunk still planned stands for too; or it is empty.
`append_bars` merges by time, so that what comes twice is stored once. `abandoned`, `refused` and `overtakes`
are history variables. `register_unmapped_ticker` is one step for the node's other tasks and so
it is here; a save of the user between its read and its write (`config_loader.py` 96, 107) is overwritten, which
is a matter of `ConfigFiles`.

**WorkQueue** is the abstract queue: requests wait, are active, settled or lost.

**TickerLists** is the contract about `failed_ticker.json` and `ticker_map.json`, without queue,
files or gateway: only what both lists let through is asked for (`Ask`); a ticker is blacklisted
by a refusal of something asked for (`Refuse`) or because the map excludes it (`Reject`), and leaves
the blacklist by bars (`Recover`) or by the user; the map is added to only where it has no entry. `Downloader`
sees the end of a download from inside, `Intake` from outside, and each is shown to implement it: `asked` is
the series of the requests queued or in hand in the one, the queue in the other. So the one
step in which `Intake` abstracts a whole download keeps the same contract as the loop it stands for.

**HistoryRequest** takes the plan of `ChunkPlan` to the gateway: `request_historical_bars`
names the end of a chunk and a duration that `_seconds_to_duration` (288-307) rounds to whole
units, `_bar_date_to_timestamp` (257-285) keeps the wall clock of the exchange as if it were
UTC (`Stored`), and the next delta begins after that (`Start`). The gateway counts months and years
by the calendar: `Days` is the set of what a duration may mean, 28 to 31 days for a month, 89 to 92 for three, and each chunk may get
any of them. `Plan` makes a download,
`RequestBars` asks for one chunk after the other, `Wait` lets the clock run. The tables
`CHUNK_DURATION` and `MAX_HISTORY_LOOKBACK` are those of the code. `lost` counts what
was missing and not asked for; `grain` is the unit in which the newest chunk was; `slack` adds up
two days for each chunk asked for in months, by as much as months may be shorter than thirty days each.

**RateLimiter** models `acquire` with the semaphore and the sleep, and the two
reports. Time is relative (since the last request), so nothing is unbounded.

**ParquetStore** models the files over several lives of the node: `append_bars`
as merge, begin of the temporary file, its end, rename (61-122); the integrity
check file by file; the recovery file as truncation and content; its way through
the watcher into the queue; `Exit` between any two of these, and `Damage` from
outside at any time. The watcher asks for what the resolver and `timeframes.json` let through and deletes the file all the
same (`file_watcher.py` 88-120): `Scan` has for parameters which tickers are turned away and which series
are listed, and `ScanAny` takes any. With a ticker map that does not parse (`UserEdits`) it
raises unless every ticker is on the blacklist. **BarStore** is what a reader may rely on.

**Intake** models the ways into the queue. A pass of `scan_once` (51-71) is a
sequence of steps: the list of files (`ScanBegin`), the read of one (`ReadFile`), one
step per ticker (`EnqueueTicker`, `SkipTicker`, or `ScanRaises` for an exception, which
leaves the file), and the deletion by name of whatever the file holds by then (`Cleanup`).
The handlers of the API and the downloads run only between two scans (`pc = "idle"`), since
none of them awaits; the user writes and deletes files between any two steps.
`trigger_staleness` is a scan that goes on with the directories of the data.
`resolve` is `Resolves`, `Skipped` and `Raises`: blacklist, ticker map, default contract.
The queue is the set of series asked for, and a download is its end (`Delivers`,
`Refuses`, `RefusesAfterBars` for a refusal after earlier chunks brought bars, `EndsWithout`, which may
be an exception after bars, as in `Downloader`). `ApiBreaksOff` is a handler that an exception, or the end
of the process, leaves in the middle of `add_timeframe_to_ticker` (`config_loader.py` 77-88): with some of the time frames
added, or with a `timeframes.json` that was just emptied and counts as the default. `wish`, `due`, `late`, `refused` and
`healed` are history variables: what becomes of each ticker the user filed, which tickers the gateway refused
since the user stepped in, and which of them bars took off the blacklist since (`downloader.py` 284-286).

**ConfigFiles** takes the node's changes of `ticker_map.json`, `failed_ticker.json` and
`timeframes.json` apart: `Read`, `Truncate` (`open(path, "w")`: every entry is gone from here on), `Dump` (or `DumpFails`, an
exception of the writing), and for the
map `LoadWritten` and `Stamp`, the modification time that is taken only after the file has been
read (`config_loader.py` 205). `Reload` is `reload_if_changed`, `LoopDies` what a file that does not parse
does to the loop, `Exit` and `Start` may come between any two steps, and so may a save of the
user (`UserSets`, `UserBreaks`, `UserRepairs`), with two exceptions: a save is one step, and it
does not fall between `Truncate` and `Dump`. For the node's own tasks a job
is one step, since none of them awaits in it: `Begin` and `Reload` ask for `pc = "idle"`. `agreed`,
`missed`, `spoiled` and `cut` are history variables: what the changes of both sides add up to, and the files
that were saved before their modification time was noted, were overwritten unread, or were emptied for a writing that
did not come.

**MarketClock** is `get_status` and `_get_next_open` as functions of the wall clock in New York,
which goes on by the half hour and may be put forward or back one night.

The MC modules give the constants of an instance. The mutated forms that stand
before some actions (their comments say what each gets wrong) are used by no
specification; they show that the properties notice such mistakes.

## 3. What the runs check

| run | instance | what it shows |
|---|---|---|
| `chunk_loop` | clock to slot 7, chunk size to 4, lookback to 9, every last bar | The loop returns the plan of `ChunkPlan`: newest first, disjoint, covering the range up to the slot before now. (The docstring says up to now; a range that ends one slot after a chunk leaves that slot to the next download, where it is found missing.) |
| `downloader_faults` | 2 tickers, 2 requests, window of 4 slots in chunks of 2, two clock ticks; answers that are full, short, empty, or reach back a slot beyond their chunk, three error categories, link and write faults, every user edit | What the loop still plans is not stored yet, but for the end of the chunk ahead, which the answer to the chunk after it may have brought along (`RepeatsOnlyAtJoints`); a gap in a series has a cause (`HolesHaveACause`: the causes, among them a preemption, a lost link and an empty answer, are what the code gives up on, not what is right); a settled request stays as it is; a failure is not turned into a success; the loop implements `TickerLists`. |
| `downloader_order` | 3 requests of two priorities, retries, skipped and failed chunks, failing writes, a link that drops, stop | Each request is in one place; FIFO per priority; at most two gateway calls of watcher requests go ahead of a waiting API request; the loop implements `WorkQueue`; what it does between two sleeps always brings it nearer to the end of its work (`EveryStepIsProgress`); each of the three requests settles, unless the node is stopped, the link drops or its write raises; a stop ends the loop. |
| `rate_limiter` | 2 callers, 1 slot, base delays 1, 3 and (before `configure`) 5, maximum 8 | No request before its delay has passed, and the delay never leaves its bounds. (The class allows for several callers. The node has one, the download loop, which makes its calls one after the other: the interleavings of two do not occur in it.) |
| `parquet_store` | 2 files (one of them hourly), 2 slots, 3 lives, 2 damages, failing writes, deletions and downloads, any part of the recovery file turned away | A reader finds what `BarStore` says; after the check of a start only files damaged since (or that could not be deleted) are unreadable; a corrupt series is known to someone, and comes into the queue, unless its download failed, only memory or an overwritten note knew of it when the node died, or the watcher took the note and passed over its ticker or its time frame. |
| `intake` | 2 watch files, 2 tickers (one of them already in the map), 2 time frames, 2 writes or edits of the user, one restart; requests of the API for one ticker with and without a time frame | A ticker of a watch file is in a file until it is taken, and in the queue until its downloads end; it is lost only if it was written between the read and the deletion of the file, or if the queue dies with the node. It is taken at last (when it gets its turn in the queue is another matter: see Fairness). A refused ticker stays out of the queue until the user steps in; the exception is a ticker the user has mapped, which is on the blacklist only, and which the bars of another series or of an earlier chunk take off it. The ways in implement `TickerLists`. |
| `config_files` | ticker map, blacklist and time frames, 2 keys, 2 saves of the user, one exit | No change of either side is lost but in three ways: the user saves between the node's reading and its writing; the node takes a list that does not parse for empty; or the node dies, or its writing fails, when it has emptied the file, which loses every entry. A configuration in memory is the one on disk, unless it was saved between the reading and the taking of the modification time. An edit takes effect, unless it fell into that gap or a file that does not parse ended the loop. |
| `history_request` | all nine time frames; exchanges 5 hours behind, at, and 1 hour ahead of UTC; pauses of every hour up to 30, of 36, 71, 240 and 1080 hours; 3 downloads | Rounding a duration leaves out less than one unit of the newest chunk, two days for each chunk asked for in months (full chunks of 30 or 90 days are asked for as one or three months, which may have 28 or 89 days), and what the exchange is ahead of UTC. A series that is tried every day loses nothing on an exchange that is not ahead of UTC. |
| `market_clock` | 17 days by the half hour, every set of holidays around two weekends, the clock put forward, back or left alone | The event that was announced comes when it was said to, over nights, weekends and runs of holidays. |

Three more runs look for a disagreement between the code and what its
documents say, and find one each:

| run | what happens |
|---|---|
| `preempted_hole` | A watcher request is interrupted after its newest chunk by an API request for another ticker. Put back and taken again it starts from a delta after its newest stored bar, while chunks are fetched newest first: it finds itself up to date and ends as DONE, and its older chunk is never fetched. |
| `delta_gap` | A full download of 15 minute bars asks for its newest chunk, 12 days, as one week: five days are never asked for, now or later. |
| `refused_on_retry` | A ticker refused on the retry after a pacing error is neither blacklisted nor registered. |

The code differs from what its documents say in more places; the models follow the code,
and no run is spent on the following; where a property is touched it names them as ways out:

* A `ticker_map.json` that does not parse ends the download loop for good
  (`downloader.py` 122 is outside the `try`; the comment at 117 has the loop run until `stop`),
  while the API goes on accepting (`ReloadRaises`, `LoopDies`).
* A link that drops in the middle of a download skips the remaining chunks
  and the request ends as DONE (`downloader.py` 261; `IMP_alm_requirements.md` 712 re-enqueues it).
* A corrupt series that was deleted is asked for by nobody after an exit
  between the deletion and the note (`startup_checks.py` 69, 80): the ways are listed in `OwedIsTracked`.
* Such a series is also asked for by nobody when the watcher finds its ticker on the blacklist or mapped to null, or
  its time frame not listed, and deletes the file (`file_watcher.py` 88-93, 120).
* What the gateway is asked for is not "only missing bars" (class docstring, F-FNC-030): a chunk shorter than a day,
  or than a year for monthly bars, brings bars of the chunk before it, which is then asked for all the same
  (`gateway_client.py` 291, 300): `RepeatsOnlyAtJoints` bounds it.
* A ticker the gateway refused, but which the user has mapped, is asked for again when bars of another series, or of an earlier chunk
  of the same download, have taken it off the blacklist (`downloader.py` 284-286; F-FNC-070): the way out of `RefusalSticks`.
* "Never overwrite existing mapping" (`config_loader.py` 103) holds of what the file held when it was read, not of what the user saves
  before it is written (107); an exit, or an exception, between `open(path, "w")` and the end of the writing loses
  every entry (`config_loader.py` 86, 107; `failed_ticker_store.py` 89).
* Temporary files left by a crash are not found by the pattern that looks
  for them (`startup_checks.py` 59: `*.parquet` does not match `.parquet.tmp`).
* A bar that was stored before its period was over is kept: the next delta begins after
  it, and of two bars of one time the first is kept (`parquet_writer.py` 95).
* A request of the API for a ticker mapped to null blacklists it without the gateway having
  refused it (`api_server.py` 95; F-ERR-010 in `IMP_alm_requirements.md` 1519).
* On an exchange ahead of UTC a node may take itself for up to date while bars are missing
  (`gateway_client.py` 269): `DailyLosesNothing` is stated for the others.

**Bounds.** A download has two chunks, the fewest for which a preemption, a skip or a failure
has something stored before it and something left out after it; that a chunk with neighbours on both sides is no
different is what the theorems are for, which hold for any number. An answer reaches back one slot beyond its chunk of two; three requests of two priorities
are the fewest for an interruption of a request that has one of its own priority
behind it; the empty initial store makes the first request a full download and the
second, of the same series, a delta. Two clock ticks move `now` between two plans, and let a
delta begin inside the window of the first plan, with slots that neither has fetched.
In `config_files` two saves are what it takes to break a file and repair it, or to change it and race
with it; one exit leaves a file torn for the next start; the ticker map stands for all
configurations, whose loaders do the same.
In `history_request` an hour is a slot and a day has 24: the shortest unit asked for is a day, so
that shorter slots only add pauses of the same kind. The pauses lie on both
sides of a day, a week, a month and the lookback of the shortest bars, so that a delta has one chunk or
several; the time frames with chunks of years have theirs in the full download. Months and years have any length the
calendar gives so many of them (`ShortestMonths` and what may be added to it), and the market is always open, so that every
slot not asked for counts.
In `market_clock` two weekends and any of five days around them give runs of closed days up to five long;
`LongestBreak` (6) bounds the search for the next trading day, and `MarketClockAssumption` says that every
calendar has one within it, as the finite table of the code has.
In `intake` two edits are a write and what races with it (a second write, a deletion, a
broken map), and two files are a file in hand and one still to come; its
safety properties also hold with four edits (10 million states). The damage and exit bounds of `ParquetStore` allow a damage in one life,
an exit during its recovery, and another damage in the next. Counters that grow
are bounded by `MaxRequests`, `MaxNow`, `MaxExits`, `MaxDamage`, `MaxEdits`, `MaxDownloads`, `LastDay`.
`CHECK_DEADLOCK FALSE` is set where the system may stop: `_calculate_chunks`
returns, the download loop ends after `stop` or an exception, a node whose configuration does not
parse cannot start again, and the clocks of `history_request` and `market_clock` stop at their bound.

**Fairness.** `Downloader!FairSpec` assumes only that the loop itself goes on:
asyncio runs a ready task, timers expire, and `ib_insync` ends a historical data
call after its timeout. Nothing is assumed of users, API, link or clock; a link that drops, a write
that raises and a stop are ways out of `EveryRequestSettles`, because after these the code promises nothing
(with a lost link a request is put back every five seconds for ever: nothing
reconnects). The property is about the three requests of the instance, and no more can be said: requests of
the API come first and interrupt, so that an endless stream of them keeps the watcher's waiting for ever
(`models.py` 124-126). `ParquetStore!FairSpec` assumes that the container is started again
(`restart: unless-stopped`), that the start goes on, that the watcher's timer
fires again and again (strong fairness of `ScanAny`, since a download may
occupy the node in between). What it does not assume
is that a life is long: exits are bounded in number only. Nor does it assume that a queued request gets its
turn: `CorruptIsAskedFor` ends where the series is queued.
`Intake!FairSpec` assumes that a scan that has begun goes on (weak fairness of `Scan`), and
that the watcher's timer comes round although handlers and downloads run in between
(strong fairness of `ScanBegin`). Nothing is assumed of the queue, of users and of
clients: `WishIsTaken` ends where the ticker is queued or skipped, and a ticker map that stays unreadable is one of its ways out.
`ConfigFiles!FairSpec` assumes that a job that has begun goes on (weak fairness of `JobStep`) and that the
download loop comes by `reload_if_changed` again and again, whatever handlers do in between (strong
fairness of `Reload` while the loop is alive, and of `LoopDies`). Users, clients and
restarts owe nothing.

## 4. What is proved

For every value of the constants that satisfies the modules' assumptions: numbers are
naturals or integers, requests are made of the given tickers, there is at least one key and one
slot, the time on an exchange is less than a day from UTC, and every calendar has a next trading day. `HolesHaveCauses` has a hypothesis
of its own: no series has a hole at the start.

| theorem | property | argument |
|---|---|---|
| `LoopTypeOK`, `LoopNewestFirst`, `LoopCoversHistory` | of `ChunkLoop` | The list built so far is ascending, disjoint and covers start up to `chunk_start`; the reverse turns it around. |
| `LoopReturnsThePlan` | `ReturnsThePlan` | `PlanInv`: after k passes the list is the first k chunks of the closed form, and `chunk_start` the start of the next. |
| `HistoryTypeOK`, `RoundingLossIsBounded`, `DailyDownloadsLoseNothing` | `TypeOK`, `LossIsBounded`, `DailyLosesNothing` | `PlanShape`: what is left of a plan is its oldest chunks. `FullChunksAreWhole`: a chunk of full length is asked for whole but for the slack of its months (`MonthsAreLong`: n months have at least 30 n - 2 days), so that only the newest, which the clock cuts off, is rounded; `Progress` carries the bound from chunk to chunk. `Daily`: a series tried every day has at most a day and a slot missing, and the newest chunk asks for no less than a day. |
| `DownloaderTypeOK` | `TypeOK` | Inductive as it stands: it says which parts of the state are in use at which `pc`. |
| `RequestsAreConserved` | `RequestsConserved` | With `FailedHasNoPlan`: a failed request in hand has no chunks left, so it cannot be put back. |
| `RepeatsAreAtJoints` | `RepeatsOnlyAtJoints` | With `NewestFirst(plan)`: what one chunk stores begins no more than `Overreach` slots before it, where the chunk ahead ends. Rests on the closed form of the plan (`ChunkPlanProofs`). |
| `HolesHaveCauses` | `HolesHaveACause` | With `MInv`: chunks are worked off from the newest, so that what is stored, given up and still planned is one stretch without holes. |
| `FailuresStick`, `SettledIsForGood` | `FailureSticks`, `SettledForGood` | Each step by itself, under `CInv`: only the request in hand changes its status, and it is not settled. |
| `ApiIsOvertakenAtMostTwice` | `ApiOvertakenAtMostTwice` | `OInv` bounds the count by the place of the loop: 0 when it is pacing, 1 while it waits for an answer, 2 in the retry. |
| `RequestsSettleInOrder` | `SettledInOrder` | `QInv`: behind a request that waits or is in hand, all younger ones of its priority wait. |
| `DownloaderImplementsWorkQueue` | `ImplementsWorkQueue` | Each action is mapped to a step of `WorkQueue` or a stutter, under `RequestsConserved`. |
| `LoopKeepsQueueOrder` | `OneActive` and `InOrder` of `WorkQueue` | The refinement mapping under `QInv`. |
| `LoopMakesProgress` | `EveryStepIsProgress` | Action by action under `CInv`, lexicographically: what is outstanding only shrinks; with the same requests outstanding the turn (an API request in hand, one waiting, a watcher request in hand, none) goes down, or with the same turn the chunks left, or the way to the next answer. A preempted plan is dropped and made anew, but its preemption brings the turn down. |
| `LoopTurnsAreFinite` | | The same measure as numbers: the order on it is well-founded, and every step of the loop between two sleeps goes down in it. With no new requests the loop is asleep, or has ended, after finitely many steps. |
| `DownloaderImplementsTickerLists` | `ImplementsTickerLists` of `Downloader` | Step by step: most leave lists and requests alone; the end of a request takes at most its series out of what is asked. |
| `RateLimiterTypeOK`, `PacingIsKept` | of `RateLimiter` | With one slot or one caller a sleeper is alone, so that its timer and the time since the last request add up to the delay it was told. With 20 slots and several callers the code does not keep the delay; the node has one caller. |
| `StoreTypeOK`, `StoreCheckedAtStart` | of `ParquetStore` | `WriteInv`: what is renamed holds the old bars. `CheckInv`: an unreadable file is doubted, or the check is still to come to it. |
| `StoreImplementsBarStore` | `ImplementsBarStore` | Each action maps to a step of `BarStore` or a stutter under these invariants. |
| `CorruptIsTracked` | `OwedIsTracked` | `OwedInv`: with it, that what is owed holds no bars, and that a note opened for writing is empty, so that its content is what the check's list has. |
| `IntakeTypeOK` | `TypeOK` of `Intake` | Inductive as it stands. |
| `WishesAreTracked` | `WishIsTracked` | `WishInv`: what is due is queued, and every ticker has a time frame, so that a ticker that is taken has something in the queue. |
| `RefusalsStick` | `RefusalSticks` | `RefusedInv`: a refused ticker is null in the ticker map, or the user has mapped it and it is still blacklisted or was healed by bars; and whatever comes into the queue has been resolved. |
| `IntakeImplementsTickerLists` | `ImplementsTickerLists` of `Intake` | Every way into the queue resolves the ticker in the step that puts it there; each end of a download is one of `Refuse`, `Recover` and `End`, a restart is `Forget`. |
| `ConfigFilesTypeOK` | `TypeOK` of `ConfigFiles` | Inductive as it stands. |
| `ChangesAlwaysAddUp` | `ChangesAddUp` | `BaseInv`: what is about to be written is the content the file had when it was read, with the one change, or the user has saved since; between the emptying and the writing it is the only copy, and an end in between puts the file among those `cut`. |
| `MemoryIsAlwaysCurrent` | `MemoryIsCurrent` | `MemInv` also speaks of the file whose modification time is about to be taken. |
| `ClockIsTyped` | `ClockTypeOK` | The next trading day lies ahead: the least of a non-empty set of days after today. |
| `AnnouncementsHold` | `AnnouncementHolds` | A step of the clock stays within a day or goes over midnight (a change of the clock comes at night). Over midnight the day that begins is the one announced, or the first trading day after today is that after tomorrow (`NextOpenDayTomorrow`). |

Model-checked only: liveness (`EveryRequestSettles`, `StopTakesEffect`,
`CorruptIsAskedFor`, `WishIsTaken`, `EditTakesEffect`), as the prover has no rule for fairness.
Of `EveryRequestSettles` the part that is about the loop alone is proved (`LoopTurnsAreFinite`); that a loop
which is able to go on does so, and that it takes up what comes in while it sleeps, is left to TLC.

## 5. What is not modelled

* `staleness.py`, `run_logger.py`, `check_year_coverage`,
  `qualify_contracts_batch`: nothing calls them.
* Logging, progress counts, the web server, signals.
* The texts of errors (`classify_error` looks for substrings): only their category.
* Contents of bars: a slot is stored or not.
* `DownloadQueue`'s lock: its callers are all on one event loop.
* The steps of the user's editor: a save is one step. The node's own read-change-write of
  `ticker_map.json`, `failed_ticker.json` and `timeframes.json` is taken apart in `ConfigFiles`, and one
  step in the other modules.
* The start of `ConfigFiles` is one step (its integrity check is a subject of `ParquetStore`); whoever
  waits for the values of `gateway.json` and `paths.json` after a reload: nobody does (`main.py` 104-112).
* Early closings and half days, which `market_clock.py` does not know, and real time in `MarketClock`:
  while a change of the clock lies ahead the countdown is off by an hour.
* Trading hours in `HistoryRequest`, and which months the calendar has where: each request may get any of the
  lengths that so many successive months have.
* The order of the queue, duplicates and priorities in `Intake` (they are `Downloader`'s
  subject); the two file reads of `resolve` are one step there.
* Two things `file_watcher.py` says and does not do: failed tickers are neither
  blacklisted (33) nor kept in the file (34, 143-147). Nothing is ever put into `failed_tickers`;
  an unresolvable ticker is passed over and its file deleted (`SkipTicker`, `Cleanup`).
* Full downloads in `Downloader` forget what earlier requests have given up of the series
  (`abandoned` begins anew when nothing is stored): it is all asked for again.
* Versions of a bar (see the list above).
* Several appends of one request in `ParquetStore` (one stands for all), and a
  sound file that cannot be read for a moment.

## 6. Plan

Done, in this order: `ChunkPlan`/`ChunkLoop`, `Downloader` with `WorkQueue`,
`RateLimiter`, `ParquetStore` with `BarStore`, `Intake`, `ConfigFiles`, `HistoryRequest`,
`MarketClock`, `TickerLists`, and proofs of every property the runs check but liveness.

Left for whoever goes on:

1. `ParquetStore` with versions of a bar, once the code has a rule for a bar of a
   period that is not over, and with a read error of a sound file (`parquet_writer.py` 89).
2. The life of the process: the order of a stop, signals, a watcher or an API that ends while the
   others go on (`main.py`).
3. Statements across the ways in, once the code keeps them: blacklisting only after a refusal by
   the gateway (F-ERR-010), daily bars first over all tickers (F-FNC-060), requests
   that were queued before their ticker was blacklisted (F-FNC-070).
