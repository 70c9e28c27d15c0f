------------------------------ MODULE Downloader ------------------------------
(***************************************************************************)
(* The download loop of src/src/downloader.py with what it works on: the   *)
(* priority queue (priority_queue.py), the blacklist (failed_ticker_store) *)
(* the ticker map (config_loader), the gateway and the stored bars.        *)
(*                                                                         *)
(* The node is one asyncio program.  Between two awaits nothing else of it *)
(* runs, so the loop stands at one of these places:                        *)
(*   "top", "chunk"           inside the loop's own code, no await here    *)
(*   "sleep"                  asyncio.sleep of run_loop / _process_request *)
(*   "pacing", "repacing"     in rate_limiter.acquire, first try and retry *)
(*   "request", "rerequest"   waiting for the gateway, first try and retry *)
(*   "stopped", "died"        run_loop returned / raised                   *)
(* The API handlers and the file watcher run only while the loop awaits.   *)
(* The clock, the gateway link and the user's editor run at any time.      *)
(***************************************************************************)
EXTENDS ChunkPlan, Sequences

CONSTANTS
    Tickers, Timeframes,
    Requests,      \* what may be asked for: [ticker, timeframe, priority]
    Lookback,      \* MAX_HISTORY_LOOKBACK of each timeframe, in slots
    ChunkDuration, \* CHUNK_DURATION of each timeframe, in slots
    InitialBars,   \* the sets of slots a series may hold at the start
    InitialNow,    \* the clock at the start
    Deliveries,    \* how far an answer may reach back: see OldestBars
    Overreach,     \* how far at most before its chunk, in slots
    Errors,        \* the error categories the gateway answers with
    Faults,        \* "link": the connection drops; "write": append_bars raises
    Edits,         \* what the user does to the files while the node runs
    MaxRequests,   \* bound: requests accepted
    MaxNow         \* bound: the clock

API == 1
WATCHER == 2

ErrorCategory == {"QUALIFY_FAILED", "NO_DATA", "NO_PERMISSIONS", "TIMEOUT",
                  "PACING", "CANCELLED", "UNKNOWN"}

Request == [ticker : Tickers, timeframe : Timeframes, priority : {API, WATCHER}]

ASSUME DownloaderAssumption ==
    /\ Requests \subseteq Request
    /\ Lookback \in [Timeframes -> Nat \ {0}]
    /\ ChunkDuration \in [Timeframes -> Nat \ {0}]
    /\ InitialBars \subseteq SUBSET Int
    /\ InitialNow \in Int /\ MaxNow \in Int /\ MaxRequests \in Nat
    /\ Deliveries \subseteq {"long", "full", "short", "empty"} /\ Overreach \in Nat
    /\ Errors \subseteq ErrorCategory

VARIABLES
    \* the requests, numbered in order of creation (created_at)
    reqs,        \* what each asks for
    status,      \* TickerStatus of each
    queue,       \* those in the heap
    lost,        \* history: those an exception threw away
    \* the local state of run_loop and _process_request
    pc,
    cur,         \* the request in hand, or NoRequest
    plan,        \* the chunks of it still to do
    got,         \* total_bars > 0
    running,     \* _running
    \* what the loop shares with the rest of the node and with the user
    store,       \* the slots stored per series
    blacklist,   \* failed_ticker.json
    tmap,        \* ticker_map.json
    config,      \* "ok", or "malformed": the user left ticker_map.json unparsable
    connected,   \* gateway.is_connected()
    now,
    \* history variables, for the properties only
    abandoned,   \* slots of a plan that were given up without a bar, since the
                 \* last full download of their series began
    refused,     \* tickers the gateway refused to qualify, until the user steps in
    overtakes    \* gateway calls made for WATCHER while an API request waits

reqVars  == <<reqs, status, queue, lost>>
loopVars == <<pc, cur, plan, got, running>>
envVars  == <<store, blacklist, tmap, config, connected, now>>
histVars == <<abandoned, refused, overtakes>>
vars == <<reqVars, loopVars, envVars, histVars>>

NoRequest == 0
Ids == 1..Len(reqs)
AllSeries == Tickers \X Timeframes
SeriesOf(i) == <<reqs[i].ticker, reqs[i].timeframe>>

\* Places where the loop awaits, or is gone, so that other tasks run.
OthersRun == pc \notin {"top", "chunk"}

-----------------------------------------------------------------------------
(* The priority queue *)

\* The newest of a priority first.
BeforeNewest(i, j) ==
    \/ reqs[i].priority < reqs[j].priority
    \/ reqs[i].priority = reqs[j].priority /\ j < i

\* DownloadRequest.__lt__: priority, then creation time.
Before(i, j) ==
    \/ reqs[i].priority < reqs[j].priority
    \/ reqs[i].priority = reqs[j].priority /\ i < j

\* The root of the heap, which dequeue pops.
IsTop(i) == i \in queue /\ \A j \in queue : i = j \/ Before(i, j)

\* A check that looks for an equal priority too.
HigherOrEqualWaiting(priority) == \E j \in queue : reqs[j].priority <= priority

\* has_higher_priority_waiting: the root is the smallest, so some request in
\* the heap is more urgent exactly when the root is.
HigherPriorityWaiting(priority) == \E j \in queue : reqs[j].priority < priority

-----------------------------------------------------------------------------
(* Delta detection and the plan *)

\* A delta that starts on the last stored bar again.
StartsAtLastBar(s) ==
    IF store[s] = {} THEN {now - Lookback[s[2]]}
    ELSE {t \in store[s] : \A u \in store[s] : u <= t}

\* A delta that skips a slot after the last stored bar.
StartsTwoAfterLastBar(s) ==
    IF store[s] = {} THEN {now - Lookback[s[2]]}
    ELSE {t + 2 : t \in {t \in store[s] : \A u \in store[s] : u <= t}}

\* The one slot the download starts at: after the last bar stored
\* (read_last_timestamp), or a lookback before now when there is none.
DeltaStart(s) ==
    IF store[s] = {} THEN {now - Lookback[s[2]]}
    ELSE {t + 1 : t \in {t \in store[s] : \A u \in store[s] : u <= t}}

PlanFrom(s, start) == CalculateChunks(start, now, ChunkDuration[s[2]])

\* Where the bars of an answer to a chunk may begin.  The gateway is asked for an end
\* and a duration: one rounded down to whole weeks, months or years loses the oldest
\* part of the chunk, and one that is a day or a year at least, or in months and
\* years of the calendar, reaches back beyond it.
OldestBars(chunk) ==
    [long  |-> (chunk.start_ts - Overreach) .. (chunk.start_ts - 1),
     full  |-> {chunk.start_ts},
     short |-> (chunk.start_ts + 1) .. chunk.end_ts,
     empty |-> {chunk.end_ts + 1}]

\* The bars an answer may carry for a chunk.
Bars(chunk) == {t .. chunk.end_ts : t \in UNION {OldestBars(chunk)[d] : d \in Deliveries}}

Abandon(slots) ==
    abandoned' = [abandoned EXCEPT ![SeriesOf(cur)] = @ \cup slots]
-----------------------------------------------------------------------------
Init ==
    /\ reqs = <<>> /\ status = <<>> /\ queue = {} /\ lost = {}
    /\ pc = "top" /\ cur = NoRequest /\ plan = <<>> /\ got = FALSE /\ running = TRUE
    /\ store \in [AllSeries -> InitialBars]
    /\ blacklist = {}
    /\ tmap \in [Tickers -> {"absent", "mapped"}]
    /\ config = "ok" /\ connected = TRUE /\ now = InitialNow
    /\ abandoned = [s \in AllSeries |-> {}] /\ refused = {} /\ overtakes = 0

(* run_loop *)

\* A loop that wants to drain the queue before it ends.
LoopEndsWhenDrained ==
    /\ pc = "top" /\ ~running /\ queue = {}
    /\ pc' = "stopped"
    /\ UNCHANGED <<cur, plan, got, running, reqVars, envVars, histVars>>

LoopEnds ==
    /\ pc = "top" /\ ~running
    /\ pc' = "stopped"
    /\ UNCHANGED <<cur, plan, got, running, reqVars, envVars, histVars>>

\* reload_if_changed is called outside the try: an unreadable file ends the task.
ReloadRaises ==
    /\ pc = "top" /\ running /\ config # "ok"
    /\ pc' = "died"
    /\ UNCHANGED <<cur, plan, got, running, reqVars, envVars, histVars>>

ReadyToDequeue == pc = "top" /\ running /\ config = "ok"

QueueEmpty ==
    /\ ReadyToDequeue /\ queue = {}
    /\ pc' = "sleep"
    /\ UNCHANGED <<cur, plan, got, running, reqVars, envVars, histVars>>

Wake ==
    /\ pc = "sleep"
    /\ pc' = "top"
    /\ UNCHANGED <<cur, plan, got, running, reqVars, envVars, histVars>>

(* _process_request, up to its first await *)

CountsForApi(i) == overtakes' = IF reqs[i].priority = API THEN 0 ELSE overtakes

RequeueDisconnected(i) ==
    /\ ReadyToDequeue /\ IsTop(i) /\ ~connected
    /\ status' = [status EXCEPT ![i] = "DOWNLOADING"]
    /\ pc' = "sleep"
    /\ UNCHANGED <<reqs, queue, lost, cur, plan, got, running, envVars, histVars>>

\* Looking at the root of the heap without popping it.
UpToDatePeeking(i) ==
    /\ ReadyToDequeue /\ IsTop(i) /\ connected
    /\ \E start \in DeltaStart(SeriesOf(i)) : start >= now
    /\ status' = [status EXCEPT ![i] = "DONE"]
    /\ CountsForApi(i)
    /\ UNCHANGED <<reqs, queue, lost, loopVars, envVars, abandoned, refused>>

UpToDate(i) ==
    /\ ReadyToDequeue /\ IsTop(i) /\ connected
    /\ \E start \in DeltaStart(SeriesOf(i)) : start >= now
    /\ queue' = queue \ {i}
    /\ status' = [status EXCEPT ![i] = "DONE"]
    /\ CountsForApi(i)
    /\ UNCHANGED <<reqs, lost, loopVars, envVars, abandoned, refused>>

StartRequest(i) ==
    /\ ReadyToDequeue /\ IsTop(i) /\ connected
    /\ \E start \in DeltaStart(SeriesOf(i)) :
         /\ start < now
         /\ plan' = PlanFrom(SeriesOf(i), start)
    /\ queue' = queue \ {i}
    /\ status' = [status EXCEPT ![i] = "DOWNLOADING"]
    /\ cur' = i /\ got' = FALSE
    /\ pc' = "chunk"
    /\ abandoned' = IF store[SeriesOf(i)] = {} THEN [abandoned EXCEPT ![SeriesOf(i)] = {}]
                    ELSE abandoned
    /\ CountsForApi(i)
    /\ UNCHANGED <<reqs, lost, running, envVars, refused>>

(* the loop over the chunks *)

MustGiveWay ==
    reqs[cur].priority = WATCHER /\ HigherPriorityWaiting(reqs[cur].priority)

\* Giving way without putting the request back.
PreemptForgetting ==
    /\ pc = "chunk" /\ plan # <<>> /\ MustGiveWay
    /\ Abandon(PlanSlots(plan))
    /\ cur' = NoRequest /\ plan' = <<>> /\ got' = FALSE
    /\ pc' = "top"
    /\ UNCHANGED <<reqs, status, queue, lost, running, envVars, refused, overtakes>>

Preempt ==
    /\ pc = "chunk" /\ plan # <<>> /\ MustGiveWay
    /\ queue' = queue \cup {cur}
    /\ Abandon(PlanSlots(plan))
    /\ cur' = NoRequest /\ plan' = <<>> /\ got' = FALSE
    /\ pc' = "top"
    /\ UNCHANGED <<reqs, status, lost, running, envVars, refused, overtakes>>

\* The loop without the preemption check.
PaceAnyChunk ==
    /\ pc = "chunk" /\ plan # <<>>
    /\ pc' = "pacing"
    /\ UNCHANGED <<cur, plan, got, running, reqVars, envVars, histVars>>

\* The loop running past its last chunk.
PaceBeyondLast ==
    /\ pc = "chunk" /\ ~MustGiveWay
    /\ pc' = "pacing"
    /\ UNCHANGED <<cur, plan, got, running, reqVars, envVars, histVars>>

PaceChunk ==
    /\ pc = "chunk" /\ plan # <<>> /\ ~MustGiveWay
    /\ pc' = "pacing"
    /\ UNCHANGED <<cur, plan, got, running, reqVars, envVars, histVars>>

CountCall ==
    overtakes' = IF reqs[cur].priority = WATCHER /\ HigherPriorityWaiting(WATCHER)
                 THEN overtakes + 1 ELSE overtakes

Acquired ==
    /\ pc = "pacing"
    /\ pc' = "request"
    /\ CountCall
    /\ UNCHANGED <<cur, plan, got, running, reqVars, envVars, abandoned, refused>>

Reacquired ==
    /\ pc = "repacing"
    /\ pc' = "rerequest"
    /\ CountCall
    /\ UNCHANGED <<cur, plan, got, running, reqVars, envVars, abandoned, refused>>

(* What comes back from the gateway *)

Answered == pc \in {"request", "rerequest"}

\* Without a connection the pending call and every later one end in an error
\* that classify_error matches with no category.
FailsWith(category) ==
    IF connected THEN category \in Errors ELSE category = "UNKNOWN"

\* append_bars, which merges by timestamp, then on to the next chunk.
AnswerBars(bars) ==
    /\ Answered /\ connected
    /\ store' = [store EXCEPT ![SeriesOf(cur)] = @ \cup bars]
    /\ got' = (got \/ bars # {})
    /\ Abandon(Slots(Head(plan)) \ bars)
    /\ plan' = Tail(plan)
    /\ pc' = "chunk"
    /\ UNCHANGED <<cur, running, reqVars, blacklist, tmap, config, connected, now,
                   refused, overtakes>>

\* append_bars raises: run_loop logs the exception and takes the next request.
AppendRaises(bars) ==
    /\ Answered /\ connected /\ bars # {} /\ "write" \in Faults
    /\ lost' = lost \cup {cur}
    /\ Abandon(PlanSlots(plan))
    /\ cur' = NoRequest /\ plan' = <<>> /\ got' = FALSE
    /\ pc' = "top"
    /\ UNCHANGED <<reqs, status, queue, running, envVars, refused, overtakes>>

\* Trying as often as the gateway paces.
AnswerPacingAgain ==
    /\ Answered /\ FailsWith("PACING")
    /\ pc' = "repacing"
    /\ UNCHANGED <<cur, plan, got, running, reqVars, envVars, histVars>>

\* A pacing error on the first try: back off and try the chunk once more.
AnswerPacing ==
    /\ pc = "request" /\ FailsWith("PACING")
    /\ pc' = "repacing"
    /\ UNCHANGED <<cur, plan, got, running, reqVars, envVars, histVars>>

\* Trying the same chunk again instead of skipping it.
AnswerSkippedRetrying(category) ==
    /\ pc = "request"
    /\ category \in {"NO_DATA", "TIMEOUT", "CANCELLED", "UNKNOWN"}
    /\ FailsWith(category)
    /\ pc' = "chunk"
    /\ UNCHANGED <<cur, plan, got, running, reqVars, envVars, histVars>>

\* NO_DATA, TIMEOUT, CANCELLED and UNKNOWN on the first try: the chunk is skipped.
AnswerSkipped(category) ==
    /\ pc = "request"
    /\ category \in {"NO_DATA", "TIMEOUT", "CANCELLED", "UNKNOWN"}
    /\ FailsWith(category)
    /\ Abandon(Slots(Head(plan)))
    /\ plan' = Tail(plan)
    /\ pc' = "chunk"
    /\ UNCHANGED <<cur, got, running, reqVars, envVars, refused, overtakes>>

\* break: the request fails and the rest of its chunks are not asked for.
FailRequest ==
    /\ status' = [status EXCEPT ![cur] = "FAILED"]
    /\ Abandon(PlanSlots(plan))
    /\ plan' = <<>>
    /\ pc' = "chunk"
    /\ UNCHANGED <<cur, got, running, reqs, queue, lost>>

\* register_unmapped_ticker: leaves an entry it finds, and gives up silently when
\* the file does not parse.  No task of the node runs between its read and its write
\* of the file.  A save of the user between them is overwritten: that is here a save
\* that never was, and a matter of ConfigFiles.
RegisterUnmapped(t) ==
    [tmap EXCEPT ![t] = IF @ = "absent" /\ config = "ok" THEN "null" ELSE @]

AnswerQualifyFailed ==
    /\ pc = "request" /\ FailsWith("QUALIFY_FAILED")
    /\ LET t == reqs[cur].ticker IN
         /\ blacklist' = blacklist \cup {t}
         /\ tmap' = RegisterUnmapped(t)
         /\ refused' = refused \cup {t}
    /\ FailRequest
    /\ UNCHANGED <<store, config, connected, now, overtakes>>

AnswerNoPermissions ==
    /\ pc = "request" /\ FailsWith("NO_PERMISSIONS")
    /\ FailRequest
    /\ UNCHANGED <<envVars, refused, overtakes>>

\* Any error of the retry fails the request; its category is not looked at.
RetryFails(category) ==
    /\ pc = "rerequest"
    /\ FailsWith(category)
    /\ refused' = IF category = "QUALIFY_FAILED"
                  THEN refused \cup {reqs[cur].ticker} ELSE refused
    /\ FailRequest
    /\ UNCHANGED <<envVars, overtakes>>

\* The end of _process_request with the status set regardless of a failure.
FinishAlwaysDone ==
    /\ pc = "chunk" /\ plan = <<>>
    /\ blacklist' = IF got THEN blacklist \ {reqs[cur].ticker} ELSE blacklist
    /\ status' = [status EXCEPT ![cur] = "DONE"]
    /\ cur' = NoRequest /\ got' = FALSE
    /\ pc' = "top"
    /\ UNCHANGED <<reqs, queue, lost, plan, running, store, tmap, config, connected,
                   now, histVars>>

\* The end of _process_request: a ticker that delivered bars leaves the
\* blacklist; the request is done unless it failed.
FinishRequest ==
    /\ pc = "chunk" /\ plan = <<>>
    /\ blacklist' = IF got THEN blacklist \ {reqs[cur].ticker} ELSE blacklist
    /\ status' = [status EXCEPT ![cur] = IF @ = "FAILED" THEN @ ELSE "DONE"]
    /\ cur' = NoRequest /\ got' = FALSE
    /\ pc' = "top"
    /\ UNCHANGED <<reqs, queue, lost, plan, running, store, tmap, config, connected,
                   now, histVars>>

LoopStep ==
    \/ LoopEnds \/ ReloadRaises \/ QueueEmpty \/ Wake
    \/ \E i \in Ids : RequeueDisconnected(i) \/ UpToDate(i) \/ StartRequest(i)
    \/ Preempt \/ PaceChunk \/ Acquired \/ Reacquired
    \/ Answered /\ \E bars \in Bars(Head(plan)) : AnswerBars(bars) \/ AppendRaises(bars)
    \/ AnswerPacing \/ AnswerQualifyFailed \/ AnswerNoPermissions
    \/ \E category \in ErrorCategory : AnswerSkipped(category) \/ RetryFails(category)
    \/ FinishRequest
-----------------------------------------------------------------------------
(* The other tasks of the node *)

\* The map left out.
ResolvableByBlacklist(t) == t \notin blacklist /\ config = "ok"

\* resolve() finds a contract: not blacklisted, not mapped to null, and the
\* ticker map could be read.
Resolvable(t) == t \notin blacklist /\ config = "ok" /\ tmap[t] # "null"

\* The API or the file watcher enqueues one resolved request.
Accept(r) ==
    /\ OthersRun /\ Len(reqs) < MaxRequests /\ Resolvable(r.ticker)
    /\ reqs' = Append(reqs, r)
    /\ status' = Append(status, "PENDING")
    /\ queue' = queue \cup {Len(reqs) + 1}
    /\ UNCHANGED <<lost, loopVars, envVars, histVars>>

\* The API answers 404 for a ticker mapped to null and blacklists it.
ApiRejects(t) ==
    /\ OthersRun /\ config = "ok" /\ tmap[t] = "null" /\ t \notin blacklist
    /\ blacklist' = blacklist \cup {t}
    /\ UNCHANGED <<reqVars, loopVars, store, tmap, config, connected, now, histVars>>

Stop ==
    /\ OthersRun /\ running /\ "stop" \in Edits
    /\ running' = FALSE
    /\ UNCHANGED <<pc, cur, plan, got, reqVars, envVars, histVars>>

(* The world outside *)

LinkDrops ==
    /\ connected /\ OthersRun /\ "link" \in Faults
    /\ connected' = FALSE
    /\ UNCHANGED <<reqVars, loopVars, store, blacklist, tmap, config, now, histVars>>

Tick ==
    /\ now < MaxNow
    /\ now' = now + 1
    /\ UNCHANGED <<reqVars, loopVars, store, blacklist, tmap, config, connected, histVars>>

UserUnblacklists(t) ==
    /\ "unblacklist" \in Edits /\ t \in blacklist
    /\ blacklist' = blacklist \ {t} /\ refused' = refused \ {t}
    /\ UNCHANGED <<reqVars, loopVars, store, tmap, config, connected, now,
                   abandoned, overtakes>>

UserMaps(t) ==
    /\ "map" \in Edits /\ tmap[t] # "mapped" /\ config = "ok"
    /\ tmap' = [tmap EXCEPT ![t] = "mapped"] /\ refused' = refused \ {t}
    /\ UNCHANGED <<reqVars, loopVars, store, blacklist, config, connected, now,
                   abandoned, overtakes>>

UserBreaksConfig ==
    /\ "break" \in Edits /\ config = "ok"
    /\ config' = "malformed"
    /\ UNCHANGED <<reqVars, loopVars, store, blacklist, tmap, connected, now, histVars>>

UserRepairsConfig ==
    /\ config # "ok"
    /\ config' = "ok"
    /\ UNCHANGED <<reqVars, loopVars, store, blacklist, tmap, connected, now, histVars>>

Others ==
    \/ \E r \in Requests : Accept(r)
    \/ Stop \/ LinkDrops \/ Tick \/ UserBreaksConfig \/ UserRepairsConfig
    \/ \E t \in Tickers : ApiRejects(t) \/ UserUnblacklists(t) \/ UserMaps(t)

Next == LoopStep \/ Others

Spec == Init /\ [][Next]_vars

\* The event loop runs the task, timers expire, and a gateway call ends (the
\* client library bounds it by a timeout).  Nothing is assumed of the others.
FairSpec == Spec /\ WF_vars(LoopStep)

-----------------------------------------------------------------------------
(* What the loop implements *)

\* Where a request stands, seen from outside.
PhaseOf(i) ==
    IF i = cur THEN "active"
    ELSE IF i \in queue THEN "waiting"
    ELSE IF i \in lost THEN "lost"
    ELSE "settled"

WQ == INSTANCE WorkQueue WITH
        Priorities <- {API, WATCHER},
        prio  <- [i \in Ids |-> reqs[i].priority],
        phase <- [i \in Ids |-> PhaseOf(i)]

\* The loop keeps the promises of WorkQueue: one request at a time, the most
\* urgent first, an interruption only for a more urgent request (F-FNC-010,
\* F-FNC-020).
ImplementsWorkQueue == WQ!Spec

\* The requests that are still to be served, and the series they ask for.
Outstanding == queue \cup ({cur} \ {NoRequest})
Asked == {SeriesOf(i) : i \in Outstanding}

TL == INSTANCE TickerLists WITH asked <- Asked, readable <- config = "ok"

\* The loop and the resolver keep the promises of TickerLists: no request for a
\* ticker the lists exclude is accepted, and what a download does to the lists, it
\* does for a ticker that was asked for (F-FNC-070, F-IMP-070).
ImplementsTickerLists == TL!Spec

-----------------------------------------------------------------------------
(* Safety *)

TickerStatus == {"PENDING", "DOWNLOADING", "DONE", "FAILED"}
Settled == {"DONE", "FAILED"}

\* Types of the variables, and which parts of the loop's state are in use where.
TypeOK ==
    /\ reqs \in Seq(Request) /\ status \in Seq(TickerStatus) /\ Len(status) = Len(reqs)
    /\ queue \subseteq Ids /\ lost \subseteq Ids
    /\ pc \in {"top", "sleep", "chunk", "pacing", "request", "repacing", "rerequest",
              "stopped", "died"}
    /\ cur \in Ids \cup {NoRequest} /\ plan \in Seq(Chunk)
    /\ got \in BOOLEAN /\ running \in BOOLEAN /\ connected \in BOOLEAN
    /\ cur # NoRequest <=> pc \in {"chunk", "pacing", "request", "repacing", "rerequest"}
    /\ pc \in {"pacing", "request", "repacing", "rerequest"} => plan # <<>>
    /\ store \in [AllSeries -> SUBSET Int]
    /\ blacklist \subseteq Tickers /\ refused \subseteq Tickers
    /\ tmap \in [Tickers -> {"absent", "mapped", "null"}]
    /\ config \in {"ok", "malformed"} /\ now \in Int
    /\ abandoned \in [AllSeries -> SUBSET Int] /\ overtakes \in Nat

\* Every request accepted is in exactly one place: in the heap, in hand, settled
\* with a final status, or thrown away by an exception (downloader.py 129-140).
RequestsConserved ==
    \A i \in Ids :
        /\ i \in queue  => i # cur /\ i \notin lost /\ status[i] \notin Settled
        /\ i = cur      => i \notin lost /\ status[i] # "DONE"
        /\ i \in lost   => status[i] \notin Settled
        /\ i \in queue \/ i = cur \/ i \in lost \/ status[i] \in Settled

\* A request of a priority is settled only after every older one of that
\* priority is settled or lost, however often it was put back.
SettledInOrder ==
    \A i, j \in Ids :
        (i < j /\ reqs[i].priority = reqs[j].priority /\ status[j] \in Settled)
            => status[i] \in Settled \/ i \in lost

\* How much is asked for twice ("only missing bars requested", class docstring,
\* F-FNC-030): what the loop still plans to fetch is missing, although it was planned
\* before earlier chunks, other requests and the clock moved on, but for the end of
\* the chunk ahead, which the answer to the chunk after it may have brought along.
RepeatsOnlyAtJoints ==
    cur # NoRequest /\ plan # <<>> =>
        \A t \in PlanSlots(plan) \cap store[SeriesOf(cur)] :
            t > Head(plan).end_ts - Overreach

\* While an API request waits, at most two more gateway calls are made for
\* WATCHER requests: the one that was pacing, and its retry.
ApiOvertakenAtMostTwice == HigherPriorityWaiting(WATCHER) => overtakes <= 2

\* The slots of a series that were stored, are planned, or were given up on.
Accounted(s) ==
    store[s] \cup abandoned[s]
      \cup (IF cur # NoRequest /\ SeriesOf(cur) = s THEN PlanSlots(plan) ELSE {})

\* A gap in a series has a cause the code knows: a chunk skipped, cut short or
\* dropped with its request.  Nothing falls between two chunks, or between two
\* downloads from the last full one on.
HolesHaveACause ==
    \A s \in AllSeries : \A a, b \in Accounted(s) : a .. b \subseteq Accounted(s)

\* A settled request is never touched again: it keeps its status and does not
\* come back into the heap or into the loop's hands.
SettledForGood ==
    [][\A i \in Ids : (status[i] \in Settled /\ i # cur)
         => status'[i] = status[i] /\ i \notin queue' /\ i # cur']_vars

\* A failed request never ends as done.
FailureSticks ==
    [][\A i \in Ids : status[i] = "FAILED" => status'[i] = "FAILED"]_vars

-----------------------------------------------------------------------------
(* Progress *)

\* How far the loop is from working on the most urgent request there is.
Turn ==
    IF cur # NoRequest THEN (IF reqs[cur].priority = API THEN 0 ELSE 2)
    ELSE IF \E i \in queue : reqs[i].priority = API THEN 1 ELSE 3

\* How far it is from the answer to a chunk.
Distance ==
    [rerequest |-> 0, repacing |-> 1, request |-> 2, pacing |-> 3, chunk |-> 4,
     top |-> 5, sleep |-> 5, stopped |-> 5, died |-> 5]

\* What is outstanding, the turn, the chunks left and the way to the next answer,
\* in this order of weight, have gone down.
Nearer ==
    \/ Outstanding' \subseteq Outstanding /\ Outstanding' # Outstanding
    \/ /\ Outstanding' = Outstanding
       /\ \/ Turn' < Turn
          \/ /\ Turn' = Turn
             /\ \/ Len(plan') < Len(plan)
                \/ Len(plan') = Len(plan) /\ Distance[pc'] < Distance[pc]

\* The loop never turns in circles: whatever it does between two sleeps brings it
\* nearer to the end of its work, with every retry, skip and interruption.  A plan
\* that is dropped and made anew counts, for its interruption brings an API request
\* on.  The other tasks only add requests.
EveryStepIsProgress ==
    [][LoopStep /\ pc # "sleep" /\ pc' \notin {"sleep", "stopped", "died"} => Nearer]_vars

-----------------------------------------------------------------------------
(* Liveness *)

\* Every accepted request is settled, preemptions, skipped chunks and retries
\* notwithstanding, unless the node is stopped first, the link drops (it is not made
\* again, and a disconnected loop puts the request back for ever), or writing its bars
\* raises.  Of finitely many requests: an endless stream of API requests would keep
\* the watcher's waiting.
EveryRequestSettles ==
    \A i \in 1..MaxRequests :
        (i \in Ids) ~> (~running \/ ~connected \/ i \in lost
                           \/ (i \in Ids /\ status[i] \in Settled))

\* stop(): the loop ends, after the request in hand.
StopTakesEffect == ~running ~> pc \in {"stopped", "died"}

-----------------------------------------------------------------------------
(* What documents and comments say of the loop *)

\* F-FNC-030 with F-FNC-020: an interrupted download goes on where it stopped, so
\* a request that is done has fetched what it and its predecessors set out to.
DoneMeansFetched ==
    \A i \in Ids : status[i] = "DONE" => abandoned[SeriesOf(i)] \subseteq store[SeriesOf(i)]

\* F-IMP-070: a ticker the gateway refuses to qualify is registered in the ticker
\* map, so that it is skipped from then on.
RefusedIsRegistered ==
    cur = NoRequest => \A t \in refused : tmap[t] # "absent"
=============================================================================
