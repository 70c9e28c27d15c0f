-------------------------------- MODULE Intake --------------------------------
(***************************************************************************)
(* How requests come into the download queue: the watch files              *)
(* (file_watcher.py), POST /download and POST /trigger-staleness           *)
(* (api_server.py), the resolution of a ticker (ticker_resolver.py), and   *)
(* the time frames kept per ticker (config_loader.py).                     *)
(*                                                                         *)
(* scan_once and the API handlers contain no await, so that they never     *)
(* interleave with each other or with the download loop.  They work on     *)
(* files, though, which the user creates, edits and deletes at any time,   *)
(* and the node may die between any two of their steps.                    *)
(*                                                                         *)
(* The order of the queue, priorities, duplicates and the way a download   *)
(* goes are the subject of module Downloader.  Here the queue is the set   *)
(* of the series asked for, and a download is its end.                     *)
(***************************************************************************)
EXTENDS Naturals

CONSTANTS
    Tickers, Timeframes,
    Files,       \* the watch files, numbered in the order of their names
    InitialMaps, \* what ticker_map.json may hold at the start
    ApiAsks,     \* what POST /download is asked for: [ticker, timeframes]
    Edits,       \* what the user does: "delete", "map", "unblacklist", "break"
    MaxEdits,    \* bound: how often the user writes a watch file or edits
    MaxExits     \* bound: how often the node exits

DEFAULT_TIMEFRAMES == {"1D"}

ASSUME IntakeAssumption ==
    /\ DEFAULT_TIMEFRAMES \subseteq Timeframes
    /\ Files \subseteq Nat
    /\ InitialMaps \subseteq [Tickers -> {"absent", "mapped", "null"}]
    /\ ApiAsks \subseteq [ticker : Tickers, timeframes : SUBSET Timeframes]
    /\ MaxEdits \in Nat /\ MaxExits \in Nat

VARIABLES
    \* on disk
    present,     \* the watch files there are
    watch,       \* the tickers in each, none in a file that is not there
    tmap,        \* ticker_map.json
    readable,    \* it parses
    blacklist,   \* failed_ticker.json
    timeframes,  \* timeframes.json of each ticker, or the default: it is not there
                 \* or does not parse
    dirs,        \* the tickers with a directory of parquet files
    \* in memory
    queue,       \* the series asked for, <<ticker, timeframe>>
    alive,       \* the download loop runs
    pc,          \* "idle", in scan_once "scanning", "resolving", "cleaning",
                 \* and in trigger_staleness "sweeping"
    files,       \* the files scan_once has not come to yet
    file,        \* the one it works on, at most one
    todo,        \* the tickers still to resolve
    sweep,       \* the scan is the first part of trigger_staleness
    \* counters of the bounds
    edits, exits,
    \* history variables, for the properties only
    late,        \* the user wrote to `file` after it was read
    wish,        \* how a ticker of a watch file fares
    due,         \* the series queued for it that have not settled since
    refused,     \* tickers the gateway refused, until the user steps in
    healed       \* of these, those whose bars took them off the blacklist since

watchVars  == <<present, watch>>
configVars == <<tmap, readable, blacklist, timeframes, dirs>>
scanVars   == <<pc, files, file, todo, sweep>>
bounds     == <<edits, exits>>
history    == <<late, wish, due, refused, healed>>
vars == <<watchVars, configVars, queue, alive, scanVars, bounds, history>>

SeriesOf(t, tfs) == {t} \X tfs

\* A ticker in a watch file that is still to be taken.  Of a file in hand the
\* node has read only what it has in todo, unless the user wrote to it since.
Pending(t) ==
    \E f \in present : t \in watch[f] /\ (f \in file /\ ~late => t \in todo)

\* What becomes of the wishes when the user writes or deletes a file.
Withdrawn(t) == wish[t] = "filed" /\ ~Pending(t)'

Remove(fs) ==
    /\ present' = present \ fs
    /\ watch' = [f \in Files |-> IF f \in fs THEN {} ELSE watch[f]]

-----------------------------------------------------------------------------
Init ==
    /\ present = {} /\ watch = [f \in Files |-> {}]
    /\ tmap \in InitialMaps /\ readable = TRUE
    /\ blacklist = {} /\ timeframes = [t \in Tickers |-> DEFAULT_TIMEFRAMES]
    /\ dirs = {}
    /\ queue = {} /\ alive = TRUE
    /\ pc = "idle" /\ files = {} /\ file = {} /\ todo = {} /\ sweep = FALSE
    /\ edits = 0 /\ exits = 0
    /\ late = FALSE /\ wish = [t \in Tickers |-> "none"] /\ due = {}
    /\ refused = {} /\ healed = {}

(* ticker_resolver.resolve: the blacklist first, then the ticker map *)

\* A ticker that is in neither file gets a default contract.
Resolves(t) == t \notin blacklist /\ readable /\ tmap[t] # "null"
Skipped(t)  == t \in blacklist \/ (readable /\ tmap[t] = "null")
\* reload_if_changed raises on a file that does not parse.
Raises(t)   == t \notin blacklist /\ ~readable

(* file_watcher.scan_once *)

\* A timer that waits for the queue to be empty.
ScanBeginWhenDrained ==
    /\ pc = "idle" /\ present # {} /\ queue = {}
    /\ pc' = "scanning" /\ files' = present
    /\ UNCHANGED <<watchVars, configVars, queue, alive, file, todo, sweep, bounds, history>>

\* The watcher's timer; the list of the files is made once.
ScanBegin ==
    /\ pc = "idle" /\ present # {}
    /\ pc' = "scanning" /\ files' = present
    /\ UNCHANGED <<watchVars, configVars, queue, alive, file, todo, sweep, bounds, history>>

IsNext(f) == f \in files /\ \A g \in files : f <= g

\* No way out for a file without a ticker.
ReadFileNeverEmpty(f) ==
    /\ pc = "scanning" /\ IsNext(f)
    /\ files' = files \ {f}
    /\ file' = {f} /\ todo' = watch[f]
    /\ pc' = "resolving"
    /\ late' = FALSE
    /\ UNCHANGED <<watchVars, configVars, queue, alive, sweep, bounds,
                   wish, due, refused, healed>>

\* A file that is gone by now reads like one without a ticker, and is deleted too.
ReadFile(f) ==
    /\ pc = "scanning" /\ IsNext(f)
    /\ files' = files \ {f}
    /\ file' = {f} /\ todo' = watch[f]
    /\ pc' = IF watch[f] = {} THEN "cleaning" ELSE "resolving"
    /\ late' = FALSE
    /\ UNCHANGED <<watchVars, configVars, queue, alive, sweep, bounds,
                   wish, due, refused, healed>>

DoneWith(t) ==
    /\ todo' = todo \ {t}
    /\ pc' = IF todo' = {} THEN "cleaning" ELSE "resolving"

EnqueueTicker(t) ==
    /\ pc = "resolving" /\ t \in todo /\ Resolves(t)
    /\ queue' = queue \cup SeriesOf(t, timeframes[t])
    /\ DoneWith(t)
    /\ wish' = [wish EXCEPT ![t] = "queued"]
    /\ due' = due \cup SeriesOf(t, timeframes[t])
    /\ UNCHANGED <<watchVars, configVars, alive, files, file, sweep, bounds, late, refused, healed>>

\* An unresolvable ticker is passed over; nothing is noted of it.
SkipTicker(t) ==
    /\ pc = "resolving" /\ t \in todo /\ Skipped(t)
    /\ DoneWith(t)
    /\ wish' = [wish EXCEPT ![t] = "skipped"]
    /\ UNCHANGED <<watchVars, configVars, queue, alive, files, file, sweep, bounds,
                   late, due, refused, healed>>

\* The file deleted however its processing ended.
ScanRaisesDeleting(t) ==
    /\ pc = "resolving" /\ t \in todo /\ Raises(t)
    /\ Remove(file)
    /\ file' = {} /\ todo' = {} /\ pc' = "scanning"
    /\ UNCHANGED <<configVars, queue, alive, files, sweep, bounds, history>>

\* The exception is logged, the file stays as it is, the next one is taken.
ScanRaises(t) ==
    /\ pc = "resolving" /\ t \in todo /\ Raises(t)
    /\ file' = {} /\ todo' = {} /\ pc' = "scanning" /\ late' = FALSE
    /\ UNCHANGED <<watchVars, configVars, queue, alive, files, sweep, bounds,
                   wish, due, refused, healed>>

\* unlink, of whatever the file holds by now.
Cleanup ==
    /\ pc = "cleaning"
    /\ Remove(file)
    /\ file' = {} /\ pc' = "scanning" /\ late' = FALSE
    /\ UNCHANGED <<configVars, queue, alive, files, todo, sweep, bounds, due, refused, healed>>
    /\ wish' = [t \in Tickers |-> IF late /\ Withdrawn(t) THEN "raced" ELSE wish[t]]

ScanEnds ==
    /\ pc = "scanning" /\ files = {}
    /\ pc' = IF sweep THEN "sweeping" ELSE "idle"
    /\ todo' = IF sweep THEN dirs ELSE {}
    /\ UNCHANGED <<watchVars, configVars, queue, alive, files, file, sweep, bounds, history>>

(* api_server *)

\* trigger_staleness begins with a scan of the watch files.
TriggerStaleness ==
    /\ pc = "idle"
    /\ pc' = "scanning" /\ files' = present /\ sweep' = TRUE
    /\ UNCHANGED <<watchVars, configVars, queue, alive, file, todo, bounds, history>>

\* The sweep enqueueing every directory there is.
SweepDirUnresolved(t) ==
    /\ pc = "sweeping" /\ t \in todo /\ ~Raises(t)
    /\ queue' = queue \cup SeriesOf(t, timeframes[t])
    /\ todo' = todo \ {t}
    /\ UNCHANGED <<watchVars, configVars, alive, pc, files, file, sweep, bounds, history>>

SweepDir(t) ==
    /\ pc = "sweeping" /\ t \in todo /\ ~Raises(t)
    /\ queue' = queue \cup IF Resolves(t) THEN SeriesOf(t, timeframes[t]) ELSE {}
    /\ todo' = todo \ {t}
    /\ UNCHANGED <<watchVars, configVars, alive, pc, files, file, sweep, bounds, history>>

\* The last directory, or an exception, which the client sees as an error 500.
SweepEnds ==
    /\ pc = "sweeping"
    /\ todo = {} \/ \E t \in todo : Raises(t)
    /\ pc' = "idle" /\ todo' = {} /\ sweep' = FALSE
    /\ UNCHANGED <<watchVars, configVars, queue, alive, files, file, bounds, history>>

\* POST /download: new time frames are kept, what was asked for is enqueued.  (With a
\* map that does not parse the client sees an error 500, and nothing changes.)
ApiDownload(a) ==
    /\ pc = "idle" /\ Resolves(a.ticker)
    /\ LET t == a.ticker
           named == a.timeframes # {}
       IN  /\ timeframes' = [timeframes EXCEPT ![t] = @ \cup a.timeframes]
           /\ dirs' = IF named THEN dirs \cup {t} ELSE dirs
           /\ queue' = queue \cup SeriesOf(t, IF named THEN a.timeframes ELSE timeframes[t])
    /\ UNCHANGED <<watchVars, tmap, readable, blacklist, alive, scanVars, bounds, history>>

\* The handler breaks off, by an exception or because the node dies, before it
\* enqueues: some of the time frames have been added by then, or the file was just
\* opened for writing, and counts as the default from now on.
ApiBreaksOff(a) ==
    /\ pc = "idle" /\ Resolves(a.ticker)
    /\ ~(a.timeframes \subseteq timeframes[a.ticker])
    /\ \E kept \in {DEFAULT_TIMEFRAMES} \cup {timeframes[a.ticker] \cup p : p \in SUBSET a.timeframes} :
         timeframes' = [timeframes EXCEPT ![a.ticker] = kept]
    /\ dirs' = dirs \cup {a.ticker}
    /\ UNCHANGED <<watchVars, tmap, readable, blacklist, queue, alive, scanVars, bounds, history>>

\* POST /download answers 404, and blacklists a ticker that is mapped to null.
ApiRejects(t) ==
    /\ pc = "idle" /\ Skipped(t) /\ \E a \in ApiAsks : a.ticker = t
    /\ blacklist' = blacklist \cup {t}
    /\ UNCHANGED <<watchVars, tmap, readable, timeframes, dirs, queue, alive, scanVars,
                   bounds, history>>

(* The end of a download, as module Downloader has it *)

Settles(s) ==
    /\ pc = "idle" /\ alive /\ s \in queue
    /\ queue' = queue \ {s}
    /\ due' = due \ {s}
    /\ wish' = IF wish[s[1]] = "queued" /\ \A r \in due' : r[1] # s[1]
               THEN [wish EXCEPT ![s[1]] = "settled"] ELSE wish
    /\ UNCHANGED <<watchVars, readable, timeframes, alive, scanVars, bounds, late>>

\* Bars came in: the directory is there, the ticker leaves the blacklist.
Delivers(s) ==
    /\ Settles(s)
    /\ dirs' = dirs \cup {s[1]}
    /\ blacklist' = blacklist \ {s[1]}
    /\ healed' = healed \cup ({s[1]} \cap refused)
    /\ UNCHANGED <<tmap, refused>>

\* register_unmapped_ticker: an entry for a ticker that has none, unless the
\* file does not parse.
Registered(t) == [tmap EXCEPT ![t] = IF @ = "absent" /\ readable THEN "null" ELSE @]

\* A refusal counts if the map parses: otherwise it is not registered.
CountsAsRefused(t) == refused' = IF readable THEN refused \cup {t} ELSE refused

\* The gateway does not know the ticker, which is blacklisted only.
RefusesUnregistered(s) ==
    /\ Settles(s)
    /\ blacklist' = blacklist \cup {s[1]}
    /\ CountsAsRefused(s[1]) /\ healed' = healed \ {s[1]}
    /\ UNCHANGED <<dirs, tmap>>

\* The gateway does not know the ticker: it is blacklisted and registered.
Refuses(s) ==
    /\ Settles(s)
    /\ blacklist' = blacklist \cup {s[1]}
    /\ tmap' = Registered(s[1])
    /\ CountsAsRefused(s[1]) /\ healed' = healed \ {s[1]}
    /\ UNCHANGED dirs

\* Bars of some chunks came in before the gateway refused the ticker: it leaves
\* the blacklist again as the download ends, and stays registered.
RefusesAfterBars(s) ==
    /\ Settles(s)
    /\ dirs' = dirs \cup {s[1]}
    /\ blacklist' = blacklist \ {s[1]}
    /\ tmap' = Registered(s[1])
    /\ CountsAsRefused(s[1]) /\ healed' = healed \cup ({s[1]} \cap refused')

\* Nothing new, an error that is not permanent, a retry that fails for whatever
\* reason, or an exception, which may come after bars.
EndsWithout(s) ==
    /\ Settles(s)
    /\ dirs' \in {dirs, dirs \cup {s[1]}}
    /\ UNCHANGED <<tmap, blacklist, refused, healed>>

\* run_loop reloads the ticker map outside its try.
LoopDies ==
    /\ pc = "idle" /\ alive /\ ~readable
    /\ alive' = FALSE
    /\ UNCHANGED <<watchVars, configVars, queue, scanVars, bounds, history>>

\* The node exits and is started again, which needs a map that parses.
Restart ==
    /\ exits < MaxExits /\ readable
    /\ exits' = exits + 1
    /\ queue' = {} /\ alive' = TRUE
    /\ pc' = "idle" /\ files' = {} /\ file' = {} /\ todo' = {} /\ sweep' = FALSE
    /\ wish' = [t \in Tickers |-> IF wish[t] = "queued" THEN "forgotten" ELSE wish[t]]
    /\ late' = FALSE /\ due' = {}
    /\ UNCHANGED <<watchVars, configVars, edits, refused, healed>>

(* The user, at any time *)

Edit == edits < MaxEdits /\ edits' = edits + 1

\* The user creates or overwrites a watch file.
UserWrites(f, tickers) ==
    /\ Edit
    /\ present' = present \cup {f} /\ watch' = [watch EXCEPT ![f] = tickers]
    /\ late' = (late \/ f \in file)
    /\ UNCHANGED <<configVars, queue, alive, scanVars, exits, due, refused, healed>>
    /\ wish' = [t \in Tickers |-> IF t \in tickers THEN "filed"
                                 ELSE IF Withdrawn(t) THEN "none" ELSE wish[t]]

UserDeletes(f) ==
    /\ "delete" \in Edits /\ Edit /\ f \in present
    /\ Remove({f})
    /\ UNCHANGED <<configVars, queue, alive, scanVars, exits, late, due, refused, healed>>
    /\ wish' = [t \in Tickers |-> IF Withdrawn(t) THEN "none" ELSE wish[t]]

UserMaps(t) ==
    /\ "map" \in Edits /\ Edit /\ readable /\ tmap[t] # "mapped"
    /\ tmap' = [tmap EXCEPT ![t] = "mapped"]
    /\ refused' = refused \ {t} /\ healed' = healed \ {t}
    /\ UNCHANGED <<watchVars, readable, blacklist, timeframes, dirs, queue, alive,
                   scanVars, exits, late, wish, due>>

\* With the ticker mapped to null this alone does not bring it back.
UserUnblacklists(t) ==
    /\ "unblacklist" \in Edits /\ Edit /\ t \in blacklist
    /\ blacklist' = blacklist \ {t}
    /\ LET free == IF tmap[t] = "mapped" THEN {t} ELSE {}
       IN  refused' = refused \ free /\ healed' = healed \ free
    /\ UNCHANGED <<watchVars, tmap, readable, timeframes, dirs, queue, alive,
                   scanVars, exits, late, wish, due>>

UserBreaksMap ==
    /\ "break" \in Edits /\ Edit /\ readable
    /\ readable' = FALSE
    /\ UNCHANGED <<watchVars, tmap, blacklist, timeframes, dirs, queue, alive,
                   scanVars, exits, history>>

UserRepairsMap ==
    /\ ~readable
    /\ readable' = TRUE
    /\ UNCHANGED <<watchVars, tmap, blacklist, timeframes, dirs, queue, alive,
                   scanVars, bounds, history>>

Scan ==
    \/ Cleanup \/ ScanEnds \/ SweepEnds
    \/ \E f \in Files : ReadFile(f)
    \/ \E t \in Tickers : EnqueueTicker(t) \/ SkipTicker(t) \/ ScanRaises(t) \/ SweepDir(t)

Download(s) == Delivers(s) \/ Refuses(s) \/ RefusesAfterBars(s) \/ EndsWithout(s)

Next ==
    \/ Scan \/ ScanBegin \/ TriggerStaleness \/ LoopDies \/ Restart
    \/ \E a \in ApiAsks : ApiDownload(a) \/ ApiBreaksOff(a)
    \/ \E s \in Tickers \X Timeframes : Download(s)
    \/ \E f \in Files : UserDeletes(f) \/ \E tickers \in SUBSET Tickers : UserWrites(f, tickers)
    \/ \E t \in Tickers : ApiRejects(t) \/ UserMaps(t) \/ UserUnblacklists(t)
    \/ UserBreaksMap \/ UserRepairsMap

Spec == Init /\ [][Next]_vars

\* A scan that has begun goes on, and the watcher's timer comes round again
\* although handlers and downloads run in between.  Nothing is assumed of the
\* queue (requests of the API come before those of the watcher, however many
\* there are), of the user and of the clients.
FairSpec == Spec /\ WF_vars(Scan) /\ SF_vars(ScanBegin)

-----------------------------------------------------------------------------
(* What the ways in and the ends of the downloads implement *)

TL == INSTANCE TickerLists WITH asked <- queue

\* The watch files, the API and the sweep keep the promises of TickerLists, as the
\* download loop does: nothing comes into the queue that the lists exclude, and the
\* lists change with the end of a download as the loop changes them (F-FNC-070,
\* F-IMP-070).
ImplementsTickerLists == TL!Spec

-----------------------------------------------------------------------------
Wishes == {"none", "filed", "queued", "settled", "skipped", "raced", "forgotten"}

\* Types of the variables, and which parts of the memory are in use where.
TypeOK ==
    /\ present \subseteq Files /\ watch \in [Files -> SUBSET Tickers]
    /\ tmap \in [Tickers -> {"absent", "mapped", "null"}] /\ readable \in BOOLEAN
    /\ blacklist \subseteq Tickers /\ dirs \subseteq Tickers
    /\ timeframes \in [Tickers -> SUBSET Timeframes]
    /\ queue \subseteq Tickers \X Timeframes /\ alive \in BOOLEAN
    /\ pc \in {"idle", "scanning", "resolving", "cleaning", "sweeping"}
    /\ files \subseteq Files /\ file \subseteq Files /\ todo \subseteq Tickers
    /\ files # {} => pc \in {"scanning", "resolving", "cleaning"}
    /\ file # {} <=> pc \in {"resolving", "cleaning"}
    /\ pc = "resolving" => todo # {}
    /\ todo # {} => pc \in {"resolving", "sweeping"}
    /\ pc = "sweeping" => sweep
    /\ sweep \in BOOLEAN /\ late \in BOOLEAN
    /\ edits \in 0..MaxEdits /\ exits \in 0..MaxExits
    /\ wish \in [Tickers -> Wishes] /\ due \subseteq Tickers \X Timeframes
    /\ refused \subseteq Tickers /\ healed \subseteq refused

\* A ticker the user put into a watch file is in a file until it is taken, and
\* then in the queue until its downloads have ended, although files are deleted
\* and their processing breaks off in the middle (F-INT-030, file_watcher.py
\* 65-71).  The ways out: it was skipped, the user wrote it between the read and
\* the deletion of the file, or the queue died with the node.
WishIsTracked ==
    \A t \in Tickers :
        /\ wish[t] = "filed" => Pending(t)
        /\ wish[t] = "queued" => \E s \in due \cap queue : s[1] = t

\* Such a ticker comes into the queue, or is skipped, unless it got lost in one of
\* those ways, the user withdraws it, or the ticker map does not parse in between.
\* (Whether what is queued gets its turn depends on the requests of the API.)
WishIsTaken ==
    \A t \in Tickers :
        wish[t] = "filed" ~> wish[t] # "filed" \/ ~readable

\* A ticker the gateway refused to qualify, while the map parsed, comes into the
\* queue by none of the three ways until the user steps in, even if another of its
\* series, already in the queue, delivers bars and takes it off the blacklist: then
\* the map keeps it out (F-FNC-070, F-IMP-070).  The way out is the self-healing of
\* downloader.py 284-286: a ticker that the user has mapped is on the blacklist
\* only, and is back as soon as bars of another series, or those of the chunks
\* before the refusal, take it off.
RefusalSticks ==
    [][\A s \in queue' \ queue :
         s[1] \in refused => s[1] \in healed /\ tmap[s[1]] = "mapped"]_vars
=============================================================================
