----------------------------- MODULE ParquetStore -----------------------------
(***************************************************************************)
(* The files of the node over its lives: append_bars of parquet_writer.py  *)
(* (read, merge, write a temporary file, rename), the integrity check of   *)
(* startup_checks.py with its recovery watch file, and the node that       *)
(* exits at any step and is started again (docker-compose.yml).            *)
(*                                                                         *)
(* append_bars and the checks contain no await: nothing else of the node   *)
(* runs between their steps.  But the node may die between any two of      *)
(* them, another process reads the files all the time, and a file may be   *)
(* damaged (a power cut before the data reached the disk, a bad block).    *)
(***************************************************************************)
EXTENDS Naturals

CONSTANTS
    Tickers, Timeframes,
    Series,       \* the files there may be, <<ticker, timeframe>>
    Slot,         \* the timestamps a bar may have
    InitialBars,  \* the sets of slots a file may hold at the start
    Faults,       \* "write", "unlink", "nodata": what may fail
    MaxExits,     \* bound: how often the node exits
    MaxDamage     \* bound: how often a file is damaged

ASSUME ParquetStoreAssumption ==
    /\ Series \subseteq Tickers \X Timeframes
    /\ Slot \subseteq Nat /\ Slot # {}
    /\ InitialBars \subseteq SUBSET Slot
    /\ MaxExits \in Nat /\ MaxDamage \in Nat

VARIABLES
    \* on disk
    file,      \* <timeframe>.parquet of each series
    tmp,       \* <timeframe>.parquet.tmp of each series
    recovery,  \* the tickers in _recovery.txt; an empty file counts as none
    \* in memory
    pc,        \* "down", "checking", "noting", "truncated", "up", or in
               \* append_bars: "merged", "writing", "written"
    todo,      \* the files the integrity check has not looked at yet
    found,     \* corrupt_tickers
    queue,     \* the series asked for
    job,       \* the series append_bars works on, at most one
    table,     \* the merged table
    parses,    \* the configuration parses
    \* counters of the bounds
    exits, damage,
    \* history variables, for the properties only
    doubt,     \* files damaged since this life's check, or that it could not delete
    owed,      \* series the check found corrupt and that were not written since
    failed,    \* of these, those whose download failed
    forgotten, \* of these, those that only memory, or an overwritten file, knew of
    skipped    \* of these, those the watcher did not ask for when it took the file

disk    == <<file, tmp, recovery>>
memory  == <<pc, todo, found, queue, job, table>>
history == <<doubt, owed, failed, forgotten, skipped>>
vars == <<disk, memory, parses, exits, damage, history>>

BS == INSTANCE BarStore WITH content <- file

Holds(s) == file[s].bars

-----------------------------------------------------------------------------
Init ==
    /\ file \in [Series -> {BS!Absent} \cup {BS!Holding(b) : b \in InitialBars}]
    /\ tmp = [s \in Series |-> BS!Absent]
    /\ recovery = {}
    /\ pc = "down" /\ todo = {} /\ found = {} /\ queue = {} /\ job = {} /\ table = {}
    /\ parses = TRUE /\ exits = 0 /\ damage = 0
    /\ doubt = {} /\ owed = {} /\ failed = {} /\ forgotten = {} /\ skipped = {}

(* The life of the node *)

\* The container starts the program; rglob lists the parquet files there are.
Start ==
    /\ pc = "down" /\ parses
    /\ pc' = "checking"
    /\ todo' = {s \in Series : file[s] # BS!Absent}
    /\ doubt' = {}
    /\ UNCHANGED <<disk, found, queue, job, table, parses, exits, damage,
                   owed, failed, forgotten, skipped>>

\* A crash, a stop, or the exit of main when the gateway cannot be reached.
Exit ==
    /\ pc # "down" /\ exits < MaxExits
    /\ exits' = exits + 1
    /\ pc' = "down"
    /\ todo' = {} /\ found' = {} /\ queue' = {} /\ job' = {} /\ table' = {}
    /\ forgotten' = forgotten \cup {s \in owed : s[1] \notin recovery}
    /\ UNCHANGED <<disk, parses, damage, doubt, owed, failed, skipped>>

\* What became of an earlier loss of the series counts no more.
SettleAccount(s) ==
    failed' = failed \ {s} /\ forgotten' = forgotten \ {s} /\ skipped' = skipped \ {s}

(* startup_checks.run_all_checks *)

CheckPasses(s) ==
    /\ pc = "checking" /\ s \in todo /\ file[s] # BS!Corrupt
    /\ todo' = todo \ {s}
    /\ UNCHANGED <<disk, pc, found, queue, job, table, parses, exits, damage, history>>

\* The check without the deletion.
CheckFindsKeeping(s) ==
    /\ pc = "checking" /\ s \in todo /\ file[s] = BS!Corrupt
    /\ todo' = todo \ {s}
    /\ found' = found \cup {s[1]}
    /\ owed' = owed \cup {s}
    /\ SettleAccount(s)
    /\ UNCHANGED <<disk, pc, queue, job, table, parses, exits, damage, doubt>>

\* A corrupt file is deleted, if it can be, and its ticker is collected.
CheckFinds(s) ==
    /\ pc = "checking" /\ s \in todo /\ file[s] = BS!Corrupt
    /\ todo' = todo \ {s}
    /\ found' = found \cup {s[1]}
    /\ \/ file' = [file EXCEPT ![s] = BS!Absent] /\ UNCHANGED doubt
       \/ "unlink" \in Faults /\ doubt' = doubt \cup {s} /\ UNCHANGED file
    /\ owed' = owed \cup {s}
    /\ SettleAccount(s)
    /\ UNCHANGED <<tmp, recovery, pc, queue, job, table, parses, exits, damage>>

\* The end of the check without the recovery file.
ChecksDoneUnnoted ==
    /\ pc = "checking" /\ todo = {}
    /\ pc' = "up"
    /\ UNCHANGED <<disk, todo, found, queue, job, table, parses, exits, damage, history>>

ChecksDone ==
    /\ pc = "checking" /\ todo = {}
    /\ pc' = IF found = {} THEN "up" ELSE "noting"
    /\ UNCHANGED <<disk, todo, found, queue, job, table, parses, exits, damage, history>>

\* _write_recovery_watch_file: open(..., "w") empties what an earlier life left.
OpenRecovery ==
    /\ pc = "noting"
    /\ recovery' = {}
    /\ forgotten' = forgotten \cup {s \in owed : s[1] \notin found}
    /\ pc' = "truncated"
    /\ UNCHANGED <<file, tmp, todo, found, queue, job, table, parses, exits, damage,
                   doubt, owed, failed, skipped>>

\* The recovery file written without its last line.
WriteRecoveryButLast ==
    /\ pc = "truncated"
    /\ recovery' = IF found = {} THEN {} ELSE found \ {CHOOSE t \in found : TRUE}
    /\ found' = {}
    /\ pc' = "up"
    /\ UNCHANGED <<file, tmp, todo, queue, job, table, parses, exits, damage, history>>

WriteRecovery ==
    /\ pc = "truncated"
    /\ recovery' = found
    /\ found' = {}
    /\ pc' = "up"
    /\ UNCHANGED <<file, tmp, todo, queue, job, table, parses, exits, damage, history>>

(* What asks for downloads *)

\* What the watcher asks for when it takes the recovery file: the time frames
\* listed for each ticker that resolve() does not turn away.
Asked(turnedAway, listed) == {s \in listed : s[1] \in recovery \ turnedAway}

\* A scan that asks for the daily bars only.
ScanDailyOnly(turnedAway, listed) ==
    /\ pc = "up" /\ recovery # {}
    /\ parses \/ turnedAway = recovery
    /\ queue' = queue \cup {s \in Asked(turnedAway, listed) : s[2] = "1D"}
    /\ recovery' = {}
    /\ skipped' = skipped \cup
         {s \in owed : s[1] \in recovery /\ s \notin queue \cup Asked(turnedAway, listed)}
    /\ UNCHANGED <<file, tmp, pc, todo, found, job, table, parses, exits, damage,
                   doubt, owed, failed, forgotten>>

\* The file watcher takes the recovery file and deletes it, whomever it passed
\* over.  A ticker is turned away that is on the blacklist or mapped to null; a
\* series is not listed that timeframes.json, or the default instead of it, does
\* not name.  With a map that does not parse, the first ticker that is not on the
\* blacklist raises, and the file stays.
Scan(turnedAway, listed) ==
    /\ pc = "up" /\ recovery # {}
    /\ parses \/ turnedAway = recovery
    /\ queue' = queue \cup Asked(turnedAway, listed)
    /\ recovery' = {}
    /\ skipped' = skipped \cup
         {s \in owed : s[1] \in recovery /\ s \notin queue \cup Asked(turnedAway, listed)}
    /\ UNCHANGED <<file, tmp, pc, todo, found, job, table, parses, exits, damage,
                   doubt, owed, failed, forgotten>>

ScanAny == \E turnedAway \in SUBSET recovery, listed \in SUBSET Series : Scan(turnedAway, listed)

\* Any other request, by the API or a watch file.
Request(s) ==
    /\ pc = "up"
    /\ queue' = queue \cup {s}
    /\ UNCHANGED <<disk, pc, todo, found, job, table, parses, exits, damage, history>>

(* The download of a series *)

\* What is asked for: all when read_last_timestamp finds nothing it can read,
\* otherwise what is later than the last bar.
Window(s) == {t \in Slot : \A u \in Holds(s) : u < t}

UpToDate(s) ==
    /\ pc = "up" /\ s \in queue /\ Window(s) = {}
    /\ queue' = queue \ {s}
    /\ UNCHANGED <<disk, pc, todo, found, job, table, parses, exits, damage, history>>

\* The gateway delivers nothing and the request ends.
FetchNothing(s) ==
    /\ pc = "up" /\ s \in queue /\ "nodata" \in Faults
    /\ queue' = queue \ {s}
    /\ failed' = failed \cup ({s} \cap owed)
    /\ UNCHANGED <<disk, pc, todo, found, job, table, parses, exits, damage,
                   doubt, owed, forgotten, skipped>>

\* append_bars up to its first write: the bars merged with the readable old ones.
Merge(s, bars) ==
    /\ pc = "up" /\ s \in queue /\ bars # {}
    /\ job' = {s}
    /\ table' = Holds(s) \cup bars
    /\ pc' = "merged"
    /\ UNCHANGED <<disk, todo, found, queue, parses, exits, damage, history>>

Fetch(s) == \E bars \in SUBSET Window(s) : Merge(s, bars)

\* Writing the parquet file in place.
WriteInPlace(s) ==
    /\ pc = "merged" /\ s \in job
    /\ file' = [file EXCEPT ![s] = BS!Corrupt]
    /\ pc' = "writing"
    /\ UNCHANGED <<tmp, recovery, todo, found, queue, job, table, parses, exits, damage, history>>

\* pq.write_table has begun: the temporary file is there, and unreadable.
WriteTmp(s) ==
    /\ pc = "merged" /\ s \in job
    /\ tmp' = [tmp EXCEPT ![s] = BS!Corrupt]
    /\ pc' = "writing"
    /\ UNCHANGED <<file, recovery, todo, found, queue, job, table, parses, exits, damage, history>>

\* pq.write_table has returned.
CloseTmp(s) ==
    /\ pc = "writing" /\ s \in job
    /\ tmp' = [tmp EXCEPT ![s] = BS!Holding(table)]
    /\ pc' = "written"
    /\ UNCHANGED <<file, recovery, todo, found, queue, job, table, parses, exits, damage, history>>

EndOfJob(s) ==
    /\ job' = {} /\ table' = {}
    /\ queue' = queue \ {s}
    /\ tmp' = [tmp EXCEPT ![s] = BS!Absent]
    /\ pc' = "up"

\* os.replace moves the temporary file over the other one.
Replace(s) ==
    /\ pc = "written" /\ s \in job
    /\ file' = [file EXCEPT ![s] = tmp[s]]
    /\ EndOfJob(s)
    /\ doubt' = doubt \ {s}
    /\ owed' = owed \ {s}
    /\ SettleAccount(s)
    /\ UNCHANGED <<recovery, todo, found, parses, exits, damage>>

\* The write or the rename raises: the temporary file is removed, and the
\* exception ends the request.
WriteFails(s) ==
    /\ s \in job /\ "write" \in Faults
    /\ EndOfJob(s)
    /\ failed' = failed \cup ({s} \cap owed)
    /\ UNCHANGED <<file, recovery, todo, found, parses, exits, damage,
                   doubt, owed, forgotten, skipped>>

(* The world outside *)

Damage(s) ==
    /\ damage < MaxDamage /\ file[s] \notin {BS!Absent, BS!Corrupt}
    /\ file' = [file EXCEPT ![s] = BS!Corrupt]
    /\ damage' = damage + 1
    /\ doubt' = doubt \cup {s}
    /\ UNCHANGED <<tmp, recovery, memory, parses, exits, owed, failed, forgotten, skipped>>

\* A save of the configuration that leaves it unreadable, or puts it right.
UserEdits ==
    /\ parses' = ~parses
    /\ UNCHANGED <<disk, memory, exits, damage, history>>

Next ==
    \/ Start \/ Exit \/ ChecksDone \/ OpenRecovery \/ WriteRecovery \/ ScanAny \/ UserEdits
    \/ \E s \in Series :
         \/ CheckPasses(s) \/ CheckFinds(s)
         \/ Request(s) \/ UpToDate(s) \/ FetchNothing(s) \/ Fetch(s)
         \/ WriteTmp(s) \/ CloseTmp(s) \/ Replace(s) \/ WriteFails(s)
         \/ Damage(s)

Spec == Init /\ [][Next]_vars

\* The container is restarted, a program that runs goes on, and the watcher's
\* timer fires between the jobs of append_bars.  Nothing is assumed of the queue:
\* when a request gets its turn depends on the others in it.
FairSpec ==
    /\ Spec
    /\ WF_vars(Start) /\ WF_vars(ChecksDone) /\ WF_vars(OpenRecovery)
    /\ WF_vars(WriteRecovery) /\ SF_vars(ScanAny)
    /\ \A s \in Series :
         /\ WF_vars(CheckPasses(s) \/ CheckFinds(s))
         /\ WF_vars(WriteTmp(s) \/ CloseTmp(s) \/ Replace(s))

-----------------------------------------------------------------------------
Writing == {"merged", "writing", "written"}
Places == {"down", "checking", "noting", "truncated", "up"} \cup Writing

\* Types of the variables, and which parts of the memory are in use where.
TypeOK ==
    /\ file \in [Series -> BS!Contents] /\ tmp \in [Series -> BS!Contents]
    /\ recovery \subseteq Tickers /\ found \subseteq Tickers
    /\ pc \in Places
    /\ todo \subseteq Series /\ queue \subseteq Series /\ job \subseteq Series
    /\ table \subseteq Slot
    /\ todo # {} => pc = "checking"
    /\ found # {} => pc \in {"checking", "noting", "truncated"}
    /\ queue # {} => pc \in {"up"} \cup Writing
    /\ job # {} <=> pc \in Writing
    /\ exits \in 0..MaxExits /\ damage \in 0..MaxDamage
    /\ doubt \subseteq Series /\ owed \subseteq Series
    /\ failed \subseteq owed /\ forgotten \subseteq owed /\ skipped \subseteq owed
    /\ parses \in BOOLEAN

\* Whatever step the node dies at, a reader finds the old bars or the old and
\* the new ones, and never a file the node itself left unreadable (F-DAT-020).
ImplementsBarStore == BS!Spec

\* Once the check of a start is over, a file is unreadable only if it was
\* damaged after that start, or could not be deleted: neither the writer nor an
\* earlier life leaves anything behind that the check misses (F-SYS-020).
CheckedAtStart ==
    pc \notin {"down", "checking"} =>
        \A s \in Series : file[s] = BS!Corrupt => s \in doubt

\* A series the check found corrupt, and whose bars it deleted, is known to
\* someone until it is written again: it is in the check's list, in the recovery
\* file or in the queue (F-SYS-020).  The ways out are those of the history
\* variables: its download failed; the node exited, or overwrote the recovery
\* file, while nothing else knew of it; or the watcher took that file and passed
\* over the ticker or the time frame.
OwedIsTracked ==
    \A s \in owed :
        s[1] \in found \cup recovery \/ s \in queue \cup failed \cup forgotten \cup skipped

\* A series found corrupt comes into the queue, over exits and restarts (no more
\* than MaxExits), unless it got lost in one of those ways, or the configuration
\* does not parse in between.
CorruptIsAskedFor ==
    \A s \in Series : s \in owed ~>
        s \notin owed \/ s \in queue \cup failed \cup forgotten \cup skipped \/ ~parses
=============================================================================
