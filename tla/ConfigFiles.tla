------------------------------ MODULE ConfigFiles ------------------------------
(***************************************************************************)
(* The JSON files that both the node and a user write: ticker_map.json     *)
(* and the other configuration (config_loader.py), failed_ticker.json      *)
(* (failed_ticker_store.py) and a ticker's timeframes.json.                *)
(*                                                                         *)
(* The node's code between two awaits is one step for its own tasks, but   *)
(* not for the user and not for the end of the process.  Here it is taken  *)
(* apart: a file is read, opened for writing (and empty from then on),     *)
(* written, and for a configuration read again; its modification time is   *)
(* taken after the reading.  The node may die, and the writing may fail,   *)
(* after the file was emptied.  The user saves a file in one step, at any  *)
(* time but in the moment between opening and writing.                     *)
(***************************************************************************)
EXTENDS Naturals

CONSTANTS
    Items,     \* keys: tickers, or the time frames of one ticker
    Configs,   \* the files kept in memory, ticker_map.json among them
    Defaults,  \* what timeframes.json counts as when it does not parse
    MaxEdits,  \* bound: how often the user saves a file
    MaxExits   \* bound: how often the node dies, or fails to write

MAP == "ticker_map"
BLACKLIST == "failed_ticker"
FRAMES == "timeframes"
Lists == {BLACKLIST, FRAMES}  \* files that are read anew at every use
Files == Configs \cup Lists

ASSUME ConfigFilesAssumption ==
    /\ MAP \in Configs /\ Configs \cap Lists = {}
    /\ Items # {} /\ Defaults \subseteq Items
    /\ MaxEdits \in Nat /\ MaxExits \in Nat

\* A key may have no entry, one that the node made, or one that the user made.
Entries == {"absent", "auto", "manual"}
Contents == [Items -> Entries]
Nothing == [i \in Items |-> "absent"]
\* What a file counts as that is not there, and a list that does not parse.
Default(f) == [i \in Items |-> IF f = FRAMES /\ i \in Defaults THEN "auto" ELSE "absent"]

VARIABLES
    data,      \* the entries in each file, be it torn or not
    torn,      \* the files that do not parse
    mem,       \* the configurations in memory
    noted,     \* the files whose last change the recorded mtime belongs to
    pc,        \* "idle", "read", "truncate", "dump", "load", "stamp", "down"
    job,       \* the file in hand, the key to add or to remove
    register,  \* register_unmapped_ticker is to follow
    base,      \* the content that is about to be written
    alive,     \* the download loop runs
    edits, exits,
    \* history variables, for the properties only
    agreed,    \* what all changes of both sides add up to
    missed,    \* files saved between the reading and the taking of the mtime
    spoiled,   \* files in which the node has overwritten what it had not read
    cut        \* files that were emptied for a writing that did not come

history == <<agreed, missed, spoiled, cut>>
vars == <<data, torn, mem, noted, pc, job, register, base, alive, edits, exits, history>>

Job == [file : Files, item : Items, op : {"add", "remove"}]
NoJob == CHOOSE j \in Job : j.file = MAP
-----------------------------------------------------------------------------
Init ==
    /\ data = [f \in Files |-> Default(f)] /\ agreed = data /\ torn = {}
    /\ mem = [c \in Configs |-> data[c]] /\ noted = Configs
    /\ pc = "idle" /\ job = NoJob /\ register = FALSE /\ base = Nothing /\ alive = TRUE
    /\ edits = 0 /\ exits = 0 /\ missed = {} /\ spoiled = {} /\ cut = {}

(* A change by the node *)

Begin(f, i, op, then) ==
    /\ pc = "idle"
    /\ pc' = "read" /\ job' = [file |-> f, item |-> i, op |-> op] /\ register' = then
    /\ UNCHANGED <<data, torn, mem, noted, base, alive, edits, exits, history>>

\* The handler of QUALIFY_FAILED: FailedTickerStore.add, then the registration.
Refuse(i) == alive /\ Begin(BLACKLIST, i, "add", TRUE)
\* POST /download for a ticker that is mapped to null.
ApiRejects(i) == Begin(BLACKLIST, i, "add", FALSE)
\* A download brought bars: FailedTickerStore.remove.
Recover(i) == alive /\ Begin(BLACKLIST, i, "remove", FALSE)
\* POST /download names a time frame: add_timeframe_to_ticker.
AddTimeframe(i) == Begin(FRAMES, i, "add", FALSE)

\* The registration is not crossed off when it begins.
JobEndsRepeating ==
    /\ base' = Nothing /\ UNCHANGED register
    /\ pc' = IF register THEN "read" ELSE "idle"
    /\ job' = IF register THEN [job EXCEPT !.file = MAP] ELSE NoJob

\* The job is done, and the one after it begins.
JobEnds ==
    /\ base' = Nothing /\ register' = FALSE
    /\ pc' = IF register THEN "read" ELSE "idle"
    /\ job' = IF register THEN [job EXCEPT !.file = MAP] ELSE NoJob

Reading(f) == IF f \in torn THEN Default(f) ELSE data[f]

\* There is nothing to change, or the ticker map does not parse.
PassOver ==
    /\ pc = "read"
    /\ \/ (Reading(job.file)[job.item] = "absent") = (job.op = "remove")
       \/ job.file = MAP /\ MAP \in torn
    /\ JobEnds
    /\ UNCHANGED <<data, torn, mem, noted, alive, edits, exits, history>>

Changed(content) == [content EXCEPT ![job.item] = IF job.op = "add" THEN "auto" ELSE "absent"]

\* The entry is made whatever is there.
ReadOverwriting ==
    /\ pc = "read"
    /\ job.file = MAP => MAP \notin torn
    /\ base' = Changed(Reading(job.file)) /\ pc' = "truncate"
    /\ spoiled' = IF job.file \in torn THEN spoiled \cup {job.file} ELSE spoiled
    /\ UNCHANGED <<data, torn, mem, noted, job, register, alive, edits, exits, agreed, missed, cut>>

\* An unreadable list is taken for empty, or for the default.
Read ==
    /\ pc = "read"
    /\ (Reading(job.file)[job.item] = "absent") = (job.op = "add")
    /\ job.file = MAP => MAP \notin torn
    /\ base' = Changed(Reading(job.file)) /\ pc' = "truncate"
    /\ spoiled' = IF job.file \in torn THEN spoiled \cup {job.file} ELSE spoiled
    /\ UNCHANGED <<data, torn, mem, noted, job, register, alive, edits, exits, agreed, missed, cut>>

\* open(path, "w"): every entry is gone, and {} or [] is not there either.
Truncate ==
    /\ pc = "truncate" /\ pc' = "dump"
    /\ data' = [data EXCEPT ![job.file] = Nothing]
    /\ torn' = torn \cup {job.file} /\ noted' = noted \ {job.file}
    /\ UNCHANGED <<mem, job, register, base, alive, edits, exits, history>>

\* json.dump and the end of the with statement.
Dump ==
    /\ pc = "dump"
    /\ data' = [data EXCEPT ![job.file] = base] /\ torn' = torn \ {job.file}
    /\ noted' = noted \ {job.file}
    /\ agreed' = [agreed EXCEPT ![job.file] =
                    IF job.op = "add" /\ @[job.item] # "absent" THEN @ ELSE Changed(@)]
    /\ IF job.file = MAP THEN pc' = "load" /\ UNCHANGED <<job, register, base>>
                         ELSE JobEnds
    /\ UNCHANGED <<mem, alive, edits, exits, missed, spoiled, cut>>

\* json.dump raises, of a full disk: the handler is left by the exception.
DumpFails ==
    /\ pc = "dump" /\ exits < MaxExits
    /\ exits' = exits + 1
    /\ pc' = "idle" /\ job' = NoJob /\ register' = FALSE /\ base' = Nothing
    /\ cut' = cut \cup {job.file}
    /\ UNCHANGED <<data, torn, mem, noted, alive, edits, agreed, missed, spoiled>>

(* A configuration comes into memory *)

\* The entries of the file are added to those in memory.
LoadMerging(c) ==
    /\ c \notin torn
    /\ mem' = [mem EXCEPT ![c] = [i \in Items |-> IF data[c][i] # "absent" THEN data[c][i] ELSE @[i]]]
    /\ missed' = missed \ {c}
    /\ pc' = "stamp" /\ job' = [job EXCEPT !.file = c]
    /\ UNCHANGED <<data, torn, noted, register, base, alive, edits, exits, agreed, spoiled, cut>>

\* _load_ticker_map and the other loaders: what was in memory is dropped.
Load(c) ==
    /\ c \notin torn
    /\ mem' = [mem EXCEPT ![c] = data[c]] /\ missed' = missed \ {c}
    /\ pc' = "stamp" /\ job' = [job EXCEPT !.file = c]
    /\ UNCHANGED <<data, torn, noted, register, base, alive, edits, exits, agreed, spoiled, cut>>

\* Every configuration but the ticker map.
ReloadAllButMap(c) == pc = "idle" /\ c \notin noted /\ c # MAP /\ Load(c)

\* reload_if_changed, of the loop and of the resolver, for a file with another mtime.
Reload(c) == pc = "idle" /\ c \notin noted /\ Load(c)

\* The map that was just written.
LoadWritten == pc = "load" /\ Load(MAP)

\* It does not parse by now: _process_request is left by the exception.
LoadRaises ==
    /\ pc = "load" /\ MAP \in torn
    /\ JobEnds
    /\ UNCHANGED <<data, torn, mem, noted, alive, edits, exits, history>>

\* path.stat(), after the file was read.
Stamp ==
    /\ pc = "stamp"
    /\ noted' = noted \cup {job.file}
    /\ JobEnds
    /\ UNCHANGED <<data, torn, mem, alive, edits, exits, history>>

\* run_loop does not survive an exception of reload_if_changed.
LoopDies ==
    /\ pc = "idle" /\ alive /\ \E c \in Configs \cap torn : c \notin noted
    /\ alive' = FALSE
    /\ UNCHANGED <<data, torn, mem, noted, pc, job, register, base, edits, exits, history>>

(* The process *)

Exit ==
    /\ pc # "down" /\ exits < MaxExits
    /\ exits' = exits + 1
    /\ pc' = "down" /\ alive' = FALSE
    /\ job' = NoJob /\ register' = FALSE /\ base' = Nothing
    /\ cut' = IF pc = "dump" THEN cut \cup {job.file} ELSE cut
    /\ UNCHANGED <<data, torn, mem, noted, edits, agreed, missed, spoiled>>

\* A start loads all configurations, and fails if one does not parse.  (Here in
\* one step: what comes between them is what comes between Load and Stamp.)
Start ==
    /\ pc = "down" /\ Configs \cap torn = {}
    /\ pc' = "idle" /\ alive' = TRUE
    /\ mem' = [c \in Configs |-> data[c]] /\ noted' = Configs /\ missed' = {}
    /\ UNCHANGED <<data, torn, job, register, base, edits, exits, agreed, spoiled, cut>>

(* The user *)

InHand(f, p) == job.file = f /\ pc = p

\* What every save does to the file's mtime, and to what the node has read of it.
Saves(f) ==
    /\ edits < MaxEdits /\ edits' = edits + 1
    /\ ~InHand(f, "dump")
    /\ noted' = noted \ {f}
    /\ missed' = IF InHand(f, "stamp") THEN missed \cup {f} ELSE missed
    /\ spoiled' = IF InHand(f, "truncate") THEN spoiled \cup {f} ELSE spoiled
    /\ UNCHANGED <<mem, pc, job, register, base, alive, exits, cut>>

UserSets(f, i, entry) ==
    /\ Saves(f) /\ f \notin torn /\ data[f][i] # entry
    /\ data' = [data EXCEPT ![f][i] = entry] /\ agreed' = [agreed EXCEPT ![f][i] = entry]
    /\ UNCHANGED torn

\* A save that leaves the file unparsable, and one that puts it right: the entries
\* stay, and those of a file that the node has emptied stay gone.
UserBreaks(f)  == Saves(f) /\ f \notin torn /\ torn' = torn \cup {f} /\ UNCHANGED <<data, agreed>>
UserRepairs(f) == Saves(f) /\ f \in torn /\ torn' = torn \ {f} /\ UNCHANGED <<data, agreed>>

JobStep == PassOver \/ Read \/ Truncate \/ Dump \/ DumpFails \/ LoadWritten \/ LoadRaises \/ Stamp

Next ==
    \/ JobStep \/ LoopDies \/ Exit \/ Start
    \/ \E i \in Items : Refuse(i) \/ ApiRejects(i) \/ Recover(i) \/ AddTimeframe(i)
    \/ \E c \in Configs : Reload(c)
    \/ \E f \in Files :
        \/ \E i \in Items, entry \in {"absent", "manual"} : UserSets(f, i, entry)
        \/ UserBreaks(f) \/ UserRepairs(f)

Spec == Init /\ [][Next]_vars

\* Code that is under way goes on, and the download loop comes by its reload
\* again and again (every second, or after a request), whatever else the node
\* does in between.  Nothing is assumed of users, clients and restarts.
FairSpec ==
    /\ Spec /\ WF_vars(JobStep) /\ SF_vars(LoopDies)
    /\ \A c \in Configs : SF_vars(alive /\ Reload(c))
-----------------------------------------------------------------------------
\* Types of the variables, and which parts of the memory are in use where.
TypeOK ==
    /\ data \in [Files -> Contents] /\ agreed \in [Files -> Contents]
    /\ torn \subseteq Files /\ spoiled \subseteq Files /\ cut \subseteq Files
    /\ mem \in [Configs -> Contents] /\ noted \subseteq Configs /\ missed \subseteq Configs
    /\ pc \in {"idle", "read", "truncate", "dump", "load", "stamp", "down"}
    /\ job \in Job /\ base \in Contents
    /\ register \in BOOLEAN /\ alive \in BOOLEAN
    /\ register => pc \in {"read", "truncate", "dump"} /\ job.file = BLACKLIST
    /\ pc \in {"read", "truncate", "dump"} => job.file \in Lists \cup {MAP}
    /\ pc = "stamp" => job.file \in Configs
    /\ pc = "load" => job.file = MAP
    /\ base # Nothing => pc \in {"truncate", "dump", "load", "stamp"}
    /\ pc = "dump" => job.file \in torn
    /\ edits \in 0..MaxEdits /\ exits \in 0..MaxExits

\* No change of either side gets lost on the way through the reading, the
\* emptying and the writing of a file, nor over a restart: an entry of the user
\* is never replaced, and the other entries stay (config_loader.py 103, 106;
\* failed_ticker_store.py 32-54).  There are three ways to lose some: the user
\* saved between the node's reading and its writing; the node took a list that
\* did not parse for empty; or the node died, or failed to write, when it had
\* emptied the file.
ChangesAddUp ==
    \A f \in Files \ (spoiled \cup cut) : data[f] = agreed[f] \/ InHand(f, "dump")

\* What is in memory is what the file holds, as soon as the recorded mtime is
\* that of its last change, unless that change fell between the reading of the
\* file and the taking of its mtime (config_loader.py 116-134, 205).
MemoryIsCurrent ==
    pc \notin {"down", "stamp"} =>
        \A c \in noted \ missed : mem[c] = data[c]

\* A change of a configuration takes effect while the node runs (F-CFG-040),
\* unless it falls between reading and mtime, or a configuration that does not
\* parse ends the download loop.
EditTakesEffect ==
    \A c \in Configs :
        mem[c] # data[c] ~> mem[c] = data[c] \/ c \in missed \/ ~alive
=============================================================================
