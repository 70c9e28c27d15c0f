--------------------------- MODULE ConfigFilesProofs ---------------------------
(***************************************************************************)
(* Proofs about ConfigFiles, for any number of keys, configurations, saves *)
(* and crashes.                                                            *)
(***************************************************************************)
EXTENDS ConfigFiles, TLAPS

\* What is about to be written is what the changes add up to, with one more,
\* unless the user has saved since the file was read.  Once the file is empty
\* this is the only place that still has its entries.
BaseInv ==
    (pc \in {"truncate", "dump"} /\ job.file \notin spoiled \cup cut) =>
        /\ base = Changed(agreed[job.file])
        /\ (agreed[job.file][job.item] = "absent") = (job.op = "add")

\* A configuration that was loaded is current also before its mtime is taken.
Loaded == noted \cup {c \in {job.file} : pc = "stamp"}
MemInv == pc # "down" => \A c \in Loaded \ missed : mem[c] = data[c]

UserStep ==
    \E f \in Files :
        \/ \E i \in Items, entry \in {"absent", "manual"} : UserSets(f, i, entry)
        \/ UserBreaks(f) \/ UserRepairs(f)

Begins == \E i \in Items : Refuse(i) \/ ApiRejects(i) \/ Recover(i) \/ AddTimeframe(i)

-----------------------------------------------------------------------------
(* Types *)

\* An empty content, a default and a file to begin with.
LEMMA ContentTypes ==
    /\ Nothing \in Contents /\ \A f : Default(f) \in Contents
    /\ NoJob \in Job /\ NoJob.file = MAP
<1>1. \E j \in Job : j.file = MAP
  <2>1. PICK i \in Items : TRUE
    BY ConfigFilesAssumption
  <2>2. [file |-> MAP, item |-> i, op |-> "add"] \in Job
    BY <2>1, ConfigFilesAssumption DEF Job, Files
  <2> QED
    BY <2>2
<1> QED
  BY <1>1 DEF Nothing, Default, Contents, Entries, NoJob

\* A change of one entry of a content is a content.
LEMMA ChangedType == ASSUME NEW content \in Contents PROVE Changed(content) \in Contents
  BY DEF Changed, Contents, Entries

LEMMA InitTypeOK == Init => TypeOK
<1> SUFFICES ASSUME Init PROVE TypeOK
  OBVIOUS
<1>1. data \in [Files -> Contents]
  BY ContentTypes DEF Init
<1>2. mem \in [Configs -> Contents]
  BY <1>1 DEF Init, Files
<1>3. 0 \in 0..MaxEdits /\ 0 \in 0..MaxExits
  BY ConfigFilesAssumption
<1> QED
  BY <1>1, <1>2, <1>3, ContentTypes DEF Init, TypeOK

\* What the end of a job leaves of it.
JobDone ==
    /\ pc \in {"read", "idle"} /\ job \in Job /\ job.file = MAP
    /\ base = Nothing /\ register = FALSE

LEMMA JobEndsTypes == TypeOK /\ JobEnds => JobDone'
  BY ContentTypes, ConfigFilesAssumption DEF JobEnds, JobDone, TypeOK, Job, Files

\* The steps of a job.
LEMMA JobTypeOK == TypeOK /\ JobStep => TypeOK'
<1> SUFFICES ASSUME TypeOK, JobStep PROVE TypeOK'
  OBVIOUS
<1> USE ContentTypes, ConfigFilesAssumption DEF history
<1>1. CASE PassOver
  <2>1. JobDone'
    BY <1>1, JobEndsTypes DEF PassOver
  <2> QED
    BY <1>1, <2>1 DEF PassOver, TypeOK, JobDone
<1>2. CASE Read
  <2>1. Reading(job.file) \in Contents
    BY DEF Reading, TypeOK, Job
  <2> QED
    BY <1>2, <2>1, ChangedType DEF Read, TypeOK, Job
<1>3. CASE Truncate
  <2>1. data' \in [Files -> Contents]
    BY <1>3 DEF Truncate, TypeOK, Job
  <2> QED
    BY <1>3, <2>1 DEF Truncate, TypeOK, Job
<1>4. CASE Dump
  <2>1. data' \in [Files -> Contents]
    BY <1>4 DEF Dump, TypeOK, Job
  <2>2. agreed' \in [Files -> Contents]
    BY <1>4, ChangedType DEF Dump, TypeOK, Job
  <2>3. CASE job.file = MAP
    BY <1>4, <2>1, <2>2, <2>3 DEF Dump, TypeOK, Job, Lists, BLACKLIST, MAP
  <2>4. CASE job.file # MAP
    <3>1. JobDone'
      BY <1>4, <2>4, JobEndsTypes DEF Dump
    <3> QED
      BY <1>4, <2>1, <2>2, <2>4, <3>1 DEF Dump, TypeOK, JobDone
  <2> QED
    BY <2>3, <2>4
<1>5. CASE LoadWritten
  BY <1>5 DEF LoadWritten, Load, TypeOK, Job, Files
<1>6. CASE LoadRaises
  <2>1. JobDone'
    BY <1>6, JobEndsTypes DEF LoadRaises
  <2> QED
    BY <1>6, <2>1 DEF LoadRaises, TypeOK, JobDone
<1>7. CASE Stamp
  <2>1. JobDone'
    BY <1>7, JobEndsTypes DEF Stamp
  <2> QED
    BY <1>7, <2>1 DEF Stamp, TypeOK, JobDone
<1>8. CASE DumpFails
  <2>1. exits' \in 0..MaxExits
    BY <1>8 DEF DumpFails, TypeOK
  <2>2. cut' \subseteq Files
    BY <1>8 DEF DumpFails, TypeOK, Job
  <2> QED
    BY <1>8, <2>1, <2>2 DEF DumpFails, TypeOK
<1> QED
  BY <1>1, <1>2, <1>3, <1>4, <1>5, <1>6, <1>7, <1>8 DEF JobStep

\* The other steps of the node, and the user.
LEMMA OtherTypeOK ==
    TypeOK /\ (Begins \/ (\E c \in Configs : Reload(c)) \/ LoopDies \/ Exit \/ Start \/ UserStep)
        => TypeOK'
<1> SUFFICES ASSUME TypeOK,
                    Begins \/ (\E c \in Configs : Reload(c)) \/ LoopDies \/ Exit \/ Start \/ UserStep
             PROVE  TypeOK'
  OBVIOUS
<1> USE ContentTypes, ConfigFilesAssumption DEF history
<1>1. ASSUME NEW f \in Lists, NEW i \in Items, NEW op \in {"add", "remove"},
             NEW then \in BOOLEAN, Begin(f, i, op, then), then => f = BLACKLIST
      PROVE  TypeOK'
  BY <1>1 DEF Begin, TypeOK, Job, Files
<1>2. ASSUME NEW c \in Configs, Reload(c) PROVE TypeOK'
  BY <1>2 DEF Reload, Load, TypeOK, Job, Files
<1>3. CASE LoopDies
  BY <1>3 DEF LoopDies, TypeOK
<1>4. CASE Exit
  <2>1. exits' \in 0..MaxExits
    BY <1>4 DEF Exit, TypeOK
  <2>2. cut' \subseteq Files
    BY <1>4 DEF Exit, TypeOK, Job
  <2> QED
    BY <1>4, <2>1, <2>2 DEF Exit, TypeOK
<1>5. CASE Start
  BY <1>5 DEF Start, TypeOK, Files
<1>6. ASSUME NEW f \in Files, Saves(f),
             \/ \E i \in Items, entry \in {"absent", "manual"} : UserSets(f, i, entry)
             \/ UserBreaks(f) \/ UserRepairs(f)
      PROVE  TypeOK'
  <2>1. edits' \in 0..MaxEdits
    BY <1>6 DEF Saves, TypeOK
  <2>2. data' \in [Files -> Contents] /\ agreed' \in [Files -> Contents]
    <3>1. CASE UserBreaks(f) \/ UserRepairs(f)
      BY <3>1 DEF UserBreaks, UserRepairs, TypeOK
    <3>2. ASSUME NEW i \in Items, NEW entry \in {"absent", "manual"}, UserSets(f, i, entry)
          PROVE  data' \in [Files -> Contents] /\ agreed' \in [Files -> Contents]
      <4>1. \A content \in Contents : [content EXCEPT ![i] = entry] \in Contents
        BY <3>2 DEF Contents, Entries
      <4> QED
        BY <3>2, <4>1 DEF UserSets, TypeOK
    <3> QED
      BY <1>6, <3>1, <3>2
  <2>3. torn' \subseteq Files /\ (pc = "dump" => job.file \in torn')
    BY <1>6 DEF Saves, InHand, UserSets, UserBreaks, UserRepairs, TypeOK
  <2>4. missed' \subseteq Configs /\ spoiled' \subseteq Files /\ noted' \subseteq Configs
    BY <1>6 DEF Saves, InHand, TypeOK
  <2> QED
    BY <1>6, <2>1, <2>2, <2>3, <2>4 DEF Saves, TypeOK
<1> QED
  BY <1>1, <1>2, <1>3, <1>4, <1>5, <1>6
     DEF Begins, Refuse, ApiRejects, Recover, AddTimeframe, Lists, UserStep, UserSets, UserBreaks, UserRepairs

\* The files, the memory and the job keep their types.
THEOREM ConfigFilesTypeOK == Spec => []TypeOK
<1>1. TypeOK /\ UNCHANGED vars => TypeOK'
  BY DEF TypeOK, vars, history
<1>2. TypeOK /\ [Next]_vars => TypeOK'
  BY <1>1, JobTypeOK, OtherTypeOK DEF Next, UserStep, Begins
<1> QED
  BY InitTypeOK, <1>2, PTL DEF Spec

-----------------------------------------------------------------------------
(* No change is lost *)

AddUpInv == ChangesAddUp /\ BaseInv

\* The steps that touch neither the files nor what is about to be written.
LEMMA QuietAddUp ==
    ASSUME TypeOK, AddUpInv, UNCHANGED <<data, agreed, spoiled, cut>>,
           pc' \in {"truncate", "dump"} => pc' = pc /\ UNCHANGED <<job, base>>,
           pc # "dump"
    PROVE  AddUpInv'
  BY DEF AddUpInv, ChangesAddUp, BaseInv, Changed, InHand

LEMMA ReadAddUp == TypeOK /\ AddUpInv /\ Read => AddUpInv'
<1> SUFFICES ASSUME TypeOK, AddUpInv, Read PROVE AddUpInv'
  OBVIOUS
<1>1. ChangesAddUp'
  BY DEF AddUpInv, ChangesAddUp, Read, InHand
<1>2. BaseInv'
  <2>1. job.file \notin spoiled' => Reading(job.file) = data[job.file]
    BY DEF Read, Reading
  <2>2. job.file \notin spoiled' \cup cut' => data[job.file] = agreed[job.file]
    BY DEF Read, AddUpInv, ChangesAddUp, InHand, TypeOK, Job
  <2>3. Changed(Reading(job.file)) = base' /\ UNCHANGED <<job, agreed>>
    BY DEF Read
  <2>4. (Reading(job.file)[job.item] = "absent") = (job.op = "add")
    BY DEF Read
  <2> QED
    BY <2>1, <2>2, <2>3, <2>4 DEF BaseInv, Changed
<1> QED
  BY <1>1, <1>2 DEF AddUpInv

\* The file is empty: what it held is in base.
LEMMA TruncateAddUp == TypeOK /\ AddUpInv /\ Truncate => AddUpInv'
<1> SUFFICES ASSUME TypeOK, AddUpInv, Truncate PROVE AddUpInv'
  OBVIOUS
<1>1. ASSUME NEW f \in Files \ (spoiled' \cup cut')
      PROVE  data'[f] = agreed'[f] \/ InHand(f, "dump")'
  <2>1. f \in Files \ (spoiled \cup cut) /\ ~InHand(f, "dump")
    BY <1>1 DEF Truncate, InHand, history
  <2>2. CASE f = job.file
    BY <2>2 DEF Truncate, InHand
  <2>3. CASE f # job.file
    BY <2>1, <2>3 DEF Truncate, AddUpInv, ChangesAddUp, history, TypeOK
  <2> QED
    BY <2>2, <2>3
<1>2. ChangesAddUp'
  BY <1>1 DEF ChangesAddUp
<1>3. BaseInv'
  BY DEF Truncate, AddUpInv, BaseInv, Changed, history
<1> QED
  BY <1>2, <1>3 DEF AddUpInv

\* What is written is what the changes of both sides add up to.
LEMMA DumpAddUp == TypeOK /\ AddUpInv /\ Dump => AddUpInv'
<1> SUFFICES ASSUME TypeOK, AddUpInv, Dump PROVE AddUpInv'
  OBVIOUS
<1>1. ASSUME NEW f \in Files \ (spoiled' \cup cut') PROVE data'[f] = agreed'[f]
  <2>1. f \in Files \ (spoiled \cup cut)
    BY <1>1 DEF Dump
  <2>2. CASE f # job.file
    BY <2>1, <2>2 DEF Dump, TypeOK, AddUpInv, ChangesAddUp, InHand
  <2>3. CASE f = job.file
    <3>1. base = Changed(agreed[f]) /\ (job.op = "add" => agreed[f][job.item] = "absent")
      BY <2>1, <2>3 DEF Dump, AddUpInv, BaseInv, TypeOK, Job
    <3>2. data'[f] = base
      BY <2>1, <2>3 DEF Dump, TypeOK
    <3>3. agreed'[f] = IF job.op = "add" /\ agreed[f][job.item] # "absent"
                       THEN agreed[f] ELSE Changed(agreed[f])
      BY <2>1, <2>3 DEF Dump, TypeOK
    <3> QED
      BY <3>1, <3>2, <3>3
  <2> QED
    BY <2>2, <2>3
<1>2. pc' \notin {"truncate", "dump"}
  BY DEF Dump, JobEnds
<1> QED
  BY <1>1, <1>2 DEF AddUpInv, ChangesAddUp, BaseInv

\* The writing does not come: the file counts as cut from then on.
LEMMA CutAddUp == TypeOK /\ AddUpInv /\ (DumpFails \/ Exit) => AddUpInv'
<1> SUFFICES ASSUME TypeOK, AddUpInv, DumpFails \/ Exit PROVE AddUpInv'
  OBVIOUS
<1>1. /\ UNCHANGED <<data, agreed, spoiled>> /\ cut \subseteq cut'
      /\ pc = "dump" => job.file \in cut'
  BY DEF DumpFails, Exit
<1>2. pc' \notin {"truncate", "dump"}
  BY DEF DumpFails, Exit
<1> QED
  BY <1>1, <1>2 DEF AddUpInv, ChangesAddUp, BaseInv, InHand

\* A save of a file the node has read and not yet emptied spoils it.
LEMMA UserAddUp == TypeOK /\ AddUpInv /\ UserStep => AddUpInv'
<1> SUFFICES ASSUME TypeOK, AddUpInv,
                    NEW f \in Files, Saves(f),
                    \/ \E i \in Items, entry \in {"absent", "manual"} : UserSets(f, i, entry)
                    \/ UserBreaks(f) \/ UserRepairs(f)
             PROVE  AddUpInv'
  BY DEF UserStep, UserSets, UserBreaks, UserRepairs
<1>1. /\ spoiled \subseteq spoiled' /\ UNCHANGED <<pc, job, base, cut>> /\ ~InHand(f, "dump")
      /\ pc \in {"truncate", "dump"} => job.file \in spoiled' \/ job.file # f
  BY DEF Saves, InHand
<1>2. ASSUME NEW g \in Files PROVE g # f => data'[g] = data[g] /\ agreed'[g] = agreed[g]
  BY DEF UserSets, UserBreaks, UserRepairs, TypeOK
<1>3. data[f] = agreed[f] => data'[f] = agreed'[f]
  BY DEF UserSets, UserBreaks, UserRepairs, TypeOK
<1>4. ChangesAddUp'
  BY <1>1, <1>2, <1>3 DEF AddUpInv, ChangesAddUp, InHand
<1>5. BaseInv'
  <2> SUFFICES ASSUME pc' \in {"truncate", "dump"}, job'.file \notin spoiled' \cup cut'
               PROVE  BaseInv'
    BY DEF BaseInv
  <2>1. job.file # f /\ job.file \notin spoiled \cup cut /\ job.file \in Files
    BY <1>1 DEF TypeOK, Job
  <2>2. agreed'[job.file] = agreed[job.file]
    BY <1>2, <2>1
  <2> QED
    BY <1>1, <2>1, <2>2 DEF AddUpInv, BaseInv, Changed
<1> QED
  BY <1>4, <1>5 DEF AddUpInv

\* Every change of the node and of the user is in the file, unless the two met
\* between a reading and the writing, a list that did not parse was written anew,
\* or the node died or failed between the emptying and the writing.
THEOREM ChangesAlwaysAddUp == Spec => []ChangesAddUp
<1>1. Init => AddUpInv
  BY DEF Init, AddUpInv, ChangesAddUp, BaseInv
<1>2. TypeOK /\ AddUpInv /\ [Next]_vars => AddUpInv'
  <2> SUFFICES ASSUME TypeOK, AddUpInv, [Next]_vars PROVE AddUpInv'
    OBVIOUS
  <2>1. CASE PassOver \/ LoadWritten \/ LoadRaises \/ Stamp
    BY <2>1, QuietAddUp DEF PassOver, LoadWritten, LoadRaises, Load, Stamp, JobEnds, history
  <2>2. CASE Begins \/ \E c \in Configs : Reload(c)
    BY <2>2, QuietAddUp
       DEF Begins, Refuse, ApiRejects, Recover, AddTimeframe, Begin, Reload, Load, history
  <2>3. CASE LoopDies \/ Start
    BY <2>3, QuietAddUp DEF LoopDies, Start, history
  <2>4. CASE UNCHANGED vars
    BY <2>4 DEF vars, history, AddUpInv, ChangesAddUp, BaseInv, Changed, InHand
  <2> QED
    BY <2>1, <2>2, <2>3, <2>4, ReadAddUp, TruncateAddUp, DumpAddUp, CutAddUp, UserAddUp
       DEF Next, JobStep, UserStep, Begins
<1> QED
  BY <1>1, <1>2, ConfigFilesTypeOK, PTL DEF Spec, AddUpInv

-----------------------------------------------------------------------------
(* The memory is current *)

\* The steps that keep the configurations and their mtimes.
LEMMA QuietCurrent ==
    ASSUME TypeOK, MemInv, UNCHANGED <<data, mem>>, pc # "down",
           noted' \subseteq Loaded, missed \subseteq missed', pc' # "stamp"
    PROVE  MemInv'
  BY DEF MemInv, Loaded

LEMMA LoadCurrent ==
    ASSUME TypeOK, MemInv, pc # "down", NEW c \in Configs, Load(c) PROVE MemInv'
<1>1. /\ mem'[c] = data'[c] /\ \A d \in Configs \ {c} : mem'[d] = mem[d]
      /\ missed' = missed \ {c} /\ Loaded' = noted \cup {c} /\ data' = data
  BY DEF Load, TypeOK, Loaded, Job
<1> QED
  BY <1>1 DEF MemInv, Loaded, TypeOK

\* Writing the map takes its mtime back; a list is not kept in memory.
LEMMA WriteCurrent == TypeOK /\ MemInv /\ (Truncate \/ Dump) => MemInv'
<1> SUFFICES ASSUME TypeOK, MemInv, Truncate \/ Dump PROVE MemInv'
  OBVIOUS
<1>1. pc \in {"truncate", "dump"} /\ pc' # "stamp" /\ UNCHANGED <<mem, missed>>
  BY DEF Truncate, Dump, JobEnds, history
<1>2. noted' = noted \ {job.file}
  BY DEF Truncate, Dump
<1>3. \A c \in Configs : c # job.file => data'[c] = data[c]
  BY DEF Truncate, Dump, history, TypeOK, Files
<1> QED
  BY <1>1, <1>2, <1>3 DEF MemInv, Loaded, TypeOK

\* A save takes the mtime back, and counts as missed if it is about to be taken.
LEMMA UserCurrent == TypeOK /\ MemInv /\ UserStep => MemInv'
<1> SUFFICES ASSUME TypeOK, MemInv,
                    NEW f \in Files, Saves(f),
                    \/ \E i \in Items, entry \in {"absent", "manual"} : UserSets(f, i, entry)
                    \/ UserBreaks(f) \/ UserRepairs(f)
             PROVE  MemInv'
  BY DEF UserStep, UserSets, UserBreaks, UserRepairs
<1>1. /\ UNCHANGED <<mem, pc, job>> /\ noted' = noted \ {f} /\ missed \subseteq missed'
      /\ pc = "stamp" /\ job.file = f => f \in missed'
  BY DEF Saves, InHand
<1>2. \A c \in Configs : c # f => data'[c] = data[c]
  BY DEF UserSets, UserBreaks, UserRepairs, TypeOK, Files
<1> QED
  BY <1>1, <1>2 DEF MemInv, Loaded, TypeOK

\* What the node has in memory is what a file held after its last change that
\* the recorded mtime does not tell apart, but for the one gap the code leaves.
THEOREM MemoryIsAlwaysCurrent == Spec => []MemoryIsCurrent
<1>1. Init => MemInv
  BY DEF Init, MemInv, Loaded
<1>2. TypeOK /\ MemInv /\ [Next]_vars => MemInv'
  <2> SUFFICES ASSUME TypeOK, MemInv, [Next]_vars PROVE MemInv'
    OBVIOUS
  <2>1. CASE PassOver \/ Read \/ LoadRaises \/ Stamp \/ DumpFails
    BY <2>1, QuietCurrent DEF PassOver, Read, LoadRaises, Stamp, DumpFails, JobEnds, Loaded, history
  <2>2. CASE LoadWritten
    BY <2>2, LoadCurrent, ConfigFilesAssumption DEF LoadWritten
  <2>3. ASSUME NEW c \in Configs, Reload(c) PROVE MemInv'
    BY <2>3, LoadCurrent DEF Reload
  <2>4. CASE Begins \/ LoopDies
    BY <2>4, QuietCurrent
       DEF Begins, Refuse, ApiRejects, Recover, AddTimeframe, Begin, LoopDies, Loaded, history
  <2>5. CASE Exit
    BY <2>5 DEF Exit, MemInv
  <2>6. CASE Start
    BY <2>6 DEF Start, MemInv, Loaded
  <2>7. CASE UNCHANGED vars
    BY <2>7 DEF vars, MemInv, Loaded, history
  <2> QED
    BY <2>1, <2>2, <2>3, <2>4, <2>5, <2>6, <2>7, WriteCurrent, UserCurrent
       DEF Next, JobStep, UserStep, Begins
<1>3. MemInv => MemoryIsCurrent
  BY DEF MemInv, MemoryIsCurrent, Loaded
<1> QED
  BY <1>1, <1>2, <1>3, ConfigFilesTypeOK, PTL DEF Spec
=============================================================================
