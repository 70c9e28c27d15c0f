-------------------------- MODULE ParquetStoreProofs --------------------------
(***************************************************************************)
(* Proofs about ParquetStore, for every set of files and slots, every      *)
(* number of exits and of damages, and whatever fails.                     *)
(***************************************************************************)
EXTENDS ParquetStore, TLAPS

\* append_bars works on one series while it writes; its table holds all that is
\* readable of the file, and the closed temporary file holds the table.
WriteInv ==
    /\ pc \in Writing => \E s \in Series : job = {s} /\ Holds(s) \subseteq table
    /\ pc = "written" => \A s \in job : tmp[s] = BS!Holding(table)

\* An unreadable file is doubted, or the check is still to come to it.
CheckInv ==
    \A s \in Series : file[s] = BS!Corrupt =>
        \/ s \in doubt
        \/ pc = "down"
        \/ pc = "checking" /\ s \in todo

IInv == TypeOK /\ WriteInv /\ CheckInv

\* What the three kinds of file contents hold.
LEMMA ContentsFacts ==
  /\ \A c \in BS!Contents : c.bars \subseteq Slot
  /\ \A bars \in SUBSET Slot : /\ BS!Holding(bars) \in BS!Contents
                               /\ BS!Holding(bars).bars = bars
                               /\ BS!Holding(bars) # BS!Corrupt
  /\ BS!Absent \in BS!Contents /\ BS!Absent # BS!Corrupt
  /\ BS!Corrupt \in BS!Contents /\ BS!Corrupt.bars = {}
<1> USE DEF BS!Contents, BS!Holding, BS!Absent, BS!Corrupt
<1>1. BS!Absent # BS!Corrupt /\ BS!Absent.bars = {} /\ BS!Corrupt.bars = {}
  <2>1. BS!Absent.kind = "none" /\ BS!Corrupt.kind = "bad"
    OBVIOUS
  <2> QED
    BY <2>1
<1>2. ASSUME NEW bars \in SUBSET Slot
      PROVE  BS!Holding(bars).bars = bars /\ BS!Holding(bars) # BS!Corrupt
  <2>1. BS!Holding(bars).kind = "ok" /\ BS!Corrupt.kind = "bad"
    OBVIOUS
  <2> QED
    BY <2>1
<1>3. \A bars \in SUBSET Slot : BS!Holding(bars) \in BS!Contents
  OBVIOUS
<1>4. BS!Absent \in BS!Contents /\ BS!Corrupt \in BS!Contents
  OBVIOUS
<1>5. \A c \in BS!Contents : c.bars \subseteq Slot
  <2> SUFFICES ASSUME NEW c \in BS!Contents PROVE c.bars \subseteq Slot
    OBVIOUS
  <2>1. c = BS!Absent \/ c = BS!Corrupt \/ \E bars \in SUBSET Slot : c = BS!Holding(bars)
    OBVIOUS
  <2> HIDE DEF BS!Contents, BS!Holding, BS!Absent, BS!Corrupt
  <2> QED
    BY <1>1, <1>2, <2>1
<1> HIDE DEF BS!Contents, BS!Holding, BS!Absent, BS!Corrupt
<1> QED
  BY <1>1, <1>2, <1>3, <1>4, <1>5

\* The invariant holds at the start.
LEMMA InitIInv == Init => IInv
<1> SUFFICES ASSUME Init PROVE IInv
  OBVIOUS
<1>1. file \in [Series -> BS!Contents]
  BY ParquetStoreAssumption, ContentsFacts DEF Init
<1>2. TypeOK
  BY <1>1, ParquetStoreAssumption, ContentsFacts DEF Init, TypeOK, Places, Writing
<1> QED
  BY <1>2 DEF Init, IInv, WriteInv, CheckInv, Writing

\* The steps that touch no file keep the invariant.
LEMMA MemoryIInv ==
  ASSUME IInv,
         \/ Start \/ Exit \/ ChecksDone \/ OpenRecovery \/ WriteRecovery \/ ScanAny \/ UserEdits
         \/ \E s \in Series : CheckPasses(s) \/ Request(s) \/ UpToDate(s) \/ FetchNothing(s)
         \/ UNCHANGED vars
  PROVE  IInv'
<1>1. UNCHANGED <<file, tmp, damage>>
  BY DEF Start, Exit, ChecksDone, OpenRecovery, WriteRecovery, ScanAny, Scan, UserEdits,
         CheckPasses, Request, UpToDate, FetchNothing, disk, vars
<1>2. CASE Start
  BY <1>1, <1>2, ContentsFacts DEF IInv, TypeOK, WriteInv, CheckInv, Places, Writing, Start, disk, Holds
<1>3. CASE Exit
  BY <1>1, <1>3, ParquetStoreAssumption
     DEF IInv, TypeOK, WriteInv, CheckInv, Places, Writing, Exit, disk, Holds
<1>4. CASE ChecksDone
  BY <1>1, <1>4 DEF IInv, TypeOK, WriteInv, CheckInv, Places, Writing, ChecksDone, disk, history, Holds
<1>5. CASE OpenRecovery
  BY <1>1, <1>5 DEF IInv, TypeOK, WriteInv, CheckInv, Places, Writing, OpenRecovery, Holds
<1>6. CASE WriteRecovery
  BY <1>1, <1>6 DEF IInv, TypeOK, WriteInv, CheckInv, Places, Writing, WriteRecovery, history, Holds
<1>7. ASSUME NEW turnedAway \in SUBSET recovery, NEW listed \in SUBSET Series,
             Scan(turnedAway, listed)
      PROVE  IInv'
  BY <1>1, <1>7 DEF IInv, TypeOK, WriteInv, CheckInv, Places, Writing, Scan, Asked, Holds
<1>11. CASE UserEdits
  BY <1>1, <1>11 DEF IInv, TypeOK, WriteInv, CheckInv, UserEdits, disk, memory, history, Holds
<1>8. ASSUME NEW s \in Series, CheckPasses(s) PROVE IInv'
  BY <1>1, <1>8 DEF IInv, TypeOK, WriteInv, CheckInv, Places, Writing, CheckPasses, disk, history, Holds
<1>9. ASSUME NEW s \in Series, Request(s) \/ UpToDate(s) \/ FetchNothing(s) PROVE IInv'
  BY <1>1, <1>9 DEF IInv, TypeOK, WriteInv, CheckInv, Places, Writing, Request, UpToDate,
       FetchNothing, disk, history, Holds
<1>10. CASE UNCHANGED vars
  BY <1>10 DEF IInv, TypeOK, WriteInv, CheckInv, vars, disk, memory, history, Holds
<1> QED
  BY <1>2, <1>3, <1>4, <1>5, <1>6, <1>7, <1>8, <1>9, <1>10, <1>11 DEF ScanAny

\* The steps of append_bars keep the invariant.
LEMMA AppendIInv ==
  ASSUME IInv, NEW s \in Series,
         Fetch(s) \/ WriteTmp(s) \/ CloseTmp(s) \/ Replace(s) \/ WriteFails(s)
  PROVE  IInv'
<1>1. CASE Fetch(s)
  <2>1. PICK bars \in SUBSET Window(s) : Merge(s, bars)
    BY <1>1 DEF Fetch
  <2>2. Holds(s) \subseteq Slot /\ bars \subseteq Slot
    BY <2>1, ContentsFacts DEF IInv, TypeOK, Window, Holds
  <2> QED
    BY <2>1, <2>2 DEF IInv, TypeOK, WriteInv, CheckInv, Places, Writing, Merge, disk, history, Holds
<1>2. CASE WriteTmp(s)
  BY <1>2, ContentsFacts
     DEF IInv, TypeOK, WriteInv, CheckInv, Places, Writing, WriteTmp, history, Holds
<1>3. CASE CloseTmp(s)
  BY <1>3, ContentsFacts
     DEF IInv, TypeOK, WriteInv, CheckInv, Places, Writing, CloseTmp, history, Holds
<1>4. CASE Replace(s)
  <2>1. tmp[s] = BS!Holding(table) /\ tmp[s] \in BS!Contents /\ tmp[s] # BS!Corrupt
    BY <1>4, ContentsFacts DEF IInv, TypeOK, WriteInv, Replace
  <2> QED
    BY <1>4, <2>1, ContentsFacts
       DEF IInv, TypeOK, WriteInv, CheckInv, Places, Writing, Replace, EndOfJob, SettleAccount, Holds
<1>5. CASE WriteFails(s)
  BY <1>5, ContentsFacts
     DEF IInv, TypeOK, WriteInv, CheckInv, Places, Writing, WriteFails, EndOfJob, Holds
<1> QED
  BY <1>1, <1>2, <1>3, <1>4, <1>5

\* The check's findings and damage from outside keep the invariant.
LEMMA CorruptIInv ==
  ASSUME IInv, NEW s \in Series, CheckFinds(s) \/ Damage(s)
  PROVE  IInv'
<1>1. CASE CheckFinds(s)
  <2>1. s[1] \in Tickers
    BY ParquetStoreAssumption
  <2> QED
    BY <1>1, <2>1, ContentsFacts
       DEF IInv, TypeOK, WriteInv, CheckInv, Places, Writing, CheckFinds, SettleAccount, Holds
<1>2. CASE Damage(s)
  BY <1>2, ParquetStoreAssumption, ContentsFacts
     DEF IInv, TypeOK, WriteInv, CheckInv, Places, Writing, Damage, memory, Holds
<1> QED
  BY <1>1, <1>2

LEMMA StepIInv == IInv /\ [Next]_vars => IInv'
BY MemoryIInv, AppendIInv, CorruptIInv DEF Next

\* The variables keep their types, and only series that are owed count as failed or
\* forgotten.
THEOREM StoreTypeOK == Spec => []TypeOK
<1>1. IInv => TypeOK
  BY DEF IInv
<1> QED
  BY <1>1, InitIInv, StepIInv, PTL DEF Spec

\* After the check of a start no file is unreadable but those damaged since, or that
\* could not be deleted, whatever step any earlier life of the node ended at.
THEOREM StoreCheckedAtStart == Spec => []CheckedAtStart
<1>1. IInv => CheckedAtStart
  BY DEF IInv, CheckInv, CheckedAtStart
<1> QED
  BY <1>1, InitIInv, StepIInv, PTL DEF Spec
-----------------------------------------------------------------------------
(* The files implement BarStore *)

LEMMA InitRefines == Init => BS!Init
BY InitIInv DEF Init, IInv, TypeOK, BS!Init

\* Only the rename, a deletion of a corrupt file and damage change what a reader finds.
LEMMA StepRefines == IInv /\ [Next]_vars => BS!Next \/ UNCHANGED <<file, damage>>
<1> SUFFICES ASSUME IInv, [Next]_vars PROVE BS!Next \/ UNCHANGED <<file, damage>>
  OBVIOUS
<1>1. CASE \/ Start \/ Exit \/ ChecksDone \/ OpenRecovery \/ WriteRecovery \/ ScanAny \/ UserEdits
           \/ UNCHANGED vars
  BY <1>1 DEF Start, Exit, ChecksDone, OpenRecovery, WriteRecovery, ScanAny, Scan, UserEdits, disk, vars
<1>2. ASSUME NEW s \in Series,
             \/ CheckPasses(s) \/ Request(s) \/ UpToDate(s) \/ FetchNothing(s) \/ Fetch(s)
             \/ WriteTmp(s) \/ CloseTmp(s) \/ WriteFails(s)
      PROVE  UNCHANGED <<file, damage>>
  BY <1>2 DEF CheckPasses, Request, UpToDate, FetchNothing, Fetch, Merge, WriteTmp, CloseTmp,
       WriteFails, disk
<1>3. ASSUME NEW s \in Series, CheckFinds(s) PROVE BS!Next \/ UNCHANGED <<file, damage>>
  BY <1>3 DEF CheckFinds, BS!Next, BS!Discard
<1>4. ASSUME NEW s \in Series, Damage(s) PROVE BS!Next
  BY <1>4 DEF Damage, BS!Next, BS!Spoil
<1>5. ASSUME NEW s \in Series, Replace(s) PROVE BS!Next
  <2>1. job = {s} /\ Holds(s) \subseteq table /\ table \in SUBSET Slot
    BY <1>5 DEF Replace, IInv, TypeOK, WriteInv, Writing
  <2>2. tmp[s] = BS!Holding(table)
    BY <1>5 DEF Replace, IInv, WriteInv
  <2>3. file[s].bars \cup table = table
    BY <2>1 DEF Holds
  <2>4. BS!Add(s, table)
    BY <1>5, <2>2, <2>3 DEF Replace, IInv, TypeOK, BS!Add
  <2> QED
    BY <2>1, <2>4 DEF BS!Next
<1> QED
  BY <1>1, <1>2, <1>3, <1>4, <1>5 DEF Next

\* A reader of the files sees what BarStore promises, at whatever step the node dies.
THEOREM StoreImplementsBarStore == Spec => ImplementsBarStore
<1>1. IInv /\ [Next]_vars => [BS!Next]_(BS!vars)
  BY StepRefines DEF BS!vars
<1> QED
  BY <1>1, InitRefines, InitIInv, StepIInv, PTL DEF Spec, ImplementsBarStore, BS!Spec
-----------------------------------------------------------------------------
(* Corrupt series are known to someone *)

\* Nothing readable is stored of an owed series, so that its download is never taken for
\* up to date; and the recovery file is empty once it has been opened for writing.
OwedInv ==
    /\ OwedIsTracked
    /\ \A s \in owed : Holds(s) = {}
    /\ pc = "truncated" => recovery = {}

\* The life of the node and its checks pass what is owed on from one place to the next.
LEMMA LifeOwedInv ==
  ASSUME TypeOK, OwedInv,
         \/ Start \/ Exit \/ ChecksDone \/ OpenRecovery \/ WriteRecovery \/ ScanAny \/ UserEdits
         \/ \E s \in Series : CheckPasses(s)
         \/ UNCHANGED vars
  PROVE  OwedInv'
<1> USE DEF OwedInv, OwedIsTracked, Holds
<1>1. CASE Start \/ Exit
  BY <1>1 DEF Start, Exit, disk
<1>2. CASE ChecksDone \/ OpenRecovery \/ WriteRecovery
  BY <1>2 DEF ChecksDone, OpenRecovery, WriteRecovery, disk, history
<1>3. CASE \/ (\E s \in Series : CheckPasses(s)) \/ UNCHANGED vars
  BY <1>3 DEF CheckPasses, vars, disk, memory, history
<1>4. ASSUME NEW turnedAway \in SUBSET recovery, NEW listed \in SUBSET Series,
             Scan(turnedAway, listed)
      PROVE  OwedInv'
  BY <1>4 DEF Scan, TypeOK
<1>5. CASE UserEdits
  BY <1>5 DEF UserEdits, disk, memory, history
<1> QED
  BY <1>1, <1>2, <1>3, <1>4, <1>5 DEF ScanAny

\* A corrupt series is collected; whatever a file loses, it holds nothing after.
LEMMA CorruptOwedInv ==
  ASSUME TypeOK, OwedInv, NEW s \in Series, CheckFinds(s) \/ Damage(s)
  PROVE  OwedInv'
<1>1. \A c \in {BS!Absent, BS!Corrupt} : c.bars = {}
  BY DEF BS!Absent, BS!Corrupt
<1>2. file \in [Series -> BS!Contents] /\ owed \subseteq Series
  BY DEF TypeOK
<1>3. CASE CheckFinds(s)
  <2>1. file' = [file EXCEPT ![s] = BS!Absent] \/ file' = file
    BY <1>3 DEF CheckFinds
  <2>2. owed' = owed \cup {s} /\ file[s].bars = {} /\ pc' = pc /\ recovery' = recovery
    BY <1>1, <1>3 DEF CheckFinds
  <2>3. \A u \in owed' : Holds(u)' = {}
    BY <1>1, <1>2, <2>1, <2>2 DEF OwedInv, Holds
  <2>4. OwedIsTracked'
    BY <1>3 DEF CheckFinds, SettleAccount, OwedInv, OwedIsTracked
  <2> QED
    BY <1>3, <2>2, <2>3, <2>4 DEF OwedInv
<1>4. CASE Damage(s)
  <2>1. file' = [file EXCEPT ![s] = BS!Corrupt] /\ owed' = owed
    BY <1>4 DEF Damage
  <2>2. \A u \in owed' : Holds(u)' = {}
    BY <1>1, <1>2, <2>1 DEF OwedInv, Holds
  <2> QED
    BY <1>4, <2>2 DEF OwedInv, OwedIsTracked, Damage, memory
<1> QED
  BY <1>3, <1>4

\* What is asked for stays so until it is written, or counts as failed.
LEMMA DownloadOwedInv ==
  ASSUME TypeOK, OwedInv, NEW s \in Series,
         \/ Request(s) \/ UpToDate(s) \/ FetchNothing(s) \/ Fetch(s)
         \/ WriteTmp(s) \/ CloseTmp(s) \/ Replace(s) \/ WriteFails(s)
  PROVE  OwedInv'
<1>1. owed \subseteq Series /\ file \in [Series -> BS!Contents]
  BY DEF TypeOK
<1>3. CASE Request(s) \/ FetchNothing(s)
  BY <1>3 DEF Request, FetchNothing, OwedInv, OwedIsTracked, Holds, disk, history
<1>4. CASE UpToDate(s)
  <2>1. s \notin owed
    <3> SUFFICES ASSUME s \in owed PROVE FALSE
      OBVIOUS
    <3>1. Holds(s) = {}
      BY DEF OwedInv
    <3> QED
      BY <1>4, <3>1, ParquetStoreAssumption DEF UpToDate, Window
  <2> QED
    BY <1>4, <2>1 DEF UpToDate, OwedInv, OwedIsTracked, Holds, disk, history
<1>5. CASE Fetch(s)
  BY <1>5 DEF Fetch, Merge, OwedInv, OwedIsTracked, Holds, disk, history
<1>6. CASE WriteTmp(s) \/ CloseTmp(s)
  BY <1>6 DEF WriteTmp, CloseTmp, OwedInv, OwedIsTracked, Holds, history
<1>7. CASE Replace(s)
  BY <1>1, <1>7 DEF Replace, EndOfJob, SettleAccount, OwedInv, OwedIsTracked, Holds
<1>8. CASE WriteFails(s)
  BY <1>8 DEF WriteFails, EndOfJob, OwedInv, OwedIsTracked, Holds
<1> QED
  BY <1>3, <1>4, <1>5, <1>6, <1>7, <1>8

\* A series the check found corrupt is in the check's list, in the recovery file or in
\* the queue until it is written again, unless its download failed, or the node forgot it
\* or the watcher passed it over in one of the ways the history names.
THEOREM CorruptIsTracked == Spec => []OwedIsTracked
<1>1. Init => OwedInv
  BY DEF Init, OwedInv, OwedIsTracked
<1>2. TypeOK /\ OwedInv /\ [Next]_vars => OwedInv'
  BY LifeOwedInv, CorruptOwedInv, DownloadOwedInv DEF Next
<1>3. OwedInv => OwedIsTracked
  BY DEF OwedInv
<1> QED
  BY <1>1, <1>2, <1>3, StoreTypeOK, PTL DEF Spec
=============================================================================
