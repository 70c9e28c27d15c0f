----------------------------- MODULE IntakeProofs -----------------------------
(***************************************************************************)
(* Proofs about Intake, for any number of tickers, watch files, edits and  *)
(* restarts.                                                               *)
(***************************************************************************)
EXTENDS Intake, TLAPS

\* A wish is tracked, and what is due for it is queued.  A ticker always has a
\* time frame, so that a wish that is taken has something due.
WishInv ==
    /\ WishIsTracked
    /\ due \subseteq queue
    /\ \A t \in Tickers : timeframes[t] # {}

\* A refused ticker is kept out by the ticker map; if the user has mapped it, by the
\* blacklist, until bars take it off.
RefusedInv ==
    \A t \in refused : tmap[t] = "null" \/ (tmap[t] = "mapped" /\ t \in blacklist \cup healed)

-----------------------------------------------------------------------------
(* Types *)

LEMMA InitTypeOK == Init => TypeOK
<1> SUFFICES ASSUME Init PROVE TypeOK
  OBVIOUS
<1> USE IntakeAssumption DEF Init
<1>1. timeframes \in [Tickers -> SUBSET Timeframes]
  OBVIOUS
<1>2. tmap \in [Tickers -> {"absent", "mapped", "null"}] /\ wish \in [Tickers -> Wishes]
  BY DEF Wishes
<1>3. watch \in [Files -> SUBSET Tickers]
  OBVIOUS
<1>4. edits \in 0..MaxEdits /\ exits \in 0..MaxExits
  OBVIOUS
<1> QED
  BY <1>1, <1>2, <1>3, <1>4, Zenon DEF TypeOK

\* The steps of a scan and of a sweep.
LEMMA ScanTypeOK == TypeOK /\ (Scan \/ ScanBegin \/ TriggerStaleness) => TypeOK'
<1> SUFFICES ASSUME TypeOK, Scan \/ ScanBegin \/ TriggerStaleness PROVE TypeOK'
  OBVIOUS
<1> USE DEF TypeOK, Wishes, watchVars, configVars, bounds, history
<1>1. CASE Cleanup
  BY <1>1 DEF Cleanup, Remove
<1>2. CASE ScanEnds \/ SweepEnds \/ ScanBegin \/ TriggerStaleness
  BY <1>2 DEF ScanEnds, SweepEnds, ScanBegin, TriggerStaleness
<1>3. ASSUME NEW f \in Files, ReadFile(f) PROVE TypeOK'
  BY <1>3 DEF ReadFile
<1>4. ASSUME NEW t \in Tickers, EnqueueTicker(t) PROVE TypeOK'
  BY <1>4 DEF EnqueueTicker, DoneWith, SeriesOf
<1>5. ASSUME NEW t \in Tickers, SkipTicker(t) \/ ScanRaises(t) PROVE TypeOK'
  BY <1>5 DEF SkipTicker, ScanRaises, DoneWith
<1>6. ASSUME NEW t \in Tickers, SweepDir(t) PROVE TypeOK'
  BY <1>6 DEF SweepDir, SeriesOf
<1> QED
  BY <1>1, <1>2, <1>3, <1>4, <1>5, <1>6 DEF Scan

\* Requests, downloads and the end of a life.
LEMMA NodeTypeOK ==
  ASSUME TypeOK,
         \/ LoopDies \/ Restart
         \/ \E a \in ApiAsks : ApiDownload(a) \/ ApiBreaksOff(a)
         \/ \E t \in Tickers : ApiRejects(t)
         \/ \E s \in Tickers \X Timeframes : Download(s)
  PROVE  TypeOK'
<1> USE DEF TypeOK, Wishes, watchVars, configVars, scanVars, bounds, history
<1>1. CASE LoopDies
  BY <1>1 DEF LoopDies
<1>2. CASE Restart
  <2>1. exits' \in 0..MaxExits
    BY <1>2, IntakeAssumption DEF Restart
  <2> QED
    BY <1>2, <2>1 DEF Restart
<1>3. ASSUME NEW a \in ApiAsks, ApiDownload(a) PROVE TypeOK'
  <2>1. a.ticker \in Tickers /\ a.timeframes \subseteq Timeframes
    BY IntakeAssumption
  <2> QED
    BY <1>3, <2>1 DEF ApiDownload, SeriesOf
<1>6. ASSUME NEW a \in ApiAsks, ApiBreaksOff(a) PROVE TypeOK'
  <2>1. a.ticker \in Tickers /\ a.timeframes \subseteq Timeframes
    BY IntakeAssumption
  <2>2. timeframes' \in [Tickers -> SUBSET Timeframes]
    BY <1>6, <2>1, IntakeAssumption DEF ApiBreaksOff
  <2> QED
    BY <1>6, <2>1, <2>2 DEF ApiBreaksOff
<1>4. ASSUME NEW t \in Tickers, ApiRejects(t) PROVE TypeOK'
  BY <1>4 DEF ApiRejects
<1>5. ASSUME NEW s \in Tickers \X Timeframes, Download(s) PROVE TypeOK'
  <2>1. s[1] \in Tickers
    OBVIOUS
  <2> QED
    BY <1>5, <2>1 DEF Download, Delivers, Refuses, RefusesAfterBars, EndsWithout, Settles,
                      Registered, CountsAsRefused
<1> QED
  BY <1>1, <1>2, <1>3, <1>4, <1>5, <1>6

\* An edit stays within the bound.
LEMMA EditBound == TypeOK /\ Edit => edits' \in 0..MaxEdits
BY IntakeAssumption DEF TypeOK, Edit

\* The user's edits.
LEMMA UserTypeOK ==
  ASSUME TypeOK,
         \/ \E f \in Files : UserDeletes(f) \/ \E tickers \in SUBSET Tickers : UserWrites(f, tickers)
         \/ \E t \in Tickers : UserMaps(t) \/ UserUnblacklists(t)
         \/ UserBreaksMap \/ UserRepairsMap
  PROVE  TypeOK'
<1> USE EditBound DEF TypeOK, Wishes, watchVars, configVars, scanVars, bounds, history
<1>1. ASSUME NEW f \in Files, UserDeletes(f) PROVE TypeOK'
  BY <1>1 DEF UserDeletes, Remove
<1>2. ASSUME NEW f \in Files, NEW tickers \in SUBSET Tickers, UserWrites(f, tickers) PROVE TypeOK'
  BY <1>2 DEF UserWrites
<1>3. ASSUME NEW t \in Tickers, UserMaps(t) PROVE TypeOK'
  BY <1>3 DEF UserMaps
<1>4. ASSUME NEW t \in Tickers, UserUnblacklists(t) PROVE TypeOK'
  BY <1>4 DEF UserUnblacklists
<1>5. CASE UserBreaksMap
  BY <1>5, Zenon DEF UserBreaksMap
<1>6. CASE UserRepairsMap
  BY <1>6 DEF UserRepairsMap
<1> QED
  BY <1>1, <1>2, <1>3, <1>4, <1>5, <1>6

LEMMA StepTypeOK == TypeOK /\ [Next]_vars => TypeOK'
<1>1. TypeOK /\ UNCHANGED vars => TypeOK'
  BY DEF TypeOK, vars, watchVars, configVars, scanVars, bounds, history
<1> QED
  BY <1>1, ScanTypeOK, NodeTypeOK, UserTypeOK DEF Next

\* The variables keep their types, and each part of the memory is used where it should be.
THEOREM IntakeTypeOK == Spec => []TypeOK
BY InitTypeOK, StepTypeOK, PTL DEF Spec

-----------------------------------------------------------------------------
(* Wishes *)

\* While no file is in hand, todo says nothing of the files.
LEMMA PendingWithoutFile ==
  ASSUME file = {}, file' = {}, UNCHANGED watchVars
  PROVE  \A t \in Tickers : Pending(t) => Pending(t)'
BY DEF Pending, watchVars

\* A step that leaves the files, and what is known of them, alone.
LEMMA PendingUnchanged ==
  ASSUME UNCHANGED <<watchVars, file, late, todo>>
  PROVE  \A t \in Tickers : Pending(t) => Pending(t)'
BY DEF Pending, watchVars

\* A wish stays tracked if what is filed stays pending and nothing leaves the queue.
LEMMA WishKept ==
  ASSUME WishInv, TypeOK, UNCHANGED <<wish, due>>, queue \subseteq queue',
         \A t \in Tickers : Pending(t) => Pending(t)',
         \A t \in Tickers : timeframes'[t] # {}
  PROVE  WishInv'
BY DEF WishInv, WishIsTracked

LEMMA ScanWishInv == TypeOK /\ WishInv /\ (Scan \/ ScanBegin \/ TriggerStaleness) => WishInv'
<1> SUFFICES ASSUME TypeOK, WishInv, Scan \/ ScanBegin \/ TriggerStaleness PROVE WishInv'
  OBVIOUS
<1> USE DEF watchVars, configVars, bounds, history
<1>1. CASE Cleanup
  <2>1. todo = {}
    BY <1>1 DEF Cleanup, TypeOK
  <2>2. ASSUME NEW t \in Tickers, wish'[t] = "filed" PROVE Pending(t)'
    <3>1. wish[t] = "filed" /\ (late => Pending(t)')
      BY <1>1, <2>2 DEF Cleanup, TypeOK, Wishes, Withdrawn
    <3>2. CASE ~late
      <4>1. PICK f \in present : t \in watch[f] /\ f \notin file
        BY <2>1, <3>1, <3>2 DEF WishInv, WishIsTracked, Pending
      <4>2. f \in present' /\ watch'[f] = watch[f]
        BY <1>1, <4>1 DEF Cleanup, Remove, TypeOK
      <4> QED
        BY <1>1, <4>1, <4>2 DEF Cleanup, Pending
    <3> QED
      BY <3>1, <3>2
  <2>3. ASSUME NEW t \in Tickers, wish'[t] = "queued" PROVE wish[t] = "queued"
    BY <1>1, <2>3 DEF Cleanup, TypeOK
  <2> QED
    BY <1>1, <2>2, <2>3 DEF Cleanup, WishInv, WishIsTracked
<1>2. CASE ScanEnds \/ SweepEnds \/ ScanBegin \/ TriggerStaleness
  <2>1. file = {} /\ file' = {}
    BY <1>2 DEF TypeOK, ScanEnds, SweepEnds, ScanBegin, TriggerStaleness
  <2>2. UNCHANGED <<watchVars, wish, due, queue, timeframes>>
    BY <1>2 DEF ScanEnds, SweepEnds, ScanBegin, TriggerStaleness
  <2> QED
    BY <2>1, <2>2, PendingWithoutFile, WishKept DEF WishInv
<1>3. ASSUME NEW f \in Files, ReadFile(f) PROVE WishInv'
  <2>1. \A t \in Tickers : Pending(t) => Pending(t)'
    BY <1>3 DEF ReadFile, Pending, TypeOK
  <2> QED
    BY <1>3, <2>1, WishKept DEF ReadFile, WishInv
<1>4. ASSUME NEW t \in Tickers, EnqueueTicker(t) PROVE WishInv'
  <2>1. \A u \in Tickers \ {t} : Pending(u) => Pending(u)'
    BY <1>4 DEF EnqueueTicker, DoneWith, Pending
  <2>2. wish'[t] = "queued" /\ \A u \in Tickers \ {t} : wish'[u] = wish[u]
    BY <1>4 DEF EnqueueTicker, TypeOK
  <2>3. PICK tf : tf \in timeframes[t]
    BY DEF WishInv
  <2>4. <<t, tf>> \in due' \cap queue' /\ <<t, tf>>[1] = t
    BY <1>4, <2>3 DEF EnqueueTicker, SeriesOf
  <2>5. due \subseteq due' /\ queue \subseteq queue' /\ due' \subseteq queue' /\ timeframes' = timeframes
    BY <1>4 DEF EnqueueTicker, WishInv
  <2> QED
    BY <2>1, <2>2, <2>4, <2>5 DEF WishInv, WishIsTracked
<1>5. ASSUME NEW t \in Tickers, SkipTicker(t) PROVE WishInv'
  <2>1. \A u \in Tickers \ {t} : Pending(u) => Pending(u)'
    BY <1>5 DEF SkipTicker, DoneWith, Pending
  <2>2. wish'[t] = "skipped" /\ \A u \in Tickers \ {t} : wish'[u] = wish[u]
    BY <1>5 DEF SkipTicker, TypeOK
  <2> QED
    BY <1>5, <2>1, <2>2 DEF SkipTicker, WishInv, WishIsTracked
<1>6. ASSUME NEW t \in Tickers, ScanRaises(t) PROVE WishInv'
  <2>1. \A u \in Tickers : Pending(u) => Pending(u)'
    BY <1>6 DEF ScanRaises, Pending
  <2> QED
    BY <1>6, <2>1, WishKept DEF ScanRaises, WishInv
<1>7. ASSUME NEW t \in Tickers, SweepDir(t) PROVE WishInv'
  <2>1. file = {} /\ file' = {}
    BY <1>7 DEF TypeOK, SweepDir
  <2> QED
    BY <1>7, <2>1, PendingWithoutFile, WishKept DEF SweepDir, WishInv
<1> QED
  BY <1>1, <1>2, <1>3, <1>3, <1>4, <1>5, <1>6, <1>7 DEF Scan

LEMMA NodeWishInv ==
  ASSUME TypeOK, WishInv,
         \/ LoopDies \/ Restart
         \/ \E a \in ApiAsks : ApiDownload(a) \/ ApiBreaksOff(a)
         \/ \E t \in Tickers : ApiRejects(t)
         \/ \E s \in Tickers \X Timeframes : Download(s)
  PROVE  WishInv'
<1> USE DEF watchVars, configVars, scanVars, bounds, history
<1>1. CASE LoopDies
  BY <1>1, PendingUnchanged, WishKept DEF LoopDies, WishInv
<1>2. CASE Restart
  <2>1. \A t \in Tickers : Pending(t) => Pending(t)'
    BY <1>2 DEF Restart, Pending
  <2>2. \A t \in Tickers : wish'[t] # "queued" /\ (wish'[t] = "filed" => wish[t] = "filed")
    BY <1>2 DEF Restart
  <2> QED
    BY <1>2, <2>1, <2>2 DEF Restart, WishInv, WishIsTracked
<1>3. ASSUME NEW a \in ApiAsks, ApiDownload(a) PROVE WishInv'
  <2>1. \A t \in Tickers : timeframes'[t] # {}
    BY <1>3 DEF ApiDownload, WishInv, TypeOK
  <2>2. queue \subseteq queue'
    BY <1>3 DEF ApiDownload
  <2>3. \A t \in Tickers : Pending(t) => Pending(t)'
    BY <1>3, PendingUnchanged DEF ApiDownload
  <2> QED
    BY <1>3, <2>1, <2>2, <2>3, WishKept DEF ApiDownload
<1>6. ASSUME NEW a \in ApiAsks, ApiBreaksOff(a) PROVE WishInv'
  <2>1. \A t \in Tickers : timeframes'[t] # {}
    BY <1>6 DEF ApiBreaksOff, WishInv, TypeOK, DEFAULT_TIMEFRAMES
  <2>2. \A t \in Tickers : Pending(t) => Pending(t)'
    BY <1>6, PendingUnchanged DEF ApiBreaksOff
  <2> QED
    BY <1>6, <2>1, <2>2, WishKept DEF ApiBreaksOff
<1>4. ASSUME NEW t \in Tickers, ApiRejects(t) PROVE WishInv'
  BY <1>4, PendingUnchanged, WishKept DEF ApiRejects, WishInv
<1>5. ASSUME NEW s \in Tickers \X Timeframes, Download(s) PROVE WishInv'
  <2>1. Settles(s)
    BY <1>5 DEF Download, Delivers, Refuses, RefusesAfterBars, EndsWithout
  <2>2. \A t \in Tickers : Pending(t) => Pending(t)'
    BY <2>1, PendingUnchanged DEF Settles
  <2>3. ASSUME NEW t \in Tickers, wish'[t] = "filed" PROVE Pending(t)'
    <3>1. wish[t] = "filed"
      BY <2>1, <2>3 DEF Settles, TypeOK
    <3> QED
      BY <2>2, <3>1 DEF WishInv, WishIsTracked
  <2>4. due' \subseteq queue'
    BY <2>1 DEF Settles, WishInv
  <2>5. ASSUME NEW t \in Tickers, wish'[t] = "queued" PROVE \E r \in due' \cap queue' : r[1] = t
    <3>1. wish[t] = "queued" /\ (t = s[1] => \E r \in due' : r[1] = t)
      BY <2>1, <2>5 DEF Settles, TypeOK
    <3>2. PICK r \in due \cap queue : r[1] = t
      BY <3>1 DEF WishInv, WishIsTracked
    <3>3. CASE t # s[1]
      BY <2>1, <3>2, <3>3 DEF Settles
    <3> QED
      BY <2>4, <3>1, <3>3
  <2> QED
    BY <2>1, <2>3, <2>4, <2>5 DEF Settles, WishInv, WishIsTracked
<1> QED
  BY <1>1, <1>2, <1>3, <1>4, <1>5, <1>6

LEMMA UserWishInv ==
  ASSUME TypeOK, WishInv,
         \/ \E f \in Files : UserDeletes(f) \/ \E tickers \in SUBSET Tickers : UserWrites(f, tickers)
         \/ \E t \in Tickers : UserMaps(t) \/ UserUnblacklists(t)
         \/ UserBreaksMap \/ UserRepairsMap
  PROVE  WishInv'
<1> USE DEF watchVars, configVars, scanVars, bounds, history
<1>1. ASSUME NEW f \in Files, UserDeletes(f) PROVE WishInv'
  <2>1. \A t \in Tickers : /\ wish'[t] = "filed" => Pending(t)'
                           /\ wish'[t] = "queued" => wish[t] = "queued"
    BY <1>1 DEF UserDeletes, Withdrawn
  <2> QED
    BY <1>1, <2>1 DEF UserDeletes, WishInv, WishIsTracked
<1>2. ASSUME NEW f \in Files, NEW tickers \in SUBSET Tickers, UserWrites(f, tickers) PROVE WishInv'
  <2>1. \A t \in tickers : Pending(t)'
    BY <1>2 DEF UserWrites, Pending, TypeOK
  <2>2. \A t \in Tickers : /\ wish'[t] = "filed" => Pending(t)'
                           /\ wish'[t] = "queued" => wish[t] = "queued"
    BY <1>2, <2>1 DEF UserWrites, Withdrawn
  <2> QED
    BY <1>2, <2>2 DEF UserWrites, WishInv, WishIsTracked
<1>3. ASSUME NEW t \in Tickers, UserMaps(t) \/ UserUnblacklists(t) PROVE WishInv'
  BY <1>3, PendingUnchanged, WishKept DEF UserMaps, UserUnblacklists, WishInv
<1>4. CASE UserBreaksMap \/ UserRepairsMap
  BY <1>4, PendingUnchanged, WishKept DEF UserBreaksMap, UserRepairsMap, WishInv
<1> QED
  BY <1>1, <1>2, <1>3, <1>4

\* For any number of files, tickers, edits and restarts: what a user puts into a watch
\* file stays in a file until it is taken, and in the queue until it is downloaded.
THEOREM WishesAreTracked == Spec => []WishIsTracked
<1>1. Init => WishInv
  BY IntakeAssumption DEF Init, WishInv, WishIsTracked, DEFAULT_TIMEFRAMES
<1>2. TypeOK /\ WishInv /\ UNCHANGED vars => WishInv'
  BY PendingUnchanged, WishKept DEF vars, watchVars, configVars, scanVars, bounds, history, WishInv
<1>3. TypeOK /\ WishInv /\ [Next]_vars => WishInv'
  BY <1>2, ScanWishInv, NodeWishInv, UserWishInv DEF Next
<1>4. WishInv => WishIsTracked
  BY DEF WishInv
<1> QED
  BY <1>1, <1>3, <1>4, IntakeTypeOK, PTL DEF Spec

-----------------------------------------------------------------------------
(* Refused tickers *)

\* The steps that say something of a refused ticker: it is taken off the blacklist
\* only while the ticker map keeps it out, or ceases to count as refused.
LEMMA StepRefusedInv == TypeOK /\ RefusedInv /\ [Next]_vars => RefusedInv'
<1> SUFFICES ASSUME TypeOK, RefusedInv, [Next]_vars PROVE RefusedInv'
  OBVIOUS
<1> USE DEF watchVars, configVars, scanVars, bounds, history
<1>1. ASSUME UNCHANGED <<tmap, blacklist, refused, healed>> PROVE RefusedInv'
  BY <1>1 DEF RefusedInv
<1>2. ASSUME NEW s \in Tickers \X Timeframes, Download(s) PROVE RefusedInv'
  <2> DEFINE t == s[1]
  <2>1. t \in Tickers
    OBVIOUS
  <2>2. CASE Delivers(s)
    BY <2>1, <2>2 DEF Delivers, RefusedInv, TypeOK
  <2>3. CASE Refuses(s)
    BY <2>1, <2>3 DEF Refuses, Registered, CountsAsRefused, RefusedInv, TypeOK
  <2>4. CASE RefusesAfterBars(s)
    BY <2>1, <2>4 DEF RefusesAfterBars, Registered, CountsAsRefused, RefusedInv, TypeOK
  <2>5. CASE EndsWithout(s)
    BY <1>1, <2>5 DEF EndsWithout
  <2> QED
    BY <1>2, <2>2, <2>3, <2>4, <2>5 DEF Download
<1>3. ASSUME NEW t \in Tickers, ApiRejects(t) \/ UserMaps(t) \/ UserUnblacklists(t) PROVE RefusedInv'
  BY <1>3 DEF ApiRejects, UserMaps, UserUnblacklists, RefusedInv, TypeOK
<1>4. CASE Scan
  BY <1>1, <1>4 DEF Scan, Cleanup, ScanEnds, SweepEnds, ReadFile, EnqueueTicker, SkipTicker,
                    ScanRaises, SweepDir
<1>5. CASE ScanBegin \/ TriggerStaleness \/ LoopDies \/ Restart \/ UserBreaksMap \/ UserRepairsMap
  BY <1>1, <1>5 DEF ScanBegin, TriggerStaleness, LoopDies, Restart, UserBreaksMap, UserRepairsMap
<1>6. ASSUME NEW a \in ApiAsks, ApiDownload(a) \/ ApiBreaksOff(a) PROVE RefusedInv'
  BY <1>1, <1>6 DEF ApiDownload, ApiBreaksOff
<1>7. ASSUME NEW f \in Files, UserDeletes(f) \/ \E tickers \in SUBSET Tickers : UserWrites(f, tickers)
      PROVE  RefusedInv'
  BY <1>1, <1>7 DEF UserDeletes, UserWrites
<1>8. CASE UNCHANGED vars
  BY <1>1, <1>8 DEF vars
<1> QED
  BY <1>2, <1>3, <1>4, <1>5, <1>6, <1>7, <1>8 DEF Next

\* Whatever comes into the queue has been resolved.
LEMMA NewInQueue ==
  ASSUME TypeOK, [Next]_vars, NEW s \in queue' \ queue
  PROVE  Resolves(s[1])
<1> USE DEF watchVars, configVars, scanVars, bounds, history
<1>1. ASSUME queue' \subseteq queue PROVE FALSE
  BY <1>1
<1>2. CASE Scan
  <2>1. ASSUME NEW t \in Tickers, EnqueueTicker(t) PROVE Resolves(s[1])
    BY <2>1 DEF EnqueueTicker, SeriesOf
  <2>2. ASSUME NEW t \in Tickers, SweepDir(t) PROVE Resolves(s[1])
    BY <2>2 DEF SweepDir, SeriesOf
  <2> QED
    BY <1>1, <1>2, <2>1, <2>2 DEF Scan, Cleanup, ScanEnds, SweepEnds, ReadFile, SkipTicker, ScanRaises
<1>3. ASSUME NEW a \in ApiAsks, ApiDownload(a) \/ ApiBreaksOff(a) PROVE Resolves(s[1])
  BY <1>3 DEF ApiDownload, ApiBreaksOff, SeriesOf
<1>4. ASSUME NEW r \in Tickers \X Timeframes, Download(r) PROVE FALSE
  BY <1>1, <1>4 DEF Download, Delivers, Refuses, RefusesAfterBars, EndsWithout, Settles
<1>5. CASE ScanBegin \/ TriggerStaleness \/ LoopDies \/ Restart \/ UserBreaksMap \/ UserRepairsMap
  BY <1>1, <1>5 DEF ScanBegin, TriggerStaleness, LoopDies, Restart, UserBreaksMap, UserRepairsMap
<1>6. ASSUME NEW f \in Files, UserDeletes(f) \/ \E tickers \in SUBSET Tickers : UserWrites(f, tickers)
      PROVE  FALSE
  BY <1>1, <1>6 DEF UserDeletes, UserWrites
<1>7. ASSUME NEW t \in Tickers, ApiRejects(t) \/ UserMaps(t) \/ UserUnblacklists(t) PROVE FALSE
  BY <1>1, <1>7 DEF ApiRejects, UserMaps, UserUnblacklists
<1>8. CASE UNCHANGED vars
  BY <1>1, <1>8 DEF vars
<1> QED
  BY <1>2, <1>3, <1>4, <1>5, <1>6, <1>7, <1>8 DEF Next

\* For any number of tickers: what the gateway refused to qualify is not asked for
\* again, by a watch file, by the API or by the sweep, before the user steps in, unless
\* the user has mapped it and its own bars have taken it off the blacklist.
THEOREM RefusalsStick == Spec => RefusalSticks
<1>1. Init => RefusedInv
  BY DEF Init, RefusedInv
<1>2. ASSUME TypeOK, RefusedInv, [Next]_vars, NEW s \in queue' \ queue, s[1] \in refused
      PROVE  s[1] \in healed /\ tmap[s[1]] = "mapped"
  <2>1. Resolves(s[1])
    BY <1>2, NewInQueue
  <2> QED
    BY <1>2, <2>1 DEF RefusedInv, Resolves
<1>3. TypeOK /\ RefusedInv /\ [Next]_vars
        => [\A s \in queue' \ queue :
              s[1] \in refused => s[1] \in healed /\ tmap[s[1]] = "mapped"]_vars
  BY <1>2
<1> QED
  BY <1>1, <1>3, StepRefusedInv, IntakeTypeOK, PTL DEF Spec, RefusalSticks

-----------------------------------------------------------------------------
(* The ways in and the ends of the downloads implement TickerLists *)

\* What comes into the queue has been resolved.
LEMMA AskedResolved ==
  ASSUME TypeOK, NEW t \in Tickers, Resolves(t), NEW tfs \in SUBSET Timeframes,
         queue' = queue \cup SeriesOf(t, tfs), UNCHANGED <<blacklist, tmap, readable>>
  PROVE  TL!Next
<1>1. SeriesOf(t, tfs) \in SUBSET (Tickers \X Timeframes)
      /\ \A s \in SeriesOf(t, tfs) : TL!Passes(s[1])
  BY DEF SeriesOf, Resolves, TL!Passes
<1>2. TL!Ask(SeriesOf(t, tfs))
  BY <1>1 DEF TL!Ask
<1> QED
  BY <1>1, <1>2 DEF TL!Next

\* A scan and a sweep ask for what they have resolved, and leave the lists alone.
LEMMA ScanKeepsLists ==
  ASSUME TypeOK, Scan
  PROVE  TL!Next \/ UNCHANGED <<queue, blacklist, tmap, readable>>
<1> USE DEF configVars
<1>1. \A t \in Tickers : timeframes[t] \in SUBSET Timeframes
  BY DEF TypeOK
<1>2. ASSUME NEW t \in Tickers, EnqueueTicker(t) PROVE TL!Next
  BY <1>1, <1>2, AskedResolved DEF EnqueueTicker
<1>3. ASSUME NEW t \in Tickers, SweepDir(t)
      PROVE  TL!Next \/ UNCHANGED <<queue, blacklist, tmap, readable>>
  <2>1. CASE Resolves(t)
    BY <1>1, <1>3, <2>1, AskedResolved DEF SweepDir
  <2>2. CASE ~Resolves(t)
    BY <1>3, <2>2 DEF SweepDir
  <2> QED
    BY <2>1, <2>2
<1>4. CASE \/ Cleanup \/ ScanEnds \/ SweepEnds
           \/ \E f \in Files : ReadFile(f)
           \/ \E t \in Tickers : SkipTicker(t) \/ ScanRaises(t)
  BY <1>4 DEF Cleanup, ScanEnds, SweepEnds, ReadFile, SkipTicker, ScanRaises
<1> QED
  BY <1>2, <1>3, <1>4 DEF Scan

\* The end of a download does to the lists what it may.
LEMMA DownloadKeepsLists ==
  ASSUME NEW s \in Tickers \X Timeframes, Download(s)
  PROVE  TL!Next
<1>1. Settles(s) => s \in queue /\ queue' = queue \ {s} /\ readable' = readable
  BY DEF Settles
<1>2. Registered(s[1]) = TL!Registered(s[1])
  BY DEF Registered, TL!Registered
<1>3. CASE Delivers(s) \/ RefusesAfterBars(s)
  <2>1. TL!Recover(s)
    BY <1>1, <1>2, <1>3 DEF Delivers, RefusesAfterBars, TL!Recover, TL!Serves
  <2> QED
    BY <2>1 DEF TL!Next
<1>4. CASE Refuses(s)
  <2>1. TL!Refuse(s)
    BY <1>1, <1>2, <1>4 DEF Refuses, TL!Refuse, TL!Serves
  <2> QED
    BY <2>1 DEF TL!Next
<1>5. CASE EndsWithout(s)
  <2>1. TL!End(s)
    BY <1>1, <1>5 DEF EndsWithout, TL!End
  <2> QED
    BY <2>1 DEF TL!Next
<1> QED
  BY <1>3, <1>4, <1>5 DEF Download

\* Every step of the node and of the user is one of TickerLists or a stutter.
LEMMA StepKeepsLists ==
  ASSUME TypeOK, [Next]_vars
  PROVE  TL!Next \/ UNCHANGED <<queue, blacklist, tmap, readable>>
<1> USE DEF configVars
<1>1. ASSUME NEW a \in ApiAsks, ApiDownload(a) PROVE TL!Next
  <2> DEFINE tfs == IF a.timeframes # {} THEN a.timeframes ELSE timeframes[a.ticker]
  <2>1. a.ticker \in Tickers /\ tfs \in SUBSET Timeframes
    BY IntakeAssumption DEF TypeOK
  <2>2. /\ Resolves(a.ticker) /\ queue' = queue \cup SeriesOf(a.ticker, tfs)
        /\ UNCHANGED <<blacklist, tmap, readable>>
    BY <1>1 DEF ApiDownload
  <2> QED
    BY <2>1, <2>2, AskedResolved
<1>2. ASSUME NEW t \in Tickers, ApiRejects(t)
      PROVE  TL!Next \/ UNCHANGED <<queue, blacklist, tmap, readable>>
  <2>1. CASE t \in blacklist
    BY <1>2, <2>1 DEF ApiRejects
  <2>2. CASE t \notin blacklist
    <3>1. TL!Reject(t)
      BY <1>2, <2>2 DEF ApiRejects, Skipped, TL!Reject
    <3> QED
      BY <3>1 DEF TL!Next
  <2> QED
    BY <2>1, <2>2
<1>3. CASE Restart
  BY <1>3 DEF Restart, TL!Next, TL!Forget
<1>4. ASSUME NEW t \in Tickers, UserMaps(t) PROVE TL!Next
  <2>1. TL!UserMaps(t)
    BY <1>4 DEF UserMaps, TL!UserMaps
  <2> QED
    BY <2>1 DEF TL!Next
<1>5. ASSUME NEW t \in Tickers, UserUnblacklists(t) PROVE TL!Next
  <2>1. TL!UserUnblacklists(t)
    BY <1>5 DEF UserUnblacklists, TL!UserUnblacklists
  <2> QED
    BY <2>1 DEF TL!Next
<1>6. CASE UserBreaksMap \/ UserRepairsMap
  BY <1>6 DEF UserBreaksMap, UserRepairsMap, TL!Next, TL!UserBreaksOrRepairs
<1>7. CASE \/ ScanBegin \/ TriggerStaleness \/ LoopDies \/ UNCHANGED vars
           \/ \E f \in Files : UserDeletes(f) \/ \E tickers \in SUBSET Tickers : UserWrites(f, tickers)
           \/ \E a \in ApiAsks : ApiBreaksOff(a)
  BY <1>7 DEF ApiBreaksOff, ScanBegin, TriggerStaleness, LoopDies, vars, UserDeletes, UserWrites
<1> QED
  BY <1>1, <1>2, <1>3, <1>4, <1>5, <1>6, <1>7, ScanKeepsLists, DownloadKeepsLists DEF Next

\* For any number of tickers, files and restarts: whatever the watch files, the API, the
\* sweep and the ends of the downloads do to the two lists is what TickerLists allows.
THEOREM IntakeImplementsTickerLists == Spec => ImplementsTickerLists
<1>1. Init => TL!Init
  BY IntakeAssumption DEF Init, TL!Init, TL!Entries
<1>2. TypeOK /\ [Next]_vars => [TL!Next]_(TL!vars)
  BY StepKeepsLists DEF TL!vars
<1> QED
  BY <1>1, <1>2, IntakeTypeOK, PTL DEF Spec, ImplementsTickerLists, TL!Spec
=============================================================================
