---------------------------- MODULE SessionProofs ----------------------------
(***************************************************************************)
(* Theorems about Session, for any number of runs, re-queued runs and /new *)
(* commands, any keep_recent_turns and any number of faults.               *)
(***************************************************************************)
EXTENDS Session, SequenceTheorems, TLAPS

\* What the turns of cache, file and waiting tasks are.  A compaction waits
\* with more turns than it will keep, so that its cut falls inside them.
TurnsInv ==
  /\ cache \in Seq(Item) \cup {None}
  /\ file \in Seq(Item) \cup {None}
  /\ torn \in BOOLEAN /\ hurt \in BOOLEAN
  /\ at \in [Runs \cup News ->
              {"new", "compacting", "running", "learning", "consolidating", "done"}]
  /\ held \in [Runs \cup News -> Seq(Item) \cup {None}]
  /\ \A m \in Runs : at[m] = "compacting" => held[m] # None /\ Len(held[m]) > Keep

IInv == TurnsInv /\ CacheIsFile

-----------------------------------------------------------------------------
(* The sequences the steps build *)

LEMMA OrigIsRun ==
  ASSUME NEW m \in Runs
  PROVE  Orig(m) \in Runs
BY SessionAssumption DEF SessionAssumption, Orig

LEMMA ExchangeType ==
  ASSUME NEW m \in Runs \cup Past
  PROVE  Exchange(m) \in Seq(Item) /\ Ask(m) \in Item
BY DEF Exchange, Ask, Answer, Item, Said

\* What a run has to record is at most two turns.
LEMMA TurnsType ==
  ASSUME NEW m \in Runs
  PROVE  Turns(m) \in Seq(Item) /\ Len(Turns(m)) \in {1, 2}
<1>1. Orig(m) \in Runs \cup Past
  BY OrigIsRun
<1>2. Exchange(Orig(m)) \in Seq(Item) /\ Ask(Orig(m)) \in Item
  BY <1>1, ExchangeType
<1>3. Len(Exchange(Orig(m))) = 2
  BY DEF Exchange
<1> QED BY <1>2, <1>3 DEF Turns

LEMMA LegacyType == LegacyFile \in Seq(Item)
<1>1. CASE Past = {}
  BY <1>1 DEF LegacyFile
<1>2. CASE Past # {}
  <2>1. (CHOOSE p \in Past : TRUE) \in Runs \cup Past
    BY <1>2
  <2>2. Exchange(CHOOSE p \in Past : TRUE) \in Seq(Item)
    BY <2>1, ExchangeType
  <2> QED BY <1>2, <2>2 DEF LegacyFile
<1> QED BY <1>1, <1>2

LEMMA LoadedType ==
  ASSUME TurnsInv
  PROVE  OnDisk \in Seq(Item) /\ Loaded \in Seq(Item)
BY LegacyType DEF TurnsInv, OnDisk, Loaded

\* The part s[a .. b] of a sequence of turns is one.
LEMMA PartType ==
  ASSUME NEW s \in Seq(Item), NEW a \in 1 .. Len(s) + 1, NEW b \in 0 .. Len(s)
  PROVE  SubSeq(s, a, b) \in Seq(Item)
OBVIOUS

\* A summary and the recent turns are turns.
LEMMA SummaryType ==
  ASSUME NEW s \in Seq(Item), NEW ok \in BOOLEAN, Len(s) > Keep
  PROVE  SummaryAndRecent(s, ok) \in Seq(Item)
<1> DEFINE cut == Len(s) - Keep
           old == SubSeq(s, 1, cut)
           new == SubSeq(s, cut + 1, Len(s))
           sum == [role |-> "system", of |-> IF ok THEN Covers(old) ELSE {}]
<1>1. Keep \in Nat
  BY SessionAssumption DEF SessionAssumption
<1>2. cut \in 1 .. Len(s)
  BY <1>1
<1>3. old \in Seq(Item) /\ new \in Seq(Item)
  BY <1>2, PartType
<1>4. \A i \in DOMAIN old : old[i] \in Item
  BY <1>3
<1>5. Covers(old) \subseteq Said
  BY <1>4, Zenon DEF Covers, Item
<1>6. sum \in Item
  BY <1>5, Zenon DEF Item
<1>7. <<sum>> \in Seq(Item)
  BY <1>6
<1>8. <<sum>> \o new \in Seq(Item)
  BY <1>3, <1>7
<1> QED BY <1>8 DEF SummaryAndRecent

\* The intact lines after a write, complete or not.
LEMMA FileWithType ==
  ASSUME TurnsInv, NEW s \in Seq(Item), NEW n \in 0 .. Len(s), NEW tear \in BOOLEAN
  PROVE  FileWith(s, n, tear) \in Seq(Item) \cup {None}
<1> DEFINE base == IF file = None THEN <<>> ELSE file
           whole == SubSeq(s, IF torn THEN 2 ELSE 1, n)
<1>1. base \in Seq(Item)
  BY DEF TurnsInv
<1>2. CASE n = 0
  <2>1. whole = <<>>
    BY <1>2 DEF TurnsInv
  <2>2. base \o whole \in Seq(Item)
    BY <1>1, <2>1
  <2>3. FileWith(s, n, tear) = IF n = 0 /\ ~tear THEN file ELSE base \o whole
    BY DEF FileWith
  <2>4. FileWith(s, n, tear) \in {file, base \o whole}
    BY <2>3
  <2> QED BY <2>2, <2>4 DEF TurnsInv
<1>3. CASE n # 0
  <2>1. whole \in Seq(Item)
    BY <1>3, PartType DEF TurnsInv
  <2>2. base \o whole \in Seq(Item)
    BY <1>1, <2>1
  <2> QED BY <1>3, <2>2 DEF FileWith
<1> QED BY <1>2, <1>3

-----------------------------------------------------------------------------
(* The invariant *)

LEMMA SessionInitInv == Init => IInv
<1> SUFFICES ASSUME Init PROVE IInv
  OBVIOUS
<1>1. TurnsInv
  BY DEF Init, TurnsInv
<1>2. CacheIsFile
  BY DEF Init, CacheIsFile
<1> QED BY <1>1, <1>2 DEF IInv

\* A task that comes back holds nothing more.
LEMMA BackType ==
  ASSUME TurnsInv, NEW m \in Runs \cup News, NEW to \in {"running", "done"}, Back(m, to)
  PROVE  /\ at' \in [Runs \cup News ->
              {"new", "compacting", "running", "learning", "consolidating", "done"}]
         /\ held' \in [Runs \cup News -> Seq(Item) \cup {None}]
         /\ \A k \in Runs : at'[k] = "compacting" => held'[k] # None /\ Len(held'[k]) > Keep
BY DEF TurnsInv, Back, Goes

\* Loading the history puts into the cache what the disk says.
LEMMA LoadsFile ==
  ASSUME IInv, cache' = Loaded, UNCHANGED <<file, hurt>>
  PROVE  cache' \in Seq(Item) /\ CacheIsFile'
<1>1. cache' \in Seq(Item)
  BY LoadedType DEF IInv
<1>2. CacheIsFile'
  BY SessionAssumption DEF IInv, CacheIsFile, Loaded, OnDisk
<1> QED BY <1>1, <1>2

\* A rewrite: what the summary replaces is the same in cache and file.
LEMMA CompactedInv ==
  ASSUME IInv, NEW m \in Runs, NEW ok \in BOOLEAN, Compacted(m, ok) \/ CompactedUnsaved(m, ok)
  PROVE  IInv'
<1>1. SummaryAndRecent(held[m], ok) \in Seq(Item)
  BY SummaryType DEF IInv, TurnsInv, Compacted, CompactedUnsaved
<1>2. Back(m, "running")
  BY DEF Compacted, CompactedUnsaved
<1>3. TurnsInv'
  BY <1>1, <1>2, BackType DEF IInv, TurnsInv, Compacted, CompactedUnsaved
<1>4. CacheIsFile'
  BY <1>1, SessionAssumption DEF CacheIsFile, Compacted, CompactedUnsaved, OnDisk, SessionAssumption
<1> QED BY <1>3, <1>4 DEF IInv

\* An exchange that is written whole lands behind the same turns in both.
LEMMA RecordInv ==
  ASSUME IInv, NEW m \in Runs, Record(m)
  PROVE  IInv'
<1> DEFINE s == Turns(m)
<1>1. s \in Seq(Item) /\ Len(s) \in {1, 2}
  BY TurnsType
<1>2. FileWith(s, Len(s), FALSE) \in Seq(Item) \cup {None}
  <2>1. Len(s) \in 0 .. Len(s)
    BY <1>1
  <2> QED BY <1>1, <2>1, FileWithType DEF IInv
<1>3. Loaded \in Seq(Item) /\ Loaded \o s \in Seq(Item)
  BY <1>1, LoadedType DEF IInv
<1>4. /\ cache' = Loaded \o s /\ file' = FileWith(s, Len(s), FALSE)
      /\ torn' = FALSE /\ held' = held
      /\ hurt' = (hurt \/ torn \/ (file = None /\ Loaded # <<>>))
      /\ at' = [at EXCEPT ![m] = "learning"]
  BY DEF Record, Goes
<1>5. TurnsInv'
  BY <1>2, <1>3, <1>4 DEF IInv, TurnsInv
<1>6. ASSUME ~hurt' PROVE cache' = OnDisk'
  <2>1. ~hurt /\ ~torn /\ (file = None => Loaded = <<>>)
    BY <1>4, <1>6 DEF IInv, TurnsInv
  <2>2. Loaded = OnDisk
    BY <2>1 DEF IInv, CacheIsFile, Loaded
  <2>3. SubSeq(s, 1, Len(s)) = s
    BY <1>1, SubSeqFull
  <2>4. file' = (IF file = None THEN <<>> ELSE file) \o s
    <3>1. Len(s) # 0
      BY <1>1
    <3>2. FileWith(s, Len(s), FALSE) = (IF file = None THEN <<>> ELSE file) \o SubSeq(s, 1, Len(s))
      BY <2>1, <3>1, Zenon DEF FileWith
    <3> QED BY <1>4, <2>3, <3>2
  <2>5. file' = Loaded \o s
    BY <2>1, <2>2, <2>4 DEF OnDisk
  <2>6. file' # None
    BY <1>3, <2>5, SessionAssumption DEF SessionAssumption
  <2> QED BY <1>4, <2>5, <2>6 DEF OnDisk
<1> QED BY <1>5, <1>6 DEF IInv, CacheIsFile

\* An append that fails leaves a turn in the cache alone, and says so.
LEMMA RecordFailsInv ==
  ASSUME IInv, NEW m \in Runs, NEW n \in 0 .. 1, NEW tear \in BOOLEAN, RecordFails(m, n, tear)
  PROVE  IInv'
<1> DEFINE s == Turns(m)
<1>1. s \in Seq(Item) /\ Len(s) \in {1, 2}
  BY TurnsType
<1>2. /\ n < Len(s) /\ hurt' = TRUE /\ held' = held
      /\ cache' = Loaded \o SubSeq(s, 1, n + 1)
      /\ file' = FileWith(s, n, tear) /\ torn' = TornWith(s, n, tear)
      /\ at' = [at EXCEPT ![m] = "done"]
  BY DEF RecordFails, Goes, tasks
<1>3. SubSeq(s, 1, n + 1) \in Seq(Item)
  BY <1>1, <1>2, PartType
<1>4. cache' \in Seq(Item)
  BY <1>2, <1>3, LoadedType DEF IInv
<1>5. n \in 0 .. Len(s)
  BY <1>1
<1>6. file' \in Seq(Item) \cup {None}
  BY <1>1, <1>2, <1>5, FileWithType DEF IInv
<1>7. torn' \in BOOLEAN
  BY <1>2 DEF TornWith
<1>8. TurnsInv'
  BY <1>2, <1>4, <1>6, <1>7 DEF IInv, TurnsInv
<1> QED BY <1>2, <1>8 DEF IInv, CacheIsFile

LEMMA ForgetInv ==
  ASSUME IInv, Forget, file' \in Seq(Item) \cup {None}, torn' \in BOOLEAN
  PROVE  IInv'
<1>1. DOMAIN at = Runs \cup News /\ DOMAIN held = Runs \cup News
  BY DEF IInv, TurnsInv
<1>2. TurnsInv'
  BY <1>1 DEF IInv, TurnsInv, Forget
<1> QED BY <1>2 DEF Forget, IInv, CacheIsFile

LEMMA CrashRecordingInv ==
  ASSUME IInv, NEW m \in Runs, NEW n \in 0 .. 1, NEW tear \in BOOLEAN, CrashRecording(m, n, tear)
  PROVE  IInv'
<1> DEFINE s == Turns(m)
<1>1. s \in Seq(Item) /\ Len(s) \in {1, 2}
  BY TurnsType
<1>2. n \in 0 .. Len(s)
  BY <1>1
<1>3. file' = FileWith(s, n, tear) /\ torn' = TornWith(s, n, tear) /\ Forget
  BY DEF CrashRecording
<1>4. file' \in Seq(Item) \cup {None}
  BY <1>1, <1>2, <1>3, FileWithType DEF IInv
<1>5. torn' \in BOOLEAN
  BY <1>3 DEF TornWith
<1> QED BY <1>3, <1>4, <1>5, ForgetInv

LEMMA RunStepInv ==
  ASSUME IInv, NEW m \in Runs, Turn(m)
  PROVE  IInv'
<1>1. CASE Begin(m)
  <2>1. cache' = Loaded /\ UNCHANGED <<file, hurt, torn, held>> /\ at' = [at EXCEPT ![m] = "running"]
    BY <1>1 DEF Begin, Goes, tasks
  <2>2. cache' \in Seq(Item) /\ CacheIsFile'
    BY <2>1, LoadsFile
  <2> QED BY <2>1, <2>2 DEF IInv, TurnsInv
<1>2. CASE BeginCompacting(m)
  <2>1. /\ cache' = Loaded /\ UNCHANGED <<file, hurt, torn>>
        /\ at' = [at EXCEPT ![m] = "compacting"] /\ held' = [held EXCEPT ![m] = Loaded]
        /\ Len(Loaded) > Keep
    BY <1>2 DEF BeginCompacting, Goes
  <2>2. cache' \in Seq(Item) /\ CacheIsFile'
    BY <2>1, LoadsFile
  <2>3. Loaded # None
    BY <2>1, <2>2, SessionAssumption DEF SessionAssumption
  <2> QED BY <2>1, <2>2, <2>3 DEF IInv, TurnsInv
<1>3. CASE \E ok \in BOOLEAN : Compacted(m, ok) \/ CompactedUnsaved(m, ok)
  BY <1>3, CompactedInv
<1>4. CASE CompactionFails(m)
  <2>1. Back(m, "running") /\ UNCHANGED <<cache, file, torn, hurt>>
    BY <1>4 DEF CompactionFails
  <2> QED BY <2>1, BackType DEF IInv, TurnsInv, CacheIsFile, OnDisk
<1>5. CASE Record(m)
  BY <1>5, RecordInv
<1>6. CASE Resumed(m) \/ TurnFails(m)
  <2>1. UNCHANGED <<cache, file, torn, held, hurt>>
        /\ \E to \in {"learning", "done"} : at' = [at EXCEPT ![m] = to]
    BY <1>6 DEF Resumed, TurnFails, Goes, tasks
  <2> QED BY <2>1 DEF IInv, TurnsInv, CacheIsFile, OnDisk
<1>7. CASE \E n \in 0 .. 1, tear \in BOOLEAN : RecordFails(m, n, tear) \/ CrashRecording(m, n, tear)
  BY <1>7, RecordFailsInv, CrashRecordingInv
<1>8. CASE \E learns \in BOOLEAN : Learn(m, learns)
  <2>1. Back(m, "done") /\ UNCHANGED <<cache, file, torn, hurt>>
    BY <1>8 DEF Learn
  <2> QED BY <2>1, BackType DEF IInv, TurnsInv, CacheIsFile, OnDisk
<1> QED BY <1>1, <1>2, <1>3, <1>4, <1>5, <1>6, <1>7, <1>8 DEF Turn

\* clear_session empties the cache, so that the next load reads the disk.
LEMMA ClearInv ==
  ASSUME IInv, NEW truncated \in BOOLEAN, Clear(truncated)
  PROVE  /\ cache' = None /\ CacheIsFile'
         /\ file' \in Seq(Item) \cup {None} /\ torn' \in BOOLEAN /\ hurt' \in BOOLEAN
<1>1. cache' = None /\ hurt' = FALSE
  BY DEF Clear
<1>2. file' \in {<<>>, file} /\ <<>> \in Seq(Item)
  BY DEF Clear
<1>3. torn' \in BOOLEAN
  BY DEF Clear
<1>4. CacheIsFile'
  BY <1>1 DEF CacheIsFile
<1> QED BY <1>1, <1>2, <1>3, <1>4 DEF IInv, TurnsInv

LEMMA NewStepInv ==
  ASSUME IInv, NEW n \in News, New(n)
  PROVE  IInv'
<1>0. n \notin Runs
  BY SessionAssumption DEF SessionAssumption
<1>1. CASE NewBegins(n)
  <2>1. /\ cache' = Loaded /\ UNCHANGED <<file, hurt, torn>>
        /\ at' = [at EXCEPT ![n] = "consolidating"] /\ held' = [held EXCEPT ![n] = Loaded]
    BY <1>1 DEF NewBegins, Goes
  <2>2. cache' \in Seq(Item) /\ CacheIsFile'
    BY <2>1, LoadsFile
  <2> QED BY <1>0, <2>1, <2>2 DEF IInv, TurnsInv
<1>2. CASE NewUnreadable(n)
  <2>1. UNCHANGED <<cache, file, torn, held, hurt>> /\ at' = [at EXCEPT ![n] = "done"]
    BY <1>2 DEF NewUnreadable, Goes, tasks
  <2> QED BY <2>1 DEF IInv, TurnsInv, CacheIsFile, OnDisk
<1>3. ASSUME NEW truncated \in BOOLEAN, NewOfNothing(n, truncated)
      PROVE  IInv'
  <2>1. Clear(truncated) /\ UNCHANGED held /\ at' = [at EXCEPT ![n] = "done"]
    BY <1>3 DEF NewOfNothing, Goes, tasks
  <2> QED BY <2>1, ClearInv DEF IInv, TurnsInv
<1>4. ASSUME NEW truncated \in BOOLEAN,
             \/ NewUnconsolidated(n, truncated)
             \/ \E update \in SUBSET Runs : NewConsolidated(n, update, truncated)
      PROVE  IInv'
  <2>1. Clear(truncated) /\ Back(n, "done")
    BY <1>4 DEF NewUnconsolidated, NewConsolidated
  <2> QED BY <2>1, ClearInv, BackType DEF IInv, TurnsInv
<1> QED BY <1>1, <1>2, <1>3, <1>4 DEF New

LEMMA EnvironmentStepInv ==
  ASSUME IInv, Prune \/ Crash
  PROVE  IInv'
<1>1. CASE Prune
  <2>1. UNCHANGED <<cache, at, held>> /\ file' = None /\ torn' = FALSE /\ hurt' = (cache # None)
    BY <1>1 DEF Prune, tasks
  <2> QED BY <2>1 DEF IInv, TurnsInv, CacheIsFile
<1>2. CASE Crash
  <2>1. Forget /\ UNCHANGED <<file, torn>>
    BY <1>2 DEF Crash
  <2>2. file' \in Seq(Item) \cup {None} /\ torn' \in BOOLEAN
    BY <2>1 DEF IInv, TurnsInv
  <2> QED BY <2>1, <2>2, ForgetInv
<1> QED BY <1>1, <1>2

LEMMA SessionStepInv == IInv /\ [Next]_vars => IInv'
<1> SUFFICES ASSUME IInv, [Next]_vars PROVE IInv'
  OBVIOUS
<1>1. CASE UNCHANGED vars
  BY <1>1 DEF vars, tasks, IInv, TurnsInv, CacheIsFile, OnDisk
<1>2. CASE Next
  BY <1>2, RunStepInv, NewStepInv, EnvironmentStepInv DEF Next
<1> QED BY <1>1, <1>2

\* Whatever is read before an await and written after it (manager.py), cache,
\* file and waiting tasks hold turns, and cache and file agree.
THEOREM SessionInvariance == Spec => []IInv
<1>1. Init => IInv
  BY SessionInitInv
<1>2. IInv /\ [Next]_vars => IInv'
  BY SessionStepInv
<1> QED BY <1>1, <1>2, PTL DEF Spec

\* Unless a write failed or the file was deleted since the cache was loaded, a
\* restart reads exactly the turns the cache holds (manager.py:71-191).
THEOREM RestartLosesNothing == Spec => []CacheIsFile
<1>1. IInv => CacheIsFile
  BY DEF IInv
<1> QED BY <1>1, SessionInvariance, PTL

-----------------------------------------------------------------------------
(* What a compaction tells *)

\* Where the turns of a compacted history come from.
LEMMA SummaryShape ==
  ASSUME NEW s \in Seq(Item), NEW ok \in BOOLEAN, Len(s) > Keep
  PROVE  LET r   == SummaryAndRecent(s, ok)
             cut == Len(s) - Keep
         IN  /\ Len(r) = Keep + 1
             /\ r[1].role = "system"
             /\ r[1].of = IF ok THEN Covers(SubSeq(s, 1, cut)) ELSE {}
             /\ \A k \in 1 .. Keep : r[k + 1] = s[cut + k]
<1> DEFINE cut == Len(s) - Keep
           new == SubSeq(s, cut + 1, Len(s))
           sum == [role |-> "system", of |-> IF ok THEN Covers(SubSeq(s, 1, cut)) ELSE {}]
           r   == SummaryAndRecent(s, ok)
<1>1. Keep \in Nat /\ cut \in 1 .. Len(s)
  BY SessionAssumption DEF SessionAssumption
<1>2. r = <<sum>> \o new
  BY DEF SummaryAndRecent
<1>3. r \in Seq(Item)
  BY SummaryType
<1>4. new \in Seq(Item)
  BY <1>1, PartType
<1>5. Len(new) = Keep /\ \A k \in 1 .. Keep : new[k] = s[cut + k]
  BY <1>1
<1> HIDE DEF new, sum, r
<1>6. Len(r) = Keep + 1 /\ r[1] = sum /\ \A k \in 1 .. Keep : r[k + 1] = new[k]
  BY <1>1, <1>2, <1>4, <1>5
<1>7. sum.role = "system" /\ sum.of = IF ok THEN Covers(SubSeq(s, 1, cut)) ELSE {}
  BY DEF sum
<1> QED BY <1>5, <1>6, <1>7 DEF r

\* A summary the LLM wrote and the recent turns tell what all the turns told.
LEMMA SummaryTellsAll ==
  ASSUME NEW s \in Seq(Item), Len(s) > Keep
  PROVE  Covers(SummaryAndRecent(s, TRUE)) = Covers(s)
<1> DEFINE cut == Len(s) - Keep
           old == SubSeq(s, 1, cut)
           r   == SummaryAndRecent(s, TRUE)
<1>1. Keep \in Nat /\ cut \in 1 .. Len(s)
  BY SessionAssumption DEF SessionAssumption
<1>2. /\ Len(r) = Keep + 1 /\ r[1].of = Covers(old)
      /\ \A k \in 1 .. Keep : r[k + 1] = s[cut + k]
  BY SummaryShape
<1>3. DOMAIN old = 1 .. cut /\ \A k \in 1 .. cut : old[k] = s[k]
  BY <1>1
<1>4. r \in Seq(Item)
  BY SummaryType
<1> HIDE DEF r, old
<1>5. DOMAIN r = 1 .. Keep + 1 /\ DOMAIN s = 1 .. Len(s)
  BY <1>2, <1>4
<1>6. ASSUME NEW x \in Covers(r) PROVE x \in Covers(s)
  <2>1. PICK i \in DOMAIN r : x \in r[i].of
    BY <1>6 DEF Covers
  <2>2. CASE i = 1
    <3>1. PICK k \in DOMAIN old : x \in old[k].of
      BY <1>2, <2>1, <2>2 DEF Covers
    <3>2. k \in DOMAIN s /\ x \in s[k].of
      BY <1>1, <1>3, <1>5, <3>1
    <3> QED BY <3>2 DEF Covers
  <2>3. CASE i # 1
    <3>0. i - 1 \in 1 .. Keep /\ (i - 1) + 1 = i
      BY <1>1, <1>5, <2>1, <2>3
    <3>1. r[i] = s[cut + (i - 1)]
      BY <1>2, <3>0
    <3>2. cut + (i - 1) \in DOMAIN s /\ x \in s[cut + (i - 1)].of
      BY <1>1, <1>5, <2>1, <3>0, <3>1
    <3> QED BY <3>2 DEF Covers
  <2> QED BY <2>2, <2>3
<1>7. ASSUME NEW x \in Covers(s) PROVE x \in Covers(r)
  <2>1. PICK i \in DOMAIN s : x \in s[i].of
    BY <1>7 DEF Covers
  <2>2. CASE i <= cut
    <3>1. i \in DOMAIN old /\ x \in old[i].of
      BY <1>1, <1>3, <1>5, <2>1, <2>2
    <3>2. x \in r[1].of
      BY <1>2, <3>1 DEF Covers
    <3>3. 1 \in DOMAIN r
      BY <1>1, <1>5
    <3> QED BY <3>2, <3>3 DEF Covers
  <2>3. CASE i > cut
    <3>1. i - cut \in 1 .. Keep /\ cut + (i - cut) = i
      BY <1>1, <1>5, <2>3
    <3>2. (i - cut) + 1 \in DOMAIN r /\ x \in r[(i - cut) + 1].of
      BY <1>1, <1>2, <1>5, <2>1, <3>1
    <3> QED BY <3>2 DEF Covers
  <2> QED BY <1>1, <1>5, <2>2, <2>3
<1>8. Covers(r) = Covers(s)
  BY <1>6, <1>7
<1> QED BY <1>8 DEF r

\* A compaction that nothing overtook, and whose summary the LLM wrote, loses
\* nothing of what was told and keeps the recent turns as they were
\* (compaction.py:62-106).
THEOREM CompactionIsExact == Spec => CompactionExact
<1> DEFINE Exact(m) ==
      Compacted(m, TRUE) /\ cache = held[m] =>
        /\ Covers(cache') = Covers(cache)
        /\ \A k \in 1 .. Keep : cache'[Len(cache') - k + 1] = cache[Len(cache) - k + 1]
<1>1. ASSUME IInv, NEW m \in Runs PROVE Exact(m)
  <2>0. SUFFICES ASSUME Compacted(m, TRUE), cache = held[m]
               PROVE  /\ Covers(cache') = Covers(cache)
                      /\ \A k \in 1 .. Keep : cache'[Len(cache') - k + 1] = cache[Len(cache) - k + 1]
    OBVIOUS
  <2>1. cache \in Seq(Item) /\ Len(cache) > Keep
    BY <1>1, <2>0 DEF IInv, TurnsInv, Compacted
  <2>2. cache' = SummaryAndRecent(cache, TRUE)
    BY <2>0 DEF Compacted
  <2>3. Covers(cache') = Covers(cache)
    BY <2>1, <2>2, SummaryTellsAll
  <2>4. ASSUME NEW k \in 1 .. Keep
        PROVE  cache'[Len(cache') - k + 1] = cache[Len(cache) - k + 1]
    <3>1. Len(cache') = Keep + 1
          /\ \A j \in 1 .. Keep : cache'[j + 1] = cache[(Len(cache) - Keep) + j]
      BY <2>1, <2>2, SummaryShape
    <3>2. Keep \in Nat /\ Len(cache) \in Nat
      BY <2>1, SessionAssumption DEF SessionAssumption
    <3>3. PICK j \in 1 .. Keep : j = Keep + 1 - k
      BY <3>2
    <3>4. cache'[j + 1] = cache[(Len(cache) - Keep) + j]
      BY <3>1
    <3>5. j + 1 = Len(cache') - k + 1
      BY <3>1, <3>2, <3>3
    <3>6. (Len(cache) - Keep) + j = Len(cache) - k + 1
      BY <3>2, <3>3
    <3>7. cache'[j + 1] = cache'[Len(cache') - k + 1]
      BY <3>5, Zenon
    <3>8. cache[(Len(cache) - Keep) + j] = cache[Len(cache) - k + 1]
      BY <3>6, Zenon
    <3> QED BY <3>4, <3>7, <3>8, Zenon
  <2> QED BY <2>3, <2>4
<1>2. IInv => [\A m \in Runs : Exact(m)]_vars
  BY <1>1
<1> QED BY <1>2, SessionInvariance, PTL DEF CompactionExact

\* The learner saves what it re-reads, so that no other task's facts are lost
\* (turn_execution.py:24); only the end of a consolidation may drop any.
THEOREM FactsAreKept == Spec => FactsStay
<1> DEFINE Kept == memory \subseteq memory' \/ \E n \in News : at[n] = "consolidating" /\ at'[n] = "done"
<1>1. ASSUME IInv, NEW m \in Runs, Turn(m) PROVE memory \subseteq memory'
  BY <1>1 DEF Turn, Begin, BeginCompacting, Compacted, CompactedUnsaved, CompactionFails, Record,
       Resumed, TurnFails, RecordFails, CrashRecording, Learn, tasks
<1>2. ASSUME IInv, NEW n \in News, New(n) PROVE Kept
  <2>1. CASE NewBegins(n) \/ NewUnreadable(n) \/ \E truncated \in BOOLEAN : NewOfNothing(n, truncated)
    BY <2>1 DEF NewBegins, NewUnreadable, NewOfNothing
  <2>2. ASSUME NEW truncated \in BOOLEAN,
               \/ NewUnconsolidated(n, truncated)
               \/ \E update \in SUBSET Runs : NewConsolidated(n, update, truncated)
        PROVE  Kept
    <3>1. at[n] = "consolidating" /\ at' = [at EXCEPT ![n] = "done"]
      BY <2>2 DEF NewUnconsolidated, NewConsolidated, Back, Goes
    <3>2. at'[n] = "done"
      BY <1>2, <3>1 DEF IInv, TurnsInv
    <3> QED BY <3>1, <3>2
  <2> QED BY <1>2, <2>1, <2>2 DEF New
<1>3. ASSUME Prune \/ Crash \/ UNCHANGED vars PROVE memory \subseteq memory'
  BY <1>3 DEF Prune, Crash, vars
<1>4. IInv /\ [Next]_vars => [Kept]_vars
  BY <1>1, <1>2, <1>3 DEF Next
<1> QED BY <1>4, SessionInvariance, PTL DEF FactsStay, Spec

-----------------------------------------------------------------------------
(* A history, and the order of what was said *)

\* What Chronicle and PairsAdjacent ask of a history s, told against a log l: it
\* tells only what was said, in the order of the log, a summary comes first, and
\* an answer follows its question at once.
Precedes(l, x, y) == \E i, j \in DOMAIN l : i < j /\ l[i] = x /\ l[j] = y
Told(l, s) == \A i \in DOMAIN s : s[i].of \subseteq SeqRange(l)
InOrder(l, s) ==
  \A i, j \in DOMAIN s : i < j => \A x \in s[i].of, y \in s[j].of : Precedes(l, x, y)
Paired(s) ==
  \A i, j \in DOMAIN s : \A m \in Runs \cup Past : s[i] = Ask(m) /\ s[j] = Answer(m) => j = i + 1
Headed(s) == \A i \in DOMAIN s : s[i].role = "system" => i = 1

IsHistory(l, s) == s \in Seq(Item) /\ Told(l, s) /\ InOrder(l, s) /\ Paired(s) /\ Headed(s)

SaidOnce(l) == \A i, j \in DOMAIN l : l[i] = l[j] => i = j
Silent(l, m) == \A i \in DOMAIN l : l[i][1] # m

\* r is s and then t: where the elements of the two are in it.
IsJoin(r, s, t) ==
  /\ Len(s) \in Nat
  /\ \A i \in DOMAIN s : i \in DOMAIN r /\ r[i] = s[i] /\ i \in Nat \ {0} /\ i <= Len(s)
  /\ \A j \in DOMAIN t : Len(s) + j \in DOMAIN r /\ r[Len(s) + j] = t[j] /\ j \in Nat \ {0}
  /\ \A k \in DOMAIN r : k \in Nat /\ (k \in DOMAIN s \/ \E j \in DOMAIN t : k = Len(s) + j)

LEMMA Joined ==
  ASSUME NEW S, NEW s \in Seq(S), NEW t \in Seq(S)
  PROVE  s \o t \in Seq(S) /\ IsJoin(s \o t, s, t)
<1>1. /\ s \o t \in Seq(S) /\ Len(s) \in Nat /\ Len(t) \in Nat
      /\ DOMAIN s = 1 .. Len(s) /\ DOMAIN t = 1 .. Len(t) /\ DOMAIN (s \o t) = 1 .. Len(s) + Len(t)
  OBVIOUS
<1>2. \A i \in DOMAIN s : (s \o t)[i] = s[i]
  OBVIOUS
<1>3. \A j \in DOMAIN t : (s \o t)[Len(s) + j] = t[j]
  OBVIOUS
<1>4. ASSUME NEW k \in DOMAIN (s \o t), k \notin DOMAIN s
      PROVE  \E j \in DOMAIN t : k = Len(s) + j
  <2>1. k - Len(s) \in DOMAIN t /\ k = Len(s) + (k - Len(s))
    BY <1>1, <1>4
  <2> QED BY <2>1
<1> QED BY <1>1, <1>2, <1>3, <1>4 DEF IsJoin

LEMMA PrecedesGrows ==
  ASSUME NEW l \in Seq(Said), NEW t \in Seq(Said), NEW x, NEW y, Precedes(l, x, y)
  PROVE  Precedes(l \o t, x, y)
<1>1. PICK i \in DOMAIN l, j \in DOMAIN l : i < j /\ l[i] = x /\ l[j] = y
  BY DEF Precedes
<1>2. /\ i \in DOMAIN (l \o t) /\ (l \o t)[i] = x
      /\ j \in DOMAIN (l \o t) /\ (l \o t)[j] = y
  BY <1>1, Joined DEF IsJoin
<1> QED BY <1>1, <1>2 DEF Precedes

\* A history stays one while more is said.
LEMMA HistoryGrows ==
  ASSUME NEW l \in Seq(Said), NEW t \in Seq(Said), NEW s, IsHistory(l, s)
  PROVE  IsHistory(l \o t, s)
<1>1. SeqRange(l) \subseteq SeqRange(l \o t)
  BY Joined DEF SeqRange, IsJoin
<1>2. Told(l \o t, s)
  BY <1>1 DEF IsHistory, Told
<1>3. InOrder(l \o t, s)
  BY PrecedesGrows DEF IsHistory, InOrder
<1> QED BY <1>2, <1>3 DEF IsHistory

\* Two histories of different runs, one behind the other.
LEMMA HistoryJoins ==
  ASSUME NEW l \in Seq(Said), NEW t \in Seq(Said), NEW s, NEW p,
         IsHistory(l, s), IsHistory(t, p),
         \A j \in DOMAIN p : p[j].role # "system",
         \A x \in SeqRange(l), y \in SeqRange(t) : x[1] # y[1]
  PROVE  IsHistory(l \o t, s \o p)
<1> DEFINE r == s \o p
<1>1. s \in Seq(Item) /\ p \in Seq(Item) /\ r \in Seq(Item) /\ IsJoin(r, s, p)
  BY Joined DEF IsHistory
<1>2. IsJoin(l \o t, l, t)
  BY Joined
<1> HIDE DEF r
<1>3. Told(l \o t, r)
  <2>1. SeqRange(l) \subseteq SeqRange(l \o t) /\ SeqRange(t) \subseteq SeqRange(l \o t)
    <3>1. \A i \in DOMAIN l : l[i] \in SeqRange(l \o t)
      BY <1>2 DEF SeqRange, IsJoin
    <3>2. \A j \in DOMAIN t : t[j] \in SeqRange(l \o t)
      BY <1>2 DEF SeqRange, IsJoin
    <3> QED BY <3>1, <3>2 DEF SeqRange
  <2> QED BY <1>1, <2>1 DEF Told, IsHistory, IsJoin
<1>4. InOrder(l \o t, r)
  <2> SUFFICES ASSUME NEW i \in DOMAIN r, NEW j \in DOMAIN r, i < j, NEW x \in r[i].of, NEW y \in r[j].of
               PROVE  Precedes(l \o t, x, y)
    BY DEF InOrder
  <2>1. CASE j \in DOMAIN s
    <3>1. i \in DOMAIN s
      BY <1>1, <2>1 DEF IsJoin
    <3>2. Precedes(l, x, y)
      BY <1>1, <2>1, <3>1 DEF IsHistory, InOrder, IsJoin
    <3> QED BY <3>2, PrecedesGrows
  <2>2. ASSUME i \in DOMAIN s, NEW b \in DOMAIN p, j = Len(s) + b
        PROVE  Precedes(l \o t, x, y)
    <3>1. x \in s[i].of /\ y \in p[b].of
      BY <1>1, <2>2 DEF IsJoin
    <3>2. x \in SeqRange(l) /\ y \in SeqRange(t)
      BY <2>2, <3>1 DEF IsHistory, Told
    <3>3. PICK a \in DOMAIN l : l[a] = x
      BY <3>2 DEF SeqRange
    <3>4. PICK c \in DOMAIN t : t[c] = y
      BY <3>2 DEF SeqRange
    <3>5. /\ a \in DOMAIN (l \o t) /\ (l \o t)[a] = x
          /\ Len(l) + c \in DOMAIN (l \o t) /\ (l \o t)[Len(l) + c] = y
          /\ a < Len(l) + c
      BY <1>2, <3>3, <3>4 DEF IsJoin
    <3> QED BY <3>5 DEF Precedes
  <2>3. ASSUME NEW a \in DOMAIN p, i = Len(s) + a, NEW b \in DOMAIN p, j = Len(s) + b
        PROVE  Precedes(l \o t, x, y)
    <3>1. a < b /\ x \in p[a].of /\ y \in p[b].of
      BY <1>1, <2>3 DEF IsJoin
    <3>2. Precedes(t, x, y)
      BY <2>3, <3>1 DEF IsHistory, InOrder
    <3>3. PICK c \in DOMAIN t, d \in DOMAIN t : c < d /\ t[c] = x /\ t[d] = y
      BY <3>2 DEF Precedes
    <3>4. /\ Len(l) + c \in DOMAIN (l \o t) /\ (l \o t)[Len(l) + c] = x
          /\ Len(l) + d \in DOMAIN (l \o t) /\ (l \o t)[Len(l) + d] = y
          /\ Len(l) + c < Len(l) + d
      BY <1>2, <3>3 DEF IsJoin
    <3> QED BY <3>4 DEF Precedes
  <2>4. j \notin DOMAIN s => \E b \in DOMAIN p : j = Len(s) + b
    BY <1>1 DEF IsJoin
  <2>5. i \notin DOMAIN s => \E a \in DOMAIN p : i = Len(s) + a
    BY <1>1 DEF IsJoin
  <2> QED BY <2>1, <2>2, <2>3, <2>4, <2>5
<1>5. Paired(r)
  <2> SUFFICES ASSUME NEW i \in DOMAIN r, NEW j \in DOMAIN r, NEW m \in Runs \cup Past,
                      r[i] = Ask(m), r[j] = Answer(m)
               PROVE  j = i + 1
    BY DEF Paired
  <2>1. <<m, "user">> \in r[i].of /\ <<m, "assistant">> \in r[j].of
    BY DEF Ask, Answer
  <2>2. CASE i \in DOMAIN s /\ j \in DOMAIN s
    BY <1>1, <2>2 DEF IsHistory, Paired, IsJoin
  <2>3. ASSUME NEW a \in DOMAIN p, i = Len(s) + a, NEW b \in DOMAIN p, j = Len(s) + b
        PROVE  j = i + 1
    <3>1. p[a] = Ask(m) /\ p[b] = Answer(m)
      BY <1>1, <2>3 DEF IsJoin
    <3>2. b = a + 1
      BY <3>1 DEF IsHistory, Paired
    <3> QED BY <1>1, <2>3, <3>2 DEF IsJoin
  <2>4. ASSUME i \in DOMAIN s, NEW b \in DOMAIN p, j = Len(s) + b
        PROVE  FALSE
    <3>1. <<m, "user">> \in SeqRange(l) /\ <<m, "assistant">> \in SeqRange(t)
      BY <1>1, <2>1, <2>4 DEF IsHistory, Told, IsJoin
    <3> QED BY <3>1
  <2>5. ASSUME j \in DOMAIN s, NEW a \in DOMAIN p, i = Len(s) + a
        PROVE  FALSE
    <3>1. <<m, "assistant">> \in SeqRange(l) /\ <<m, "user">> \in SeqRange(t)
      BY <1>1, <2>1, <2>5 DEF IsHistory, Told, IsJoin
    <3> QED BY <3>1
  <2>6. (j \in DOMAIN s \/ \E b \in DOMAIN p : j = Len(s) + b) /\ (i \in DOMAIN s \/ \E a \in DOMAIN p : i = Len(s) + a)
    BY <1>1 DEF IsJoin
  <2> QED BY <2>2, <2>3, <2>4, <2>5, <2>6
<1>6. Headed(r)
  BY <1>1 DEF IsHistory, Headed, IsJoin
<1> QED BY <1>1, <1>3, <1>4, <1>5, <1>6 DEF IsHistory, r

LEMMA SummaryIsHistory ==
  ASSUME NEW l, NEW s, NEW ok \in BOOLEAN, IsHistory(l, s), Len(s) > Keep
  PROVE  IsHistory(l, SummaryAndRecent(s, ok))
<1> DEFINE r   == SummaryAndRecent(s, ok)
           cut == Len(s) - Keep
           old == SubSeq(s, 1, cut)
<1>1. s \in Seq(Item) /\ Keep \in Nat /\ cut \in 1 .. Len(s)
  BY SessionAssumption DEF SessionAssumption, IsHistory
<1>2. r \in Seq(Item)
  BY <1>1, SummaryType
<1>3. /\ Len(r) = Keep + 1 /\ r[1].role = "system"
      /\ r[1].of = IF ok THEN Covers(old) ELSE {}
      /\ \A k \in 1 .. Keep : r[k + 1] = s[cut + k]
  BY <1>1, SummaryShape
<1>4. DOMAIN old = 1 .. cut /\ \A k \in 1 .. cut : old[k] = s[k]
  BY <1>1
<1> HIDE DEF r, old, cut
\* Every turn but the first is one of s, behind the cut.
<1>5. ASSUME NEW i \in DOMAIN r, i # 1
      PROVE  /\ cut + (i - 1) \in DOMAIN s /\ cut + (i - 1) > cut
             /\ r[i] = s[cut + (i - 1)]
  <2>1. i - 1 \in 1 .. Keep /\ (i - 1) + 1 = i
    BY <1>1, <1>2, <1>3, <1>5
  <2>2. r[i] = s[cut + (i - 1)]
    BY <1>3, <2>1
  <2>3. cut + (i - 1) \in 1 .. Len(s)
    BY <1>1, <2>1 DEF cut
  <2> QED BY <1>1, <2>1, <2>2, <2>3
\* What the summary tells is in the turns up to the cut.
<1>6. ASSUME NEW x \in r[1].of
      PROVE  \E k \in DOMAIN s : k <= cut /\ x \in s[k].of
  <2>1. x \in Covers(old)
    BY <1>3, <1>6
  <2>2. PICK k \in DOMAIN old : x \in old[k].of
    BY <2>1 DEF Covers
  <2>3. k \in DOMAIN s /\ k <= cut /\ x \in s[k].of
    BY <1>1, <1>4, <2>2
  <2> QED BY <2>3
<1>7. Told(l, r)
  <2> SUFFICES ASSUME NEW i \in DOMAIN r, NEW x \in r[i].of PROVE x \in SeqRange(l)
    BY DEF Told
  <2>1. \E k \in DOMAIN s : x \in s[k].of
    BY <1>5, <1>6
  <2> QED BY <2>1 DEF IsHistory, Told
<1>8. InOrder(l, r)
  <2> SUFFICES ASSUME NEW i \in DOMAIN r, NEW j \in DOMAIN r, i < j, NEW x \in r[i].of, NEW y \in r[j].of
               PROVE  Precedes(l, x, y)
    BY DEF InOrder
  <2>1. i \in Nat \ {0} /\ j \in Nat /\ j # 1 /\ cut \in Nat
    BY <1>1, <1>2
  <2>2. cut + (j - 1) \in DOMAIN s /\ y \in s[cut + (j - 1)].of
    BY <1>5, <2>1
  <2>3. \E k \in DOMAIN s : k < cut + (j - 1) /\ x \in s[k].of
    <3>1. CASE i = 1
      <4>1. PICK k \in DOMAIN s : k <= cut /\ x \in s[k].of
        BY <1>6, <3>1
      <4>2. k < cut + (j - 1)
        BY <1>1, <2>1, <4>1
      <4> QED BY <4>1, <4>2
    <3>2. CASE i # 1
      <4>1. cut + (i - 1) \in DOMAIN s /\ x \in s[cut + (i - 1)].of
        BY <1>5, <3>2
      <4>2. cut + (i - 1) < cut + (j - 1)
        BY <2>1
      <4> QED BY <4>1, <4>2
    <3> QED BY <3>1, <3>2
  <2> QED BY <2>2, <2>3 DEF IsHistory, InOrder
<1>9. Paired(r)
  <2> SUFFICES ASSUME NEW i \in DOMAIN r, NEW j \in DOMAIN r, NEW m \in Runs \cup Past,
                      r[i] = Ask(m), r[j] = Answer(m)
               PROVE  j = i + 1
    BY DEF Paired
  <2>1. i # 1 /\ j # 1
    BY <1>3 DEF Ask, Answer
  <2>2. /\ cut + (i - 1) \in DOMAIN s /\ s[cut + (i - 1)] = Ask(m)
        /\ cut + (j - 1) \in DOMAIN s /\ s[cut + (j - 1)] = Answer(m)
    BY <1>5, <2>1
  <2>3. cut + (j - 1) = (cut + (i - 1)) + 1
    BY <2>2 DEF IsHistory, Paired
  <2> QED BY <1>1, <1>2, <2>3
<1>10. Headed(r)
  <2> SUFFICES ASSUME NEW i \in DOMAIN r, i # 1 PROVE r[i].role # "system"
    BY DEF Headed
  <2>1. cut + (i - 1) \in DOMAIN s /\ cut + (i - 1) # 1 /\ r[i] = s[cut + (i - 1)]
    BY <1>1, <1>2, <1>5
  <2> QED BY <2>1 DEF IsHistory, Headed
<1> QED BY <1>2, <1>7, <1>8, <1>9, <1>10 DEF IsHistory, r

LEMMA PartElements ==
  ASSUME NEW s \in Seq(Item), NEW a \in 1 .. Len(s) + 1, NEW b \in 0 .. Len(s)
  PROVE  \A j \in DOMAIN SubSeq(s, a, b) :
           j \in Nat \ {0} /\ a + j - 1 \in 1 .. b /\ SubSeq(s, a, b)[j] = s[a + j - 1]
<1>1. a \in Nat /\ b \in Nat /\ Len(s) \in Nat
  OBVIOUS
<1>2. CASE a <= b
  <2>1. /\ DOMAIN SubSeq(s, a, b) = 1 .. b - a + 1
        /\ \A j \in 1 .. b - a + 1 : SubSeq(s, a, b)[j] = s[a + j - 1]
    BY <1>1, <1>2
  <2> QED BY <1>1, <2>1
<1>3. CASE a > b
  <2>1. DOMAIN SubSeq(s, a, b) = {}
    BY <1>1, <1>3
  <2> QED BY <2>1
<1> QED BY <1>1, <1>2, <1>3

\* What a run says, in its order.
Words(s) == [i \in DOMAIN s |-> CHOOSE x \in s[i].of : TRUE]

\* The part of an exchange that reaches cache or file is a history of what there
\* was to say so far, and of nothing else.
LEMMA ExchangeTells ==
  ASSUME NEW o \in Runs \cup Past, NEW s \in {<<Ask(o)>>, Exchange(o)},
         NEW k \in 0 .. Len(s), NEW a \in {1, 2}, NEW b \in 0 .. k
  PROVE  LET t == Words(SubSeq(s, 1, k))
             p == SubSeq(s, a, b)
         IN  /\ t \in Seq(Said) /\ SaidOnce(t) /\ \A y \in SeqRange(t) : y[1] = o
             /\ IsHistory(t, p) /\ \A j \in DOMAIN p : p[j].role # "system"
<1> DEFINE e == SubSeq(s, 1, k)
           t == Words(e)
           p == SubSeq(s, a, b)
           w == <<<<o, "user">>, <<o, "assistant">>>>
<1>1. s \in Seq(Item) /\ Len(s) \in {1, 2} /\ k \in 0 .. Len(s)
  <2>1. <<Ask(o)>> \in Seq(Item) /\ Exchange(o) \in Seq(Item)
    BY ExchangeType
  <2>2. Len(<<Ask(o)>>) = 1 /\ Len(Exchange(o)) = 2
    BY DEF Exchange
  <2> QED BY <2>1, <2>2
<1>2. \A i \in DOMAIN s : i \in {1, 2} /\ s[i] = IF i = 1 THEN Ask(o) ELSE Answer(o)
  <2>1. CASE s = <<Ask(o)>>
    BY <2>1
  <2>2. CASE s = <<Ask(o), Answer(o)>>
    BY <2>2
  <2> QED BY <2>1, <2>2 DEF Exchange
<1>3. \A i \in DOMAIN s : s[i].of = {w[i]} /\ s[i].role # "system"
  <2>1. /\ Ask(o).of = {w[1]} /\ Ask(o).role # "system"
        /\ Answer(o).of = {w[2]} /\ Answer(o).role # "system"
    BY DEF Ask, Answer
  <2> HIDE DEF w
  <2> QED BY <1>2, <2>1
<1>4. w[1] # w[2] /\ \A i \in {1, 2} : w[i] \in Said /\ w[i][1] = o
  BY DEF Said
<1> HIDE DEF w
<1>5. e \in Seq(Item) /\ DOMAIN e = 1 .. k /\ \A i \in 1 .. k : e[i] = s[i]
  BY <1>1
<1>6. p \in Seq(Item) /\ \A j \in DOMAIN p : j \in Nat \ {0} /\ a + j - 1 \in 1 .. k /\ p[j] = s[a + j - 1]
  <2>1. k \in Nat /\ b \in Nat /\ b <= k /\ k <= Len(s)
    BY <1>1
  <2>2. 1 .. b \subseteq 1 .. k
    BY <2>1
  <2>3. a \in 1 .. Len(s) + 1 /\ b \in 0 .. Len(s)
    BY <1>1, <2>1
  <2>4. p \in Seq(Item)
    BY <1>1, <2>3, PartType
  <2>5. \A j \in DOMAIN p : j \in Nat \ {0} /\ a + j - 1 \in 1 .. b /\ p[j] = s[a + j - 1]
    BY <1>1, <2>3, PartElements
  <2> QED BY <2>2, <2>4, <2>5
<1>6a. 1 .. k \subseteq {1, 2} /\ 1 .. k \subseteq DOMAIN s
  <2>1. s \in Seq(Item) => DOMAIN s = 1 .. Len(s) /\ Len(s) \in Nat
    OBVIOUS
  <2>2. DOMAIN s = 1 .. Len(s) /\ Len(s) \in Nat
    BY <1>1, <2>1
  <2>3. Len(s) = 1 \/ Len(s) = 2
    BY <1>1
  <2>4. k \in Nat /\ k <= Len(s)
    BY <1>1
  <2> QED BY <2>2, <2>3, <2>4
<1> HIDE DEF e, p
<1>7. DOMAIN t = 1 .. k /\ \A i \in 1 .. k : t[i] = w[i]
  <2>1. \A i \in 1 .. k : e[i].of = {w[i]}
    BY <1>1, <1>3, <1>5
  <2>2. \A x : (CHOOSE y \in {x} : TRUE) = x
    OBVIOUS
  <2> QED BY <1>5, <2>1, <2>2 DEF Words
<1>8. t \in Seq(Said)
  <2>1. k \in Nat /\ \A i \in 1 .. k : t[i] \in Said
    BY <1>1, <1>4, <1>6a, <1>7
  <2>2. t = [i \in 1 .. k |-> t[i]]
    BY <1>7 DEF Words
  <2> QED BY <2>1, <2>2
<1> HIDE DEF t
<1>9. SaidOnce(t) /\ \A y \in SeqRange(t) : y[1] = o
  BY <1>1, <1>4, <1>6a, <1>7 DEF SaidOnce, SeqRange
<1>10. \A j \in DOMAIN p : p[j].of = {w[a + j - 1]} /\ p[j].role # "system"
  BY <1>3, <1>6, <1>6a
<1>11. Told(t, p)
  <2>1. \A c \in 1 .. k : w[c] \in SeqRange(t)
    BY <1>7 DEF SeqRange
  <2> QED BY <1>6, <1>10, <2>1 DEF Told
<1>12. InOrder(t, p)
  <2> SUFFICES ASSUME NEW i \in DOMAIN p, NEW j \in DOMAIN p, i < j, NEW x \in p[i].of, NEW y \in p[j].of
               PROVE  Precedes(t, x, y)
    BY DEF InOrder
  <2>0. \A c \in DOMAIN p : \A z \in p[c].of : a + c - 1 \in DOMAIN t /\ t[a + c - 1] = z
    <3>1. \A c \in DOMAIN p : t[a + c - 1] = w[a + c - 1]
      BY <1>6, <1>7
    <3>2. \A c \in DOMAIN p : a + c - 1 \in DOMAIN t
      BY <1>6, <1>7
    <3>3. \A c \in DOMAIN p : \A z \in p[c].of : z = w[a + c - 1]
      BY <1>10
    <3> QED BY <3>1, <3>2, <3>3, Zenon
  <2>1. /\ a + i - 1 \in DOMAIN t /\ t[a + i - 1] = x
        /\ a + j - 1 \in DOMAIN t /\ t[a + j - 1] = y
    BY <2>0
  <2>2. a + i - 1 < a + j - 1
    BY <1>6
  <2> QED BY <2>1, <2>2 DEF Precedes
<1>13. Paired(p)
  <2> SUFFICES ASSUME NEW i \in DOMAIN p, NEW j \in DOMAIN p, NEW n \in Runs \cup Past,
                      p[i] = Ask(n), p[j] = Answer(n)
               PROVE  j = i + 1
    BY DEF Paired
  <2>1. a + i - 1 \in {1, 2} /\ a + j - 1 \in {1, 2}
    BY <1>1, <1>6, <1>6a
  <2>2. p[i] = s[a + i - 1] /\ p[j] = s[a + j - 1] /\ a + i - 1 \in DOMAIN s /\ a + j - 1 \in DOMAIN s
    BY <1>1, <1>6, <1>6a
  <2>3. a + i - 1 = 1 /\ a + j - 1 = 2
    BY <1>2, <2>1, <2>2 DEF Ask, Answer
  <2>4. a \in Nat /\ i \in Nat /\ j \in Nat
    BY <1>6
  <2> QED BY <2>3, <2>4
<1>14. Headed(p)
  BY <1>10 DEF Headed
<1> QED BY <1>6, <1>8, <1>9, <1>10, <1>11, <1>12, <1>13, <1>14 DEF IsHistory, t, p, e

-----------------------------------------------------------------------------
(* What cache, file and waiting tasks tell *)

\* Every history there is, the one a task read before an await included, is one
\* of the log; and nothing of a run is in the log before its end.
HistInv ==
  /\ log \in Seq(Said) /\ SaidOnce(log)
  /\ IsHistory(log, LegacyFile)
  /\ cache # None => IsHistory(log, cache)
  /\ file # None => IsHistory(log, file)
  /\ \A x \in Runs \cup News : held[x] # None => IsHistory(log, held[x])
  /\ \A m \in Runs \ DOMAIN CopyOf : at[m] \in {"new", "compacting", "running"} => Silent(log, m)

LEMMA EmptyHistory ==
  ASSUME NEW l
  PROVE  IsHistory(l, <<>>)
BY DEF IsHistory, Told, InOrder, Paired, Headed

LEMMA LoadedHistory ==
  ASSUME HistInv
  PROVE  IsHistory(log, OnDisk) /\ IsHistory(log, Loaded)
BY DEF HistInv, OnDisk, Loaded

\* Steps that record nothing.
LEMMA HistStays ==
  ASSUME HistInv, UNCHANGED log,
         cache' # None => IsHistory(log, cache'),
         file' # None => IsHistory(log, file'),
         \A x \in Runs \cup News : held'[x] # None => IsHistory(log, held'[x]),
         \A m \in Runs : at'[m] \in {"new", "compacting", "running"} =>
                           at[m] \in {"new", "compacting", "running"}
  PROVE  HistInv'
<1>1. log' \in Seq(Said) /\ SaidOnce(log')
  BY DEF HistInv
<1>2. IsHistory(log', LegacyFile)
  BY DEF HistInv
<1>3. cache' # None => IsHistory(log', cache')
  OBVIOUS
<1>4. file' # None => IsHistory(log', file')
  OBVIOUS
<1>5. \A x \in Runs \cup News : held'[x] # None => IsHistory(log', held'[x])
  OBVIOUS
<1>6. \A m \in Runs \ DOMAIN CopyOf : at'[m] \in {"new", "compacting", "running"} => Silent(log', m)
  BY DEF HistInv
<1> QED BY <1>1, <1>2, <1>3, <1>4, <1>5, <1>6 DEF HistInv

LEMMA HistInit ==
  ASSUME Init
  PROVE  HistInv
<1>1. /\ cache = None /\ file = None /\ \A x \in Runs \cup News : held[x] = None
      /\ log = Words(LegacyFile)
  BY DEF Init, Words
<1>2. CASE Past = {}
  <2>1. LegacyFile = <<>> /\ log = <<>>
    BY <1>1, <1>2 DEF LegacyFile, Words
  <2>2. IsHistory(log, LegacyFile)
    BY <2>1, EmptyHistory
  <2>3. log \in Seq(Said) /\ SaidOnce(log) /\ \A m \in Runs : Silent(log, m)
    BY <2>1 DEF SaidOnce, Silent
  <2> QED BY <1>1, <2>2, <2>3 DEF HistInv
<1>3. CASE Past # {}
  <2> DEFINE p == CHOOSE p \in Past : TRUE
  <2>1. p \in Past /\ LegacyFile = Exchange(p)
    BY <1>3 DEF LegacyFile
  <2> HIDE DEF p
  <2>2. Exchange(p) \in Seq(Item) /\ Len(Exchange(p)) = 2
    BY <2>1, ExchangeType DEF Exchange
  <2>3. SubSeq(Exchange(p), 1, 2) = Exchange(p)
    BY <2>2, SubSeqFull
  <2>4. /\ log \in Seq(Said) /\ SaidOnce(log) /\ \A y \in SeqRange(log) : y[1] = p
        /\ IsHistory(log, LegacyFile)
    <3>1. p \in Runs \cup Past /\ Exchange(p) \in {<<Ask(p)>>, Exchange(p)}
          /\ 2 \in 0 .. Len(Exchange(p)) /\ 1 \in {1, 2} /\ 2 \in 0 .. 2
      BY <2>1, <2>2
    <3>2. LET u == Words(SubSeq(Exchange(p), 1, 2))
          IN  /\ u \in Seq(Said) /\ SaidOnce(u) /\ \A y \in SeqRange(u) : y[1] = p
              /\ IsHistory(u, SubSeq(Exchange(p), 1, 2))
      BY <3>1, ExchangeTells, Zenon
    <3> QED BY <1>1, <2>1, <2>3, <3>2
  <2>5. \A m \in Runs : Silent(log, m)
    BY <2>1, <2>4, SessionAssumption DEF SessionAssumption, Silent, SeqRange
  <2> QED BY <1>1, <2>4, <2>5 DEF HistInv
<1> QED BY <1>2, <1>3

\* A run that ends says what nobody has said.
LEMMA RunTells ==
  ASSUME HistInv, NEW m \in Runs \ DOMAIN CopyOf, at[m] = "running",
         NEW k \in 0 .. Len(Turns(m)), Logged(SubSeq(Turns(m), 1, k))
  PROVE  /\ log' \in Seq(Said) /\ SaidOnce(log')
         /\ \A s : IsHistory(log, s) => IsHistory(log', s)
         /\ \A s : \A a \in {1, 2}, b \in 0 .. k :
              IsHistory(log, s) => IsHistory(log', s \o SubSeq(Turns(m), a, b))
         /\ \A n \in Runs : n # m /\ Silent(log, n) => Silent(log', n)
<1> DEFINE t == Words(SubSeq(Turns(m), 1, k))
<1>1. m \in Runs \cup Past /\ Turns(m) \in {<<Ask(m)>>, Exchange(m)}
  BY DEF Turns, Orig
<1>2. /\ t \in Seq(Said) /\ SaidOnce(t) /\ \A y \in SeqRange(t) : y[1] = m
      /\ \A a \in {1, 2}, b \in 0 .. k :
           /\ IsHistory(t, SubSeq(Turns(m), a, b))
           /\ \A j \in DOMAIN SubSeq(Turns(m), a, b) : SubSeq(Turns(m), a, b)[j].role # "system"
  <2>1. \A a \in {1, 2}, b \in 0 .. k :
          /\ t \in Seq(Said) /\ SaidOnce(t) /\ \A y \in SeqRange(t) : y[1] = m
          /\ IsHistory(t, SubSeq(Turns(m), a, b))
          /\ \A j \in DOMAIN SubSeq(Turns(m), a, b) : SubSeq(Turns(m), a, b)[j].role # "system"
    BY <1>1, ExchangeTells
  <2>2. 1 \in {1, 2} /\ 0 \in 0 .. k
    BY <1>1, TurnsType
  <2> QED BY <2>1, <2>2
<1>3. log \in Seq(Said) /\ SaidOnce(log) /\ Silent(log, m)
  BY DEF HistInv
<1>4. log' = IF SeqRange(t) \cap SeqRange(log) = {} THEN log \o t ELSE log
  BY DEF Logged, Words
<1> HIDE DEF t
<1>5. \A x \in SeqRange(log), y \in SeqRange(t) : x[1] # y[1]
  BY <1>2, <1>3 DEF Silent, SeqRange
<1>6. log' = log \o t
  BY <1>4, <1>5
<1>7. log' \in Seq(Said) /\ IsJoin(log', log, t)
  BY <1>2, <1>3, <1>6, Joined
<1>8. SaidOnce(log')
  <2> SUFFICES ASSUME NEW i \in DOMAIN log', NEW j \in DOMAIN log', log'[i] = log'[j]
               PROVE  i = j
    BY DEF SaidOnce
  <2>1. CASE i \in DOMAIN log /\ j \in DOMAIN log
    BY <1>3, <1>7, <2>1 DEF SaidOnce, IsJoin
  <2>2. ASSUME NEW c \in DOMAIN t, i = Len(log) + c, NEW d \in DOMAIN t, j = Len(log) + d
        PROVE  i = j
    BY <1>2, <1>7, <2>2 DEF SaidOnce, IsJoin
  <2>3. ASSUME NEW c \in DOMAIN log, NEW d \in DOMAIN t PROVE log[c] # t[d]
    BY <1>5 DEF SeqRange
  <2>4. /\ i \in DOMAIN log \/ \E c \in DOMAIN t : i = Len(log) + c
        /\ j \in DOMAIN log \/ \E d \in DOMAIN t : j = Len(log) + d
    BY <1>7 DEF IsJoin
  <2>5. /\ \A c \in DOMAIN log : log'[c] = log[c]
        /\ \A d \in DOMAIN t : log'[Len(log) + d] = t[d]
    BY <1>7 DEF IsJoin
  <2> QED BY <2>1, <2>2, <2>3, <2>4, <2>5
<1>9. \A s : IsHistory(log, s) => IsHistory(log', s)
  BY <1>2, <1>3, <1>6, HistoryGrows
<1>10. \A s : \A a \in {1, 2}, b \in 0 .. k :
         IsHistory(log, s) => IsHistory(log', s \o SubSeq(Turns(m), a, b))
  BY <1>2, <1>3, <1>5, <1>6, HistoryJoins
<1>11. \A n \in Runs : n # m /\ Silent(log, n) => Silent(log', n)
  BY <1>2, <1>7 DEF Silent, SeqRange, IsJoin
<1> QED BY <1>7, <1>8, <1>9, <1>10, <1>11

\* The intact lines of a file that was written to are a history.
LEMMA FileTells ==
  ASSUME IInv, HistInv, NEW m \in Runs \ DOMAIN CopyOf, at[m] = "running",
         NEW k \in 0 .. Len(Turns(m)), Logged(SubSeq(Turns(m), 1, k)),
         NEW n \in 0 .. k, NEW tear \in BOOLEAN, FileWith(Turns(m), n, tear) # None
  PROVE  IsHistory(log', FileWith(Turns(m), n, tear))
<1> DEFINE base == IF file = None THEN <<>> ELSE file
           a == IF torn THEN 2 ELSE 1
<1>1. IsHistory(log, base)
  BY EmptyHistory DEF HistInv
<1>2. a \in {1, 2}
  OBVIOUS
<1>3. IsHistory(log', base \o SubSeq(Turns(m), a, n))
  <2>1. \A s : \A c \in {1, 2}, b \in 0 .. k :
          IsHistory(log, s) => IsHistory(log', s \o SubSeq(Turns(m), c, b))
    BY RunTells
  <2> HIDE DEF base, a
  <2> QED BY <1>1, <1>2, <2>1
<1>4. file # None => IsHistory(log', file)
  BY RunTells DEF HistInv
<1>5. FileWith(Turns(m), n, tear) \in {file, base \o SubSeq(Turns(m), a, n)}
  BY DEF FileWith
<1> QED BY <1>3, <1>4, <1>5

LEMMA RecordHist ==
  ASSUME IInv, HistInv, NEW m \in Runs, Record(m)
  PROVE  HistInv'
<1> DEFINE s == Turns(m)
           k == Len(s)
<1>1. m \in Runs \ DOMAIN CopyOf /\ at[m] = "running"
  BY DEF Record
<1>2. s \in Seq(Item) /\ k \in {1, 2}
  BY TurnsType
<1>3. SubSeq(s, 1, k) = s
  BY <1>2, SubSeqFull
<1>4. /\ cache' = Loaded \o SubSeq(s, 1, k) /\ file' = FileWith(s, k, FALSE)
      /\ Logged(SubSeq(s, 1, k)) /\ held' = held /\ at' = [at EXCEPT ![m] = "learning"]
  BY <1>3 DEF Record, Goes
<1>5. k \in 0 .. k /\ 1 \in {1, 2}
  BY <1>2
<1> HIDE DEF s, k
<1>6. /\ log' \in Seq(Said) /\ SaidOnce(log')
      /\ \A h : IsHistory(log, h) => IsHistory(log', h)
      /\ \A h : \A a \in {1, 2}, b \in 0 .. k : IsHistory(log, h) => IsHistory(log', h \o SubSeq(s, a, b))
      /\ \A n \in Runs : n # m /\ Silent(log, n) => Silent(log', n)
  BY <1>1, <1>4, <1>5, RunTells DEF s, k
<1>7. IsHistory(log', cache')
  BY <1>4, <1>5, <1>6, LoadedHistory
<1>8. file' # None => IsHistory(log', file')
  BY <1>1, <1>4, <1>5, FileTells DEF s, k
<1>9. \A n \in Runs \ DOMAIN CopyOf : at'[n] \in {"new", "compacting", "running"} => Silent(log', n)
  BY <1>4, <1>6 DEF HistInv, IInv, TurnsInv
<1> QED BY <1>4, <1>6, <1>7, <1>8, <1>9 DEF HistInv

LEMMA RecordFailsHist ==
  ASSUME IInv, HistInv, NEW m \in Runs, NEW n \in 0 .. 1, NEW tear \in BOOLEAN, RecordFails(m, n, tear)
  PROVE  HistInv'
<1> DEFINE s == Turns(m)
           k == n + 1
<1>1. m \in Runs \ DOMAIN CopyOf /\ at[m] = "running"
  BY DEF RecordFails
<1>2. k \in 0 .. Len(s) /\ n \in 0 .. k /\ k \in 0 .. k /\ 1 \in {1, 2}
  BY TurnsType DEF RecordFails
<1>4. /\ cache' = Loaded \o SubSeq(s, 1, k) /\ file' = FileWith(s, n, tear)
      /\ Logged(SubSeq(s, 1, k)) /\ held' = held /\ at' = [at EXCEPT ![m] = "done"]
  BY DEF RecordFails, Goes, tasks
<1> HIDE DEF s, k
<1>6. /\ log' \in Seq(Said) /\ SaidOnce(log')
      /\ \A h : IsHistory(log, h) => IsHistory(log', h)
      /\ \A h : \A a \in {1, 2}, b \in 0 .. k : IsHistory(log, h) => IsHistory(log', h \o SubSeq(s, a, b))
      /\ \A r \in Runs : r # m /\ Silent(log, r) => Silent(log', r)
  BY <1>1, <1>2, <1>4, RunTells DEF s
<1>7. IsHistory(log', cache')
  BY <1>2, <1>4, <1>6, LoadedHistory
<1>8. file' # None => IsHistory(log', file')
  BY <1>1, <1>2, <1>4, FileTells DEF s
<1>9. \A r \in Runs \ DOMAIN CopyOf : at'[r] \in {"new", "compacting", "running"} => Silent(log', r)
  BY <1>4, <1>6 DEF HistInv, IInv, TurnsInv
<1> QED BY <1>4, <1>6, <1>7, <1>8, <1>9 DEF HistInv

LEMMA CrashRecordingHist ==
  ASSUME IInv, HistInv, NEW m \in Runs, NEW n \in 0 .. 1, NEW tear \in BOOLEAN,
         CrashRecording(m, n, tear)
  PROVE  HistInv'
<1> DEFINE s == Turns(m)
<1>1. m \in Runs \ DOMAIN CopyOf /\ at[m] = "running"
  BY DEF CrashRecording
<1>2. n \in 0 .. Len(s) /\ n \in 0 .. n
  BY TurnsType DEF CrashRecording
<1>4. /\ cache' = None /\ file' = FileWith(s, n, tear) /\ Logged(SubSeq(s, 1, n))
      /\ \A x \in Runs \cup News : held'[x] = None
      /\ \A x \in Runs \cup News : at'[x] = IF at[x] = "new" THEN "new" ELSE "done"
  BY DEF CrashRecording, Forget, IInv, TurnsInv
<1> HIDE DEF s
<1>6. /\ log' \in Seq(Said) /\ SaidOnce(log')
      /\ \A h : IsHistory(log, h) => IsHistory(log', h)
      /\ \A r \in Runs : r # m /\ Silent(log, r) => Silent(log', r)
  BY <1>1, <1>2, <1>4, RunTells DEF s
<1>8. file' # None => IsHistory(log', file')
  BY <1>1, <1>2, <1>4, FileTells DEF s
<1>9. \A r \in Runs \ DOMAIN CopyOf : at'[r] \in {"new", "compacting", "running"} => Silent(log', r)
  BY <1>1, <1>4, <1>6 DEF HistInv
<1> QED BY <1>4, <1>6, <1>8, <1>9 DEF HistInv

\* A summary is put where the turns it stands for were.
LEMMA CompactedHist ==
  ASSUME IInv, HistInv, NEW m \in Runs, NEW ok \in BOOLEAN, Compacted(m, ok) \/ CompactedUnsaved(m, ok)
  PROVE  HistInv'
<1>1. /\ cache' = SummaryAndRecent(held[m], ok) /\ file' \in {cache', file} /\ UNCHANGED log
      /\ at[m] = "compacting" /\ Back(m, "running")
  BY DEF Compacted, CompactedUnsaved
<1>2. IsHistory(log, held[m]) /\ Len(held[m]) > Keep
  BY <1>1 DEF HistInv, IInv, TurnsInv
<1>3. IsHistory(log, cache')
  BY <1>1, <1>2, SummaryIsHistory
<1>4. /\ held' = [held EXCEPT ![m] = None] /\ at' = [at EXCEPT ![m] = "running"]
  BY <1>1 DEF Back, Goes
<1>5. \A x \in Runs \cup News : held'[x] # None => IsHistory(log, held'[x])
  BY <1>4 DEF HistInv, IInv, TurnsInv
<1>6. \A r \in Runs : at'[r] \in {"new", "compacting", "running"} =>
                        at[r] \in {"new", "compacting", "running"}
  BY <1>1, <1>4 DEF IInv, TurnsInv
<1>7. file' # None => IsHistory(log, file')
  BY <1>1, <1>3 DEF HistInv
<1> QED BY <1>1, <1>3, <1>5, <1>6, <1>7, HistStays

LEMMA RunStepHist ==
  ASSUME IInv, HistInv, NEW m \in Runs, Turn(m)
  PROVE  HistInv'
<1> DEFINE Early(x) == x \in {"new", "compacting", "running"}
<1>1. CASE Begin(m) \/ BeginCompacting(m)
  <2>1. /\ UNCHANGED <<log, file>> /\ cache' = Loaded /\ at[m] = "new"
        /\ held' = held \/ held' = [held EXCEPT ![m] = Loaded]
        /\ \E to \in {"running", "compacting"} : at' = [at EXCEPT ![m] = to]
    BY <1>1 DEF Begin, BeginCompacting, Arrives, Goes, tasks
  <2>2. \A x \in Runs \cup News : held'[x] # None => IsHistory(log, held'[x])
    BY <2>1, LoadedHistory DEF HistInv, IInv, TurnsInv
  <2>3. \A r \in Runs : Early(at'[r]) => Early(at[r])
    BY <2>1 DEF IInv, TurnsInv
  <2>4. file' # None => IsHistory(log, file')
    BY <2>1 DEF HistInv
  <2> QED BY <2>1, <2>2, <2>3, <2>4, LoadedHistory, HistStays
<1>2. CASE \E ok \in BOOLEAN : Compacted(m, ok) \/ CompactedUnsaved(m, ok)
  BY <1>2, CompactedHist
<1>3. CASE CompactionFails(m) \/ \E learns \in BOOLEAN : Learn(m, learns)
  <2>1. /\ UNCHANGED <<cache, file, log>> /\ held' = [held EXCEPT ![m] = None]
        /\ \/ at[m] = "compacting" /\ at' = [at EXCEPT ![m] = "running"]
           \/ at' = [at EXCEPT ![m] = "done"]
    BY <1>3 DEF CompactionFails, Learn, Back, Goes
  <2>2. \A x \in Runs \cup News : held'[x] # None => IsHistory(log, held'[x])
    BY <2>1 DEF HistInv, IInv, TurnsInv
  <2>3. \A r \in Runs : Early(at'[r]) => Early(at[r])
    BY <2>1 DEF IInv, TurnsInv
  <2>4. (cache' # None => IsHistory(log, cache')) /\ (file' # None => IsHistory(log, file'))
    BY <2>1 DEF HistInv
  <2> QED BY <2>1, <2>2, <2>3, <2>4, HistStays
<1>4. CASE Resumed(m) \/ TurnFails(m)
  <2>1. /\ UNCHANGED <<cache, file, log, held>>
        /\ \E to \in {"learning", "done"} : at' = [at EXCEPT ![m] = to]
    BY <1>4 DEF Resumed, TurnFails, Goes, tasks
  <2>2. \A r \in Runs : Early(at'[r]) => Early(at[r])
    BY <2>1 DEF IInv, TurnsInv
  <2>3. /\ cache' # None => IsHistory(log, cache')
        /\ file' # None => IsHistory(log, file')
        /\ \A x \in Runs \cup News : held'[x] # None => IsHistory(log, held'[x])
    BY <2>1 DEF HistInv
  <2> QED BY <2>1, <2>2, <2>3, HistStays
<1>5. CASE Record(m)
  BY <1>5, RecordHist
<1>6. CASE \E n \in 0 .. 1, tear \in BOOLEAN : RecordFails(m, n, tear) \/ CrashRecording(m, n, tear)
  BY <1>6, RecordFailsHist, CrashRecordingHist
<1> QED BY <1>1, <1>2, <1>3, <1>4, <1>5, <1>6 DEF Turn

LEMMA NewStepHist ==
  ASSUME IInv, HistInv, NEW n \in News, New(n)
  PROVE  HistInv'
<1>1. n \notin Runs
  BY SessionAssumption DEF SessionAssumption
<1>2. UNCHANGED log /\ \E to \in {"done", "consolidating"} : at' = [at EXCEPT ![n] = to]
  BY DEF New, NewBegins, NewUnreadable, NewOfNothing, NewUnconsolidated, NewConsolidated, Back, Goes
<1>3. \A r \in Runs : at'[r] = at[r]
  BY <1>1, <1>2 DEF IInv, TurnsInv
<1>4. cache' \in {None, cache, Loaded}
  BY DEF New, NewBegins, NewUnreadable, NewOfNothing, NewUnconsolidated, NewConsolidated, Clear
<1>5. file' \in {<<>>, file}
  BY DEF New, NewBegins, NewUnreadable, NewOfNothing, NewUnconsolidated, NewConsolidated, Clear
<1>6. \/ held' = held
      \/ held' = [held EXCEPT ![n] = Loaded]
      \/ held' = [held EXCEPT ![n] = None]
  BY DEF New, NewBegins, NewUnreadable, NewOfNothing, NewUnconsolidated, NewConsolidated, Back, tasks
<1>7. cache' # None => IsHistory(log, cache')
  BY <1>4, LoadedHistory DEF HistInv
<1>8. file' # None => IsHistory(log, file')
  BY <1>5, EmptyHistory DEF HistInv
<1>9. \A x \in Runs \cup News : held'[x] # None => IsHistory(log, held'[x])
  BY <1>6, LoadedHistory DEF HistInv, IInv, TurnsInv
<1> QED BY <1>2, <1>3, <1>7, <1>8, <1>9, HistStays

LEMMA EnvironmentStepHist ==
  ASSUME IInv, HistInv, Prune \/ Crash \/ UNCHANGED vars
  PROVE  HistInv'
<1>1. /\ UNCHANGED log /\ cache' \in {None, cache} /\ file' \in {None, file}
      /\ \A x \in Runs \cup News : held'[x] \in {None, held[x]}
      /\ \A x \in Runs \cup News : at'[x] \in {at[x], "done"}
  BY DEF Prune, Crash, Forget, vars, tasks, IInv, TurnsInv
<1>2. /\ cache' # None => IsHistory(log, cache')
      /\ file' # None => IsHistory(log, file')
      /\ \A x \in Runs \cup News : held'[x] # None => IsHistory(log, held'[x])
  BY <1>1 DEF HistInv
<1>3. \A m \in Runs : at'[m] \in {"new", "compacting", "running"} =>
                        at[m] \in {"new", "compacting", "running"}
  BY <1>1
<1> QED BY <1>1, <1>2, <1>3, HistStays

LEMMA HistKept == IInv /\ HistInv /\ [Next]_vars => HistInv'
BY RunStepHist, NewStepHist, EnvironmentStepHist DEF Next

THEOREM HistoriesOfTheLog == Spec => []HistInv
<1>1. Init => HistInv
  BY HistInit
<1>2. IInv /\ HistInv /\ [Next]_vars => HistInv'
  BY HistKept
<1> QED BY <1>1, <1>2, SessionInvariance, PTL DEF Spec

\* Whatever was compacted, overtaken, torn or lost on the way, a history tells
\* everything at most once and in the order it was said, now and after a restart
\* (manager.py:57-160, compaction.py:89).
THEOREM HistoriesAreChronicles == Spec => [](Chronicle /\ SaidOnce(log))
<1>1. HistInv => Chronicle /\ SaidOnce(log)
  <2> SUFFICES ASSUME HistInv PROVE Chronicle /\ SaidOnce(log)
    OBVIOUS
  <2>1. \A s \in {Loaded, OnDisk} : InOrder(log, s)
    BY LoadedHistory DEF IsHistory
  <2> QED BY <2>1 DEF Chronicle, InOrder, Before, Precedes, HistInv
<1> QED BY <1>1, HistoriesOfTheLog, PTL

\* However runs interleave, nothing comes between a question and its answer
\* (turn_execution.py:143-158).
THEOREM PairsStayAdjacent == Spec => []PairsAdjacent
<1>1. HistInv => PairsAdjacent
  <2> SUFFICES ASSUME HistInv PROVE PairsAdjacent
    OBVIOUS
  <2>1. \A s \in {Loaded, OnDisk} : Paired(s)
    BY LoadedHistory DEF IsHistory
  <2> QED BY <2>1 DEF PairsAdjacent, Paired
<1> QED BY <1>1, HistoriesOfTheLog, PTL

\* What the waiting tasks hold, and the rest of the state.
TasksInv ==
  /\ \A x \in Runs \cup News : held[x] # None <=> at[x] \in {"compacting", "consolidating"}
  /\ seen \in [Runs \cup News -> SUBSET Runs]
  /\ memory \subseteq Runs
  /\ faults \in 0 .. MaxFaults

LEMMA FaultType ==
  ASSUME TasksInv, Fault
  PROVE  faults' \in 0 .. MaxFaults
BY SessionAssumption DEF SessionAssumption, TasksInv, Fault

LEMMA BackTasks ==
  ASSUME IInv, TasksInv, NEW x \in Runs \cup News, NEW to \in {"running", "done"}, Back(x, to),
         memory' \subseteq Runs, faults' \in 0 .. MaxFaults
  PROVE  TasksInv'
BY DEF IInv, TurnsInv, TasksInv, Back, Goes

\* A task goes where it holds nothing.
LEMMA GoesTasks ==
  ASSUME IInv, TasksInv, NEW x \in Runs \cup News, NEW to \in {"running", "learning", "done"},
         at[x] \notin {"compacting", "consolidating"}, Goes(x, to),
         UNCHANGED held, seen' = seen \/ seen' = [seen EXCEPT ![x] = memory],
         memory' \subseteq Runs, faults' \in 0 .. MaxFaults
  PROVE  TasksInv'
BY DEF IInv, TurnsInv, TasksInv, Goes

LEMMA WaitsTasks ==
  ASSUME IInv, TasksInv, NEW x \in Runs \cup News, NEW to \in {"compacting", "consolidating"},
         Goes(x, to), held' = [held EXCEPT ![x] = Loaded],
         seen' = seen \/ seen' = [seen EXCEPT ![x] = memory], UNCHANGED <<memory, faults>>
  PROVE  TasksInv'
<1>1. Loaded # None
  BY LoadedType, SessionAssumption DEF SessionAssumption, IInv
<1> QED BY <1>1 DEF IInv, TurnsInv, TasksInv, Goes

LEMMA ForgetTasks ==
  ASSUME IInv, TasksInv, Forget, Fault, UNCHANGED memory
  PROVE  TasksInv'
BY FaultType DEF IInv, TurnsInv, TasksInv, Forget

LEMMA RunStepTasks ==
  ASSUME IInv, TasksInv, NEW m \in Runs, Turn(m)
  PROVE  TasksInv'
<1>1. CASE Begin(m) \/ BeginCompacting(m)
  BY <1>1, GoesTasks, WaitsTasks DEF Begin, BeginCompacting, Arrives, tasks, TasksInv
<1>2. CASE (\E ok \in BOOLEAN : Compacted(m, ok) \/ CompactedUnsaved(m, ok)) \/ CompactionFails(m)
  <2>1. Back(m, "running") /\ UNCHANGED memory /\ (faults' = faults \/ Fault)
    BY <1>2 DEF Compacted, CompactedUnsaved, CompactionFails
  <2> QED BY <2>1, BackTasks, FaultType DEF TasksInv
<1>3. CASE \E learns \in BOOLEAN : Learn(m, learns)
  <2>1. /\ Back(m, "done") /\ UNCHANGED faults
        /\ memory' \in {memory, memory \cup {Orig(m)}}
    BY <1>3 DEF Learn
  <2>2. memory' \subseteq Runs
    BY <2>1, OrigIsRun DEF TasksInv
  <2> QED BY <2>1, <2>2, BackTasks DEF TasksInv
<1>4. CASE Record(m) \/ Resumed(m)
  BY <1>4, GoesTasks DEF Record, Resumed, TasksInv
<1>5. CASE TurnFails(m) \/ \E n \in 0 .. 1, tear \in BOOLEAN : RecordFails(m, n, tear)
  <2>1. /\ at[m] = "running" /\ Goes(m, "done") /\ UNCHANGED <<held, seen, memory>>
        /\ faults' = faults \/ Fault
    BY <1>5 DEF TurnFails, RecordFails, tasks
  <2> QED BY <2>1, GoesTasks, FaultType DEF TasksInv
<1>6. CASE \E n \in 0 .. 1, tear \in BOOLEAN : CrashRecording(m, n, tear)
  BY <1>6, ForgetTasks DEF CrashRecording
<1> QED BY <1>1, <1>2, <1>3, <1>4, <1>5, <1>6 DEF Turn

LEMMA NewStepTasks ==
  ASSUME IInv, TasksInv, NEW n \in News, New(n)
  PROVE  TasksInv'
<1>1. CASE NewBegins(n)
  BY <1>1, WaitsTasks DEF NewBegins
<1>2. CASE NewUnreadable(n) \/ \E truncated \in BOOLEAN : NewOfNothing(n, truncated)
  <2>1. /\ at[n] = "new" /\ Goes(n, "done") /\ UNCHANGED <<held, seen, memory>>
        /\ faults' = faults \/ Fault
    BY <1>2 DEF NewUnreadable, NewOfNothing, Clear, tasks
  <2> QED BY <2>1, GoesTasks, FaultType DEF TasksInv
<1>3. ASSUME NEW truncated \in BOOLEAN,
             \/ NewUnconsolidated(n, truncated)
             \/ \E update \in SUBSET Runs : NewConsolidated(n, update, truncated)
      PROVE  TasksInv'
  <2>1. Back(n, "done") /\ memory' \subseteq Runs /\ (faults' = faults \/ Fault)
    BY <1>3 DEF NewUnconsolidated, NewConsolidated, Clear, TasksInv
  <2> QED BY <2>1, BackTasks, FaultType DEF TasksInv
<1> QED BY <1>1, <1>2, <1>3 DEF New

LEMMA TasksKept == IInv /\ TasksInv /\ [Next]_vars => TasksInv'
<1> SUFFICES ASSUME IInv, TasksInv, [Next]_vars PROVE TasksInv'
  OBVIOUS
<1>1. CASE Prune \/ UNCHANGED vars
  <2>1. UNCHANGED <<at, held, seen, memory>> /\ (faults' = faults \/ Fault)
    BY <1>1 DEF Prune, vars, tasks
  <2> QED BY <2>1, FaultType DEF TasksInv
<1>2. CASE Crash
  BY <1>2, ForgetTasks DEF Crash
<1> QED BY <1>1, <1>2, RunStepTasks, NewStepTasks DEF Next

\* Type correctness.  A summary is only ever the first turn of a history, and a
\* task holds a history exactly while it awaits the LLM (compaction.py:83).
THEOREM SessionTypeCorrect == Spec => []TypeOK
<1>1. Init => TasksInv
  <2>1. SessionAssumption => 0 \in 0 .. MaxFaults
    BY DEF SessionAssumption
  <2> QED BY <2>1, SessionAssumption DEF Init, TasksInv
<1>2. IInv /\ TasksInv /\ [Next]_vars => TasksInv'
  BY TasksKept
<1>3. IInv /\ HistInv /\ TasksInv => TypeOK
  <2> SUFFICES ASSUME IInv, HistInv, TasksInv PROVE TypeOK
    OBVIOUS
  <2>1. \A s \in {Loaded, OnDisk} : \A i \in DOMAIN s : s[i].role = "system" => i = 1
    BY LoadedHistory DEF IsHistory, Headed
  <2> QED BY <2>1 DEF TypeOK, IInv, TurnsInv, HistInv, TasksInv
<1> QED BY <1>1, <1>2, <1>3, SessionInvariance, HistoriesOfTheLog, PTL DEF Spec
=============================================================================
