------------------------------ MODULE Session ------------------------------
(***************************************************************************)
(* One conversation: SessionManager's cache and JSONL file of one session  *)
(* key (session/manager.py), auto-compaction (session/compaction.py), the  *)
(* runs of process_turn_with_persistence_and_execution that use them       *)
(* (agent/turn_execution.py), the /new command (gateway/orchestrator.py)   *)
(* and MEMORY.md, which /new and the background extractions rewrite        *)
(* (memory/).                                                              *)
(*                                                                         *)
(* Runs of one session are concurrent tasks of one event loop: a step is   *)
(* what happens between two awaits.  The file system may fail at any       *)
(* write, the LLM at any call, and the process may die at any time.        *)
(***************************************************************************)
EXTENDS Naturals, Sequences, FiniteSets

CONSTANTS
  Runs,    \* agent turns of the session
  News,    \* /new commands
  CopyOf,  \* a run re-queued by /secret -> the run it repeats
  Answered, \* the runs whose result has content
  Past,    \* exchanges of the time before canonical file names
  Keep,    \* config: compaction.keep_recent_turns
  MaxFaults, \* bound: failed writes and reads, deleted files and crashes
  None

Said == (Runs \cup Past) \X {"user", "assistant"}
\* A SessionTurn: its role, and what was said that it stands for (several
\* things for a compaction summary, none for one the LLM failed to write).
Item == [role : {"user", "assistant", "system"}, of : SUBSET Said]
Ask(m)    == [role |-> "user", of |-> {<<m, "user">>}]
Answer(m) == [role |-> "assistant", of |-> {<<m, "assistant">>}]
Exchange(m) == <<Ask(m), Answer(m)>>

ASSUME SessionAssumption ==
  /\ DOMAIN CopyOf \subseteq Runs
  /\ \A r \in DOMAIN CopyOf : CopyOf[r] \in Runs \ DOMAIN CopyOf
  /\ Answered \subseteq Runs
  /\ Keep \in Nat /\ MaxFaults \in Nat
  /\ Runs \cap News = {} /\ Past \cap Runs = {}
  /\ \A p, q \in Past : p = q
  /\ None \notin Seq(Item)

VARIABLES
  cache,  \* _cache[key]: the turns, or None
  file,   \* the canonical JSONL file: its intact lines, or None
  torn,   \* the file ends in the middle of a line
  at,     \* where each run and each /new command is
  held,   \* the turns a task read before the await it is in
  seen,   \* the MEMORY.md a task read before the await it is in
  memory, \* MEMORY.md: the runs a fact of which it holds
  hurt,   \* history: since it was loaded, the cache has had what the file has not
  log,    \* history: everything said, in the order it was recorded
  faults  \* how many there were

tasks == <<held, seen>>
vars == <<cache, file, torn, at, held, seen, memory, hurt, log, faults>>

\* What a run says, and learns from, is what the run it repeats said.
Orig(m) == IF m \in DOMAIN CopyOf THEN CopyOf[m] ELSE m
Covers(s) == UNION {s[i].of : i \in DOMAIN s}
SeqRange(s) == {s[i] : i \in DOMAIN s}

\* The file under the legacy name: read while there is no canonical one.
LegacyFile == IF Past = {} THEN <<>> ELSE Exchange(CHOOSE p \in Past : TRUE)
OnDisk == IF file = None THEN LegacyFile ELSE file
\* load_history
Loaded == IF cache = None THEN OnDisk ELSE cache

Fault == faults < MaxFaults /\ faults' = faults + 1
Goes(m, to) == at' = [at EXCEPT ![m] = to]
\* A task comes back from its await.
Back(m, to) ==
  /\ Goes(m, to)
  /\ held' = [held EXCEPT ![m] = None]
  /\ seen' = [seen EXCEPT ![m] = {}]

-----------------------------------------------------------------------------
(* A run begins: history and compaction *)

Arrives(m) ==
  /\ at[m] = "new"
  /\ m \in DOMAIN CopyOf => at[CopyOf[m]] # "new"

\* Mutant: the question is recorded as it comes in.
BeginAsked(m) ==
  /\ Arrives(m)
  /\ cache' = Append(Loaded, Ask(Orig(m)))
  /\ file' = Append(IF file = None THEN <<>> ELSE file, Ask(Orig(m)))
  /\ log' = IF <<Orig(m), "user">> \in SeqRange(log) THEN log ELSE Append(log, <<Orig(m), "user">>)
  /\ hurt' = (hurt \/ (file = None /\ Loaded # <<>>))
  /\ Goes(m, "running")
  /\ UNCHANGED <<torn, tasks, memory, faults>>

\* The history is short enough, compaction is off, or there is nothing older.
Begin(m) ==
  /\ Arrives(m)
  /\ cache' = Loaded
  /\ Goes(m, "running")
  /\ UNCHANGED <<file, torn, tasks, memory, hurt, log, faults>>

\* Too long: older and recent turns are cut, and the LLM is awaited.
BeginCompacting(m) ==
  /\ Arrives(m) /\ Len(Loaded) > Keep
  /\ cache' = Loaded
  /\ held' = [held EXCEPT ![m] = Loaded]
  /\ Goes(m, "compacting")
  /\ UNCHANGED <<file, torn, seen, memory, hurt, log, faults>>

\* Mutant: the cut is off by one.
SummaryAndRecentShort(s, ok) ==
  LET cut == Len(s) - Keep
  IN  <<[role |-> "system", of |-> IF ok THEN Covers(SubSeq(s, 1, cut)) ELSE {}]>>
        \o SubSeq(s, cut + 2, Len(s))

\* Mutant: the summary goes where new turns go.
SummaryLast(s, ok) ==
  LET cut == Len(s) - Keep
  IN  SubSeq(s, cut + 1, Len(s))
        \o <<[role |-> "system", of |-> IF ok THEN Covers(SubSeq(s, 1, cut)) ELSE {}]>>

\* The compacted turns.  A provider that reports its failure as content
\* (ok = FALSE) leaves a summary that says nothing of the older turns.
SummaryAndRecent(s, ok) ==
  LET cut == Len(s) - Keep
  IN  <<[role |-> "system", of |-> IF ok THEN Covers(SubSeq(s, 1, cut)) ELSE {}]>>
        \o SubSeq(s, cut + 1, Len(s))

\* Mutant: only the cache is compacted.
CompactedInMemory(m, ok) ==
  /\ at[m] = "compacting"
  /\ cache' = SummaryAndRecent(held[m], ok)
  /\ hurt' = FALSE
  /\ Back(m, "running")
  /\ UNCHANGED <<file, torn, memory, log, faults>>

\* rewrite_session: cache and file, from what was cut before the await.
Compacted(m, ok) ==
  /\ at[m] = "compacting"
  /\ cache' = SummaryAndRecent(held[m], ok)
  /\ file' = cache'
  /\ torn' = FALSE /\ hurt' = FALSE
  /\ Back(m, "running")
  /\ UNCHANGED <<memory, log, faults>>

\* The file cannot be rewritten: the run logs the error and goes on.
CompactedUnsaved(m, ok) ==
  /\ Fault
  /\ at[m] = "compacting"
  /\ cache' = SummaryAndRecent(held[m], ok)
  /\ hurt' = TRUE
  /\ Back(m, "running")
  /\ UNCHANGED <<file, torn, memory, log>>

\* The LLM call raises.
CompactionFails(m) ==
  /\ at[m] = "compacting"
  /\ Back(m, "running")
  /\ UNCHANGED <<cache, file, torn, memory, hurt, log, faults>>

-----------------------------------------------------------------------------
(* A run ends: the two append_turns *)

Turns(m) == IF m \in Answered THEN Exchange(Orig(m)) ELSE <<Ask(Orig(m))>>

\* The file after n of the turns s were written, and perhaps a part (tear) of
\* the next.  The first line written after a torn one is read as part of it.
FileWith(s, n, tear) ==
  LET base  == IF file = None THEN <<>> ELSE file
      whole == SubSeq(s, IF torn THEN 2 ELSE 1, n)
  IN  IF n = 0 /\ ~tear THEN file ELSE base \o whole
TornWith(s, n, tear) == n < Len(s) /\ (tear \/ (torn /\ n = 0))

\* What is said for the first time is logged.
Logged(s) ==
  LET told == [i \in DOMAIN s |-> CHOOSE x \in s[i].of : TRUE]
  IN  log' = IF SeqRange(told) \cap SeqRange(log) = {} THEN log \o told ELSE log

\* Mutant: a re-queued run is recorded like any other.
RecordAlways(m) ==
  /\ at[m] = "running"
  /\ LET s == Turns(m)
     IN  /\ cache' = Loaded \o s
         /\ file' = FileWith(s, Len(s), FALSE)
         /\ Logged(s)
         /\ hurt' = (hurt \/ torn \/ (file = None /\ Loaded # <<>>))
  /\ torn' = FALSE
  /\ seen' = [seen EXCEPT ![m] = memory]
  /\ Goes(m, "learning")
  /\ UNCHANGED <<held, memory, faults>>

\* The exchange is appended and the extraction of facts scheduled.
Record(m) ==
  /\ at[m] = "running" /\ m \notin DOMAIN CopyOf
  /\ LET s == Turns(m)
     IN  /\ cache' = Loaded \o s
         /\ file' = FileWith(s, Len(s), FALSE)
         /\ Logged(s)
         /\ hurt' = (hurt \/ torn \/ (file = None /\ Loaded # <<>>))
  /\ torn' = FALSE
  /\ seen' = [seen EXCEPT ![m] = memory]
  /\ Goes(m, "learning")
  /\ UNCHANGED <<held, memory, faults>>

\* Append number n + 1 raises SessionStorageError; its turn is in the cache.
RecordFails(m, n, tear) ==
  /\ Fault
  /\ at[m] = "running" /\ m \notin DOMAIN CopyOf
  /\ LET s == Turns(m)
     IN  /\ n < Len(s)
         /\ cache' = Loaded \o SubSeq(s, 1, n + 1)
         /\ file' = FileWith(s, n, tear)
         /\ torn' = TornWith(s, n, tear)
         /\ Logged(SubSeq(s, 1, n + 1))
  /\ hurt' = TRUE
  /\ Goes(m, "done")
  /\ UNCHANGED <<tasks, memory>>

\* A run with secret_resume is not recorded, but learnt from.
Resumed(m) ==
  /\ at[m] = "running" /\ m \in DOMAIN CopyOf
  /\ seen' = [seen EXCEPT ![m] = memory]
  /\ Goes(m, "learning")
  /\ UNCHANGED <<cache, file, torn, held, memory, hurt, log, faults>>

\* The agent loop raises.
TurnFails(m) ==
  /\ at[m] = "running"
  /\ Goes(m, "done")
  /\ UNCHANGED <<cache, file, torn, tasks, memory, hurt, log, faults>>

\* Mutant: the facts are added to the MEMORY.md read before the LLM call.
LearnStale(m, learns) ==
  /\ at[m] = "learning"
  /\ memory' = IF learns THEN seen[m] \cup {Orig(m)} ELSE memory
  /\ Back(m, "done")
  /\ UNCHANGED <<cache, file, torn, hurt, log, faults>>

\* _background_extract_durable_facts: re-read and save, under the lock.
Learn(m, learns) ==
  /\ at[m] = "learning"
  /\ memory' = IF learns THEN memory \cup {Orig(m)} ELSE memory
  /\ Back(m, "done")
  /\ UNCHANGED <<cache, file, torn, hurt, log, faults>>

-----------------------------------------------------------------------------
(* /new *)

\* clear_session.  There may be no canonical file, and truncating it may fail.
Clear(truncated) ==
  /\ cache' = None
  /\ file' = IF file # None /\ truncated THEN <<>> ELSE file
  /\ torn' = (torn /\ ~truncated)
  /\ hurt' = FALSE
  /\ IF truncated THEN UNCHANGED faults ELSE Fault

\* Nothing to consolidate: no await.
NewOfNothing(n, truncated) ==
  /\ at[n] = "new" /\ Loaded = <<>>
  /\ Clear(truncated)
  /\ Goes(n, "done")
  /\ UNCHANGED <<tasks, memory, log>>

NewBegins(n) ==
  /\ at[n] = "new" /\ Loaded # <<>>
  /\ cache' = Loaded
  /\ held' = [held EXCEPT ![n] = Loaded]
  /\ seen' = [seen EXCEPT ![n] = memory]
  /\ Goes(n, "consolidating")
  /\ UNCHANGED <<file, torn, memory, hurt, log, faults>>

\* The file cannot be read: reset_session.
NewUnreadable(n) ==
  /\ Fault
  /\ at[n] = "new" /\ cache = None
  /\ Goes(n, "done")
  /\ UNCHANGED <<cache, file, torn, tasks, memory, hurt, log>>

\* The LLM answers with an entry for HISTORY.md and a MEMORY.md of its own
\* making, out of the one it was shown and the conversation.
NewConsolidated(n, update, truncated) ==
  /\ at[n] = "consolidating"
  /\ update \subseteq seen[n] \cup {m \in Runs : <<m, "user">> \in Covers(held[n])}
  /\ memory' = IF update = {} THEN memory ELSE update
  /\ Clear(truncated)
  /\ Back(n, "done")
  /\ UNCHANGED log

\* The LLM fails: consolidate_session_memory swallows it, and so the session is
\* cleared all the same.
NewUnconsolidated(n, truncated) ==
  /\ at[n] = "consolidating"
  /\ Clear(truncated)
  /\ Back(n, "done")
  /\ UNCHANGED <<memory, log>>

-----------------------------------------------------------------------------
(* Environment *)

\* The heartbeat's prune_session_logs deletes the file, not the cache.
Prune ==
  /\ Fault
  /\ file # None
  /\ file' = None /\ torn' = FALSE
  /\ hurt' = (cache # None)
  /\ UNCHANGED <<cache, at, tasks, memory, log>>

Forget ==
  /\ cache' = None /\ hurt' = FALSE
  /\ at' = [x \in DOMAIN at |-> IF at[x] = "new" THEN "new" ELSE "done"]
  /\ held' = [x \in DOMAIN held |-> None]
  /\ seen' = [x \in DOMAIN seen |-> {}]

\* The process dies and starts again.
Crash ==
  /\ Fault
  /\ Forget
  /\ UNCHANGED <<file, torn, memory, log>>

\* It dies between the appends of an exchange, or within one.
CrashRecording(m, n, tear) ==
  /\ Fault
  /\ at[m] = "running" /\ m \notin DOMAIN CopyOf
  /\ LET s == Turns(m)
     IN  /\ n < Len(s)
         /\ file' = FileWith(s, n, tear)
         /\ torn' = TornWith(s, n, tear)
         /\ Logged(SubSeq(s, 1, n))
  /\ Forget
  /\ UNCHANGED memory

-----------------------------------------------------------------------------
Init ==
  /\ cache = None /\ file = None /\ torn = FALSE
  /\ at = [x \in Runs \cup News |-> "new"]
  /\ held = [x \in Runs \cup News |-> None]
  /\ seen = [x \in Runs \cup News |-> {}]
  /\ memory = {}
  /\ hurt = FALSE
  /\ log = [i \in DOMAIN LegacyFile |-> CHOOSE x \in LegacyFile[i].of : TRUE]
  /\ faults = 0

Turn(m) ==
  \/ Begin(m) \/ BeginCompacting(m)
  \/ \E ok \in BOOLEAN : Compacted(m, ok) \/ CompactedUnsaved(m, ok)
  \/ CompactionFails(m)
  \/ Record(m) \/ Resumed(m) \/ TurnFails(m)
  \/ \E n \in 0 .. 1, tear \in BOOLEAN : RecordFails(m, n, tear) \/ CrashRecording(m, n, tear)
  \/ \E learns \in BOOLEAN : Learn(m, learns)

New(n) ==
  \/ NewBegins(n) \/ NewUnreadable(n)
  \/ \E truncated \in BOOLEAN :
       \/ NewOfNothing(n, truncated) \/ NewUnconsolidated(n, truncated)
       \/ \E update \in SUBSET Runs : NewConsolidated(n, update, truncated)

Next == (\E m \in Runs : Turn(m)) \/ (\E n \in News : New(n)) \/ Prune \/ Crash

Spec == Init /\ [][Next]_vars

-----------------------------------------------------------------------------
TypeOK ==
  /\ cache \in Seq(Item) \cup {None}
  /\ file \in Seq(Item) \cup {None}
  /\ \A s \in {Loaded, OnDisk} : \A i \in DOMAIN s : s[i].role = "system" => i = 1
  /\ torn \in BOOLEAN /\ hurt \in BOOLEAN
  /\ at \in [Runs \cup News ->
              {"new", "compacting", "running", "learning", "consolidating", "done"}]
  /\ held \in [Runs \cup News -> Seq(Item) \cup {None}]
  /\ \A x \in Runs \cup News : held[x] # None <=> at[x] \in {"compacting", "consolidating"}
  /\ seen \in [Runs \cup News -> SUBSET Runs]
  /\ memory \subseteq Runs
  /\ log \in Seq(Said)
  /\ faults \in 0 .. MaxFaults

\* What is said twice was said at the earlier place.
Before(x, y) == \E i, j \in DOMAIN log : i < j /\ log[i] = x /\ log[j] = y

\* The history a run is given, now or after a restart, tells everything at most
\* once and in the order it was said, summaries included, whatever compactions,
\* re-queued requests, failed writes and crashes there were.
Chronicle ==
  \A s \in {Loaded, OnDisk} : \A i, j \in DOMAIN s :
    i < j => \A x \in s[i].of, y \in s[j].of : Before(x, y)

\* No message of one run separates question and answer of another: a run is
\* recorded when it ends, both turns in one step.
PairsAdjacent ==
  \A s \in {Loaded, OnDisk} : \A i, j \in DOMAIN s : \A m \in Runs \cup Past :
    s[i] = Ask(m) /\ s[j] = Answer(m) => j = i + 1

\* Unless a write failed or the file was deleted, a restart loses nothing: the
\* cache is what the file says.
CacheIsFile == cache # None /\ ~hurt => cache = OnDisk

\* A compaction that no append and no /new overtook, and whose summary the LLM
\* wrote, tells all that was told before, the most recent turns verbatim.
CompactionExact ==
  [][\A m \in Runs :
       Compacted(m, TRUE) /\ cache = held[m] =>
         /\ Covers(cache') = Covers(cache)
         /\ \A k \in 1 .. Keep : cache'[Len(cache') - k + 1] = cache[Len(cache) - k + 1]]_vars

\* Extractions that overlap do not overwrite each other's facts: a fact leaves
\* MEMORY.md only when a consolidation rewrites it (turn_execution.py:24).
FactsStay ==
  [][memory \subseteq memory' \/ \E n \in News : at[n] = "consolidating" /\ at'[n] = "done"]_vars

\* features.md:320: /new keeps the history: what was not consolidated stays on disk.
NewPreservesHistory ==
  [][\A n \in News, truncated \in BOOLEAN :
       NewUnconsolidated(n, truncated) => Covers(OnDisk) \subseteq Covers(OnDisk')]_vars
=============================================================================
