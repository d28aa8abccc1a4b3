----------------------------- MODULE AgentLoop -----------------------------
(***************************************************************************)
(* The agent loop (agent/loop.py) and the clams it keeps: the directories  *)
(* build/ and clams/ (agent/workspace_clam_writer.py), the usage record of *)
(* the registry (agent/clams.py), the pruning of both by the heartbeat     *)
(* (workspace/cleanup.py) and the cron executor that runs clams directly   *)
(* (gateway/main.py).                                                      *)
(*                                                                         *)
(* Turns run concurrently in one event loop and meet in the workspace      *)
(* only.  A turn is at one of its awaits: the selector, the planner, the   *)
(* generator, the runtime, the analyzer (twice), a transformation.  An     *)
(* action is what it does from one await to the next.                      *)
(***************************************************************************)
EXTENDS Naturals, FiniteSets

CONSTANTS
  Turns,     \* calls of process_turn
  Prompts,   \* those that run the message of a cron job without a clam
  Directs,   \* executions of execute_clam_direct that may overlap
  Names,     \* what generate_clam_name may return
  NoSlug,    \* the empty name: a text without ASCII letters and digits
  MaxFix,    \* max_self_fix
  Steps,     \* bound: the steps of a plan the planner may make of a turn's request
  MaxFaults, \* bound: crashes and failed saves
  Given,     \* the script of a clam from before
  None

ASSUME AgentAssumption ==
  /\ Prompts \subseteq Turns
  /\ None \notin Names \cup Turns
  /\ MaxFix \in Nat /\ Steps \in [Turns -> Nat] /\ MaxFaults \in Nat

VARIABLES
  phase,    \* the await a turn is at
  left,     \* steps of its plan not begun yet; None when it has no plan
  attempt,  \* the counter that bounds its self-fixes
  tries,    \* (history) generations begun for its task
  clam,     \* the clam it executes
  prev,     \* context["previous_clam_id"]
  build,    \* build/<name>/
  hasBuild, \* build/ exists
  clams,    \* clams/<name>/: the script
  usage,    \* _usage_cache, None while not loaded
  usageFile, \* .usage.json
  used,     \* (history) when a clam was last used
  forgot,   \* (history) names whose last use a failed save or a crash lost
  direct,   \* the clam a direct execution runs, or None
  jobs,     \* the names in the clam_id of cron jobs
  accepted, \* (history) the scripts the analysis accepted
  faults    \* crashes and failed saves so far

turn == <<left, attempt, tries, clam, prev>>
store == <<build, hasBuild, clams>>
stats == <<usage, usageFile, used, forgot>>
vars == <<phase, turn, store, stats, direct, jobs, accepted, faults>>

\* A script is known by the generation it comes from.
Scripts == [by : Turns, step : Nat, no : 1..(MaxFix + 1)] \cup {Given}
Clams == [name : Names, script : Scripts]
Builds == [script : Scripts, by : Turns, aged : BOOLEAN]
Times == {"never", "old", "fresh"}

TypeOK ==
  /\ phase \in [Turns -> {"new", "select", "plan", "generate", "execute", "analyze", "full",
                          "transform", "done"}]
  /\ left \in [Turns -> Nat \cup {None}]
  /\ attempt \in [Turns -> 0..MaxFix]
  /\ tries \in [Turns -> Nat]
  /\ clam \in [Turns -> Clams \cup {None}]
  /\ prev \in [Turns -> Names \cup {None}]
  /\ DOMAIN build \subseteq Names /\ \A n \in DOMAIN build : build[n] \in Builds
  /\ hasBuild \in BOOLEAN
  /\ DOMAIN clams \subseteq Names /\ \A n \in DOMAIN clams : clams[n] \in Scripts
  /\ usage \in [Names -> Times] \cup {None}
  /\ usageFile \in [Names -> Times] /\ used \in [Names -> Times]
  /\ forgot \subseteq Names
  /\ direct \in [Directs -> Names \cup {None}]
  /\ jobs \subseteq Names
  /\ accepted \subseteq Scripts
  /\ faults \in 0..MaxFaults

NoUse == [n \in Names |-> "never"]
NoFiles == [n \in {} |-> None]

\* The workspace may hold clams from before, used lately.
Init ==
  /\ phase = [t \in Turns |-> "new"] /\ left = [t \in Turns |-> None]
  /\ attempt = [t \in Turns |-> 0] /\ tries = [t \in Turns |-> 0]
  /\ clam = [t \in Turns |-> None] /\ prev = [t \in Turns |-> None]
  /\ build = NoFiles /\ hasBuild = TRUE
  /\ \E S \in SUBSET (Names \ {NoSlug}) :
       /\ clams = [n \in S |-> Given]
       /\ usageFile = [n \in Names |-> IF n \in S THEN "fresh" ELSE "never"]
  /\ usage = None /\ used = usageFile /\ forgot = {}
  /\ direct = [d \in Directs |-> None] /\ jobs = {}
  /\ accepted = {Given} /\ faults = 0

Running(t) == phase[t] \notin {"new", "done"}
HasRun(t) == phase[t] \in {"execute", "analyze", "full"}
Idle == \A t \in Turns : ~Running(t)
Loaded(file) == IF usage = None THEN file ELSE usage
Drop(f, S) == [n \in DOMAIN f \ S |-> f[n]]
Put(f, n, x) == [m \in DOMAIN f \cup {n} |-> IF m = n THEN x ELSE f[m]]

-----------------------------------------------------------------------------
(* A turn and the steps of its plan. *)

\* `if clam_name:' and `if result.clam_name:': the empty name counts as none.
Named(n) == {n} \ {NoSlug, None}

EndTurn(t) ==
  /\ phase' = [phase EXCEPT ![t] = "done"] /\ left' = [left EXCEPT ![t] = None]
  /\ attempt' = [attempt EXCEPT ![t] = 0] /\ tries' = [tries EXCEPT ![t] = 0]
  /\ clam' = [clam EXCEPT ![t] = None] /\ prev' = [prev EXCEPT ![t] = None]

\* The next step that awaits: an execute step selects, a transformation asks
\* an LLM.
BeginStep(t, kind, more, known) ==
  /\ phase' = [phase EXCEPT ![t] = kind] /\ left' = [left EXCEPT ![t] = more]
  /\ attempt' = [attempt EXCEPT ![t] = 0] /\ tries' = [tries EXCEPT ![t] = 0]
  /\ clam' = [clam EXCEPT ![t] = None] /\ prev' = [prev EXCEPT ![t] = known]

\* The executor of _build_cron_executor keeps the clam_name of the turn's result as
\* the job's clam_id, whatever its status.
Cached(t, name) == IF t \in Prompts THEN Named(name) ELSE {}

\* _execute_planned_tasks from the result of a step on, `name' its clam_name:
\* `now' steps that await nothing (a schedule, a transformation of nothing), then
\* the next step or the end of the turn.  A schedule may name previous_clam_id.
RunSteps(t, n, name) ==
  LET known == IF name \in {None, NoSlug} THEN prev[t] ELSE name IN
  \E now \in 0..n :
    \E ids \in {{}, IF now = 0 THEN {} ELSE Named(known)} :
      \/ /\ now < n
         /\ \E kind \in {"select", "transform"} : BeginStep(t, kind, n - now - 1, known)
         /\ jobs' = jobs \cup ids
      \/ /\ now = n
         /\ EndTurn(t)
         /\ jobs' = jobs \cup ids \cup (IF now = 0 THEN Cached(t, name) ELSE {})

\* The result of a task: of the turn, or of a step of its plan.
Finish(t, name) == RunSteps(t, IF left[t] = None THEN 0 ELSE left[t], name)

Generate(t, n) ==
  /\ phase' = [phase EXCEPT ![t] = "generate"]
  /\ attempt' = [attempt EXCEPT ![t] = n]
  /\ tries' = [tries EXCEPT ![t] = @ + 1]
  /\ clam' = [clam EXCEPT ![t] = None]
  /\ UNCHANGED <<left, prev, jobs>>

\* One budget for every reason to try again.  `name' is the clam_name of the
\* failed result.
\* Mutant: a retry does not count.
RetryFree(t, name) ==
  IF attempt[t] < MaxFix THEN Generate(t, attempt[t]) ELSE Finish(t, name)
\* Mutant: one more.
RetryOnceMore(t, name) ==
  IF attempt[t] <= MaxFix THEN Generate(t, attempt[t] + 1) ELSE Finish(t, name)
Retry(t, name) ==
  IF attempt[t] < MaxFix THEN Generate(t, attempt[t] + 1) ELSE Finish(t, name)

\* process_turn up to the selector's LLM; get_catalog reads the usage of every clam.
Begin(t) ==
  /\ phase[t] = "new"
  /\ phase' = [phase EXCEPT ![t] = "select"]
  /\ usage' = IF DOMAIN clams = {} THEN usage ELSE Loaded(usageFile)
  /\ UNCHANGED <<turn, store, usageFile, used, forgot, direct, jobs, accepted, faults>>

\* _execute_single_task: chat, an existing clam, or a new one (also when the chosen
\* clam is gone); a plan is made for the request itself only.
Select(t) ==
  /\ phase[t] = "select"
  /\ \/ Finish(t, None)
     \/ /\ \E n \in DOMAIN clams \ {NoSlug} :
             clam' = [clam EXCEPT ![t] = [name |-> n, script |-> clams[n]]]
        /\ phase' = [phase EXCEPT ![t] = "execute"]
        /\ UNCHANGED <<left, attempt, tries, prev, jobs>>
     \/ IF left[t] = None
        THEN /\ phase' = [phase EXCEPT ![t] = "plan"]
             /\ UNCHANGED <<turn, jobs>>
        ELSE Generate(t, 0)
  /\ UNCHANGED <<store, stats, direct, accepted, faults>>

\* _plan_tasks: a single execute step is no plan.
Plan(t) ==
  /\ phase[t] = "plan"
  /\ \/ Generate(t, 0)
     \/ \E n \in 1..Steps[t] : RunSteps(t, n, None) /\ ~(n = 1 /\ phase'[t] = "select")
  /\ UNCHANGED <<store, stats, direct, accepted, faults>>

Transform(t) ==
  /\ phase[t] = "transform"
  /\ Finish(t, None)
  /\ UNCHANGED <<store, stats, direct, accepted, faults>>
-----------------------------------------------------------------------------
(* Generating, executing and judging a clam. *)

\* write_to_build: into a directory that exists it writes the files anew, which
\* leaves the directory its time.
WriteToBuild(t, n) ==
  LET script == [by |-> t, step |-> IF left[t] = None THEN 0 ELSE left[t], no |-> tries[t]]
      dir == IF n \in DOMAIN build THEN [build[n] EXCEPT !.script = script]
             ELSE [script |-> script, by |-> t, aged |-> FALSE]
  IN /\ build' = Put(build, n, dir) /\ hasBuild' = TRUE
     /\ clam' = [clam EXCEPT ![t] = [name |-> n, script |-> script]]

\* _generate_and_execute: no script (or only direct tools, which are executed), a
\* script that grounding rejects, or one that is written and executed.
Generated(t) ==
  /\ phase[t] = "generate"
  /\ \/ (Finish(t, None) \/ Retry(t, None)) /\ UNCHANGED store
     \/ /\ \E n \in Names : WriteToBuild(t, n)
        /\ phase' = [phase EXCEPT ![t] = "execute"]
        /\ UNCHANGED <<clams, left, attempt, tries, prev, jobs>>
  /\ UNCHANGED <<stats, direct, accepted, faults>>

Scripted(dirs) == [n \in DOMAIN dirs |-> dirs[n].script]

\* promote: the directory replaces the clam.  The empty name is that of build/ and
\* clams/ themselves, the usage record included.
\* Mutant: the old clam is deleted before its successor is looked for.
PromoteBlindly(n) ==
  /\ clams' = IF n \in DOMAIN build THEN Put(clams, n, build[n].script) ELSE Drop(clams, {n})
  /\ build' = Drop(build, {n}) /\ UNCHANGED hasBuild
Promote(n) ==
  IF n = NoSlug
  THEN IF hasBuild THEN clams' = Scripted(build) /\ build' = NoFiles /\ hasBuild' = FALSE
       ELSE UNCHANGED store
  ELSE /\ clams' = IF n \in DOMAIN build THEN Put(clams, n, build[n].script) ELSE clams
       /\ build' = Drop(build, {n})
       /\ UNCHANGED hasBuild
FileAfterPromote(n) == IF n = NoSlug /\ hasBuild THEN NoUse ELSE usageFile

\* Names whose last use the file does not hold.
StillForgot(S) == {m \in S : usageFile'[m] # "fresh"}

\* record_usage: the cache, then the whole cache to `file'; _save_usage swallows an error.
\* Mutant: the file is left to the next one.
RecordUsageLazily(n, file) ==
  /\ usage' = [Loaded(file) EXCEPT ![n] = "fresh"]
  /\ used' = [used EXCEPT ![n] = "fresh"]
  /\ usageFile' = file /\ UNCHANGED <<forgot, faults>>
RecordUsage(n, file) ==
  /\ usage' = [Loaded(file) EXCEPT ![n] = "fresh"]
  /\ used' = [used EXCEPT ![n] = "fresh"]
  /\ \/ /\ usageFile' = usage' /\ forgot' = StillForgot(forgot)
        /\ UNCHANGED faults
     \/ /\ faults < MaxFaults /\ faults' = faults + 1
        /\ usageFile' = file /\ forgot' = StillForgot(forgot \cup {n})

\* ACCEPT: promote, record the use, return the output.
Accept(t) ==
  /\ Promote(clam[t].name)
  /\ RecordUsage(clam[t].name, FileAfterPromote(clam[t].name))
  /\ accepted' = accepted \cup {clam[t].script}
  /\ Finish(t, clam[t].name)

Goes(t, to) == phase' = [phase EXCEPT ![t] = to] /\ UNCHANGED <<turn, jobs>>
Unkept == UNCHANGED <<store, stats, accepted, faults>>

\* _execute_and_analyze after the runtime: secrets are missing, an error (of a tool
\* too), a transcript that needs no analysis, or an output to analyze.
Executed(t) ==
  /\ phase[t] = "execute"
  /\ \/ (Finish(t, clam[t].name) \/ Retry(t, clam[t].name) \/ Goes(t, "analyze")) /\ Unkept
     \/ Accept(t)
  /\ UNCHANGED direct

\* SELF_FIX, REJECT (also when the LLM fails), NEED_FULL_OUTPUT, ACCEPT.
Analyzed(t) ==
  /\ phase[t] = "analyze"
  /\ \/ (Retry(t, clam[t].name) \/ Finish(t, clam[t].name) \/ Goes(t, "full")) /\ Unkept
     \/ Accept(t)
  /\ UNCHANGED direct

\* The second analysis: what is neither SELF_FIX nor REJECT counts as ACCEPT.
\* Mutant: it may ask for the full output again.
AnalyzedFullAgain(t) ==
  /\ phase[t] = "full"
  /\ \/ (Retry(t, clam[t].name) \/ Finish(t, clam[t].name) \/ Goes(t, "analyze")) /\ Unkept
     \/ Accept(t)
  /\ UNCHANGED direct
AnalyzedFull(t) ==
  /\ phase[t] = "full"
  /\ \/ (Retry(t, clam[t].name) \/ Finish(t, clam[t].name)) /\ Unkept
     \/ Accept(t)
  /\ UNCHANGED direct

-----------------------------------------------------------------------------
(* Scheduled clams, the heartbeat, crashes. *)

\* execute_clam_direct: the clam is loaded, its usage with it.  A job whose clam is
\* gone gets its error at once.
StartDirect(d, n) ==
  /\ direct[d] = None /\ n \in jobs \cap DOMAIN clams
  /\ direct' = [direct EXCEPT ![d] = n]
  /\ usage' = Loaded(usageFile)
  /\ UNCHANGED <<phase, turn, store, usageFile, used, forgot, jobs, accepted, faults>>

\* An error, or an output and its use recorded.
EndDirect(d) ==
  /\ direct[d] # None
  /\ direct' = [direct EXCEPT ![d] = None]
  /\ UNCHANGED <<stats, faults>> \/ RecordUsage(direct[d], usageFile)
  /\ UNCHANGED <<phase, turn, store, jobs, accepted>>

\* run_cleanup: _prune_stale_clams by the file, then _prune_orphan_builds, which
\* skips the names promoted.  Files of the empty name are no directory of their own.
Stale == {n \in DOMAIN clams \ {NoSlug} : usageFile[n] = "old"}
\* Mutant: only builds that no usage is recorded of.
UnusedOrphans(kept) ==
  {n \in DOMAIN build \ {NoSlug} : n \notin kept /\ build[n].aged /\ usageFile[n] = "never"}
Orphans(kept) == {n \in DOMAIN build \ {NoSlug} : n \notin kept /\ build[n].aged}
Cleanup ==
  LET orphans == Orphans(DOMAIN clams \ Stale) IN
  /\ Stale \cup orphans # {}
  /\ clams' = Drop(clams, Stale)
  /\ usageFile' = [n \in Names |-> IF n \in Stale THEN "never" ELSE usageFile[n]]
  /\ build' = Drop(build, orphans)
  /\ UNCHANGED <<phase, turn, hasBuild, usage, used, forgot, direct, jobs, accepted, faults>>

\* orphan_build_hours pass since the directory was made; a turn does not take that long.
AgeBuild(n) ==
  /\ n \in DOMAIN build /\ ~build[n].aged /\ ~Running(build[n].by)
  /\ build' = [build EXCEPT ![n].aged = TRUE]
  /\ UNCHANGED <<phase, turn, hasBuild, clams, stats, direct, jobs, accepted, faults>>

\* stale_clam_days pass since every use so far.
Older(f) == [n \in Names |-> IF f[n] = "fresh" THEN "old" ELSE f[n]]
AgeUsage ==
  /\ Idle /\ \A d \in Directs : direct[d] = None
  /\ \E n \in Names : used[n] = "fresh"
  /\ usage' = IF usage = None THEN None ELSE Older(usage)
  /\ usageFile' = Older(usageFile) /\ used' = Older(used)
  /\ UNCHANGED <<phase, turn, store, forgot, direct, jobs, accepted, faults>>

\* The process ends and starts again with empty caches.  A clam_id not yet saved is lost.
Restart ==
  /\ faults < MaxFaults /\ faults' = faults + 1
  /\ phase' = [t \in Turns |-> IF Running(t) THEN "done" ELSE phase[t]]
  /\ left' = [t \in Turns |-> None] /\ attempt' = [t \in Turns |-> 0]
  /\ tries' = [t \in Turns |-> 0]
  /\ clam' = [t \in Turns |-> None] /\ prev' = [t \in Turns |-> None]
  /\ direct' = [d \in Directs |-> None]
  /\ usage' = None
  /\ jobs' \in SUBSET jobs

\* At an await, or while .usage.json is written: a torn file counts as an empty one.
Crash ==
  /\ Restart
  /\ usageFile' \in {usageFile, NoUse}
  /\ forgot' = StillForgot({n \in Names : used[n] = "fresh"})
  /\ UNCHANGED <<store, used, accepted>>

\* Inside ACCEPT: after the old clam was deleted, or before the use was recorded.
CrashInAccept(t) ==
  LET n == clam[t].name IN
  /\ HasRun(t)
  /\ IF n = NoSlug THEN hasBuild ELSE n \in DOMAIN build
  /\ Restart
  /\ \/ /\ clams' = IF n = NoSlug THEN NoFiles ELSE Drop(clams, {n})
        /\ UNCHANGED <<build, hasBuild>>
     \/ Promote(n)
  /\ used' = [used EXCEPT ![n] = "fresh"]
  /\ usageFile' = FileAfterPromote(n)
  /\ forgot' = StillForgot({m \in Names : used'[m] = "fresh"})
  /\ accepted' = accepted \cup {clam[t].script}

-----------------------------------------------------------------------------
Step(t) ==
  Select(t) \/ Plan(t) \/ Generated(t) \/ Executed(t) \/ Analyzed(t) \/ AnalyzedFull(t) \/ Transform(t)

Next ==
  \/ \E t \in Turns : Begin(t) \/ Step(t) \/ CrashInAccept(t)
  \/ \E d \in Directs : EndDirect(d) \/ \E n \in Names : StartDirect(d, n)
  \/ Cleanup \/ AgeUsage \/ \E n \in Names : AgeBuild(n)
  \/ Crash

Spec == Init /\ [][Next]_vars

\* Every awaited call returns, time passes, and the heartbeat ticks.
FairSpec ==
  /\ Spec
  /\ \A t \in Turns : WF_vars(Step(t))
  /\ WF_vars(Cleanup) /\ \A n \in Names : WF_vars(AgeBuild(n))

-----------------------------------------------------------------------------
(* Properties *)

\* However grounding errors, runtime errors and verdicts of the analyzer follow each
\* other, a task generates at most once and max_self_fix times again: the retries of
\* _generate_and_execute and _execute_and_analyze share one counter.
RetriesBounded == \A t \in Turns : tries[t] <= MaxFix + 1

\* Every turn returns, whatever the LLMs answer (process_turn).
TurnEnds == \A t \in Turns : (phase[t] = "select") ~> (phase[t] = "done")

\* A clam leaves clams/ only when it was not used for stale_clam_days, unless the
\* record of its last use was lost or a crash hit its promotion: neither turns that
\* promote, nor the heartbeat's rewriting of .usage.json under the registry's cache
\* may take away another one.
UsedClamsStay ==
  [][\A n \in DOMAIN clams \ DOMAIN clams' :
       \/ used[n] # "fresh" \/ n \in forgot
       \/ faults' # faults /\ \E t \in Turns : HasRun(t) /\ clam[t].name = n]_vars

\* A build that no turn gets promoted does not stay: it is pruned, or its name becomes
\* a clam, which hides it from _prune_orphan_builds.
OrphansVanish ==
  \A n \in Names \ {NoSlug} :
    (n \in DOMAIN build) ~> (n \notin DOMAIN build \/ n \in DOMAIN clams)

\* "Successful scripts are promoted and reused" (README.md): what clams/ holds is what
\* the analysis accepted, not what another turn, or a turn before, left in build/ under
\* the name of a clam that is accepted.
KeptAreAccepted == \A n \in DOMAIN clams : clams[n] \in accepted
=============================================================================
