---------------------------- MODULE CronService ----------------------------
(***************************************************************************)
(* The cron scheduler of clambot: InMemoryCronService (cron/service.py),   *)
(* its file jobs.json (cron/store.py), the heartbeat's pruning of that     *)
(* file (workspace/cleanup.py) and the death and restart of the gateway.   *)
(*                                                                         *)
(* Everything here runs on ONE asyncio loop.  The scheduler coroutine      *)
(* gives the loop away at two places only: while it awaits a job's         *)
(* executor and while it sleeps on its change event.  A call of another    *)
(* coroutine (add_job, remove_job, ...) happens at those places; the       *)
(* process can die, and the clock can advance, anywhere.                   *)
(***************************************************************************)
EXTENDS Naturals, FiniteSets

CONSTANTS
  Ids,          \* job ids, never reused (uuid4)
  Requests,     \* what callers ask for: a schedule and delete_after_run
  Never,        \* None: no next run
  NoJob,        \* no such job
  DefaultSleep, \* 60 s: the sleep when no job has a next run
  MaxTime,      \* bound: the clock stops here
  MaxCrashes,   \* bound: deaths of the process
  MaxCalls      \* bound: calls of the public API

AllSchedules ==
  [kind : {"at"}, at : Nat] \cup [kind : {"every"}, every : Nat \ {0}]
    \cup [kind : {"cron"}, ticks : SUBSET Nat]

Time   == Nat \cup {Never}
JobRec == [sched : AllSchedules, del : BOOLEAN, enabled : BOOLEAN, next : Time]

ASSUME CronAssumption ==
  /\ Requests \subseteq [sched : AllSchedules, del : BOOLEAN]
  /\ Never \notin Nat
  /\ NoJob \notin Ids /\ NoJob \notin JobRec
  /\ DefaultSleep \in Nat \ {0}
  /\ MaxTime \in Nat
  /\ MaxCrashes \in Nat /\ MaxCalls \in Nat

VARIABLES
  now,      \* the wall clock
  job,      \* the CronJob objects of this process, removed ones included
  stored,   \* the ids in self._store.jobs
  disk,     \* jobs.json
  running,  \* self._running
  event,    \* self._change_event
  pc,       \* where the scheduler coroutine is
  due,      \* due_jobs of the current pass
  todo,     \* the jobs of due not yet started
  cur,      \* the job whose executor the scheduler awaits
  wakeAt,   \* when the sleep in progress times out
  manual,   \* jobs whose executor a run_job call awaits
  added,    \* history: ids handed out by add_job
  ran,      \* history: jobs that an executor has completed
  withdrawn,\* history: jobs removed, disabled or left without a next run on request
  crashes,  \* deaths so far
  calls     \* API calls so far

mem    == <<job, stored>>
loop   == <<pc, due, todo, cur, wakeAt>>
hist   == <<added, ran, withdrawn, crashes, calls>>
vars   == <<now, job, stored, disk, running, event, pc, due, todo, cur,
            wakeAt, manual, added, ran, withdrawn, crashes, calls>>

-----------------------------------------------------------------------------
(* cron/schedule.py *)

FirstTicks(s, after) ==
  {m \in s.ticks : m > after /\ \A k \in s.ticks : k > after => m <= k}

\* calculate_next_run_ms.  A cron expression is the set of instants it matches.
NextRun(s, after) ==
  CASE s.kind = "every" -> after + s.every
    [] s.kind = "at"    -> IF s.at > after THEN s.at ELSE Never
    [] s.kind = "cron"  -> IF FirstTicks(s, after) = {} THEN Never
                           ELSE CHOOSE m \in FirstTicks(s, after) : TRUE

\* The fallback of add_job and _recompute_next_runs: an overdue one-shot is due now.
NextRunOrOverdue(s, after) ==
  IF NextRun(s, after) = Never /\ s.kind = "at" THEN s.at ELSE NextRun(s, after)

-----------------------------------------------------------------------------
(* helpers *)

\* At these places another coroutine of the loop may run.
AtAwait == pc \in {"ready", "exec", "wait", "stopped"}

\* What save_cron_store writes: the stored jobs (temp file and rename: atomic).
SavedOf(jobs, ids) == [i \in Ids |-> IF i \in ids THEN jobs[i] ELSE NoJob]

HasRun(j)    == j.enabled /\ j.next # Never
IsDue(i)     == i \in stored /\ HasRun(job[i]) /\ job[i].next <= now
LiveRuns     == {job[i].next : i \in {k \in stored : HasRun(job[k])}}

-----------------------------------------------------------------------------
(* The scheduler loop: _run and _execute_job *)

\* while self._running: snapshot of the due jobs.
Check ==
  /\ pc \in {"ready", "check"} /\ running
  /\ due' = {i \in Ids : IsDue(i)}
  /\ todo' = due'
  /\ pc' = "pick"
  /\ UNCHANGED <<now, job, stored, disk, running, event, cur, wakeAt, manual, hist>>

\* _running was cleared: _run returns.
Leave ==
  /\ pc \in {"ready", "check"} /\ ~running
  /\ pc' = "stopped"
  /\ UNCHANGED <<now, job, stored, disk, running, event, due, todo, cur, wakeAt, manual, hist>>

\* _execute_job up to the await of the executor.  The snapshot is not looked at
\* again: the job may have been removed or disabled since Check.
StartJob(i) ==
  /\ pc = "pick" /\ i \in todo
  /\ todo' = todo \ {i}
  /\ cur' = i
  /\ pc' = "exec"
  /\ UNCHANGED <<now, job, stored, disk, running, event, due, wakeAt, manual, hist>>

\* Mutant: a one-shot without delete_after_run is left enabled and due.
AfterRunLeavesArmed(i) ==
  /\ IF job[i].del
     THEN stored' = stored \ {i} /\ UNCHANGED job
     ELSE UNCHANGED mem
  /\ ran' = ran \cup {i}

\* Mutant: delete_after_run removes every one-shot, not the one that ran.
AfterRunDropsAll(i) ==
  /\ stored' = {k \in stored : ~job[k].del /\ k # i}
  /\ UNCHANGED job
  /\ ran' = ran \cup {i}

\* _execute_job after the executor returned or raised (either way the same).
AfterRun(i) ==
  /\ IF job[i].del
     THEN stored' = stored \ {i} /\ UNCHANGED job
     ELSE /\ job' = [job EXCEPT
                ![i].enabled = @ /\ job[i].sched.kind # "at",
                ![i].next = IF job[i].sched.kind = "at" THEN Never
                            ELSE NextRun(job[i].sched, now)]
          /\ UNCHANGED stored
  /\ ran' = ran \cup {i}

FinishJob ==
  /\ pc = "exec"
  /\ AfterRun(cur)
  /\ cur' = NoJob
  /\ pc' = "pick"
  /\ UNCHANGED <<now, disk, running, event, due, todo, wakeAt, manual,
                 added, withdrawn, crashes, calls>>

\* Mutant: the jobs that ran are not written to jobs.json.
EndPassUnsaved ==
  /\ pc = "pick" /\ todo = {}
  /\ due' = {}
  /\ pc' = "plan"
  /\ UNCHANGED <<now, job, stored, disk, running, event, todo, cur, wakeAt, manual, hist>>

\* All due jobs ran: save once for the pass.
EndPass ==
  /\ pc = "pick" /\ todo = {}
  /\ disk' = IF due = {} THEN disk ELSE SavedOf(job, stored)
  /\ due' = {}
  /\ pc' = "plan"
  /\ UNCHANGED <<now, job, stored, running, event, todo, cur, wakeAt, manual, hist>>

\* Mutant: no default when there is nothing to wait for.
PlanNoDefault ==
  /\ pc = "plan"
  /\ \E m \in IF LiveRuns = {} THEN {Never} ELSE LiveRuns :
       /\ \A k \in LiveRuns : m <= k
       /\ wakeAt' = IF m # Never /\ m < now THEN now ELSE m
  /\ event' = FALSE
  /\ pc' = "wait"
  /\ UNCHANGED <<now, job, stored, disk, running, due, todo, cur, manual, hist>>

\* _compute_sleep_seconds, then clear the event and wait on it.
Plan ==
  /\ pc = "plan"
  /\ IF LiveRuns = {} THEN wakeAt' = now + DefaultSleep
     ELSE \E m \in LiveRuns :
            /\ \A k \in LiveRuns : m <= k
            /\ wakeAt' = IF m < now THEN now ELSE m
  /\ event' = FALSE
  /\ pc' = "wait"
  /\ UNCHANGED <<now, job, stored, disk, running, due, todo, cur, manual, hist>>

\* The event was set, or the sleep timed out.
Wake ==
  /\ pc = "wait" /\ (event \/ now >= wakeAt)
  /\ pc' = "check"
  /\ wakeAt' = 0
  /\ UNCHANGED <<now, job, stored, disk, running, event, due, todo, cur, manual, hist>>

-----------------------------------------------------------------------------
(* The public API, called by other coroutines of the loop *)

\* Save and wake: the tail every mutator shares.
Commit ==
  /\ disk' = SavedOf(job', stored')
  /\ event' = TRUE

\* A call arrives: some other coroutine of the loop has it.
Call ==
  /\ AtAwait /\ calls < MaxCalls
  /\ calls' = calls + 1

AddJob(i, r) ==
  /\ Call /\ i \in Ids \ added
  /\ job' = [job EXCEPT ![i] =
               [sched |-> r.sched, del |-> r.del, enabled |-> TRUE,
                next |-> NextRunOrOverdue(r.sched, now)]]
  /\ stored' = stored \cup {i}
  /\ added' = added \cup {i}
  /\ Commit
  /\ UNCHANGED <<now, running, loop, manual, ran, withdrawn, crashes>>

RemoveJob(i) ==
  /\ Call /\ i \in stored
  /\ stored' = stored \ {i}
  /\ UNCHANGED job
  /\ withdrawn' = withdrawn \cup {i}
  /\ Commit
  /\ UNCHANGED <<now, running, loop, manual, added, ran, crashes>>

\* Mutant: enabling does not wake the scheduler.
EnableJobSilently(i) ==
  /\ Call /\ i \in stored
  /\ job' = [job EXCEPT ![i].enabled = TRUE, ![i].next = NextRun(job[i].sched, now)]
  /\ UNCHANGED <<stored, event>>
  /\ withdrawn' = IF job'[i].next = Never THEN withdrawn \cup {i} ELSE withdrawn
  /\ disk' = SavedOf(job', stored')
  /\ UNCHANGED <<now, running, loop, manual, added, ran, crashes>>

\* No fallback here: an `at' job past its time is left enabled with no next run.
EnableJob(i) ==
  /\ Call /\ i \in stored
  /\ job' = [job EXCEPT ![i].enabled = TRUE, ![i].next = NextRun(job[i].sched, now)]
  /\ UNCHANGED stored
  /\ withdrawn' = IF job'[i].next = Never THEN withdrawn \cup {i} ELSE withdrawn
  /\ Commit
  /\ UNCHANGED <<now, running, loop, manual, added, ran, crashes>>

DisableJob(i) ==
  /\ Call /\ i \in stored
  /\ job' = [job EXCEPT ![i].enabled = FALSE, ![i].next = Never]
  /\ UNCHANGED stored
  /\ withdrawn' = withdrawn \cup {i}
  /\ Commit
  /\ UNCHANGED <<now, running, loop, manual, added, ran, crashes>>

\* run_job up to the await: whatever the schedule, and whether or not the
\* scheduler is executing the same job.
RunJob(i) ==
  /\ Call /\ i \in stored \ manual
  /\ manual' = manual \cup {i}
  /\ UNCHANGED <<now, job, stored, disk, running, event, loop, added, ran, withdrawn, crashes>>

\* run_job after the await.
RunJobDone(i) ==
  /\ AtAwait /\ i \in manual
  /\ manual' = manual \ {i}
  /\ AfterRun(i)
  /\ Commit
  /\ UNCHANGED <<now, running, loop, added, withdrawn, crashes, calls>>

Stop ==
  /\ Call /\ running
  /\ running' = FALSE
  /\ event' = TRUE
  /\ UNCHANGED <<now, job, stored, disk, loop, manual, added, ran, withdrawn, crashes>>

-----------------------------------------------------------------------------
(* The heartbeat, the clock, and the process *)

\* _prune_disabled_cron_jobs edits the file behind the service's back.
PruneDisabled ==
  /\ AtAwait
  /\ \E i \in Ids : disk[i] # NoJob /\ ~disk[i].enabled
  /\ disk' = [i \in Ids |-> IF disk[i] # NoJob /\ ~disk[i].enabled THEN NoJob ELSE disk[i]]
  /\ UNCHANGED <<now, job, stored, running, event, loop, manual, hist>>

Tick ==
  /\ now < MaxTime
  /\ now' = now + 1
  /\ UNCHANGED <<job, stored, disk, running, event, loop, manual, hist>>

\* The process dies (or is shut down, which cancels the scheduler task).
Crash ==
  /\ pc # "down" /\ crashes < MaxCrashes
  /\ crashes' = crashes + 1
  /\ job' = [i \in Ids |-> NoJob]
  /\ stored' = {}
  /\ running' = FALSE
  /\ event' = FALSE
  /\ pc' = "down"
  /\ due' = {} /\ todo' = {} /\ cur' = NoJob /\ wakeAt' = 0
  /\ manual' = {}
  /\ UNCHANGED <<now, disk, added, ran, withdrawn, calls>>

\* Mutant: _recompute_next_runs without the one-shot fallback.
RecomputedNoFallback(j) ==
  IF j # NoJob /\ j.enabled THEN [j EXCEPT !.next = NextRun(j.sched, now)] ELSE j

\* _recompute_next_runs.
Recomputed(j) ==
  IF j # NoJob /\ j.enabled THEN [j EXCEPT !.next = NextRunOrOverdue(j.sched, now)] ELSE j

\* start(): load, recompute, save.
Start ==
  /\ pc = "down"
  /\ stored' = {i \in Ids : disk[i] # NoJob}
  /\ job' = [i \in Ids |-> Recomputed(disk[i])]
  /\ disk' = SavedOf(job', stored')
  /\ running' = TRUE
  /\ pc' = "ready"
  /\ UNCHANGED <<now, event, due, todo, cur, wakeAt, manual, hist>>

-----------------------------------------------------------------------------
Init ==
  /\ now = 0
  /\ job = [i \in Ids |-> NoJob] /\ stored = {}
  /\ disk = [i \in Ids |-> NoJob]
  /\ running = FALSE /\ event = FALSE
  /\ pc = "down" /\ due = {} /\ todo = {} /\ cur = NoJob /\ wakeAt = 0
  /\ manual = {}
  /\ added = {} /\ ran = {} /\ withdrawn = {} /\ crashes = 0 /\ calls = 0

Scheduler ==
  \/ Check \/ Leave \/ FinishJob \/ EndPass \/ Plan \/ Wake
  \/ \E i \in Ids : StartJob(i)

Callers ==
  \/ \E i \in Ids :
       \/ \E r \in Requests : AddJob(i, r)
       \/ RemoveJob(i) \/ EnableJob(i) \/ DisableJob(i)
       \/ RunJob(i) \/ RunJobDone(i)
  \/ Stop

Next == Scheduler \/ Callers \/ PruneDisabled \/ Tick \/ Crash \/ Start

Spec == Init /\ [][Next]_vars

\* The loop runs what is ready, executors return (the runtime bounds every
\* turn), the clock advances, and a dead gateway is started again.
FairSpec == Spec /\ WF_vars(Scheduler) /\ WF_vars(Tick) /\ WF_vars(Start)

-----------------------------------------------------------------------------
TypeOK ==
  /\ now \in Nat
  /\ job \in [Ids -> JobRec \cup {NoJob}]
  /\ disk \in [Ids -> JobRec \cup {NoJob}]
  /\ stored \subseteq {i \in Ids : job[i] # NoJob}
  /\ running \in BOOLEAN /\ event \in BOOLEAN
  /\ pc \in {"down", "ready", "check", "pick", "exec", "plan", "wait", "stopped"}
  /\ due \subseteq Ids /\ todo \subseteq due
  /\ cur \in Ids \cup {NoJob}
  /\ wakeAt \in Nat
  /\ manual \subseteq Ids
  /\ added \subseteq Ids /\ ran \subseteq Ids /\ withdrawn \subseteq Ids
  /\ crashes \in Nat /\ calls \in Nat

\* While the scheduler sleeps with no wake-up pending, its timer does not run
\* past the next run of any enabled job: no add, enable, disable, removal or
\* manual run leaves the loop asleep on a stale plan (service.py:150-161).
SleepCoversNextRun ==
  pc = "wait" /\ ~event =>
    \A i \in stored : HasRun(job[i]) => wakeAt <= job[i].next \/ wakeAt <= now

\* jobs.json differs from the memory of a live service only in the jobs the
\* current pass has already run (they are saved when the pass ends), and in
\* disabled jobs the heartbeat pruned: what a crash can undo is bounded by that.
JobsFileLag ==
  pc # "down" =>
    \A i \in Ids :
      \/ disk[i] = SavedOf(job, stored)[i]
      \/ i \in due \ (todo \cup {cur})
      \/ disk[i] = NoJob /\ i \in stored /\ ~job[i].enabled

\* What the file owes its users: enabled jobs that never ran and that nobody
\* withdrew.  The service implements the abstract promise about them.
Owed == {i \in Ids : disk[i] # NoJob /\ disk[i].enabled} \ (ran \cup withdrawn)
Promise == INSTANCE CronPromise WITH owed <- Owed
\* No accepted job is ever lost, whatever callers, the heartbeat and crashes do:
\* it leaves the file's debt by running or by being withdrawn on request.
KeepsPromise == Promise!Spec

\* A one-shot `at' job that is owed eventually runs, even across a restart that
\* finds it overdue (the fallback of _recompute_next_runs, service.py:342-350),
\* unless the service stays down or stopped for ever.
OneShotServed ==
  []<>running =>
    \A i \in Ids : (i \in Owed /\ disk[i].sched.kind = "at") ~> (i \notin Owed)

\* While the process lives, a due job does not stay due: the scheduler runs it, or a
\* caller changes it (service.py:132-148).  A death is no answer: start() plans what
\* recurs anew and so drops a run that was due, and the promise ends there.
DueServed ==
  []<>running =>
    \A i \in Ids, c \in 0 .. MaxCrashes :
      (IsDue(i) /\ crashes = c) ~> (~IsDue(i) /\ crashes = c) \/ crashes > c
=============================================================================
