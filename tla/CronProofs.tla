---------------------------- MODULE CronProofs ----------------------------
(***************************************************************************)
(* Theorems about CronService, for any set of jobs and requests, any clock *)
(* and any number of calls and crashes; and, at the end, about             *)
(* CronSchedule, for every zone, expression and clock.                     *)
(***************************************************************************)
EXTENDS CronService, CronSchedule, TLAPS

\* Where the scheduler is says what its local variables hold.
PassInv ==
  /\ pc \notin {"pick", "exec"} => due = {}
  /\ pc = "exec" => cur \in due \ todo
  /\ pc # "exec" => cur = NoJob
  /\ pc = "down" => stored = {} /\ manual = {}
  /\ due \ (todo \cup {cur}) \subseteq ran

\* Every job object in use exists, and one that nobody ran or withdrew is
\* stored and enabled.
KnownInv ==
  \A i \in stored \cup manual \cup due :
    /\ job[i] # NoJob
    /\ i \in ran \cup withdrawn \/ (i \in stored /\ job[i].enabled)

\* The file disables only what ran or was withdrawn.
DiskInv == \A i \in Ids : disk[i] # NoJob /\ ~disk[i].enabled => i \in ran \cup withdrawn

\* Ids are handed out by add_job only.
AddedInv == stored \cup manual \cup due \cup ran \cup withdrawn \cup {i \in Ids : disk[i] # NoJob}
              \subseteq added

IInv == TypeOK /\ PassInv /\ KnownInv /\ DiskInv /\ AddedInv /\ JobsFileLag

-----------------------------------------------------------------------------
(* Lemmas about the helpers *)

\* Schedules yield an instant or none.
LEMMA NextRunType ==
  ASSUME NEW s \in AllSchedules, NEW t \in Nat
  PROVE  NextRun(s, t) \in Time /\ NextRunOrOverdue(s, t) \in Time
<1>1. CASE s.kind = "at"
  BY <1>1 DEF AllSchedules, NextRun, NextRunOrOverdue, Time
<1>2. CASE s.kind = "every"
  BY <1>2 DEF AllSchedules, NextRun, NextRunOrOverdue, Time
<1>3. CASE s.kind = "cron"
  <2>1. FirstTicks(s, t) \subseteq Nat
    BY <1>3 DEF AllSchedules, FirstTicks
  <2>2. NextRun(s, t) = IF FirstTicks(s, t) = {} THEN Never
                        ELSE CHOOSE m \in FirstTicks(s, t) : TRUE
    BY <1>3 DEF NextRun
  <2>3. NextRun(s, t) \in Time
    <3>1. CASE FirstTicks(s, t) = {}
      BY <2>2, <3>1 DEF Time
    <3>2. CASE FirstTicks(s, t) # {}
      BY <2>1, <2>2, <3>2 DEF Time
    <3> QED BY <3>1, <3>2
  <2> QED BY <1>3, <2>3 DEF NextRunOrOverdue
<1> QED BY <1>1, <1>2, <1>3 DEF AllSchedules

\* Saving keeps the file well typed.
LEMMA SavedType ==
  ASSUME NEW js \in [Ids -> JobRec \cup {NoJob}], NEW ids \in SUBSET Ids
  PROVE  SavedOf(js, ids) \in [Ids -> JobRec \cup {NoJob}]
BY DEF SavedOf

\* Loading keeps the jobs well typed, and enabled exactly as they were.
LEMMA RecomputedType ==
  ASSUME NEW j \in JobRec \cup {NoJob}, now \in Nat
  PROVE  /\ Recomputed(j) \in JobRec \cup {NoJob}
         /\ Recomputed(j) = NoJob <=> j = NoJob
         /\ j # NoJob => Recomputed(j).enabled = j.enabled
<1>1. CASE j = NoJob
  BY <1>1 DEF Recomputed
<1>2. CASE j # NoJob
  <2>1. j \in JobRec
    BY <1>2
  <2>2. NextRunOrOverdue(j.sched, now) \in Time
    BY <2>1, NextRunType DEF JobRec
  <2>3. Recomputed(j) \in JobRec /\ Recomputed(j).enabled = j.enabled
    BY <2>1, <2>2 DEF Recomputed, JobRec
  <2> QED BY <1>2, <2>3, CronAssumption DEF CronAssumption
<1> QED BY <1>1, <1>2

\* What _execute_job does to the jobs after the executor is done with i.
LEMMA AfterRunEffect ==
  ASSUME TypeOK, NEW i \in Ids, job[i] # NoJob, AfterRun(i)
  PROVE  /\ job' \in [Ids -> JobRec \cup {NoJob}]
         /\ stored' \subseteq stored
         /\ stored \ stored' \subseteq {i}
         /\ \A k \in Ids \ {i} : job'[k] = job[k]
         /\ \A k \in Ids : job'[k] = NoJob <=> job[k] = NoJob
         /\ ran' = ran \cup {i}
<1>1. job[i] \in JobRec /\ now \in Nat
  BY DEF TypeOK
<1>2. NextRun(job[i].sched, now) \in Time
  BY <1>1, NextRunType DEF JobRec
<1>3. NoJob \notin JobRec
  BY CronAssumption DEF CronAssumption
<1>4. CASE job[i].del
  BY <1>4 DEF AfterRun, TypeOK
<1>5. CASE ~job[i].del
  <2> DEFINE nxt == IF job[i].sched.kind = "at" THEN Never ELSE NextRun(job[i].sched, now)
             en  == job[i].enabled /\ job[i].sched.kind # "at"
             rec == [job[i] EXCEPT !.enabled = en, !.next = nxt]
  <2>1. nxt \in Time /\ en \in BOOLEAN
    BY <1>1, <1>2 DEF JobRec, Time
  <2>2. rec \in JobRec
    BY <1>1, <2>1 DEF JobRec
  <2>3. job' = [job EXCEPT ![i] = rec] /\ stored' = stored /\ ran' = ran \cup {i}
    BY <1>5, <1>1 DEF AfterRun, TypeOK, JobRec
  <2> HIDE DEF rec
  <2> QED BY <2>2, <2>3, <1>3 DEF TypeOK
<1> QED BY <1>4, <1>5

\* Writing the file puts it in step with the memory.
LEMMA CommitEffect ==
  ASSUME job' \in [Ids -> JobRec \cup {NoJob}], stored' \subseteq Ids,
         disk' = SavedOf(job', stored'), KnownInv'
  PROVE  /\ disk' \in [Ids -> JobRec \cup {NoJob}]
         /\ DiskInv'
         /\ JobsFileLag'
         /\ {i \in Ids : disk'[i] # NoJob} \subseteq stored'
<1>1. disk' \in [Ids -> JobRec \cup {NoJob}]
  BY SavedType
<1>2. \A i \in Ids : disk'[i] = IF i \in stored' THEN job'[i] ELSE NoJob
  BY DEF SavedOf
<1>3. DiskInv'
  BY <1>2 DEF DiskInv, KnownInv
<1>4. JobsFileLag'
  BY DEF JobsFileLag
<1> QED BY <1>1, <1>2, <1>3, <1>4

\* A stored, managed or due job is a record.
LEMMA KnownRec ==
  ASSUME TypeOK, KnownInv, NEW i \in stored \cup manual \cup due
  PROVE  i \in Ids /\ job[i] \in JobRec
BY DEF TypeOK, KnownInv

-----------------------------------------------------------------------------
(* The inductive invariant *)

LEMMA InitInv == Init => IInv
<1> SUFFICES ASSUME Init PROVE IInv
  OBVIOUS
<1> USE DEF Init
<1>1. TypeOK
  BY DEF TypeOK
<1>2. PassInv /\ KnownInv /\ DiskInv /\ AddedInv /\ JobsFileLag
  BY DEF PassInv, KnownInv, DiskInv, AddedInv, JobsFileLag
<1> QED BY <1>1, <1>2 DEF IInv

\* Steps of the scheduler that touch neither jobs nor file.
LEMMA LoopStepInv ==
  ASSUME IInv,
         Check \/ Leave \/ Plan \/ Wake \/ (\E i \in Ids : StartJob(i))
  PROVE  IInv'
<1> USE DEF IInv, mem, hist
<1>0. NoJob \notin Ids
  BY CronAssumption DEF CronAssumption
<1>1. CASE Check
  BY <1>1, <1>0 DEF Check, IsDue, TypeOK, PassInv, KnownInv, DiskInv, AddedInv, JobsFileLag
<1>2. CASE Leave
  BY <1>2, <1>0 DEF Leave, TypeOK, PassInv, KnownInv, DiskInv, AddedInv, JobsFileLag
<1>3. CASE Plan
  <2>1. LiveRuns \subseteq Nat
    BY DEF LiveRuns, HasRun, TypeOK, JobRec, Time
  <2>2. wakeAt' \in Nat
    BY <1>3, <2>1, CronAssumption DEF Plan, TypeOK, CronAssumption
  <2> QED BY <1>3, <1>0, <2>2 DEF Plan, TypeOK, PassInv, KnownInv, DiskInv, AddedInv, JobsFileLag
<1>4. CASE Wake
  BY <1>4, <1>0 DEF Wake, TypeOK, PassInv, KnownInv, DiskInv, AddedInv, JobsFileLag
<1>5. ASSUME NEW i \in Ids, StartJob(i)
      PROVE  IInv'
  BY <1>5, <1>0 DEF StartJob, TypeOK, PassInv, KnownInv, DiskInv, AddedInv, JobsFileLag
<1> QED BY <1>1, <1>2, <1>3, <1>4, <1>5

\* A job's executor is done, in the scheduler's pass.
LEMMA FinishJobInv ==
  ASSUME IInv, FinishJob
  PROVE  IInv'
<1> USE DEF IInv, FinishJob
<1>0. NoJob \notin Ids /\ pc = "exec" /\ pc' = "pick" /\ cur' = NoJob
  BY CronAssumption DEF CronAssumption
<1>1. cur \in due /\ cur \in Ids /\ job[cur] # NoJob
  BY DEF PassInv, TypeOK, KnownInv
<1>2. /\ job' \in [Ids -> JobRec \cup {NoJob}]
      /\ stored' \subseteq stored
      /\ stored \ stored' \subseteq {cur}
      /\ \A k \in Ids \ {cur} : job'[k] = job[k]
      /\ \A k \in Ids : job'[k] = NoJob <=> job[k] = NoJob
      /\ ran' = ran \cup {cur}
  BY <1>1, AfterRunEffect
<1>3. TypeOK'
  BY <1>0, <1>1, <1>2 DEF TypeOK
<1>4. PassInv' /\ KnownInv' /\ DiskInv' /\ AddedInv'
  BY <1>0, <1>1, <1>2 DEF TypeOK, PassInv, KnownInv, DiskInv, AddedInv
<1>5. JobsFileLag'
  <2> SUFFICES ASSUME NEW k \in Ids
               PROVE  \/ disk'[k] = SavedOf(job, stored)'[k]
                      \/ k \in due' \ (todo' \cup {cur'})
                      \/ disk'[k] = NoJob /\ k \in stored' /\ ~job'[k].enabled
    BY DEF JobsFileLag
  <2>1. CASE k = cur
    BY <2>1, <1>0, <1>1 DEF PassInv
  <2>2. CASE k # cur
    <3>1. SavedOf(job, stored)'[k] = SavedOf(job, stored)[k]
      BY <2>2, <1>2 DEF SavedOf
    <3> QED BY <3>1, <2>2, <1>0, <1>2 DEF JobsFileLag
  <2> QED BY <2>1, <2>2
<1> QED BY <1>3, <1>4, <1>5

\* The pass ends and is saved.
LEMMA EndPassInv ==
  ASSUME IInv, EndPass
  PROVE  IInv'
<1> USE DEF IInv, EndPass, hist
<1>1. CASE due = {}
  BY <1>1 DEF TypeOK, PassInv, KnownInv, DiskInv, AddedInv, JobsFileLag
<1>2. CASE due # {}
  <2>1. job' \in [Ids -> JobRec \cup {NoJob}] /\ stored' \subseteq Ids /\ KnownInv'
    BY <1>2 DEF TypeOK, KnownInv
  <2>2. disk' = SavedOf(job', stored')
    BY <1>2
  <2>3. /\ disk' \in [Ids -> JobRec \cup {NoJob}] /\ DiskInv' /\ JobsFileLag'
        /\ {i \in Ids : disk'[i] # NoJob} \subseteq stored'
    BY <2>1, <2>2, CommitEffect
  <2>4. TypeOK' /\ PassInv' /\ AddedInv'
    BY <1>2, <2>3 DEF TypeOK, PassInv, AddedInv
  <2> QED BY <2>1, <2>3, <2>4
<1> QED BY <1>1, <1>2

\* What every saving mutator has to establish before it saves.
LEMMA MutatorInv ==
  ASSUME IInv, AtAwait, Commit, UNCHANGED <<now, running, loop>>,
         job' \in [Ids -> JobRec \cup {NoJob}],
         stored' \subseteq {i \in Ids : job'[i] # NoJob},
         stored' \subseteq added', manual' \subseteq manual,
         KnownInv', added \subseteq added', added' \subseteq Ids,
         ran \subseteq ran', withdrawn \subseteq withdrawn',
         ran' \cup withdrawn' \subseteq added',
         crashes' \in Nat, calls' \in Nat
  PROVE  IInv'
<1> USE DEF IInv, loop
<1>1. stored' \subseteq Ids /\ disk' = SavedOf(job', stored')
  BY DEF Commit
<1>2. /\ disk' \in [Ids -> JobRec \cup {NoJob}] /\ DiskInv' /\ JobsFileLag'
      /\ {i \in Ids : disk'[i] # NoJob} \subseteq stored'
  BY <1>1, CommitEffect
<1>3. TypeOK'
  BY <1>2 DEF TypeOK, Commit
<1>4. pc # "down" => PassInv'
  BY DEF PassInv
<1>5. PassInv' /\ AddedInv'
  BY <1>2, <1>4 DEF PassInv, AddedInv, AtAwait
<1> QED BY <1>2, <1>3, <1>5

LEMMA AddJobInv ==
  ASSUME IInv, NEW i \in Ids, NEW r \in Requests, AddJob(i, r)
  PROVE  IInv'
<1> USE DEF IInv, AddJob, Call
<1> DEFINE rec == [sched |-> r.sched, del |-> r.del, enabled |-> TRUE,
                   next |-> NextRunOrOverdue(r.sched, now)]
<1>1. rec \in JobRec
  <2>1. r \in [sched : AllSchedules, del : BOOLEAN] /\ now \in Nat
    BY CronAssumption DEF CronAssumption, TypeOK
  <2>2. NextRunOrOverdue(r.sched, now) \in Time
    BY <2>1, NextRunType
  <2> QED BY <2>1, <2>2 DEF JobRec
<1>2. rec # NoJob
  BY <1>1, CronAssumption DEF CronAssumption
<1>3. job' = [job EXCEPT ![i] = rec] /\ rec.enabled
  OBVIOUS
<1> HIDE DEF rec
<1>4. /\ job' \in [Ids -> JobRec \cup {NoJob}]
      /\ \A k \in Ids \ {i} : job'[k] = job[k]
      /\ job'[i] # NoJob /\ job'[i].enabled
  BY <1>1, <1>2, <1>3 DEF TypeOK
<1>5. /\ stored' \subseteq {k \in Ids : job'[k] # NoJob} /\ stored' \subseteq added'
      /\ added \subseteq added' /\ added' \subseteq Ids /\ calls' \in Nat /\ crashes' \in Nat
      /\ ran' \cup withdrawn' \subseteq added'
  BY <1>4 DEF TypeOK, AddedInv
<1>6. KnownInv'
  BY <1>4 DEF KnownInv, TypeOK, AddedInv, loop
<1> QED BY <1>4, <1>5, <1>6, MutatorInv

LEMMA RemoveJobInv ==
  ASSUME IInv, NEW i \in Ids, RemoveJob(i)
  PROVE  IInv'
<1> USE DEF IInv, RemoveJob, Call
<1>1. KnownInv'
  BY DEF KnownInv, TypeOK, loop
<1>2. /\ job' \in [Ids -> JobRec \cup {NoJob}]
      /\ stored' \subseteq {k \in Ids : job'[k] # NoJob}
      /\ stored' \subseteq added' /\ added' \subseteq Ids /\ calls' \in Nat /\ crashes' \in Nat
      /\ ran' \cup withdrawn' \subseteq added'
  BY DEF TypeOK, AddedInv
<1> QED BY <1>1, <1>2, MutatorInv

LEMMA EnableJobInv ==
  ASSUME IInv, NEW i \in Ids, EnableJob(i)
  PROVE  IInv'
<1> USE DEF IInv, Call
<1> DEFINE rec == [job[i] EXCEPT !.enabled = TRUE, !.next = NextRun(job[i].sched, now)]
<1>1. job[i] \in JobRec /\ now \in Nat
  BY DEF EnableJob, TypeOK
<1>2. rec \in JobRec /\ rec.enabled
  <2>1. NextRun(job[i].sched, now) \in Time
    BY <1>1, NextRunType DEF JobRec
  <2> QED BY <1>1, <2>1 DEF JobRec
<1>3. job' = [job EXCEPT ![i] = rec]
  BY <1>1 DEF EnableJob, TypeOK, JobRec
<1> HIDE DEF rec
<1>4. rec # NoJob
  BY <1>2, CronAssumption DEF CronAssumption
<1>5. /\ job' \in [Ids -> JobRec \cup {NoJob}]
      /\ \A k \in Ids \ {i} : job'[k] = job[k]
      /\ job'[i] # NoJob /\ job'[i].enabled
  BY <1>2, <1>3, <1>4 DEF TypeOK
<1>6. KnownInv'
  BY <1>5 DEF EnableJob, KnownInv, TypeOK, loop
<1>7. /\ i \in stored /\ stored' = stored /\ withdrawn' \in {withdrawn, withdrawn \cup {i}}
       /\ UNCHANGED <<manual, added, ran, crashes>> /\ calls' = calls + 1
  BY DEF EnableJob
<1>8. /\ stored' \subseteq {k \in Ids : job'[k] # NoJob}
      /\ stored' \subseteq added' /\ added' \subseteq Ids /\ calls' \in Nat /\ crashes' \in Nat
      /\ withdrawn \subseteq withdrawn' /\ ran' \cup withdrawn' \subseteq added'
  BY <1>5, <1>7 DEF TypeOK, AddedInv
<1> QED BY <1>5, <1>6, <1>7, <1>8, MutatorInv DEF EnableJob

LEMMA DisableJobInv ==
  ASSUME IInv, NEW i \in Ids, DisableJob(i)
  PROVE  IInv'
<1> USE DEF IInv, Call
<1> DEFINE rec == [job[i] EXCEPT !.enabled = FALSE, !.next = Never]
<1>1. job[i] \in JobRec
  BY DEF DisableJob, TypeOK
<1>2. rec \in JobRec
  BY <1>1 DEF JobRec, Time
<1>3. job' = [job EXCEPT ![i] = rec]
  BY <1>1 DEF DisableJob, TypeOK, JobRec
<1> HIDE DEF rec
<1>4. rec # NoJob
  BY <1>2, CronAssumption DEF CronAssumption
<1>5. /\ job' \in [Ids -> JobRec \cup {NoJob}]
      /\ \A k \in Ids \ {i} : job'[k] = job[k]
      /\ job'[i] # NoJob
  BY <1>2, <1>3, <1>4 DEF TypeOK
<1>6. KnownInv'
  BY <1>5 DEF DisableJob, KnownInv, TypeOK, loop
<1>7. /\ i \in stored /\ stored' = stored /\ withdrawn' \in {withdrawn, withdrawn \cup {i}}
       /\ UNCHANGED <<manual, added, ran, crashes>> /\ calls' = calls + 1
  BY DEF DisableJob
<1>8. /\ stored' \subseteq {k \in Ids : job'[k] # NoJob}
      /\ stored' \subseteq added' /\ added' \subseteq Ids /\ calls' \in Nat /\ crashes' \in Nat
      /\ withdrawn \subseteq withdrawn' /\ ran' \cup withdrawn' \subseteq added'
  BY <1>5, <1>7 DEF TypeOK, AddedInv
<1> QED BY <1>5, <1>6, <1>7, <1>8, MutatorInv DEF DisableJob

LEMMA RunJobDoneInv ==
  ASSUME IInv, NEW i \in Ids, RunJobDone(i)
  PROVE  IInv'
<1> USE DEF IInv, RunJobDone
<1>1. job[i] # NoJob
  BY DEF KnownInv
<1>2. /\ job' \in [Ids -> JobRec \cup {NoJob}]
      /\ stored' \subseteq stored
      /\ stored \ stored' \subseteq {i}
      /\ \A k \in Ids \ {i} : job'[k] = job[k]
      /\ \A k \in Ids : job'[k] = NoJob <=> job[k] = NoJob
      /\ ran' = ran \cup {i}
  BY <1>1, AfterRunEffect
<1>3. KnownInv'
  BY <1>2 DEF KnownInv, TypeOK, loop
<1>4. /\ stored' \subseteq {k \in Ids : job'[k] # NoJob}
      /\ stored' \subseteq added' /\ added' \subseteq Ids /\ calls' \in Nat /\ crashes' \in Nat
      /\ ran' \cup withdrawn' \subseteq added'
  BY <1>2 DEF TypeOK, AddedInv
<1> QED BY <1>2, <1>3, <1>4, MutatorInv

\* run_job starts an executor; stop() clears a flag.
LEMMA RunStopInv ==
  ASSUME IInv, (\E i \in Ids : RunJob(i)) \/ Stop
  PROVE  IInv'
<1> USE DEF IInv, Call, loop, AtAwait
<1>1. ASSUME NEW i \in Ids, RunJob(i)
      PROVE  IInv'
  BY <1>1 DEF RunJob, TypeOK, PassInv, KnownInv, DiskInv, AddedInv, JobsFileLag
<1>2. CASE Stop
  <2>1. TypeOK'
    <3>1. calls' \in Nat
      BY <1>2 DEF Stop, TypeOK
    <3>2. running' \in BOOLEAN /\ event' \in BOOLEAN
      BY <1>2, Zenon DEF Stop
    <3>3. UNCHANGED <<now, job, stored, disk, loop, manual, added, ran, withdrawn, crashes>>
      BY <1>2 DEF Stop
    <3> QED BY <3>1, <3>2, <3>3 DEF TypeOK
  <2>2. PassInv' /\ KnownInv' /\ DiskInv' /\ AddedInv'
    BY <1>2 DEF Stop, TypeOK, PassInv, KnownInv, DiskInv, AddedInv
  <2>3. JobsFileLag'
    BY <1>2 DEF Stop, JobsFileLag, SavedOf
  <2> QED BY <2>1, <2>2, <2>3
<1> QED BY <1>1, <1>2

LEMMA PruneInv ==
  ASSUME IInv, PruneDisabled
  PROVE  IInv'
<1> USE DEF IInv, PruneDisabled, loop, hist, AtAwait
<1>1. \A i \in Ids : disk'[i] = IF disk[i] # NoJob /\ ~disk[i].enabled THEN NoJob ELSE disk[i]
  OBVIOUS
<1>2. disk' \in [Ids -> JobRec \cup {NoJob}]
  BY DEF TypeOK
<1>3. TypeOK' /\ PassInv' /\ KnownInv' /\ DiskInv' /\ AddedInv'
  BY <1>1, <1>2 DEF TypeOK, PassInv, KnownInv, DiskInv, AddedInv
<1>4. JobsFileLag'
  <2> SUFFICES ASSUME NEW k \in Ids, pc # "down"
               PROVE  \/ disk'[k] = SavedOf(job, stored)[k]
                      \/ k \in due \ (todo \cup {cur})
                      \/ disk'[k] = NoJob /\ k \in stored /\ ~job[k].enabled
    BY DEF JobsFileLag, SavedOf
  <2>1. CASE disk'[k] = disk[k]
    BY <2>1 DEF JobsFileLag
  <2>2. CASE disk'[k] # disk[k] /\ disk[k] = SavedOf(job, stored)[k]
    BY <2>2, <1>1 DEF SavedOf
  <2>3. CASE disk'[k] # disk[k] /\ disk[k] # SavedOf(job, stored)[k]
    BY <2>3, <1>1 DEF JobsFileLag
  <2> QED BY <2>1, <2>2, <2>3
<1> QED BY <1>3, <1>4

LEMMA TickCrashInv ==
  ASSUME IInv, Tick \/ Crash
  PROVE  IInv'
<1> USE DEF IInv, loop, hist
<1>1. CASE Tick
  BY <1>1 DEF Tick, TypeOK, PassInv, KnownInv, DiskInv, AddedInv, JobsFileLag
<1>2. CASE Crash
  <2>1. TypeOK'
    <3>1. /\ crashes' \in Nat
          /\ wakeAt' \in Nat /\ cur' \in Ids \cup {NoJob} /\ pc' = "down"
          /\ due' \subseteq Ids /\ todo' \subseteq due' /\ manual' \subseteq Ids
      BY <1>2 DEF Crash, TypeOK
    <3>2. job' \in [Ids -> JobRec \cup {NoJob}] /\ stored' \subseteq {i \in Ids : job'[i] # NoJob}
      BY <1>2 DEF Crash
    <3>3. UNCHANGED <<now, disk, added, ran, withdrawn, calls>>
      BY <1>2 DEF Crash
    <3>4. running' \in BOOLEAN /\ event' \in BOOLEAN
      BY <1>2, Zenon DEF Crash
    <3> QED BY <3>1, <3>2, <3>3, <3>4 DEF TypeOK
  <2>2. PassInv' /\ KnownInv' /\ DiskInv' /\ AddedInv'
    BY <1>2 DEF Crash, TypeOK, PassInv, KnownInv, DiskInv, AddedInv
  <2>3. JobsFileLag'
    BY <1>2 DEF Crash, JobsFileLag, SavedOf
  <2> QED BY <2>1, <2>2, <2>3
<1> QED BY <1>1, <1>2

LEMMA StartInv ==
  ASSUME IInv, Start
  PROVE  IInv'
<1> USE DEF IInv, Start
<1>1. \A i \in Ids : /\ job'[i] \in JobRec \cup {NoJob}
                     /\ job'[i] = NoJob <=> disk[i] = NoJob
                     /\ disk[i] # NoJob => job'[i].enabled = disk[i].enabled
  BY RecomputedType DEF TypeOK
<1>2. job' \in [Ids -> JobRec \cup {NoJob}]
  BY <1>1
<1>3. stored' = {i \in Ids : disk[i] # NoJob} /\ manual' = {} /\ due' = {}
  BY DEF PassInv
<1>4. KnownInv'
  BY <1>1, <1>3 DEF KnownInv, DiskInv, hist
<1>5. /\ disk' \in [Ids -> JobRec \cup {NoJob}] /\ DiskInv' /\ JobsFileLag'
      /\ {i \in Ids : disk'[i] # NoJob} \subseteq stored'
  BY <1>2, <1>3, <1>4, CommitEffect
<1>6. TypeOK'
  BY <1>1, <1>2, <1>3, <1>5 DEF TypeOK, hist
<1>7. PassInv' /\ AddedInv'
  BY <1>3, <1>5 DEF PassInv, AddedInv, hist, TypeOK
<1> QED BY <1>4, <1>5, <1>6, <1>7

\* The invariant is inductive: one case per action.
LEMMA NextInv ==
  ASSUME IInv, [Next]_vars
  PROVE  IInv'
<1>1. CASE UNCHANGED vars
  BY <1>1 DEF vars, IInv, TypeOK, PassInv, KnownInv, DiskInv, AddedInv, JobsFileLag
<1>2. CASE Scheduler
  BY <1>2, LoopStepInv, FinishJobInv, EndPassInv DEF Scheduler
<1>3. CASE Callers
  BY <1>3, AddJobInv, RemoveJobInv, EnableJobInv, DisableJobInv, RunJobDoneInv, RunStopInv
     DEF Callers
<1>4. CASE PruneDisabled \/ Tick \/ Crash \/ Start
  BY <1>4, PruneInv, TickCrashInv, StartInv
<1> QED BY <1>1, <1>2, <1>3, <1>4 DEF Next

\* The strengthened invariant holds in every reachable state.
THEOREM Invariance == Spec => []IInv
<1> QED BY InitInv, NextInv, PTL DEF Spec

\* Every variable of the scheduler keeps its type, for every instance.
THEOREM TypeCorrect == Spec => []TypeOK
<1>1. IInv => TypeOK
  BY DEF IInv
<1> QED BY <1>1, Invariance, PTL

\* A crash can undo only the runs of the pass in progress: everything else the
\* service knows is in jobs.json, up to disabled jobs the heartbeat pruned.
THEOREM FileLagBounded == Spec => []JobsFileLag
<1>1. IInv => JobsFileLag
  BY DEF IInv
<1> QED BY <1>1, Invariance, PTL

-----------------------------------------------------------------------------
(* The sleeping scheduler *)

\* Plan computes a wake-up no later than any next run.
LEMMA PlanCovers ==
  ASSUME TypeOK, Plan
  PROVE  SleepCoversNextRun'
<1> SUFFICES ASSUME NEW i \in stored, HasRun(job[i])
             PROVE  wakeAt' <= job[i].next \/ wakeAt' <= now
  BY DEF Plan, SleepCoversNextRun, HasRun
<1>1. LiveRuns \subseteq Nat /\ now \in Nat
  BY DEF LiveRuns, HasRun, TypeOK, JobRec, Time
<1>2. job[i].next \in LiveRuns
  BY DEF LiveRuns
<1>3. PICK m \in LiveRuns : /\ \A k \in LiveRuns : m <= k
                            /\ wakeAt' = IF m < now THEN now ELSE m
  BY <1>2 DEF Plan
<1>4. m <= job[i].next
  BY <1>2, <1>3
<1>5. now <= now
  BY <1>1
<1>6. wakeAt' = now \/ wakeAt' = m
  BY <1>3
<1> QED BY <1>4, <1>5, <1>6

\* A mutator sets the event; nothing else changes a job while the loop sleeps.
LEMMA SleepStep ==
  ASSUME TypeOK, SleepCoversNextRun, [Next]_vars
  PROVE  SleepCoversNextRun'
<1> USE DEF SleepCoversNextRun, HasRun
<1>1. CASE UNCHANGED vars
  BY <1>1 DEF vars
<1>2. CASE Scheduler
  <2>1. CASE Plan
    BY <2>1, PlanCovers
  <2>2. CASE Check \/ Leave \/ FinishJob \/ EndPass \/ Wake \/ (\E i \in Ids : StartJob(i))
    <3>1. pc' # "wait"
      BY <2>2 DEF Check, Leave, FinishJob, EndPass, Wake, StartJob
    <3> QED BY <3>1
  <2> QED BY <1>2, <2>1, <2>2 DEF Scheduler
<1>3. CASE Callers
  <2>1. event' = TRUE \/ UNCHANGED <<now, job, stored, event, loop>>
    BY <1>3 DEF Callers, AddJob, RemoveJob, EnableJob, DisableJob, RunJob, RunJobDone, Stop, Commit
  <2> QED BY <2>1 DEF loop
<1>4. CASE PruneDisabled
  BY <1>4 DEF PruneDisabled, loop
<1>5. CASE Tick
  <2>1. now' = now + 1 /\ UNCHANGED <<job, stored, event, loop>> /\ now \in Nat /\ wakeAt \in Nat
    BY <1>5 DEF Tick, TypeOK
  <2> QED BY <2>1 DEF loop
<1>6. CASE Crash \/ Start
  <2>1. pc' # "wait"
    BY <1>6 DEF Crash, Start
  <2> QED BY <2>1
<1> QED BY <1>1, <1>2, <1>3, <1>4, <1>5, <1>6 DEF Next

\* The loop never sleeps past the next run of an enabled job without a wake-up
\* pending, whatever calls arrive while it executes jobs or sleeps.
THEOREM NeverOversleeps == Spec => []SleepCoversNextRun
<1>1. Init => SleepCoversNextRun
  BY DEF Init, SleepCoversNextRun
<1> QED BY <1>1, TypeCorrect, SleepStep, PTL DEF Spec

-----------------------------------------------------------------------------
(* The refinement *)

\* A job owed by the file is, in a live service, stored and enabled.
LEMMA OwedKnown ==
  ASSUME IInv, NEW i \in Owed, pc # "down"
  PROVE  i \in stored /\ job[i].enabled
BY DEF IInv, Owed, JobsFileLag, PassInv, SavedOf, KnownInv, TypeOK

\* After a save, what is owed is what is stored, enabled, not run, not withdrawn.
LEMMA OwedSaved ==
  ASSUME disk' = SavedOf(job', stored'), stored' \subseteq {i \in Ids : job'[i] # NoJob}
  PROVE  Owed' = {i \in stored' : job'[i].enabled} \ (ran' \cup withdrawn')
BY DEF Owed, SavedOf

\* And before it, too: the file and the memory agree on what is owed.
LEMMA OwedMemory ==
  ASSUME IInv, pc # "down"
  PROVE  Owed = {i \in stored : job[i].enabled} \ (ran \cup withdrawn)
<1>1. ASSUME NEW i \in stored, job[i].enabled, i \notin ran \cup withdrawn
      PROVE  i \in Owed
  <2>1. i \in Ids /\ disk[i] = SavedOf(job, stored)[i]
    BY <1>1 DEF IInv, TypeOK, JobsFileLag, PassInv
  <2> QED BY <1>1, <2>1 DEF SavedOf, Owed, IInv, TypeOK
<1> QED BY <1>1, OwedKnown DEF Owed

\* A mutator that saves moves only jobs it has run or that were withdrawn.
LEMMA CommitOwed ==
  ASSUME IInv, IInv', pc # "down", disk' = SavedOf(job', stored')
  PROVE  /\ Owed  = {i \in stored : job[i].enabled} \ (ran \cup withdrawn)
         /\ Owed' = {i \in stored' : job'[i].enabled} \ (ran' \cup withdrawn')
<1>1. stored' \subseteq {i \in Ids : job'[i] # NoJob}
  BY DEF IInv, TypeOK
<1> QED BY <1>1, OwedMemory, OwedSaved

\* A step that neither runs, withdraws nor saves a job owes what was owed.
LEMMA OwedUnchanged ==
  ASSUME UNCHANGED <<disk, ran, withdrawn>>
  PROVE  UNCHANGED <<Owed, ran, withdrawn>>
BY DEF Owed

\* Finishing a run of i, scheduled or manual, is the promise's Run(i).
LEMMA FinishJobRuns ==
  ASSUME IInv, FinishJob
  PROVE  Promise!Run(cur)
<1>1. cur \in Ids /\ cur \in added /\ ran' = ran \cup {cur} /\ UNCHANGED <<disk, withdrawn>>
  BY DEF FinishJob, AfterRun, IInv, TypeOK, PassInv, AddedInv
<1>2. cur \in Owed \cup ran \cup withdrawn
  BY OwedMemory DEF IInv, PassInv, KnownInv, FinishJob
<1>3. Owed' = Owed \ {cur}
  BY <1>1 DEF Owed
<1> QED BY <1>1, <1>2, <1>3 DEF Promise!Run

LEMMA RunJobDoneRuns ==
  ASSUME IInv, IInv', NEW i \in Ids, RunJobDone(i)
  PROVE  Promise!Run(i)
<1>1. pc # "down" /\ disk' = SavedOf(job', stored')
  BY DEF RunJobDone, Commit, AtAwait
<1>2. i \in Owed \cup ran \cup withdrawn
  BY <1>1, OwedMemory DEF IInv, KnownInv, RunJobDone
<1>3. job[i] # NoJob
  BY DEF IInv, KnownInv, RunJobDone
<1>4. /\ stored' \subseteq stored /\ stored \ stored' \subseteq {i}
      /\ \A k \in Ids \ {i} : job'[k] = job[k]
      /\ ran' = ran \cup {i} /\ withdrawn' = withdrawn
  BY <1>3, AfterRunEffect DEF IInv, RunJobDone
<1>5. Owed' = Owed \ {i}
  BY <1>1, <1>4, CommitOwed DEF IInv, TypeOK
<1> QED BY <1>2, <1>4, <1>5 DEF Promise!Run

\* Removing or disabling a job, or enabling one with no next run, withdraws it.
LEMMA MutatorWithdraws ==
  ASSUME IInv, IInv', NEW i \in Ids, RemoveJob(i) \/ DisableJob(i) \/ EnableJob(i)
  PROVE  Promise!Withdraw(i) \/ UNCHANGED <<Owed, ran, withdrawn>>
<1>1. pc # "down" /\ disk' = SavedOf(job', stored') /\ i \in stored
  BY DEF RemoveJob, DisableJob, EnableJob, Commit, Call, AtAwait
<1>2. i \in Owed \cup ran \cup withdrawn
  BY <1>1, OwedMemory DEF IInv, KnownInv
<1>3. /\ stored' \subseteq stored /\ stored \ stored' \subseteq {i}
      /\ \A k \in stored \ {i} : job'[k] = job[k]
      /\ ran' = ran
  BY DEF RemoveJob, DisableJob, EnableJob, IInv, TypeOK
<1>4. CASE withdrawn' = withdrawn \cup {i}
  <2>1. Owed' = Owed \ {i}
    BY <1>1, <1>3, <1>4, CommitOwed
  <2> QED BY <1>2, <1>3, <1>4, <2>1 DEF Promise!Withdraw
<1>5. CASE withdrawn' # withdrawn \cup {i}
  <2>1. withdrawn' = withdrawn /\ stored' = stored /\ EnableJob(i)
    BY <1>5 DEF RemoveJob, DisableJob, EnableJob
  <2>2. job'[i].enabled
    BY <2>1 DEF EnableJob, IInv, TypeOK, JobRec
  <2>3. i \in ran \cup withdrawn \/ job[i].enabled
    BY <1>1 DEF IInv, KnownInv
  <2>4. Owed' = Owed
    BY <1>1, <1>3, <2>1, <2>2, <2>3, CommitOwed
  <2> QED BY <1>3, <2>1, <2>4
<1> QED BY <1>4, <1>5

LEMMA AddJobAccepts ==
  ASSUME IInv, IInv', NEW i \in Ids, NEW r \in Requests, AddJob(i, r)
  PROVE  Promise!Accept(i)
<1>1. pc # "down" /\ disk' = SavedOf(job', stored') /\ stored' = stored \cup {i}
  BY DEF AddJob, Commit, Call, AtAwait
<1>2. /\ job'[i].enabled /\ \A k \in Ids \ {i} : job'[k] = job[k]
      /\ UNCHANGED <<ran, withdrawn>>
  BY DEF AddJob, IInv, TypeOK
<1>3. i \notin stored \cup ran \cup withdrawn
  BY DEF AddJob, IInv, AddedInv
<1>4. Owed' = Owed \cup {i}
  BY <1>1, <1>2, <1>3, CommitOwed DEF IInv, TypeOK
<1>5. i \notin Owed
  BY <1>1, <1>3, OwedMemory
<1> QED BY <1>2, <1>3, <1>4, <1>5 DEF Promise!Accept

\* Saving a pass, pruning the file and loading it again change no debt.
LEMMA FileStepsStutter ==
  ASSUME IInv, EndPass \/ PruneDisabled \/ Start
  PROVE  UNCHANGED <<Owed, ran, withdrawn>>
<1>1. CASE EndPass
  <2>1. CASE due = {}
    BY <1>1, <2>1, OwedUnchanged DEF EndPass, hist
  <2>2. CASE due # {}
    <3>1. disk' = SavedOf(job', stored') /\ pc # "down" /\ UNCHANGED <<job, stored, ran, withdrawn>>
      BY <1>1, <2>2 DEF EndPass, hist
    <3>2. Owed' = {i \in stored' : job'[i].enabled} \ (ran' \cup withdrawn')
      BY <3>1, OwedSaved DEF IInv, TypeOK
    <3> QED BY <3>1, <3>2, OwedMemory
  <2> QED BY <2>1, <2>2
<1>2. CASE PruneDisabled
  BY <1>2 DEF PruneDisabled, Owed, hist
<1>3. CASE Start
  <2>1. \A i \in Ids : /\ job'[i] = NoJob <=> disk[i] = NoJob
                       /\ disk[i] # NoJob => job'[i].enabled = disk[i].enabled
    BY <1>3, RecomputedType DEF Start, IInv, TypeOK
  <2>2. \A i \in Ids : disk'[i] = IF disk[i] # NoJob THEN job'[i] ELSE NoJob
    BY <1>3 DEF Start, SavedOf
  <2>3. UNCHANGED <<ran, withdrawn>>
    BY <1>3 DEF Start, hist
  <2> QED BY <2>1, <2>2, <2>3 DEF Owed
<1> QED BY <1>1, <1>2, <1>3

\* Every step of the service is a step of the promise or none.
LEMMA NextRefines ==
  ASSUME IInv, IInv', [Next]_vars
  PROVE  [Promise!Next]_<<Owed, ran, withdrawn>>
<1>1. CASE UNCHANGED vars
  BY <1>1, OwedUnchanged DEF vars
<1>2. CASE Check \/ Leave \/ Plan \/ Wake \/ (\E i \in Ids : StartJob(i) \/ RunJob(i))
           \/ Stop \/ Tick \/ Crash
  <2>1. UNCHANGED <<disk, ran, withdrawn>>
    BY <1>2 DEF Check, Leave, Plan, Wake, StartJob, RunJob, Stop, Tick, Crash, hist
  <2> QED BY <2>1, OwedUnchanged
<1>3. CASE FinishJob
  BY <1>3, FinishJobRuns DEF Promise!Next, FinishJob, IInv, PassInv, TypeOK
<1>4. CASE EndPass \/ PruneDisabled \/ Start
  BY <1>4, FileStepsStutter
<1>5. ASSUME NEW i \in Ids, RemoveJob(i) \/ DisableJob(i) \/ EnableJob(i) \/ RunJobDone(i)
      PROVE  [Promise!Next]_<<Owed, ran, withdrawn>>
  BY <1>5, MutatorWithdraws, RunJobDoneRuns DEF Promise!Next
<1>6. ASSUME NEW i \in Ids, NEW r \in Requests, AddJob(i, r)
      PROVE  [Promise!Next]_<<Owed, ran, withdrawn>>
  BY <1>6, AddJobAccepts DEF Promise!Next
<1> QED BY <1>1, <1>2, <1>3, <1>4, <1>5, <1>6 DEF Next, Scheduler, Callers

\* The service implements the promise: whatever callers, the heartbeat, the
\* clock and crashes do, a job leaves the debt by running or by being withdrawn,
\* and no id is accepted twice.
THEOREM ServiceKeepsPromise == Spec => KeepsPromise
<1>1. Init => Promise!Init
  BY DEF Init, Promise!Init, Owed
<1>2. IInv /\ [Next]_vars => IInv'
  BY NextInv
<1>3. IInv /\ IInv' /\ [Next]_vars => [Promise!Next]_<<Owed, ran, withdrawn>>
  BY NextRefines
<1> QED BY <1>1, <1>2, <1>3, InitInv, PTL DEF Spec, KeepsPromise, Promise!Spec

-----------------------------------------------------------------------------
(***************************************************************************)
(* CronSchedule: the planned run is later than the instant it was planned  *)
(* at as long as the zone never turns its clocks back.  (Where it does,    *)
(* TLC finds the counterexample.)                                          *)
(***************************************************************************)

\* A wall time after the current one is a later instant.
LEMMA LaterWallLaterInstant ==
  ASSUME Before <= After, NEW t \in Nat, NEW w \in Int, w > Wall(t)
  PROVE  ToInstant(w) \in Int /\ ToInstant(w) > t
<1>1. Shift \in Int /\ Before \in Int /\ After \in Int
  BY ZoneAssumption DEF ZoneAssumption
<1>2. CASE t < Shift
  BY <1>1, <1>2 DEF Wall, ToInstant
<1>3. CASE ~(t < Shift)
  BY <1>1, <1>3 DEF Wall, ToInstant
<1> QED BY <1>2, <1>3

\* What the scan accepts lies ahead.
LEMMA ScanAhead ==
  ASSUME NEW e \in Exprs, NEW t \in Nat, NEW w \in Scan(e, t)
  PROVE  w \in Int /\ w > Wall(t)
<1>1. Wall(t) \in Int /\ Limit \in Nat
  BY ZoneAssumption DEF ZoneAssumption, Wall
<1> QED BY <1>1 DEF Scan

\* Every planned run is an instant or none.
LEMMA RunsType ==
  ASSUME NEW e \in Exprs, NEW t \in Nat
  PROVE  Runs(e, t) \subseteq Int \cup {None}
<1>1. \A w \in Int : ToInstant(w) \in Int
  BY ZoneAssumption DEF ZoneAssumption, ToInstant
<1> QED BY <1>1, ScanAhead DEF Runs

\* The clock, the expression and the planned run keep their types.
THEOREM ScheduleTypeCorrect == ScheduleSpec => []ScheduleTypeOK
<1>1. ScheduleInit => ScheduleTypeOK
  BY RunsType DEF ScheduleInit, ScheduleTypeOK
<1>2. ScheduleTypeOK /\ [ScheduleNext]_scheduleVars => ScheduleTypeOK'
  <2> SUFFICES ASSUME ScheduleTypeOK, [ScheduleNext]_scheduleVars PROVE ScheduleTypeOK'
    OBVIOUS
  <2>1. CASE RunDue
    BY <2>1, RunsType DEF RunDue, ScheduleTypeOK
  <2>2. CASE Advance
    BY <2>2 DEF Advance, ScheduleTypeOK
  <2>3. CASE UNCHANGED scheduleVars
    BY <2>3 DEF scheduleVars, ScheduleTypeOK
  <2> QED BY <2>1, <2>2, <2>3 DEF ScheduleNext
<1> QED BY <1>1, <1>2, PTL DEF ScheduleSpec

\* A job that ran is not due again at once, in any zone whose offset only grows:
\* the claim of _cron_next_match's docstring holds without a repeated hour.
THEOREM NextIsLaterForward == Before <= After => (ScheduleSpec => NextIsLater)
<1> SUFFICES ASSUME Before <= After PROVE ScheduleSpec => NextIsLater
  OBVIOUS
<1>1. ScheduleTypeOK /\ [ScheduleNext]_scheduleVars => [RunDue => next' = None \/ next' > instant]_scheduleVars
  <2> SUFFICES ASSUME ScheduleTypeOK, RunDue PROVE next' = None \/ next' > instant
    OBVIOUS
  <2>1. expr \in Exprs /\ instant \in Nat
    BY DEF ScheduleTypeOK
  <2>2. IsNextRun(expr, instant, next')
    BY DEF RunDue
  <2>3. CASE next' # None
    <3>1. PICK w \in Scan(expr, instant) : next' = ToInstant(w)
      BY <2>2, <2>3 DEF IsNextRun
    <3>2. w \in Int /\ w > Wall(instant)
      BY <2>1, <3>1, ScanAhead
    <3> QED BY <2>1, <3>1, <3>2, LaterWallLaterInstant
  <2> QED BY <2>3
<1> QED BY <1>1, ScheduleTypeCorrect, PTL DEF ScheduleSpec, NextIsLater

(* Nothing is passed over *)

\* The zone keeps its offset, or goes one hour forward on the hour.
HourForward ==
  \/ Before = After
  \/ After = Before + Minutes /\ (Shift + Before) % Minutes = 0

LEMMA Division ==
  ASSUME NEW a \in Int
  PROVE  /\ a % Minutes \in 0 .. Minutes - 1 /\ a \div Minutes \in Int
         /\ a = (Minutes * (a \div Minutes)) + (a % Minutes)
BY ZoneAssumption DEF ZoneAssumption

LEMMA Larger ==
  ASSUME NEW p \in Int, NEW q \in Int, p > q
  PROVE  Minutes * p >= Minutes * q + Minutes
BY ZoneAssumption DEF ZoneAssumption

\* Quotient and remainder are determined.
LEMMA OneDivision ==
  ASSUME NEW p \in Int, NEW q \in Int, NEW r \in 0 .. Minutes - 1, NEW s \in 0 .. Minutes - 1,
         Minutes * p + r = Minutes * q + s
  PROVE  p = q /\ r = s
<1>1. r \in Int /\ s \in Int /\ r < Minutes /\ s < Minutes /\ 0 <= r /\ 0 <= s /\ Minutes \in Int
  BY ZoneAssumption DEF ZoneAssumption
<1>2. Minutes * p \in Int /\ Minutes * q \in Int
  BY <1>1
<1>3. ~(p > q)
  <2>1. SUFFICES ASSUME p > q PROVE FALSE
    OBVIOUS
  <2>2. Minutes * p >= Minutes * q + Minutes
    BY <2>1, Larger
  <2> QED BY <2>2, <1>1, <1>2
<1>4. ~(q > p)
  <2>1. SUFFICES ASSUME q > p PROVE FALSE
    OBVIOUS
  <2>2. Minutes * q >= Minutes * p + Minutes
    BY <2>1, Larger
  <2> QED BY <2>2, <1>1, <1>2
<1>5. p = q
  BY <1>3, <1>4
<1> QED BY <1>5, <1>1, <1>2

\* An hour earlier the clock shows the same minute.
LEMMA HourEarlier ==
  ASSUME NEW u \in Int
  PROVE  (u - Minutes) % Minutes = u % Minutes
<1> DEFINE v == u - Minutes
<1>1. Minutes \in Int /\ v \in Int
  BY ZoneAssumption DEF ZoneAssumption
<1>2. /\ u % Minutes \in 0 .. Minutes - 1 /\ u \div Minutes \in Int
      /\ u = (Minutes * (u \div Minutes)) + (u % Minutes)
  BY Division
<1>3. /\ v % Minutes \in 0 .. Minutes - 1 /\ v \div Minutes \in Int
      /\ v = (Minutes * (v \div Minutes)) + (v % Minutes)
  BY <1>1, Division
<1> HIDE DEF v
<1>4. Minutes * (v \div Minutes + 1) = Minutes * (v \div Minutes) + Minutes
  BY <1>1, <1>3
<1>5. u = v + Minutes
  BY <1>1 DEF v
<1>6. Minutes * (v \div Minutes + 1) + (v % Minutes) = (Minutes * (u \div Minutes)) + (u % Minutes)
  BY <1>1, <1>2, <1>3, <1>4, <1>5
<1>7. v \div Minutes + 1 \in Int
  BY <1>3
<1>8. v % Minutes = u % Minutes
  BY <1>2, <1>3, <1>6, <1>7, OneDivision
<1> QED BY <1>8 DEF v

\* All minutes from the start of an hour on, less than an hour later, are of it.
LEMMA SameHour ==
  ASSUME NEW g \in Int, g % Minutes = 0, NEW w \in g .. g + Minutes - 1
  PROVE  w \div Minutes = g \div Minutes
<1>1. Minutes \in Int /\ w \in Int /\ w - g \in 0 .. Minutes - 1
  BY ZoneAssumption DEF ZoneAssumption
<1>2. g \div Minutes \in Int /\ g = (Minutes * (g \div Minutes)) + (g % Minutes)
  BY Division
<1>3. /\ w % Minutes \in 0 .. Minutes - 1 /\ w \div Minutes \in Int
      /\ w = (Minutes * (w \div Minutes)) + (w % Minutes)
  BY <1>1, Division
<1>4. Minutes * (g \div Minutes) + (w - g) = Minutes * (w \div Minutes) + (w % Minutes)
  BY <1>1, <1>2, <1>3
<1> QED BY <1>1, <1>2, <1>3, <1>4, OneDivision

\* Within a skipped hour, what the expression names at u - Minutes is the hour of w
\* at the minute of u.
LEMMA SkippedMatches ==
  ASSUME NEW e \in Exprs, NEW w \in Int, NEW u \in Int, (Shift + Before) % Minutes = 0,
         Matches(e, w), Matches(e, u),
         w \in Shift + Before .. Shift + Before + Minutes - 1,
         u - Minutes \in Shift + Before .. Shift + Before + Minutes - 1
  PROVE  Matches(e, u - Minutes)
<1> DEFINE g == Shift + Before
<1>1. g \in Int
  BY ZoneAssumption DEF ZoneAssumption
<1>2. g % Minutes = 0
  OBVIOUS
<1>3. w \in g .. g + Minutes - 1 /\ u - Minutes \in g .. g + Minutes - 1
  OBVIOUS
<1> HIDE DEF g
<1>4. (u - Minutes) \div Minutes = w \div Minutes
  BY <1>1, <1>2, <1>3, SameHour
<1>5. (u - Minutes) % Minutes = u % Minutes
  BY HourEarlier
<1> QED BY <1>4, <1>5 DEF Matches

\* The instant of the first match after t comes before every instant after t whose
\* wall time matches.
LEMMA FirstMatchFirst ==
  ASSUME HourForward, NEW e \in Exprs, NEW t \in Nat, NEW w \in Scan(e, t),
         \A k \in Scan(e, t) : w <= k,
         NEW s \in Int, s > t, Matches(e, Wall(s))
  PROVE  ToInstant(w) <= s
<1>1. /\ Shift \in Int /\ Before \in Int /\ After \in Int /\ Limit \in Nat
      /\ Minutes \in Nat /\ Minutes > 0
  BY ZoneAssumption DEF ZoneAssumption
<1>2. Before <= After
  BY <1>1 DEF HourForward
<1>3. Wall(t) \in Int /\ Wall(s) \in Int
  BY <1>1 DEF Wall
<1>4. w \in Wall(t) + 1 .. Wall(t) + Limit /\ Matches(e, w)
  BY DEF Scan
<1>5. w \in Int /\ w > Wall(t) /\ w <= Wall(t) + Limit
  BY <1>1, <1>3, <1>4
<1>6. Wall(s) > Wall(t)
  BY <1>1, <1>2 DEF Wall
<1>7. w <= Wall(s)
  <2>1. CASE Wall(s) <= Wall(t) + Limit
    <3>1. Wall(s) \in Scan(e, t)
      BY <1>1, <1>3, <1>6, <2>1 DEF Scan
    <3> QED BY <3>1
  <2>2. CASE ~(Wall(s) <= Wall(t) + Limit)
    BY <1>1, <1>3, <1>5, <2>2
  <2> QED BY <2>1, <2>2
<1>8. CASE ~(Shift + Before <= w /\ w < Shift + After)
  BY <1>1, <1>2, <1>5, <1>7, <1>8 DEF Wall, ToInstant
<1>9. CASE Shift + Before <= w /\ w < Shift + After
  <2>1. After = Before + Minutes /\ (Shift + Before) % Minutes = 0
    BY <1>1, <1>5, <1>9 DEF HourForward
  <2>2. ToInstant(w) = w - Before
    BY <1>1, <1>2, <1>9 DEF ToInstant
  <2>3. t < Shift
    BY <1>1, <1>5, <1>9 DEF Wall
  <2>4. Wall(t) < Shift + Before
    BY <1>1, <2>3 DEF Wall
  <2>5. CASE s < Shift
    BY <1>1, <1>5, <1>7, <2>2, <2>5 DEF Wall
  <2>6. CASE ~(s < Shift)
    <3> DEFINE u == Wall(s)
    <3>1. u = s + Before + Minutes
      BY <1>1, <2>1, <2>6 DEF Wall
    <3>2. SUFFICES ASSUME s < w - Before PROVE FALSE
      BY <1>1, <1>5, <2>2
    <3>3. /\ w \in Shift + Before .. Shift + Before + Minutes - 1
          /\ u - Minutes \in Shift + Before .. Shift + Before + Minutes - 1
          /\ u - Minutes < w
      BY <1>1, <1>5, <1>9, <2>1, <2>6, <3>1, <3>2
    <3>4. u \in Int /\ Matches(e, u)
      BY <1>3
    <3> HIDE DEF u
    <3>5. Matches(e, u - Minutes)
      BY <1>4, <1>5, <2>1, <3>3, <3>4, SkippedMatches
    <3>6. u - Minutes \in Wall(t) + 1 .. Wall(t) + Limit
      BY <1>1, <1>3, <1>5, <2>4, <3>3, <3>4
    <3>7. u - Minutes \in Scan(e, t)
      BY <3>5, <3>6 DEF Scan
    <3> QED BY <1>1, <1>5, <3>3, <3>4, <3>7
  <2> QED BY <2>5, <2>6
<1> QED BY <1>8, <1>9

\* Where the zone keeps its offset or goes one hour forward on the hour, no instant
\* that the expression names is passed over between a run and the next.
THEOREM NothingPassedOver == HourForward => (ScheduleSpec => NoMatchMissed)
<1> SUFFICES ASSUME HourForward PROVE ScheduleSpec => NoMatchMissed
  OBVIOUS
<1> DEFINE Step == RunDue /\ next' # None =>
                     \A t \in instant + 1 .. next' - 1 : ~Matches(expr, Wall(t))
<1>1. ScheduleTypeOK /\ [ScheduleNext]_scheduleVars => [Step]_scheduleVars
  <2> SUFFICES ASSUME ScheduleTypeOK, RunDue, next' # None,
                      NEW t \in instant + 1 .. next' - 1, Matches(expr, Wall(t))
               PROVE  FALSE
    OBVIOUS
  <2>1. expr \in Exprs /\ instant \in Nat
    BY DEF ScheduleTypeOK
  <2>2. PICK w \in Scan(expr, instant) :
          (\A k \in Scan(expr, instant) : w <= k) /\ next' = ToInstant(w)
    BY DEF RunDue, IsNextRun
  <2>3. next' \in Int
    <3>1. \A k \in Int : ToInstant(k) \in Int
      BY ZoneAssumption DEF ZoneAssumption, ToInstant
    <3> QED BY <2>1, <2>2, <3>1, ScanAhead
  <2>4. t \in Int /\ t > instant /\ t < next'
    <3>1. \A a, b \in Int : \A k \in a + 1 .. b - 1 : k \in Int /\ k > a /\ k < b
      OBVIOUS
    <3>2. instant \in Int
      BY <2>1
    <3> QED BY <2>3, <3>1, <3>2
  <2>5. ToInstant(w) <= t
    BY <2>1, <2>2, <2>4, FirstMatchFirst
  <2> QED BY <2>2, <2>3, <2>4, <2>5
<1> QED BY <1>1, ScheduleTypeCorrect, PTL DEF ScheduleSpec, NoMatchMissed
=============================================================================
