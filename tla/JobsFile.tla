------------------------------ MODULE JobsFile ------------------------------
(***************************************************************************)
(* jobs.json as a file that several programs rewrite from memory: the      *)
(* gateway's cron service (cron/service.py), the heartbeat's pruning       *)
(* (workspace/cleanup.py) and the clambot cron commands (cli/commands.py), *)
(* each of which is a process with a cron service of its own.  CronService *)
(* is about schedules; here a job is there or not, enabled or disabled.    *)
(***************************************************************************)
EXTENDS Naturals

CONSTANTS
  Jobs,
  JobCommands, \* runs of clambot cron add, remove, enable, disable
  MaxUses,  \* bound: calls of the gateway's API, of executed jobs, restarts
  MaxBreaks, \* bound: how often the file becomes unparsable, and saves that fail
  Unread

ASSUME JobsAssumption == MaxUses \in Nat /\ MaxBreaks \in Nat

\* The jobs of a store: enabled or not.
Stores == UNION {[J -> BOOLEAN] : J \in SUBSET Jobs}
NoJobs == [j \in {} |-> TRUE]

ASSUME UnreadAssumption == Unread \notin Stores

VARIABLES
  jobs,     \* the jobs in jobs.json
  parsable, \* it can be parsed
  known,    \* the gateway's jobs, or Unread while it is down
  pruning,  \* the jobs the pruning is about to write, or Unread
  theirs,   \* command -> the jobs it read, or Unread
  command,  \* command -> where it is
  uses, breaks \* how many there were

jobVars == <<jobs, parsable, known, pruning, theirs, command, uses, breaks>>

\* What a program may do to one job: add it; remove, enable or disable it.
With(s, j, enabled) == [i \in DOMAIN s \cup {j} |-> IF i = j THEN enabled ELSE s[i]]
Without(s, j)       == [i \in DOMAIN s \ {j} |-> s[i]]
Changed(s, j) ==
  IF j \in DOMAIN s THEN {Without(s, j)} \cup {With(s, j, e) : e \in BOOLEAN}
  ELSE {With(s, j, TRUE)}

\* load_cron_store: a file that cannot be parsed is an empty one.
Parsed == IF parsable THEN jobs ELSE NoJobs
\* save_cron_store: a temporary file, and a rename.
Saved(s) == jobs' = s /\ parsable' = TRUE
Use == uses < MaxUses /\ uses' = uses + 1
Break == breaks < MaxBreaks /\ breaks' = breaks + 1

-----------------------------------------------------------------------------
(* The gateway: one event loop, so that nothing of it runs while it prunes. *)

Running == known # Unread /\ pruning = Unread

\* start: what was loaded is saved at once.
StartGateway ==
  /\ known = Unread /\ Use
  /\ known' = Parsed /\ Saved(Parsed)
  /\ UNCHANGED <<pruning, theirs, command, breaks>>

\* add_job, remove_job, enable_job, disable_job; and what is left of a job that
\* was executed, which the end of its pass saves.
Change(j) ==
  /\ Running /\ Use
  /\ \E s \in Changed(known, j) : known' = s /\ Saved(s)
  /\ UNCHANGED <<pruning, theirs, command, breaks>>

\* Mutant: the file is written in place.
ChangeTorn(j) ==
  /\ Running /\ Break
  /\ known' \in Changed(known, j) /\ parsable' = FALSE
  /\ UNCHANGED <<jobs, pruning, theirs, command, uses>>

\* The save raises: the memory has changed, and the file has not.
ChangeUnsaved(j) ==
  /\ Running /\ Break
  /\ known' \in Changed(known, j)
  /\ UNCHANGED <<jobs, parsable, pruning, theirs, command, uses>>

\* A pass that executed a job saves them all, changed or not.
SaveAll ==
  /\ Running /\ Saved(known)
  /\ \E j \in DOMAIN known : known[j]
  /\ UNCHANGED <<known, pruning, theirs, command, uses, breaks>>

StopGateway ==
  /\ Running /\ known' = Unread
  /\ UNCHANGED <<jobs, parsable, pruning, theirs, command, uses, breaks>>

\* _prune_disabled_cron_jobs, in the heartbeat: the disabled jobs are to leave
\* the file, which write_text empties ...
Prune ==
  /\ Running /\ parsable
  /\ \E j \in DOMAIN jobs : ~jobs[j]
  /\ pruning' = [j \in {i \in DOMAIN jobs : jobs[i]} |-> TRUE]
  /\ parsable' = FALSE
  /\ UNCHANGED <<jobs, known, theirs, command, uses, breaks>>

\* ... and writes.  A file that was renamed over it meanwhile is not touched.
\* The service is told nothing.
PruneWrites ==
  /\ pruning # Unread
  /\ IF parsable THEN UNCHANGED <<jobs, parsable>> ELSE Saved(pruning)
  /\ pruning' = Unread
  /\ UNCHANGED <<known, theirs, command, uses, breaks>>

\* The gateway is killed in between.
PruneDies ==
  /\ pruning # Unread /\ Break
  /\ pruning' = Unread /\ known' = Unread
  /\ UNCHANGED <<jobs, parsable, theirs, command, uses>>

-----------------------------------------------------------------------------
(* clambot cron ... *)

Steps(c, from, to) == command[c] = from /\ command' = [command EXCEPT ![c] = to]

\* service.start() loads ...
CommandLoads(c) ==
  /\ Steps(c, "idle", "loaded")
  /\ theirs' = [theirs EXCEPT ![c] = Parsed]
  /\ UNCHANGED <<jobs, parsable, known, pruning, uses, breaks>>

\* ... and saves,
CommandStarts(c) ==
  /\ Steps(c, "loaded", "started")
  /\ Saved(theirs[c])
  /\ UNCHANGED <<known, pruning, theirs, uses, breaks>>

\* then the job is added, removed, enabled or disabled, and all are saved again,
CommandEnds(c, j) ==
  /\ Steps(c, "started", "idle")
  /\ \E s \in Changed(theirs[c], j) : Saved(s)
  /\ theirs' = [theirs EXCEPT ![c] = Unread]
  /\ UNCHANGED <<known, pruning, uses, breaks>>

\* or no such job is found, or the command dies.
CommandMisses(c) ==
  /\ Steps(c, "started", "idle")
  /\ theirs' = [theirs EXCEPT ![c] = Unread]
  /\ UNCHANGED <<jobs, parsable, known, pruning, uses, breaks>>

\* Somebody edits it by hand, and not well.
Garble ==
  /\ parsable /\ pruning = Unread /\ Break
  /\ parsable' = FALSE
  /\ UNCHANGED <<jobs, known, pruning, theirs, command, uses>>

JobsInit ==
  /\ jobs = NoJobs /\ parsable = TRUE
  /\ known = Unread /\ pruning = Unread
  /\ theirs = [c \in JobCommands |-> Unread]
  /\ command = [c \in JobCommands |-> "idle"]
  /\ uses = 0 /\ breaks = 0

JobsNext ==
  \/ StartGateway \/ SaveAll \/ StopGateway
  \/ Prune \/ PruneWrites \/ PruneDies \/ Garble
  \/ \E j \in Jobs : Change(j) \/ ChangeUnsaved(j)
  \/ \E c \in JobCommands : CommandLoads(c) \/ CommandStarts(c) \/ CommandMisses(c)
  \/ \E c \in JobCommands, j \in Jobs : CommandEnds(c, j)

JobsSpec == JobsInit /\ [][JobsNext]_jobVars

-----------------------------------------------------------------------------
\* The file says it, or will when it is written, and so will everyone who has
\* the jobs in memory.
Enabled(s, j) == j \in DOMAIN s /\ s[j]
Shared(j) ==
  /\ parsable => Enabled(jobs, j)
  /\ pruning = Unread => parsable
  /\ \A s \in {known, pruning} \cup {theirs[c] : c \in JobCommands} : s # Unread => Enabled(s, j)

\* Somebody meant this job.
Meant(j) == Change(j) \/ ChangeUnsaved(j) \/ \E c \in JobCommands : CommandEnds(c, j)

\* Somebody reads, or leaves, the emptied file.
Unlucky == PruneDies \/ (~parsable /\ \E c \in JobCommands : CommandLoads(c))

\* A job that the file and everyone about to write it have, enabled, is lost by
\* nobody who did not mean it: not by a restart, a failed save, the pruning, or a
\* command about another job.  A job somebody has not seen, one that is disabled,
\* and any job of a file that does not parse can be lost (store.py:137, 142;
\* service.py:96-102; cleanup.py:143).
JobsStay ==
  [][\A j \in Jobs : Shared(j) => Shared(j)' \/ Meant(j) \/ Garble \/ Unlucky]_jobVars
=============================================================================
