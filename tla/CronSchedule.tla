---------------------------- MODULE CronSchedule ----------------------------
(***************************************************************************)
(* Cron expressions in a time zone that changes its offset once            *)
(* (cron/schedule.py), driven by the scheduler: whenever the job is due it *)
(* is run and its next run is computed from the current instant.           *)
(*                                                                         *)
(* _cron_next_match steps an aware datetime minute by minute.  Python does *)
(* that arithmetic on the wall clock and forgets which pass of a repeated  *)
(* hour it is in (fold), so the scan is over wall times and the match is   *)
(* turned back into an instant as if it were the first pass.               *)
(***************************************************************************)
EXTENDS Integers

CONSTANTS
  Minutes,   \* minutes of an hour (60)
  Hours,     \* hours of a day (24)
  Limit,     \* how many minutes the scan looks ahead (four years)
  Exprs,     \* cron expressions: the minutes and the hours they name
  Shift,     \* the instant at which the zone changes its offset
  Before, After, \* the offset before and after it, in minutes
  None,      \* no next run
  LastInstant \* bound: the clock stops here

ASSUME ZoneAssumption ==
  /\ Minutes \in Nat \ {0} /\ Hours \in Nat \ {0} /\ Limit \in Nat
  /\ Exprs \subseteq [min : SUBSET (0 .. Minutes - 1), hour : SUBSET (0 .. Hours - 1)]
  /\ Shift \in Int /\ Before \in Int /\ After \in Int
  /\ None \notin Int /\ LastInstant \in Nat

VARIABLES
  instant, \* the current instant, in minutes
  expr,    \* the job's expression
  next     \* state.next_run_at_ms

scheduleVars == <<instant, expr, next>>

\* datetime.fromtimestamp(t, tz), without its fold.
Wall(t) == IF t < Shift THEN t + Before ELSE t + After

\* datetime.timestamp() of a wall time with fold = 0: a wall time that occurs
\* twice is its first occurrence, one that never occurs uses the old offset.
ToInstant(w) ==
  LET newFrom == Shift + (IF Before > After THEN Before ELSE After)
  IN  IF w < newFrom THEN w - Before ELSE w - After

\* The expanded fields of e name the wall time w.
Matches(e, w) == w % Minutes \in e.min /\ (w \div Minutes) % Hours \in e.hour

\* Mutant: the scan starts at the current minute.
ScanFromNow(e, t) == {w \in Wall(t) .. Wall(t) + Limit : Matches(e, w)}

\* Mutant: the scan starts one minute late.
ScanLate(e, t) == {w \in Wall(t) + 2 .. Wall(t) + Limit : Matches(e, w)}

\* The wall times the scan of _cron_next_match accepts, from the next minute on.
Scan(e, t) == {w \in Wall(t) + 1 .. Wall(t) + Limit : Matches(e, w)}

\* calculate_next_run_ms for a cron schedule: r is the run that follows t.
\* No match within the limit raises ValueError, which becomes None.
IsNextRun(e, t, r) ==
  \/ Scan(e, t) = {} /\ r = None
  \/ \E w \in Scan(e, t) :
       /\ \A k \in Scan(e, t) : w <= k
       /\ r = ToInstant(w)

\* The instants IsNextRun ranges over.
Runs(e, t) == {None} \cup {ToInstant(w) : w \in Scan(e, t)}

\* The scheduler finds the job due, runs it and plans its next run.
RunDue ==
  /\ next # None /\ next <= instant
  /\ \E r \in Runs(expr, instant) : IsNextRun(expr, instant, r) /\ next' = r
  /\ UNCHANGED <<instant, expr>>

Advance ==
  /\ instant < LastInstant
  /\ instant' = instant + 1
  /\ UNCHANGED <<expr, next>>

\* The job has just been added.
ScheduleInit ==
  /\ instant = 0
  /\ expr \in Exprs
  /\ next \in Runs(expr, 0)
  /\ IsNextRun(expr, 0, next)

ScheduleNext == RunDue \/ Advance

ScheduleSpec == ScheduleInit /\ [][ScheduleNext]_scheduleVars

-----------------------------------------------------------------------------
ScheduleTypeOK == instant \in Nat /\ expr \in Exprs /\ next \in Int \cup {None}

\* schedule.py:90: the next match is after the instant it is computed from, so
\* a job that ran is not due again at once.
NextIsLater == [][RunDue => next' = None \/ next' > instant]_scheduleVars

\* No instant the expression names is passed over between two planned runs, not
\* even when a whole hour is skipped (the run named in it moves an hour later).
NoMatchMissed ==
  [][RunDue /\ next' # None => \A t \in instant + 1 .. next' - 1 : ~Matches(expr, Wall(t))]_scheduleVars
=============================================================================
