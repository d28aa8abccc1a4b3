------------------------------- MODULE MCCron -------------------------------
(***************************************************************************)
(* A small instance of CronService: two jobs, a clock of three instants,   *)
(* one death of the gateway and four API calls.                            *)
(***************************************************************************)
EXTENDS CronService

CONSTANTS j1, j2

\* A one-shot kept after its run, an interval deleted after its run, and a cron
\* expression that stops matching.
MCRequests ==
  {[sched |-> [kind |-> "at", at |-> 1], del |-> FALSE],
   [sched |-> [kind |-> "every", every |-> 1], del |-> TRUE],
   [sched |-> [kind |-> "cron", ticks |-> {1, 2}], del |-> FALSE]}
=============================================================================
