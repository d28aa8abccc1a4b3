---------------------------- MODULE CronPromise ----------------------------
(***************************************************************************)
(* What the cron service promises about the jobs it accepts, without       *)
(* loops, files or crashes: an accepted job is owed a run until it runs or *)
(* is withdrawn.  A crash of the service is no step here.                  *)
(***************************************************************************)
CONSTANT Ids
VARIABLES owed, ran, withdrawn

Init == owed = {} /\ ran = {} /\ withdrawn = {}

Accept(i) ==
  /\ i \notin owed \cup ran \cup withdrawn
  /\ owed' = owed \cup {i}
  /\ UNCHANGED <<ran, withdrawn>>

\* A job may run again, and may still run once when it was just withdrawn.
Run(i) ==
  /\ i \in owed \cup ran \cup withdrawn
  /\ owed' = owed \ {i}
  /\ ran' = ran \cup {i}
  /\ UNCHANGED withdrawn

Withdraw(i) ==
  /\ i \in owed \cup ran \cup withdrawn
  /\ owed' = owed \ {i}
  /\ withdrawn' = withdrawn \cup {i}
  /\ UNCHANGED ran

Next == \E i \in Ids : Accept(i) \/ Run(i) \/ Withdraw(i)

Spec == Init /\ [][Next]_<<owed, ran, withdrawn>>
=============================================================================
