------------------------------ MODULE MCAgent ------------------------------
(***************************************************************************)
(* A chat message that may become a plan and the message of a cron job,    *)
(* whose clams get the same name.                                          *)
(***************************************************************************)
EXTENDS AgentLoop, TLC

CONSTANTS t1, t2

MCSteps == t1 :> 2 @@ t2 :> 0
=============================================================================
