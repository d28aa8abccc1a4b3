------------------------------ MODULE MCSession ------------------------------
(***************************************************************************)
(* Two exchanges, the re-queued copy of the first, one /new command and,   *)
(* where Past is not empty, a session file with a legacy name.             *)
(***************************************************************************)
EXTENDS Session, TLC

CONSTANTS m1, m2, r1, n1, p1

MCCopyOf == r1 :> m1
=============================================================================
