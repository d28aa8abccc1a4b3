----------------------------- MODULE MCChannel -----------------------------
(***************************************************************************)
(* A request with a file that asks for approval and misses a secret, a     *)
(* command, and a message from a denied source.                            *)
(***************************************************************************)
EXTENDS Channel, TLC

CONSTANTS m1, n1, d1, q1

MCAsker == q1 :> m1
MCChunks == [m \in Messages |-> IF m = n1 THEN 2 ELSE 0]
MCPhases == [m \in Messages |-> IF m = m1 THEN 2 ELSE 0]
=============================================================================
