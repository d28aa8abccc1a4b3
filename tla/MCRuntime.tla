------------------------------ MODULE MCRuntime ------------------------------
(***************************************************************************)
(* Two turns, two executions (of one turn or of two) and two approvals.    *)
(* The first script writes a file and the second reads it; plainly         *)
(* allowing the write covers the read, the reverse needs "allow always".   *)
(***************************************************************************)
EXTENDS ClamRuntime

CONSTANTS read, write, t1, t2, r1, r2, a1, a2

MCScripted == [r \in {r1, r2} |-> IF r = r1 THEN {write} ELSE {read}]
MCInferred == [q \in {read, write} |-> IF q = write THEN {read, write} ELSE {q}]
MCOffered  == [q \in {read, write} |-> {read, write}]
=============================================================================
