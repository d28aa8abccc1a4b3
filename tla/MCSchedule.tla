----------------------------- MODULE MCSchedule -----------------------------
(***************************************************************************)
(* A day of three hours of two minutes; every expression over it, those    *)
(* that name no hour standing for dates that never come.                   *)
(***************************************************************************)
EXTENDS CronSchedule

MCExprs == [min : SUBSET (0 .. 1) \ {{}}, hour : SUBSET (0 .. 2)]
=============================================================================
