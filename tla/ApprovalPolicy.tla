--------------------------- MODULE ApprovalPolicy ---------------------------
(***************************************************************************)
(* What the approval gate promises, without threads, turns or timeouts:    *)
(* a tool call is executed only after something allowed it.                *)
(***************************************************************************)
CONSTANTS Requests, Always
VARIABLES allowed, executed

Init == allowed = Always /\ executed = {}

Allow(S) == allowed' = allowed \cup S /\ UNCHANGED executed

Execute(q) ==
  /\ q \in allowed
  /\ executed' = executed \cup {q}
  /\ UNCHANGED allowed

Next == (\E S \in SUBSET Requests : Allow(S)) \/ (\E q \in Requests : Execute(q))

Spec == Init /\ [][Next]_<<allowed, executed>>
=============================================================================
