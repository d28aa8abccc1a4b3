----------------------------- MODULE MCGateway -----------------------------
(***************************************************************************)
(* A chat message whose plan has two steps, which miss different secrets   *)
(* and of which the second calls a tool, and a cron prompt that misses the *)
(* secret of the first.  The name A is a part of B.                        *)
(***************************************************************************)
EXTENDS Gateway, TLC

CONSTANTS q1, q2, A, B, t

MCClams ==
  q1 :> <<{[tool |-> None, needs |-> <<A>>]}, {[tool |-> t, needs |-> <<B>>]}>>
    @@ q2 :> <<{[tool |-> None, needs |-> <<A>>]}>>
MCWithin == A :> {A, B} @@ B :> {B}
=============================================================================
