----------------------------- MODULE MCProvider -----------------------------
(***************************************************************************)
(* Two calls that share the default model and one that names its own.      *)
(* One answers with three tool calls.  Two have their arguments in their  *)
(* deltas alone, the last event of the third repeats them, and its deltas  *)
(* are dropped.  Streams do not touch each other.                          *)
(* The service lists an old codex model, the same with newer ones, a gpt,  *)
(* or nothing that is known.                                               *)
(***************************************************************************)
EXTENDS CodexProvider

CONSTANTS a1, a2, n1, f1, f2, f3

MCResponse == [c \in Calls |-> IF c = a1 THEN Items ELSE {}]

M(family, version, plain) == [family |-> family, version |-> version, plain |-> plain]
MCOffers ==
  { <<M("codex", 1, TRUE)>>,
    <<M("codex", 1, TRUE), M("codex", 2, FALSE), M("gpt", 3, TRUE), M("codex", 2, TRUE)>>,
    <<M("other", 0, TRUE), M("gpt", 3, TRUE), M("gpt", 3, FALSE)>>,
    <<M("other", 9, TRUE)>> }
=============================================================================
