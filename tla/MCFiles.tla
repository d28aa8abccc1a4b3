------------------------------ MODULE MCFiles ------------------------------
(***************************************************************************)
(* Four saves of two secrets, two of them without the value; two jobs,     *)
(* the gateway and one command; four programs that rewrite config.json.    *)
(***************************************************************************)
EXTENDS SharedFiles, TLC

CONSTANTS A, B, w1, w2, w3, w4, j1, j2, c1, o1, o2, p1, p2, p3, p4, g1

MCNameOf == w1 :> A @@ w2 :> A @@ w3 :> B @@ w4 :> B
MCKind == p1 :> "apiKey" @@ p2 :> "login" @@ p3 :> "gate" @@ p4 :> "think"
=============================================================================
