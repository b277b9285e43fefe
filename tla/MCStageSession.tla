---------------------------- MODULE MCStageSession ----------------------------
(***************************************************************************)
(* Two sessions and a Run that are given one id, and a Run of its own.     *)
(***************************************************************************)
EXTENDS StageSession, TLC

CONSTANTS r1, r2, s1, s2, a, b

Ids == (r1 :> a) @@ (r2 :> b) @@ (s1 :> a) @@ (s2 :> a)
===============================================================================
