----------------------------- MODULE MCFuzzLoop -----------------------------
(* The empty sequence, one of a single command and one of two commands.   *)
EXTENDS FuzzLoop, TLC

CONSTANTS s0, s1, s2

MCLength == (s0 :> 0) @@ (s1 :> 1) @@ (s2 :> 2)
=============================================================================
