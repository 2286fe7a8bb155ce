----------------------------- MODULE MCEnvPool ------------------------------
(***************************************************************************)
(* EnvPool for TLC: sessions are interchangeable.                          *)
(***************************************************************************)
EXTENDS EnvPool, TLC

Symmetry == Permutations(Sessions)
=============================================================================
