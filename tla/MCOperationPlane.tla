------------------------- MODULE MCOperationPlane ---------------------------
(***************************************************************************)
(* OperationPlane for TLC: two resets, so that the episode changes under   *)
(* commands that are late, and one episode of two policy steps.            *)
(***************************************************************************)
EXTENDS OperationPlane, TLC

CONSTANTS r1, r2, e

MCKinds == (r1 :> "reset") @@ (r2 :> "reset") @@ (e :> "episode")
=============================================================================
