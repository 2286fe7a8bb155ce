------------------------- MODULE MCInferenceService -------------------------
(***************************************************************************)
(* Three requests of one application: two of one session that share a      *)
(* bucket, and an urgent one of another session in another bucket.         *)
(***************************************************************************)
EXTENDS InferenceService

CONSTANTS r1, r2, r3

MCKeyOf == [r \in Requests |-> IF r = r3 THEN "k2" ELSE "k1"]
MCSessionOf == [r \in Requests |-> IF r = r3 THEN "s2" ELSE "s1"]
MCAppOf == [r \in Requests |-> "a"]
MCRank == [r \in Requests |-> IF r = r3 THEN 0 ELSE 1]

=============================================================================
