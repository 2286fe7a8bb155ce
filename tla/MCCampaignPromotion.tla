------------------------- MODULE MCCampaignPromotion -------------------------
(***************************************************************************)
(* CampaignPromotion for TLC: the manifests the runs start from.           *)
(***************************************************************************)
EXTENDS CampaignPromotion

Default == [targets |-> 2, rounds |-> 1, total |-> 0, sameCap |-> 0, heldCap |-> 0,
            skip |-> FALSE, test |-> FALSE, defer |-> FALSE]

\* Two clusters of one round each, without and with the caps; one cluster of two
\* rounds that waives regression and keeps the held-out seeds for the final test; one
\* round with regression for the final test; the waiver alone; no failure at all; one
\* candidate in all, with inconclusive diagnoses left to the operator.
Manifests ==
  {Default,
   [Default EXCEPT !.sameCap = 1, !.heldCap = 1],
   [Default EXCEPT !.targets = 1, !.rounds = 2, !.skip = TRUE, !.test = TRUE],
   [Default EXCEPT !.targets = 1, !.test = TRUE],
   [Default EXCEPT !.targets = 1, !.skip = TRUE],
   [Default EXCEPT !.targets = 0],
   [Default EXCEPT !.total = 1, !.defer = TRUE]}

TwoClusters == {Default}
=============================================================================
