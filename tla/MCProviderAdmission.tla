------------------------ MODULE MCProviderAdmission ------------------------
(* Three callers: requests that cost more than their estimate, requests    *)
(* that fill the budget, and requests too large for it.                    *)
EXTENDS ProviderAdmission, TLC

CONSTANTS a, b, c

MCEstimate == (a :> 1) @@ (b :> 3) @@ (c :> 4)
=============================================================================
