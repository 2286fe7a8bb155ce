--------------------------- MODULE MCWriteProtocol ---------------------------
(* One client with three writes and one with a single reset.               *)
EXTENDS WriteProtocol, TLC

CONSTANTS a, b

MCMaxWrites == (a :> 3) @@ (b :> 1)
=============================================================================
