--------------------------- MODULE MCRouterClient ---------------------------
(* Instances of RouterClient for TLC. *)
EXTENDS RouterClient
=============================================================================
