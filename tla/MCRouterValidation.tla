------------------------- MODULE MCRouterValidation -------------------------
(* Instances of RouterValidation for TLC.                                  *)
EXTENDS RouterValidation

\* Peer 1 has two updates to choose from and the better rank.
MCUidOf == <<{1, 2}, {3}>>
MCOutcome == <<{"VALID"}, {"INVALID"}, {"VALID"}>>
MCRank == <<2, 1>>

\* Routes with an undefined result are used, below valid ones.
MCLocalPref == [r \in {"VALID", "INVALID", "UNDEFINED"} |-> IF r = "VALID" THEN 1 ELSE 0]
=============================================================================
