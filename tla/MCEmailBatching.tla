--------------------------- MODULE MCEmailBatching ---------------------------
(* Instances of EmailBatching: emails of one priority.               *)
EXTENDS EmailBatching, TLC

CONSTANTS p1, c1, c2, w1, w2

AllNormal(e) == "normal"
=============================================================================
