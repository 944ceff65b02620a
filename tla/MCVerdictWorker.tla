--------------------------- MODULE MCVerdictWorker --------------------------
(***************************************************************************)
(* Workers w1 and w2, each of a group of its own.                          *)
(***************************************************************************)
EXTENDS VerdictWorker

CONSTANTS w1, w2, g1, g2

MCGroupOf == [w \in Worker |-> IF w = w1 THEN g1 ELSE g2]
=============================================================================
