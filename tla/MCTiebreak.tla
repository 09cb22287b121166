----------------------------- MODULE MCTiebreak -----------------------------
(* Bounds of the run on the tiebreak measurement.                          *)
EXTENDS Tiebreak
=============================================================================
