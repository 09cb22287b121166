--------------------------- MODULE MCOfficialTier ---------------------------
(* Bounds of the runs on one output root.                                  *)
EXTENDS OfficialTier, TLC

CONSTANTS p1, p2

\* Evaluators differ in nothing but their name; sound for the safety runs.
Interchangeable == Permutations(Procs)
=============================================================================
