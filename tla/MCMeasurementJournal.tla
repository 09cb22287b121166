------------------------ MODULE MCMeasurementJournal ------------------------
(* Bounds of the runs on one evidence directory.                           *)
EXTENDS MeasurementJournal, TLC

CONSTANTS p1, p2, d1, d2

\* Processes differ in nothing but their name; sound for the safety runs.
Interchangeable == Permutations(Procs)
=============================================================================
