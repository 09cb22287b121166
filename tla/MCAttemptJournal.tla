------------------------- MODULE MCAttemptJournal -------------------------
(* Bounds of the runs on one output directory.                             *)
EXTENDS AttemptJournal, TLC

CONSTANTS p1, p2, d1, d2, c1, c2

\* No name taken, or one name of the first attempt taken on the first daemon.
OneCollision == {{}} \cup {{<<d1, 1, r>>} : r \in Roles}

NoCollision == {{}}

\* Processes differ in nothing but their name; sound for the safety runs.
Interchangeable == Permutations(Procs)
=============================================================================
