----------------------------- MODULE MCBenchmark -----------------------------
(* Bounds of the run on benchmarks that share an image tag and a pair of   *)
(* reports.                                                                *)
EXTENDS Benchmark, TLC

CONSTANTS p1, p2, t1, t2

\* Processes, and trees, differ in nothing but their names; sound for the safety
\* run.
Interchangeable == Permutations(Procs) \cup Permutations(Trees)
=============================================================================
