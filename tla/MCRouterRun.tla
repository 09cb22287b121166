---------------------------- MODULE MCRouterRun ----------------------------
(* Bounds of the runs of one child process are in the .cfg files.          *)
EXTENDS RouterRun
=============================================================================
