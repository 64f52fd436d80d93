--------------------------- MODULE MCSchedulerPool ---------------------------
(***************************************************************************)
(* Instances of the worker pool for TLC.                                   *)
(***************************************************************************)
EXTENDS SchedulerPool, TLC

\* Processes and threads are interchangeable in the safety runs.
Symmetry == Permutations(Proc) \cup Permutations(Thread)
=============================================================================
