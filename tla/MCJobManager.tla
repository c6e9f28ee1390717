---------------------------- MODULE MCJobManager ----------------------------
(* The job manager with a few jobs, mirrors and goroutines.               *)
EXTENDS JobManager, TLC

(* Mirrors and threads are interchangeable, and so are jobs; runs with a   *)
(* liveness property do not use the reduction.                            *)
Symmetry == Permutations(Mirror) \cup Permutations(Thread) \cup Permutations(Job)
=============================================================================
