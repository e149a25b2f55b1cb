---------------------------- MODULE MCScheduler ----------------------------
(* Model values and symmetry for the runs of Scheduler. *)
EXTENDS Scheduler, TLC

\* Threads are interchangeable: no definition tells one from another.
ThreadSymmetry == Permutations(Thread)

=============================================================================
