---------------------------- MODULE MCScheduler ----------------------------
(* Scheduler for TLC.  Threads are interchangeable, and so are vCPUs.      *)
EXTENDS Scheduler, TLC

Interchangeable == Permutations(Thread) \cup Permutations(VCpu)
=============================================================================
