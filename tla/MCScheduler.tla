---------------------------- MODULE MCScheduler ----------------------------
(* Instances of Scheduler for TLC: the constants are in the configurations. *)
EXTENDS SchedulerRefinement
=============================================================================
