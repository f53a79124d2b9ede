------------------------------ MODULE MCScheduler ------------------------------
(* Scheduler for TLC: the runs differ only in the values of the constants.    *)
EXTENDS Scheduler
=============================================================================
