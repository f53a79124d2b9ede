------------------------------ MODULE MCFdEvents ------------------------------
(* FdEvents for TLC: the runs differ only in the values of the constants.      *)
EXTENDS FdEvents, TLC

Symmetry ==
    Permutations(Callers) \cup Permutations(Pollers) \cup Permutations(Waiters)
=============================================================================
