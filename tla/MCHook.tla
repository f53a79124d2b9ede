-------------------------------- MODULE MCHook --------------------------------
(* Hook for TLC: the runs differ only in the values of the constants.         *)
EXTENDS Hook, TLC

Symmetry == Permutations(Fibers) \cup Permutations(Sockets)
=============================================================================
