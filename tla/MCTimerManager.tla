--------------------------- MODULE MCTimerManager ---------------------------
(* TimerManager for TLC: the runs differ only in the values of the constants. *)
EXTENDS TimerManager, TLC

\* Threads and clients are interchangeable; timers are not (their addresses
\* order the set).
Symmetry == Permutations(Threads) \cup Permutations(Clients)
=============================================================================
