\* Two clients and one idle thread; the wall clock can be set back, by more
\* than Hour too, so that listExpiredCb meets rollovers.
CONSTANTS
    Timers = {1, 2}
    Threads = {w1}
    Clients = {c1, c2}
    Durations = {1}
    Hour = 1
    MinNow = 1
    StartNow = 3
    MaxNow = 3
    ClockMayStepBack = TRUE
SYMMETRY Symmetry
SPECIFICATION Spec
INVARIANTS IndexConsistent
PROPERTIES FiresOnceOrIsCancelled
CHECK_DEADLOCK FALSE
