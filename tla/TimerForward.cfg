\* Two idle threads, one client, a clock that only moves forward.
CONSTANTS
    Timers = {1, 2}
    Threads = {w1, w2}
    Clients = {c1}
    Durations = {1, 2}
    Hour = 5
    MinNow = 5
    StartNow = 5
    MaxNow = 6
    ClockMayStepBack = FALSE
SYMMETRY Symmetry
SPECIFICATION Spec
INVARIANTS TypeOK NoLostWakeup
PROPERTIES NoEarlyFire
CHECK_DEADLOCK FALSE
