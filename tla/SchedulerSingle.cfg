\* The caller's thread only; tasks wait for events that other threads trigger, and
\* one fiber is scheduled again while it is queued, held or over.
CONSTANTS
    Workers = {r}
    Root = r
    Tasks = {t1, t2, t3}
    Wakeable = {t1, t2}
    Repeated = {t3}
    Affinity = {AnyThread}
    MaxYields = 2
    AnyThread = AnyThread
    NoRoot = NoRoot
    NoTask = NoTask
SPECIFICATION FairSpec
INVARIANTS NoTaskLost StopDrains
PROPERTIES StopReturns
CHECK_DEADLOCK FALSE
