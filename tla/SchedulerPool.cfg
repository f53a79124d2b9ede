\* The caller's thread and two more; tasks yield READY and schedule each other,
\* some of them for the caller's thread only, while stop() is called.
CONSTANTS
    Workers = {r, w1, w2}
    Root = r
    Tasks = {t1, t2}
    Wakeable = {}
    Repeated = {}
    Affinity = {AnyThread, r}
    MaxYields = 2
    AnyThread = AnyThread
    NoRoot = NoRoot
    NoTask = NoTask
SPECIFICATION FairSpec
INVARIANTS NoAssertionFails StoppingWindow StopDrains
PROPERTIES StopReturns
CHECK_DEADLOCK FALSE
