\* Two threads and one task that waits for events.
CONSTANTS
    Workers = {w1, w2}
    Root = NoRoot
    Tasks = {t1}
    Wakeable = {t1}
    Repeated = {}
    Affinity = {AnyThread}
    MaxYields = 2
    AnyThread = AnyThread
    NoRoot = NoRoot
    NoTask = NoTask
SPECIFICATION Spec
INVARIANTS AddEventAssertion
CHECK_DEADLOCK FALSE
