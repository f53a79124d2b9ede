\* Two descriptors, of which the second is closed behind the IOManager's back, two
\* callers and two pollers.
CONSTANTS
    Fds = {f1, f2}
    Callers = {c1, c2}
    Pollers = {p1, p2}
    Waiters = {k1, k2, k3}
    Closable = {f2}
    HangUps = TRUE
    NoFd = NoFd
    NoWaiter = NoWaiter
SYMMETRY Symmetry
SPECIFICATION Spec
INVARIANTS ContextsInSync PendingExact WaiterReachable
PROPERTIES OneOutcome
CHECK_DEADLOCK FALSE
