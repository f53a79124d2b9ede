\* One thread, under fairness: a socket is read with timeouts that may change, and
\* closed; events need not come.
CONSTANTS
    Fibers = {f1, f2}
    Fds = {d1}
    Sockets = {s1}
    Workers = 1
    Calls = {"io", "close", "options"}
    IoKinds = {"READ"}
    MaxTimers = 2
    NoFiber = NoFiber
    NoSocket = NoSocket
    NoFd = NoFd
SPECIFICATION FairSpec
INVARIANTS WaiterReachable TimeoutStillComing
PROPERTIES TimedCallReturns
CHECK_DEADLOCK FALSE
