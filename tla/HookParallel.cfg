\* Two threads; sockets that are connected, read from and closed, under a descriptor
\* number that is given out again.
CONSTANTS
    Fibers = {f1, f2}
    Fds = {d1}
    Sockets = {s1, s2}
    Workers = 2
    Calls = {"io", "close", "connect", "sleep"}
    IoKinds = {"READ"}
    MaxTimers = 1
    NoFiber = NoFiber
    NoSocket = NoSocket
    NoFd = NoFd
SYMMETRY Symmetry
SPECIFICATION Spec
INVARIANTS TimeoutIsOwn FdCtxFresh ConnectVerdict
CHECK_DEADLOCK FALSE
