\* Two clients on threads of their own, and two connections.
CONSTANTS
    Clients = {c1, c2}
    Conns = {k1, k2}
    NoClient = NoClient
    NoConn = NoConn
    MaxRequest = 2
    MaxAliveTime = 1
    Now = 5
    Length = 2
    MaxCalls = 3
    MaxErrors = 1
SPECIFICATION FairSpec
INVARIANTS OneHolder TotalExact RequestSent
PROPERTIES ConnectionServed
CHECK_DEADLOCK FALSE
