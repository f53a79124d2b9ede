\* One connection that carries any kind of request, one listening socket; a read ends
\* at any symbol.
CONSTANTS
    Methods <- MCMethods
    LeadingPieces <- MCLeadingPieces
    Schemas <- MCSchemas
    Hosts <- MCHosts
    Clients = {"c1"}
    Addrs = {"a1"}
    StreamsOf <- MCStreamsOf
    AcceptThreads = 1
    KeepAliveServer = TRUE
    Uris <- MCUris
    Globs <- MCGlobs
    Matches <- MCMatches
    MaxAdmin = 1
SPECIFICATION FairSpec
INVARIANTS RequestIntact AnsweredIff DispatchByHistory
PROPERTIES StopEnds ClientFinished
CHECK_DEADLOCK FALSE
