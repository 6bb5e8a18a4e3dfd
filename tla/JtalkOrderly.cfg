SPECIFICATION FairSpec
CONSTANTS
    c1 = c1
    c2 = c2
    c3 = c3
    Conn = {c1, c2, c3}
    NoConn = NoConn
    ThreadLimit = 2
    MAX_THREADS = 8
    MaxFd = 2
    MaxMsgs = 2
    SockBuf = 1
    Backlog = 2
    Orderly = TRUE
    UninitCid <- ZeroCid
    Faults <- NoFaults
INVARIANTS
    UniqueIds
    ShutdownReachesAll
    NoLeakedFd
PROPERTIES
    KeepsRoom
    ShutdownEnds
    EveryMessageBroadcast
CHECK_DEADLOCK FALSE
