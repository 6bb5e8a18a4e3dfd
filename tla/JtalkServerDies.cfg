SPECIFICATION Spec
CONSTANTS
    c1 = c1
    c2 = c2
    Conn = {c1, c2}
    NoConn = NoConn
    ThreadLimit = 2
    MAX_THREADS = 8
    MaxFd = 2
    MaxMsgs = 2
    SockBuf = 1
    Backlog = 2
    Orderly = FALSE
    UninitCid <- ZeroCid
    Faults <- NoFaults
SYMMETRY Symmetry
INVARIANTS
    ServerSurvives
CHECK_DEADLOCK FALSE
