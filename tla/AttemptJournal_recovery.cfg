SPECIFICATION FairSpec
CONSTANTS
    p1 = p1
    p2 = p2
    d1 = d1
    d2 = d2
    c1 = c1
    c2 = c2
    Procs = {p1}
    Daemons = {d1, d2}
    Contexts = {c1, c2}
    NoProc = NoProc
    NoDaemon = NoDaemon
    NoContext = NoContext
    Collisions <- NoCollision
    MaxAttempts = 1
    MaxFaults = 3
PROPERTIES
    PendingResolved
CHECK_DEADLOCK TRUE
