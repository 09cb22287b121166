SPECIFICATION Spec
CONSTANTS
    p1 = p1
    p2 = p2
    d1 = d1
    d2 = d2
    Procs = {p1, p2}
    Daemons = {d1, d2}
    NoDaemon = NoDaemon
    ConcurrentCleanup = TRUE
    Repointing = FALSE
    MaxMeasurements = 2
    MaxFaults = 2
PROPERTIES
    JournalKeptWhileUnsure
CHECK_DEADLOCK TRUE
