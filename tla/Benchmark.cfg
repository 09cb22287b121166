SPECIFICATION Spec
CONSTANTS
    p1 = p1
    p2 = p2
    Procs = {p1, p2}
    MaxReports = 3
    MaxFaults = 2
    t1 = t1
    t2 = t2
    Trees = {t1, t2}
    None = None
INVARIANTS
    OnePublisher
    UnmarkedPairMatches
    RollbackRestores
    OldPairKept
PROPERTIES
    ReportFromOneTree
    ContainersOneByOne
SYMMETRY Interchangeable
CHECK_DEADLOCK FALSE
