SPECIFICATION Spec
CONSTANTS
    p1 = p1
    p2 = p2
    d1 = d1
    d2 = d2
    c1 = c1
    c2 = c2
    Procs = {p1, p2}
    Daemons = {d1, d2}
    Contexts = {c1}
    NoProc = NoProc
    NoDaemon = NoDaemon
    NoContext = NoContext
    Collisions <- OneCollision
    MaxAttempts = 2
    MaxFaults = 2
INVARIANTS
    TypeOK
    JournalCoversResources
    SubmissionAfterCleanup
    SettledResultIsFinal
PROPERTIES
    QuietReturnLeavesNoJournal
    ForeignUntouched
    ImplementsLedger
SYMMETRY Interchangeable
CHECK_DEADLOCK TRUE
