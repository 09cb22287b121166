SPECIFICATION FairSpec
CONSTANTS
    p1 = p1
    p2 = p2
    NoProc = NoProc
    Procs = {p1}
    MaxParticipantAttempts = 3
    MaxInfrastructureFailures = 3
    MaxTokens = 0
    MaxFaults = 0
INVARIANTS
    HistoryJustifiesRecord
PROPERTIES
    EveryRunEnds
CHECK_DEADLOCK TRUE
