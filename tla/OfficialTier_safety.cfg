SPECIFICATION Spec
CONSTANTS
    p1 = p1
    p2 = p2
    NoProc = NoProc
    Procs = {p1, p2}
    MaxParticipantAttempts = 1
    MaxInfrastructureFailures = 2
    MaxTokens = 2
    MaxFaults = 2
INVARIANTS
    NoAttemptBesidePending
PROPERTIES
    ScoredRunIsClean
    PendingNotHidden
SYMMETRY Interchangeable
CHECK_DEADLOCK TRUE
