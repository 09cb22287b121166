SPECIFICATION Spec
CONSTANTS
    p1 = p1
    p2 = p2
    NoProc = NoProc
    Procs = {p1}
    MaxParticipantAttempts = 2
    MaxInfrastructureFailures = 2
    MaxTokens = 1
    MaxFaults = 1
PROPERTIES
    PendingDetailKept
CHECK_DEADLOCK TRUE
