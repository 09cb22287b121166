SPECIFICATION Spec
CONSTANTS
    MaxEpisodes = 4
    MaxSearched = 3
    Ids <- MCIds
    Rows <- MCRows
    AuditedRows <- MCAuditedRows
    Complexity <- MCComplexity
    Artifacts <- MCArtifacts
    Policies <- MCPolicies
    BadPolicies <- MCBadPolicies
    ScoreScale = 4
    Iterations = 5
    Doublings = 4
INVARIANTS
    BestWithinBudget
    LeastPenalty
    EveryIdMoves
    NoFalseAlarm
    IdRouterCaught
    PublicRouterKeepsItsPoints
    ValidatorsAgree
    ScoredAsDecided
CHECK_DEADLOCK FALSE
