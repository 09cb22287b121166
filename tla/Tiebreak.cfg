SPECIFICATION Spec
CONSTANTS
    Candidates = 3
    TierCount = 2
    Runs = 3
    MaxFailures = 2
    Times = {2}
    Limit = 5
    Resolution = 5
    MaxFaults = 2
INVARIANTS
    PositionsBalanced
    EveryRunAccounted
    RankingJustified
CHECK_DEADLOCK FALSE
