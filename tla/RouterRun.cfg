SPECIFICATION FairSpec
CONSTANTS
    PipeCapacity = 2
    Chunk = 1
    FinalRounds = 2
    EmitLimit = 1
    RunTicks = 1
    GraceTicks = 1
    ReapTicks = 1
INVARIANTS
    EmissionCounted
    ValidOutputIsOwn
    NoChildLeft
PROPERTIES
    RunEnds
CHECK_DEADLOCK FALSE
