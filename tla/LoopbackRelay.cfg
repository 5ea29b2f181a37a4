SPECIFICATION FairSpec
CONSTANTS
    MaxConnections = 3
    MaxConcurrent = 2
    MaxDirection = 1
    MaxTotal = 1
    MaxSwaps = 1
INVARIANTS
    TypeOK
    OwnCodeMeansClean
    NoForeignRoute
    LimitsHold
    GroupSwept
PROPERTY
    RunEnds
