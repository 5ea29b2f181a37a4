SPECIFICATION FairSpec
CONSTANTS
    MaxConnections = 1
    MaxConcurrent = 1
    MaxDirection = 1
    MaxTotal = 1
    MaxSwaps = 0
PROPERTY SignalEnds
