SPECIFICATION FairSpec
CONSTANTS
    NRequests = 2
    NTests = 1
    MaxHttp = 2
    MaxCalls = 1
    MaxHandlers = 1
    Batch <- MCBatch
    EarlyKind = {"malformed"}
INVARIANTS
    TypeOK
    ScopeExact
    ScopeWindow
    CleanStopAccounts
    BudgetHolds
PROPERTIES
    FrozenAfterStop
    CallsReturn
