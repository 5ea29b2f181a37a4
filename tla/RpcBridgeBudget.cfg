SPECIFICATION Spec
CONSTANTS
    NRequests = 2
    NTests = 1
    MaxHttp = 1
    MaxCalls = 1
    MaxHandlers = 1
    Batch <- MCBatch
    EarlyKind = {"malformed"}
INVARIANT
    HttpBudgetSaturates
