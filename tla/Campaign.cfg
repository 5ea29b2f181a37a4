CONSTANTS
    Task <- TwoTasks
    MaxAttempts = 2
    RequestId <- TwoAttempts
    Amount = {1, 2}
    ActualCost = {0, 1, 3}
    Role <- OneAuditor
    RoleOf <- BothAuditor
    CostOf <- UnequalCosts
    TokensOf <- UnitTokens
    LedgerCap = 6
    TotalUsd = 5
    RoleCap <- RoleLimit
    TokenBudget = 3
    MaxRequests = 2
    MaxRuns = 3
SPECIFICATION Spec
CHECK_DEADLOCK FALSE
INVARIANTS
    TypeOK
    OneSender
    SentIsCharged
    CountersAgree
    ScopesRespected
    RetainedUsageExact
    RefusalExplained
