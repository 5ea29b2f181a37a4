CONSTANTS
    a = a
    b = b
    Client = {a, b}
    NoClient = NoClient
    RequestId = {r1}
    Amount = {2}
    ActualCost = {1, 3}
    CapOf <- OtherCap
    ClockMayStepBack = FALSE
SPECIFICATION FairSpec
PROPERTY
    CallsEnd
