CONSTANTS
    a = a
    b = b
    Client = {a, b}
    NoClient = NoClient
    RequestId = {r1, r2}
    Amount = {1}
    ActualCost = {1, 3}
    CapOf <- SameCap
    ClockMayStepBack = TRUE
SPECIFICATION Spec
INVARIANT ReservationsRecoverable
