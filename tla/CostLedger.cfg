CONSTANTS
    a = a
    b = b
    Client = {a, b}
    NoClient = NoClient
    RequestId = {r1, r2}
    Amount = {1, 2}
    ActualCost = {0, 4}
    CapOf <- SameCap
    ClockMayStepBack = FALSE
SPECIFICATION Spec
SYMMETRY Symmetry
INVARIANTS
    TypeOK
    ExposureWithinCap
    OverCapOnlyByOverrun
    HandlesDurable
    ReservationsRecoverable
PROPERTY
    ImplementsAccount
