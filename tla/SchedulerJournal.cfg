CONSTANTS
    NTasks = 4
    NPasses = 2
    PassOf <- TwoThenTwo
    EmptyTask = {4}
    Failure = {"FAILED", "TRUNCATED", "INCONCLUSIVE"}
    MaxAttempts = 2
    TornWrites = TRUE
    MaxCrashes = 2
    MaxFaults = 1
SPECIFICATION FairSpec
CHECK_DEADLOCK FALSE
INVARIANTS
    TypeOK
    AtMostOneDispatch
    OpenDispatchIsMine
    PassOrder
    SuccessIsUnambiguous
    RefusedOnlyByInterruptedRecovery
PROPERTY
    SealFreezes
    DeadDispatchConcluded
