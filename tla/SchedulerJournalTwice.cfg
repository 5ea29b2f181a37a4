CONSTANTS
    NTasks = 2
    NPasses = 2
    PassOf <- OneThenOne
    EmptyTask = {}
    Failure = {"FAILED"}
    MaxAttempts = 2
    TornWrites = FALSE
    MaxCrashes = 2
    MaxFaults = 0
SPECIFICATION Spec
CHECK_DEADLOCK FALSE
INVARIANT AlwaysResumable
