SPECIFICATION
    ReexecSpec
CHECK_DEADLOCK
    FALSE
CONSTANTS
    NULL = NULL
    RlimitNlimits = 3
    ProcessLast = 2
    Classes = {"A", "B"}
    Own <- MCOwn
    KillTimers = TRUE
    FaultyStages = {}
    MaxGenerations = 1
INVARIANTS
    NoAbort
