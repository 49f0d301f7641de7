SPECIFICATION
    InputSpec
CHECK_DEADLOCK
    FALSE
CONSTANTS
    NULL = NULL
    RlimitNlimits = 3
    ProcessLast = 2
    Assignments = {"K=v w"}
    Spaced = {"K=v w"}
    IntBits = 12
    MaxTokens = 1
    MaxLines = 1
    MaxAdds = 1
    MaxPieces = 1
INVARIANTS
    AlternateOnlyIfUnset
