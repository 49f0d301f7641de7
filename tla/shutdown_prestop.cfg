SPECIFICATION
    SessionSpec
CHECK_DEADLOCK
    FALSE
CONSTANTS
    Jobs = {"service", "end", "abstract"}
    Abstract = {"abstract"}
    SessionEnd = {"end"}
    PreStop = {"service"}
    Hooks <- MCHooks
    KillTimeout <- MCKillTimeout
    DefaultKill = 1
    JobRuntime = 2
    EmitsBefore = FALSE
    MaxClock = 10
    MaxPending = 3
INVARIANT
    RunningSignalled
