SPECIFICATION
    PartsSpec
CHECK_DEADLOCK
    FALSE
CONSTANTS
    Limit = 2
    Interval = 3
    MaxTime = 9
    MaxPerSecond = 3
    Jobs = {"service", "end", "abstract"}
    Abstract = {"abstract"}
    SessionEnd = {"end"}
    PreStop = {"end"}
    Hooks <- MCHooks
    KillTimeout <- MCKillTimeout
    DefaultKill = 1
    JobRuntime = 2
    EmitsBefore = FALSE
    MaxClock = 10
    MaxPending = 3
    Runs = 2
    MaxOutput = 2
    MaxSpace = 4
    MaxChanges = 3
    Pids = {1, 2, 3, 4}
    EarlySignals = FALSE
    StoppedDie = FALSE
    NULL = NULL
    RlimitNlimits = 3
    ProcessLast = 2
    Classes = {"A", "B"}
    Own <- MCOwn
    KillTimers = FALSE
    FaultyStages = {"events"}
    MaxGenerations = 2
    Assignments = {"K=v w"}
    Spaced = {"K=v w"}
    IntBits = 12
    MaxTokens = 6
    MaxLines = 2
    MaxAdds = 4
    MaxPieces = 2
INVARIANTS
    AnyIntervalTwiceLimit
    
    EndsInTime
    NothingLost
    RightProcessFollowed
    NoneLeftStopped
    RoundTrip
    HoldersCounted
    FdsSurvive
    AllOrNothing
    OnIsGrammar
    ConditionReadsBack
    LaterLineWins
    TableIsMap
    ExpandsNested
PROPERTIES
    WaitedFor
