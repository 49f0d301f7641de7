SPECIFICATION FairSpec
CONSTANTS
    NoPid = NoPid
    Pids = {p1, p2}
    Callers = {c1}
    Procs = {"main", "pre-start", "post-start", "pre-stop", "post-stop"}
    Task = FALSE
    Respawn = FALSE
    RespawnLimit = 0
    NormalExit = {0}
    Expect = "none"
    KillWorks = TRUE
    PipeFirst = TRUE
PROPERTIES
    StopCompletes
    CallersAnswered
