SPECIFICATION Spec
CONSTANTS
    NoPid = NoPid
    Pids = {p1, p2, p3}
    Callers = {c1, c2}
    Procs = {"main", "pre-start", "post-start"}
    Task = FALSE
    Respawn = TRUE
    RespawnLimit = 0
    NormalExit = {0}
    Expect = "readyfd"
    KillWorks = TRUE
    PipeFirst = TRUE
SYMMETRY Symmetry
INVARIANTS
    NoCallerForgotten
PROPERTIES
    StartAnsweredTruthfully
    MainReadyBeforeStarted
