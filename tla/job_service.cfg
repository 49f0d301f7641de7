SPECIFICATION Spec
CONSTANTS
    NoPid = NoPid
    Pids = {p1, p2, p3}
    Callers = {c1}
    Procs = {"main", "pre-start", "post-start", "pre-stop", "post-stop", "security"}
    Task = FALSE
    Respawn = TRUE
    RespawnLimit = 1
    NormalExit = {0}
    Expect = "stop"
    KillWorks = TRUE
    PipeFirst = TRUE
SYMMETRY Symmetry
INVARIANTS
    TypeOK
    NoAssertionFails
    NoProcessLost
    StoppingResultStands
    PostStopAfterMain
PROPERTIES
    StopAnsweredWhenStopped
    EventOrder
    FollowsDiagram
