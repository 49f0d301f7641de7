SPECIFICATION Spec
CONSTANTS
    NoPid = NoPid
    Pids = {p1, p2, p3}
    Callers = {c1}
    Procs = {"main", "pre-start", "post-start", "pre-stop", "post-stop"}
    Task = FALSE
    Respawn = FALSE
    RespawnLimit = 0
    NormalExit = {0}
    Expect = "none"
    KillWorks = TRUE
    PipeFirst = FALSE
SYMMETRY Symmetry
INVARIANTS
    NoAssertionFails
CHECK_DEADLOCK FALSE
