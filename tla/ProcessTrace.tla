---------------------------- MODULE ProcessTrace ----------------------------
(***************************************************************************)
(* expect fork and expect daemon: init follows the main process with       *)
(* ptrace until it has forked once or twice, in job_process_handler() and  *)
(* the job_process_trace functions.                                        *)
(*                                                                         *)
(* A traced process that forks stops until init lets it go, and so does    *)
(* its child before its first instruction.  wait() reports the two stops   *)
(* in any order, and each report once.  The kernel's side of ptrace is     *)
(* written down as far as these functions rely on it.                      *)
(***************************************************************************)
EXTENDS Naturals

CONSTANTS
    Pids,           \* bound: the processes are numbered from 1
    EarlySignals,   \* signals may reach a process before init follows it
    StoppedDie      \* a process may be killed while it is stopped for init

ASSUME MainAssumption == 1 \in Pids

VARIABLES
    followed,       \* the job: expect, state, pid[PROCESS_MAIN], trace_state, trace_forks
    procs           \* what the kernel knows of each process

traceVars == <<followed, procs>>

Unused == [life |-> "none", traced |-> FALSE, options |-> FALSE, report |-> "none",
           child |-> 0, forks |-> 0, execs |-> 0]

\* Lets a stopped process run; a report of the stop that nobody has read is gone.
Released(ps, p) == [ps EXCEPT ![p].life = "runs", ![p].report = "none"]

Detached(ps, p) ==
    IF ps[p].life # "stopped" THEN ps
    ELSE [Released(ps, p) EXCEPT ![p].traced = FALSE, ![p].options = FALSE]

Continued(ps, p) == IF ps[p].life # "stopped" THEN ps ELSE Released(ps, p)

\* ptrace works on a process only while it is stopped.
MayTrace(ps, p) == ps[p].life = "stopped" /\ ps[p].traced

-----------------------------------------------------------------------------
(* Operators on s = [job, procs] *)

State(j, ps) == [job |-> j, procs |-> ps]

\* The job leaves spawned.
Moved(s) == State([s.job EXCEPT !.trace = "none", !.state = "running"], s.procs)

TraceNew(s) ==
    LET p == s.job.pid
    IN IF s.job.state # "spawned" \/ ~MayTrace(s.procs, p) THEN s
       ELSE State([s.job EXCEPT !.trace = "normal"],
                  Continued([s.procs EXCEPT ![p].options = TRUE], p))

\* Mutant of EnoughForks: one fork is always enough.
EnoughForks_One(j) == j.forks >= 1

EnoughForks(j) == j.forks > 1 \/ j.expect = "fork"

\* job_process_trace_new_child: the trace ends with the fork that was expected.
TraceNewChild(s) ==
    LET t == State([s.job EXCEPT !.forks = @ + 1], s.procs)
    IN IF s.job.state # "spawned" THEN s
       ELSE IF EnoughForks(t.job) THEN Moved(State(t.job, Detached(t.procs, t.job.pid)))
       ELSE TraceNew(t)

TraceSignal(s) ==
    IF s.job.state # "spawned" \/ s.job.trace # "normal" THEN s
    ELSE State(s.job, Continued(s.procs, s.job.pid))

\* Mutant of TraceFork: the child's report is waited for even if it was read.
TraceFork_Waits(s) ==
    LET p == s.job.pid
        c == s.procs[p].child
    IN IF s.job.state # "spawned" \/ s.job.trace # "normal" \/ ~MayTrace(s.procs, p) THEN s
       ELSE State([s.job EXCEPT !.pid = c, !.trace = "new child"], Detached(s.procs, p))

\* job_process_trace_fork: the parent goes its way and init follows the child.  If
\* ptrace works on the child, its stop may have been reported already.
TraceFork(s) ==
    LET p == s.job.pid
        c == s.procs[p].child
        t == State([s.job EXCEPT !.pid = c, !.trace = "new child"], Detached(s.procs, p))
    IN IF s.job.state # "spawned" \/ s.job.trace # "normal" \/ ~MayTrace(s.procs, p) THEN s
       ELSE IF ~MayTrace(t.procs, c) THEN t
       ELSE TraceNewChild(State(t.job, [t.procs EXCEPT ![c].options = FALSE]))

\* job_process_trace_exec: a process that executes another program after a fork
\* has forked enough.
TraceExec(s) ==
    IF s.job.state # "spawned" \/ s.job.trace # "normal" THEN s
    ELSE IF s.job.forks > 0 THEN Moved(State(s.job, Detached(s.procs, s.job.pid)))
    ELSE State(s.job, Continued(s.procs, s.job.pid))

\* job_process_terminated, as far as it concerns the trace.
MainTerminated(s) == State([s.job EXCEPT !.state = "ended", !.trace = "none"], s.procs)

\* job_process_handler for one report of wait(); those of other processes are
\* ignored.
Handler(p) ==
    LET report == procs[p].report
        s == State(followed,
                   [procs EXCEPT ![p].report = "none",
                                 ![p].life = IF report = "exit" THEN "reaped" ELSE @])
        t == IF p # followed.pid \/ followed.state = "ended" THEN s
             ELSE CASE report = "exit" -> MainTerminated(s)
                    [] report = "trap" /\ followed.trace = "new" -> TraceNew(s)
                    [] report = "stop" /\ followed.trace = "new child" -> TraceNewChild(s)
                    [] report \in {"trap", "stop", "signal"}
                       /\ ~(report = "trap" /\ followed.trace = "new")
                       /\ ~(report = "stop" /\ followed.trace = "new child") -> TraceSignal(s)
                    [] report = "fork" -> TraceFork(s)
                    [] report = "exec" -> TraceExec(s)
    IN /\ report # "none"
       /\ followed' = t.job
       /\ procs' = t.procs

-----------------------------------------------------------------------------
(* The processes *)

Stops(p, report) == [procs EXCEPT ![p].life = "stopped", ![p].report = report]

\* The first exec, with which the set-up of the main process ends: a plain trap.
FirstExec(p) ==
    /\ procs[p].life = "setup"
    /\ procs' = Stops(p, "trap")
    /\ UNCHANGED followed

\* A process forks.  If it is traced both stop, the child as soon as it exists.
Fork(p) ==
    /\ procs[p].life = "runs"
    /\ procs[p].forks < 2
    /\ \E c \in Pids :
         /\ procs[c].life = "none"
         /\ \A q \in Pids : q < c => procs[q].life # "none"
         /\ LET traced == procs[p].traced
                parent == IF traced THEN [procs[p] EXCEPT !.life = "stopped", !.report = "fork",
                                                          !.child = c]
                          ELSE procs[p]
            IN procs' = [procs EXCEPT ![p] = parent,
                                      ![c] = [Unused EXCEPT !.life = IF traced THEN "new" ELSE "runs",
                                                            !.traced = traced,
                                                            !.options = procs[p].options,
                                                            !.forks = procs[p].forks + 1]]
    /\ UNCHANGED followed

\* The new child meets the stop that the trace gave it.
NewStops(p) ==
    /\ procs[p].life = "new"
    /\ procs' = Stops(p, "stop")
    /\ UNCHANGED followed

Exec(p) ==
    /\ procs[p].life = "runs"
    /\ procs[p].execs < 1
    /\ procs' = [IF procs[p].options THEN Stops(p, "exec") ELSE procs EXCEPT ![p].execs = @ + 1]
    /\ UNCHANGED followed

\* A signal that the process survives; the trace turns it into a stop.
Signal(p) ==
    /\ procs[p].traced
    /\ procs[p].life \in {"runs"} \cup (IF EarlySignals THEN {"setup", "new"} ELSE {})
    /\ procs' = Stops(p, "signal")
    /\ UNCHANGED followed

\* A process ends; init, the tracer or, in the end, the parent of orphans, is told.
Exit(p) ==
    /\ procs[p].life \in {"setup", "runs"} \cup (IF StoppedDie THEN {"stopped"} ELSE {})
    /\ procs' = [procs EXCEPT ![p].life = "dead", ![p].report = "exit"]
    /\ UNCHANGED followed

TraceInit ==
    /\ followed \in [expect : {"fork", "daemon"}, state : {"spawned"}, pid : {1}, trace : {"new"}, forks : {0}]
    /\ procs = [p \in Pids |-> IF p = 1 THEN [Unused EXCEPT !.life = "setup", !.traced = TRUE]
                               ELSE Unused]

TraceNext ==
    \E p \in Pids :
        \/ Handler(p) \/ FirstExec(p) \/ Fork(p) \/ NewStops(p) \/ Exec(p) \/ Signal(p) \/ Exit(p)

TraceSpec == TraceInit /\ [][TraceNext]_traceVars

-----------------------------------------------------------------------------
\* When the job leaves spawned, its process is the one that made the last of the
\* expected forks, or executed another program after one, and it runs free.
RightProcessFollowed ==
    followed.state = "running" =>
        LET p == procs[followed.pid]
        IN /\ p.forks = (IF followed.expect = "fork" THEN 1 ELSE 2) \/ (p.forks = 1 /\ p.execs > 0)
           /\ ~p.traced
           /\ p.life # "stopped"

\* No process is left stopped: init has still to read of its stop, or of the fork
\* that made it, whichever report comes first and whatever signals come between.
NoneLeftStopped ==
    \A p \in Pids :
        procs[p].life = "stopped" =>
            \/ p = followed.pid /\ procs[p].report # "none"
            \/ procs[followed.pid].child = p /\ procs[followed.pid].report = "fork"
               /\ followed.state = "spawned"
=============================================================================
