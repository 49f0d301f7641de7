---------------------------- MODULE JobInstance ----------------------------
(***************************************************************************)
(* One instance of a job: the state machine of init/job.c together with    *)
(* the handlers of init/job_process.c that drive it.                       *)
(*                                                                         *)
(* Everything init does happens in callbacks of its single-threaded main   *)
(* loop, so each callback is one atomic action here: a command that        *)
(* arrives over D-Bus or from an event, the end of the event that blocks   *)
(* the job, the death of a child, a report on the pipe through which a     *)
(* child tells how its set-up went, a timer.  What the children themselves *)
(* do (set-up, exec, exit) is interleaved freely with the callbacks.       *)
(*                                                                         *)
(* job_change_state() loops until the job rests.  Every cycle of the state *)
(* machine passes through STARTING or STOPPING, where the loop ends since  *)
(* the job is then blocked by the event it emitted; the loop is therefore  *)
(* written as a chain of operators, one for each pair of "-ING" state and  *)
(* the state that follows it, from the end of the chain to its beginning.  *)
(***************************************************************************)
EXTENDS Naturals, FiniteSets

CONSTANTS
    Pids,           \* process ids the kernel hands out
    NoPid,          \* pid 0: no process
    Callers,        \* D-Bus method calls and events that wait for the job
    Procs,          \* processes the class defines (class->process[])
    Task,           \* class->task
    Respawn,        \* class->respawn
    RespawnLimit,   \* class->respawn_limit, 0 when unlimited
    NormalExit,     \* class->normalexit, a set of statuses
    Expect,         \* class->expect: "none", "stop" or "readyfd"
    KillWorks,      \* kill() of the main process succeeds
    PipeFirst       \* a dead child is reaped only after its pipes were read

-----------------------------------------------------------------------------
(***************************************************************************)
(* Types                                                                   *)
(***************************************************************************)
ProcessType ==
    {"main", "pre-start", "post-start", "pre-stop", "post-stop", "security"}

Goals == {"stop", "start", "respawn"}

\* The states in which job_change_state() can leave a job.  An instance is
\* created in "waiting" and freed when it comes back to it, so "waiting"
\* also stands for the absence of the instance.
States ==
    {"waiting", "starting", "security", "pre-start", "spawned", "post-start",
     "running", "pre-stop", "stopping", "killed", "post-stop"}

NoProcess == "none"             \* PROCESS_INVALID

AbortStatus == 255              \* exit status of a child whose set-up failed
Statuses    == {0, 1, AbortStatus}

Replies  == {"idle", "waiting", "ok", "failed"}
Commands == {"start", "stop", "restart"}
Emitted  == {"none", "starting", "started", "stopping", "stopped"}

ASSUME PidsAssumption == NoPid \notin Pids
ASSUME ProcsAssumption == Procs \subseteq ProcessType
ASSUME ClassAssumption ==
    /\ Task \in BOOLEAN
    /\ Respawn \in BOOLEAN
    /\ RespawnLimit \in Nat
    /\ NormalExit \subseteq Statuses
    /\ Expect \in {"none", "stop", "readyfd"}
ASSUME EnvironmentAssumption == KillWorks \in BOOLEAN /\ PipeFirst \in BOOLEAN

(***************************************************************************)
(* job is struct Job: blocker is set while an emitted event blocks it,     *)
(* kill_process is the process the pending kill timer is for, within says  *)
(* that respawn_time is less than the respawn interval ago, blocking is    *)
(* the list of waiting callers.  emitted and result are the name and the   *)
(* RESULT of the last event emitted, reply what each caller was told, cmd  *)
(* what it asked.  disable_respawn is the global that a shutdown sets.      *)
(* spawn names the process the running callback forked, aborted says that  *)
(* an assertion of it failed.                                              *)
(***************************************************************************)
JobType ==
    [goal : Goals, state : States, blocker : BOOLEAN, failed : BOOLEAN,
     pid : [ProcessType -> Pids \cup {NoPid}],
     kill_process : ProcessType \cup {NoProcess},
     respawn_count : 0 .. RespawnLimit + 1, within : BOOLEAN,
     blocking : SUBSET Callers,
     emitted : Emitted, result : BOOLEAN, disable_respawn : BOOLEAN,
     cmd : [Callers -> Commands], reply : [Callers -> Replies],
     spawn : ProcessType \cup {NoProcess}, aborted : BOOLEAN]

\* A child: the process of the job it was forked for, how far it got, its
\* exit status, the report waiting on its set-up pipe, whether a sign that
\* it is ready (a newline on its readiness pipe, its stop by SIGSTOP) has
\* yet to be noticed, whether it was sent SIGKILL.
ChildType ==
    [process : ProcessType \cup {NoProcess},
     life : {"none", "setup", "running", "zombie"},
     status : Statuses,
     pipe : {"none", "open", "error", "eof"},
     ready : BOOLEAN,
     killed : BOOLEAN]

VARIABLES job, child

vars == <<job, child>>

NoChild == [process |-> NoProcess, life |-> "none", status |-> 0,
            pipe |-> "none", ready |-> FALSE, killed |-> FALSE]

\* job_new(): a fresh instance; the callers' view is carried along.
JobNew(j) ==
    [j EXCEPT !.goal = "stop", !.state = "waiting", !.blocker = FALSE,
              !.failed = FALSE, !.pid = [p \in ProcessType |-> NoPid],
              !.kill_process = NoProcess, !.respawn_count = 0,
              !.within = TRUE]

Init ==
    /\ job = [goal |-> "stop", state |-> "waiting", blocker |-> FALSE,
              failed |-> FALSE, pid |-> [p \in ProcessType |-> NoPid],
              kill_process |-> NoProcess, respawn_count |-> 0,
              within |-> TRUE, blocking |-> {},
              emitted |-> "none", result |-> FALSE,
              disable_respawn |-> FALSE,
              cmd |-> [c \in Callers |-> "start"],
              reply |-> [c \in Callers |-> "idle"],
              spawn |-> NoProcess, aborted |-> FALSE]
    /\ child = [p \in Pids |-> NoChild]

Abort(j) == [j EXCEPT !.aborted = TRUE]         \* nih_assert() failed

HasPid(j, process) == j.pid[process] # NoPid
-----------------------------------------------------------------------------
(***************************************************************************)
(* job.c: replies, failures, events                                        *)
(***************************************************************************)

\* Every waiting caller is answered and taken off the list.
JobFinished(j, failed) ==
    [j EXCEPT !.blocking = {},
              !.reply = [c \in Callers |->
                            IF c \in j.blocking
                            THEN IF failed THEN "failed" ELSE "ok"
                            ELSE j.reply[c]]]

\* Mutant of JobFailed: the failure is recorded, the callers are not told.
JobFailed_TellsNobody(j) == [j EXCEPT !.failed = TRUE]

\* Only the first failure is recorded and reported.
JobFailed(j) ==
    IF j.failed THEN j ELSE JobFinished([j EXCEPT !.failed = TRUE], TRUE)

\* The event carries RESULT=failed when the job has failed.
JobEmitEvent(j, name) ==
    [j EXCEPT !.emitted = name, !.result = j.failed]

\* fork() is repeated until it works; the pid is known in Commit below.
JobProcessStart(j, process) == [j EXCEPT !.spawn = process]

(***************************************************************************)
(* job_process_kill(): the timer is set unless the signal could not be     *)
(* sent.                                                                   *)
(***************************************************************************)
JobProcessKill(j, process) ==
    IF j.kill_process # NoProcess
    THEN Abort(j)
    ELSE [j EXCEPT !.kill_process = IF KillWorks THEN process ELSE NoProcess]

-----------------------------------------------------------------------------
(***************************************************************************)
(* job_change_state(): one operator per part of its switch                 *)
(***************************************************************************)
\* Mutant of EnterRunning: whoever cancelled the stop is not answered.
EnterRunning_LeavesCaller(j) ==
    LET r == [j EXCEPT !.state = "running"]
    IN  IF j.state = "pre-stop" THEN r
        ELSE IF Task THEN JobEmitEvent(r, "started")
        ELSE JobFinished(JobEmitEvent(r, "started"), FALSE)

\* Coming back from pre-stop cancels the stop; coming from post-start ends
\* the start, which is all a service is asked for.
EnterRunning(j) ==
    LET r == [j EXCEPT !.state = "running"]
    IN  IF j.state = "pre-stop" THEN JobFinished(r, FALSE)
        ELSE IF Task THEN JobEmitEvent(r, "started")
        ELSE JobFinished(JobEmitEvent(r, "started"), FALSE)

\* Start the process and rest in its state, or go on when there is none.
RunOrSkip(j, process, state, next) ==
    IF process \in Procs
    THEN JobProcessStart([j EXCEPT !.state = state], process)
    ELSE next

EnterPostStarting(j) ==
    RunOrSkip(j, "post-start", "post-start", EnterRunning(j))

EnterSpawning(j) == RunOrSkip(j, "main", "spawned", EnterPostStarting(j))

EnterPreStarting(j) == RunOrSkip(j, "pre-start", "pre-start", EnterSpawning(j))

EnterSecuritySpawning(j) ==
    RunOrSkip(j, "security", "security", EnterPreStarting(j))

EnterStarting(j) ==
    LET s == [j EXCEPT !.state = "starting", !.failed = FALSE]
    IN  [JobEmitEvent(s, "starting") EXCEPT !.blocker = TRUE]

\* The instance is freed; starting it again makes a new one.
EnterWaiting(j) == JobNew(JobFinished(JobEmitEvent(j, "stopped"), FALSE))

LeavePostStop(j) == IF j.goal = "start" THEN EnterStarting(j) ELSE EnterWaiting(j)

EnterPostStopping(j) ==
    RunOrSkip(j, "post-stop", "post-stop", LeavePostStop(j))

\* Mutant of EnterKilled: the signal is sent but not waited for.
EnterKilled_DoesNotWait(j) ==
    IF "main" \in Procs /\ HasPid(j, "main")
    THEN EnterPostStopping(JobProcessKill(j, "main"))
    ELSE EnterPostStopping(j)

\* Mutant of EnterKilled: those who asked for the stop are answered with the signal.
EnterKilled_AnswersEarly(j) ==
    IF "main" \in Procs /\ HasPid(j, "main")
    THEN JobProcessKill(JobFinished([j EXCEPT !.state = "killed"], FALSE), "main")
    ELSE EnterPostStopping(j)

EnterKilled(j) ==
    IF "main" \in Procs /\ HasPid(j, "main")
    THEN JobProcessKill([j EXCEPT !.state = "killed"], "main")
    ELSE EnterPostStopping(j)

\* Mutant of EnterStopping: a job without a main process is not stopping.
EnterStopping_OnlyWithMain(j) ==
    IF HasPid(j, "main")
    THEN [JobEmitEvent(j, "stopping")
            EXCEPT !.state = "stopping", !.blocker = TRUE]
    ELSE EnterPostStopping(j)

EnterStopping(j) ==
    [JobEmitEvent(j, "stopping") EXCEPT !.state = "stopping", !.blocker = TRUE]

EnterPreStopping(j) == RunOrSkip(j, "pre-stop", "pre-stop", EnterStopping(j))

(***************************************************************************)
(* job_next_state(), and the way job_change_state() goes from there unless *)
(* an event blocks the job.  Goal and state pairs that the code rules out  *)
(* with nih_assert_not_reached() abort.                                    *)
(***************************************************************************)
NextStateDefined(j) ==
    \/ j.goal = "start"
    \/ j.goal = "stop" /\ j.state # "waiting"
    \/ j.goal = "respawn" /\ j.state \in {"post-start", "pre-stop"}

EnterNext(j) ==
    CASE j.state \in {"post-start", "pre-stop"} /\ j.goal = "respawn" ->
            EnterStopping([j EXCEPT !.goal = "start"])
      [] j.state \in {"post-start", "pre-stop"} /\ j.goal = "start" ->
            EnterRunning(j)
      [] /\ j.state \in {"starting", "security", "pre-start", "spawned",
                         "post-start", "pre-stop"}
         /\ j.goal = "stop" -> EnterStopping(j)
      [] j.state = "waiting" -> EnterStarting(j)
      [] j.state = "starting" /\ j.goal = "start" -> EnterSecuritySpawning(j)
      [] j.state = "security" /\ j.goal = "start" -> EnterPreStarting(j)
      [] j.state = "pre-start" /\ j.goal = "start" -> EnterSpawning(j)
      [] j.state = "spawned" /\ j.goal = "start" -> EnterPostStarting(j)
      [] j.state = "running" ->
            IF j.goal = "stop" /\ "main" \in Procs /\ HasPid(j, "main")
            THEN EnterPreStopping(j) ELSE EnterStopping(j)
      [] j.state = "stopping" -> EnterKilled(j)
      [] j.state = "killed" -> EnterPostStopping(j)
      [] j.state = "post-stop" -> LeavePostStop(j)

\* Mutant of JobNextState: a job blocked by an event moves on.
JobNextState_IgnoresBlocker(j) ==
    IF NextStateDefined(j) THEN EnterNext(j) ELSE Abort(j)

\* job_change_state (job, job_next_state (job))
JobNextState(j) ==
    IF ~NextStateDefined(j) THEN Abort(j)
    ELSE IF j.blocker THEN j
    ELSE EnterNext(j)

\* Only the rest states waiting and running have to be left at once.
JobChangeGoal(j, goal) ==
    LET g == [j EXCEPT !.goal = goal]
    IN  IF j.goal = goal THEN j
        ELSE IF \/ goal = "start" /\ j.state = "waiting"
                \/ goal = "stop" /\ j.state = "running"
             THEN JobNextState(g)
             ELSE g
-----------------------------------------------------------------------------
(***************************************************************************)
(* job_process_terminated() and job_child_error_handler()                  *)
(***************************************************************************)

\* States in which the end of each process is expected; anywhere else the
\* assertion at the head of its case fails.
ExpectedIn(process) ==
    CASE process = "main" -> {"running", "spawned", "killed", "stopping",
                              "post-start", "pre-stop"}
      [] process = "post-start" -> {"post-start", "running"}
      [] process = "pre-start" -> {"pre-start"}
      [] process = "pre-stop" -> {"pre-stop"}
      [] process = "post-stop" -> {"post-stop"}
      [] process = "security" -> {"security"}

\* A post-start or pre-stop process is still running in its own state.
ScriptRunning(j) ==
    \E p \in {"post-start", "pre-stop"} \cap Procs :
        j.state = p /\ HasPid(j, p)

\* A status of the main process that counts as a failure.
AbnormalExit(status) ==
    /\ status \notin NormalExit
    /\ \/ ~(NormalExit = {} /\ status = 0)
       \/ Respawn /\ ~Task

\* Mutant of CatchRunaway: one respawn too many is allowed.
CatchRunaway_OneTooMany(j) ==
    CASE RespawnLimit = 0 -> [job |-> j, runaway |-> FALSE]
      [] RespawnLimit # 0 /\ j.within ->
            [job |-> [j EXCEPT !.respawn_count = @ + 1],
             runaway |-> j.respawn_count > RespawnLimit]
      [] OTHER ->
            [job |-> [j EXCEPT !.within = TRUE, !.respawn_count = 1],
             runaway |-> FALSE]

\* job_process_catch_runaway(): the count is only compared with the limit,
\* so it stays at the first value above it.
CatchRunaway(j) ==
    CASE RespawnLimit = 0 -> [job |-> j, runaway |-> FALSE]
      [] RespawnLimit # 0 /\ j.within ->
            LET n == IF j.respawn_count > RespawnLimit
                     THEN j.respawn_count ELSE j.respawn_count + 1
            IN  [job |-> [j EXCEPT !.respawn_count = n],
                 runaway |-> n > RespawnLimit]
      [] OTHER ->
            [job |-> [j EXCEPT !.within = TRUE, !.respawn_count = 1],
             runaway |-> FALSE]

\* The process is gone: cancel the kill timer and forget the pid.
ClearProcess(j, process) ==
    [j EXCEPT !.kill_process = NoProcess, !.pid[process] = NoPid]

\* Change the goal to stop, then the state: when the goal change already
\* moved the job, it is the new blocker that keeps it from moving twice.
StopAndMove(j, move) ==
    LET s == JobChangeGoal(j, "stop")
    IN  IF move /\ s.state # "running" THEN JobNextState(s) ELSE s

\* Mutant of MainTerminated: dying after the stopping event is a failure
\* like any other.
MainTerminated_FailsWhenStopping(j, status) ==
    LET move == ~ScriptRunning(j) /\ j.state # "stopping"
        gone == ClearProcess(j, "main")
    IN  IF j.state = "killed" \/ j.goal # "start"
        THEN IF move THEN JobNextState(gone) ELSE gone
        ELSE StopAndMove(IF AbnormalExit(status) THEN JobFailed(gone) ELSE gone,
                         move)

MainTerminated(j, status) ==
    LET move   == ~ScriptRunning(j) /\ j.state # "stopping"
        gone   == ClearProcess(j, "main")
        caught == CatchRunaway(gone)
    IN  IF j.state \in {"killed", "stopping"} \/ j.goal # "start"
        THEN IF move THEN JobNextState(gone) ELSE gone
        ELSE IF ~(AbnormalExit(status) /\ Respawn /\ ~j.disable_respawn)
        THEN StopAndMove(IF AbnormalExit(status) THEN JobFailed(gone) ELSE gone,
                         move)
        ELSE IF caught.runaway
        THEN StopAndMove(JobFailed(caught.job), move)
        ELSE IF ~move
        THEN JobChangeGoal(caught.job, "respawn")
        ELSE IF j.state = "spawned"
        THEN EnterStopping(caught.job)
        ELSE JobNextState(caught.job)

ScriptTerminated(j, process, status) ==
    LET gone == ClearProcess(j, process)
    IN  IF process \in {"security", "pre-start", "post-stop"} /\ status # 0
        THEN StopAndMove(JobFailed(gone), TRUE)
        ELSE JobNextState(gone)

JobProcessTerminated(j, process, status) ==
    IF j.state \notin ExpectedIn(process) THEN Abort(j)
    ELSE IF process = "main" THEN MainTerminated(j, status)
    ELSE ScriptTerminated(j, process, status)

\* Mutant of JobChildErrorHandler: a failed pre-start does not move the job.
JobChildErrorHandler_PreStartStays(j, process) ==
    LET gone   == [j EXCEPT !.pid[process] = NoPid]
        failed == JobChangeGoal(JobFailed(gone), "stop")
    IN  CASE process \in {"security", "pre-start"} -> failed
          [] process \in {"main", "post-stop"} -> JobNextState(failed)
          [] process \in {"post-start", "pre-stop"} -> JobNextState(gone)

JobChildErrorHandler(j, process) ==
    LET gone   == [j EXCEPT !.pid[process] = NoPid]
        failed == JobChangeGoal(JobFailed(gone), "stop")
    IN  CASE process = "security" -> failed
          [] process \in {"pre-start", "main", "post-stop"} ->
                JobNextState(failed)
          [] process \in {"post-start", "pre-stop"} -> JobNextState(gone)
-----------------------------------------------------------------------------
(***************************************************************************)
(* Actions                                                                 *)
(***************************************************************************)
Free(ch) == {p \in Pids : ch[p] = NoChild}

NewChild(process) ==
    [NoChild EXCEPT !.process = process, !.life = "setup", !.pipe = "open"]

\* Freeing the instance closes the pipes it was reading.
ClosePipes(ch) ==
    [p \in Pids |->
        IF ch[p].life = "none" THEN NoChild
        ELSE [ch[p] EXCEPT !.pipe = "none", !.ready = FALSE]]

(***************************************************************************)
(* A callback left the job as j and the children as ch: give the process   *)
(* it forked, if any, a pid.                                               *)
(***************************************************************************)
Commit(j, ch) ==
    IF j.spawn # NoProcess
    THEN \E p \in Free(ch) :
            /\ job' = [j EXCEPT !.spawn = NoProcess, !.pid[j.spawn] = p]
            /\ child' = [ch EXCEPT ![p] = NewChild(j.spawn)]
    ELSE /\ job' = j
         /\ child' = IF j.state = "waiting" THEN ClosePipes(ch) ELSE ch

(***************************************************************************)
(* Commands.  A caller that waits replaces the ones that waited before it, *)
(* which are answered; one that does not wait is answered at once.         *)
(***************************************************************************)
\* Mutant of Ask: the callers that waited before are dropped unanswered.
Ask_DropsWaiters(j, c, cmd, wait) ==
    [j EXCEPT !.cmd[c] = cmd,
              !.blocking = IF wait THEN {c} ELSE {},
              !.reply[c] = IF wait THEN "waiting" ELSE "ok"]

Ask(j, c, cmd, wait) ==
    LET f == JobFinished(j, FALSE)
    IN  [f EXCEPT !.cmd[c] = cmd,
                  !.blocking = IF wait THEN {c} ELSE {},
                  !.reply[c] = IF wait THEN "waiting" ELSE "ok"]

MayAsk(c) == ~job.aborted /\ job.reply[c] # "waiting"

JobStart(c, wait) ==
    /\ MayAsk(c)
    /\ job.goal # "start"
    /\ Commit(JobChangeGoal(Ask(job, c, "start", wait), "start"), child)

JobStop(c, wait) ==
    /\ MayAsk(c)
    /\ job.goal # "stop"
    /\ Commit(JobChangeGoal(Ask(job, c, "stop", wait), "stop"), child)

JobRestart(c, wait) ==
    /\ MayAsk(c)
    /\ job.goal # "stop"
    /\ Commit(JobChangeGoal(JobChangeGoal(Ask(job, c, "restart", wait),
                                          "stop"), "start"), child)

\* Shutdown of the session or the system: quiesce() stops every job and
\* nobody is told.
Quiesce ==
    /\ ~job.aborted
    /\ Commit(JobChangeGoal([job EXCEPT !.disable_respawn = TRUE], "stop"),
              child)

\* event_finished(): the event that blocked the job is done.
BlockerFinished ==
    /\ ~job.aborted
    /\ job.blocker
    /\ Commit(JobNextState([job EXCEPT !.blocker = FALSE]), child)

\* Nothing waits on the pipes of a child.  SIGSTOP of a process that died
\* is not reported any more.
Drained(c) == c.pipe = "none" /\ ~(c.ready /\ Expect = "readyfd")

\* The children when child p has become c, of which nothing may be left.
Update(p, c) ==
    [child EXCEPT ![p] = IF c.life = "none" /\ Drained(c) THEN NoChild ELSE c]

\* job_process_handler() for an exit: a pid of no job is ignored.
Reap(p) ==
    /\ ~job.aborted
    /\ child[p].life = "zombie"
    /\ PipeFirst => Drained(child[p])
    /\ LET ch == Update(p, [child[p] EXCEPT !.life = "none"])
           process == child[p].process
       IN  IF job.pid[process] = p
           THEN Commit(JobProcessTerminated(job, process, child[p].status), ch)
           ELSE Commit(job, ch)

\* job_process_child_reader(): the child reported that its set-up failed.
PipeError(p) ==
    /\ ~job.aborted
    /\ child[p].pipe = "error"
    /\ Commit(JobChildErrorHandler(job, child[p].process),
              Update(p, [child[p] EXCEPT !.pipe = "none"]))

\* Mutant of PipeClose: the expect stanza is not looked at.
PipeClose_IgnoresExpect(p) ==
    /\ ~job.aborted
    /\ child[p].pipe = "eof"
    /\ Commit(IF job.state = "spawned" /\ child[p].process = "main"
              THEN JobNextState(job) ELSE job,
              Update(p, [child[p] EXCEPT !.pipe = "none"]))

\* job_process_close_handler(): the pipe closed without an error.
PipeClose(p) ==
    /\ ~job.aborted
    /\ child[p].pipe = "eof"
    /\ Commit(IF /\ job.state = "spawned" /\ Expect = "none"
                 /\ child[p].process = "main"
              THEN JobNextState(job) ELSE job,
              Update(p, [child[p] EXCEPT !.pipe = "none"]))

\* job_process_stopped(): the main process raised SIGSTOP.
MainStopped(p) ==
    /\ ~job.aborted
    /\ Expect = "stop" /\ child[p].life = "running" /\ child[p].ready
    /\ Commit(IF job.pid["main"] = p /\ job.state = "spawned"
              THEN JobNextState(job) ELSE job,
              Update(p, [child[p] EXCEPT !.ready = FALSE]))

\* job_process_readyfd_reader(): a newline came in on the readiness pipe.
ReadyfdReader(p) ==
    /\ ~job.aborted
    /\ Expect = "readyfd" /\ child[p].ready
    /\ Commit(IF job.state = "spawned" THEN JobNextState(job) ELSE job,
              Update(p, [child[p] EXCEPT !.ready = FALSE]))

\* job_process_kill_timer(): the kill timeout passed.
KillTimer ==
    /\ ~job.aborted
    /\ job.kill_process # NoProcess
    /\ LET p == job.pid[job.kill_process]
       IN  IF p = NoPid
           THEN job' = Abort(job) /\ UNCHANGED child
           ELSE /\ job' = [job EXCEPT !.kill_process = NoProcess]
                /\ child' = [child EXCEPT ![p].killed = KillWorks]

\* The respawn interval passes.
IntervalPasses ==
    /\ ~job.aborted
    /\ job.within /\ RespawnLimit # 0
    /\ job' = [job EXCEPT !.within = FALSE]
    /\ UNCHANGED child

(***************************************************************************)
(* The children.  Set-up ends with exec(), which closes the pipe, or with  *)
(* an error written to it and an exit; a child may also die of a signal at *)
(* any time, which closes the pipe as well.                                *)
(***************************************************************************)
ChildExec(p) ==
    /\ ~job.aborted
    /\ child[p].life = "setup"
    /\ child' = [child EXCEPT
                    ![p].life = "running",
                    ![p].pipe = IF @ = "open" THEN "eof" ELSE @]
    /\ UNCHANGED job

ChildAbort(p) ==
    /\ ~job.aborted
    /\ child[p].life = "setup"
    /\ child' = [child EXCEPT
                    ![p].life = "zombie", ![p].status = AbortStatus,
                    ![p].pipe = IF @ = "open" THEN "error" ELSE @]
    /\ UNCHANGED job

ChildDie(p, status) ==
    /\ ~job.aborted
    /\ \/ child[p].life = "running" /\ status # AbortStatus
       \/ child[p].life = "setup" /\ status = 1
    /\ child' = [child EXCEPT
                    ![p].life = "zombie", ![p].status = status,
                    ![p].pipe = IF @ = "open" THEN "eof" ELSE @]
    /\ UNCHANGED job

ChildReady(p) ==
    /\ ~job.aborted
    /\ child[p].life = "running" /\ child[p].process = "main"
    /\ Expect # "none" /\ ~child[p].ready
    /\ job.pid["main"] = p
    /\ child' = [child EXCEPT ![p].ready = TRUE]
    /\ UNCHANGED job

Command ==
    \E c \in Callers, wait \in BOOLEAN :
        JobStart(c, wait) \/ JobStop(c, wait) \/ JobRestart(c, wait)

Child(p) ==
    \/ ChildExec(p)
    \/ ChildAbort(p)
    \/ \E status \in Statuses : ChildDie(p, status)
    \/ ChildReady(p)

Handler(p) ==
    \/ Reap(p)
    \/ PipeError(p)
    \/ PipeClose(p)
    \/ MainStopped(p)
    \/ ReadyfdReader(p)

Next ==
    \/ Command
    \/ Quiesce
    \/ BlockerFinished
    \/ KillTimer
    \/ IntervalPasses
    \/ \E p \in Pids : Child(p) \/ Handler(p)

Spec == Init /\ [][Next]_vars
-----------------------------------------------------------------------------
(***************************************************************************)
(* Properties                                                              *)
(***************************************************************************)

\* Every field holds a value of its type, and no fork is left half done
\* between two callbacks.
TypeOK ==
    /\ job \in JobType
    /\ child \in [Pids -> ChildType]
    /\ job.spawn = NoProcess

\* None of the assertions of job.c and job_process.c fails: no process ends
\* in a state that does not expect it, no second kill timer is set and none
\* fires for a process that is gone.
NoAssertionFails == ~job.aborted

\* init never loses track of a process it started: every child that has
\* not ended is the one recorded in job->pid[] for its process, so that
\* there is at most one per process and none once the instance is freed.
NoProcessLost ==
    \A p \in Pids :
        child[p].life \in {"setup", "running"} =>
            job.pid[child[p].process] = p

\* The callers still waiting for an answer are exactly those on the job's
\* blocking list: a command or the end of the instance drops none of them.
NoCallerForgotten ==
    \A c \in Callers : job.reply[c] = "waiting" <=> c \in job.blocking

\* The death of the main process after the stopping event does not change
\* what that event said: until the post-stop process runs, RESULT of the
\* stopping event is still right.
StoppingResultStands ==
    job.state \in {"stopping", "killed"} => job.result = job.failed

\* The post-stop process runs only after the main process has ended
\* (post-stop in startup(5): "run after the main process has been killed").
PostStopAfterMain ==
    job.state = "post-stop" =>
        \A p \in Pids : child[p].process = "main" =>
                            child[p].life \notin {"setup", "running"}

Alive(ch, p) == ch[p].life \in {"setup", "running"}

\* Caller c, waiting for cmd, is given answer by a step that is not itself
\* a command of another caller, which would supersede it.
Answered(c, cmd, answer) ==
    /\ ~Command
    /\ job.cmd[c] = cmd
    /\ job.reply[c] = "waiting"
    /\ job'.reply[c] = answer

\* When a stop is answered with success the instance is gone and no process
\* of it is left alive; it is never answered early, by the kill signal
\* being sent or the stopping event being over.
StopAnsweredWhenStopped ==
    [][\A c \in Callers : Answered(c, "stop", "ok") =>
            /\ job'.state = "waiting"
            /\ \A p \in Pids : ~Alive(child', p)]_vars

\* A start is answered with success by a service that reached running, or
\* by a job that ran to its end without failing; a failed job never tells
\* its starter that all is well.  (A shutdown stops jobs without a word to
\* their callers.)
StartAnsweredTruthfully ==
    [][\A c \in Callers :
        ~job.disable_respawn /\ Answered(c, "start", "ok") =>
            \/ ~Task /\ job'.state = "running"
            \/ job'.state = "waiting" /\ ~job'.result]_vars

\* The job leaves spawned for post-start or running only when its present
\* main process, not an earlier one, has been executed and has given the
\* sign that the expect stanza asks for.
MainReadyBeforeStarted ==
    [][job.state = "spawned" /\ job'.state \in {"post-start", "running"} =>
        \E p \in Pids :
            /\ job.pid["main"] = p
            /\ child[p].life # "setup"
            /\ Expect # "none" => child[p].ready]_vars

\* What another job can rely on when it starts on events of this one: they
\* come in the order starting, started, stopping, stopped, where started
\* is left out by a start that fails and stopped by a restart.
EventOrder ==
    [][job'.emitted # job.emitted =>
        <<job.emitted, job'.emitted>> \in
            {<<"none", "starting">>, <<"starting", "started">>,
             <<"starting", "stopping">>, <<"started", "stopping">>,
             <<"stopping", "stopped">>, <<"stopping", "starting">>,
             <<"stopped", "starting">>}]_vars
-----------------------------------------------------------------------------
(***************************************************************************)
(* Fairness: the main loop runs every callback that is due, the events the *)
(* job emits finish, the set-up of a child and its scripts come to an end, *)
(* a process sent SIGKILL dies and the main process of a task completes.   *)
(* The main process of a service may run and ignore its kill signal for    *)
(* ever, and nobody is obliged to call.                                    *)
(***************************************************************************)
SetupEnds(p) == ChildExec(p) \/ ChildAbort(p)

ProcessEnds(p) ==
    /\ Task \/ child[p].process # "main" \/ child[p].killed
    /\ \E status \in Statuses : ChildDie(p, status)

Fairness ==
    /\ WF_vars(BlockerFinished)
    /\ WF_vars(KillTimer)
    /\ \A p \in Pids :
        /\ WF_vars(Reap(p))
        /\ WF_vars(PipeError(p))
        /\ WF_vars(PipeClose(p))
        /\ WF_vars(SetupEnds(p))
        /\ WF_vars(ProcessEnds(p))

FairSpec == Spec /\ Fairness

\* A job that is to stop stops, unless it is told otherwise: no lost
\* notification leaves it in a state that nothing ends.
StopCompletes ==
    job.goal = "stop" ~> (job.state = "waiting" \/ job.goal # "stop")

\* Every caller gets an answer.
CallersAnswered ==
    \A c \in Callers :
        job.reply[c] = "waiting" ~> job.reply[c] # "waiting"
=============================================================================
