------------------------------- MODULE Quiesce -------------------------------
(***************************************************************************)
(* The end of a session: quiesce.c with the turns of the main loop, the    *)
(* clock and the jobs as far as they matter to it.                         *)
(*                                                                         *)
(* A turn handles what came in (D-Bus, signals), then dead children, then  *)
(* the timers that are due, and polls the events last; stage says how far  *)
(* it has come.  Within a turn the clock may move on by a second once,     *)
(* before events are polled: a turn is short, but a second may end in it.  *)
(***************************************************************************)
EXTENDS Naturals, Sequences, FiniteSets, FiniteSetsExt, SequencesExt

CONSTANTS
    Jobs,           \* classes, with at most one instance each
    Abstract,       \* those without a main process
    SessionEnd,     \* those with session-end in start on
    PreStop,        \* those with a pre-stop process
    Hooks,          \* of each, the classes that start on its starting or stopping event
    KillTimeout,    \* class->kill_timeout of each
    DefaultKill,    \* JOB_DEFAULT_KILL_TIMEOUT
    JobRuntime,     \* QUIESCE_DEFAULT_JOB_RUNTIME
    EmitsBefore,    \* an event may be pending when the session is ended
    MaxClock,       \* bound: the clock stops there
    MaxPending      \* bound: events pending when somebody emits one

\* What the code gives the constants: quiesce.h and job_class.h define the times
\* as positive numbers, and the classes are those of a table.
Sane ==
    /\ IsFiniteSet(Jobs) /\ SessionEnd \subseteq Jobs
    /\ Hooks \in [Jobs -> SUBSET Jobs]
    /\ KillTimeout \in [Jobs -> Nat]
    /\ DefaultKill \in Nat \ {0}
    /\ JobRuntime \in Nat \ {0}

ASSUME SessionAssumption == Sane

VARIABLES
    q,              \* the static variables of quiesce.c
    jobs,           \* the jobs
    pending,        \* the events, in the order of their list
    clock,          \* seconds
    stage           \* "sleep", "io", "child", "timer", "poll", "exited", "aborted"

sessionVars == <<q, jobs, pending, clock, stage>>

-----------------------------------------------------------------------------
(* Jobs.  "starting" and "stopping" wait for an event on the list, and        *)
(* "starting blocked" and "stopping blocked" for one that has been handled and *)
(* that other jobs block.                                                     *)

Gone == [state |-> "waiting", goal |-> "stop", pid |-> "none", pre |-> "none", due |-> 0,
         killed |-> FALSE]

Event(name, j) == [name |-> name, job |-> j]
SessionEndEvent == [name |-> "session-end"]
Other           == [name |-> "other"]

HasInstance(js, j) == js[j].state # "waiting"

\* job_process_jobs_running: a dead process counts until it is reaped.
JobsRunning(js) == \E j \in Jobs : js[j].pid # "none" \/ js[j].pre # "none"

MaxKillTimeout(js) ==
    Max({DefaultKill} \cup {KillTimeout[j] : j \in {i \in Jobs : HasInstance(js, i)}})

\* What a callback works on: the jobs and the list of events.
With(js, es) == [jobs |-> js, pending |-> es]

EnterStarting(s, j) ==
    With([s.jobs EXCEPT ![j].state = "starting"], Append(s.pending, Event("starting", j)))

EnterStopping(s, j) ==
    With([s.jobs EXCEPT ![j].state = "stopping"], Append(s.pending, Event("stopping", j)))

\* The job is over, and its instance is freed, or begins anew.
LeaveKilled(s, j) ==
    IF s.jobs[j].goal = "start" THEN EnterStarting(s, j)
    ELSE With([s.jobs EXCEPT ![j] = Gone], Append(s.pending, Event("stopped", j)))

\* job_process_kill: the kill signal now and the timer for SIGKILL, unless there
\* is nothing to kill.
EnterKilled(s, j) ==
    LET t == With([s.jobs EXCEPT ![j].state = "killed"], s.pending)
    IN IF t.jobs[j].pid = "none" THEN LeaveKilled(t, j)
       ELSE With([t.jobs EXCEPT ![j].due = clock + KillTimeout[j]], t.pending)

EnterRunning(s, j) ==
    With([s.jobs EXCEPT ![j] = [@ EXCEPT !.state = "running",
                                         !.pid = IF j \in Abstract THEN "none" ELSE "alive"]],
         s.pending)

\* The events that a loop over the jobs of a set emits for each.
Emitted(name, js) == LET order == SetToSeq(js) IN [i \in DOMAIN order |-> Event(name, order[i])]

\* job_process_stop_all: the goal of every instance; those that run leave at once,
\* by way of pre-stop if they have a main process that it could save.
StopAll(s) ==
    LET running == {j \in Jobs : s.jobs[j].state = "running" /\ s.jobs[j].goal = "start"}
        asked   == {j \in running \cap PreStop : s.jobs[j].pid # "none"}
        leaving == running \ asked
    IN With([j \in Jobs |->
                CASE j \in leaving -> [s.jobs[j] EXCEPT !.goal = "stop", !.state = "stopping"]
                  [] j \in asked -> [s.jobs[j] EXCEPT !.goal = "stop", !.state = "pre-stop",
                                                      !.pre = "alive"]
                  [] j \notin running /\ HasInstance(s.jobs, j) -> [s.jobs[j] EXCEPT !.goal = "stop"]
                  [] OTHER -> s.jobs[j]],
            s.pending \o Emitted("stopping", leaving))

\* job_class_induct_job for an event that starts the jobs js.
Induct(s, js) ==
    LET new == {j \in js : ~HasInstance(s.jobs, j)}
    IN With([j \in Jobs |->
                CASE j \in new -> [s.jobs[j] EXCEPT !.goal = "start", !.state = "starting"]
                  [] j \in js \ new -> [s.jobs[j] EXCEPT !.goal = "start"]
                  [] OTHER -> s.jobs[j]],
            s.pending \o Emitted("starting", new))

\* The death of the main process as job_process_terminated sees it.  Respawning
\* is disabled, or the job is one that does not respawn.  A pre-stop process is
\* waited for.
Terminated(s, j) ==
    LET t == With([s.jobs EXCEPT ![j] = [@ EXCEPT !.pid = "none", !.due = 0, !.killed = FALSE]],
                  s.pending)
    IN CASE t.jobs[j].state = "running" ->
              EnterStopping(With([t.jobs EXCEPT ![j].goal = "stop"], t.pending), j)
         [] t.jobs[j].state = "pre-stop" -> With([t.jobs EXCEPT ![j].goal = "stop"], t.pending)
         [] t.jobs[j].state = "killed"  -> LeaveKilled(t, j)
         [] OTHER -> t

\* The same for pre-stop: the job stops, or goes on if it has been started meanwhile.
PreStopTerminated(s, j) ==
    LET t == With([s.jobs EXCEPT ![j].pre = "none"], s.pending)
    IN IF t.jobs[j].goal = "start" THEN With([t.jobs EXCEPT ![j].state = "running"], t.pending)
       ELSE EnterStopping(t, j)

-----------------------------------------------------------------------------
(* quiesce.c *)

NotQuiesced == [phase |-> "not quiesced", requester |-> "none", phase_time |-> 0,
                start_time |-> 0, max_kill_timeout |-> 0, timer |-> 0,
                finalising |-> FALSE, exit |-> FALSE]

InProgress == q.phase # "not quiesced"

\* Does any job ask for session-end, whatever else it waits for?
EventMatch == SessionEnd # {}

\* The request, from a signal (system) or EndSession (session).
Quiesce(requester) ==
    LET phase == IF requester = "system" \/ ~EventMatch THEN "kill" ELSE "wait"
        s     == StopAll(With(jobs, Append(pending, SessionEndEvent)))
    IN /\ stage = "io"
       /\ ~InProgress
       /\ q' = [q EXCEPT !.phase = phase, !.requester = requester,
                         !.phase_time = clock, !.start_time = clock,
                         !.max_kill_timeout = IF phase = "kill" THEN MaxKillTimeout(jobs) ELSE 0,
                         !.timer = clock + 1]
       /\ jobs' = s.jobs
       /\ pending' = s.pending
       /\ UNCHANGED <<clock, stage>>

\* The end is asked for once.
Finalise(r) ==
    LET c == [r EXCEPT !.phase = "cleanup"]
    IN IF c.finalising THEN c ELSE [c EXCEPT !.finalising = TRUE, !.exit = TRUE]

\* Mutant of KillTimedOut: as soon as the timeout is reached.
KillTimedOut_AtOnce == clock - q.phase_time >= q.max_kill_timeout

KillTimedOut == clock - q.phase_time > q.max_kill_timeout

\* Mutant of WaitOver: without the time limit.
WaitOver_OnlyIdle == ~JobsRunning(jobs)

\* Mutant of WaitOver: session-end jobs are not given time.
WaitOver_Always == TRUE

WaitOver == clock - q.phase_time >= JobRuntime \/ ~JobsRunning(jobs)

\* Every second: the jobs have ended, or have had the time they get.
WaitCallback ==
    LET enter == q.phase = "wait" /\ WaitOver
        s     == IF enter THEN StopAll(With(jobs, pending)) ELSE With(jobs, pending)
        r     == IF enter THEN [q EXCEPT !.phase = "kill", !.phase_time = clock,
                                         !.max_kill_timeout = MaxKillTimeout(jobs)]
                 ELSE q
        done  == (q.phase = "kill" /\ KillTimedOut) \/ ~JobsRunning(s.jobs)
        fails == q.phase \notin {"wait", "kill"} \/ (q.phase = "kill" /\ q.max_kill_timeout = 0)
    IN /\ stage = "timer"
       /\ q.timer \in 1..clock
       /\ \A j \in Jobs : jobs[j].due # 0 => q.timer <= jobs[j].due
       /\ IF fails THEN stage' = "aborted" /\ UNCHANGED <<q, jobs, pending>>
          ELSE /\ q' = IF done THEN [Finalise(r) EXCEPT !.timer = 0]
                       ELSE [r EXCEPT !.timer = clock + 1]
               /\ jobs' = s.jobs
               /\ pending' = s.pending
               /\ UNCHANGED stage
       /\ UNCHANGED clock

-----------------------------------------------------------------------------
(* The rest of the turn *)

Wake ==
    /\ stage = "sleep"
    /\ stage' = "io"
    /\ UNCHANGED <<q, jobs, pending, clock>>

\* Somebody emits an event that no job asks for.
Emit ==
    /\ stage = "io"
    /\ Len(pending) < MaxPending
    /\ InProgress \/ EmitsBefore
    /\ pending' = Append(pending, Other)
    /\ UNCHANGED <<q, jobs, clock, stage>>

\* A stage of the turn has nothing more to do.
NextStage ==
    /\ stage' = CASE stage = "io"    -> "child"
                  [] stage = "child" -> "timer"
                  [] stage = "timer" -> "poll"
                  [] stage = "poll"  -> IF q.exit THEN "exited" ELSE "sleep"
                  [] OTHER -> stage
    /\ stage \in {"io", "child", "timer", "poll"}
    /\ stage = "child" => \A j \in Jobs : "dead" \notin {jobs[j].pid, jobs[j].pre}
    /\ stage = "timer" => /\ q.timer \notin 1..clock
                          /\ \A j \in Jobs : jobs[j].due \notin 1..clock
    /\ stage = "poll" => pending = <<>>
    /\ UNCHANGED <<q, jobs, pending, clock>>

\* job_process_handler for the main process.
Reap(j) ==
    LET s == Terminated(With(jobs, pending), j)
    IN /\ stage = "child"
       /\ jobs[j].pid = "dead"
       /\ jobs' = s.jobs
       /\ pending' = s.pending
       /\ UNCHANGED <<q, clock, stage>>

ReapPreStop(j) ==
    LET s == PreStopTerminated(With(jobs, pending), j)
    IN /\ stage = "child"
       /\ jobs[j].pre = "dead"
       /\ jobs' = s.jobs
       /\ pending' = s.pending
       /\ UNCHANGED <<q, clock, stage>>

\* job_process_kill_timer; timers run in the order in which they are due.
KillTimer(j) ==
    /\ stage = "timer"
    /\ jobs[j].due \in 1..clock
    /\ \A i \in Jobs : jobs[i].due # 0 => jobs[j].due <= jobs[i].due
    /\ q.timer # 0 => jobs[j].due <= q.timer
    /\ jobs' = [jobs EXCEPT ![j] = [@ EXCEPT !.due = 0, !.killed = TRUE]]
    /\ UNCHANGED <<q, pending, clock, stage>>

\* An event that a job waits for.
Move(e) == e.name \in {"starting", "stopping"}

\* What the first event of the list starts.
Handled(s, e) ==
    CASE e = SessionEndEvent -> Induct(s, SessionEnd)
      [] Move(e) -> Induct(s, Hooks[e.job])
      [] OTHER   -> s

\* The jobs that an event has started block it.
Blocked(s, e) ==
    With([s.jobs EXCEPT ![e.job].state =
             IF e.name = "starting" THEN "starting blocked" ELSE "stopping blocked"], s.pending)

\* What waits for the event goes on.
Finished(s, e) ==
    CASE e.name = "starting" -> IF s.jobs[e.job].goal = "start" THEN EnterRunning(s, e.job)
                                ELSE EnterStopping(s, e.job)
      [] e.name = "stopping" -> EnterKilled(s, e.job)
      [] OTHER -> s

Settled(s, e) == IF Move(e) /\ Hooks[e.job] # {} THEN Blocked(s, e) ELSE Finished(s, e)

\* event_poll takes the first event: it is handled, a session that is being ended
\* and has no instance left is over (event_pending_handle_jobs), and it finishes,
\* unless a job blocks it.
PollEvent ==
    LET e == Head(pending)
        s == Handled(With(jobs, Tail(pending)), e)
        t == Settled(s, e)
    IN /\ stage = "poll"
       /\ pending # <<>>
       /\ q' = IF InProgress /\ \A j \in Jobs : ~HasInstance(s.jobs, j) THEN Finalise(q) ELSE q
       /\ jobs' = t.jobs
       /\ pending' = t.pending
       /\ UNCHANGED <<clock, stage>>

\* The last job that blocks the event of j no longer does: a service when it runs,
\* a task when it is over, which is here at any time.
Unblock(j) ==
    LET e == Event(IF jobs[j].state = "starting blocked" THEN "starting" ELSE "stopping", j)
        t == Finished(With(jobs, pending), e)
    IN /\ stage = "poll"
       /\ jobs[j].state \in {"starting blocked", "stopping blocked"}
       /\ jobs' = t.jobs
       /\ pending' = t.pending
       /\ UNCHANGED <<q, clock, stage>>

-----------------------------------------------------------------------------
(* Outside *)

\* A process ends, of itself or by a signal.
Die(j) ==
    /\ jobs[j].pid = "alive"
    /\ stage \in {"sleep", "poll"}
    /\ jobs' = [jobs EXCEPT ![j].pid = "dead"]
    /\ UNCHANGED <<q, pending, clock, stage>>

\* So does pre-stop, which nobody kills.
DiePreStop(j) ==
    /\ jobs[j].pre = "alive"
    /\ stage \in {"sleep", "poll"}
    /\ jobs' = [jobs EXCEPT ![j].pre = "dead"]
    /\ UNCHANGED <<q, pending, clock, stage>>

\* A second passes while init sleeps; it wakes up when a timer is due.
Tick ==
    /\ stage = "sleep"
    /\ clock < MaxClock
    /\ q.timer \notin 1..clock
    /\ \A j \in Jobs : jobs[j].due \notin 1..clock
    /\ clock' = clock + 1
    /\ UNCHANGED <<q, jobs, pending, stage>>

\* A second ends between the timers and the events of a turn.
TickInTurn ==
    /\ stage = "timer"
    /\ clock < MaxClock
    /\ q.timer \notin 1..clock
    /\ \A j \in Jobs : jobs[j].due \notin 1..clock
    /\ clock' = clock + 1
    /\ stage' = "poll"
    /\ UNCHANGED <<q, jobs, pending>>

\* Any of the jobs may be running.
SessionInit ==
    /\ q = NotQuiesced
    /\ jobs \in [Jobs -> {Gone} \cup {[Gone EXCEPT !.state = "running", !.goal = "start",
                                                   !.pid = p] : p \in {"alive", "none"}}]
    /\ \A j \in Jobs : HasInstance(jobs, j) => (jobs[j].pid = "none" <=> j \in Abstract)
    /\ pending = <<>>
    /\ clock = 1
    /\ stage = "sleep"

SessionNext ==
    \/ Wake \/ Emit \/ NextStage \/ PollEvent \/ WaitCallback \/ Tick \/ TickInTurn
    \/ \E r \in {"system", "session"} : Quiesce(r)
    \/ \E j \in Jobs : \/ Reap(j) \/ ReapPreStop(j) \/ KillTimer(j)
                       \/ Unblock(j) \/ Die(j) \/ DiePreStop(j)

SessionSpec == SessionInit /\ [][SessionNext]_sessionVars

-----------------------------------------------------------------------------
\* Nothing comes between the goal of such a job and its kill signal.
Prompt == {j \in Jobs \ PreStop : Hooks[j] = {}}

\* However slow its main process, a job that has no pre-stop process, and whose
\* stopping event no job waits for, is not left behind when the session ends but
\* after SIGKILL: it has been sent its kill signal, and the time that quiesce waits
\* covers the kill timer, also when a second ends between the two.
KilledBeforeExit ==
    stage = "exited" =>
        \A j \in Prompt :
            jobs[j].pid # "none" /\ (jobs[j].goal = "stop" \/ jobs[j].state = "killed")
            => jobs[j].killed

\* What the comment in quiesce() says of a shutdown of the system, that the wait
\* phase is skipped "to ensure all running jobs get signalled".
RunningSignalled ==
    stage = "exited" /\ q.requester = "system" =>
        \A j \in Jobs : jobs[j].pid = "alive" /\ jobs[j].goal = "stop" => jobs[j].state = "killed"

\* When a user logs out, a session-end job that runs is neither asked to stop nor
\* left behind before the time such jobs are given: it "will be waited for".
WaitedFor ==
    [][\A j \in SessionEnd :
          /\ q.requester = "session"
          /\ jobs[j].pid = "alive" /\ jobs[j].goal = "start"
          /\ jobs'[j].goal = "stop" \/ stage' = "exited"
          => clock - q.start_time >= JobRuntime \/ jobs'[j].pid = "none"]_sessionVars

\* However the jobs behave, the session is over after the time of both phases and
\* one more turn of the timer, which never meets a phase that something else has
\* ended nor a kill phase without a timeout: none of quiesce.c's assertions fails.
EndsInTime ==
    /\ stage # "aborted"
    /\ InProgress /\ stage # "exited" =>
         clock - q.start_time <= JobRuntime + Max({DefaultKill} \cup {KillTimeout[j] : j \in Jobs}) + 2
=============================================================================
