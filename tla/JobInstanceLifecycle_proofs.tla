-------------------- MODULE JobInstanceLifecycle_proofs --------------------
(***************************************************************************)
(* Every job instance follows the state diagram (with the arrows of        *)
(* respawns), whatever its class is and in whatever order the ends of its  *)
(* children are reported.                                                  *)
(*                                                                         *)
(* The diagram sees only the state and the goal of a job, so the lemmas    *)
(* say what each operator does to these two fields.                        *)
(***************************************************************************)
EXTENDS JobInstanceLifecycle, JobInstance_proofs

Shown(goal) == IF goal = "respawn" THEN "start" ELSE goal

\* From the state of j an arrow, of the colour of the goal of k, leads to
\* the state of k.
Moves(j, k) ==
    \/ Shown(k.goal) = "start" /\ k.state \in Diagram!Green(j.state)
    \/ k.goal = "stop" /\ k.state \in Diagram!Red(j.state)

\* The job stays where it is, and the diagram does not see more.
Stays(j, k) == k.state = j.state /\ k.goal = j.goal /\ k.blocker = j.blocker

\* k is reached from j by a step of the diagram or by none.
Steps(j, k) ==
    \/ k.state = j.state /\ Shown(k.goal) = Shown(j.goal)
    \/ k.state = j.state /\ j.state # "waiting"
    \/ Moves(j, k)
    \/ /\ j.state = "running"
       /\ Shown(k.goal) = "start"
       /\ k.state \in Diagram!Red(j.state)

\* The strengthening: a job waits only if it is to, and nothing blocks it.
\* Without it a change of goal could leave a job waiting with goal start.
AtRest(j) == j.state = "waiting" => j.goal = "stop" /\ ~j.blocker

-----------------------------------------------------------------------------
(***************************************************************************)
(* Where the operators of job_change_state() lead                          *)
(***************************************************************************)
\* job_finished() does not move the job.
LEMMA FinishedStays ==
    ASSUME NEW j, Good(j), NEW failed \in BOOLEAN
    PROVE  Stays(j, JobFinished(j, failed))
BY DEF Good, JobType, JobFinished, Stays

\* job_failed() does not move the job.
LEMMA FailedStays ==
    ASSUME NEW j, Good(j)
    PROVE  Stays(j, JobFailed(j))
BY DEF Good, JobType, JobFailed, JobFinished, Stays

\* A state with a process is where the job rests, or it goes on to next.
LEMMA RunOrSkipLeads ==
    ASSUME NEW j, Good(j), NEW process, NEW state, NEW next
    PROVE  LET k == RunOrSkip(j, process, state, next)
           IN  \/ k.state = state /\ k.goal = j.goal /\ k.blocker = j.blocker
               \/ k = next
BY DEF Good, JobType, RunOrSkip, JobProcessStart

\* A job that enters stopping rests there, blocked by its event.
LEMMA EnterStoppingLeads ==
    ASSUME NEW j, Good(j)
    PROVE  LET k == EnterStopping(j)
           IN  k.state = "stopping" /\ k.goal = j.goal /\ k.blocker
BY DEF Good, JobType, EnterStopping, JobEmitEvent

\* A job that enters starting rests there.
LEMMA EnterStartingLeads ==
    ASSUME NEW j, Good(j)
    PROVE  LET k == EnterStarting(j)
           IN  k.state = "starting" /\ k.goal = j.goal
BY DEF Good, JobType, EnterStarting, JobEmitEvent

\* A job that enters running rests there.
LEMMA EnterRunningLeads ==
    ASSUME NEW j, Good(j)
    PROVE  LET k == EnterRunning(j)
           IN  k.state = "running" /\ k.goal = j.goal
<1> DEFINE r == [j EXCEPT !.state = "running"]
<1>1. Good(r)
  BY StateGood DEF States
<1>2. r.state = "running" /\ r.goal = j.goal
  BY DEF Good, JobType
<1> HIDE DEF r
<1> DEFINE e == JobEmitEvent(r, "started")
<1>3. Good(e)
  BY <1>1, EmitGood DEF Emitted
<1>4. e.state = "running" /\ e.goal = j.goal
  BY <1>1, <1>2 DEF JobEmitEvent, Good, JobType
<1> HIDE DEF e
<1>5. EnterRunning(j) \in {JobFinished(r, FALSE), e, JobFinished(e, FALSE)}
  BY DEF EnterRunning, r, e
<1> QED BY <1>1, <1>2, <1>3, <1>4, <1>5, FinishedStays DEF Stays

\* An instance that is freed is at rest.
LEMMA EnterWaitingLeads ==
    ASSUME NEW j, Good(j)
    PROVE  LET k == EnterWaiting(j)
           IN  k.state = "waiting" /\ k.goal = "stop" /\ ~k.blocker
<1> DEFINE f == JobFinished(JobEmitEvent(j, "stopped"), FALSE)
<1>1. Good(f)
  BY EmitGood, FinishedGood DEF Emitted
<1> HIDE DEF f
<1>2. JobNew(f).state = "waiting" /\ JobNew(f).goal = "stop" /\ ~JobNew(f).blocker
  BY <1>1 DEF JobNew, Good, JobType
<1> QED BY <1>2 DEF EnterWaiting, f

\* The green part of the diagram: without a process the job goes on.
LEMMA StartPathLeads ==
    ASSUME NEW j, Good(j)
    PROVE  /\ EnterPostStarting(j).state \in {"post-start", "running"}
           /\ EnterPostStarting(j).goal = j.goal
           /\ EnterSpawning(j).state \in {"spawned", "post-start", "running"}
           /\ EnterSpawning(j).goal = j.goal
           /\ EnterPreStarting(j).state \in
                {"pre-start", "spawned", "post-start", "running"}
           /\ EnterPreStarting(j).goal = j.goal
           /\ EnterSecuritySpawning(j).state \in
                {"security", "pre-start", "spawned", "post-start", "running"}
           /\ EnterSecuritySpawning(j).goal = j.goal
<1>1. /\ EnterPostStarting(j).state \in {"post-start", "running"}
      /\ EnterPostStarting(j).goal = j.goal
  BY RunOrSkipLeads, EnterRunningLeads DEF EnterPostStarting
<1>2. /\ EnterSpawning(j).state \in {"spawned", "post-start", "running"}
      /\ EnterSpawning(j).goal = j.goal
  BY <1>1, RunOrSkipLeads DEF EnterSpawning
<1>3. /\ EnterPreStarting(j).state \in
                {"pre-start", "spawned", "post-start", "running"}
      /\ EnterPreStarting(j).goal = j.goal
  BY <1>2, RunOrSkipLeads DEF EnterPreStarting
<1>4. /\ EnterSecuritySpawning(j).state \in
                {"security", "pre-start", "spawned", "post-start", "running"}
      /\ EnterSecuritySpawning(j).goal = j.goal
  BY <1>3, RunOrSkipLeads DEF EnterSecuritySpawning
<1> QED BY <1>1, <1>2, <1>3, <1>4

\* The red part of the diagram, where stop and start part ways only at the
\* end.
LEMMA StopPathLeads ==
    ASSUME NEW j, Good(j), j.goal \in {"start", "stop"}
    PROVE  /\ LET k == EnterPreStopping(j)
              IN  /\ k.goal = j.goal
                  /\ k.state = "pre-stop" \/ (k.state = "stopping" /\ k.blocker)
           /\ LET k == LeavePostStop(j)
              IN  /\ k.goal = j.goal
                  /\ j.goal = "start" => k.state = "starting"
                  /\ j.goal = "stop" => k.state = "waiting" /\ ~k.blocker
           /\ LET k == EnterPostStopping(j)
              IN  /\ k.goal = j.goal
                  /\ j.goal = "start" => k.state \in {"post-stop", "starting"}
                  /\ j.goal = "stop" => k.state \in {"post-stop", "waiting"}
                  /\ k.state = "waiting" => ~k.blocker
           /\ LET k == EnterKilled(j)
              IN  /\ k.goal = j.goal
                  /\ j.goal = "start" =>
                        k.state \in {"killed", "post-stop", "starting"}
                  /\ j.goal = "stop" =>
                        k.state \in {"killed", "post-stop", "waiting"}
                  /\ k.state = "waiting" => ~k.blocker
<1>1. LET k == EnterPreStopping(j)
      IN  /\ k.goal = j.goal
          /\ k.state = "pre-stop" \/ (k.state = "stopping" /\ k.blocker)
  BY RunOrSkipLeads, EnterStoppingLeads DEF EnterPreStopping
<1>2. LET k == LeavePostStop(j)
      IN  /\ k.goal = j.goal
          /\ j.goal = "start" => k.state = "starting"
          /\ j.goal = "stop" => k.state = "waiting" /\ ~k.blocker
  BY EnterStartingLeads, EnterWaitingLeads DEF LeavePostStop
<1>3. LET k == EnterPostStopping(j)
      IN  /\ k.goal = j.goal
          /\ j.goal = "start" => k.state \in {"post-stop", "starting"}
          /\ j.goal = "stop" => k.state \in {"post-stop", "waiting"}
          /\ k.state = "waiting" => ~k.blocker
  BY <1>2, RunOrSkipLeads DEF EnterPostStopping
<1> DEFINE d == [j EXCEPT !.state = "killed"]
<1>4. Good(d)
  BY StateGood DEF States
<1>5. d.state = "killed" /\ d.goal = j.goal
  BY DEF Good, JobType
<1> HIDE DEF d
<1>6. LET k == JobProcessKill(d, "main")
      IN  k.state = "killed" /\ k.goal = j.goal
  BY <1>4, <1>5 DEF JobProcessKill, Abort, Good, JobType
<1>7. EnterKilled(j) \in {JobProcessKill(d, "main"), EnterPostStopping(j)}
  BY DEF EnterKilled, d
<1> QED BY <1>1, <1>2, <1>3, <1>6, <1>7

-----------------------------------------------------------------------------
(***************************************************************************)
(* The operators the handlers are made of                                  *)
(***************************************************************************)
\* One round of job_change_state() follows an arrow of the diagram.
LEMMA EnterNextMoves ==
    ASSUME NEW j, Good(j), NextStateDefined(j)
    PROVE  Moves(j, EnterNext(j)) /\ AtRest(EnterNext(j))
<1> DEFINE g == [j EXCEPT !.goal = "start"]
<1>1. j.state \in States /\ j.goal \in Goals
  BY DEF Good, JobType
<1>2. CASE j.goal = "respawn"
  <2>1. Good(g) /\ g.goal = "start"
    BY GoalGood, ZenonT(60) DEF Goals, Good, JobType
  <2>2. EnterNext(j) = EnterStopping(g) /\ j.state \in {"post-start", "pre-stop"}
    BY <1>2 DEF EnterNext, NextStateDefined
  <2> HIDE DEF g
  <2>3. EnterNext(j).state = "stopping" /\ EnterNext(j).goal = "start"
    BY <2>1, <2>2, EnterStoppingLeads
  <2> QED BY <2>2, <2>3 DEF Moves, Shown, AtRest, Diagram!Green
<1>3. CASE j.goal = "start"
  <2>1. /\ j.state = "waiting" => EnterNext(j) = EnterStarting(j)
        /\ j.state = "starting" => EnterNext(j) = EnterSecuritySpawning(j)
        /\ j.state = "security" => EnterNext(j) = EnterPreStarting(j)
        /\ j.state = "pre-start" => EnterNext(j) = EnterSpawning(j)
        /\ j.state = "spawned" => EnterNext(j) = EnterPostStarting(j)
        /\ j.state = "post-start" => EnterNext(j) = EnterRunning(j)
        /\ j.state = "pre-stop" => EnterNext(j) = EnterRunning(j)
        /\ j.state = "running" => EnterNext(j) = EnterStopping(j)
        /\ j.state = "stopping" => EnterNext(j) = EnterKilled(j)
        /\ j.state = "killed" => EnterNext(j) = EnterPostStopping(j)
        /\ j.state = "post-stop" => EnterNext(j) = LeavePostStop(j)
    BY <1>3 DEF EnterNext
  <2>2. EnterNext(j).goal = "start"
    BY <1>1, <1>3, <2>1, EnterStartingLeads, StartPathLeads, EnterRunningLeads,
       EnterStoppingLeads, StopPathLeads DEF States
  <2>3. EnterNext(j).state \in Diagram!Green(j.state)
    BY <1>1, <1>3, <2>1, EnterStartingLeads, StartPathLeads, EnterRunningLeads,
       EnterStoppingLeads, StopPathLeads DEF States, Diagram!Green
  <2>4. EnterNext(j).state # "waiting"
    BY <1>1, <2>3 DEF States, Diagram!Green
  <2> QED BY <2>2, <2>3, <2>4 DEF Moves, Shown, AtRest
<1>4. CASE j.goal = "stop"
  <2>1. j.state # "waiting"
    BY <1>4 DEF NextStateDefined
  <2>2. /\ j.state \in {"starting", "security", "pre-start", "spawned",
                        "post-start", "pre-stop"} =>
                EnterNext(j) = EnterStopping(j)
        /\ j.state = "running" =>
                EnterNext(j) \in {EnterPreStopping(j), EnterStopping(j)}
        /\ j.state = "stopping" => EnterNext(j) = EnterKilled(j)
        /\ j.state = "killed" => EnterNext(j) = EnterPostStopping(j)
        /\ j.state = "post-stop" => EnterNext(j) = LeavePostStop(j)
    BY <1>4 DEF EnterNext
  <2>3. EnterNext(j).goal = "stop"
    BY <1>1, <1>4, <2>1, <2>2, EnterStoppingLeads, StopPathLeads DEF States
  <2>4. EnterNext(j).state \in Diagram!Red(j.state)
    BY <1>1, <1>4, <2>1, <2>2, EnterStoppingLeads, StopPathLeads
       DEF States, Diagram!Red
  <2>5. EnterNext(j).state = "waiting" => ~EnterNext(j).blocker
    BY <1>1, <1>4, <2>1, <2>2, EnterStoppingLeads, StopPathLeads DEF States
  <2> QED BY <2>3, <2>4, <2>5 DEF Moves, AtRest
<1> QED BY <1>1, <1>2, <1>3, <1>4 DEF Goals

\* job_change_state() follows an arrow, or the job is blocked and stays.
LEMMA NextStateMoves ==
    ASSUME NEW j, Good(j)
    PROVE  \/ Stays(j, JobNextState(j))
           \/ /\ Moves(j, JobNextState(j))
              /\ AtRest(JobNextState(j))
<1>1. Stays(j, Abort(j)) /\ Stays(j, j)
  BY DEF Stays, Abort, Good, JobType
<1> QED BY <1>1, EnterNextMoves DEF JobNextState

\* A handler that prepares the job, leaving state, goal and blocker alone,
\* and then moves it on.
LEMMA NextStateSteps ==
    ASSUME NEW j, Good(j), AtRest(j), NEW k, Good(k), Stays(j, k)
    PROVE  Steps(j, JobNextState(k)) /\ AtRest(JobNextState(k))
BY NextStateMoves DEF Steps, Stays, Moves, AtRest

\* job_change_goal() changes the colour and follows at most one arrow.
LEMMA ChangeGoalSteps ==
    ASSUME NEW j, Good(j), AtRest(j), NEW k, Good(k), Stays(j, k),
           NEW goal \in {"start", "stop"}
    PROVE  LET r == JobChangeGoal(k, goal)
           IN  Steps(j, r) /\ AtRest(r)
<1> DEFINE g == [k EXCEPT !.goal = goal]
<1>1. Good(g)
  BY GoalGood DEF Goals
<1>2. g.goal = goal /\ g.state = k.state /\ g.blocker = k.blocker
  BY DEF Good, JobType
<1>3. CASE k.goal = goal
  <2>1. JobChangeGoal(k, goal) = k
    BY <1>3 DEF JobChangeGoal
  <2> QED BY <2>1 DEF Steps, Stays, AtRest
<1>4. CASE k.goal # goal /\ goal = "start" /\ k.state = "waiting"
  <2>1. JobChangeGoal(k, goal) = JobNextState(g)
    BY <1>4 DEF JobChangeGoal
  <2>2. NextStateDefined(g) /\ ~g.blocker
    BY <1>2, <1>4 DEF NextStateDefined, AtRest, Stays
  <2> HIDE DEF g
  <2>3. JobNextState(g) = EnterNext(g)
    BY <2>2 DEF JobNextState
  <2> QED BY <1>1, <1>2, <2>1, <2>2, <2>3, EnterNextMoves
          DEF Steps, Moves, Stays
<1>5. CASE k.goal # goal /\ goal = "stop" /\ k.state = "running"
  <2>1. JobChangeGoal(k, goal) = JobNextState(g)
    BY <1>5 DEF JobChangeGoal
  <2> HIDE DEF g
  <2> QED BY <1>1, <1>2, <1>5, <2>1, NextStateMoves
          DEF Steps, Moves, Stays, AtRest
<1>6. CASE /\ k.goal # goal
           /\ ~(goal = "start" /\ k.state = "waiting")
           /\ ~(goal = "stop" /\ k.state = "running")
  <2>1. JobChangeGoal(k, goal) = g
    BY <1>6 DEF JobChangeGoal
  <2>2. k.state # "waiting"
    BY <1>6 DEF AtRest, Stays
  <2> HIDE DEF g
  <2> QED BY <1>2, <2>1, <2>2 DEF Steps, Stays, AtRest
<1> QED BY <1>3, <1>4, <1>5, <1>6

\* Changing the goal to stop and then the state: a running job that the
\* change of goal has moved is not moved too far.
LEMMA StopThenNextSteps ==
    ASSUME NEW j, Good(j), AtRest(j), NEW k, Good(k), Stays(j, k)
    PROVE  LET r == JobNextState(JobChangeGoal(k, "stop"))
           IN  Steps(j, r) /\ AtRest(r)
<1> DEFINE g == [k EXCEPT !.goal = "stop"]
           s == JobChangeGoal(k, "stop")
<1>1. Good(g)
  BY GoalGood DEF Goals
<1>2. g.goal = "stop" /\ g.state = k.state /\ g.blocker = k.blocker
  BY DEF Good, JobType
<1>3. CASE k.goal = "stop"
  <2>1. s = k
    BY <1>3 DEF JobChangeGoal
  <2> QED BY <2>1, NextStateSteps
<1>4. CASE k.goal # "stop" /\ k.state # "running"
  <2>1. s = g
    BY <1>4 DEF JobChangeGoal
  <2>2. k.state # "waiting"
    BY <1>4 DEF AtRest, Stays
  <2> HIDE DEF g, s
  <2>3. \/ Stays(g, JobNextState(g))
        \/ Moves(g, JobNextState(g)) /\ AtRest(JobNextState(g))
    BY <1>1, NextStateMoves
  <2> QED BY <1>2, <2>1, <2>2, <2>3 DEF Steps, Moves, Stays, AtRest, s
<1>5. CASE k.goal # "stop" /\ k.state = "running"
  <2>1. s = JobNextState(g)
    BY <1>5 DEF JobChangeGoal
  <2>2. NextStateDefined(g)
    BY <1>2, <1>5 DEF NextStateDefined
  <2>3. j.state = "running"
    BY <1>5 DEF Stays
  <2> HIDE DEF g, s
  <2>4. CASE g.blocker
    <3>1. s = g /\ JobNextState(s) = g
      BY <2>1, <2>2, <2>4 DEF JobNextState
    <3> QED BY <1>2, <1>5, <2>3, <3>1 DEF Steps, AtRest, s
  <2>5. CASE ~g.blocker
    <3>1. s \in {EnterPreStopping(g), EnterStopping(g)}
      BY <1>2, <1>5, <2>1, <2>2, <2>5 DEF JobNextState, EnterNext
    <3>2. Good(s)
      BY <1>1, <3>1, EnterStopPathGood, EnterStoppingGood
    <3>3. s.goal = "stop"
      BY <1>1, <1>2, <3>1, StopPathLeads, EnterStoppingLeads
    <3>4. s.state = "pre-stop" \/ (s.state = "stopping" /\ s.blocker)
      BY <1>1, <1>2, <3>1, StopPathLeads, EnterStoppingLeads
    <3>5. NextStateDefined(s)
      BY <3>3, <3>4 DEF NextStateDefined
    <3>6. JobNextState(s) = s \/ (s.state = "pre-stop" /\
                                  JobNextState(s) = EnterStopping(s))
      BY <3>3, <3>4, <3>5 DEF JobNextState, EnterNext
    <3>7. LET r == JobNextState(s)
          IN  r.goal = "stop" /\ r.state \in {"pre-stop", "stopping"}
      BY <3>2, <3>3, <3>4, <3>6, EnterStoppingLeads
    <3> QED BY <2>3, <3>7 DEF Steps, Moves, AtRest, Diagram!Red, s
  <2> QED BY <2>4, <2>5
<1> QED BY <1>3, <1>4, <1>5

\* The end of job_process_terminated() is a step of the diagram.
LEMMA StopAndMoveSteps ==
    ASSUME NEW j, Good(j), AtRest(j), NEW k, Good(k), Stays(j, k),
           NEW move
    PROVE  Steps(j, StopAndMove(k, move)) /\ AtRest(StopAndMove(k, move))
BY ChangeGoalSteps, StopThenNextSteps DEF StopAndMove

\* A restart changes the goal twice and is one step of the diagram.
LEMMA RestartSteps ==
    ASSUME NEW j, Good(j), AtRest(j), j.goal # "stop",
           NEW k, Good(k), Stays(j, k)
    PROVE  LET r == JobChangeGoal(JobChangeGoal(k, "stop"), "start")
           IN  Steps(j, r) /\ AtRest(r)
<1> DEFINE g == [k EXCEPT !.goal = "stop"]
           s == JobChangeGoal(k, "stop")
           r == JobChangeGoal(s, "start")
<1>1. Good(g) /\ Good(s)
  BY GoalGood, ChangeGoalGood DEF Goals
<1>2. g.goal = "stop" /\ g.state = k.state
  BY DEF Good, JobType
<1>3. k.goal # "stop" /\ k.state = j.state /\ j.state # "waiting"
  BY DEF AtRest, Stays
<1>4. s = IF k.state = "running" THEN JobNextState(g) ELSE g
  BY <1>3 DEF JobChangeGoal
<1> HIDE DEF g
<1>5. \/ s.state = j.state
      \/ j.state = "running" /\ s.state \in {"pre-stop", "stopping"}
  <2>1. CASE k.state = "running"
    <3>1. Stays(g, s) \/ Moves(g, s)
      BY <1>1, <1>4, <2>1, NextStateMoves
    <3> QED BY <1>2, <1>3, <2>1, <3>1
            DEF Stays, Moves, Diagram!Green, Diagram!Red
  <2>2. CASE k.state # "running"
    BY <1>2, <1>3, <1>4, <2>2
  <2> QED BY <2>1, <2>2
<1>6. s.state # "waiting"
  BY <1>3, <1>5
<1> HIDE DEF s
<1>7. r.goal = "start" /\ r.state = s.state
  BY <1>1, <1>6 DEF JobChangeGoal, Good, JobType
<1> HIDE DEF r
<1>8. Steps(j, r) /\ AtRest(r)
  BY <1>3, <1>5, <1>6, <1>7 DEF Steps, AtRest, Shown, Diagram!Red
<1> QED BY <1>8 DEF r, s

-----------------------------------------------------------------------------
(***************************************************************************)
(* The handlers                                                            *)
(***************************************************************************)
\* Forgetting a process does not move the job.
LEMMA ClearProcessStays ==
    ASSUME NEW j, Good(j), NEW process \in ProcessType
    PROVE  Stays(j, ClearProcess(j, process))
BY DEF Good, JobType, ClearProcess, Stays

\* Counting a respawn does not move the job.
LEMMA CatchRunawayStays ==
    ASSUME NEW j, Good(j)
    PROVE  Stays(j, CatchRunaway(j).job)
<1>1. CASE RespawnLimit = 0
  BY <1>1 DEF CatchRunaway, Stays
<1>2. CASE RespawnLimit # 0 /\ j.within
  BY <1>2 DEF CatchRunaway, Stays, Good, JobType
<1>3. CASE RespawnLimit # 0 /\ ~j.within
  BY <1>3 DEF CatchRunaway, Stays, Good, JobType
<1> QED BY <1>1, <1>2, <1>3

\* Two parts of a handler that do not move the job do not move it together.
LEMMA StaysTransitive ==
    ASSUME NEW i, NEW j, NEW k, Stays(i, j), Stays(j, k)
    PROVE  Stays(i, k)
BY DEF Stays

\* The end of the main process is a step of the diagram, a respawn included.
LEMMA MainTerminatedSteps ==
    ASSUME NEW j, Good(j), AtRest(j), NEW status
    PROVE  LET r == MainTerminated(j, status)
           IN  Steps(j, r) /\ AtRest(r)
<1> DEFINE move   == ~ScriptRunning(j) /\ j.state # "stopping"
           gone   == ClearProcess(j, "main")
           caught == CatchRunaway(gone).job
           r      == MainTerminated(j, status)
<1>1. Good(gone) /\ Stays(j, gone)
  BY ClearProcessGood, ClearProcessStays DEF ProcessType
<1>2. Good(caught) /\ Stays(j, caught)
  BY <1>1, CatchRunawayGood, CatchRunawayStays, StaysTransitive
<1>3. /\ Good(JobFailed(gone)) /\ Stays(j, JobFailed(gone))
      /\ Good(JobFailed(caught)) /\ Stays(j, JobFailed(caught))
  BY <1>1, <1>2, FailedGood, FailedStays, StaysTransitive
<1>4. \/ r \in {gone, JobNextState(gone), JobNextState(caught)}
      \/ r \in {StopAndMove(gone, move), StopAndMove(JobFailed(gone), move),
                StopAndMove(JobFailed(caught), move)}
      \/ j.goal = "start" /\ r = JobChangeGoal(caught, "respawn")
      \/ j.goal = "start" /\ j.state = "spawned" /\ r = EnterStopping(caught)
  BY DEF MainTerminated
<1> HIDE DEF move, gone, caught, r
<1>5. CASE r \in {gone, JobNextState(gone), JobNextState(caught)}
  <2>1. Steps(j, gone) /\ AtRest(gone)
    BY <1>1 DEF Steps, Stays, AtRest
  <2> QED BY <1>1, <1>2, <1>5, <2>1, NextStateSteps DEF r
<1>6. CASE r \in {StopAndMove(gone, move), StopAndMove(JobFailed(gone), move),
                  StopAndMove(JobFailed(caught), move)}
  BY <1>1, <1>3, <1>6, StopAndMoveSteps DEF r
<1>7. CASE j.goal = "start" /\ r = JobChangeGoal(caught, "respawn")
  <2>1. r.state = j.state /\ r.goal = "respawn"
    BY <1>2, <1>7 DEF JobChangeGoal, Stays, Good, JobType
  <2> QED BY <1>7, <2>1 DEF Steps, Shown, AtRest, r
<1>8. CASE j.goal = "start" /\ j.state = "spawned" /\ r = EnterStopping(caught)
  <2>1. r.state = "stopping" /\ r.goal = "start"
    BY <1>2, <1>8, EnterStoppingLeads DEF Stays
  <2> QED BY <1>8, <2>1 DEF Steps, Moves, Shown, AtRest, Diagram!Green, r
<1> QED BY <1>4, <1>5, <1>6, <1>7, <1>8

\* The end of any process is a step of the diagram.
LEMMA ProcessTerminatedSteps ==
    ASSUME NEW j, Good(j), AtRest(j), NEW process \in ProcessType, NEW status
    PROVE  LET r == JobProcessTerminated(j, process, status)
           IN  Steps(j, r) /\ AtRest(r)
<1> DEFINE gone == ClearProcess(j, process)
<1>1. Good(gone) /\ Stays(j, gone)
  BY ClearProcessGood, ClearProcessStays
<1>2. Good(JobFailed(gone)) /\ Stays(j, JobFailed(gone))
  BY <1>1, FailedGood, FailedStays, StaysTransitive
<1> HIDE DEF gone
<1>3. /\ Steps(j, StopAndMove(JobFailed(gone), TRUE))
      /\ AtRest(StopAndMove(JobFailed(gone), TRUE))
      /\ Steps(j, JobNextState(gone))
      /\ AtRest(JobNextState(gone))
  BY <1>1, <1>2, StopAndMoveSteps, NextStateSteps
<1>4. LET r == ScriptTerminated(j, process, status)
      IN  Steps(j, r) /\ AtRest(r)
  BY <1>3 DEF ScriptTerminated, gone
<1>5. Steps(j, Abort(j)) /\ AtRest(Abort(j))
  BY DEF Steps, AtRest, Abort, Good, JobType
<1> QED BY <1>4, <1>5, MainTerminatedSteps DEF JobProcessTerminated

\* A failed set-up is a step of the diagram.
LEMMA ChildErrorHandlerSteps ==
    ASSUME NEW j, Good(j), AtRest(j), NEW process \in ProcessType
    PROVE  LET r == JobChildErrorHandler(j, process)
           IN  Steps(j, r) /\ AtRest(r)
<1> DEFINE gone == [j EXCEPT !.pid[process] = NoPid]
           fail == JobFailed(gone)
<1>1. Good(gone)
  BY DEF Good, JobType
<1>2. Stays(j, gone)
  BY DEF Good, JobType, Stays
<1> HIDE DEF gone
<1>3. Good(fail) /\ Stays(j, fail)
  BY <1>1, <1>2, FailedGood, FailedStays, StaysTransitive
<1> HIDE DEF fail
<1>4. JobChildErrorHandler(j, process) \in
        {JobChangeGoal(fail, "stop"), JobNextState(JobChangeGoal(fail, "stop")),
         JobNextState(gone)}
  BY DEF JobChildErrorHandler, gone, fail, ProcessType
<1> QED BY <1>1, <1>2, <1>3, <1>4, ChangeGoalSteps, StopThenNextSteps,
           NextStateSteps

\* Taking down what a caller asks does not move the job.
LEMMA AskStays ==
    ASSUME NEW j, Good(j), NEW c, NEW cmd, NEW wait
    PROVE  Stays(j, Ask(j, c, cmd, wait))
<1> DEFINE f == JobFinished(j, FALSE)
<1>1. Good(f) /\ Stays(j, f)
  BY FinishedGood, FinishedStays
<1> HIDE DEF f
<1>2. Stays(f, Ask(j, c, cmd, wait))
  BY <1>1 DEF Ask, f, Stays, Good, JobType
<1> QED BY <1>1, <1>2, StaysTransitive

-----------------------------------------------------------------------------
(***************************************************************************)
(* Every step of the specification is a step of the diagram                *)
(***************************************************************************)
DInv == IInv /\ AtRest(job)

\* The end of a callback does not move the job.
LEMMA CommitSteps ==
    ASSUME NEW j, Good(j), NEW ch, Commit(j, ch)
    PROVE  Stays(j, job')
BY DEF Commit, Stays, Good, JobType

\* What is left to show of a callback that leaves the job as j.
LEMMA CallbackSteps ==
    ASSUME NEW j, Good(j), NEW ch, Commit(j, ch), Steps(job, j), AtRest(j)
    PROVE  Steps(job, job') /\ AtRest(job)'
BY CommitSteps DEF Steps, Moves, Stays, AtRest

\* Every step of the specification is a step of the diagram.
LEMMA NextSteps ==
    ASSUME DInv, Next
    PROVE  Steps(job, job') /\ AtRest(job)'
<1>1. Good(job) /\ AtRest(job) /\ GoodChildren(child) /\ Stays(job, job)
  BY DEF DInv, IInv, Stays
<1>2. ASSUME NEW c \in Callers, NEW wait \in BOOLEAN,
             JobStart(c, wait) \/ JobStop(c, wait) \/ JobRestart(c, wait)
      PROVE  Steps(job, job') /\ AtRest(job)'
  <2>1. \A cmd \in Commands : /\ Good(Ask(job, c, cmd, wait))
                              /\ Stays(job, Ask(job, c, cmd, wait))
    BY <1>1, AskGood, AskStays
  <2>2. CASE JobStart(c, wait)
    <3> DEFINE r == JobChangeGoal(Ask(job, c, "start", wait), "start")
    <3>1. Good(r)
      BY <2>1, ChangeGoalGood DEF Commands, Goals
    <3>2. Steps(job, r) /\ AtRest(r)
      BY <1>1, <2>1, ChangeGoalSteps DEF Commands
    <3> QED BY <2>2, <3>1, <3>2, CallbackSteps DEF JobStart
  <2>3. CASE JobStop(c, wait)
    <3> DEFINE r == JobChangeGoal(Ask(job, c, "stop", wait), "stop")
    <3>1. Good(r)
      BY <2>1, ChangeGoalGood DEF Commands, Goals
    <3>2. Steps(job, r) /\ AtRest(r)
      BY <1>1, <2>1, ChangeGoalSteps DEF Commands
    <3> QED BY <2>3, <3>1, <3>2, CallbackSteps DEF JobStop
  <2>4. CASE JobRestart(c, wait)
    <3> DEFINE a == Ask(job, c, "restart", wait)
               r == JobChangeGoal(JobChangeGoal(a, "stop"), "start")
    <3>1. Good(a) /\ Stays(job, a) /\ job.goal # "stop"
      BY <2>1, <2>4 DEF Commands, JobRestart
    <3> HIDE DEF a
    <3>2. Good(r)
      BY <3>1, ChangeGoalGood DEF Goals
    <3>3. Steps(job, r) /\ AtRest(r)
      BY <1>1, <3>1, RestartSteps
    <3> QED BY <2>4, <3>2, <3>3, CallbackSteps DEF JobRestart, a
  <2> QED BY <1>2, <2>2, <2>3, <2>4
<1>3. CASE Quiesce
  <2> DEFINE d == [job EXCEPT !.disable_respawn = TRUE]
  <2>1. Good(d)
    BY <1>1 DEF Good, JobType
  <2>2. Stays(job, d)
    BY <1>1 DEF Good, JobType, Stays
  <2> HIDE DEF d
  <2>3. Good(JobChangeGoal(d, "stop"))
    BY <2>1, ChangeGoalGood DEF Goals
  <2>4. Steps(job, JobChangeGoal(d, "stop")) /\ AtRest(JobChangeGoal(d, "stop"))
    BY <1>1, <2>1, <2>2, ChangeGoalSteps
  <2> QED BY <1>3, <2>3, <2>4, CallbackSteps DEF Quiesce, d
<1>4. CASE BlockerFinished
  <2> DEFINE b == [job EXCEPT !.blocker = FALSE]
  <2>1. Good(b)
    BY <1>1, BlockerGood
  <2>2. b.state = job.state /\ b.goal = job.goal
    BY <1>1 DEF Good, JobType
  <2>3. job.state # "waiting"
    BY <1>1, <1>4 DEF BlockerFinished, AtRest
  <2> HIDE DEF b
  <2>4. Stays(b, JobNextState(b)) \/ (Moves(b, JobNextState(b)) /\
                                      AtRest(JobNextState(b)))
    BY <2>1, NextStateMoves
  <2>5. Steps(job, JobNextState(b)) /\ AtRest(JobNextState(b))
    BY <2>2, <2>3, <2>4 DEF Steps, Stays, Moves, AtRest
  <2> QED BY <1>4, <2>1, <2>5, NextStateGood, CallbackSteps
          DEF BlockerFinished, b
<1>5. CASE KillTimer \/ IntervalPasses
  <2>1. Stays(job, job')
    BY <1>1, <1>5 DEF KillTimer, IntervalPasses, Abort, Stays, Good, JobType
  <2> QED BY <1>1, <2>1 DEF Steps, Stays, AtRest
<1>6. ASSUME NEW p \in Pids, Child(p)
      PROVE  Steps(job, job') /\ AtRest(job)'
  <2>1. job' = job
    BY <1>6 DEF Child, ChildExec, ChildAbort, ChildDie, ChildReady
  <2> QED BY <1>1, <2>1 DEF Steps, AtRest
<1>7. ASSUME NEW p \in Pids, Handler(p)
      PROVE  Steps(job, job') /\ AtRest(job)'
  <2>1. Steps(job, job)
    BY DEF Steps
  <2>2. Good(JobNextState(job))
    BY <1>1, NextStateGood
  <2>3. Steps(job, JobNextState(job)) /\ AtRest(JobNextState(job))
    BY <1>1, NextStateSteps
  <2>4. child[p].process # NoProcess => child[p].process \in ProcessType
    BY <1>1 DEF GoodChildren, ChildType
  <2>5. CASE Reap(p)
    <3> DEFINE r == JobProcessTerminated(job, child[p].process, child[p].status)
               ch == Update(p, [child[p] EXCEPT !.life = "none"])
    <3>1. child[p].process \in ProcessType
      BY <1>1, <2>4, <2>5 DEF Reap, GoodChildren
    <3>2. Good(r) /\ Steps(job, r) /\ AtRest(r)
      BY <1>1, <3>1, ProcessTerminatedGood, ProcessTerminatedSteps
    <3>3. Commit(r, ch) \/ Commit(job, ch)
      BY <2>5 DEF Reap
    <3> HIDE DEF r, ch
    <3> QED BY <1>1, <2>1, <3>2, <3>3, CallbackSteps
  <2>6. CASE PipeError(p)
    <3> DEFINE r == JobChildErrorHandler(job, child[p].process)
    <3>1. child[p].process \in ProcessType
      BY <1>1, <2>4, <2>6 DEF PipeError, GoodChildren
    <3>2. Good(r) /\ Steps(job, r) /\ AtRest(r)
      BY <1>1, <3>1, ChildErrorHandlerGood, ChildErrorHandlerSteps
    <3> QED BY <2>6, <3>2, CallbackSteps DEF PipeError
  <2>7. CASE PipeClose(p) \/ MainStopped(p) \/ ReadyfdReader(p)
    <3>1. \E ch : Commit(JobNextState(job), ch) \/ Commit(job, ch)
      BY <2>7 DEF PipeClose, MainStopped, ReadyfdReader
    <3> QED BY <1>1, <2>1, <2>2, <2>3, <3>1, CallbackSteps
  <2> QED BY <1>7, <2>5, <2>6, <2>7 DEF Handler
<1> QED BY <1>2, <1>3, <1>4, <1>5, <1>6, <1>7 DEF Next, Command

\* A job instance of any class, whose children are set up, end and are
\* reported on in any order and which is started, stopped and restarted by
\* any number of callers, moves only along the arrows of doc/states.dot and
\* those of a respawn: job_change_state() never leads it through starting
\* or stopping without a stop there, and no two handlers move it twice.
THEOREM LifecycleImplemented == Spec => FollowsDiagram
<1>1. Init => Diagram!Init /\ AtRest(job)
  BY DEF Init, Diagram!Init, AtRest, GoalShown
<1>2. DInv /\ [Next]_vars => AtRest(job)'
  BY NextSteps DEF DInv, vars, AtRest
<1>3. DInv /\ DInv' /\ [Next]_vars => [Diagram!Next]_<<job.state, GoalShown>>
  <2> SUFFICES ASSUME DInv, DInv', [Next]_vars
               PROVE  [Diagram!Next]_<<job.state, GoalShown>>
    OBVIOUS
  <2>1. job.goal \in Goals /\ job'.goal \in Goals
    BY DEF DInv, IInv, Good, JobType
  <2>2. Steps(job, job')
    BY NextSteps DEF vars, Steps
  <2> QED BY <2>1, <2>2 DEF Steps, Moves, Shown, GoalShown, Goals,
          Diagram!Next, Diagram!ChangeGoal, Diagram!Move, Diagram!Restart,
          Diagram!Red
<1>4. Spec => []DInv
  BY <1>1, <1>2, InitIInv, NextIInv, PTL DEF Spec, DInv
<1> QED BY <1>1, <1>3, <1>4, PTL DEF Spec, FollowsDiagram, Diagram!Spec
=============================================================================
