------------------------- MODULE JobInstance_proofs -------------------------
(***************************************************************************)
(* Proofs about JobInstance, for any class of job, any number of callers   *)
(* and children, and reports on children in any order.                     *)
(***************************************************************************)
EXTENDS JobInstance, TLAPS

-----------------------------------------------------------------------------
(***************************************************************************)
(* Type correctness and the callers: both are preserved by every operator  *)
(* on a job, so they are proved together.                                  *)
(***************************************************************************)
Good(j) ==
    /\ j \in JobType
    /\ \A c \in Callers : j.reply[c] = "waiting" <=> c \in j.blocking

\* Nobody waits any more once job_finished() has answered.
LEMMA FinishedGood ==
    ASSUME NEW j, Good(j), NEW failed \in BOOLEAN
    PROVE  Good(JobFinished(j, failed))
BY DEF Good, JobFinished, JobType, Replies

\* job_failed() marks the job and answers its callers, no more.
LEMMA FailedGood ==
    ASSUME NEW j, Good(j)
    PROVE  Good(JobFailed(j))
<1>1. Good([j EXCEPT !.failed = TRUE])
  BY DEF Good, JobType
<1> QED BY <1>1, FinishedGood DEF JobFailed

\* Emitting an event keeps the job well formed.
LEMMA EmitGood ==
    ASSUME NEW j, Good(j), NEW name \in Emitted
    PROVE  Good(JobEmitEvent(j, name))
BY DEF Good, JobEmitEvent, JobType

\* A failed assertion leaves the job as it was.
LEMMA AbortGood ==
    ASSUME NEW j, Good(j)
    PROVE  Good(Abort(j))
BY DEF Good, Abort, JobType

\* Entering a state keeps the job well formed.
LEMMA StateGood ==
    ASSUME NEW j, Good(j), NEW state \in States
    PROVE  Good([j EXCEPT !.state = state])
BY DEF Good, JobType

\* Blocking and unblocking keep the job well formed.
LEMMA BlockerGood ==
    ASSUME NEW j, Good(j), NEW blocker \in BOOLEAN
    PROVE  Good([j EXCEPT !.blocker = blocker])
BY DEF Good, JobType

\* Changing the goal keeps the job well formed.
LEMMA GoalGood ==
    ASSUME NEW j, Good(j), NEW goal \in Goals
    PROVE  Good([j EXCEPT !.goal = goal])
BY DEF Good, JobType

\* Starting a process, or going on without it, keeps the job well formed.
LEMMA RunOrSkipGood ==
    ASSUME NEW j, Good(j), NEW process \in ProcessType, NEW state \in States,
           NEW next, Good(next)
    PROVE  Good(RunOrSkip(j, process, state, next))
BY ZenonT(60) DEF Good, RunOrSkip, JobProcessStart, JobType

\* Entering stopping keeps the job well formed.
LEMMA EnterStoppingGood ==
    ASSUME NEW j, Good(j)
    PROVE  Good(EnterStopping(j))
BY DEF Good, EnterStopping, JobEmitEvent, JobType, Emitted, States

\* Entering running, where callers may be answered, keeps the job well
\* formed.
LEMMA EnterRunningGood ==
    ASSUME NEW j, Good(j)
    PROVE  Good(EnterRunning(j))
<1> DEFINE r == [j EXCEPT !.state = "running"]
<1>1. Good(r)
  BY StateGood DEF States
<1>2. Good(JobEmitEvent(r, "started"))
  BY <1>1, EmitGood DEF Emitted
<1> HIDE DEF r
<1>3. Good(JobFinished(r, FALSE)) /\ Good(JobFinished(JobEmitEvent(r, "started"), FALSE))
  BY <1>1, <1>2, FinishedGood
<1>4. EnterRunning(j) \in {JobFinished(r, FALSE), JobEmitEvent(r, "started"),
                           JobFinished(JobEmitEvent(r, "started"), FALSE)}
  BY DEF EnterRunning, r
<1> QED BY <1>1, <1>2, <1>3, <1>4

\* Entering starting keeps the job well formed.
LEMMA EnterStartingGood ==
    ASSUME NEW j, Good(j)
    PROVE  Good(EnterStarting(j))
<1> DEFINE s == [j EXCEPT !.state = "starting", !.failed = FALSE]
<1>1. Good(s)
  BY ZenonT(60) DEF Good, JobType, States
<1> HIDE DEF s
<1>2. Good(JobEmitEvent(s, "starting"))
  BY <1>1, EmitGood DEF Emitted
<1> QED BY <1>2, BlockerGood DEF EnterStarting, s

\* The instance that takes the place of a freed one is well formed, as the
\* callers keep their answers.
LEMMA JobNewGood ==
    ASSUME NEW j, Good(j)
    PROVE  Good(JobNew(j))
<1>1. 0 \in 0 .. RespawnLimit + 1
  BY ClassAssumption
<1>2. [p \in ProcessType |-> NoPid] \in [ProcessType -> Pids \cup {NoPid}]
  OBVIOUS
<1> QED BY <1>1, <1>2, ZenonT(60) DEF Good, JobNew, JobType, Goals, States

\* Freeing the instance forgets no caller: all are answered first.
LEMMA EnterWaitingGood ==
    ASSUME NEW j, Good(j)
    PROVE  Good(EnterWaiting(j))
<1>1. Good(JobEmitEvent(j, "stopped"))
  BY EmitGood DEF Emitted
<1>2. Good(JobFinished(JobEmitEvent(j, "stopped"), FALSE))
  BY <1>1, FinishedGood
<1> QED BY <1>2, JobNewGood DEF EnterWaiting

\* The states on the way to running keep the job well formed.
LEMMA EnterStartPathGood ==
    ASSUME NEW j, Good(j)
    PROVE  /\ Good(EnterPostStarting(j))
           /\ Good(EnterSpawning(j))
           /\ Good(EnterPreStarting(j))
           /\ Good(EnterSecuritySpawning(j))
<1> USE DEF ProcessType, States
<1>1. Good(EnterPostStarting(j))
  BY EnterRunningGood, RunOrSkipGood DEF EnterPostStarting
<1>2. Good(EnterSpawning(j))
  BY <1>1, RunOrSkipGood DEF EnterSpawning
<1>3. Good(EnterPreStarting(j))
  BY <1>2, RunOrSkipGood DEF EnterPreStarting
<1>4. Good(EnterSecuritySpawning(j))
  BY <1>3, RunOrSkipGood DEF EnterSecuritySpawning
<1> QED BY <1>1, <1>2, <1>3, <1>4

\* The states on the way to waiting keep the job well formed.
LEMMA EnterStopPathGood ==
    ASSUME NEW j, Good(j)
    PROVE  /\ Good(EnterPreStopping(j))
           /\ Good(LeavePostStop(j))
           /\ Good(EnterPostStopping(j))
           /\ Good(EnterKilled(j))
<1>1. Good(EnterPreStopping(j))
  BY EnterStoppingGood, RunOrSkipGood DEF EnterPreStopping, ProcessType, States
<1>2. Good(LeavePostStop(j))
  BY EnterStartingGood, EnterWaitingGood DEF LeavePostStop
<1>3. Good(EnterPostStopping(j))
  BY <1>2, RunOrSkipGood DEF EnterPostStopping, ProcessType, States
<1> DEFINE k == [j EXCEPT !.state = "killed"]
<1>4. Good(k)
  BY StateGood DEF States
<1> HIDE DEF k
<1>5. Good(JobProcessKill(k, "main"))
  BY <1>4, AbortGood DEF JobProcessKill, Good, JobType, ProcessType, NoProcess
<1>6. Good(EnterKilled(j))
  BY <1>3, <1>5 DEF EnterKilled, k
<1> QED BY <1>1, <1>2, <1>3, <1>6

\* One round of job_change_state() keeps the job well formed.
LEMMA EnterNextGood ==
    ASSUME NEW j, Good(j), NextStateDefined(j)
    PROVE  Good(EnterNext(j))
<1> DEFINE g == [j EXCEPT !.goal = "start"]
<1>1. Good(EnterStopping(g))
  BY GoalGood, EnterStoppingGood DEF Goals
<1>2. j.state \in States /\ j.goal \in Goals
  BY DEF Good, JobType
<1>3. EnterNext(j) \in
        {EnterStopping(g), EnterRunning(j), EnterStopping(j), EnterStarting(j),
         EnterSecuritySpawning(j), EnterPreStarting(j), EnterSpawning(j),
         EnterPostStarting(j), EnterPreStopping(j), EnterKilled(j),
         EnterPostStopping(j), LeavePostStop(j)}
  BY <1>2 DEF EnterNext, NextStateDefined, States, Goals
<1> QED
  BY <1>1, <1>3, EnterRunningGood, EnterStoppingGood, EnterStartingGood,
     EnterStartPathGood, EnterStopPathGood

\* job_change_state() keeps the job well formed, whether it moves or aborts.
LEMMA NextStateGood ==
    ASSUME NEW j, Good(j)
    PROVE  Good(JobNextState(j))
BY EnterNextGood, AbortGood DEF JobNextState

\* job_change_goal() keeps the job well formed.
LEMMA ChangeGoalGood ==
    ASSUME NEW j, Good(j), NEW goal \in Goals
    PROVE  Good(JobChangeGoal(j, goal))
<1>1. Good([j EXCEPT !.goal = goal])
  BY GoalGood
<1> QED BY <1>1, NextStateGood DEF JobChangeGoal

\* Forgetting a process and its kill timer keeps the job well formed.
LEMMA ClearProcessGood ==
    ASSUME NEW j, Good(j), NEW process \in ProcessType
    PROVE  Good(ClearProcess(j, process))
BY DEF Good, ClearProcess, JobType, NoProcess

\* The end of job_process_terminated() keeps the job well formed.
LEMMA StopAndMoveGood ==
    ASSUME NEW j, Good(j), NEW move \in BOOLEAN
    PROVE  Good(StopAndMove(j, move))
<1>1. Good(JobChangeGoal(j, "stop"))
  BY ChangeGoalGood DEF Goals
<1> QED BY <1>1, NextStateGood DEF StopAndMove

\* The respawn counter, kept at the first value above the limit, stays in
\* its range.
LEMMA CatchRunawayGood ==
    ASSUME NEW j, Good(j)
    PROVE  Good(CatchRunaway(j).job)
<1>1. j.respawn_count \in 0 .. RespawnLimit + 1 /\ RespawnLimit \in Nat
  BY ClassAssumption DEF Good, JobType
<1>2. CASE RespawnLimit = 0
  BY <1>2 DEF CatchRunaway
<1>3. CASE RespawnLimit # 0 /\ j.within
  <2> DEFINE n == IF j.respawn_count > RespawnLimit
                  THEN j.respawn_count ELSE j.respawn_count + 1
  <2>1. n \in 0 .. RespawnLimit + 1
    BY <1>1
  <2> HIDE DEF n
  <2>2. Good([j EXCEPT !.respawn_count = n])
    BY <2>1 DEF Good, JobType
  <2> QED BY <1>3, <2>2 DEF CatchRunaway, n
<1>4. CASE RespawnLimit # 0 /\ ~j.within
  <2>1. 1 \in 0 .. RespawnLimit + 1
    BY <1>1
  <2>2. Good([j EXCEPT !.within = TRUE, !.respawn_count = 1])
    BY <2>1 DEF Good, JobType
  <2> QED BY <1>4, <2>2 DEF CatchRunaway
<1> QED BY <1>2, <1>3, <1>4

\* The end of the main process keeps the job well formed.
LEMMA MainTerminatedGood ==
    ASSUME NEW j, Good(j), NEW status
    PROVE  Good(MainTerminated(j, status))
<1> DEFINE move   == ~ScriptRunning(j) /\ j.state # "stopping"
           gone   == ClearProcess(j, "main")
           caught == CatchRunaway(gone).job
<1>1. Good(gone)
  BY ClearProcessGood DEF ProcessType
<1>2. Good(caught)
  BY <1>1, CatchRunawayGood
<1>3. Good(JobFailed(gone)) /\ Good(JobFailed(caught))
  BY <1>1, <1>2, FailedGood
<1>4. move \in BOOLEAN
  OBVIOUS
<1> HIDE DEF move, gone, caught
<1>5. /\ Good(StopAndMove(gone, move))
      /\ Good(StopAndMove(JobFailed(gone), move))
      /\ Good(StopAndMove(JobFailed(caught), move))
  BY <1>1, <1>3, <1>4, StopAndMoveGood
<1>6. /\ Good(JobNextState(gone))
      /\ Good(JobNextState(caught))
      /\ Good(EnterStopping(caught))
      /\ Good(JobChangeGoal(caught, "respawn"))
  BY <1>1, <1>2, NextStateGood, EnterStoppingGood, ChangeGoalGood DEF Goals
<1>7. MainTerminated(j, status) \in
        {gone, JobNextState(gone), StopAndMove(gone, move),
         StopAndMove(JobFailed(gone), move),
         StopAndMove(JobFailed(caught), move),
         JobChangeGoal(caught, "respawn"), EnterStopping(caught),
         JobNextState(caught)}
  BY DEF MainTerminated, move, gone, caught
<1> QED BY <1>1, <1>5, <1>6, <1>7

\* The end of any other process keeps the job well formed.
LEMMA ScriptTerminatedGood ==
    ASSUME NEW j, Good(j), NEW process \in ProcessType, NEW status
    PROVE  Good(ScriptTerminated(j, process, status))
<1>1. Good(ClearProcess(j, process))
  BY ClearProcessGood
<1>2. Good(StopAndMove(JobFailed(ClearProcess(j, process)), TRUE))
  BY <1>1, FailedGood, StopAndMoveGood
<1> QED BY <1>1, <1>2, NextStateGood DEF ScriptTerminated

\* job_process_terminated() keeps the job well formed.
LEMMA ProcessTerminatedGood ==
    ASSUME NEW j, Good(j), NEW process \in ProcessType, NEW status
    PROVE  Good(JobProcessTerminated(j, process, status))
BY AbortGood, MainTerminatedGood, ScriptTerminatedGood
   DEF JobProcessTerminated

\* job_child_error_handler() keeps the job well formed.
LEMMA ChildErrorHandlerGood ==
    ASSUME NEW j, Good(j), NEW process \in ProcessType
    PROVE  Good(JobChildErrorHandler(j, process))
<1> DEFINE gone   == [j EXCEPT !.pid[process] = NoPid]
           failed == JobChangeGoal(JobFailed(gone), "stop")
<1>1. Good(gone)
  BY DEF Good, JobType
<1> HIDE DEF gone
<1>2. Good(failed)
  BY <1>1, FailedGood, ChangeGoalGood DEF Goals
<1>3. Good(JobNextState(gone)) /\ Good(JobNextState(failed))
  BY <1>1, <1>2, NextStateGood
<1> HIDE DEF failed
<1>4. JobChildErrorHandler(j, process) \in
        {failed, JobNextState(failed), JobNextState(gone)}
  BY DEF JobChildErrorHandler, gone, failed, ProcessType
<1> QED BY <1>2, <1>3, <1>4

\* A caller that does not wait is not put on the list; one that does is the
\* only one on it, and the others were answered.
LEMMA AskGood ==
    ASSUME NEW j, Good(j), NEW c \in Callers, NEW cmd \in Commands,
           NEW wait \in BOOLEAN
    PROVE  Good(Ask(j, c, cmd, wait))
<1> DEFINE f == JobFinished(j, FALSE)
<1>1. Good(f) /\ f.blocking = {}
  BY FinishedGood DEF JobFinished, Good, JobType
<1> HIDE DEF f
<1>2. Good([f EXCEPT !.cmd[c] = cmd,
                     !.blocking = IF wait THEN {c} ELSE {},
                     !.reply[c] = IF wait THEN "waiting" ELSE "ok"])
  BY <1>1, ZenonT(60) DEF Good, JobType, Replies
<1> QED BY <1>2 DEF Ask, f

-----------------------------------------------------------------------------
(***************************************************************************)
(* The children.  A child on whose pipe something waits, or that is alive, *)
(* belongs to a process of the job: without this the type of the job would *)
(* not be preserved by the handlers, which look its process up.            *)
(***************************************************************************)
GoodChildren(ch) ==
    /\ ch \in [Pids -> ChildType]
    /\ \A p \in Pids : ch[p].process = NoProcess =>
            ch[p].life = "none" /\ ch[p].pipe = "none"

IInv == Good(job) /\ GoodChildren(child) /\ job.spawn = NoProcess

\* A pid that is not in use is a child of the type.
LEMMA NoChildType ==
    NoChild \in ChildType
BY DEF NoChild, ChildType, Statuses

\* Changing a child, or dropping its record once nothing is left of it,
\* keeps the children well formed.
LEMMA UpdateGood ==
    ASSUME GoodChildren(child), NEW p \in Pids, NEW c \in ChildType,
           c.process # NoProcess
    PROVE  GoodChildren(Update(p, c))
<1>1. GoodChildren([child EXCEPT ![p] = NoChild])
  BY NoChildType DEF GoodChildren, NoChild
<1>2. GoodChildren([child EXCEPT ![p] = c])
  BY DEF GoodChildren
<1> QED BY <1>1, <1>2 DEF Update

\* The end of a callback, where a process it started gets its pid,
\* establishes the invariant.
LEMMA CommitGood ==
    ASSUME NEW j, Good(j), NEW ch, GoodChildren(ch), Commit(j, ch)
    PROVE  IInv'
<1>1. CASE j.spawn # NoProcess
  <2>1. PICK p \in Pids :
            /\ job' = [j EXCEPT !.spawn = NoProcess, !.pid[j.spawn] = p]
            /\ child' = [ch EXCEPT ![p] = NewChild(j.spawn)]
    BY <1>1 DEF Commit, Free
  <2>2. j.spawn \in ProcessType
    BY <1>1 DEF Good, JobType
  <2>3. Good(job)' /\ job'.spawn = NoProcess
    BY <2>1, <2>2 DEF Good, JobType
  <2>4. NewChild(j.spawn) \in ChildType /\ NewChild(j.spawn).process = j.spawn
    BY <2>2 DEF NewChild, NoChild, ChildType, Statuses
  <2>5. GoodChildren(child)'
    BY <1>1, <2>1, <2>4 DEF GoodChildren
  <2> QED BY <2>3, <2>5 DEF IInv
<1>2. CASE j.spawn = NoProcess
  <2>1. job' = j /\ child' \in {ch, ClosePipes(ch)}
    BY <1>2 DEF Commit
  <2>2. ClosePipes(ch) \in [Pids -> ChildType]
    BY NoChildType, ZenonT(60) DEF GoodChildren, ClosePipes, ChildType
  <2>3. \A p \in Pids : ClosePipes(ch)[p].process = NoProcess =>
            ClosePipes(ch)[p].life = "none" /\ ClosePipes(ch)[p].pipe = "none"
    BY DEF GoodChildren, ClosePipes, NoChild, ChildType
  <2> QED BY <1>2, <2>1, <2>2, <2>3 DEF IInv, GoodChildren
<1> QED BY <1>1, <1>2

-----------------------------------------------------------------------------
(***************************************************************************)
(* Every action preserves IInv                                             *)
(***************************************************************************)
\* The invariant holds at first.
LEMMA InitIInv ==
    Init => IInv
<1> SUFFICES ASSUME Init PROVE IInv
  OBVIOUS
<1>1. 0 \in 0 .. RespawnLimit + 1
  BY ClassAssumption
<1>2. Good(job) /\ job.spawn = NoProcess
  BY <1>1 DEF Init, Good, JobType, Goals, States, Emitted, Commands, Replies
<1>3. GoodChildren(child)
  BY NoChildType DEF Init, GoodChildren, NoChild
<1> QED BY <1>2, <1>3 DEF IInv

\* The commands preserve the invariant.
LEMMA CommandIInv ==
    ASSUME IInv, Command
    PROVE  IInv'
<1>1. PICK c \in Callers, wait \in BOOLEAN :
            JobStart(c, wait) \/ JobStop(c, wait) \/ JobRestart(c, wait)
  BY DEF Command
<1>2. Good(job) /\ GoodChildren(child)
  BY DEF IInv
<1>3. \A cmd \in Commands : Good(Ask(job, c, cmd, wait))
  BY <1>2, AskGood
<1>4. CASE JobStart(c, wait)
  <2>1. Good(JobChangeGoal(Ask(job, c, "start", wait), "start"))
    BY <1>3, ChangeGoalGood DEF Commands, Goals
  <2> QED BY <1>2, <1>4, <2>1, CommitGood DEF JobStart
<1>5. CASE JobStop(c, wait)
  <2>1. Good(JobChangeGoal(Ask(job, c, "stop", wait), "stop"))
    BY <1>3, ChangeGoalGood DEF Commands, Goals
  <2> QED BY <1>2, <1>5, <2>1, CommitGood DEF JobStop
<1>6. CASE JobRestart(c, wait)
  <2>1. Good(JobChangeGoal(Ask(job, c, "restart", wait), "stop"))
    BY <1>3, ChangeGoalGood DEF Commands, Goals
  <2>2. Good(JobChangeGoal(JobChangeGoal(Ask(job, c, "restart", wait),
                                         "stop"), "start"))
    BY <2>1, ChangeGoalGood DEF Goals
  <2> QED BY <1>2, <1>6, <2>2, CommitGood DEF JobRestart
<1> QED BY <1>1, <1>4, <1>5, <1>6

\* The steps of the job that concern no child preserve the invariant.
LEMMA JobStepIInv ==
    ASSUME IInv, Quiesce \/ BlockerFinished \/ KillTimer \/ IntervalPasses
    PROVE  IInv'
<1>1. Good(job) /\ GoodChildren(child) /\ job.spawn = NoProcess
  BY DEF IInv
<1>2. CASE Quiesce
  <2>1. Good([job EXCEPT !.disable_respawn = TRUE])
    BY <1>1 DEF Good, JobType
  <2>2. Good(JobChangeGoal([job EXCEPT !.disable_respawn = TRUE], "stop"))
    BY <2>1, ChangeGoalGood DEF Goals
  <2> QED BY <1>1, <1>2, <2>2, CommitGood DEF Quiesce
<1>3. CASE BlockerFinished
  <2>1. Good(JobNextState([job EXCEPT !.blocker = FALSE]))
    BY <1>1, BlockerGood, NextStateGood
  <2> QED BY <1>1, <1>3, <2>1, CommitGood DEF BlockerFinished
<1>4. CASE KillTimer
  <2> DEFINE p == job.pid[job.kill_process]
  <2>1. CASE p = NoPid
    <3>1. job' = Abort(job) /\ child' = child
      BY <1>4, <2>1 DEF KillTimer
    <3>2. Abort(job).spawn = NoProcess
      BY <1>1 DEF Abort, Good, JobType
    <3> QED BY <1>1, <3>1, <3>2, AbortGood DEF IInv, GoodChildren
  <2>2. CASE p # NoPid
    <3>1. /\ job' = [job EXCEPT !.kill_process = NoProcess]
          /\ child' = [child EXCEPT ![p].killed = KillWorks]
      BY <1>4, <2>2 DEF KillTimer
    <3>2. Good(job)' /\ job'.spawn = NoProcess
      BY <1>1, <3>1 DEF Good, JobType
    <3>3. p \in Pids
      BY <1>1, <1>4, <2>2 DEF KillTimer, Good, JobType
    <3> HIDE DEF p
    <3>4. GoodChildren(child)'
      BY <1>1, <3>1, <3>3, EnvironmentAssumption DEF GoodChildren, ChildType
    <3> QED BY <3>2, <3>4 DEF IInv
  <2> QED BY <2>1, <2>2
<1>5. CASE IntervalPasses
  BY <1>1, <1>5 DEF IntervalPasses, IInv, Good, JobType, GoodChildren
<1> QED BY <1>2, <1>3, <1>4, <1>5

\* What a child does by itself preserves the invariant.
LEMMA ChildIInv ==
    ASSUME IInv, NEW p \in Pids, Child(p)
    PROVE  IInv'
<1>1. GoodChildren(child) /\ job' = job
  BY DEF IInv, Child, ChildExec, ChildAbort, ChildDie, ChildReady
<1>2. child[p] \in ChildType
  BY <1>1 DEF GoodChildren
<1>3. child[p].life # "none"
  BY DEF Child, ChildExec, ChildAbort, ChildDie, ChildReady
<1>4. \E c \in ChildType : /\ c.process = child[p].process
                           /\ child' = [child EXCEPT ![p] = c]
  <2> DEFINE eof == IF child[p].pipe = "open" THEN "eof" ELSE child[p].pipe
             err == IF child[p].pipe = "open" THEN "error" ELSE child[p].pipe
  <2>1. CASE ChildExec(p)
    <3>1. child' = [child EXCEPT ![p] = [child[p] EXCEPT !.life = "running",
                                                         !.pipe = eof]]
      BY <1>1, <2>1 DEF ChildExec, GoodChildren
    <3> QED BY <1>2, <3>1 DEF ChildType
  <2>2. CASE ChildAbort(p)
    <3>1. child' = [child EXCEPT ![p] = [child[p] EXCEPT !.life = "zombie",
                                                         !.status = AbortStatus,
                                                         !.pipe = err]]
      BY <1>1, <2>2 DEF ChildAbort, GoodChildren
    <3> QED BY <1>2, <3>1 DEF ChildType, Statuses
  <2>3. ASSUME NEW status \in Statuses, ChildDie(p, status)
        PROVE  \E c \in ChildType : /\ c.process = child[p].process
                                    /\ child' = [child EXCEPT ![p] = c]
    <3>1. child' = [child EXCEPT ![p] = [child[p] EXCEPT !.life = "zombie",
                                                         !.status = status,
                                                         !.pipe = eof]]
      BY <1>1, <2>3 DEF ChildDie, GoodChildren
    <3> QED BY <1>2, <3>1 DEF ChildType
  <2>4. CASE ChildReady(p)
    <3>1. child' = [child EXCEPT ![p] = [child[p] EXCEPT !.ready = TRUE]]
      BY <1>1, <2>4 DEF ChildReady, GoodChildren
    <3> QED BY <1>2, <3>1 DEF ChildType
  <2> QED BY <2>1, <2>2, <2>3, <2>4 DEF Child
<1>5. GoodChildren(child)'
  BY <1>1, <1>3, <1>4 DEF GoodChildren
<1> QED BY <1>1, <1>5 DEF IInv, Good

\* The handlers that init runs for a child preserve the invariant.
LEMMA HandlerIInv ==
    ASSUME IInv, NEW p \in Pids, Handler(p)
    PROVE  IInv'
<1>1. Good(job) /\ GoodChildren(child) /\ child[p] \in ChildType
  BY DEF IInv, GoodChildren
<1>2. CASE Reap(p)
  <2> DEFINE c == [child[p] EXCEPT !.life = "none"]
             ch == Update(p, c)
             process == child[p].process
             status == child[p].status
  <2>1. process \in ProcessType /\ process # NoProcess
    BY <1>1, <1>2 DEF Reap, GoodChildren, ChildType, NoProcess, ProcessType
  <2>2. c \in ChildType /\ c.process = process
    BY <1>1 DEF ChildType
  <2>3. GoodChildren(ch)
    BY <1>1, <2>1, <2>2, UpdateGood
  <2>4. Good(JobProcessTerminated(job, process, status))
    BY <1>1, <2>1, ProcessTerminatedGood
  <2>5. \/ Commit(JobProcessTerminated(job, process, status), ch)
        \/ Commit(job, ch)
    BY <1>2 DEF Reap
  <2> HIDE DEF ch, process, status
  <2> QED BY <1>1, <2>3, <2>4, <2>5, CommitGood
<1>3. CASE PipeError(p)
  <2> DEFINE c == [child[p] EXCEPT !.pipe = "none"]
  <2>1. child[p].process \in ProcessType /\ child[p].process # NoProcess
    BY <1>1, <1>3 DEF PipeError, GoodChildren, ChildType, NoProcess, ProcessType
  <2>2. c \in ChildType /\ c.process = child[p].process
    BY <1>1 DEF ChildType
  <2>3. GoodChildren(Update(p, c))
    BY <1>1, <2>1, <2>2, UpdateGood
  <2>4. Good(JobChildErrorHandler(job, child[p].process))
    BY <1>1, <2>1, ChildErrorHandlerGood
  <2> QED BY <1>3, <2>3, <2>4, CommitGood DEF PipeError
<1>4. CASE PipeClose(p)
  <2> DEFINE c == [child[p] EXCEPT !.pipe = "none"]
  <2>1. child[p].process # NoProcess
    BY <1>1, <1>4 DEF PipeClose, GoodChildren
  <2>2. c \in ChildType /\ c.process = child[p].process
    BY <1>1 DEF ChildType
  <2>3. GoodChildren(Update(p, c))
    BY <1>1, <2>1, <2>2, UpdateGood
  <2>4. Commit(JobNextState(job), Update(p, c)) \/ Commit(job, Update(p, c))
    BY <1>4 DEF PipeClose
  <2> QED BY <1>1, <2>3, <2>4, NextStateGood, CommitGood
<1>5. CASE MainStopped(p) \/ ReadyfdReader(p)
  <2> DEFINE c == [child[p] EXCEPT !.ready = FALSE]
  <2>1. c \in ChildType /\ c.process = child[p].process
    BY <1>1 DEF ChildType
  <2>2. c.life = child[p].life /\ c.pipe = child[p].pipe
    BY <1>1 DEF ChildType
  <2>3. GoodChildren(Update(p, c))
    <3>1. GoodChildren([child EXCEPT ![p] = NoChild])
      BY <1>1, NoChildType DEF GoodChildren, NoChild
    <3>2. GoodChildren([child EXCEPT ![p] = c])
      BY <1>1, <2>1, <2>2 DEF GoodChildren
    <3> QED BY <3>1, <3>2 DEF Update
  <2>4. Commit(JobNextState(job), Update(p, c)) \/ Commit(job, Update(p, c))
    BY <1>5 DEF MainStopped, ReadyfdReader
  <2> QED BY <1>1, <2>3, <2>4, NextStateGood, CommitGood
<1> QED BY <1>2, <1>3, <1>4, <1>5 DEF Handler

\* Every step preserves the invariant.
LEMMA NextIInv ==
    IInv /\ [Next]_vars => IInv'
<1>1. ASSUME IInv, UNCHANGED vars PROVE IInv'
  BY <1>1 DEF IInv, Good, GoodChildren, vars
<1>2. ASSUME IInv, Next PROVE IInv'
  BY <1>2, CommandIInv, JobStepIInv, ChildIInv, HandlerIInv DEF Next
<1> QED BY <1>1, <1>2

\* The job and its children are well formed in every state the program
\* reaches, between any two callbacks of the main loop.
THEOREM Invariance == Spec => []IInv
BY InitIInv, NextIInv, PTL DEF Spec

-----------------------------------------------------------------------------
\* Every field keeps its type, whatever the class of the job and whatever
\* the order in which its children end: in particular a respawn counter of
\* job_process_catch_runaway() never passes the limit by more than one, no
\* switch of job_change_state() or of the handlers is left without a case
\* that applies, and no fork is left without its pid being recorded.
THEOREM TypeCorrect == Spec => []TypeOK
<1>1. IInv => TypeOK
  BY DEF IInv, Good, GoodChildren, TypeOK
<1> QED BY <1>1, Invariance, PTL

\* However many callers start, stop and restart the job, whoever waits for
\* an answer is on the job's blocking list, so that job_finished() reaches
\* it, and nobody on the list has been answered before.
THEOREM CallersNeverForgotten == Spec => []NoCallerForgotten
<1>1. IInv => NoCallerForgotten
  BY DEF IInv, Good, NoCallerForgotten
<1> QED BY <1>1, Invariance, PTL

-----------------------------------------------------------------------------
(***************************************************************************)
(* What a job keeps true of its processes, its events and its answers.     *)
(*                                                                         *)
(* All of it rests on one inductive invariant, Safe below.  It ties three  *)
(* pieces of state together: the pids a job holds to the states in which   *)
(* their end is expected, the children the kernel knows to the pids, and   *)
(* the callers that wait to the goal and to failed.  PipeFirst is assumed: *)
(* without it none of this holds, see late_setup_error.cfg.                *)
(***************************************************************************)
\* The states in which a process may be recorded.
ExpectedAt(process) ==
    IF process = "main"
    THEN {"spawned", "post-start", "running", "pre-stop", "stopping", "killed"}
    ELSE {process}

\* The last event emitted, for each state.
EmittedAt(state) ==
    CASE state = "waiting" -> {"none", "stopped"}
      [] state \in {"starting", "security", "pre-start", "spawned",
                    "post-start"} -> {"starting"}
      [] state \in {"running", "pre-stop"} -> {"started"}
      [] state \in {"stopping", "killed", "post-stop"} -> {"stopping"}

\* A service without a post-stop process: only then is every starter told
\* of a failure.
PlainService == ~Task /\ "post-stop" \notin Procs

Waits(j, c, cmd) == j.reply[c] = "waiting" /\ j.cmd[c] = cmd

\* A starter still waiting while the job has failed waits for the next start.
StarterTold(j) ==
    PlainService /\ j.failed /\ ~j.disable_respawn =>
        \A c \in Callers : Waits(j, c, "start") => j.goal = "start"

\* What holds of a job even in the middle of a callback.
Core(j) ==
    /\ \A process \in ProcessType : HasPid(j, process) =>
            process \in Procs /\ j.state \in ExpectedAt(process)
    /\ j.kill_process # NoProcess =>
            j.kill_process = "main" /\ j.state = "killed" /\ HasPid(j, "main")
    /\ j.goal = "respawn" => j.state \in {"post-start", "pre-stop"}
    /\ j.state \in {"stopping", "killed"} => j.result = j.failed
    /\ ~j.aborted
    /\ j.emitted \in EmittedAt(j.state)
    /\ \A c \in Callers : Waits(j, c, "stop") => j.goal = "stop"
    /\ StarterTold(j)

\* A failed job is being stopped, or it has lost its main process and waits
\* for a script, or nothing is left to wait for.
FailedAt(j) ==
    j.failed =>
        \/ j.state \in {"stopping", "killed", "post-stop"}
        \/ /\ j.state \in {"security", "post-start", "running", "pre-stop"}
           /\ ~HasPid(j, "main")
           /\ ~HasPid(j, "security")

\* What holds in addition between callbacks.
Rest(j) ==
    /\ j.blocker <=> j.state \in {"starting", "stopping"}
    /\ j.state = "waiting" => j.goal = "stop"
    /\ FailedAt(j)

\* The process to be forked is one of the class, has none running already
\* and belongs to the state.
Spawning(j) ==
    j.spawn # NoProcess =>
        /\ j.spawn \in Procs
        /\ ~HasPid(j, j.spawn)
        /\ j.state \in ExpectedAt(j.spawn)
        /\ j.spawn = "main" => j.state = "spawned"
        /\ j.spawn = "main" \/ j.spawn = "security" => ~j.failed

EventSteps ==
    {<<"none", "starting">>, <<"starting", "started">>,
     <<"starting", "stopping">>, <<"started", "stopping">>,
     <<"stopping", "stopped">>, <<"stopping", "starting">>,
     <<"stopped", "starting">>}

\* What the callers that waited when the job was j are told when it is k.
Answers(j, k) ==
    \A c \in Callers :
        /\ j.reply[c] # "waiting" => k.reply[c] = j.reply[c]
        /\ Waits(j, c, "stop") /\ k.reply[c] = "ok" => k.state = "waiting"
        /\ PlainService /\ ~j.disable_respawn /\ Waits(j, c, "start")
              /\ k.reply[c] = "ok" =>
                 k.state = "running" \/ (k.state = "waiting" /\ ~k.result)

\* A callback that found the job as j leaves it as k.
Outcome(j, k) ==
    /\ Core(k) /\ Rest(k) /\ Spawning(k)
    /\ k.emitted # j.emitted => <<j.emitted, k.emitted>> \in EventSteps
    /\ Answers(j, k)

\* job_change_state() takes the job from j to k; it touches no pid.
Settled(j, k) == Outcome(j, k) /\ k.pid = j.pid

ScriptsGone(j) == \A process \in ProcessType \ {"main"} : ~HasPid(j, process)

\* Ready to be taken on from j.
Movable(j) == Good(j) /\ Core(j) /\ j.spawn = NoProcess /\ ScriptsGone(j)

-----------------------------------------------------------------------------
\* Entering stopping: only the main process may be left, and the event says
\* whether the job failed.
LEMMA EnterStoppingSettled ==
    ASSUME NEW j, Movable(j), j.goal # "respawn",
           j.state \notin {"waiting", "stopping", "killed", "post-stop"}
    PROVE  Settled(j, EnterStopping(j))
<1> DEFINE k == EnterStopping(j)
<1>1. j \in JobType
  BY DEF Movable, Good
<1>2. /\ k.state = "stopping" /\ k.blocker /\ k.result = j.failed /\ k.emitted = "stopping"
      /\ k.pid = j.pid /\ k.goal = j.goal /\ k.failed = j.failed /\ k.reply = j.reply
      /\ k.cmd = j.cmd /\ k.spawn = j.spawn /\ k.kill_process = j.kill_process
      /\ k.aborted = j.aborted /\ k.disable_respawn = j.disable_respawn
  BY <1>1 DEF EnterStopping, JobEmitEvent, JobType
<1> HIDE DEF k
<1>3. Core(k)
  BY <1>1, <1>2 DEF Movable, Core, ExpectedAt, EmittedAt, HasPid, ScriptsGone, Waits, StarterTold, ProcessType
<1>4. Rest(k) /\ Spawning(k)
  BY <1>1, <1>2 DEF Movable, Rest, Spawning, FailedAt
<1>5. k.emitted # j.emitted => <<j.emitted, k.emitted>> \in EventSteps
  BY <1>1, <1>2 DEF Movable, Core, EmittedAt, EventSteps, JobType, States
<1>6. Answers(j, k)
  BY <1>2 DEF Answers, Waits
<1> QED BY <1>2, <1>3, <1>4, <1>5, <1>6 DEF Settled, Outcome, k

\* The job went on to running: nobody waits any more, except for a task.
LEMMA EnterRunningSettled ==
    ASSUME NEW j, Movable(j), j.goal = "start", FailedAt(j),
           j.state \in {"starting", "security", "pre-start", "spawned",
                        "post-start", "pre-stop"},
           j.state \in {"starting", "security", "pre-start", "spawned"} => ~j.failed,
           ~j.blocker
    PROVE  Settled(j, EnterRunning(j))
<1> DEFINE k == EnterRunning(j)
<1>1. j \in JobType
  BY DEF Movable, Good
<1>2. /\ k.state = "running" /\ ~k.blocker
      /\ k.pid = j.pid /\ k.goal = j.goal /\ k.failed = j.failed
      /\ k.cmd = j.cmd /\ k.spawn = j.spawn /\ k.kill_process = j.kill_process
      /\ k.aborted = j.aborted /\ k.disable_respawn = j.disable_respawn
      /\ IF j.state = "pre-stop" THEN k.emitted = j.emitted ELSE k.emitted = "started"
      /\ \A c \in Callers : \/ k.reply[c] = j.reply[c]
                            \/ j.reply[c] = "waiting" /\ k.reply[c] # "waiting"
  BY <1>1 DEF Movable, Good, EnterRunning, JobFinished, JobEmitEvent, JobType
<1> HIDE DEF k
<1>3. Core(k)
  BY <1>1, <1>2 DEF Movable, Core, ExpectedAt, EmittedAt, HasPid, ScriptsGone,
                    Waits, StarterTold, ProcessType
<1>4. Rest(k) /\ Spawning(k)
  BY <1>1, <1>2 DEF Movable, Rest, Spawning, FailedAt, HasPid, ScriptsGone, ProcessType
<1>5. k.emitted # j.emitted => <<j.emitted, k.emitted>> \in EventSteps
  BY <1>1, <1>2 DEF Movable, Core, EmittedAt, EventSteps
<1>6. Answers(j, k)
  BY <1>2 DEF Answers, Waits, Movable, Core
<1> QED BY <1>2, <1>3, <1>4, <1>5, <1>6 DEF Settled, Outcome, k

\* On the way up, with nothing left of the state before.
Rising(j) ==
    /\ Movable(j)
    /\ j.goal = "start" /\ ~j.failed /\ ~j.blocker
    /\ j.state \in {"starting", "security", "pre-start", "spawned"}

\* A process of the way up is forked only when it has none running.
LEMMA SpawnSettled ==
    ASSUME NEW j, Rising(j), NEW process \in Procs, NEW state,
           <<process, state>> \in {<<"security", "security">>,
                                   <<"pre-start", "pre-start">>,
                                   <<"main", "spawned">>,
                                   <<"post-start", "post-start">>},
           process = "post-start" \/ ~HasPid(j, "main")
    PROVE  Settled(j, JobProcessStart([j EXCEPT !.state = state], process))
<1> DEFINE k == JobProcessStart([j EXCEPT !.state = state], process)
<1>1. j \in JobType /\ process \in ProcessType
  BY ProcsAssumption DEF Rising, Movable, Good
<1>2. /\ k.state = state /\ k.spawn = process
      /\ k.pid = j.pid /\ k.goal = j.goal /\ k.failed = j.failed /\ k.reply = j.reply
      /\ k.cmd = j.cmd /\ k.emitted = j.emitted /\ k.kill_process = j.kill_process
      /\ k.aborted = j.aborted /\ k.disable_respawn = j.disable_respawn
      /\ k.blocker = j.blocker
  BY <1>1 DEF JobProcessStart, JobType
<1> HIDE DEF k
<1>3. Core(k)
  BY <1>1, <1>2 DEF Rising, Movable, Core, ExpectedAt, EmittedAt, HasPid, ScriptsGone,
                    Waits, StarterTold, ProcessType
<1>4. Rest(k) /\ Spawning(k)
  BY <1>1, <1>2 DEF Rising, Movable, Rest, Spawning, FailedAt, ScriptsGone, ExpectedAt,
                    HasPid, ProcessType
<1> QED BY <1>2, <1>3, <1>4 DEF Settled, Outcome, Answers, Waits, k

\* The way up from each of its states.
LEMMA StartPathSettled ==
    ASSUME NEW j, Rising(j)
    PROVE  /\ Settled(j, EnterPostStarting(j))
           /\ j.state # "spawned" => /\ Settled(j, EnterSpawning(j))
                                     /\ Settled(j, EnterPreStarting(j))
                                     /\ Settled(j, EnterSecuritySpawning(j))
<1>1. Settled(j, EnterRunning(j))
  BY EnterRunningSettled DEF Rising, FailedAt
<1>2. Settled(j, EnterPostStarting(j))
  BY <1>1, SpawnSettled DEF EnterPostStarting, RunOrSkip
<1>3. j.state # "spawned" => ~HasPid(j, "main")
  BY DEF Rising, Movable, Core, ExpectedAt, ProcessType
<1>4. j.state # "spawned" => Settled(j, EnterSpawning(j))
  BY <1>2, <1>3, SpawnSettled DEF EnterSpawning, RunOrSkip
<1>5. j.state # "spawned" => Settled(j, EnterPreStarting(j))
  BY <1>3, <1>4, SpawnSettled DEF EnterPreStarting, RunOrSkip
<1>6. j.state # "spawned" => Settled(j, EnterSecuritySpawning(j))
  BY <1>3, <1>5, SpawnSettled DEF EnterSecuritySpawning, RunOrSkip
<1> QED BY <1>2, <1>4, <1>5, <1>6

\* The pre-stop process is started while the main process runs.
LEMMA EnterPreStoppingSettled ==
    ASSUME NEW j, Movable(j), FailedAt(j), ~j.blocker, j.goal = "stop", j.state = "running"
    PROVE  Settled(j, EnterPreStopping(j))
<1>1. Settled(j, EnterStopping(j))
  BY EnterStoppingSettled
<1>2. ASSUME "pre-stop" \in Procs
      PROVE  Settled(j, JobProcessStart([j EXCEPT !.state = "pre-stop"], "pre-stop"))
  <2> DEFINE k == JobProcessStart([j EXCEPT !.state = "pre-stop"], "pre-stop")
  <2>1. j \in JobType
    BY DEF Movable, Good
  <2>2. /\ k.state = "pre-stop" /\ k.spawn = "pre-stop"
        /\ k.pid = j.pid /\ k.goal = j.goal /\ k.failed = j.failed /\ k.reply = j.reply
        /\ k.cmd = j.cmd /\ k.emitted = j.emitted /\ k.kill_process = j.kill_process
        /\ k.aborted = j.aborted /\ k.disable_respawn = j.disable_respawn
        /\ k.blocker = j.blocker
    BY <2>1 DEF JobProcessStart, JobType
  <2> HIDE DEF k
  <2>3. Core(k)
    BY <2>1, <2>2 DEF Movable, Core, ExpectedAt, EmittedAt, HasPid, ScriptsGone,
                      Waits, StarterTold, ProcessType
  <2>4. Rest(k) /\ Spawning(k)
    BY <1>2, <2>1, <2>2 DEF Movable, Rest, Spawning, FailedAt, ScriptsGone, ExpectedAt,
                            HasPid, ProcessType
  <2> QED BY <2>2, <2>3, <2>4 DEF Settled, Outcome, Answers, Waits, k
<1> QED BY <1>1, <1>2 DEF EnterPreStopping, RunOrSkip

-----------------------------------------------------------------------------
AllGone(j) == \A process \in ProcessType : ~HasPid(j, process)

\* A new start: the failure of the last one is forgotten.
LEMMA EnterStartingSettled ==
    ASSUME NEW j, Movable(j), AllGone(j), j.goal = "start",
           j.emitted \in {"none", "stopped", "stopping"}, j.kill_process = NoProcess
    PROVE  Settled(j, EnterStarting(j))
<1> DEFINE k == EnterStarting(j)
<1>1. j \in JobType
  BY DEF Movable, Good
<1>2. /\ k.state = "starting" /\ k.blocker /\ k.emitted = "starting" /\ ~k.failed
      /\ k.pid = j.pid /\ k.goal = j.goal /\ k.reply = j.reply
      /\ k.cmd = j.cmd /\ k.spawn = j.spawn /\ k.kill_process = j.kill_process
      /\ k.aborted = j.aborted /\ k.disable_respawn = j.disable_respawn
  BY <1>1 DEF EnterStarting, JobEmitEvent, JobType
<1> HIDE DEF k
<1>3. Core(k)
  BY <1>1, <1>2 DEF Movable, Core, ExpectedAt, EmittedAt, HasPid, AllGone, Waits, StarterTold
<1>4. Rest(k) /\ Spawning(k)
  BY <1>2 DEF Movable, Rest, Spawning, FailedAt
<1>5. k.emitted # j.emitted => <<j.emitted, k.emitted>> \in EventSteps
  BY <1>2 DEF EventSteps
<1> QED BY <1>2, <1>3, <1>4, <1>5 DEF Settled, Outcome, Answers, Waits, k

\* The instance is freed: no process is left of it, nobody waits, and the
\* callers that are told that all is well were not kept from a failure.
LEMMA EnterWaitingSettled ==
    ASSUME NEW j, Movable(j), AllGone(j), j.goal # "start", j.emitted = "stopping"
    PROVE  Settled(j, EnterWaiting(j))
<1> DEFINE k == EnterWaiting(j)
<1>1. j \in JobType
  BY DEF Movable, Good
<1>2. j.pid = [process \in ProcessType |-> NoPid]
  BY <1>1 DEF AllGone, HasPid, JobType
<1>3. /\ k.state = "waiting" /\ ~k.blocker /\ k.emitted = "stopped" /\ ~k.failed
      /\ k.pid = [process \in ProcessType |-> NoPid]
      /\ k.goal = "stop" /\ k.result = j.failed
      /\ k.cmd = j.cmd /\ k.spawn = j.spawn /\ k.kill_process = NoProcess
      /\ k.aborted = j.aborted /\ k.disable_respawn = j.disable_respawn
      /\ \A c \in Callers : \/ k.reply[c] = j.reply[c]
                            \/ j.reply[c] = "waiting" /\ k.reply[c] # "waiting"
  BY <1>1 DEF Movable, Good, EnterWaiting, JobNew, JobFinished, JobEmitEvent, JobType
<1> HIDE DEF k
<1>4. Core(k)
  BY <1>1, <1>2, <1>3 DEF Movable, Core, ExpectedAt, EmittedAt, HasPid, AllGone, Waits,
                          StarterTold
<1>5. Rest(k) /\ Spawning(k)
  BY <1>3 DEF Movable, Rest, Spawning, FailedAt
<1>6. k.emitted # j.emitted => <<j.emitted, k.emitted>> \in EventSteps
  BY <1>3 DEF EventSteps
<1>7. Answers(j, k)
  BY <1>1, <1>3 DEF Answers, Movable, Core, StarterTold, JobType
<1> QED BY <1>2, <1>3, <1>4, <1>5, <1>6, <1>7 DEF Settled, Outcome, k

\* The way down, once no process is left.
LEMMA PostStopPathSettled ==
    ASSUME NEW j, Movable(j), AllGone(j), ~j.blocker, j.goal \in {"start", "stop"},
           j.emitted = "stopping", j.kill_process = NoProcess
    PROVE  Settled(j, LeavePostStop(j)) /\ Settled(j, EnterPostStopping(j))
<1>1. Settled(j, LeavePostStop(j))
  BY EnterStartingSettled, EnterWaitingSettled DEF LeavePostStop
<1>2. ASSUME "post-stop" \in Procs
      PROVE  Settled(j, JobProcessStart([j EXCEPT !.state = "post-stop"], "post-stop"))
  <2> DEFINE k == JobProcessStart([j EXCEPT !.state = "post-stop"], "post-stop")
  <2>1. j \in JobType
    BY DEF Movable, Good
  <2>2. /\ k.state = "post-stop" /\ k.spawn = "post-stop"
        /\ k.pid = j.pid /\ k.goal = j.goal /\ k.failed = j.failed /\ k.reply = j.reply
        /\ k.cmd = j.cmd /\ k.emitted = j.emitted /\ k.kill_process = j.kill_process
        /\ k.aborted = j.aborted /\ k.disable_respawn = j.disable_respawn
        /\ k.blocker = j.blocker
    BY <2>1 DEF JobProcessStart, JobType
  <2> HIDE DEF k
  <2>3. Core(k)
    BY <2>1, <2>2 DEF Movable, Core, EmittedAt, AllGone, HasPid, Waits, StarterTold
  <2>4. Rest(k) /\ Spawning(k)
    BY <1>2, <2>1, <2>2 DEF Movable, Rest, Spawning, FailedAt, AllGone, ExpectedAt,
                            HasPid, ProcessType
  <2> QED BY <2>2, <2>3, <2>4 DEF Settled, Outcome, Answers, Waits, k
<1> QED BY <1>1, <1>2 DEF EnterPostStopping, RunOrSkip

\* The kill timer is set for a main process that is there, and there is no
\* other timer.
LEMMA EnterKilledSettled ==
    ASSUME NEW j, Movable(j), ~j.blocker, j.goal \in {"start", "stop"}, j.state = "stopping"
    PROVE  Settled(j, EnterKilled(j))
<1>1. j \in JobType /\ j.kill_process = NoProcess /\ j.emitted = "stopping"
  BY DEF Movable, Good, Core, EmittedAt
<1>2. CASE HasPid(j, "main")
  <2> DEFINE k == JobProcessKill([j EXCEPT !.state = "killed"], "main")
  <2>1. EnterKilled(j) = k
    BY <1>2 DEF EnterKilled, Movable, Core, ProcessType
  <2>2. /\ k.state = "killed" /\ k.kill_process \in {"main", NoProcess}
        /\ k.pid = j.pid /\ k.goal = j.goal /\ k.failed = j.failed /\ k.reply = j.reply
        /\ k.cmd = j.cmd /\ k.emitted = j.emitted /\ k.result = j.result
        /\ k.aborted = j.aborted /\ k.disable_respawn = j.disable_respawn
        /\ k.blocker = j.blocker /\ k.spawn = j.spawn
    BY <1>1 DEF JobProcessKill, JobType
  <2> HIDE DEF k
  <2>3. Core(k)
    BY <1>1, <1>2, <2>2 DEF Movable, Core, EmittedAt, ExpectedAt, HasPid, ScriptsGone,
                            Waits, StarterTold
  <2>4. Rest(k) /\ Spawning(k)
    BY <2>2 DEF Movable, Rest, Spawning, FailedAt
  <2> QED BY <2>1, <2>2, <2>3, <2>4 DEF Settled, Outcome, Answers, Waits
<1>3. CASE ~HasPid(j, "main")
  <2>1. AllGone(j)
    BY <1>3 DEF AllGone, Movable, ScriptsGone
  <2> QED BY <1>1, <1>3, <2>1, PostStopPathSettled DEF EnterKilled
<1> QED BY <1>2, <1>3

-----------------------------------------------------------------------------
\* The job may be taken on: the process its state waits for has gone, and a
\* start that goes on has not failed.
MayMove(j) ==
    /\ Movable(j)
    /\ NextStateDefined(j)
    /\ j.state \in {"killed", "post-stop"} => AllGone(j) /\ j.kill_process = NoProcess
    /\ j.goal = "start" => FailedAt(j) /\ (j.state = "security" => ~j.failed)
    /\ j.state = "running" => FailedAt(j)

\* One round of job_change_state(), from wherever it may be called.
LEMMA EnterNextSettled ==
    ASSUME NEW j, MayMove(j), ~j.blocker
    PROVE  Settled(j, EnterNext(j))
<1> USE DEF MayMove
<1>1. j \in JobType /\ j.state \in States /\ j.goal \in Goals /\ Core(j)
  BY DEF Movable, Good, JobType
<1>2. CASE j.goal = "respawn"
  <2> DEFINE g == [j EXCEPT !.goal = "start"]
  <2>1. /\ Good(g) /\ g.goal = "start" /\ g.state = j.state /\ g.pid = j.pid
        /\ g.reply = j.reply /\ g.cmd = j.cmd /\ g.emitted = j.emitted
        /\ g.spawn = j.spawn /\ g.kill_process = j.kill_process /\ g.failed = j.failed
        /\ g.aborted = j.aborted /\ g.result = j.result
        /\ g.disable_respawn = j.disable_respawn
    BY <1>1, GoalGood DEF Movable, Goals, JobType
  <2>2. j.state \in {"post-start", "pre-stop"}
    BY <1>1, <1>2 DEF Core
  <2> HIDE DEF g
  <2>3. Movable(g)
    BY <1>1, <1>2, <2>1, <2>2 DEF Movable, Core, HasPid, ScriptsGone, Waits, StarterTold
  <2>4. Settled(g, EnterStopping(g))
    BY <2>1, <2>2, <2>3, EnterStoppingSettled
  <2>5. Settled(j, EnterStopping(g))
    BY <2>1, <2>4 DEF Settled, Outcome, Answers, Waits
  <2>6. EnterNext(j) = EnterStopping(g)
    BY <1>2, <2>2 DEF EnterNext, g
  <2> QED BY <2>5, <2>6
<1>3. CASE j.goal # "respawn" /\ j.state \in {"post-start", "pre-stop", "running"}
  <2>1. Settled(j, EnterStopping(j))
    BY <1>3, EnterStoppingSettled
  <2>2. j.goal = "start" /\ j.state # "running" => Settled(j, EnterRunning(j))
    BY <1>3, EnterRunningSettled
  <2>3. j.goal = "stop" /\ j.state = "running" => Settled(j, EnterPreStopping(j))
    BY <1>3, EnterPreStoppingSettled
  <2>4. \/ EnterNext(j) = EnterStopping(j)
        \/ j.goal = "start" /\ j.state # "running" /\ EnterNext(j) = EnterRunning(j)
        \/ j.goal = "stop" /\ j.state = "running" /\ EnterNext(j) = EnterPreStopping(j)
    BY <1>1, <1>3 DEF EnterNext, Goals
  <2> QED BY <2>1, <2>2, <2>3, <2>4
<1>4. CASE /\ j.goal # "respawn"
           /\ j.state \in {"starting", "security", "pre-start", "spawned"}
  <2>1. Settled(j, EnterStopping(j))
    BY <1>4, EnterStoppingSettled
  <2>2. j.goal = "start" => Rising(j)
    BY <1>4 DEF Rising, FailedAt
  <2>3. \/ EnterNext(j) = EnterStopping(j)
        \/ j.goal = "start" /\ EnterNext(j) = EnterPostStarting(j)
        \/ /\ j.goal = "start" /\ j.state # "spawned"
           /\ EnterNext(j) \in {EnterSecuritySpawning(j), EnterPreStarting(j), EnterSpawning(j)}
    BY <1>1, <1>4 DEF EnterNext, Goals
  <2> QED BY <2>1, <2>2, <2>3, StartPathSettled
<1>5. CASE j.goal # "respawn" /\ j.state \in {"killed", "post-stop"}
  <2>1. Settled(j, LeavePostStop(j)) /\ Settled(j, EnterPostStopping(j))
    BY <1>1, <1>5, PostStopPathSettled DEF Goals, Core, EmittedAt
  <2>2. EnterNext(j) \in {EnterPostStopping(j), LeavePostStop(j)}
    BY <1>1, <1>5 DEF EnterNext, Goals
  <2> QED BY <2>1, <2>2
<1>6. CASE j.goal # "respawn" /\ j.state = "stopping"
  <2>1. EnterNext(j) = EnterKilled(j)
    BY <1>1, <1>6 DEF EnterNext, Goals
  <2> QED BY <1>1, <1>6, <2>1, EnterKilledSettled DEF Goals
<1>7. CASE j.goal # "respawn" /\ j.state = "waiting"
  <2>1. EnterNext(j) = EnterStarting(j) /\ j.goal = "start"
    BY <1>1, <1>7 DEF EnterNext, Goals, NextStateDefined
  <2>2. AllGone(j) /\ j.emitted \in {"none", "stopped", "stopping"} /\ j.kill_process = NoProcess
    BY <1>1, <1>7 DEF AllGone, Core, EmittedAt, ExpectedAt, ProcessType
  <2> QED BY <1>7, <2>1, <2>2, EnterStartingSettled
<1> QED BY <1>1, <1>2, <1>3, <1>4, <1>5, <1>6, <1>7 DEF States

\* job_change_state (job, job_next_state (job)) of a job that may move on.
LEMMA NextStateSettled ==
    ASSUME NEW j, MayMove(j), ~j.blocker
    PROVE  Settled(j, JobNextState(j))
BY EnterNextSettled DEF JobNextState, MayMove

-----------------------------------------------------------------------------
(***************************************************************************)
(* The goal                                                                *)
(***************************************************************************)
Resting(j) == Good(j) /\ Core(j) /\ Rest(j) /\ j.spawn = NoProcess

\* No caller waits for the opposite of the goal.
GoalAllowed(j, goal) ==
    /\ goal = "start" => \A c \in Callers : ~Waits(j, c, "stop")
    /\ goal = "stop" /\ PlainService /\ j.failed /\ ~j.disable_respawn =>
            \A c \in Callers : ~Waits(j, c, "start")

\* Setting the goal changes nothing else.
LEMMA GoalFields ==
    ASSUME NEW j, Good(j), NEW goal \in Goals
    PROVE  LET g == [j EXCEPT !.goal = goal]
           IN  /\ Good(g) /\ g.goal = goal /\ g.state = j.state /\ g.pid = j.pid
               /\ g.reply = j.reply /\ g.cmd = j.cmd /\ g.emitted = j.emitted
               /\ g.spawn = j.spawn /\ g.kill_process = j.kill_process
               /\ g.failed = j.failed /\ g.aborted = j.aborted /\ g.result = j.result
               /\ g.disable_respawn = j.disable_respawn /\ g.blocker = j.blocker
BY GoalGood DEF Good, JobType

\* The goal by itself disturbs nothing that holds within a callback.
LEMMA GoalCore ==
    ASSUME NEW j, Good(j), Core(j), NEW goal \in {"start", "stop"}, GoalAllowed(j, goal)
    PROVE  Core([j EXCEPT !.goal = goal])
<1> DEFINE g == [j EXCEPT !.goal = goal]
<1>1. /\ g.goal = goal /\ g.state = j.state /\ g.pid = j.pid
      /\ g.reply = j.reply /\ g.cmd = j.cmd /\ g.emitted = j.emitted
      /\ g.kill_process = j.kill_process /\ g.failed = j.failed
      /\ g.aborted = j.aborted /\ g.result = j.result
      /\ g.disable_respawn = j.disable_respawn
  BY GoalFields DEF Goals
<1> HIDE DEF g
<1> QED BY <1>1 DEF Core, HasPid, Waits, StarterTold, GoalAllowed, g

\* job_change_goal(), for a job at rest that may have the new goal.
LEMMA ChangeGoalSettled ==
    ASSUME NEW j, Good(j), Rest(j), j.spawn = NoProcess,
           NEW goal \in {"start", "stop"}, Core([j EXCEPT !.goal = goal])
    PROVE  Settled(j, JobChangeGoal(j, goal))
<1> DEFINE g == [j EXCEPT !.goal = goal]
<1>1. /\ Good(g) /\ g.goal = goal /\ g.state = j.state /\ g.pid = j.pid
      /\ g.reply = j.reply /\ g.cmd = j.cmd /\ g.emitted = j.emitted
      /\ g.spawn = j.spawn /\ g.kill_process = j.kill_process
      /\ g.failed = j.failed /\ g.aborted = j.aborted /\ g.result = j.result
      /\ g.disable_respawn = j.disable_respawn /\ g.blocker = j.blocker
  <2>1. goal \in Goals
    BY DEF Goals
  <2> QED BY <2>1, GoalFields
<1>2. CASE /\ j.goal # goal
           /\ \/ goal = "start" /\ j.state = "waiting"
              \/ goal = "stop" /\ j.state = "running"
  <2>1. JobChangeGoal(j, goal) = JobNextState(g)
    BY <1>2 DEF JobChangeGoal
  <2>2. Core(g)
    OBVIOUS
  <2> HIDE DEF g
  <2>3. ScriptsGone(g)
    BY <1>1, <1>2, <2>2 DEF Core, ScriptsGone, ExpectedAt, ProcessType
  <2>4. MayMove(g) /\ ~g.blocker
    BY <1>1, <1>2, <2>2, <2>3 DEF MayMove, Movable, NextStateDefined, Rest, FailedAt, HasPid
  <2>5. Settled(g, JobNextState(g))
    BY <2>4, NextStateSettled
  <2> QED BY <1>1, <2>1, <2>5 DEF Settled, Outcome, Answers, Waits
<1>3. CASE /\ j.goal # goal
           /\ ~(goal = "start" /\ j.state = "waiting")
           /\ ~(goal = "stop" /\ j.state = "running")
  <2>1. JobChangeGoal(j, goal) = g
    BY <1>3 DEF JobChangeGoal
  <2>2. Core(g)
    OBVIOUS
  <2> HIDE DEF g
  <2>3. Rest(g) /\ Spawning(g)
    BY <1>1, <1>3 DEF Rest, FailedAt, HasPid, Spawning
  <2> QED BY <1>1, <2>1, <2>2, <2>3 DEF Settled, Outcome, Answers, Waits
<1>4. CASE j.goal = goal
  <2>1. JobChangeGoal(j, goal) = j
    BY <1>4 DEF JobChangeGoal
  <2>2. g = j
    BY <1>4 DEF Good, JobType
  <2> QED BY <2>1, <2>2 DEF Settled, Outcome, Spawning, Answers, Waits
<1> QED BY <1>2, <1>3, <1>4

\* Only a job that rests in waiting or running moves with its goal; stopping
\* it tells nobody anything.
LEMMA ChangeGoalState ==
    ASSUME NEW j, Good(j), NEW goal \in {"start", "stop"}
    PROVE  /\ j.state \notin {"waiting", "running"} => JobChangeGoal(j, goal).state = j.state
           /\ goal = "stop" =>
                /\ JobChangeGoal(j, "stop").reply = j.reply
                /\ JobChangeGoal(j, "stop").cmd = j.cmd
                /\ JobChangeGoal(j, "stop").goal = "stop"
                /\ j.state # "waiting" => JobChangeGoal(j, "stop").state # "waiting"
<1> DEFINE g == [j EXCEPT !.goal = goal]
<1>1. /\ Good(g) /\ g.goal = goal /\ g.state = j.state
      /\ g.reply = j.reply /\ g.cmd = j.cmd
  <2>1. goal \in Goals
    BY DEF Goals
  <2> QED BY <2>1, GoalFields
<1>2. JobChangeGoal(j, goal) = IF j.goal = goal THEN j
                               ELSE IF \/ goal = "start" /\ j.state = "waiting"
                                       \/ goal = "stop" /\ j.state = "running"
                               THEN JobNextState(g) ELSE g
  BY DEF JobChangeGoal
<1> HIDE DEF g
<1>3. ASSUME goal = "stop", j.state = "running"
      PROVE  LET k == JobNextState(g)
             IN  k.reply = g.reply /\ k.cmd = g.cmd /\ k.goal = "stop" /\ k.state # "waiting"
  <2>1. g \in JobType
    BY <1>1 DEF Good
  <2>2. JobNextState(g) \in
           {g, EnterStopping(g), JobProcessStart([g EXCEPT !.state = "pre-stop"], "pre-stop")}
    BY <1>1, <1>3 DEF JobNextState, NextStateDefined, EnterNext, EnterPreStopping, RunOrSkip
  <2>3. /\ EnterStopping(g).reply = g.reply /\ EnterStopping(g).cmd = g.cmd
        /\ EnterStopping(g).goal = g.goal /\ EnterStopping(g).state # "waiting"
    BY <2>1 DEF EnterStopping, JobEmitEvent, JobType
  <2>4. LET k == JobProcessStart([g EXCEPT !.state = "pre-stop"], "pre-stop")
        IN  k.reply = g.reply /\ k.cmd = g.cmd /\ k.goal = g.goal /\ k.state # "waiting"
    BY <2>1 DEF JobProcessStart, JobType
  <2> QED BY <1>1, <1>3, <2>2, <2>3, <2>4
<1> QED BY <1>1, <1>2, <1>3

\* job_change_goal() to stop, followed by job_change_state(), for a job that
\* has lost its main process: it moves once and not twice.
LEMMA StopAndMoveSettled ==
    ASSUME NEW j, Good(j), Core(j), j.spawn = NoProcess, GoalAllowed(j, "stop"),
           ~j.blocker, ~HasPid(j, "main"), j.kill_process = NoProcess,
           j.state \in {"security", "pre-start", "spawned", "post-start", "running",
                        "pre-stop", "post-stop"},
           j.state = "running" => j.goal # "stop",
           NEW move \in BOOLEAN,
           move => ScriptsGone(j),
           ~move => j.state \in {"post-start", "pre-stop"}
    PROVE  Settled(j, StopAndMove(j, move))
<1> DEFINE g == [j EXCEPT !.goal = "stop"]
<1>1. /\ Good(g) /\ g.goal = "stop" /\ g.state = j.state /\ g.pid = j.pid
      /\ g.reply = j.reply /\ g.cmd = j.cmd /\ g.emitted = j.emitted
      /\ g.spawn = j.spawn /\ g.kill_process = j.kill_process
      /\ g.failed = j.failed /\ g.aborted = j.aborted /\ g.result = j.result
      /\ g.disable_respawn = j.disable_respawn /\ g.blocker = j.blocker
  BY GoalFields DEF Goals
<1>2. Core(g)
  BY GoalCore
<1>3. move => Movable(g)
  BY <1>1, <1>2 DEF Movable, ScriptsGone, HasPid
<1>4. CASE j.state = "running"
  <2>1. JobChangeGoal(j, "stop") = JobNextState(g)
    BY <1>4 DEF JobChangeGoal
  <2> HIDE DEF g
  <2>2. JobNextState(g) = EnterStopping(g)
    BY <1>1, <1>4 DEF JobNextState, NextStateDefined, EnterNext, HasPid
  <2>3. EnterStopping(g).blocker /\ EnterStopping(g).goal = "stop"
        /\ EnterStopping(g).state = "stopping"
    BY <1>1 DEF EnterStopping, JobEmitEvent, Good, JobType
  <2>4. JobNextState(EnterStopping(g)) = EnterStopping(g)
    BY <2>3 DEF JobNextState, NextStateDefined
  <2>5. StopAndMove(j, move) = EnterStopping(g)
    BY <2>1, <2>2, <2>3, <2>4 DEF StopAndMove
  <2>6. Movable(g)
    BY <1>3, <1>4
  <2>7. Settled(g, EnterStopping(g))
    BY <1>1, <1>4, <2>6, EnterStoppingSettled
  <2> QED BY <1>1, <2>5, <2>7 DEF Settled, Outcome, Answers, Waits
<1>5. CASE j.state # "running"
  <2>1. JobChangeGoal(j, "stop") = g
    BY <1>5 DEF JobChangeGoal, Good, JobType
  <2>2. StopAndMove(j, move) = IF move THEN JobNextState(g) ELSE g
    BY <1>1, <1>5, <2>1 DEF StopAndMove
  <2> HIDE DEF g
  <2>3. CASE move
    <3>1. ~HasPid(g, "main") /\ ScriptsGone(g)
      BY <1>1, <2>3 DEF HasPid, ScriptsGone
    <3>2. MayMove(g)
      BY <1>1, <1>3, <1>5, <2>3, <3>1
         DEF MayMove, NextStateDefined, AllGone, ScriptsGone
    <3>3. Settled(g, JobNextState(g))
      BY <1>1, <3>2, NextStateSettled
    <3> QED BY <1>1, <2>2, <2>3, <3>3 DEF Settled, Outcome, Answers, Waits
  <2>4. CASE ~move
    <3>1. ~HasPid(g, "main") /\ ~HasPid(g, "security")
      BY <1>1, <1>2, <2>4 DEF HasPid, Core, ExpectedAt, ProcessType
    <3>2. Rest(g) /\ Spawning(g)
      BY <1>1, <2>4, <3>1 DEF Rest, FailedAt, Spawning
    <3> QED BY <1>1, <1>2, <2>2, <2>4, <3>2 DEF Settled, Outcome, Answers, Waits
  <2> QED BY <2>3, <2>4
<1> QED BY <1>4, <1>5

-----------------------------------------------------------------------------
(***************************************************************************)
(* The end of a process                                                    *)
(***************************************************************************)
\* g is what a handler makes of job j before the goal or the state changes:
\* it may have told callers of a failure, but of no success.
Prepared(j, g) ==
    /\ g.emitted = j.emitted /\ g.cmd = j.cmd /\ g.disable_respawn = j.disable_respawn
    /\ \A c \in Callers : g.reply[c] = j.reply[c] \/ g.reply[c] = "failed"

\* What the handler prepares does not change what it is to bring about.
LEMMA PreparedOutcome ==
    ASSUME NEW j, NEW g, NEW k, Prepared(j, g), Outcome(g, k),
           \A c \in Callers : j.reply[c] # "waiting" => g.reply[c] = j.reply[c]
    PROVE  Outcome(j, k)
BY DEF Prepared, Outcome, Answers, Waits

\* The pids without the one of process.
Without(j, process) == [j.pid EXCEPT ![process] = NoPid]

\* A process of a job at rest is gone, and its kill timer with it.
Cleared(j, process, g) ==
    /\ Good(g) /\ g.pid = Without(j, process) /\ g.kill_process = NoProcess
    /\ g.goal = j.goal /\ g.state = j.state /\ g.reply = j.reply /\ g.cmd = j.cmd
    /\ g.emitted = j.emitted /\ g.spawn = j.spawn /\ g.failed = j.failed
    /\ g.aborted = j.aborted /\ g.result = j.result
    /\ g.disable_respawn = j.disable_respawn /\ g.blocker = j.blocker

\* What is left is as sound as before.
LEMMA ClearedCore ==
    ASSUME NEW j, Resting(j), NEW process \in ProcessType, NEW g, Cleared(j, process, g)
    PROVE  /\ Core(g) /\ g.spawn = NoProcess /\ ~HasPid(g, process)
           /\ \A other \in ProcessType : HasPid(g, other) => HasPid(j, other)
<1>1. j.pid \in [ProcessType -> Pids \cup {NoPid}]
  BY DEF Resting, Good, JobType
<1>2. /\ ~HasPid(g, process)
      /\ \A other \in ProcessType : HasPid(g, other) => HasPid(j, other)
  BY <1>1 DEF Cleared, Without, HasPid
<1> QED BY <1>2 DEF Resting, Cleared, Core, Waits, StarterTold

\* job_failed() of a job that has not failed answers every caller.
LEMMA FailedFields ==
    ASSUME NEW g, Good(g)
    PROVE  LET f == JobFailed(g)
           IN  /\ Good(f) /\ f.failed /\ f.pid = g.pid /\ f.kill_process = g.kill_process
               /\ f.goal = g.goal /\ f.state = g.state /\ f.cmd = g.cmd
               /\ f.emitted = g.emitted /\ f.spawn = g.spawn
               /\ f.aborted = g.aborted /\ f.result = g.result
               /\ f.disable_respawn = g.disable_respawn /\ f.blocker = g.blocker
               /\ \A c \in Callers : \/ f.reply[c] = g.reply[c] /\ (g.failed \/ f.reply[c] # "waiting")
                                     \/ g.reply[c] = "waiting" /\ f.reply[c] = "failed"
<1>1. Good(JobFailed(g))
  BY FailedGood
<1> QED BY <1>1 DEF JobFailed, JobFinished, Good, JobType

\* A process whose failure stops the job: it fails, its callers are told and
\* it goes on to stopping or, from post-stop, to its end.
LEMMA FailAndStopSettled ==
    ASSUME NEW j, Resting(j), NEW process \in ProcessType, HasPid(j, process),
           NEW g, Cleared(j, process, g), ~HasPid(g, "main"),
           NEW move \in BOOLEAN,
           j.state \in {"security", "pre-start", "spawned", "post-start", "running",
                        "pre-stop", "post-stop"},
           j.state = "running" => j.goal # "stop",
           process = "main" \/ (process = j.state /\ process \notin {"post-start", "pre-stop"}),
           move => ScriptsGone(g),
           ~move => j.state \in {"post-start", "pre-stop"}
    PROVE  /\ Outcome(j, StopAndMove(JobFailed(g), move))
           /\ StopAndMove(JobFailed(g), move).pid = g.pid
<1> DEFINE f == JobFailed(g)
<1>1. Core(g) /\ g.spawn = NoProcess /\ Good(g)
  BY ClearedCore DEF Cleared
<1>2. /\ Good(f) /\ f.failed /\ f.pid = g.pid /\ f.kill_process = g.kill_process
      /\ f.goal = g.goal /\ f.state = g.state /\ f.cmd = g.cmd
      /\ f.emitted = g.emitted /\ f.spawn = g.spawn
      /\ f.aborted = g.aborted /\ f.result = g.result
      /\ f.disable_respawn = g.disable_respawn /\ f.blocker = g.blocker
      /\ \A c \in Callers : \/ f.reply[c] = g.reply[c] /\ (g.failed \/ f.reply[c] # "waiting")
                            \/ g.reply[c] = "waiting" /\ f.reply[c] = "failed"
  BY <1>1, FailedFields
<1> HIDE DEF f
<1>3. ~j.failed \/ ("post-stop" \in Procs /\ j.state = "post-stop")
  BY DEF Resting, Rest, FailedAt, Core, HasPid, ExpectedAt, ProcessType
<1>4. GoalAllowed(f, "stop") /\ StarterTold(f)
  BY <1>2, <1>3 DEF GoalAllowed, PlainService, Waits, Cleared, StarterTold
<1>5. Core(f) /\ f.spawn = NoProcess
  <2>1. f.state \notin {"stopping", "killed"}
    BY <1>2 DEF Cleared
  <2>2. \A p : HasPid(f, p) <=> HasPid(g, p)
    BY <1>2 DEF HasPid
  <2>3. \A c \in Callers, cmd \in {"start", "stop"} : Waits(f, c, cmd) => Waits(g, c, cmd)
    BY <1>2 DEF Waits
  <2> HIDE DEF f
  <2> QED BY <1>1, <1>2, <1>4, <2>1, <2>2, <2>3 DEF Core
<1>6. /\ ~f.blocker /\ ~HasPid(f, "main") /\ f.kill_process = NoProcess /\ f.state = j.state
      /\ f.goal = j.goal /\ (move => ScriptsGone(f))
  BY <1>2 DEF Cleared, Resting, Rest, HasPid, ScriptsGone
<1>7. Settled(f, StopAndMove(f, move))
  BY <1>2, <1>4, <1>5, <1>6, StopAndMoveSettled
<1>8. Prepared(j, f) /\ \A c \in Callers : j.reply[c] # "waiting" => f.reply[c] = j.reply[c]
  BY <1>2 DEF Prepared, Cleared
<1> QED BY <1>2, <1>7, <1>8, PreparedOutcome DEF Settled, f

\* A process whose end just takes the job on.
LEMMA GoneMoves ==
    ASSUME NEW j, Resting(j), NEW process \in ProcessType, HasPid(j, process),
           NEW g, Cleared(j, process, g), ScriptsGone(g),
           process = "main" => j.state # "stopping"
    PROVE  Outcome(j, JobNextState(g)) /\ JobNextState(g).pid = g.pid
<1>1. /\ Core(g) /\ g.spawn = NoProcess /\ Good(g) /\ ~HasPid(g, process)
      /\ \A other \in ProcessType : HasPid(g, other) => HasPid(j, other)
  BY ClearedCore DEF Cleared
<1>2. /\ process \in Procs /\ j.state \in ExpectedAt(process)
      /\ j.state \notin {"waiting", "starting"} /\ ~j.blocker
  BY DEF Resting, Core, Rest, ExpectedAt, ProcessType
<1>3. g.state \in {"killed", "post-stop"} => AllGone(g)
  BY <1>1, <1>2 DEF AllGone, ScriptsGone, Cleared, Core, ExpectedAt, ProcessType
<1>4. g.goal = "start" => FailedAt(g) /\ (g.state = "security" => ~g.failed)
  BY <1>1, <1>2 DEF Cleared, Resting, Rest, FailedAt, ExpectedAt, ProcessType
<1>5. g.state = "running" => FailedAt(g)
  BY <1>1 DEF Cleared, Resting, Rest, FailedAt, ProcessType
<1>6. NextStateDefined(g)
  BY <1>1, <1>2 DEF NextStateDefined, Cleared, Resting, Core, Good, JobType, Goals
<1>7. MayMove(g) /\ ~g.blocker
  BY <1>1, <1>2, <1>3, <1>4, <1>5, <1>6 DEF MayMove, Movable, Cleared
<1>8. Settled(g, JobNextState(g))
  BY <1>7, NextStateSettled
<1>9. Prepared(j, g) /\ \A c \in Callers : j.reply[c] # "waiting" => g.reply[c] = j.reply[c]
  BY DEF Prepared, Cleared
<1> QED BY <1>8, <1>9, PreparedOutcome DEF Settled

\* A job that is to stop leaves spawned for stopping only.
LEMMA SpawnedStops ==
    ASSUME NEW j, Good(j), j.state = "spawned", ~j.aborted
    PROVE  /\ j.goal = "stop" => JobNextState(j).state \in {"spawned", "stopping"}
           /\ \A move \in BOOLEAN : StopAndMove(j, move).state \in {"spawned", "stopping"}
           /\ EnterStopping(j).state = "stopping"
           /\ JobChangeGoal(j, "stop").state = "spawned"
<1>1. ASSUME NEW g, Good(g), g.state = "spawned", g.goal = "stop"
      PROVE  JobNextState(g).state \in {"spawned", "stopping"}
  BY <1>1 DEF JobNextState, NextStateDefined, EnterNext, EnterStopping, JobEmitEvent, Good, JobType
<1> DEFINE g == [j EXCEPT !.goal = "stop"]
<1>2. Good(g) /\ g.state = "spawned" /\ g.goal = "stop"
  BY GoalFields DEF Goals
<1>3. JobChangeGoal(j, "stop") = g
  BY DEF JobChangeGoal, Good, JobType
<1> HIDE DEF g
<1>4. ASSUME NEW move \in BOOLEAN
      PROVE  StopAndMove(j, move).state \in {"spawned", "stopping"}
  BY <1>1, <1>2, <1>3 DEF StopAndMove
<1>5. EnterStopping(j).state = "stopping"
  BY DEF EnterStopping, JobEmitEvent, Good, JobType
<1> QED BY <1>1, <1>2, <1>3, <1>4, <1>5

\* The end of the main process, wherever it comes.
LEMMA MainTerminatedOutcome ==
    ASSUME NEW j, Resting(j), HasPid(j, "main"), NEW status
    PROVE  /\ Outcome(j, MainTerminated(j, status))
           /\ MainTerminated(j, status).pid = Without(j, "main")
           /\ j.state = "spawned" =>
                 MainTerminated(j, status).state \notin {"post-start", "running"}
<1> DEFINE move   == ~ScriptRunning(j) /\ j.state # "stopping"
           gone   == ClearProcess(j, "main")
           caught == CatchRunaway(gone).job
           k      == MainTerminated(j, status)
<1> USE DEF ProcessType
<1>1. /\ j \in JobType /\ Good(j) /\ j.goal \in Goals
      /\ j.state \in {"spawned", "post-start", "running", "pre-stop", "stopping", "killed"}
  BY DEF Resting, Good, JobType, Core, ExpectedAt
<1>2. Cleared(j, "main", gone)
  <2>1. Good(gone)
    BY <1>1, ClearProcessGood
  <2> QED BY <1>1, <2>1 DEF Cleared, ClearProcess, Without, JobType
<1>3. Cleared(j, "main", caught)
  <2>1. Good(gone) /\ Good(caught)
    BY <1>2, CatchRunawayGood DEF Cleared
  <2> HIDE DEF gone
  <2>2. gone \in JobType
    BY <2>1 DEF Good
  <2>3. /\ caught.pid = gone.pid /\ caught.kill_process = gone.kill_process
        /\ caught.goal = gone.goal /\ caught.state = gone.state /\ caught.reply = gone.reply
        /\ caught.cmd = gone.cmd /\ caught.emitted = gone.emitted
        /\ caught.spawn = gone.spawn /\ caught.failed = gone.failed
        /\ caught.aborted = gone.aborted /\ caught.result = gone.result
        /\ caught.disable_respawn = gone.disable_respawn /\ caught.blocker = gone.blocker
    BY <2>2, ClassAssumption DEF CatchRunaway, JobType
  <2> QED BY <1>2, <2>1, <2>3 DEF Cleared
<1>4. move \in BOOLEAN
  OBVIOUS
<1>5. k = IF j.state \in {"killed", "stopping"} \/ j.goal # "start"
          THEN IF move THEN JobNextState(gone) ELSE gone
          ELSE IF ~(AbnormalExit(status) /\ Respawn /\ ~j.disable_respawn)
          THEN StopAndMove(IF AbnormalExit(status) THEN JobFailed(gone) ELSE gone, move)
          ELSE IF CatchRunaway(gone).runaway
          THEN StopAndMove(JobFailed(caught), move)
          ELSE IF ~move THEN JobChangeGoal(caught, "respawn")
          ELSE IF j.state = "spawned" THEN EnterStopping(caught)
          ELSE JobNextState(caught)
  BY DEF MainTerminated
<1>6. /\ move => ScriptsGone(gone) /\ ScriptsGone(caught)
      /\ ~move => j.state \in {"post-start", "pre-stop", "stopping"}
  <2>1. \A other \in ProcessType : HasPid(gone, other) \/ HasPid(caught, other) => HasPid(j, other)
    BY <1>2, <1>3, ClearedCore
  <2>2. move => ScriptsGone(j)
    BY <1>1 DEF ScriptRunning, ScriptsGone, Resting, Core, ExpectedAt
  <2>3. ~move => j.state \in {"post-start", "pre-stop", "stopping"}
    BY DEF ScriptRunning
  <2> QED BY <2>1, <2>2, <2>3 DEF ScriptsGone
<1> HIDE DEF k, gone, caught, move
<1>7. CASE j.state \in {"killed", "stopping"} \/ j.goal # "start"
  <2>1. CASE move
    <3>1. k = JobNextState(gone) /\ ScriptsGone(gone) /\ j.state # "stopping"
      BY <1>5, <1>6, <1>7, <2>1 DEF move
    <3>2. Outcome(j, k) /\ k.pid = gone.pid
      BY <1>2, <3>1, GoneMoves
    <3>3. j.state = "spawned" => k.state \in {"spawned", "stopping"}
      <4>1. j.state = "spawned" => gone.goal = "stop" /\ gone.state = "spawned" /\ ~gone.aborted
        BY <1>1, <1>2, <1>7 DEF Cleared, Resting, Core, Goals
      <4> QED BY <1>2, <3>1, <4>1, SpawnedStops DEF Cleared
    <3> QED BY <1>2, <3>2, <3>3 DEF Cleared, k
  <2>2. CASE ~move
    <3>1. k = gone /\ j.state \in {"post-start", "pre-stop", "stopping"}
      BY <1>5, <1>6, <1>7, <2>2
    <3>2. /\ Core(gone) /\ gone.spawn = NoProcess
          /\ \A other \in ProcessType : HasPid(gone, other) => HasPid(j, other)
      BY <1>2, ClearedCore
    <3>3. Rest(gone) /\ Spawning(gone)
      BY <1>2, <3>2 DEF Resting, Rest, FailedAt, Cleared, Spawning
    <3>4. Outcome(j, gone)
      BY <1>2, <3>2, <3>3 DEF Outcome, Answers, Waits, Cleared
    <3> QED BY <1>2, <3>1, <3>4 DEF Cleared, k
  <2> QED BY <2>1, <2>2
<1>8. CASE j.state \notin {"killed", "stopping"} /\ j.goal = "start"
  <2>1. /\ ~j.failed /\ ~j.blocker
        /\ j.state \in {"spawned", "post-start", "running", "pre-stop"}
    BY <1>1, <1>8 DEF Resting, Rest, FailedAt
  <2>2. /\ Core(gone) /\ gone.spawn = NoProcess /\ ~HasPid(gone, "main")
        /\ Core(caught) /\ caught.spawn = NoProcess /\ ~HasPid(caught, "main")
    BY <1>2, <1>3, ClearedCore
  <2>3. CASE k = StopAndMove(gone, move)
    <3>1. GoalAllowed(gone, "stop")
      BY <1>2, <2>1 DEF GoalAllowed, Cleared
    <3>2. Settled(gone, k)
      BY <1>2, <1>4, <1>6, <1>8, <2>1, <2>2, <2>3, <3>1, StopAndMoveSettled DEF Cleared
    <3>3. Outcome(j, k) /\ k.pid = gone.pid
      BY <1>2, <3>2, PreparedOutcome DEF Settled, Prepared, Cleared
    <3>4. j.state = "spawned" => k.state \in {"spawned", "stopping"}
      BY <1>2, <1>4, <2>2, <2>3, SpawnedStops DEF Cleared, Core
    <3> QED BY <1>2, <3>3, <3>4 DEF Cleared, k
  <2>4. ASSUME NEW g, Cleared(j, "main", g), move => ScriptsGone(g),
               k = StopAndMove(JobFailed(g), move)
        PROVE  /\ Outcome(j, k) /\ k.pid = Without(j, "main")
               /\ j.state = "spawned" => k.state \in {"spawned", "stopping"}
    <3>1. Core(g) /\ ~HasPid(g, "main") /\ Good(g)
      BY <2>4, ClearedCore DEF Cleared
    <3>2. Outcome(j, k) /\ k.pid = g.pid
      BY <1>4, <1>6, <1>8, <2>1, <2>4, <3>1, FailAndStopSettled
    <3>3. Good(JobFailed(g)) /\ JobFailed(g).state = j.state /\ ~JobFailed(g).aborted
      BY <2>4, <3>1, FailedFields DEF Core, Cleared
    <3>4. j.state = "spawned" => k.state \in {"spawned", "stopping"}
      BY <1>4, <2>4, <3>3, SpawnedStops
    <3> QED BY <2>4, <3>2, <3>4 DEF Cleared
  <2>5. CASE ~move /\ k = JobChangeGoal(caught, "respawn")
    <3> DEFINE g == [caught EXCEPT !.goal = "respawn"]
    <3>1. /\ Good(g) /\ g.goal = "respawn" /\ g.state = caught.state /\ g.pid = caught.pid
          /\ g.reply = caught.reply /\ g.cmd = caught.cmd /\ g.emitted = caught.emitted
          /\ g.spawn = caught.spawn /\ g.kill_process = caught.kill_process
          /\ g.failed = caught.failed /\ g.aborted = caught.aborted
          /\ g.result = caught.result
          /\ g.disable_respawn = caught.disable_respawn /\ g.blocker = caught.blocker
      BY <1>3, GoalFields DEF Cleared, Goals
    <3>2. k = g
      BY <1>3, <1>8, <2>5 DEF JobChangeGoal, Cleared
    <3>3. j.state \in {"post-start", "pre-stop"}
      BY <1>6, <2>1, <2>5
    <3> HIDE DEF g
    <3>4. Core(g)
      BY <1>3, <1>8, <2>1, <2>2, <3>1, <3>3 DEF Core, HasPid, Waits, StarterTold, Cleared
    <3>5. Rest(g) /\ Spawning(g)
      BY <1>3, <2>1, <2>2, <3>1, <3>3 DEF Rest, Spawning, FailedAt, Cleared
    <3>6. Outcome(j, g)
      BY <1>3, <3>1, <3>4, <3>5 DEF Outcome, Answers, Waits, Cleared
    <3> QED BY <1>3, <3>1, <3>2, <3>3, <3>6 DEF Cleared, k
  <2>6. CASE move /\ j.state = "spawned" /\ k = EnterStopping(caught)
    <3>1. Movable(caught)
      BY <1>3, <1>6, <2>2, <2>6 DEF Movable, Cleared
    <3>2. Settled(caught, k)
      BY <1>3, <1>8, <2>6, <3>1, EnterStoppingSettled DEF Cleared
    <3>3. Outcome(j, k) /\ k.pid = caught.pid
      BY <1>3, <3>2, PreparedOutcome DEF Settled, Prepared, Cleared
    <3>4. k.state = "stopping"
      BY <1>3, <2>2, <2>6, SpawnedStops DEF Cleared, Core
    <3> QED BY <1>3, <3>3, <3>4 DEF Cleared, k
  <2>7. CASE move /\ j.state # "spawned" /\ k = JobNextState(caught)
    <3>1. Outcome(j, k) /\ k.pid = caught.pid
      BY <1>3, <1>6, <2>1, <2>7, GoneMoves
    <3> QED BY <1>3, <2>7, <3>1 DEF Cleared, k
  <2>8. \/ k = StopAndMove(gone, move)
        \/ k = StopAndMove(JobFailed(gone), move)
        \/ k = StopAndMove(JobFailed(caught), move)
        \/ ~move /\ k = JobChangeGoal(caught, "respawn")
        \/ move /\ j.state = "spawned" /\ k = EnterStopping(caught)
        \/ move /\ j.state # "spawned" /\ k = JobNextState(caught)
    BY <1>5, <1>8
  <2> QED BY <1>2, <1>3, <1>6, <2>3, <2>4, <2>5, <2>6, <2>7, <2>8 DEF k
<1> QED BY <1>7, <1>8

\* The end of any other process: the job is in its state.
LEMMA ScriptTerminatedOutcome ==
    ASSUME NEW j, Resting(j), NEW process \in ProcessType \ {"main"}, HasPid(j, process),
           NEW status
    PROVE  /\ Outcome(j, ScriptTerminated(j, process, status))
           /\ ScriptTerminated(j, process, status).pid = Without(j, process)
<1> DEFINE gone == ClearProcess(j, process)
<1>1. j \in JobType /\ Good(j) /\ j.state = process /\ process \in Procs
  BY DEF Resting, Good, Core, ExpectedAt
<1>2. Cleared(j, process, gone)
  <2>1. Good(gone)
    BY <1>1, ClearProcessGood
  <2> QED BY <1>1, <2>1 DEF Cleared, ClearProcess, Without, JobType
<1> HIDE DEF gone
<1>3. Core(gone) /\ ~HasPid(gone, process)
  BY <1>2, ClearedCore
<1>4. ScriptsGone(gone)
  BY <1>1, <1>2, <1>3 DEF ScriptsGone, Core, ExpectedAt, Cleared
<1>5. CASE process \in {"security", "pre-start", "post-stop"} /\ status # 0
  <2>1. ~HasPid(gone, "main")
    BY <1>1, <1>2, <1>3, <1>5 DEF Core, ExpectedAt, Cleared, ProcessType
  <2>2. /\ Outcome(j, StopAndMove(JobFailed(gone), TRUE))
        /\ StopAndMove(JobFailed(gone), TRUE).pid = gone.pid
    <3>1. /\ process \in ProcessType /\ process \notin {"post-start", "pre-stop"}
          /\ j.state \in {"security", "pre-start", "spawned", "post-start", "running",
                          "pre-stop", "post-stop"}
          /\ j.state # "running"
      BY <1>1, <1>5
    <3> QED BY <1>1, <1>2, <1>4, <2>1, <3>1, FailAndStopSettled
  <2> QED BY <1>2, <1>5, <2>2 DEF ScriptTerminated, gone, Cleared
<1>6. CASE ~(process \in {"security", "pre-start", "post-stop"} /\ status # 0)
  <2>1. Outcome(j, JobNextState(gone)) /\ JobNextState(gone).pid = gone.pid
    BY <1>2, <1>4, GoneMoves
  <2> QED BY <1>2, <1>6, <2>1 DEF ScriptTerminated, gone, Cleared
<1> QED BY <1>5, <1>6

\* job_process_terminated(): the assertion on the state holds, and the job
\* goes on as it should.
LEMMA ProcessTerminatedOutcome ==
    ASSUME NEW j, Resting(j), NEW process \in ProcessType, HasPid(j, process), NEW status
    PROVE  LET k == JobProcessTerminated(j, process, status)
           IN  /\ Outcome(j, k)
               /\ k.pid = Without(j, process)
               /\ j.state = "spawned" => k.state \notin {"post-start", "running"}
<1>1. j.state \in ExpectedAt(process)
  BY DEF Resting, Core
<1>2. j.state \in ExpectedIn(process)
  BY <1>1 DEF ExpectedAt, ExpectedIn, ProcessType
<1>3. process # "main" => j.state # "spawned"
  BY <1>1 DEF ExpectedAt, ProcessType
<1> QED
  BY <1>2, <1>3, MainTerminatedOutcome, ScriptTerminatedOutcome DEF JobProcessTerminated

\* job_child_error_handler(), for a process whose pid the job still holds
\* and, if it is the main process, before the job has left spawned.
LEMMA ChildErrorHandlerOutcome ==
    ASSUME NEW j, Resting(j), NEW process \in ProcessType, HasPid(j, process),
           process = "main" => j.state = "spawned"
    PROVE  LET k == JobChildErrorHandler(j, process)
           IN  /\ Outcome(j, k)
               /\ k.pid = Without(j, process)
               /\ j.state = "spawned" => k.state \notin {"post-start", "running"}
<1> DEFINE gone   == [j EXCEPT !.pid[process] = NoPid]
           failed == JobChangeGoal(JobFailed(gone), "stop")
           k      == JobChildErrorHandler(j, process)
<1>1. /\ j \in JobType /\ Good(j) /\ process \in Procs
      /\ j.state = IF process = "main" THEN "spawned" ELSE process
  BY DEF Resting, Good, Core, ExpectedAt
<1>2. Cleared(j, process, gone)
  <2>1. Good(gone)
    BY <1>1 DEF Good, JobType
  <2>2. j.kill_process = NoProcess
    BY <1>1 DEF Resting, Core, ProcessType
  <2> QED BY <1>1, <2>1, <2>2 DEF Cleared, Without, JobType
<1>3. k = CASE process = "security" -> failed
            [] process \in {"pre-start", "main", "post-stop"} -> JobNextState(failed)
            [] process \in {"post-start", "pre-stop"} -> JobNextState(gone)
  BY DEF JobChildErrorHandler
<1> HIDE DEF gone, k
<1>4. Core(gone) /\ ~HasPid(gone, process) /\ gone.spawn = NoProcess
  BY <1>2, ClearedCore
<1>5. ScriptsGone(gone)
  BY <1>1, <1>2, <1>4 DEF ScriptsGone, Core, ExpectedAt, Cleared, ProcessType
<1>6. CASE process \in {"post-start", "pre-stop"}
  <2>1. Outcome(j, JobNextState(gone)) /\ JobNextState(gone).pid = gone.pid
    BY <1>2, <1>5, <1>6, GoneMoves
  <2>2. k = JobNextState(gone)
    BY <1>3, <1>6
  <2> QED BY <1>1, <1>2, <1>6, <2>1, <2>2 DEF k, Cleared
<1>7. CASE process \notin {"post-start", "pre-stop"}
  <2> DEFINE f == JobFailed(gone)
             g == [f EXCEPT !.goal = "stop"]
  <2>1. ~HasPid(gone, "main")
    BY <1>1, <1>2, <1>4, <1>7 DEF Core, ExpectedAt, Cleared, ProcessType
  <2>2. /\ Good(f) /\ f.failed /\ f.pid = gone.pid /\ f.kill_process = gone.kill_process
        /\ f.goal = gone.goal /\ f.state = gone.state /\ f.cmd = gone.cmd
        /\ f.emitted = gone.emitted /\ f.spawn = gone.spawn
        /\ f.aborted = gone.aborted /\ f.result = gone.result
        /\ f.disable_respawn = gone.disable_respawn /\ f.blocker = gone.blocker
        /\ \A c \in Callers :
              \/ f.reply[c] = gone.reply[c] /\ (gone.failed \/ f.reply[c] # "waiting")
              \/ gone.reply[c] = "waiting" /\ f.reply[c] = "failed"
    BY <1>2, FailedFields DEF Cleared
  <2> HIDE DEF f
  <2>3. /\ Good(g) /\ g.goal = "stop" /\ g.state = f.state /\ g.pid = f.pid
        /\ g.reply = f.reply /\ g.cmd = f.cmd /\ g.emitted = f.emitted
        /\ g.spawn = f.spawn /\ g.kill_process = f.kill_process
        /\ g.failed = f.failed /\ g.aborted = f.aborted /\ g.result = f.result
        /\ g.disable_respawn = f.disable_respawn /\ g.blocker = f.blocker
    BY <2>2, GoalFields DEF Goals
  <2>4. f.state # "running" /\ f.state = j.state
    BY <1>1, <1>2, <2>2 DEF Cleared, ProcessType
  <2>5. failed = g
    BY <2>2, <2>4 DEF JobChangeGoal, f, Good, JobType
  <2> HIDE DEF g, failed
  <2>6. CASE process = "security"
    <3>1. ~j.failed
      BY <1>1, <2>6 DEF Resting, Rest, FailedAt
    <3>2. k = g
      BY <1>3, <2>5, <2>6
    <3>3. ~HasPid(g, "main") /\ ~HasPid(g, "security")
      BY <1>4, <2>1, <2>2, <2>3, <2>6 DEF HasPid
    <3>4. Core(g)
      BY <1>1, <1>2, <1>4, <2>2, <2>3, <2>6, <3>1 DEF Core, HasPid, Waits, StarterTold, Cleared
    <3>5. Rest(g) /\ Spawning(g)
      BY <1>1, <1>2, <1>4, <2>2, <2>3, <2>6, <3>3
         DEF Rest, FailedAt, Spawning, Cleared, Resting
    <3>6. Outcome(j, g)
      BY <1>2, <2>2, <2>3, <3>4, <3>5 DEF Outcome, Answers, Waits, Cleared
    <3> QED BY <1>1, <1>2, <2>2, <2>3, <2>6, <3>2, <3>6 DEF k, Cleared
  <2>7. CASE process # "security"
    <3>1. k = JobNextState(failed)
      BY <1>3, <1>7, <2>7 DEF ProcessType
    <3>2. failed.state # "running"
      BY <2>3, <2>4, <2>5
    <3>3. StopAndMove(f, TRUE) = JobNextState(failed)
      BY <3>2 DEF StopAndMove, failed, f
    <3>4. Outcome(j, StopAndMove(f, TRUE)) /\ StopAndMove(f, TRUE).pid = gone.pid
      <4>1. /\ j.state \in {"security", "pre-start", "spawned", "post-start", "running",
                            "pre-stop", "post-stop"}
            /\ j.state # "running"
            /\ process = "main" \/ (process = j.state /\ process \notin {"post-start", "pre-stop"})
        BY <1>1, <1>7 DEF ProcessType
      <4> QED BY <1>2, <1>5, <2>1, <4>1, FailAndStopSettled DEF f
    <3>5. j.state = "spawned" => StopAndMove(f, TRUE).state \in {"spawned", "stopping"}
      BY <1>4, <2>2, <2>4, SpawnedStops DEF Core
    <3> QED BY <1>2, <3>1, <3>3, <3>4, <3>5 DEF k, Cleared
  <2> QED BY <2>6, <2>7
<1> QED BY <1>6, <1>7

-----------------------------------------------------------------------------
(***************************************************************************)
(* The job and its children                                                *)
(***************************************************************************)
\* A child that is alive, or of which something is still to be read, is the
\* one recorded for its process.
Recorded(pid, ch) ==
    \A p \in Pids :
        ch[p].life \in {"setup", "running"} \/ ch[p].pipe # "none" \/ ch[p].ready =>
            ch[p].process \in ProcessType /\ pid[ch[p].process] = p

\* A pid that is recorded is that of a child of the process, not yet reaped.
Known(pid, ch) ==
    \A process \in ProcessType : pid[process] # NoPid =>
        ch[pid[process]].process = process /\ ch[pid[process]].life # "none"

\* How far a child is tells what its pipes can hold.
Stages(ch) ==
    \A p \in Pids :
        /\ ch[p].life = "none" => ch[p] = NoChild
        /\ ch[p].pipe = "open" => ch[p].life = "setup"
        /\ ch[p].pipe = "error" => ch[p].life = "zombie"
        /\ ch[p].pipe = "eof" => ch[p].life # "setup"
        /\ ch[p].ready => /\ ch[p].process = "main" /\ ch[p].life # "setup"
                          /\ ch[p].pipe \in {"none", "eof"}

Linked(pid, ch) == Recorded(pid, ch) /\ Known(pid, ch) /\ Stages(ch)

\* The main process may still be in its set-up, or have failed in it.
InSetUp(ch, p) == ch[p].process = "main" /\ ch[p].pipe \in {"open", "error"}

\* It is so only while the job waits for it in spawned.
MainSetUp(state, ch) == \A p \in Pids : InSetUp(ch, p) => state = "spawned"

Safe ==
    /\ Core(job) /\ Rest(job)
    /\ Linked(job.pid, child)
    /\ MainSetUp(job.state, child)

\* The end of a callback records the child it forked, under a process that
\* had none, or closes the pipes of an instance that is gone.
LEMMA CommitSafe ==
    ASSUME NEW k, Good(k), Core(k), Rest(k), Spawning(k),
           NEW ch, GoodChildren(ch), Linked(k.pid, ch), MainSetUp(k.state, ch),
           Commit(k, ch)
    PROVE  /\ Safe'
           /\ job'.state = k.state /\ job'.emitted = k.emitted /\ job'.result = k.result
           /\ job'.reply = k.reply
<1>1. k \in JobType /\ ch \in [Pids -> ChildType]
  BY DEF Good, GoodChildren
<1>2. k.pid \in [ProcessType -> Pids \cup {NoPid}] /\ NoPid \notin Pids
  BY <1>1, PidsAssumption DEF JobType
<1>3. CASE k.spawn # NoProcess
  <2>1. PICK p \in Pids :
            /\ ch[p] = NoChild
            /\ job' = [k EXCEPT !.spawn = NoProcess, !.pid[k.spawn] = p]
            /\ child' = [ch EXCEPT ![p] = NewChild(k.spawn)]
    BY <1>3 DEF Commit, Free
  <2> DEFINE process == k.spawn
  <2>2. process \in ProcessType /\ process # NoProcess
    BY <1>1, <1>3 DEF JobType
  <2>3. /\ job'.pid = [k.pid EXCEPT ![process] = p]
        /\ job'.state = k.state /\ job'.emitted = k.emitted /\ job'.result = k.result
        /\ job'.reply = k.reply /\ job'.goal = k.goal /\ job'.kill_process = k.kill_process
        /\ job'.failed = k.failed /\ job'.aborted = k.aborted /\ job'.cmd = k.cmd
        /\ job'.disable_respawn = k.disable_respawn /\ job'.blocker = k.blocker
    BY <1>1, <2>1 DEF JobType
  <2>4. /\ child'[p].process = process /\ child'[p].life = "setup"
        /\ child'[p].pipe = "open" /\ ~child'[p].ready
        /\ \A q \in Pids \ {p} : child'[q] = ch[q]
    BY <1>1, <2>1 DEF NewChild, NoChild
  <2>5. ch[p].life = "none" /\ k.pid[process] = NoPid /\ process \in Procs
        /\ k.state \in ExpectedAt(process)
        /\ (process = "main" => k.state = "spawned")
        /\ (process = "main" \/ process = "security" => ~k.failed)
    BY <1>3, <2>1 DEF NoChild, Spawning, HasPid
  <2> HIDE DEF process
  <2>6. /\ job'.pid[process] = p
        /\ \A other \in ProcessType \ {process} : job'.pid[other] = k.pid[other]
    BY <1>2, <2>2, <2>3
  <2>7. Recorded(job.pid, child)'
    BY <1>2, <2>2, <2>4, <2>5, <2>6 DEF Recorded, Linked
  <2>8. Known(job.pid, child)'
    BY <1>2, <2>2, <2>4, <2>5, <2>6 DEF Known, Linked
  <2>9. Stages(child)'
    BY <2>4 DEF Stages, Linked
  <2>10. MainSetUp(job.state, child)'
    BY <2>3, <2>4, <2>5 DEF MainSetUp, InSetUp
  <2>11. Core(job)'
    BY <1>2, <2>2, <2>3, <2>5, <2>6 DEF Core, HasPid, Waits, StarterTold, ProcessType
  <2>12. Rest(job)'
    BY <2>2, <2>3, <2>5, <2>6 DEF Rest, FailedAt, HasPid, ProcessType
  <2> QED BY <2>3, <2>7, <2>8, <2>9, <2>10, <2>11, <2>12 DEF Safe, Linked
<1>4. CASE k.spawn = NoProcess /\ k.state # "waiting"
  <2>1. job' = k /\ child' = ch
    BY <1>4 DEF Commit
  <2> QED BY <2>1 DEF Safe
<1>5. CASE k.spawn = NoProcess /\ k.state = "waiting"
  <2>1. job' = k /\ child' = ClosePipes(ch)
    BY <1>5 DEF Commit
  <2>2. \A process \in ProcessType : k.pid[process] = NoPid
    BY <1>5 DEF Core, HasPid, ExpectedAt, ProcessType
  <2>3. \A p \in Pids : /\ ch[p].life \in {"none", "zombie"} /\ ch[p].pipe = "none"
                        /\ ~ch[p].ready
    BY <1>1, <1>2, <2>2 DEF Linked, Recorded, ChildType
  <2>4. \A p \in Pids : /\ child'[p].life = ch[p].life /\ child'[p].pipe = "none"
                        /\ ~child'[p].ready
                        /\ child'[p].life = "none" => child'[p] = NoChild
    BY <1>1, <2>1, <2>3 DEF ClosePipes, NoChild, ChildType
  <2>5. Linked(job.pid, child)'
    BY <2>1, <2>2, <2>3, <2>4 DEF Linked, Recorded, Known, Stages
  <2>6. MainSetUp(job.state, child)'
    BY <2>4 DEF MainSetUp, InSetUp
  <2> QED BY <2>1, <2>5, <2>6 DEF Safe
<1> QED BY <1>3, <1>4, <1>5

-----------------------------------------------------------------------------
(***************************************************************************)
(* Every action preserves Safe, and what it does to the events, to the     *)
(* state and to the callers is as it should be                             *)
(***************************************************************************)
EventStep == job'.emitted # job.emitted => <<job.emitted, job'.emitted>> \in EventSteps

ReadyStep ==
    job.state = "spawned" /\ job'.state \in {"post-start", "running"} =>
        \E p \in Pids :
            /\ job.pid["main"] = p
            /\ child[p].life # "setup"
            /\ Expect # "none" => child[p].ready

\* A callback that leaves the children as they are, but for a fork.
LEMMA QuietCommit ==
    ASSUME IInv, Safe, NEW k, Good(k), Outcome(job, k), k.pid = job.pid,
           Commit(k, child), job.state # "spawned" \/ k.state = "spawned"
    PROVE  Safe' /\ EventStep /\ ReadyStep /\ Answers(job, job')
<1>1. MainSetUp(k.state, child)
  BY DEF Safe, MainSetUp
<1>2. /\ Safe'
      /\ job'.state = k.state /\ job'.emitted = k.emitted /\ job'.result = k.result
      /\ job'.reply = k.reply
  BY <1>1, CommitSafe DEF IInv, Safe, Outcome
<1> QED BY <1>2 DEF EventStep, ReadyStep, Outcome, Answers, Waits

\* The caller of a command is the only one that may wait after it.
LEMMA AskFields ==
    ASSUME NEW j, Good(j), NEW c \in Callers, NEW cmd \in Commands, NEW wait \in BOOLEAN
    PROVE  LET a == Ask(j, c, cmd, wait)
           IN  /\ Good(a) /\ a.pid = j.pid /\ a.kill_process = j.kill_process
               /\ a.goal = j.goal /\ a.state = j.state /\ a.failed = j.failed
               /\ a.emitted = j.emitted /\ a.spawn = j.spawn
               /\ a.aborted = j.aborted /\ a.result = j.result
               /\ a.disable_respawn = j.disable_respawn /\ a.blocker = j.blocker
               /\ a.cmd[c] = cmd
               /\ \A d \in Callers \ {c} : a.reply[d] # "waiting"
<1>1. Good(Ask(j, c, cmd, wait))
  BY AskGood
<1>2. j \in JobType /\ \A d \in Callers : j.reply[d] = "waiting" <=> d \in j.blocking
  BY DEF Good
<1> QED BY <1>1, <1>2 DEF Ask, JobFinished, JobType

\* A command takes the job at rest to the goal it asks for.
LEMMA AskSettled ==
    ASSUME IInv, Safe, NEW c \in Callers, NEW cmd \in Commands, NEW wait \in BOOLEAN,
           NEW goal \in {"start", "stop"}, cmd = goal \/ cmd = "restart"
    PROVE  Settled(Ask(job, c, cmd, wait), JobChangeGoal(Ask(job, c, cmd, wait), goal))
<1> DEFINE a == Ask(job, c, cmd, wait)
           g == [a EXCEPT !.goal = goal]
<1>1. /\ Good(a) /\ a.pid = job.pid /\ a.kill_process = job.kill_process
      /\ a.goal = job.goal /\ a.state = job.state /\ a.failed = job.failed
      /\ a.emitted = job.emitted /\ a.spawn = job.spawn
      /\ a.aborted = job.aborted /\ a.result = job.result
      /\ a.disable_respawn = job.disable_respawn /\ a.blocker = job.blocker
      /\ a.cmd[c] = cmd
      /\ \A d \in Callers \ {c} : a.reply[d] # "waiting"
  BY AskFields DEF IInv
<1> HIDE DEF a
<1>2. /\ g.goal = goal /\ g.state = a.state /\ g.pid = a.pid
      /\ g.reply = a.reply /\ g.cmd = a.cmd /\ g.emitted = a.emitted
      /\ g.kill_process = a.kill_process /\ g.failed = a.failed
      /\ g.aborted = a.aborted /\ g.result = a.result
      /\ g.disable_respawn = a.disable_respawn
  <2>1. goal \in Goals
    BY DEF Goals
  <2> QED BY <1>1, <2>1, GoalFields
<1> HIDE DEF g
<1>3. \A d \in Callers : \A other \in Commands : Waits(g, d, other) => other = cmd
  BY <1>1, <1>2 DEF Waits
<1>4. Core(g)
  BY <1>1, <1>2, <1>3 DEF Safe, Core, HasPid, StarterTold, Commands
<1>5. Rest(a) /\ a.spawn = NoProcess
  BY <1>1 DEF Safe, IInv, Rest, FailedAt, HasPid
<1> QED BY <1>1, <1>4, <1>5, ChangeGoalSettled DEF a, g

\* The commands keep the job and its children safe.
LEMMA CommandSafe ==
    ASSUME IInv, Safe, Command
    PROVE  Safe' /\ EventStep /\ ReadyStep
<1>1. PICK c \in Callers, wait \in BOOLEAN :
            JobStart(c, wait) \/ JobStop(c, wait) \/ JobRestart(c, wait)
  BY DEF Command
<1>2. Good(job) /\ GoodChildren(child) /\ job.spawn = NoProcess
  BY DEF IInv
<1>3. ASSUME NEW cmd \in Commands, NEW k, Good(k),
             Settled(Ask(job, c, cmd, wait), k), Commit(k, child),
             job.state # "spawned" \/ k.state = "spawned"
      PROVE  Safe' /\ EventStep /\ ReadyStep
  <2> DEFINE a == Ask(job, c, cmd, wait)
  <2>1. a.pid = job.pid /\ a.emitted = job.emitted
    BY <1>2, AskFields
  <2> HIDE DEF a
  <2>2. /\ Core(k) /\ Rest(k) /\ Spawning(k) /\ k.pid = job.pid
        /\ k.emitted # job.emitted => <<job.emitted, k.emitted>> \in EventSteps
    BY <1>3, <2>1 DEF Settled, Outcome, a
  <2>3. MainSetUp(k.state, child)
    BY <1>3 DEF Safe, MainSetUp
  <2>4. Linked(k.pid, child)
    BY <2>2 DEF Safe
  <2>5. Safe' /\ job'.state = k.state /\ job'.emitted = k.emitted
    BY <1>2, <1>3, <2>2, <2>3, <2>4, CommitSafe
  <2> QED BY <1>3, <2>2, <2>5 DEF EventStep, ReadyStep
<1>4. CASE JobStart(c, wait) \/ JobStop(c, wait)
  <2>1. PICK goal \in {"start", "stop"} :
            Commit(JobChangeGoal(Ask(job, c, goal, wait), goal), child)
    BY <1>4 DEF JobStart, JobStop
  <2> DEFINE a == Ask(job, c, goal, wait)
             k == JobChangeGoal(a, goal)
  <2>2. goal \in Commands /\ goal \in Goals
    BY DEF Commands, Goals
  <2>3. Good(a) /\ a.state = job.state
    BY <1>2, <2>2, AskFields
  <2>4. Settled(a, k)
    BY <2>2, AskSettled
  <2> HIDE DEF a
  <2>5. Good(k)
    BY <2>2, <2>3, ChangeGoalGood
  <2>6. job.state # "spawned" \/ k.state = "spawned"
    BY <2>3, ChangeGoalState
  <2> QED BY <1>3, <2>1, <2>2, <2>4, <2>5, <2>6 DEF a
<1>5. CASE JobRestart(c, wait)
  <2> DEFINE a == Ask(job, c, "restart", wait)
             s == JobChangeGoal(a, "stop")
             k == JobChangeGoal(s, "start")
  <2>1. /\ Good(a) /\ a.state = job.state /\ a.goal = job.goal /\ a.cmd[c] = "restart"
        /\ \A d \in Callers \ {c} : a.reply[d] # "waiting"
    BY <1>2, AskFields DEF Commands
  <2>2. Settled(a, s)
    BY AskSettled DEF Commands
  <2> HIDE DEF a
  <2>3. Good(s)
    BY <2>1, ChangeGoalGood DEF Goals
  <2>4. s.reply = a.reply /\ s.cmd = a.cmd /\ s.goal = "stop" /\ s.state # "waiting"
    <3>1. job.state # "waiting"
      BY <1>5 DEF JobRestart, Safe, Rest
    <3> QED BY <2>1, <3>1, ChangeGoalState
  <2>5. job.state = "spawned" => s.state = "spawned"
    BY <2>1, ChangeGoalState
  <2> HIDE DEF s
  <2> DEFINE g == [s EXCEPT !.goal = "start"]
  <2>6. k = g
    BY <2>4 DEF JobChangeGoal
  <2>7. /\ Good(g) /\ g.goal = "start" /\ g.state = s.state /\ g.pid = s.pid
        /\ g.reply = s.reply /\ g.cmd = s.cmd /\ g.emitted = s.emitted
        /\ g.spawn = s.spawn /\ g.kill_process = s.kill_process
        /\ g.failed = s.failed /\ g.aborted = s.aborted /\ g.result = s.result
        /\ g.disable_respawn = s.disable_respawn /\ g.blocker = s.blocker
    BY <2>3, GoalFields DEF Goals
  <2>8. Core(g)
    <3>1. GoalAllowed(s, "start")
      BY <2>1, <2>4 DEF GoalAllowed, Waits
    <3> QED BY <2>2, <2>3, <3>1, GoalCore DEF Settled, Outcome
  <2> HIDE DEF g
  <2>9. Rest(g) /\ Spawning(g)
    BY <2>2, <2>4, <2>7 DEF Settled, Outcome, Rest, Spawning, FailedAt, HasPid
  <2>10. Settled(a, g)
    BY <2>2, <2>7, <2>8, <2>9 DEF Settled, Outcome, Answers, Waits
  <2>11. Commit(g, child)
    BY <1>5, <2>6 DEF JobRestart, a, s
  <2> QED BY <1>3, <2>5, <2>7, <2>10, <2>11 DEF a, Commands
<1> QED BY <1>1, <1>4, <1>5

\* The steps of the job that concern no child keep it safe: the kill timer
\* finds the process it was set for.
LEMMA JobStepSafe ==
    ASSUME IInv, Safe, Quiesce \/ BlockerFinished \/ KillTimer \/ IntervalPasses
    PROVE  Safe' /\ EventStep /\ ReadyStep /\ Answers(job, job')
<1>1. /\ job \in JobType /\ Good(job) /\ GoodChildren(child) /\ job.spawn = NoProcess
      /\ Core(job) /\ Rest(job)
  BY DEF IInv, Safe, Good
<1>2. CASE Quiesce
  <2> DEFINE q == [job EXCEPT !.disable_respawn = TRUE]
             g == [q EXCEPT !.goal = "stop"]
             k == JobChangeGoal(q, "stop")
  <2>1. /\ Good(q) /\ q.disable_respawn /\ q.goal = job.goal /\ q.state = job.state
        /\ q.pid = job.pid /\ q.reply = job.reply /\ q.cmd = job.cmd
        /\ q.emitted = job.emitted /\ q.spawn = job.spawn
        /\ q.kill_process = job.kill_process /\ q.failed = job.failed
        /\ q.aborted = job.aborted /\ q.result = job.result /\ q.blocker = job.blocker
    BY <1>1 DEF Good, JobType
  <2> HIDE DEF q
  <2>2. Core(q) /\ Rest(q)
    BY <1>1, <2>1 DEF Core, HasPid, Waits, StarterTold, Rest, FailedAt
  <2>3. Core(g)
    BY <2>1, <2>2, GoalCore DEF GoalAllowed
  <2>4. Settled(q, k)
    BY <1>1, <2>1, <2>2, <2>3, ChangeGoalSettled
  <2>5. Good(k)
    BY <2>1, ChangeGoalGood DEF Goals
  <2>6. k.reply = q.reply /\ k.cmd = q.cmd /\ (q.state = "spawned" => k.state = "spawned")
    BY <2>1, ChangeGoalState
  <2>7. Outcome(job, k) /\ k.pid = job.pid
    BY <2>1, <2>4, <2>6 DEF Settled, Outcome, Answers, Waits
  <2>8. Commit(k, child)
    BY <1>2 DEF Quiesce, q
  <2> QED BY <2>1, <2>5, <2>6, <2>7, <2>8, QuietCommit
<1>3. CASE BlockerFinished
  <2> DEFINE b == [job EXCEPT !.blocker = FALSE]
             k == JobNextState(b)
  <2>1. /\ Good(b) /\ ~b.blocker /\ b.goal = job.goal /\ b.state = job.state
        /\ b.pid = job.pid /\ b.reply = job.reply /\ b.cmd = job.cmd
        /\ b.emitted = job.emitted /\ b.spawn = job.spawn
        /\ b.kill_process = job.kill_process /\ b.failed = job.failed
        /\ b.aborted = job.aborted /\ b.result = job.result
        /\ b.disable_respawn = job.disable_respawn
    BY <1>1 DEF Good, JobType
  <2>2. job.state \in {"starting", "stopping"}
    BY <1>1, <1>3 DEF BlockerFinished, Rest
  <2> HIDE DEF b
  <2>3. Core(b) /\ FailedAt(b)
    BY <1>1, <2>1 DEF Core, HasPid, Waits, StarterTold, Rest, FailedAt
  <2>4. ScriptsGone(b)
    BY <2>1, <2>2, <2>3 DEF ScriptsGone, Core, ExpectedAt, ProcessType
  <2>5. NextStateDefined(b)
    BY <2>1, <2>2, <2>3 DEF NextStateDefined, Core, Good, JobType, Goals
  <2>6. MayMove(b)
    BY <1>1, <2>1, <2>2, <2>3, <2>4, <2>5 DEF MayMove, Movable
  <2>7. Settled(b, k)
    BY <2>1, <2>6, NextStateSettled
  <2>8. Outcome(job, k) /\ k.pid = job.pid
    BY <2>1, <2>7 DEF Settled, Outcome, Answers, Waits
  <2>9. Good(k)
    BY <2>1, NextStateGood
  <2>10. Commit(k, child)
    BY <1>3 DEF BlockerFinished, b
  <2> QED BY <2>2, <2>8, <2>9, <2>10, QuietCommit
<1>4. CASE KillTimer
  <2> DEFINE p == job.pid["main"]
  <2>1. job.kill_process = "main" /\ p # NoPid /\ p \in Pids
    BY <1>1, <1>4 DEF KillTimer, Core, HasPid, JobType, ProcessType
  <2>2. /\ job' = [job EXCEPT !.kill_process = NoProcess]
        /\ child' = [child EXCEPT ![p].killed = KillWorks]
    BY <1>4, <2>1 DEF KillTimer
  <2>3. /\ job'.kill_process = NoProcess /\ job'.goal = job.goal /\ job'.state = job.state
        /\ job'.pid = job.pid /\ job'.reply = job.reply /\ job'.cmd = job.cmd
        /\ job'.emitted = job.emitted /\ job'.failed = job.failed
        /\ job'.aborted = job.aborted /\ job'.result = job.result
        /\ job'.disable_respawn = job.disable_respawn /\ job'.blocker = job.blocker
    BY <1>1, <2>2 DEF JobType
  <2>4. child[p].life # "none"
    BY <2>1 DEF Safe, Linked, Known, ProcessType
  <2> HIDE DEF p
  <2>5. /\ child' \in [Pids -> ChildType]
        /\ \A q \in Pids : /\ child'[q].life = child[q].life /\ child'[q].pipe = child[q].pipe
                           /\ child'[q].ready = child[q].ready
                           /\ child'[q].process = child[q].process
                           /\ q # p => child'[q] = child[q]
    BY <1>1, <2>1, <2>2, EnvironmentAssumption DEF GoodChildren, ChildType
  <2>6. Core(job)' /\ Rest(job)'
    BY <1>1, <2>3 DEF Core, HasPid, Waits, StarterTold, Rest, FailedAt
  <2>7. Recorded(job.pid, child)' /\ MainSetUp(job.state, child)' /\ Stages(child)'
    BY <2>3, <2>4, <2>5 DEF Safe, Linked, Recorded, MainSetUp, InSetUp, Stages
  <2>8. Known(job.pid, child)'
    BY <1>1, <2>3, <2>5 DEF Safe, Linked, Known, JobType
  <2> QED BY <2>3, <2>6, <2>7, <2>8
          DEF Safe, Linked, EventStep, ReadyStep, Answers, Waits
<1>5. CASE IntervalPasses
  <2>1. /\ job'.kill_process = job.kill_process /\ job'.goal = job.goal
        /\ job'.state = job.state
        /\ job'.pid = job.pid /\ job'.reply = job.reply /\ job'.cmd = job.cmd
        /\ job'.emitted = job.emitted /\ job'.failed = job.failed
        /\ job'.aborted = job.aborted /\ job'.result = job.result
        /\ job'.disable_respawn = job.disable_respawn /\ job'.blocker = job.blocker
        /\ child' = child
    BY <1>1, <1>5 DEF IntervalPasses, JobType
  <2>2. Core(job)' /\ Rest(job)'
    BY <1>1, <2>1 DEF Core, HasPid, Waits, StarterTold, Rest, FailedAt
  <2> QED BY <2>1, <2>2 DEF Safe, EventStep, ReadyStep, Answers, Waits
<1> QED BY <1>2, <1>3, <1>4, <1>5

\* What a child does by itself keeps it the one recorded for its process.
LEMMA ChildSafe ==
    ASSUME IInv, Safe, NEW p \in Pids, Child(p)
    PROVE  Safe' /\ EventStep /\ ReadyStep /\ Answers(job, job')
<1>1. /\ job' = job /\ child \in [Pids -> ChildType]
      /\ job.pid \in [ProcessType -> Pids \cup {NoPid}]
  BY DEF IInv, GoodChildren, Good, JobType, Child, ChildExec, ChildAbort, ChildDie, ChildReady
<1>2. child[p].life \in {"setup", "running"}
  BY DEF Child, ChildExec, ChildAbort, ChildDie, ChildReady
<1>3. /\ child'[p].process = child[p].process /\ child'[p].life # "none"
      /\ \A q \in Pids \ {p} : child'[q] = child[q]
      /\ child'[p].pipe = "open" => child'[p].life = "setup"
      /\ child'[p].pipe = "error" => child'[p].life = "zombie"
      /\ child'[p].pipe = "eof" => child'[p].life # "setup"
      /\ child'[p].ready => /\ child'[p].process = "main" /\ child'[p].life # "setup"
                            /\ child'[p].pipe \in {"none", "eof"}
      /\ child'[p].pipe \in {"open", "error"} => child[p].pipe \in {"open", "error"}
  <2>0. /\ child[p] \in ChildType
        /\ child[p].pipe = "open" => child[p].life = "setup"
        /\ child[p].pipe = "error" => child[p].life = "zombie"
        /\ child[p].pipe = "eof" => child[p].life # "setup"
        /\ child[p].ready => /\ child[p].process = "main" /\ child[p].life # "setup"
                             /\ child[p].pipe \in {"none", "eof"}
    BY <1>1 DEF Safe, Linked, Stages
  <2>1. CASE ChildExec(p)
    BY <1>1, <2>0, <2>1 DEF ChildExec, ChildType
  <2>2. CASE ChildAbort(p)
    BY <1>1, <2>0, <2>2 DEF ChildAbort, ChildType
  <2>3. ASSUME NEW status \in Statuses, ChildDie(p, status)
        PROVE  /\ child'[p].process = child[p].process /\ child'[p].life # "none"
               /\ \A q \in Pids \ {p} : child'[q] = child[q]
               /\ child'[p].pipe = "open" => child'[p].life = "setup"
               /\ child'[p].pipe = "error" => child'[p].life = "zombie"
               /\ child'[p].pipe = "eof" => child'[p].life # "setup"
               /\ child'[p].ready => /\ child'[p].process = "main" /\ child'[p].life # "setup"
                                     /\ child'[p].pipe \in {"none", "eof"}
               /\ child'[p].pipe \in {"open", "error"} => child[p].pipe \in {"open", "error"}
    BY <1>1, <2>0, <2>3 DEF ChildDie, ChildType
  <2>4. CASE ChildReady(p)
    BY <1>1, <2>0, <2>4 DEF ChildReady, ChildType
  <2> QED BY <2>1, <2>2, <2>3, <2>4 DEF Child
<1>4. child[p].process \in ProcessType /\ job.pid[child[p].process] = p
  BY <1>2 DEF Safe, Linked, Recorded
<1>5. Recorded(job.pid, child)'
  BY <1>1, <1>3, <1>4 DEF Safe, Linked, Recorded
<1>6. Known(job.pid, child)'
  BY <1>1, <1>3, <1>4 DEF Safe, Linked, Known
<1>7. Stages(child)' /\ MainSetUp(job.state, child)'
  BY <1>1, <1>3 DEF Safe, Linked, Stages, MainSetUp, InSetUp
<1>8. Core(job)' /\ Rest(job)'
  BY <1>1 DEF Safe
<1> QED BY <1>1, <1>5, <1>6, <1>7, <1>8
        DEF Safe, Linked, EventStep, ReadyStep, Answers, Waits

\* A callback for child p leaves c of it.  It forgets the pid of p or keeps
\* it, and leaves spawned only when p is the main process and through with
\* its set-up.
LEMMA HandlerCommit ==
    ASSUME IInv, Safe, NEW p \in Pids, child[p].process \in ProcessType,
           NEW c \in ChildType, NEW ch, ch = [child EXCEPT ![p] = c],
           GoodChildren(ch), Stages(ch), c.process \in {child[p].process, NoProcess},
           NEW k, Good(k), Outcome(job, k), Commit(k, ch),
           \/ /\ k.pid = Without(job, child[p].process)
              /\ job.pid[child[p].process] = p
              /\ c.life \in {"none", "zombie"} /\ c.pipe = "none" /\ ~c.ready
           \/ /\ k.pid = job.pid
              /\ \/ c.life = child[p].life /\ c.process = child[p].process
                 \/ c.life = "none" /\ job.pid[child[p].process] # p
              /\ c.pipe \in {"none", child[p].pipe} /\ (c.ready => child[p].ready),
           \/ job.state # "spawned" \/ k.state = "spawned"
           \/ job.pid["main"] = p /\ c.pipe \in {"none", "eof"},
           c.process = "main" /\ c.pipe \in {"open", "error"} => InSetUp(child, p)
    PROVE  Safe' /\ EventStep /\ Answers(job, job') /\ job'.state = k.state
<1>1. /\ job.pid \in [ProcessType -> Pids \cup {NoPid}] /\ NoPid \notin Pids
      /\ child \in [Pids -> ChildType]
  BY PidsAssumption DEF IInv, Good, JobType, GoodChildren
<1>2. ch[p] = c /\ \A q \in Pids \ {p} : ch[q] = child[q]
  BY <1>1
<1>3. Recorded(job.pid, child) /\ Known(job.pid, child)
  BY DEF Safe, Linked
<1>4. Recorded(k.pid, ch)
  <2>1. CASE /\ k.pid = Without(job, child[p].process)
             /\ job.pid[child[p].process] = p
             /\ c.life \in {"none", "zombie"} /\ c.pipe = "none" /\ ~c.ready
    BY <1>1, <1>2, <1>3, <2>1 DEF Recorded, Without
  <2>2. CASE /\ k.pid = job.pid
             /\ \/ c.life = child[p].life /\ c.process = child[p].process
                \/ c.life = "none" /\ job.pid[child[p].process] # p
             /\ c.pipe \in {"none", child[p].pipe} /\ (c.ready => child[p].ready)
    <3>1. c.life = "none" => c = NoChild
      BY <1>2 DEF Stages
    <3> QED BY <1>1, <1>2, <1>3, <2>2, <3>1 DEF Recorded, NoChild
  <2> QED BY <2>1, <2>2
<1>5. Known(k.pid, ch)
  BY <1>1, <1>2, <1>3 DEF Known, Without
<1>6. MainSetUp(k.state, ch)
  <2>1. CASE job.state # "spawned" \/ k.state = "spawned"
    BY <1>2, <2>1 DEF Safe, MainSetUp, InSetUp
  <2>2. CASE job.pid["main"] = p /\ c.pipe \in {"none", "eof"}
    BY <1>2, <1>3, <2>2 DEF MainSetUp, InSetUp, Recorded
  <2> QED BY <2>1, <2>2
<1>7. Linked(k.pid, ch)
  BY <1>4, <1>5 DEF Linked
<1>8. /\ Safe'
      /\ job'.state = k.state /\ job'.emitted = k.emitted /\ job'.result = k.result
      /\ job'.reply = k.reply
  BY <1>6, <1>7, CommitSafe DEF Outcome
<1> QED BY <1>8 DEF EventStep, Outcome, Answers, Waits

\* A callback that changes nothing has this outcome.
LEMMA SameOutcome ==
    ASSUME IInv, Safe
    PROVE  Outcome(job, job)
BY DEF IInv, Safe, Outcome, Spawning, Answers, Waits

\* A job in spawned whose main process is ready goes on.
LEMMA SpawnedOutcome ==
    ASSUME IInv, Safe, job.state = "spawned"
    PROVE  Settled(job, JobNextState(job))
<1>1. Good(job) /\ Core(job) /\ Rest(job) /\ job.spawn = NoProcess
  BY DEF IInv, Safe
<1>2. ScriptsGone(job)
  BY <1>1 DEF ScriptsGone, Core, ExpectedAt, ProcessType
<1>3. NextStateDefined(job)
  BY <1>1 DEF NextStateDefined, Core, Good, JobType, Goals
<1>4. MayMove(job) /\ ~job.blocker
  BY <1>1, <1>2, <1>3 DEF MayMove, Movable, Rest
<1> QED BY <1>4, NextStateSettled

\* The handlers that init runs for a child keep the job and its children
\* safe, as long as a dead child is reaped after its pipes were read.
LEMMA HandlerSafe ==
    ASSUME IInv, Safe, PipeFirst, NEW p \in Pids, Handler(p)
    PROVE  Safe' /\ EventStep /\ ReadyStep /\ Answers(job, job')
<1> DEFINE process == child[p].process
<1>1. /\ Good(job) /\ GoodChildren(child) /\ job.spawn = NoProcess
      /\ Core(job) /\ Rest(job) /\ Resting(job)
      /\ Recorded(job.pid, child) /\ Known(job.pid, child) /\ Stages(child)
      /\ MainSetUp(job.state, child)
  BY DEF IInv, Safe, Resting, Linked
<1>2. child \in [Pids -> ChildType] /\ child[p] \in ChildType
      /\ job.pid \in [ProcessType -> Pids \cup {NoPid}] /\ NoPid \notin Pids
  BY <1>1, PidsAssumption DEF GoodChildren, Good, JobType
<1>3. process \in ProcessType
  BY <1>1, <1>2 DEF Handler, Reap, PipeError, PipeClose, MainStopped, ReadyfdReader,
                    GoodChildren, Stages, ChildType, ProcessType
<1>4. CASE Reap(p)
  <2> DEFINE ch == [child EXCEPT ![p] = NoChild]
             k  == JobProcessTerminated(job, process, child[p].status)
  <2>1. Update(p, [child[p] EXCEPT !.life = "none"]) = ch
    BY <1>2, <1>4 DEF Update, Reap, Drained, ChildType
  <2>2. GoodChildren(ch) /\ Stages(ch) /\ NoChild \in ChildType
    BY <1>1, <1>2, NoChildType DEF GoodChildren, Stages, NoChild
  <2>3. CASE job.pid[process] = p
    <3>1. HasPid(job, process)
      BY <1>2, <2>3 DEF HasPid
    <3>2. /\ Outcome(job, k) /\ k.pid = Without(job, process)
          /\ job.state = "spawned" => k.state \notin {"post-start", "running"}
      BY <1>1, <1>3, <3>1, ProcessTerminatedOutcome
    <3>3. Good(k)
      BY <1>1, <1>3, ProcessTerminatedGood
    <3>4. Commit(k, ch)
      BY <1>4, <2>1, <2>3 DEF Reap
    <3>5. job.state = "spawned" => process = "main"
      BY <1>1, <1>3, <3>1 DEF Core, ExpectedAt, ProcessType
    <3> HIDE DEF k
    <3>6. Safe' /\ EventStep /\ Answers(job, job') /\ job'.state = k.state
      BY <1>3, <2>2, <2>3, <3>2, <3>3, <3>4, <3>5, HandlerCommit, ZenonT(60) DEF NoChild
    <3> QED BY <3>2, <3>6 DEF ReadyStep
  <2>4. CASE job.pid[process] # p
    <3>1. Commit(job, ch)
      BY <1>4, <2>1, <2>4 DEF Reap
    <3>2. Safe' /\ EventStep /\ Answers(job, job') /\ job'.state = job.state
      BY <1>1, <1>3, <2>2, <2>4, <3>1, HandlerCommit, SameOutcome DEF NoChild
    <3> QED BY <3>2 DEF ReadyStep
  <2> QED BY <2>3, <2>4
<1>5. CASE PipeError(p)
  <2> DEFINE c  == [child[p] EXCEPT !.pipe = "none"]
             ch == [child EXCEPT ![p] = c]
             k  == JobChildErrorHandler(job, process)
  <2>1. child[p].pipe = "error" /\ child[p].life = "zombie" /\ ~child[p].ready
    BY <1>1, <1>2, <1>5 DEF PipeError, Stages, ChildType
  <2>2. /\ c \in ChildType /\ c.process = process /\ c.pipe = "none" /\ c.life = "zombie"
        /\ ~c.ready
    BY <1>2, <2>1 DEF ChildType
  <2>3. Update(p, c) = ch
    BY <2>2 DEF Update
  <2>4. GoodChildren(ch) /\ Stages(ch)
    BY <1>1, <1>2, <1>3, <2>2 DEF GoodChildren, Stages, NoProcess, ProcessType
  <2>5. job.pid[process] = p /\ (process = "main" => job.state = "spawned")
    BY <1>1, <2>1 DEF Recorded, MainSetUp, InSetUp
  <2>6. HasPid(job, process)
    BY <1>2, <2>5 DEF HasPid
  <2>7. /\ Outcome(job, k) /\ k.pid = Without(job, process)
        /\ job.state = "spawned" => k.state \notin {"post-start", "running"}
    BY <1>1, <1>3, <2>5, <2>6, ChildErrorHandlerOutcome
  <2>8. Good(k)
    BY <1>1, <1>3, ChildErrorHandlerGood
  <2>9. Commit(k, ch)
    BY <1>5, <2>3 DEF PipeError
  <2>10. job.state = "spawned" => process = "main"
    BY <1>1, <1>3, <2>6 DEF Core, ExpectedAt, ProcessType
  <2> HIDE DEF k, c, ch
  <2>11. Safe' /\ EventStep /\ Answers(job, job') /\ job'.state = k.state
    BY <1>3, <2>2, <2>4, <2>5, <2>7, <2>8, <2>9, <2>10, HandlerCommit DEF ch
  <2> QED BY <2>7, <2>11 DEF ReadyStep
<1>6. ASSUME NEW c \in ChildType, c.process = process, c.life = child[p].life, c.life # "none",
             c.pipe \in {"none", child[p].pipe}, c.ready => child[p].ready,
             NEW move \in BOOLEAN, move => job.state = "spawned",
             move => /\ job.pid["main"] = p /\ c.pipe \in {"none", "eof"}
                     /\ child[p].life # "setup"
                     /\ Expect # "none" => child[p].ready,
             Commit(IF move THEN JobNextState(job) ELSE job, Update(p, c))
      PROVE  Safe' /\ EventStep /\ ReadyStep /\ Answers(job, job')
  <2> DEFINE ch == [child EXCEPT ![p] = c]
             k  == IF move THEN JobNextState(job) ELSE job
  <2>1. Update(p, c) = ch
    BY <1>6 DEF Update
  <2>2. GoodChildren(ch) /\ Stages(ch)
    BY <1>1, <1>2, <1>3, <1>6 DEF GoodChildren, Stages, NoProcess, ProcessType
  <2>3. Good(k)
    BY <1>1, NextStateGood
  <2>4. Outcome(job, k) /\ k.pid = job.pid
    BY <1>6, SpawnedOutcome, SameOutcome DEF Settled
  <2>5. c.process = "main" /\ c.pipe \in {"open", "error"} => InSetUp(child, p)
    BY <1>6 DEF InSetUp
  <2>6. \/ job.state # "spawned" \/ k.state = "spawned"
        \/ job.pid["main"] = p /\ c.pipe \in {"none", "eof"}
    BY <1>6
  <2>7. Commit(k, ch)
    BY <1>6, <2>1
  <2>8. ~move => k.state = job.state
    OBVIOUS
  <2> HIDE DEF k, ch
  <2>9. Safe' /\ EventStep /\ Answers(job, job') /\ job'.state = k.state
    BY <1>3, <1>6, <2>2, <2>3, <2>4, <2>5, <2>6, <2>7, HandlerCommit DEF ch
  <2>10. ReadyStep
    BY <1>6, <2>8, <2>9 DEF ReadyStep
  <2> QED BY <2>9, <2>10
<1>7. CASE PipeClose(p)
  <2> DEFINE c == [child[p] EXCEPT !.pipe = "none"]
             move == job.state = "spawned" /\ Expect = "none" /\ process = "main"
  <2>1. child[p].pipe = "eof" /\ child[p].life \notin {"none", "setup"}
    BY <1>1, <1>2, <1>7 DEF PipeClose, Stages, NoChild
  <2>2. /\ c \in ChildType /\ c.process = process /\ c.pipe = "none"
        /\ c.life = child[p].life /\ c.ready = child[p].ready
    BY <1>2 DEF ChildType
  <2>3. job.pid[process] = p
    BY <1>1, <2>1 DEF Recorded
  <2>4. Commit(IF move THEN JobNextState(job) ELSE job, Update(p, c))
    BY <1>7 DEF PipeClose
  <2>5. move \in BOOLEAN /\ (move => job.state = "spawned" /\ Expect = "none" /\ process = "main")
    OBVIOUS
  <2> HIDE DEF c, move
  <2> QED BY <1>6, <2>1, <2>2, <2>3, <2>4, <2>5
<1>8. CASE MainStopped(p) \/ ReadyfdReader(p)
  <2> DEFINE c == [child[p] EXCEPT !.ready = FALSE]
  <2>1. /\ child[p].ready /\ process = "main" /\ child[p].life \notin {"none", "setup"}
        /\ child[p].pipe \in {"none", "eof"}
    BY <1>1, <1>2, <1>8 DEF MainStopped, ReadyfdReader, Stages, NoChild
  <2>2. /\ c \in ChildType /\ c.process = process /\ c.pipe = child[p].pipe
        /\ c.life = child[p].life /\ ~c.ready
    BY <1>2 DEF ChildType
  <2>3. job.pid["main"] = p
    BY <1>1, <2>1 DEF Recorded
  <2>4. PICK move \in BOOLEAN :
            /\ move => job.state = "spawned"
            /\ Commit(IF move THEN JobNextState(job) ELSE job, Update(p, c))
    BY <1>8 DEF MainStopped, ReadyfdReader
  <2> HIDE DEF c
  <2> QED BY <1>6, <2>1, <2>2, <2>3, <2>4
<1> QED BY <1>4, <1>5, <1>7, <1>8 DEF Handler

-----------------------------------------------------------------------------
(***************************************************************************)
(* The theorems                                                            *)
(***************************************************************************)
\* An instance that was never started is safe.
LEMMA InitSafe ==
    Init => Safe
<1> SUFFICES ASSUME Init PROVE Safe
  OBVIOUS
<1>1. /\ job.state = "waiting" /\ job.goal = "stop" /\ ~job.blocker /\ ~job.failed
      /\ job.pid = [p \in ProcessType |-> NoPid] /\ job.kill_process = NoProcess
      /\ job.emitted = "none" /\ ~job.aborted
      /\ job.reply = [c \in Callers |-> "idle"]
  BY DEF Init
<1>2. \A p \in Pids : child[p] = NoChild
  BY DEF Init
<1>3. Core(job) /\ Rest(job)
  BY <1>1 DEF Core, Rest, FailedAt, HasPid, EmittedAt, Waits, StarterTold
<1>4. \A p \in Pids : child[p].life = "none" /\ child[p].pipe = "none" /\ ~child[p].ready
  BY <1>2 DEF NoChild
<1>5. Linked(job.pid, child)
  BY <1>1, <1>2, <1>4 DEF Linked, Recorded, Known, Stages
<1>6. MainSetUp(job.state, child)
  BY <1>4 DEF MainSetUp, InSetUp
<1> QED BY <1>3, <1>5, <1>6 DEF Safe

\* What every step does.
LEMMA NextSafe ==
    ASSUME PipeFirst, IInv, Safe, [Next]_vars
    PROVE  /\ Safe' /\ EventStep /\ ReadyStep
           /\ ~Command => Answers(job, job')
<1>1. CASE UNCHANGED vars
  BY <1>1 DEF vars, Safe, EventStep, ReadyStep, Answers, Waits
<1>2. CASE Next
  BY <1>2, CommandSafe, JobStepSafe, ChildSafe, HandlerSafe DEF Next
<1> QED BY <1>1, <1>2

\* The job, its processes and its callers are safe in every state.
THEOREM Safety == ASSUME PipeFirst PROVE Spec => []Safe
<1>1. IInv /\ Safe /\ [Next]_vars => Safe'
  BY NextSafe
<1> QED BY <1>1, InitSafe, Invariance, PTL DEF Spec

\* None of the assertions of job.c and job_process.c can fail: whatever the
\* class of the job and whatever the order of commands, deaths, reports and
\* timers, a process ends only in a state that expects it, a kill timer is
\* set only when none is pending, and when it fires its process is there.
THEOREM AssertionsHold == ASSUME PipeFirst PROVE Spec => []NoAssertionFails
<1>1. Safe => NoAssertionFails
  BY DEF Safe, Core, NoAssertionFails
<1> QED BY <1>1, Safety, PTL

\* However often the job is started, stopped and respawned, init never loses
\* track of a process: what job_process_run() forked is in job->pid[] until
\* it has died.
THEOREM ProcessesTracked == ASSUME PipeFirst PROVE Spec => []NoProcessLost
<1>1. Safe => NoProcessLost
  BY DEF Safe, Linked, Recorded, NoProcessLost
<1> QED BY <1>1, Safety, PTL

\* job_change_state() runs the post-stop process only when no main process
\* is left, by whatever way the job came to be stopped.
THEOREM PostStopRunsLast == ASSUME PipeFirst PROVE Spec => []PostStopAfterMain
<1>1. Safe => PostStopAfterMain
  <2> SUFFICES ASSUME Safe, job.state = "post-stop", NEW p \in Pids,
                      child[p].process = "main", child[p].life \in {"setup", "running"}
               PROVE  FALSE
    BY DEF PostStopAfterMain
  <2>1. job.pid["main"] = p /\ p # NoPid
    BY PidsAssumption DEF Safe, Linked, Recorded
  <2> QED BY <2>1 DEF Safe, Core, HasPid, ExpectedAt, ProcessType
<1> QED BY <1>1, Safety, PTL

\* The RESULT that the stopping event carried is not overtaken: between that
\* event and the post-stop process nothing makes the job fail.
THEOREM StoppingResultKept == ASSUME PipeFirst PROVE Spec => []StoppingResultStands
<1>1. Safe => StoppingResultStands
  BY DEF Safe, Core, StoppingResultStands
<1> QED BY <1>1, Safety, PTL

\* The events of a job come in the order that other jobs rely on.
THEOREM EventsInOrder == ASSUME PipeFirst PROVE Spec => EventOrder
<1>1. IInv /\ Safe /\ [Next]_vars => EventStep
  BY NextSafe
<1>2. EventStep <=> (job'.emitted # job.emitted =>
                       <<job.emitted, job'.emitted>> \in
                           {<<"none", "starting">>, <<"starting", "started">>,
                            <<"starting", "stopping">>, <<"started", "stopping">>,
                            <<"stopping", "stopped">>, <<"stopping", "starting">>,
                            <<"stopped", "starting">>})
  BY DEF EventStep, EventSteps
<1> QED BY <1>1, <1>2, Invariance, Safety, PTL DEF Spec, EventOrder

\* The job leaves spawned for post-start or running only when the process
\* that init now holds as its main process has given its sign, provided that
\* the pipe of a child is read before the child is reaped: otherwise what an
\* earlier process left in it is taken for the sign of the present one.
THEOREM StartedWhenReady == ASSUME PipeFirst PROVE Spec => MainReadyBeforeStarted
<1>1. IInv /\ Safe /\ [Next]_vars =>
        (job.state = "spawned" /\ job'.state \in {"post-start", "running"} =>
            \E p \in Pids :
                /\ job.pid["main"] = p
                /\ child[p].life # "setup"
                /\ Expect # "none" => child[p].ready)
  BY NextSafe DEF ReadyStep
<1> QED BY <1>1, Invariance, Safety, PTL DEF Spec, MainReadyBeforeStarted

\* A stop is answered with success by the end of the instance only, with no
\* process of it alive.
THEOREM StopAnsweredLast == ASSUME PipeFirst PROVE Spec => StopAnsweredWhenStopped
<1>1. ASSUME IInv, Safe, [Next]_vars, Safe', NEW c \in Callers, Answered(c, "stop", "ok")
      PROVE  /\ job'.state = "waiting"
             /\ \A p \in Pids : ~Alive(child', p)
  <2>1. job'.state = "waiting"
    BY <1>1, NextSafe DEF Answered, Answers, Waits
  <2>2. ASSUME NEW p \in Pids, Alive(child', p) PROVE FALSE
    <3>1. child'[p].process \in ProcessType /\ job'.pid[child'[p].process] = p /\ p # NoPid
      BY <1>1, <2>2, PidsAssumption DEF Safe, Linked, Recorded, Alive
    <3> QED BY <1>1, <2>1, <3>1 DEF Safe, Core, HasPid, ExpectedAt, ProcessType
  <2> QED BY <2>1, <2>2
<1>2. IInv /\ Safe /\ [Next]_vars /\ Safe' =>
        \A c \in Callers : Answered(c, "stop", "ok") =>
            /\ job'.state = "waiting"
            /\ \A p \in Pids : ~Alive(child', p)
  BY <1>1
<1> QED BY <1>2, Invariance, Safety, PTL DEF Spec, StopAnsweredWhenStopped

\* A service without a post-stop process never tells the caller of a start
\* that all is well after it failed.
THEOREM StartAnsweredRight ==
    ASSUME PipeFirst, ~Task, "post-stop" \notin Procs
    PROVE  Spec => StartAnsweredTruthfully
<1>1. ASSUME IInv, Safe, [Next]_vars, NEW c \in Callers,
             ~job.disable_respawn, Answered(c, "start", "ok")
      PROVE  \/ ~Task /\ job'.state = "running"
             \/ job'.state = "waiting" /\ ~job'.result
  BY <1>1, NextSafe DEF Answered, Answers, Waits, PlainService
<1>2. IInv /\ Safe /\ [Next]_vars =>
        \A c \in Callers : ~job.disable_respawn /\ Answered(c, "start", "ok") =>
            \/ ~Task /\ job'.state = "running"
            \/ job'.state = "waiting" /\ ~job'.result
  BY <1>1
<1> QED BY <1>2, Invariance, Safety, PTL DEF Spec, StartAnsweredTruthfully
=============================================================================
