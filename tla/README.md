# A TLA+ verification of the init daemon

This directory holds TLA+ models of the daemon in `src/init`: an event-based
`init` that starts and stops jobs when events happen, supervises their
processes and answers the callers that asked for it. The modules follow the C
code function by function; `PROJECT.json` maps every definition to the lines it
stands for. TLC checks the models on small instances and TLAPS proves theorems
about them for every value of the constants.

    tlc -workers 2 -config job_service.cfg MCJobInstance
    tlapm JobInstance_proofs.tla

## The system

`init` is one process with one thread. Everything it does happens in callbacks
of its main loop: a D-Bus call, the death of a child, something to read on a
pipe, a timer, and once per turn of the loop `event_poll()`. Concurrency comes
from outside: children run, fail and die at any time, callers call at any time,
and their traces (a zombie, a pipe at its end, a message) are picked up by
callbacks in an order that nobody controls completely.

| Component | State | Operations | Talks to |
|---|---|---|---|
| Job instance (`job.c`) | goal, state, blocker, failed, pids, kill timer, respawn counter, list of blocked callers and events | start, stop, restart, change of goal, change of state, failed, finished, end of the blocking event, error of a child's set-up | emits events and is blocked by them; starts and kills processes; answers callers |
| Job processes (`job_process.c`) | per child: set-up pipe, readiness pipe, trace state, log | fork and set-up, error and end of the set-up pipe, reaping, kill and kill timer, respawn limit, expect | drives the state machine of `job.c` |
| Events (`event.c`, `blocked.c`) | list of events with progress, blockers, who waits | new, block, unblock, poll: pending, handling, finished | starts and stops jobs through their classes; moves blocked jobs on |
| Event expressions (`event_operator.c`) | trees with a value and the event matched at each leaf | handle, collect events, reset, copy | hold events while they wait for others |
| Job classes (`job_class.c`) | registry of classes, their instances, `cgmanager_wait` | consider, reconsider, remove, start, induct | create instances |
| Quiesce (`quiesce.c`) | phase, requester, times | start, wait callback, finalise | emits session-end, stops all jobs, ends the main loop |
| Control (`control.c`) | connections | D-Bus methods, signals | all of the above |
| Configuration (`conf.c`, parsers) | sources, files, watches | load, reload, inotify callbacks | considers classes |
| Log (`log.c`) | per process: pty, file, unwritten output; logs kept after their process | read, write, flush, destroy | children's output, the disk |
| State (`state.c`, and the `_serialise` functions everywhere) | the text in the pipe | write, exec, read, resolve references | every object, every descriptor |
| Parsers (`parse_job.c`), environment (`environ.c`), text of conditions | none | pure algorithms | configuration, classes |
| Cgroups, XDG, AppArmor, system, main | little | helpers | |
| Tools (`util`), bridges (`extra`), scripts | separate programs | call D-Bus, emit events | |

What is hard here, and where a test reaches badly:

- *orders of reports on the same child*: reaped first or set-up pipe read
  first, a sign of readiness left over from the process before a respawn, a kill
  timer against a late death;
- *changes within changes*: a change of goal that changes the state, inside a
  handler that is about to change the state; an event that finishes, moves a
  job, which emits events into the list that is being walked;
- *who is told what*: callers supersede each other, jobs fail more than once,
  failures travel through events;
- *counting*: blockers of an event against the references to it, respawns
  against the limit;
- *waiting*: jobs wait for events that wait for jobs;
- *starting again*: a re-exec in the middle of everything, with references that
  have to be found again and descriptors that have to survive;
- *time*: two timers that count the same seconds, at the edge of one;
- *the kernel's order*: stops of a traced parent and child, a disk that appears,
  fills up or is rotated under an open file.

The hazards are listed one by one, at their lines and with the properties that
cover them, in `PROJECT.json`.

What makes each component correct:

- job instance: it follows the documented diagram, ends up where its goal says,
  loses no process and no caller, answers truthfully, emits its events in order;
- processes: every fork has an end that the job notices, one process per slot,
  kill timers have targets, respawns are limited;
- events: finished exactly once and only when nothing refers to them, every
  class sees every event, jobs wait for the jobs their events concern, nothing
  waits for ever, failures are passed on;
- classes: one registered class per name, old instances keep the old one;
- configuration: once all notifications are handled the disk is in force, and no
  class is freed in use or forgotten;
- quiesce: ends in time, and not before the jobs have or have been killed;
- log: output is in order, and none is lost on a disk that is there;
- re-exec: the new daemon holds what the old one held, or nothing;
- parsers and tables: what they accept and what they build is what a definition
  without a stack, a buffer or a position says.

## Modules

| Module | Models |
|---|---|
| `JobInstance` | one job instance with its children: `job.c` and `job_process.c` |
| `JobLifecycle` | the diagram of `doc/states.dot`, the abstract specification |
| `JobInstanceLifecycle` | the refinement mapping from the first to the second |
| `RespawnLimit` | `job_process_catch_runaway()` against a clock |
| `ProcessTrace` | expect fork and expect daemon: the ptrace half of `job_process.c` |
| `Events` | `event.c`, `event_operator.c`, the parts of `job.c` and `job_class.c` that events touch |
| `Conf` | one job name in several job directories: `conf.c`, and the registry of `job_class.c` |
| `Quiesce` | the end of a session over several jobs: `quiesce.c` |
| `Log` | the output of a job: `log.c` |
| `Environ` | `environ.c`: tables of key and value, expansion of references |
| `StateData` | the serialised form of enumerations, arrays, limits, processes, cgroups and expressions |
| `ParseJob` | `parse_job.c`: conditions and every stanza; `event_operator_collapse()` |
| `Reexec` | a stateful re-exec: `state.c` and the `_serialise` and `_deserialise` functions of all objects |
| `MCJobInstance`, `MCEvents`, `MCConf`, `MCQuiesce`, `MCReexec` | instances for TLC |
| `MCAlgorithms` | inputs and reference definitions for the pure algorithms |
| `MCParts` | `RespawnLimit`, `Quiesce`, `Log`, `ProcessTrace`, `Reexec` and the algorithms, which share no state, side by side |
| `JobInstance_proofs`, `JobInstanceLifecycle_proofs` | the theorems about a job instance |
| `RespawnLimit_proofs`, `ProcessTrace_proofs`, `Events_proofs`, `Conf_proofs`, `Quiesce_proofs`, `Log_proofs` | the theorems about the module of that name |

`StateData` extends `Environ`, and `ParseJob` and `Reexec` extend `StateData`.

### JobInstance

`job` is `struct Job` with the callers' view of it, `child` what the kernel
and the pipes hold for each process id. Every callback is one action:

| Action | Code |
|---|---|
| `JobStart`, `JobStop`, `JobRestart` | the D-Bus methods of a class and an instance |
| `Quiesce` | a shutdown: `disable_respawn` and `job_process_stop_all()` |
| `BlockerFinished` | `event_finished()` for the event the job waits for |
| `Reap` | `job_process_handler()` and `job_process_terminated()` |
| `PipeError`, `PipeClose` | `job_process_child_reader()`, `job_process_close_handler()` |
| `MainStopped`, `ReadyfdReader` | the sign of `expect stop` and `expect readyfd` |
| `KillTimer` | `job_process_kill_timer()` |
| `IntervalPasses` | the clock as far as `job_process_catch_runaway()` sees it |
| `ChildExec`, `ChildAbort`, `ChildDie`, `ChildReady` | what the child itself does |

`job_change_state()` is a loop. Every cycle of the machine passes through
starting or stopping, where the job is blocked and the loop ends, so the loop is
a chain of operators, `EnterStopping` first and the states that lead to it
after. The "-ing" states between (spawning, pre-starting, ...) are passed
through within one callback and have no value of their own. A failed assertion
sets `aborted`, after which nothing happens any more.

Abstracted: environment, files and console of a process, wording of errors, the
many ways a set-up can fail (all call the same handler with the same
effect), exit statuses but 0, 1 and the 255 of a failed set-up. A job object is
freed and made anew; `waiting` stands for both.

`PipeFirst` says that a dead child is reaped only after its set-up pipe has been
read to its end. The main loop handles file descriptors before it polls
children, so this is what happens unless the child writes and dies between the
two; with it FALSE both orders are possible. The passing runs use TRUE, the run
`late_setup_error` FALSE. The theorems on types, callers and the diagram hold for
both; those on processes, events and answers need TRUE, as that run shows.

### Events

`sys.events` is the list, `sys.held` the events matched by leaves of
expressions (`oper->event`), `sys.blocking` those handed over to jobs
(`job->blocking`). An expression is a sequence of nodes, children before
parents; its true nodes are those the leaves and its other true nodes make true.
`event_poll()` runs to its end before any other callback; it is divided into `PollBegin`,
`HandleClass` and `PollEnd` (and `job_class_induct_jobs()` into
`InductWaiting`), while `poll` is not `Idle` nothing else happens. The order of
classes, that of a hash table, is left open.

An instance name that the events of a class outside `Named` cannot supply ends
the loop over the classes, as in the code.

Abstracted: a job has a main process only and one instance; events match by
name, not by their environment. `replied` holds what the last step has sent to
callers of EmitEvent that wait for their event; a caller that does not wait is
answered at once, and left out. Events get the lowest free number, which is only
a name for them.

`FailureReported` follows a failure to whom it concerns: when a job fails, the
events that wait for it are marked and stay so, whatever the other jobs they wait
for do, and none of them leaves the list without its `/failed` event taking its
place and an error as the answer to a caller that emitted it.

### Conf

`disk` is what lies in the job directories, `notes` the inotify queue of each of
them (every `NihWatch` has a descriptor of its own, so the queues are read in any
order), `k` what `init` keeps: the allocated classes, the ConfFile of each source
and the registered class. A handler of `conf.c` is one action that sets `todo`
to the loads it makes, and each load (`conf_load_path_with_override()`) is one
step; editors may change the disk between two loads of a handler, while nothing
else of `init` runs before `todo` is empty.

| Action | Code |
|---|---|
| `ConfChanged`, `OverrideChanged` | `conf_create_modify_handler()` |
| `ConfDeleted`, `OverrideDeleted`, `DirDeleted` | `conf_delete_handler()` |
| `ConfReload`, `ReloadSource`, `Sweep` | `conf_reload()`, `conf_source_reload()` and its walk |
| `Load`, `LoadIfKnown`, `OverrideFound` | the loads these make |
| `Start`, `EventArrives`, `Finish` | instances of the registered class begin and end |
| `WriteConf` ... `MakeDir` | outside `init` |

The reload flag of a ConfFile, compared with that of its source, is kept as the
set `stale` of sources whose file has the wrong one. Abstracted: a text is a
name with a `start on` and may be one that does not parse; `start on` is a
conjunction of events; a load reads its `.conf` and its override at one moment.
Classes of different names do not meet in this code, so one name is followed.
The environment of events, D-Bus registration and sources that are a single
file are left out.

### RespawnLimit

The clock in seconds, the counter and, as a history, the times of the respawns in
order. `Init` allows any uptime, since `respawn_time` begins at zero and the clock
counts from boot.

### ProcessTrace

`procs` is what the kernel knows of each process: running, stopped or dead,
traced, the report that `wait()` has ready; `followed` is the job. `Handler` is
`job_process_handler()` for one report and calls the `job_process_trace_`
functions; `Fork`, `NewStops`, `Exec`, `Signal` and `Exit` are the processes.
A fork stops the parent with a report and starts the child stopped; the two are
read in any order. `EarlySignals` and `StoppedDie` add signals before `init`
follows a process and the death of a process that is stopped; see the
observations for what the code does then.

### Quiesce

A turn of the main loop is a sequence of stages: what came in, dead children,
timers, events. `q` holds the static variables of `quiesce.c`, `jobs` the state,
goal and main process of each class, `pending` the events in order, `clock`
seconds. A second may end within a turn, since the kill timer of a job and the
timer of the shutdown are set at different moments of it. `Quiesce` is
`quiesce()`, `WaitCallback` the periodic timer, `PollEvent` one event of
`event_poll()`, `Reap` and `KillTimer` the ends of a process.

Two things can come between the goal of a job and its kill signal. A job in
`PreStop` has a pre-stop process, which takes its time (`DiePreStop`,
`ReapPreStop`) and is not killed. The starting and the stopping event of a job
with `Hooks`, classes that start on it, are blocked after they have been handled
("starting blocked", "stopping blocked") until `Unblock`, at any time. Jobs that
*stop* on such an event are abstracted by the same `Unblock`: nobody but the
session stops a job here. What a hook starts in the kill phase is not asked to stop,
as in the code, which asks all jobs once when a phase begins.

### Log

`logs` is the `Log` of each process of a job, one process after the other,
`ptys` what is still to be read, `disk` the file system (missing, read-only,
writeable, with so much space) and the file with its rotated parts, `detached`
the list `log_unflushed_files`. `IoReader` and `IoError` are the handlers,
`HandleUnflushed` is `log_handle_unflushed()` at the end of a process,
`ClearUnflushed` the D-Bus call that says the disk is writeable. It walks the list
of kept logs, one `ClearOne` for each: while it does (`clearing`) no other handler
runs (`LogHandler`), but processes write and the disk changes. A piece of output
carries its process and its number, so that order, loss and repetition can be
told.

### Environ, StateData, ParseJob

Operators without state. A text is a sequence of characters from a small
alphabet (`Environ`) or of tokens (`ParseJob`), since libnih's tokeniser comes
before the code; a stanza is its keywords and its numbers. Integers have
`IntBits` bits where the code stores a `long` in an `int`. A handler of a stanza
gives the class as it is also after an error, as fields are stored before they
are checked. `StateData` writes and reads what the objects are made of;
enumerations travel by name, references to events as an index in the array of
events.

### Reexec

`world` is the memory of `init`, with events by address; every generation has
addresses of its own, so that a reference taken over as it is would be noticed.
`json` is what is written, `fdFlag` tells of each descriptor whether it is
closed, open over an exec or close-on-exec.

| Action | Code |
|---|---|
| `StatefulReexec` | `stateful_reexec()`: flushed logs, descriptors let through, `state_to_string()`, the exec |
| `ReadEvents`, `ReadSources`, `ReadClass` | the parts of `state_from_string()` in order |
| `StateDeserialiseResolveDeps` | who blocks whom, once all objects are there |
| `ReadFails` | a part is not accepted: what `main()` does with the result |
| `ConfReload` | the reload that follows, which replaces the classes without instances |

`Init` is a choice of situations the daemon can be in: two classes whose
instance is in one of several states with its process, log and descriptors, a
class that holds half of its `start on`, an event that is being handled, fields
set or not. Plain numbers and strings are told apart by the field they belong
to. Sessions, and texts written by older versions, are left out.

## Runs

| Run | Instance | Shows |
|---|---|---|
| `job_service` | 3 pids, 1 caller, all six processes, `expect stop`, respawn with limit 1 | `TypeOK`, `NoAssertionFails`, `NoProcessLost`, `StoppingResultStands`, `PostStopAfterMain`, `StopAnsweredWhenStopped`, `EventOrder`, `FollowsDiagram` |
| `job_answers` | 3 pids, 2 callers, main, pre-start and post-start, `expect readyfd`, respawn | `NoCallerForgotten`, `StartAnsweredTruthfully`, `MainReadyBeforeStarted` |
| `job_liveness` | 2 pids, 1 caller, five processes, fairness | `StopCompletes`, `CallersAnswered` |
| `events` | a service that needs the cgroup manager and a task around it, with `and` and `or` | `NoAssertionFails`, `BlockersCounted`, `BlockerTells`, `JobEventsWait`, `FailureReported` |
| `events_finish` | the same two with one event each, the task not always given a name, fairness | `EventsFinish` |
| `conf_reload` | two directories, two good texts and a bad one, one override, two instances, three changes on disk | `ClassesAccounted`, `InstancesReachable`, `BestUnlessRunning`, `SettledMatchesDisk`, `ReloadKeepsMatches` |
| `parts` | each of these by itself: | |
| | the respawn limit | `AnyIntervalTwiceLimit` |
| | three jobs in a session | `KilledBeforeExit`, `EndsInTime`, `WaitedFor` |
| | two processes writing one log | `NothingLost` |
| | a main process that forks up to three times | `RightProcessFollowed`, `NoneLeftStopped` |
| | two classes in every combination of situations, re-executed up to twice, the events perhaps not accepted | `RoundTrip`, `HoldersCounted`, `FdsSurvive`, `AllOrNothing` |
| | the algorithms on all inputs up to a length | `OnIsGrammar`, `ConditionReadsBack`, `LaterLineWins`, `TableIsMap`, `ExpandsNested` |

A behaviour of `parts` is one of a single part, and the others rest.

`Events` and `Conf` have a `TypeOK` too, and `Reexec` has `ReexecTypeOK`, which
describe their state. They hold on the instances above; the runs spend their
properties on what follows from them.

`RoundTrip` compares all that the code means to pass on; what it leaves behind
on purpose (waiting D-Bus callers, whose connections end) is not compared, and
what it loses otherwise is under the observations below. The properties of
the algorithms compare an algorithm with a definition: the stack machine of
`parse_on` with the grammar of conditions, a condition with what its text and
its serialised form are read as, a table with the last assignment that counts,
the expansion in place with a recursive one.

`LaterLineWins` looks at every part of a class, that is its fields, each of its
processes and each of its limits: the parts that a line sets are what the line
gives alone, the lists that grow have its words added, and all others are as they
were. Of the settings of cgroups, which replace one another, it says only that a
`cgroup` line changes nothing else.

Five runs show disagreements between the code and what it says of itself; each
has an entry under "findings" in `PROJECT.json`:

- `late_setup_error`: with reaping before reading, the late error of a dead
  child moves the job out of a state that waits for another process, whose end
  then fails an assertion of `job_process_terminated()`;
- `conf_parse_error`: an override that does not parse leaves the class it was
  to update registered, half updated and out of reach of any ConfFile; an
  override whose `.conf` does not parse becomes a job by itself;
- `reexec_kill_timer`: a re-exec while a kill timer runs ends the new daemon
  in an assertion that `kill_process` is not zero, which it is for the main
  process;
- `shutdown_prestop`: a shutdown skips the wait phase "to ensure all running jobs
  get signalled" (`quiesce.c:114`), but `init` exits while a job is still in
  pre-stop, before it was sent any signal (`RunningSignalled`);
- `expand_alternate`: the comment at `environ.c:470` has `${KEY+alternate}` expand to
  the alternate "only if $KEY is unset"; the code does so if it is set
  (`AlternateOnlyIfUnset`), as a shell and the tests do, and the model follows
  the code.

### Bounds

- `Pids`: the children that exist at a time. A job has a main process and one
  script running; a third pid allows a zombie beside them. No pid is reused
  while anything of it is left.
- `Callers`: one is enough for the answers to a command, two for superseding.
  A caller who was answered may call again.
- `RespawnLimit` 1: below, at and above the limit.
- `MaxEmits` 1 for each name, not counting events that an expression keeps: two
  different events are on their way at once, and a second of a name while the
  first is kept.
- `MaxEvents`: not a bound on behaviours; `EventsFinish` shows that the list
  does not grow beyond it, and takes from it the numbers that can occur.
- `MaxEdits` 3: enough for a `.conf` and an override in two directories and a
  change or deletion of one of them, or for a file to come, go and come again,
  in each order with reloads, instances and events.
- `ClassIds`: one more than the classes that can be in use at a time; the run
  would stop with an error if an allocation found none.
- `MaxTime`, `MaxPerSecond` in `RespawnLimit`: several intervals, and more
  respawns a second than the limit allows.
- `MaxClock`, `MaxPending` in `Quiesce`: the clock goes on beyond the end of both
  phases; no more events are emitted from outside while three wait. The kill
  timeouts are 1 and 2, so that one exceeds the default and one does not.
  In `parts` the session-end job has a pre-stop process, and its starting and
  stopping events start another job; in `shutdown_prestop` the service has one.
  `EmitsBefore` is FALSE: see the observations for TRUE.
- `Runs`, `MaxOutput`, `MaxSpace`, `MaxChanges` in `Log`: a second process while
  the log of the first is kept, two pieces each (a write that takes one of
  them), room for all of them, and three changes of disk and file. That there is
  room is an assumption (`LogAssumption`): a disk filled up by others is an action
  (`Use`), and with it output may be lost.
- `Pids` in `ProcessTrace`: the main process and three forks, one more than
  `expect daemon` follows. `EarlySignals` and `StoppedDie` are FALSE.
- `MaxGenerations` 2: a text written by a daemon that was itself restored.
  `FaultyStages` has the events only, whose failure is reported; `KillTimers` is
  FALSE, as the finding says why.
- `MaxTokens` 6: conditions with two operators or a parenthesis around two
  events, and every wrong order of up to six tokens. `MaxLines` 2: a line over
  any other. `MaxAdds` 4, `MaxPieces` 2: replacing, keeping and inheriting with
  two keys of which one begins the other; a nested reference after a text.
- `IntBits` 12 stands for 32: numbers of the instance lie on both sides of the
  limits of the stanzas and of the int.

Process ids and callers are interchangeable, and the safety runs of
`JobInstance` use that symmetry; the liveness runs do not.

Deadlock is checked in the runs of jobs, events and configuration. It is not
where an assertion is expected to fail, nor in `parts`, whose behaviours end: the input is complete, the last generation is
up, `init` has left its main loop, the log is closed.

### Fairness

The main loop runs every callback that is due: weak fairness of the handlers,
of the kill timer and of `event_poll()`. Outside `init` the following is assumed,
and no more: a set-up ends (the child executes or reports an error), a script
ends, a process that was sent SIGKILL dies, a task completes, and in
`JobInstance` the event that blocks the job finishes, which is what
`EventsFinish` shows of `Events`. The main process of a service may run for ever
and ignore its kill signal; nobody is obliged to call or emit. In `Events` the
progress of processes is strongly fair, since the loop attends to children in
each turn however many events are emitted; the fairness is written with the
guards of the actions in place of ENABLED, which TLC evaluates too slowly there.
The cgroup manager may never arrive.

`EventsFinish` is checked for expressions without circles. The code does not
look for circles: a job that starts on `starting A`, where A stops on this job's
`stopping`, can leave both waiting when the first ends during A's start, and
nothing but an administrator resolves it.

## Theorems

Each theorem is about every value of the constants that satisfies the assumptions
named in the modules (`ASSUME`, evaluated by TLC on every run) and the hypotheses
given here. A hypothesis is there where the code does not keep the promise
without it; the runs or the observations below show what happens then. TLC has
checked the inductive invariants on the small instances too.

`JobInstance_proofs`, for any class, any sets of pids and callers, both values
of `PipeFirst` and `KillWorks`:

- `TypeCorrect`: `Spec => []TypeOK`;
- `CallersNeverForgotten`: `Spec => []NoCallerForgotten`.

Both follow from `IInv`, which says that the job is well formed (`Good`: the
types, and waiting callers are exactly the blocked ones), that the children are
(`GoodChildren`: types, and a pid without a process has neither life nor pipe)
and that no fork is pending between callbacks. `TypeOK` alone is not inductive: a
report on a child of no process would be handed to the state machine. The proof
follows the code: a lemma per operator (each keeps a job `Good`), then
`CommitGood` for the end of a callback, then one lemma per group of actions.

Of what a job keeps true of its processes, events and answers, under `PipeFirst`:

- `AssertionsHold`, `ProcessesTracked`, `PostStopRunsLast`, `StoppingResultKept`:
  the invariants `NoAssertionFails`, `NoProcessLost`, `PostStopAfterMain` and
  `StoppingResultStands`;
- `EventsInOrder`, `StartedWhenReady`, `StopAnsweredLast`: the action properties
  `EventOrder`, `MainReadyBeforeStarted` and `StopAnsweredWhenStopped`. A sign of
  readiness that a main process has left in its pipe can be taken for that of its
  successor when it is reaped first; `PipeFirst` rules that out, so
  `StartedWhenReady` says nothing of it;
- `StartAnsweredRight`: `StartAnsweredTruthfully`, for a service without post-stop.

They share the invariant `Safe`. `Core` says, for each state, which processes may
have a pid, which event was emitted last, what `failed` and the announced result
have to do with each other and for what callers may wait; `Rest` adds what holds
between callbacks, the blocker and where a failed job can be; `Linked` ties `job->pid[]` to the children both ways; and
`MainSetUp` keeps a main process that is still in its set-up within spawned. None
of the four properties on states is inductive without the others: an assertion of
`job_process_terminated()` holds because of what the state says of the pids, and
that the death of a child finds its process because of `Linked`. The two
hypotheses of `StartAnsweredRight` came out of the attempt to do without them.
With post-stop, a start that is accepted while a failed job is stopping is
answered with success when post-stop fails as well, because `job_failed()`
(`job.c:871`) tells nobody a second time and `job_finished()` (`job.c:618`)
answers without an error. A start that cancels the stop of a task is answered at
once (`job.c:543`).

`JobInstanceLifecycle_proofs`:

- `LifecycleImplemented`: `Spec => FollowsDiagram`, that is, `JobInstance`
  implements `JobLifecycle`. The mapping shows the state, and the goal with
  respawn shown as start. Besides `IInv` it needs `AtRest`: an instance in
  waiting has the goal stop and no blocker. The heart of it is
  `StopThenNextSteps`: a handler that changes the goal, which may change the
  state, and then asks for the next state again does not go two arrows far,
  since the first change leaves the job blocked by its own event.

`RespawnLimit_proofs`, for any limit and interval:

- `RespawnsLimited`: `Spec => []AnyIntervalTwiceLimit`. The property compares
  respawns twice the limit apart, over which the counter may have been reset
  once, so the invariant has to place the past relative to `respawn_time`: the
  counter is at most the limit (`Counter`), the respawns before the last
  `respawn_count` ones are not after `respawn_time` (`Before`), and those more
  than a limit further back are a whole interval before it (`LongBefore`).

`ProcessTrace_proofs`, for any set of pids, when no signal reaches a process
before `init` follows it and no process is killed while it is stopped for `init`
(`~EarlySignals`, `~StoppedDie`):

- `FollowsRightProcess`: `[]RightProcessFollowed`;
- `LeavesNoneStopped`: `[]NoneLeftStopped`.

The invariant says what the trace state of the job means for the process it
follows (`Known`), that at most one other process is tied to `init`, the child of
a fork whose report has not been read, with the reports it may still give
(`Pending`), and that all others run free (`Alone`).

`Events_proofs`, for any classes, expressions and bounds:

- `NoReferenceDangles`: `[]TypeOK`: no expression or job refers to an event that
  has been freed;
- `BlockersCountReferences`: `[]BlockersCounted`;
- `BlockedJobsAreTold`: `[]BlockerTells`;
- `AssertionsHold`: `[]NoAssertionFails`, if any event that a class with a cgroup
  stanza waits for is enough to start it (`AnyEventStarts`; otherwise the
  assertion of `job_class_induct_jobs()` fails, see the observations);
- `FailuresReported`: the action property `FailureReported`, from the failure of a
  job to the `/failed` event and the error reply of each event that waits for it;
- `EventsWaitForJobs`: the action property `JobEventsWait`.

The three invariants hold or fall together: an event is freed when its counter
is zero, which is right only if the counter is that of the references; and the
counter stays right only if an event that moves a job is the one the job waits
for. `Sound` puts that together for a system with perhaps one event in hand (it
has been taken off its counter and its job not yet moved), so that it can be
stated of the intermediate values of a callback. `Polls` and `NotYet` say where
`event_poll()` is and that an event that is still pending is referred to by
nobody. `event_poll()` is a step per class, so no induction over classes is
needed; that a poll moves one job at a time through several changes is a chain of
lemmas, one for each operator.

`JobEventsWait` is the promise of starting(7) and stopping(7) in three parts: an
event that stops a job by itself, or starts it, its class being able to start and to
name the instance, is blocked by the job when the class has
been shown the event (`BeginsToWait`), it stays so until the job is there, fails or
its goal changes (`WaitsOn`), and a job that is starting or stopping goes on only when
the event it emitted waits for nobody (`GoesOnAlone`). It does not say that an event
waits until the job *stays* stopped: a job that other events start again in between
no longer holds up the first. The second invariant it needs says that an expression
that became true was reset, unless its class waits for the cgroup manager
(`Unsatisfied`), and that what waits for a job because of its stop on waits for a job
that is to stop (`Toward`). Since an expression was false before, one that the event
makes true has a leaf with this event among the nodes that made it true (`HasPart`):
that event is among those handed to the job. `Evaluate` and `Contributing` choose a
set of nodes by a fixed-point equation; that there is always such a set is proved from
the intersection of all that are closed (`EvaluateIs`, `ContributingIs`), and that
more leaves make no node false from the least node that would be one (`MoreIsTrue`),
without an induction.

`Conf_proofs`, for any directories, texts and instances, if overrides parse
(`OverridesParse`: the run `conf_parse_error` shows what happens otherwise):

- `ClassesNeitherLostNorDangling`: `[]ClassesAccounted`;
- `InstancesStayReachable`: `[]InstancesReachable`;
- `BestClassRegistered`: `[]BestUnlessRunning`;
- `ReloadHandsOver`: the action property `ReloadKeepsMatches`, if in addition no
  override has a `start on` (`OverridesKeepStartOn`, see the observations);
- `SettledFollowsDisk`: `[]SettledMatchesDisk`.

The invariant adds to the three that no two ConfFiles share a class (`Distinct`)
and that a class without a ConfFile is marked as deleted (`Marked`), which is what
lets the end of its last instance free it. That the best class is a minimum over
directories is where the order of directories enters. `AddressAssumption` says
that there is always room for one more class.

`SettledFollowsDisk` needs a second invariant, `PInv`, on top of that one. It says
of each directory whose memory is not what the disk holds what will remove the
difference: a notification in its queue, a load or deletion that a notification
or a reload has begun, or that the directory is not watched. The last notification
of a queue about a file says what is on the disk now (an edit is queued after the
one before it), so handling the others out of date does no harm; a reload sets
right what it walks past, and the order in which it walks, marks and sweeps
(`ReloadOrder`, `SweepOrder`) is what makes a file that vanished during it
disappear from memory as well. The rest is that the best class is then that of the
best directory on the disk, which `BestUnlessRunning` gives.

`Quiesce_proofs`, for any finite set of jobs and any timeouts:

- `SigkilledBeforeExit`: `[]KilledBeforeExit`, which is about the jobs in `Prompt`:
  those without a pre-stop process whose events no job waits for. The run
  `shutdown_prestop` shows that the others can be left behind without any signal;
- `SessionEndsInTime`: `[]EndsInTime`, for all jobs;
- `SessionEndJobsWaitedFor`: the action property `WaitedFor`, if no event is
  pending when the session is ended and no session-end job also starts on the
  starting or stopping event of a job (`~EmitsBefore` and `NotHooked`, see the
  observations).

The argument is about two clocks. A job in `Prompt` that has been asked to stop is
sent its kill signal in the turn in which the phase begins, which is at most a second
later (`InTime`), since its stopping event is on the list exactly once (`Linked`)
and a turn ends only with the list empty; so its kill timer is due no later than a
second after the timeout of the kill phase, which is the maximum over the
instances there are, and that is when the shutdown's own timer, which compares
with `>`, ends the session. `Phases` bounds both phases. For `WaitedFor`, the
session-end event is the first of the list and is polled before the timer can
fire (`Announced`), and after the wait phase either the time of session-end jobs
is over or no job is to go on (`Given`).

`Log_proofs`, for any number of processes that share a log, any amount of output,
and any changes of the disk, if the disk has room for all the output:

- `OutputNotLost`: `LogSpec => []NothingLost`.

`Ordered` says that the rotated parts, the file, and what of a process is on its
way (kept output, the buffer of the reader, the pty) hold only pieces that were
written, and those of the process in order; behind what has reached the disk
there are only pieces of this process, which is what lets another process write
to the file in between. That alone would allow loss, so `Unspoilt` says of a disk
that is there and not filled by others that what is written is there completely,
that the reader's buffer is empty between handlers, and that whatever waits in a
log waits because the disk is read-only. The disk then is never full: by a
counting argument (`Bounded`), as no piece is logged twice, what is logged is no
longer than all the output, and there is room for that. `Stage` ties a log to its
process (no process writes to a log that was freed), and `Told` says that a log
with unwritten output has met an error, on which an assertion of
`log_clear_unflushed()` relies. Each operator of `log.c` is shown to move pieces
from one buffer to the next (`WriteMoves`, `KeepMoves`, `DropMoves`) or to lose
the end of them (`Begins`), and the latter only when the disk is full or a log is
freed.

Only model-checked:

- liveness (`StopCompletes`, `CallersAnswered`, `EventsFinish`), which is outside
  what the prover can do;
- `Environ`, `StateData`, `ParseJob` and `Reexec`, which use recursive operators
  on trees and texts: what they compute for every input is an induction over
  data.

## Observations without a run

Seen while modelling, of which the runs keep no instance:

- `job_failed()` ignores a second failure: who asks for a start after the first,
  while a post-stop process runs that will fail too, is told that the start went
  well (`job_answers` has no post-stop process);
- an instance name that cannot be expanded ends the loop over the classes in
  `event_pending_handle_jobs()`, and the rest do not see the event;
- a class is considered before its override is applied; a `start on` in the
  override replaces the tree that has just taken over the matched events, so
  that a reload loses them after all (the override of `conf_reload` has none);
- a class put aside for one of a directory with higher priority goes on holding
  the events its `start on` had matched;
- a reload between the removal of a job directory and its notification can leave
  a new directory of that name unwatched until the next reload;
- the diagram as drawn lacks the arrows a respawn takes from spawned,
  post-start and pre-stop to stopping; `JobLifecycle` has them;
- a main process that ends during post-start or pre-stop of a job with another
  goal than start can leave the job in running without it until it is stopped;
- a restart of a job with a pre-stop process can end with the stop cancelled and
  the old main process running, as the goal is start again when pre-stop ends;
- with reaping before reading, a newline left by a main process that was
  respawned counts for its successor;
- a start that cancels the stop of a running task is answered at once;
- the intervals of the respawn limit do not overlap, so an interval that
  lies across two of them sees up to twice the limit;
- a failed set-up of the security process changes the goal but, unlike for
  every other process, not the state (`job.c:2610`): the job stays in security;
- a class with a cgroup stanza that needs two events has matched one of them
  when the cgroup manager arrives; `job_class_induct_jobs()` asserts that the
  whole condition is true (`event.c:396`, `job_class.c:2705`).

Of a re-exec:

- after the events, `state_from_string()` overwrites the result it was to return
  (`state.c:495`), so that a failure of sources, classes or references passes for
  success and leaves a half-restored daemon;
- after a failed restore the descriptors that were passed stay open;
- `state_read()` and `state_write()` go on waiting when the timeout that their
  comment promises has expired: the loop around `select()` ends with data or an
  error only (`state.c:120`);
- names without a value in `env` and `export` are read as an environment
  (`job_class.c:2132`): they are dropped, or become assignments;
- the watch on the pipe of `expect readyfd` is not restored, and the job stays in
  spawned; a limit of zero and zero is taken for none;
- classes that were put aside and hold events are not written at all;
- when the exec itself fails, the control server stays closed and the
  descriptors stay open for children.

Of the end of a session:

- with another event pending before `session-end` and no instance, the timer can
  find nothing running before the session-end jobs have been started, although
  `quiesce.c` says that they "will be waited for";
- a job in pre-stop, or whose stopping event other jobs block, is sent its kill signal
  only when that is over, while the time of the kill phase runs from the beginning
  of the phase (`quiesce.c:221`): its kill timer may be due after `init` has left,
  or it is never signalled (`shutdown_prestop`); its pre-stop process is not killed
  either;
- a session-end job whose starting event is blocked has no process yet, and
  `job_process_jobs_running()` counts processes: the wait phase may end before it
  starts;
- a job that a stopping event starts in the kill phase is not asked to stop, as
  `job_process_stop_all()` is called only when a phase begins;
- a session-end job that is running already is stopped and started again; if the
  timer fires between the two, nothing runs and the session ends;
- the phases are timed with the wall clock, the timers with the monotonic one.

Of the log:

- output that cannot be written because the directory is missing is lost when
  the process ends, since only a read-only disk and missing permission keep it;
- so is the last output when the disk turns read-only under an open file, and the
  rest of a write that was cut short on the last read;
- kept logs are flushed newest first, so that the output of a job that ran twice
  is in the wrong order;
- the notice that the disk is writeable counts even when it is not.

Of traced processes:

- a signal that stops a process before its first exec, or a new child before its
  own stop, is taken for another stop and the process is left stopped;
- if the parent is killed while it is stopped at its fork, its child is never
  released.

Of the parsers and tables:

- `${KEY+alternate}` is documented the wrong way round (`environ.c:470`, run
  `expand_alternate`);
- `environ_remove()` compares as many characters as the entry has: removing
  FOOBAR removes FOO; and it passes over the entry after a removed one;
- `kill timeout 0` is accepted, and the kill timer asserts that the timeout is not
  zero (`job_process.c:1399`);
- numbers are cut to an int before they are checked (`nice 4294967296` is 0);
- an illegal signal is not among the errors that `conf.c` tolerates in a job
  file;
- `event_operator_collapse()` does not quote names with white space.

## Not modelled

- `main.c`, `system.c`, `xdg.c`, `apparmor.c`: they run once and decide nothing
  later; the order in which the main loop attends to its callbacks is an
  assumption of `JobInstance` (`PipeFirst`) and `Quiesce` (the stages).
- `initctl` and the SysV tools turn a command line into a D-Bus call and print the
  answer. In the models they are the callers.
- The bridges in `extra` are programs of their own that emit events, in `Events`
  the outside. That of files, the only one with a state machine, follows the
  directories of libnih's watches, whose code is not here, and says itself that
  it misses events.
- Connections, permissions and marshalling of `control.c`; user sessions.
- The set-up of a child between fork and exec, which succeeds or fails.
- Strings as such: names are compared, texts are tokens.

## Plan

Done: the job instance, its diagram, the respawn limit, expect with its four
forms, events and expressions, configuration sources and the registry of classes,
the parser, environment tables, the end of a session, the log and the re-exec;
the safety properties of the job instance, the respawn limit, traced processes,
events, configuration, the end of a session and the log proved, and the
refinement.

1. `Conf` composed with the expressions of `Events`: events held by classes that
   are put aside or replaced, over the blockers that `events` counts.
2. Event matching with environment, and the collection of the environment and
   file descriptors of a tree, as pure operators against a reference
   definition.
