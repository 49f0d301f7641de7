------------------------------- MODULE Reexec -------------------------------
(***************************************************************************)
(* What survives when init re-executes itself: state_to_string() in the    *)
(* old instance, execve(), and state_from_string() and conf_reload() in    *)
(* the new one (init/state.c, and the _serialise and _deserialise          *)
(* functions of event.c, job.c, job_class.c, log.c, conf.c, control.c and  *)
(* cgroup.c).                                                              *)
(*                                                                         *)
(* world is the memory of init: its events, in order, by address; the      *)
(* registered classes with their instances; the configuration sources; the *)
(* addresses of the bus and of the cgroup manager; the job environment.    *)
(* Plain numbers and strings are told apart only by the field they belong  *)
(* to and by whether they are set.  json is the text in the pipe.  fdFlag  *)
(* tells of each descriptor whether it is closed, open across an exec, or  *)
(* open and close-on-exec.                                                 *)
(***************************************************************************)
EXTENDS StateData, FiniteSets, FiniteSetsExt

CONSTANTS
  Classes,        \* names of job classes, each with a file of its name
  Own,            \* init's own environment
  KillTimers,     \* whether a re-exec may come while a kill timer runs
  FaultyStages,   \* the parts of the text that the new instance may not accept
  MaxGenerations  \* how many times init is re-executed

ASSUME GenerationsAssumption == MaxGenerations \in Nat

VARIABLES world, json, restoring, fdFlag, generation, before

reexecVars == <<world, json, restoring, fdFlag, generation, before>>

Stages == {"up", "events", "sources", "classes", "deps", "reload", "aborted"}

Fds == Classes \X {"setup", "shell", "pty", "logfile", "ready"}

\* An address in the memory of one generation; no two have one in common.
Addr(gen, i) == 10 * (gen + 1) + i

-----------------------------------------------------------------------------
(* Fields that are written and read one by one.                             *)

\* Fields of a class, as job_class_serialise writes them.
ClassIntsWritten ==
  {"task", "kill_timeout", "kill_signal", "reload_signal", "respawn",
   "respawn_limit", "respawn_interval", "umask", "nice", "oom_score_adj",
   "deleted", "debug"}

ClassStringsWritten ==
  {"instance", "description", "author", "version", "chroot", "chdir", "setuid",
   "setgid", "usage", "apparmor_switch"}

\* Fields of a class, as job_class_deserialise reads them.
ClassIntsRead ==
  {"task", "kill_timeout", "kill_signal", "reload_signal", "respawn",
   "respawn_limit", "respawn_interval", "umask", "nice", "oom_score_adj",
   "deleted", "debug"}

ClassStringsRead ==
  {"instance", "description", "author", "version", "chroot", "chdir", "setuid",
   "setgid", "usage", "apparmor_switch"}

JobInts == {"failed", "exit_status", "respawn_time", "respawn_count", "trace_forks"}

-----------------------------------------------------------------------------
(* Descriptors *)

\* state_modify_cloexec: the flag of an open descriptor; a closed one is an error.
StateModifyCloexec(flags, fd, set) ==
  IF fd = NULL \/ flags[fd] = "closed" THEN flags
  ELSE [flags EXCEPT ![fd] = IF set THEN "cloexec" ELSE "open"]

\* execve closes what is close-on-exec.
AfterExec(flags) == [fd \in Fds |-> IF flags[fd] = "open" THEN "open" ELSE "closed"]

-----------------------------------------------------------------------------
(* Blocked entries: [type, of].  of is an instance <<class, name>>, the     *)
(* address of an event, or a message.                                       *)

BLOCKED_JOB   == 0
BLOCKED_EVENT == 1
BLOCKED_EMIT  == 2
BLOCKED_START == 3

StateSerialiseBlocked(w, b) ==
  [type |-> EnumToStr(BlockedTypeStrs, 0, b.type),
   data |-> IF b.type = BLOCKED_EVENT THEN EventToIndex(w.events, b.of) ELSE b.of]

\* Mutant of StateSerialiseBlocking: events are left behind as well.
StateSerialiseBlocking_JobsOnly(w, list) ==
  LET kept == SelectSeq(list, LAMBDA b : b.type = BLOCKED_JOB)
  IN [i \in DOMAIN kept |-> StateSerialiseBlocked(w, kept[i])]

\* Waiting D-Bus callers are left behind: their connections cannot be passed on.
StateSerialiseBlocking(w, list) ==
  LET kept == SelectSeq(list, LAMBDA b : b.type \in {BLOCKED_JOB, BLOCKED_EVENT})
  IN [i \in DOMAIN kept |-> StateSerialiseBlocked(w, kept[i])]

\* job_find: the instance of a class by their names.
JobFind(w, class, name) ==
  IF class \in DOMAIN w.classes /\ name \in DOMAIN w.classes[class].instances
  THEN <<class, name>> ELSE NULL

StateDeserialiseBlocked(w, j) ==
  LET type == StrToEnum(BlockedTypeStrs, 0, j.type)
  IN [type |-> type,
      of |-> IF type = BLOCKED_EVENT THEN EventFromIndex(w.events, j.data)
             ELSE JobFind(w, j.data[1], j.data[2])]

StateDeserialiseBlocking(w, list) ==
  [i \in DOMAIN list |-> StateDeserialiseBlocked(w, list[i])]

-----------------------------------------------------------------------------
(* Events *)

EventSerialise(w, e) ==
  [name |-> e.name, env |-> StateSerialiseStrArray(e.env), fd |-> e.fd,
   progress |-> EnumToStr(EventProgressStrs, 0, e.progress), failed |-> e.failed,
   blockers |-> e.blockers, blocking |-> StateSerialiseBlocking(w, e.blocking)]

EventSerialiseAll(w) ==
  [i \in DOMAIN w.events |-> EventSerialise(w, w.ev[w.events[i]])]

\* The list of what the event blocks waits for the jobs to be there.
EventDeserialise(j) ==
  [name |-> j.name, env |-> StateDeserialiseStrArray(j.env), fd |-> j.fd,
   progress |-> StrToEnum(EventProgressStrs, 0, j.progress), failed |-> j.failed,
   blockers |-> j.blockers, blocking |-> <<>>]

\* event_new appends each to the list, so that the order, and with it every
\* index, stays what it was.
EventDeserialiseAll(w, list, gen) ==
  [w EXCEPT !.events = [i \in DOMAIN list |-> Addr(gen, i)],
            !.ev = [a \in {Addr(gen, i) : i \in DOMAIN list} |->
                      EventDeserialise(list[CHOOSE i \in DOMAIN list : Addr(gen, i) = a])]]

-----------------------------------------------------------------------------
(* Logs: [path, io, fd, uid, unflushed, detached, remote_closed, open_errno] *)

\* Output that is still held back is written first, if the file can be opened.
LogFlushed(log, disk, file) ==
  IF log = NULL \/ log.unflushed = <<>> \/ ~(disk \/ log.fd # NULL) THEN log
  ELSE [log EXCEPT !.unflushed = <<>>, !.fd = IF @ = NULL THEN file ELSE @]

\* A log whose process has closed its end has no watch and leaves a placeholder.
LogSerialise(log) ==
  IF log = NULL \/ log.io = NULL THEN [path |-> NULL]
  ELSE [path |-> log.path, io_watch_fd |-> log.io, fd |-> log.fd, uid |-> log.uid,
        unflushed |-> StateDataToHex(log.unflushed),
        detached |-> log.detached, remote_closed |-> log.remote_closed,
        open_errno |-> log.open_errno]

LogDeserialise(j, flags) ==
  IF j.path = NULL THEN NULL
  ELSE IF flags[j.io_watch_fd] = "closed" THEN NULL
  ELSE [path |-> j.path, io |-> j.io_watch_fd, fd |-> j.fd, uid |-> j.uid,
        unflushed |-> StateHexToData(j.unflushed),
        detached |-> j.detached, remote_closed |-> j.remote_closed,
        open_errno |-> j.open_errno]

-----------------------------------------------------------------------------
(* Children that are being set up:                                          *)
(* [process, script, shell_fd, job_process_fd, status, valid]               *)

JobProcessDataSerialise(data) ==
  [process |-> EnumToStr(ProcessTypeStrs, -2, data.process), script |-> data.script,
   shell_fd |-> data.shell_fd, job_process_fd |-> data.job_process_fd,
   status |-> data.status, valid |-> data.valid]

JobProcessDataDeserialise(j, flags) ==
  IF \E fd \in {j.shell_fd, j.job_process_fd} \ {NULL} : flags[fd] = "closed" THEN NULL
  ELSE
  [process |-> StrToEnum(ProcessTypeStrs, -2, j.process), script |-> j.script,
   shell_fd |-> j.shell_fd, job_process_fd |-> j.job_process_fd,
   status |-> j.status, valid |-> j.valid]

\* The descriptors of a child in flight, which are kept open over the exec.
DataFds(data) == IF data = NULL THEN {} ELSE {data.shell_fd, data.job_process_fd} \ {NULL}

-----------------------------------------------------------------------------
(* Jobs *)

JobSerialiseKillTimer(timer) == [timeout |-> timer.timeout, due |-> timer.due]

JobDeserialiseKillTimer(j) == [due |-> j.due, timeout |-> j.timeout]

\* Mutant of ProcessDataWritten: what has been handled already is passed on too.
ProcessDataWritten_Handled(data) == data # NULL

\* Only a child that is still being set up is passed on.
ProcessDataWritten(data) == data # NULL /\ data.valid

JobSerialise(w, job) ==
  [name |-> job.name,
   goal |-> EnumToStr(JobGoalStrs, 0, job.goal),
   state |-> EnumToStr(JobStateStrs, 0, job.state),
   env |-> StateSerialiseStrArray(job.env),
   start_env |-> StateSerialiseStrArray(job.start_env),
   stop_env |-> StateSerialiseStrArray(job.stop_env),
   stop_on |-> EventOperatorSerialiseAll(job.stop_on, w.events),
   fds |-> StateSerialiseIntArray(job.fds),
   pid |-> StateSerialiseIntArray(job.pid),
   blocker |-> IF job.blocker = NULL THEN NULL ELSE EventToIndex(w.events, job.blocker),
   blocking |-> StateSerialiseBlocking(w, job.blocking),
   kill_timer |-> IF job.kill_timer = NULL THEN NULL
                  ELSE JobSerialiseKillTimer(job.kill_timer),
   kill_process |-> EnumToStr(ProcessTypeStrs, -2, job.kill_process),
   failed_process |-> EnumToStr(ProcessTypeStrs, -2, job.failed_process),
   trace_state |-> EnumToStr(JobTraceStateStrs, 0, job.trace_state),
   ints |-> job.ints,
   log |-> [i \in 1..ProcessLast |-> LogSerialise(job.log[i])],
   process_data |-> [i \in 1..ProcessLast |->
                       IF ProcessDataWritten(job.process_data[i])
                       THEN JobProcessDataSerialise(job.process_data[i]) ELSE NULL]]

JobSerialiseAll(w, jobs) == [n \in DOMAIN jobs |-> JobSerialise(w, jobs[n])]

\* The assertion that a kill timer is for a process other than number 0, which
\* is the main process (PROCESS_MAIN).
KillTimerAsserts(j) ==
  j.kill_timer # NULL => StrToEnum(ProcessTypeStrs, -2, j.kill_process) # 0

\* What job_deserialise makes of j: its blocking list comes later.
JobRead(w, j, flags) ==
  [name |-> j.name,
   goal |-> StrToEnum(JobGoalStrs, 0, j.goal),
   state |-> StrToEnum(JobStateStrs, 0, j.state),
   env |-> StateDeserialiseEnvArray(j.env, Own),
   start_env |-> StateDeserialiseEnvArray(j.start_env, Own),
   stop_env |-> StateDeserialiseEnvArray(j.stop_env, Own),
   stop_on |-> EventOperatorDeserialiseAll(j.stop_on, w.events),
   blocker |-> IF j.blocker = NULL THEN NULL ELSE EventFromIndex(w.events, j.blocker),
   blocking |-> <<>>,
   kill_process |-> StrToEnum(ProcessTypeStrs, -2, j.kill_process),
   kill_timer |-> IF j.kill_timer = NULL THEN NULL
                  ELSE JobDeserialiseKillTimer(j.kill_timer),
   failed_process |-> StrToEnum(ProcessTypeStrs, -2, j.failed_process),
   ints |-> j.ints,
   fds |-> StateDeserialiseIntArray(j.fds, NULL),
   pid |-> StateDeserialiseIntArray(j.pid, NULL),
   trace_state |-> StrToEnum(JobTraceStateStrs, 0, j.trace_state),
   log |-> [i \in 1..ProcessLast |-> LogDeserialise(j.log[i], flags)],
   process_data |-> [i \in 1..ProcessLast |->
                       IF j.process_data[i] = NULL THEN NULL
                       ELSE JobProcessDataDeserialise(j.process_data[i], flags)]]

\* A reference that leads nowhere or a child whose pipe is closed is an error.
JobDeserialise(w, j, flags) ==
  LET job == JobRead(w, j, flags)
  IN IF \/ j.blocker # NULL /\ job.blocker = NULL
        \/ \E i \in 1..ProcessLast : j.process_data[i] # NULL /\ job.process_data[i] = NULL
     THEN NULL ELSE job

JobDeserialiseAll(w, list, flags) ==
  [n \in DOMAIN list |-> JobDeserialise(w, list[n], flags)]

-----------------------------------------------------------------------------
(* Classes *)

JobClassSerialise(w, class) ==
  [name |-> class.name,
   ints |-> [f \in ClassIntsWritten |-> class.ints[f]],
   strings |-> [f \in ClassStringsWritten |-> class.strings[f]],
   jobs |-> JobSerialiseAll(w, class.instances),
   env |-> StateSerialiseStrArray(class.env),
   export |-> StateSerialiseStrArray(class.export),
   start_on |-> EventOperatorSerialiseAll(class.start_on, w.events),
   stop_on |-> EventOperatorSerialiseAll(class.stop_on, w.events),
   emits |-> StateSerialiseStrArray(class.emits),
   process |-> ProcessSerialiseAll(class.process),
   expect |-> EnumToStr(ExpectTypeStrs, 0, class.expect),
   console |-> EnumToStr(ConsoleTypeStrs, 0, class.console),
   normalexit |-> StateSerialiseIntArray(class.normalexit),
   limits |-> StateRlimitSerialiseAll(class.limits),
   cgmanager_wait |-> class.cgmanager_wait,
   cgroups |-> CgroupSerialiseAll(class.cgroups)]

\* The registered classes; order is the order in which the hash lists them.
JobClassSerialiseAll(w, order) ==
  [i \in DOMAIN order |-> JobClassSerialise(w, w.classes[order[i]])]

\* A class as job_class_new makes it, before any field is read.
JobClassNew(name) ==
  [name |-> name, ints |-> [f \in ClassIntsWritten |-> <<f, 0>>],
   strings |-> [f \in ClassStringsWritten |-> NULL], instances |-> <<>>,
   env |-> NULL, export |-> NULL, start_on |-> NULL, stop_on |-> NULL, emits |-> NULL,
   process |-> [i \in 1..ProcessLast |-> NULL], expect |-> 0, console |-> 3,
   normalexit |-> NULL, limits |-> [i \in 1..RlimitNlimits |-> NULL],
   cgmanager_wait |-> FALSE, cgroups |-> <<>>]

\* The class is considered, and so registered, before its instances are read.
JobClassDeserialise(w, j, flags) ==
  LET new == JobClassNew(j.name)
  IN [new EXCEPT
        !.ints = [f \in DOMAIN @ |-> IF f \in ClassIntsRead THEN j.ints[f] ELSE @[f]],
        !.strings = [f \in DOMAIN @ |-> IF f \in ClassStringsRead THEN j.strings[f] ELSE @[f]],
        !.env = StateDeserialiseEnvArray(j.env, Own),
        !.export = StateDeserialiseEnvArray(j.export, Own),
        !.start_on = EventOperatorDeserialiseAll(j.start_on, w.events),
        !.stop_on = EventOperatorDeserialiseAll(j.stop_on, w.events),
        !.emits = StateDeserialiseStrArray(j.emits),
        !.expect = StrToEnum(ExpectTypeStrs, 0, j.expect),
        !.console = StrToEnum(ConsoleTypeStrs, 0, j.console),
        !.normalexit = StateDeserialiseIntArray(j.normalexit, @),
        !.limits = StateRlimitDeserialiseAll(j.limits),
        !.process = ProcessDeserialiseAll(j.process),
        !.instances = JobDeserialiseAll(w, j.jobs, flags),
        !.cgroups = CgroupDeserialiseAll(j.cgroups),
        !.cgmanager_wait = j.cgmanager_wait]

\* The descriptors that have to be open in the next instance: those of children
\* in flight, and of every log that still has a writer.
JobFds(job) ==
  UNION {DataFds(job.process_data[i]) : i \in
           {k \in 1..ProcessLast : ProcessDataWritten(job.process_data[k])}}

LogFds(job) ==
  UNION {{job.log[i].io, job.log[i].fd} \ {NULL} : i \in
           {k \in 1..ProcessLast : job.log[k] # NULL /\ job.log[k].io # NULL}}

AllJobs(w) == UNION {Range(w.classes[c].instances) : c \in DOMAIN w.classes}

\* job_class_prepare_reexec, for the logs.
JobClassPrepareReexec(w, flags) ==
  LET keep == UNION {LogFds(job) : job \in AllJobs(w)}
  IN [fd \in Fds |-> IF fd \in keep THEN "open" ELSE flags[fd]]

-----------------------------------------------------------------------------
(* Configuration sources: a sequence of [path, type, flag, files]; files is *)
(* a sequence of [path, flag, job] and job the class it is the best of.     *)

\* The class that is named is the registered one, not a newer one that waits.
ConfFileSerialise(w, file) ==
  [path |-> file.path, flag |-> file.flag,
   job_class |-> IF file.job = NULL THEN NULL ELSE w.classes[file.job].name]

ConfSourceSerialise(w, source) ==
  [path |-> source.path, type |-> EnumToStr(ConfSourceTypeStrs, 0, source.type),
   flag |-> source.flag,
   conf_files |-> [i \in DOMAIN source.files |-> ConfFileSerialise(w, source.files[i])]]

ConfSourceSerialiseAll(w) ==
  [i \in DOMAIN w.sources |-> ConfSourceSerialise(w, w.sources[i])]

\* The class is found later, by its name, when it is read itself.
ConfFileDeserialise(j) == [path |-> j.path, flag |-> j.flag, job |-> NULL]

ConfFileDeserialiseAll(list) == [i \in DOMAIN list |-> ConfFileDeserialise(list[i])]

ConfSourceDeserialise(j) ==
  [path |-> j.path, type |-> StrToEnum(ConfSourceTypeStrs, 0, j.type), flag |-> j.flag,
   files |-> ConfFileDeserialiseAll(j.conf_files)]

ConfSourceDeserialiseAll(list) == [i \in DOMAIN list |-> ConfSourceDeserialise(list[i])]

\* conf_file_find: the first file of that name, source by source.
ConfFileFind(sources, name) ==
  LET at == {p \in UNION {{i} \X DOMAIN sources[i].files : i \in DOMAIN sources} :
               sources[p[1]].files[p[2]].path = name}
  IN IF at = {} THEN NULL
     ELSE CHOOSE p \in at : \A q \in at : p[1] < q[1] \/ (p[1] = q[1] /\ p[2] <= q[2])

\* The file of a class is given the class.
LinkFile(sources, name) ==
  LET p == ConfFileFind(sources, name)
  IN IF p = NULL THEN sources ELSE [sources EXCEPT ![p[1]].files[p[2]].job = name]

-----------------------------------------------------------------------------
(* The whole state *)

ControlSerialiseBusAddress(w) == w.bus

ControlDeserialiseBusAddress(w, j) == [w EXCEPT !.bus = j]

CgroupManagerSerialise(w) == w.cgroup_manager

CgroupManagerDeserialise(w, j) == [w EXCEPT !.cgroup_manager = j]

\* The environment that jobs are given is an array of plain strings here.
JobClassSerialiseJobEnviron(w) == StateSerialiseStrArray(w.environ)

JobClassDeserialiseJobEnviron(w, j) == [w EXCEPT !.environ = StateDeserialiseStrArray(j)]

StateToString(w, order) ==
  [events |-> EventSerialiseAll(w),
   control_bus_address |-> ControlSerialiseBusAddress(w),
   cgroup_manager_address |-> CgroupManagerSerialise(w),
   job_environment |-> JobClassSerialiseJobEnviron(w),
   job_classes |-> JobClassSerialiseAll(w, order),
   conf_sources |-> ConfSourceSerialiseAll(w)]

\* Memory right after the exec.
Nothing ==
  [events |-> <<>>, ev |-> <<>>, bus |-> NULL, cgroup_manager |-> NULL,
   environ |-> NULL, sources |-> <<>>, classes |-> <<>>]

\* log_serialise flushes while it writes; a file it opens is close-on-exec.
FlushLogs(w, disk) ==
  [w EXCEPT !.classes = [c \in DOMAIN @ |->
     [@[c] EXCEPT !.instances = [n \in DOMAIN @ |->
        [@[n] EXCEPT !.log = [i \in DOMAIN @ |-> LogFlushed(@[i], disk, <<c, "logfile">>)]]]]]]

Opened(w, flags) ==
  LET used == UNION {LogFds(job) : job \in AllJobs(w)}
  IN [fd \in Fds |-> IF fd \in used /\ flags[fd] = "closed" THEN "cloexec" ELSE flags[fd]]

\* job_process_data_serialise lets the descriptors of children through the exec.
LetThrough(w, flags) ==
  LET keep == UNION {JobFds(job) : job \in AllJobs(w)}
  IN [fd \in Fds |-> IF fd \in keep THEN StateModifyCloexec(flags, fd, FALSE)[fd] ELSE flags[fd]]

\* stateful_reexec: the state is turned into text with all signals blocked, the
\* descriptors are let through and init executes itself.
StatefulReexec ==
  /\ restoring = "up"
  /\ generation < MaxGenerations
  /\ \E disk \in BOOLEAN, order \in SetToSeqs(DOMAIN world.classes) :
       LET w == FlushLogs(world, disk)
       IN /\ json' = StateToString(w, order)
          /\ fdFlag' = AfterExec(JobClassPrepareReexec(w, LetThrough(w, Opened(w, fdFlag))))
          /\ before' = w
  /\ world' = Nothing
  /\ generation' = generation + 1
  /\ restoring' = "events"

\* event_deserialise_all, and the two addresses.
ReadEvents ==
  /\ restoring = "events"
  /\ world' = CgroupManagerDeserialise(
                ControlDeserialiseBusAddress(
                  EventDeserialiseAll(world, json.events, generation),
                  json.control_bus_address),
                json.cgroup_manager_address)
  /\ restoring' = "sources"
  /\ UNCHANGED <<json, fdFlag, generation, before>>

ReadSources ==
  /\ restoring = "sources"
  /\ world' = JobClassDeserialiseJobEnviron(
                [world EXCEPT !.sources = ConfSourceDeserialiseAll(json.conf_sources)],
                json.job_environment)
  /\ restoring' = "classes"
  /\ UNCHANGED <<json, fdFlag, generation, before>>

\* Mutant of Secured: the flags are left as they were passed.
Secured_Left(w, flags) == flags

\* The descriptors of the jobs that were read are close-on-exec again.
Secured(w, flags) ==
  LET used == UNION {JobFds(job) \cup LogFds(job) : job \in AllJobs(w)}
  IN [fd \in Fds |-> IF fd \in used THEN StateModifyCloexec(flags, fd, TRUE)[fd] ELSE flags[fd]]

\* job_class_deserialise_all, one class after the other.
ReadClass ==
  LET i     == Cardinality(DOMAIN world.classes) + 1
      j     == json.job_classes[i]
      class == JobClassDeserialise(world, j, fdFlag)
      added == [world EXCEPT !.classes = [c \in DOMAIN @ \cup {j.name} |->
                                            IF c = j.name THEN class ELSE @[c]],
                             !.sources = LinkFile(@, j.name)]
      aborts == \E n \in DOMAIN j.jobs : ~KillTimerAsserts(j.jobs[n])
      read  == ~aborts /\ NULL \notin Range(class.instances)
  IN /\ restoring = "classes"
     /\ i <= Len(json.job_classes)
     /\ world' = IF read THEN added ELSE world
     /\ fdFlag' = IF read THEN Secured(added, fdFlag) ELSE fdFlag
     /\ restoring' = CASE aborts -> "aborted"
                   [] ~aborts /\ ~read -> "reload"
                   [] read /\ i < Len(json.job_classes) -> "classes"
                   [] read /\ i = Len(json.job_classes) -> "deps"
     /\ UNCHANGED <<json, generation, before>>

\* state_deserialise_resolve_deps: the lists of what each event and each job
\* blocks, now that both are there.
StateDeserialiseResolveDeps ==
  /\ restoring = "deps"
  /\ world' =
       [world EXCEPT
          !.ev = [a \in DOMAIN @ |->
                    [@[a] EXCEPT !.blocking = StateDeserialiseBlocking(world,
                       json.events[EventToIndex(world.events, a) + 1].blocking)]],
          !.classes = [c \in DOMAIN @ |->
             LET j == (CHOOSE k \in Range(json.job_classes) : k.name = c)
             IN [@[c] EXCEPT !.instances = [n \in DOMAIN @ |->
                   [@[n] EXCEPT !.blocking =
                      StateDeserialiseBlocking(world, j.jobs[n].blocking)]]]]]
  /\ restoring' = "reload"
  /\ UNCHANGED <<json, fdFlag, generation, before>>

\* Mutant of Returned: every failure is reported as success.
Returned_AlwaysOk(part) == 1

\* What state_from_string returns when a part is not accepted.  ret is -1 until
\* the control address is looked up; from then on it holds the result of that.
Returned(part) == IF part = "events" THEN -1 ELSE 1

\* What has been read of a part when something of it is not accepted: some of the
\* events, before the one that was refused.
Partly ==
  IF restoring # "events" THEN {world}
  ELSE {world} \cup {EventDeserialiseAll(world, SubSeq(json.events, 1, n), generation) :
                       n \in 1..(Len(json.events) - 1)}

\* A part of the text is not accepted.  If that is reported, init executes itself
\* once more, without state; if not, it goes on with what it has.
ReadFails ==
  /\ restoring \in FaultyStages
  /\ restoring' = "reload"
  /\ json' = NULL
  /\ IF Returned(restoring) < 0
     THEN world' = Nothing /\ fdFlag' = AfterExec(fdFlag)
     ELSE world' \in Partly /\ UNCHANGED fdFlag
  /\ UNCHANGED <<generation, before>>

-----------------------------------------------------------------------------
(* conf_reload reads every file again.                                      *)

Leaf(name, value, addr) ==
  [type |-> MATCH, name |-> name, env |-> NULL, value |-> value, event |-> addr]

Node(type, value, l, r) == [type |-> type, value |-> value, left |-> l, right |-> r]

\* A class as its file says: started by two events, or by a third.
FromDisk(name) ==
  [JobClassNew(name) EXCEPT
     !.ints = [f \in DOMAIN @ |-> <<f, IF f = "deleted" THEN 0 ELSE 1>>],
     !.start_on = Node(OR, FALSE, Node(AND, FALSE, Leaf("up", FALSE, NULL),
                                                    Leaf("net", FALSE, NULL)),
                                  Leaf("boot", FALSE, NULL)),
     !.stop_on = Node(AND, FALSE, Leaf("down", FALSE, NULL), Leaf("up", FALSE, NULL))]

Leaves(t) == IF t = NULL THEN <<>> ELSE SelectSeq(Postorder(t), LAMBDA n : n.type = MATCH)

\* How often the event at addr is held by the tree.
Held(t, addr) == Len(SelectSeq(Leaves(t), LAMBDA l : l.event = addr))

\* job_class_event_block: a leaf of the new tree that an event of the old one
\* matches takes hold of it too.  Only leaves are updated.
RECURSIVE Carry(_, _, _)
Carry(t, w, old) ==
  IF t.type = MATCH
  THEN LET m == SelectSeq(Leaves(old), LAMBDA l : l.event # NULL /\ w.ev[l.event].name = t.name)
       IN IF m = <<>> THEN t ELSE [t EXCEPT !.value = TRUE, !.event = m[1].event]
  ELSE [t EXCEPT !.left = Carry(@, w, old), !.right = Carry(@, w, old)]

\* job_class_consider: a class with instances stays until they have ended, and is
\* marked; one without is replaced, and freed with its holds.
Considered(w, c) ==
  LET new == FromDisk(c)
      old == w.classes[c]
  IN IF c \notin DOMAIN w.classes THEN new
     ELSE IF DOMAIN old.instances # {} THEN [old EXCEPT !.ints.deleted = <<"deleted", 1>>]
     ELSE IF old.start_on = NULL THEN new
     ELSE [new EXCEPT !.start_on = Carry(@, w, old.start_on)]

\* conf_source_reload: the mark of the source is turned over, and every file of
\* the directory is read anew and given it.
Reloaded(source) ==
  [source EXCEPT !.flag = 1 - @,
                 !.files = [k \in 1..Cardinality(Classes) |->
                    [path |-> SetToSeq(Classes)[k], flag |-> 1 - source.flag,
                     job |-> SetToSeq(Classes)[k]]]]

\* conf_source_new, from the options of the command line.
FromOptions == <<[path |-> "jobs", type |-> 2, flag |-> 0, files |-> <<>>]>>

ConfReload ==
  LET classes == [c \in Classes |-> Considered(world, c)]
      held(c, a) == IF c \in DOMAIN world.classes THEN Held(world.classes[c].start_on, a) ELSE 0
      sources == IF world.sources = <<>> THEN FromOptions ELSE world.sources
  IN /\ restoring = "reload"
     /\ world' = [world EXCEPT
          !.classes = classes,
          !.ev = [a \in DOMAIN @ |-> [@[a] EXCEPT !.blockers =
                    @ + MapThenSumSet(LAMBDA c : Held(classes[c].start_on, a) - held(c, a), Classes)]],
          !.sources = [i \in DOMAIN sources |-> Reloaded(sources[i])]]
     /\ restoring' = "up"
     /\ UNCHANGED <<json, fdFlag, generation, before>>

-----------------------------------------------------------------------------
(* The states init may be in when it is told to re-execute itself: an event *)
(* "up" that classes and jobs hold, and the event of a job that is starting *)
(* (its own, which blocks it).  Plain fields are all unset or all set.      *)

Plain(f, set) == <<f, IF set THEN 1 ELSE 0>>

Text(f, set) == IF set THEN <<f, 1>> ELSE NULL

\* The table of one variable.
Table(set) == IF set THEN <<[key |-> <<"A">>, val |-> <<"1">>]>> ELSE NULL

\* A job that does nothing yet.
IdleJob(n, set) ==
  [name |-> n, goal |-> 1, state |-> 1, env |-> Table(set), start_env |-> Table(set),
   stop_env |-> NULL, stop_on |-> NULL, fds |-> IF set THEN <<7>> ELSE NULL,
   pid |-> [i \in 1..ProcessLast |-> 0], blocker |-> NULL, blocking |-> <<>>,
   kill_process |-> -2, kill_timer |-> NULL, failed_process |-> -2,
   ints |-> [f \in JobInts |-> Plain(f, set)], trace_state |-> 0,
   log |-> [i \in 1..ProcessLast |-> NULL],
   process_data |-> [i \in 1..ProcessLast |-> NULL]]

\* A log with a watch on the pty, an open file or not yet, and held back output.
OpenLog(c, flushed) ==
  [path |-> <<"path", 1>>, io |-> <<c, "pty">>, fd |-> IF flushed THEN <<c, "logfile">> ELSE NULL,
   uid |-> <<"uid", 1>>, unflushed |-> IF flushed THEN <<>> ELSE <<0, 200, 17>>,
   detached |-> <<"detached", 0>>, remote_closed |-> <<"remote_closed", 0>>,
   open_errno |-> <<"open_errno", IF flushed THEN 0 ELSE 1>>]

InFlight(c, process) ==
  [process |-> process, script |-> Text("script", process = 1),
   shell_fd |-> IF process = 1 THEN <<c, "shell">> ELSE NULL,
   job_process_fd |-> <<c, "setup">>, status |-> <<"status", 0>>, valid |-> TRUE]

Profiles == {"none", "starting", "pre-start", "spawned", "running", "killed", "post-stop"}

\* The instance of class c in one of these situations; own is its starting event.
Instance(c, profile, set, own) ==
  LET idle == IdleJob(c, set)
  IN CASE profile = "starting" ->
            [idle EXCEPT !.blocker = own,
                         !.blocking = <<[type |-> BLOCKED_START, of |-> "caller"]>>]
       [] profile = "pre-start" ->
            [idle EXCEPT !.state = 5, !.pid[2] = 42, !.process_data[2] = InFlight(c, 1)]
       [] profile = "spawned" ->
            [idle EXCEPT !.state = 7, !.pid[1] = 43, !.trace_state = 1,
                         !.process_data[1] = InFlight(c, 0), !.log[1] = OpenLog(c, FALSE)]
       [] profile = "running" ->
            [idle EXCEPT !.state = 10, !.pid[1] = 43, !.log[1] = OpenLog(c, TRUE),
                         !.process_data[1] = [InFlight(c, 0) EXCEPT !.valid = FALSE]]
       [] profile = "killed" ->
            [idle EXCEPT !.goal = 0, !.state = 14, !.pid[1] = 43, !.kill_process = 0,
                         !.kill_timer = [timeout |-> 5, due |-> 1005]]
       [] profile = "post-stop" ->
            [idle EXCEPT !.goal = 0, !.state = 16, !.pid[2] = 44, !.failed_process = 0,
                         !.log[1] = [OpenLog(c, FALSE) EXCEPT !.io = NULL]]

\* The descriptors such an instance has.
ProfileFds(c, profile) ==
  {c} \X CASE profile = "pre-start" -> {"setup", "shell"}
           [] profile = "spawned"   -> {"setup", "pty"}
           [] profile = "running"   -> {"pty", "logfile"}
           [] OTHER                 -> {}

\* The class of a file with an event it has seen already, or not.
Running(c, profile, set, waiting, own) ==
  [FromDisk(c) EXCEPT
     !.ints = [f \in DOMAIN @ |-> Plain(f, set /\ f # "deleted")],
     !.strings = [f \in DOMAIN @ |-> Text(f, set)],
     !.env = Table(set), !.emits = IF set THEN <<"up", "net">> ELSE NULL,
     !.export = IF set THEN <<[key |-> <<"A">>, val |-> NULL]>> ELSE NULL,
     !.start_on.left.left = IF waiting THEN Leaf("up", TRUE, Addr(0, 0)) ELSE @,
     !.process[1] = [script |-> set, command |-> <<"command", 1>>],
     !.expect = IF profile = "spawned" THEN 3 ELSE 0, !.console = IF set THEN 2 ELSE 3,
     !.normalexit = IF set THEN <<0, 15>> ELSE NULL,
     !.limits = IF set THEN <<NULL, [cur |-> 0, max |-> 5], Placeholder>> ELSE @,
     !.cgmanager_wait = set,
     !.cgroups = IF ~set THEN <<>> ELSE
        <<[controller |-> "cpu", names |->
             <<[name |-> "n", expanded |-> NULL, settings |-> <<[key |-> "k", value |-> "v"]>>],
               [name |-> NULL, expanded |-> NULL, settings |-> <<>>]>>]>>,
     !.instances = IF profile = "none" THEN <<>>
                   ELSE [n \in {c} |-> Instance(c, profile, set, own)]]

\* What an instance holds of the event "up": it was started by it, or it has seen
\* it as one of the two that stop it.
Holding(job, held) ==
  [job EXCEPT
     !.blocking = IF "started by" \in held
                  THEN <<[type |-> BLOCKED_EVENT, of |-> Addr(0, 0)]>> \o @ ELSE @,
     !.stop_on = [FromDisk(job.name).stop_on EXCEPT
                    !.right = IF "stopped by" \in held THEN Leaf("up", TRUE, Addr(0, 0)) ELSE @]]

Pending(name, blockers, blocking) ==
  [name |-> name, env |-> <<"env">>, fd |-> NULL,
   progress |-> IF blockers > 0 THEN 1 ELSE 0, failed |-> FALSE,
   blockers |-> blockers, blocking |-> blocking]

First == CHOOSE c \in Classes : TRUE

\* The first class is in any situation, the others in some.
ProfilesOf(c) ==
  IF c # First THEN {"none", "starting"}
  ELSE Profiles \ (IF KillTimers THEN {} ELSE {"killed"})

\* profile and held give each class its situation; set and waiting are common.
Situation(profile, held, set, waiting, order) ==
  LET starting == SelectSeq(order, LAMBDA c : profile[c] = "starting")
      at(c)  == Addr(0, CHOOSE i \in DOMAIN order : order[i] = c)
      running(c) == Running(c, profile[c], set, waiting, at(c))
      classes == [c \in Classes |->
                    [running(c) EXCEPT !.instances = [n \in DOMAIN @ |-> Holding(@[n], held[c])]]]
      holds(c) == (IF waiting THEN 1 ELSE 0)
                  + (IF profile[c] = "none" THEN 0 ELSE Cardinality(held[c]))
      emitter == IF set THEN <<[type |-> BLOCKED_EMIT, of |-> "caller"]>> ELSE <<>>
  IN [events |-> <<Addr(0, 0)>> \o [i \in DOMAIN starting |-> at(starting[i])],
      ev |-> [a \in {Addr(0, 0)} \cup {at(starting[i]) : i \in DOMAIN starting} |->
                IF a = Addr(0, 0)
                THEN Pending("up", MapThenSumSet(holds, Classes), emitter)
                ELSE LET c == CHOOSE k \in Classes : at(k) = a
                     IN Pending("starting", 0, <<[type |-> BLOCKED_JOB, of |-> <<c, c>>]>>)],
      bus |-> Text("bus", set), cgroup_manager |-> Text("cgroup_manager", set),
      environ |-> IF set THEN <<"A=1", "B=2">> ELSE NULL,
      sources |-> <<Reloaded(FromOptions[1])>>,
      classes |-> classes]

ReexecInit ==
  /\ \E profile \in [Classes -> Profiles], held \in [Classes -> SUBSET {"started by", "stopped by"}],
        set \in BOOLEAN, waiting \in BOOLEAN, order \in SetToSeqs(Classes) :
       /\ \A c \in Classes : profile[c] \in ProfilesOf(c)
       /\ \A c \in Classes : profile[c] = "none" => held[c] = {}
       /\ world = Situation(profile, held, set, waiting, order)
       /\ fdFlag = [fd \in Fds |->
                      IF \E c \in Classes : fd \in ProfileFds(c, profile[c])
                      THEN "cloexec" ELSE "closed"]
  /\ json = NULL
  /\ restoring = "up"
  /\ generation = 0
  /\ before = Nothing

ReexecNext ==
  \/ StatefulReexec
  \/ ReadEvents
  \/ ReadSources
  \/ ReadClass
  \/ StateDeserialiseResolveDeps
  \/ ReadFails
  \/ ConfReload

ReexecSpec == ReexecInit /\ [][ReexecNext]_reexecVars

-----------------------------------------------------------------------------
(* Properties *)

ReexecTypeOK ==
  /\ restoring \in Stages
  /\ generation \in 0..MaxGenerations
  /\ fdFlag \in [Fds -> {"closed", "open", "cloexec"}]
  /\ DOMAIN world.classes \subseteq Classes
  /\ DOMAIN world.ev = Range(world.events)
  /\ \A job \in AllJobs(world) : job.blocker \in {NULL} \cup DOMAIN world.ev

\* The tree with every event named by its place in the list.
RECURSIVE Indexed(_, _)
Indexed(w, t) ==
  IF t = NULL THEN NULL
  ELSE IF t.type = MATCH
       THEN [t EXCEPT !.event = IF @ = NULL THEN NULL ELSE <<CHOOSE i \in DOMAIN w.events : w.events[i] = @>>]
       ELSE [t EXCEPT !.left = Indexed(w, @), !.right = Indexed(w, @)]

\* The place in the list of the event at a.
Place(w, a) == IF a = NULL THEN NULL ELSE <<CHOOSE i \in DOMAIN w.events : w.events[i] = a>>

\* A list without its D-Bus callers.
Lasting(w, list) ==
  LET kept == SelectSeq(list, LAMBDA b : b.type \in {BLOCKED_JOB, BLOCKED_EVENT})
  IN [i \in DOMAIN kept |->
        IF kept[i].type = BLOCKED_EVENT THEN [kept[i] EXCEPT !.of = Place(w, @)] ELSE kept[i]]

\* What the code says it does not keep of a job: callers on the bus, a log whose
\* writer has gone, a child that has been dealt with.
LastingJob(w, job) ==
  [job EXCEPT !.blocker = Place(w, @), !.blocking = Lasting(w, @),
              !.stop_on = Indexed(w, @),
              !.log = [i \in DOMAIN @ |-> IF @[i] # NULL /\ @[i].io = NULL THEN NULL ELSE @[i]],
              !.process_data = [i \in DOMAIN @ |->
                 IF @[i] # NULL /\ ~@[i].valid THEN NULL ELSE @[i]]]

\* The same of a class: a limit of zero; and the exported variables, which are
\* read as if they had values.
LastingClass(w, class) ==
  [class EXCEPT !.export = NULL, !.start_on = Indexed(w, @), !.stop_on = Indexed(w, @),
                !.limits = [i \in DOMAIN @ |-> IF @[i] = Placeholder THEN NULL ELSE @[i]],
                !.instances = [n \in DOMAIN @ |-> LastingJob(w, @[n])]]

Lasts(w) ==
  [events |-> [i \in DOMAIN w.events |->
                 [w.ev[w.events[i]] EXCEPT !.blocking = Lasting(w, @)]],
   bus |-> w.bus, cgroup_manager |-> w.cgroup_manager, environ |-> w.environ,
   sources |-> w.sources, classes |-> [c \in DOMAIN w.classes |-> LastingClass(w, w.classes[c])]]

\* When state_from_string has ended without an error, the memory of the new
\* instance is that of the old one at the re-exec, up to the addresses of events,
\* whatever was in flight and whatever else had been re-executed before.
RoundTrip == restoring = "reload" /\ json # NULL => Lasts(world) = Lasts(before)

\* How often the event at a is named as what jobs block.
Blocks(w, a) ==
  MapThenSumSet(LAMBDA c :
    MapThenSumSet(LAMBDA n :
      LET job == w.classes[c].instances[n]
      IN Held(job.stop_on, a)
         + Len(SelectSeq(job.blocking, LAMBDA b : b.type = BLOCKED_EVENT /\ b.of = a)),
      DOMAIN w.classes[c].instances)
    + Held(w.classes[c].start_on, a), DOMAIN w.classes)

\* Before and after a re-exec and the reload that follows, an event has as many
\* blockers as classes and jobs hold it: with more it would never finish, with
\* fewer it would be freed while it is in use.
HoldersCounted ==
  restoring \in {"reload", "up"} =>
    \A a \in DOMAIN world.ev : world.ev[a].blockers = Blocks(world, a)

\* Every descriptor that a job of the old instance needed is open in the new one
\* and would not leak into a job that it spawns.
FdsSurvive ==
  restoring = "reload" /\ json # NULL =>
    \A job \in AllJobs(before) : \A fd \in JobFds(job) \cup LogFds(job) : fdFlag[fd] = "cloexec"

\* When the text cannot be read, the new instance is left with all of the state or
\* none of it (of the parts in FaultyStages).
AllOrNothing == restoring = "reload" /\ json = NULL => world = Nothing

\* The new instance never ends in a failed assertion: "any failures result in a
\* basic re-exec being performed where all state will be lost" (state.c).
NoAbort == restoring # "aborted"

=============================================================================
