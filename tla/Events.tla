------------------------------- MODULE Events -------------------------------
(***************************************************************************)
(* Events and the jobs they start and stop: the queue of init/event.c, the *)
(* start on and stop on expressions of init/event_operator.c, and the way  *)
(* init/job_class.c starts an instance from them.                          *)
(*                                                                         *)
(* Events block jobs and jobs block events.  A job that is starting or     *)
(* stopping waits for the event it emitted; an event is not finished while *)
(* an expression that matched it, or a job it started or stopped, counts   *)
(* among its blockers.  The subject here is this web of references, so a   *)
(* job has a main process only and one instance; JobInstance has the rest. *)
(*                                                                         *)
(* event_poll() runs to its end before the main loop calls anything else.  *)
(* It is a sequence of steps here, one for each event it looks at and one  *)
(* for each class it shows the event to; other callbacks wait.  The order  *)
(* of the classes is that of a hash table and is left open.                *)
(***************************************************************************)
EXTENDS Naturals, FiniteSets, SequencesExt

CONSTANTS
    Jobs,           \* job classes
    NoJob,
    Names,          \* names of the events emitted by initctl or a bridge
    StartOn,        \* class->start_on, a function from Jobs to expressions
    StopOn,         \* class->stop_on
    Task,           \* classes of tasks
    Cgroups,        \* classes with a cgroup stanza
    Named,          \* classes whose instance name every event can supply
    MaxEmits,       \* bound: emitted events of a name that have neither finished
                    \* nor are kept by an expression
    MaxEvents       \* the most events there are in the list at a time

\* The name of an event: an external one, or one that a job emits; failed
\* stands for the suffix "/failed".
Kinds == {"emit", "starting", "started", "stopping", "stopped"}

EventName(kind, of) == [kind |-> kind, of |-> of, failed |-> FALSE]

EventNames ==
    {n \in [kind : Kinds, of : Jobs \cup Names, failed : BOOLEAN] :
        n.kind = "emit" <=> n.of \in Names}

(***************************************************************************)
(* An expression is a sequence of nodes, children before their parent and  *)
(* the root last: a leaf [op |-> "match", name |-> n], or a node           *)
(* [op |-> "and", left |-> l, right |-> r], or the same with "or".  The    *)
(* empty sequence is no expression at all.                                 *)
(***************************************************************************)
IsExpression(e) ==
    /\ Len(e) \in Nat /\ DOMAIN e = 1 .. Len(e)
    /\ \A n \in DOMAIN e :
        \/ e[n].op = "match" /\ e[n].name \in EventNames
        \/ /\ e[n].op \in {"and", "or"}
           /\ e[n].left \in 1 .. n - 1 /\ e[n].right \in 1 .. n - 1

ASSUME JobsAssumption ==
    /\ NoJob \notin Jobs
    /\ Jobs \cap Names = {}
    /\ Task \subseteq Jobs /\ Cgroups \subseteq Jobs /\ Named \subseteq Jobs
    /\ MaxEmits \in Nat /\ MaxEvents \in Nat
    /\ \A j \in Jobs : IsExpression(StartOn[j]) /\ IsExpression(StopOn[j])

Trees == {"start", "stop"}

Tree(j, tree) == IF tree = "start" THEN StartOn[j] ELSE StopOn[j]

(***************************************************************************)
(* sys.events is the list of events, sys.job the instances ("waiting"      *)
(* stands for none).  A reference says that the event is the one matched   *)
(* by a node of an expression of the class: sys.held are the references of *)
(* the nodes themselves (oper->event), sys.blocking those that were handed *)
(* to the job (job->blocking).  poll is how far event_poll(), or           *)
(* job_class_induct_jobs(), has come.  replied are the replies to callers  *)
(* of EmitEvent that the last step has sent.                               *)
(***************************************************************************)
VARIABLES sys, poll, cgmanager, replied

vars == <<sys, poll, cgmanager, replied>>

NoEvent == 0

NoJobState == [goal |-> "stop", state |-> "waiting", blocker |-> NoEvent,
               pid |-> FALSE, failed |-> FALSE]

Idle == [cursor |-> 0, event |-> NoEvent, todo |-> {}, induct |-> {}]

Init ==
    /\ sys = [events |-> <<>>, job |-> [j \in Jobs |-> NoJobState],
              held |-> {}, blocking |-> {}, cgmanager_wait |-> {},
              aborted |-> FALSE]
    /\ poll = Idle
    /\ cgmanager = FALSE
    /\ replied = {}

Ids(s) == {s.events[i].id : i \in DOMAIN s.events}

Index(s, id) == CHOOSE i \in DOMAIN s.events : s.events[i].id = id

-----------------------------------------------------------------------------
(***************************************************************************)
(* event.c                                                                 *)
(***************************************************************************)
NewId(s) == Min((1 .. Len(s.events) + 1) \ Ids(s))

\* A pending event at the end of the list; it may block job j.
EventNew(s, name, j) ==
    [s EXCEPT !.events =
        Append(@, [id |-> NewId(s), name |-> name, progress |-> "pending",
                   failed |-> FALSE, blockers |-> 0, job |-> j])]

Count(refs, id) == Cardinality({r \in refs : r.event = id})

Blocked(e, n) == [e EXCEPT !.blockers = @ + n]

\* event_block() for each of the references.
EventBlock(s, refs) ==
    [s EXCEPT !.events =
        [i \in DOMAIN s.events |->
            Blocked(s.events[i], Count(refs, s.events[i].id))]]

\* Mutant of Unblocked: the last job to release the event says how it went.
Unblocked_Overwrites(e, n, failed) ==
    [e EXCEPT !.blockers = @ - n, !.failed = IF n > 0 THEN failed ELSE @]

Unblocked(e, n, failed) ==
    [e EXCEPT !.blockers = @ - n, !.failed = @ \/ (failed /\ n > 0)]

\* event_unblock() for each of the references, of which there must be as
\* many as there are blockers at least.
EventUnblock(s, refs, failed) ==
    IF \E i \in DOMAIN s.events :
            Count(refs, s.events[i].id) > s.events[i].blockers
    THEN [s EXCEPT !.aborted = TRUE]
    ELSE [s EXCEPT !.events =
            [i \in DOMAIN s.events |->
                Unblocked(s.events[i], Count(refs, s.events[i].id), failed)]]

-----------------------------------------------------------------------------
(***************************************************************************)
(* event_operator.c                                                        *)
(***************************************************************************)
Ref(j, tree, node, id) == [job |-> j, tree |-> tree, node |-> node, event |-> id]

RefsOf(refs, j, tree) == {r \in refs : r.job = j /\ r.tree = tree}

\* Node n is true when these leaves and these nodes below it are.
IsTrue(e, leaves, below, n) ==
    \/ e[n].op = "match" /\ n \in leaves
    \/ e[n].op = "and" /\ e[n].left \in below /\ e[n].right \in below
    \/ e[n].op = "or" /\ (e[n].left \in below \/ e[n].right \in below)

\* The nodes of an expression that are true when these leaves are.
Evaluate(e, leaves) ==
    CHOOSE true \in SUBSET DOMAIN e : \A n \in DOMAIN e : n \in true <=> IsTrue(e, leaves, true, n)

\* The nodes whose oper->value is TRUE.
Value(s, j, tree) ==
    Evaluate(Tree(j, tree), {r.node : r \in RefsOf(s.held, j, tree)})

\* The value of the root.
Satisfied(s, j, tree) == Len(Tree(j, tree)) \in Value(s, j, tree)

\* The nodes that are true and whose ancestors are, too: the others had no
\* part in making the expression true.
Contributing(s, j, tree) ==
    LET e == Tree(j, tree)
        value == Value(s, j, tree)
    IN  CHOOSE visited \in SUBSET value :
            \A n \in value :
                n \in visited <=>
                    \/ n = Len(e)
                    \/ \E m \in visited : e[m].op # "match" /\ n \in {e[m].left, e[m].right}

\* The leaves that match the event and have not matched one before.
Matching(s, j, tree, id) ==
    {n \in DOMAIN Tree(j, tree) :
        /\ Tree(j, tree)[n].op = "match"
        /\ Tree(j, tree)[n].name = s.events[Index(s, id)].name
        /\ \A r \in RefsOf(s.held, j, tree) : r.node # n}

EventOperatorHandle(s, j, tree, id) ==
    LET refs == {Ref(j, tree, n, id) : n \in Matching(s, j, tree, id)}
    IN  EventBlock([s EXCEPT !.held = @ \cup refs], refs)

\* The contributing events are added to what waits for the job.
EventOperatorEvents(s, j, tree) ==
    LET refs == {r \in RefsOf(s.held, j, tree) :
                    r.node \in Contributing(s, j, tree)}
    IN  EventBlock([s EXCEPT !.blocking = @ \cup refs], refs)

EventOperatorReset(s, j, tree) ==
    LET refs == RefsOf(s.held, j, tree)
    IN  EventUnblock([s EXCEPT !.held = @ \ refs], refs, FALSE)

-----------------------------------------------------------------------------
(***************************************************************************)
(* job.c, for a job with a main process only                               *)
(***************************************************************************)

\* Mutant of JobFinished: the released events stay in the list.
JobFinished_KeepsList(s, j, failed) ==
    EventUnblock(s, {r \in s.blocking : r.job = j}, failed)

\* Whatever waits for the job is released, marked failed if the job failed.
JobFinished(s, j, failed) ==
    LET refs == {r \in s.blocking : r.job = j}
    IN  EventUnblock([s EXCEPT !.blocking = @ \ refs], refs, failed)

JobFailed(s, j) ==
    IF s.job[j].failed THEN s
    ELSE JobFinished([s EXCEPT !.job[j].failed = TRUE], j, TRUE)

EmitBlocking(s, j, kind) ==
    EventNew([s EXCEPT !.job[j].blocker = NewId(s)], EventName(kind, j), j)

EnterStarting(s, j) ==
    EmitBlocking([s EXCEPT !.job[j].state = "starting", !.job[j].failed = FALSE],
                 j, "starting")

EnterSpawned(s, j) ==
    [s EXCEPT !.job[j].state = "spawned", !.job[j].pid = TRUE]

\* Mutant of EnterRunning: a service is waited for as a task is.
EnterRunning_KeepsEvents(s, j) ==
    EventNew([s EXCEPT !.job[j].state = "running"], EventName("started", j), NoJob)

EnterRunning(s, j) ==
    LET r == EventNew([s EXCEPT !.job[j].state = "running"],
                      EventName("started", j), NoJob)
    IN  IF j \in Task THEN r ELSE JobFinished(r, j, FALSE)

EnterStopping(s, j) ==
    EmitBlocking([s EXCEPT !.job[j].state = "stopping"], j, "stopping")

\* Mutant of EnterWaiting: stop_on is freed without its destructor.
EnterWaiting_KeepsEvents(s, j) ==
    LET f == JobFinished(EventNew(s, EventName("stopped", j), NoJob), j, FALSE)
    IN  [f EXCEPT !.job[j] = NoJobState,
                  !.held = @ \ RefsOf(@, j, "stop")]

\* The instance is freed, and with it the events its stop_on matched.
EnterWaiting(s, j) ==
    LET f == JobFinished(EventNew(s, EventName("stopped", j), NoJob), j, FALSE)
    IN  EventOperatorReset([f EXCEPT !.job[j] = NoJobState], j, "stop")

LeaveKilled(s, j) ==
    IF s.job[j].goal = "start" THEN EnterStarting(s, j) ELSE EnterWaiting(s, j)

EnterKilled(s, j) ==
    IF s.job[j].pid THEN [s EXCEPT !.job[j].state = "killed"]
    ELSE LeaveKilled(s, j)

\* Mutant of JobNextState: a blocked job moves on.
JobNextState_IgnoresBlocker(s, j) ==
    LET job == s.job[j]
    IN  CASE job.state = "waiting" -> EnterStarting(s, j)
          [] job.state = "starting" ->
                IF job.goal = "start" THEN EnterSpawned(s, j) ELSE EnterStopping(s, j)
          [] job.state = "spawned" ->
                IF job.goal = "start" THEN EnterRunning(s, j) ELSE EnterStopping(s, j)
          [] job.state = "running" -> EnterStopping(s, j)
          [] job.state = "stopping" -> EnterKilled(s, j)
          [] job.state = "killed" -> LeaveKilled(s, j)

\* job_change_state (job, job_next_state (job))
JobNextState(s, j) ==
    LET job == s.job[j]
    IN  CASE job.blocker # NoEvent -> s
          [] job.blocker = NoEvent /\ job.state = "waiting" -> EnterStarting(s, j)
          [] job.blocker = NoEvent /\ job.state = "starting" ->
                IF job.goal = "start" THEN EnterSpawned(s, j) ELSE EnterStopping(s, j)
          [] job.blocker = NoEvent /\ job.state = "spawned" ->
                IF job.goal = "start" THEN EnterRunning(s, j) ELSE EnterStopping(s, j)
          [] job.blocker = NoEvent /\ job.state = "running" -> EnterStopping(s, j)
          [] job.blocker = NoEvent /\ job.state = "stopping" -> EnterKilled(s, j)
          [] job.blocker = NoEvent /\ job.state = "killed" -> LeaveKilled(s, j)

JobChangeGoal(s, j, goal) ==
    LET g == [s EXCEPT !.job[j].goal = goal]
    IN  IF s.job[j].goal = goal THEN s
        ELSE IF \/ goal = "start" /\ s.job[j].state = "waiting"
                \/ goal = "stop" /\ s.job[j].state = "running"
             THEN JobNextState(g, j)
             ELSE g

-----------------------------------------------------------------------------
(***************************************************************************)
(* How an event changes a class and its instance                           *)
(***************************************************************************)

\* Mutant of StopInstance: a job that is stopping already does not hold up
\* the event.
StopInstance_OnlyOnce(s, j) ==
    IF s.job[j].goal = "stop" THEN EventOperatorReset(s, j, "stop")
    ELSE LET f == JobFinished(s, j, FALSE)
             e == EventOperatorEvents(f, j, "stop")
         IN  EventOperatorReset(JobChangeGoal(e, j, "stop"), j, "stop")

\* The stop_on expression of a live instance became true.
StopInstance(s, j) ==
    LET f == IF s.job[j].goal # "stop" THEN JobFinished(s, j, FALSE) ELSE s
        e == EventOperatorEvents(f, j, "stop")
    IN  EventOperatorReset(JobChangeGoal(e, j, "stop"), j, "stop")

StopPart(s, j, id) ==
    LET h == EventOperatorHandle(s, j, "stop", id)
    IN  IF s.job[j].state = "waiting" THEN s
        ELSE IF h.held # s.held /\ Satisfied(h, j, "stop") THEN StopInstance(h, j)
        ELSE h

\* Can the instance name be expanded from the environment of the events?
Expansions(j) == IF j \in Named THEN {TRUE} ELSE BOOLEAN

\* job_class_induct_job(): start an instance, or have one that is on its
\* way hold up the events that would have started it.  Without a name for the
\* instance the events are let go.
InductJob(s, j, named) ==
    LET f == IF s.job[j].goal # "start" THEN JobFinished(s, j, FALSE) ELSE s
        e == IF j \in Task \/ s.job[j].state # "running"
             THEN EventOperatorEvents(f, j, "start") ELSE f
    IN  IF ~named THEN EventOperatorReset(s, j, "start")
        ELSE EventOperatorReset(JobChangeGoal(e, j, "start"), j, "start")

\* A class with a cgroup stanza cannot start yet: keep the event.
AwaitCgmanager(s, j, id) ==
    LET h == EventOperatorHandle(s, j, "start", id)
    IN  IF j \in s.cgmanager_wait THEN s
        ELSE IF h.held # s.held
        THEN [h EXCEPT !.cgmanager_wait = @ \cup {j}] ELSE h

\* The events kept meanwhile are let go.
CgmanagerHere(s, j) ==
    IF j \in s.cgmanager_wait
    THEN EventOperatorReset([s EXCEPT !.cgmanager_wait = @ \ {j}], j, "start")
    ELSE s

Inducts(s, j, id) ==
    LET h == EventOperatorHandle(s, j, "start", id)
    IN  h.held # s.held /\ Satisfied(h, j, "start")

StartPart(s, j, id, named) ==
    LET h == EventOperatorHandle(s, j, "start", id)
    IN  IF Inducts(s, j, id) THEN InductJob(h, j, named) ELSE h

-----------------------------------------------------------------------------
(***************************************************************************)
(* event_poll()                                                            *)
(***************************************************************************)
\* There is something to do for the event.
Actionable(e) == e.progress = "pending" \/ e.blockers = 0

\* The list is gone through again and again until nothing is left to do.
NextIndex(s, from) ==
    LET I == {i \in DOMAIN s.events : Actionable(s.events[i])}
        J == {i \in I : i >= from}
    IN  IF I = {} THEN 0 ELSE IF J = {} THEN Min(I) ELSE Min(J)

PollFrom(s, from) ==
    IF NextIndex(s, from) = 0 THEN Idle
    ELSE [Idle EXCEPT !.cursor = NextIndex(s, from)]

(***************************************************************************)
(* event_finished(): the job that waited for the event goes on, the caller *)
(* that emitted it and waits gets its reply, and the event is reported     *)
(* failed with an event of its own and freed.                              *)
(***************************************************************************)
Replies(e) ==
    IF e.name.kind = "emit" /\ ~e.name.failed
    THEN {[name |-> e.name, failed |-> e.failed]} ELSE {}

\* Mutant of ReportFailed: only the caller learns of the failure.
ReportFailed_Drops(s, e) == s

ReportFailed(s, e) ==
    IF e.failed /\ ~e.name.failed
    THEN EventNew(s, [e.name EXCEPT !.failed = TRUE], NoJob) ELSE s

Finish(s, i) ==
    LET e == s.events[i]
        u == IF e.job = NoJob THEN s
             ELSE JobNextState([s EXCEPT !.job[e.job].blocker = NoEvent], e.job)
        r == ReportFailed(u, e)
    IN  [r EXCEPT !.events = RemoveAt(@, i)]

\* The cursor stands at an event that can be acted upon.
PollBegin ==
    /\ ~sys.aborted
    /\ poll.event = NoEvent /\ poll.induct = {}
    /\ NextIndex(sys, poll.cursor) # 0
    /\ LET i == NextIndex(sys, poll.cursor)
       IN  IF sys.events[i].progress = "pending"
           THEN /\ sys' = [sys EXCEPT !.events[i].progress = "handling"]
                /\ poll' = [Idle EXCEPT !.cursor = i, !.todo = Jobs,
                                        !.event = sys.events[i].id]
                /\ replied' = {}
           ELSE /\ sys' = Finish(sys, i) /\ poll' = PollFrom(sys', i)
                /\ replied' = Replies(sys.events[i])
    /\ UNCHANGED cgmanager

\* event_pending_handle_jobs(), for class j.  The loop over the classes is
\* left when the name of an instance cannot be expanded.
HandleClass(j) ==
    /\ ~sys.aborted
    /\ j \in poll.todo
    /\ LET s    == StopPart(sys, j, poll.event)
           wait == StartOn[j] # <<>> /\ j \in Cgroups /\ ~cgmanager
           c    == IF StartOn[j] # <<>> /\ j \in Cgroups THEN CgmanagerHere(s, j)
                   ELSE s
       IN  IF wait
           THEN /\ sys' = AwaitCgmanager(s, j, poll.event)
                /\ poll' = [poll EXCEPT !.todo = @ \ {j}]
           ELSE \E named \in Expansions(j) :
                  /\ sys' = StartPart(c, j, poll.event, named)
                  /\ poll' = IF Inducts(c, j, poll.event) /\ ~named
                             THEN [poll EXCEPT !.todo = {}]
                             ELSE [poll EXCEPT !.todo = @ \ {j}]
    /\ replied' = {}
    /\ UNCHANGED cgmanager

\* All classes have seen the event: it is finished unless they block it.
PollEnd ==
    /\ ~sys.aborted
    /\ poll.event # NoEvent /\ poll.todo = {}
    /\ LET i == poll.cursor
       IN  IF sys.events[i].blockers = 0
           THEN /\ sys' = Finish(sys, i) /\ poll' = PollFrom(sys', i)
                /\ replied' = Replies(sys.events[i])
           ELSE sys' = sys /\ poll' = PollFrom(sys, i + 1) /\ replied' = {}
    /\ UNCHANGED cgmanager

-----------------------------------------------------------------------------
(***************************************************************************)
(* The other callbacks of the main loop                                    *)
(***************************************************************************)
MainLoop == ~sys.aborted /\ poll = Idle

Callback(s) == sys' = s /\ replied' = {} /\ UNCHANGED <<poll, cgmanager>>

\* The event is held by an expression that waits for another event.
Kept(id) == \E r \in sys.held : r.event = id

Emit(name) ==
    /\ MainLoop
    /\ Cardinality({i \in DOMAIN sys.events :
                        /\ sys.events[i].name = EventName("emit", name)
                        /\ ~Kept(sys.events[i].id)}) < MaxEmits
    /\ Callback(EventNew(sys, EventName("emit", name), NoJob))

\* The main process of j has been executed.
MainUp(j) ==
    /\ MainLoop
    /\ sys.job[j].state = "spawned" /\ sys.job[j].pid
    /\ Callback(JobNextState(sys, j))

\* The main process of j ended; ok says whether normally.
MainEnds(j, ok) ==
    /\ MainLoop
    /\ sys.job[j].pid
    /\ LET g == [sys EXCEPT !.job[j].pid = FALSE]
           f == IF ok THEN g ELSE JobFailed(g, j)
           c == JobChangeGoal(f, j, "stop")
       IN  Callback(
             CASE sys.job[j].state = "stopping" -> g
               [] sys.job[j].state = "killed" -> JobNextState(g, j)
               [] sys.job[j].state \in {"spawned", "running"} ->
                    IF sys.job[j].goal = "stop" THEN JobNextState(g, j)
                    ELSE JobNextState(c, j))

\* control_notify_cgroup_manager_address(): the classes that waited for the
\* cgroup manager can start.
NotifyCgmanager ==
    /\ MainLoop
    /\ ~cgmanager /\ Cgroups # {}
    /\ cgmanager' = TRUE
    /\ poll' = [poll EXCEPT !.induct = sys.cgmanager_wait]
    /\ replied' = {}
    /\ UNCHANGED sys

\* job_class_induct_jobs(), for class j.
InductWaiting(j) ==
    /\ ~sys.aborted
    /\ j \in poll.induct
    /\ \E named \in Expansions(j) :
         sys' = IF Satisfied(sys, j, "start")
                THEN [EventOperatorReset(InductJob(sys, j, named), j, "start")
                          EXCEPT !.cgmanager_wait = @ \ {j}]
                ELSE [sys EXCEPT !.aborted = TRUE]
    /\ poll' = [poll EXCEPT !.induct = @ \ {j}]
    /\ replied' = {}
    /\ UNCHANGED cgmanager

Poll == PollBegin \/ (\E j \in Jobs : HandleClass(j)) \/ PollEnd

Next ==
    \/ Poll
    \/ \E name \in Names : Emit(name)
    \/ \E j \in Jobs : MainUp(j) \/ \E ok \in BOOLEAN : MainEnds(j, ok)
    \/ NotifyCgmanager
    \/ \E j \in Jobs : InductWaiting(j)

Spec == Init /\ [][Next]_vars
-----------------------------------------------------------------------------
(***************************************************************************)
(* Properties                                                              *)
(***************************************************************************)
JobStates ==
    {"waiting", "starting", "spawned", "running", "stopping", "killed"}

IsReference(r) ==
    /\ r.job \in Jobs /\ r.tree \in Trees
    /\ r.node \in DOMAIN Tree(r.job, r.tree)
    /\ r.event \in Ids(sys)

\* Events, jobs and references are of their types, and every reference is
\* to an event that is still in the list: none is used after it was freed.
TypeOK ==
    /\ \A i \in DOMAIN sys.events :
        LET e == sys.events[i]
        IN  /\ e.name \in EventNames
            /\ e.progress \in {"pending", "handling"}
            /\ e.failed \in BOOLEAN
            /\ e.blockers \in Nat
            /\ e.job \in Jobs \cup {NoJob}
            /\ \A k \in DOMAIN sys.events : sys.events[k].id = e.id => k = i
    /\ \A j \in Jobs :
        /\ sys.job[j].goal \in {"start", "stop"}
        /\ sys.job[j].state \in JobStates
        /\ sys.job[j].pid \in BOOLEAN
        /\ sys.job[j].failed \in BOOLEAN
        /\ sys.job[j].blocker \in Ids(sys) \cup {NoEvent}
    /\ \A r \in sys.held \cup sys.blocking : IsReference(r)
    /\ sys.cgmanager_wait \subseteq Cgroups
    /\ poll.event \in Ids(sys) \cup {NoEvent}
    /\ poll.todo \subseteq Jobs /\ poll.induct \subseteq Jobs
    /\ replied \subseteq [name : EventNames, failed : BOOLEAN]

\* No assertion fails: event_unblock() always matches an event_block(), and
\* a class that waits for the cgroup manager has a true expression when it
\* arrives.
NoAssertionFails == ~sys.aborted

\* event->blockers counts the expression nodes that hold the event and the
\* jobs that it waits for, neither more, when it would never finish, nor
\* fewer, when it would be freed under them.
BlockersCounted ==
    ~sys.aborted =>
        \A i \in DOMAIN sys.events :
            LET e == sys.events[i]
            IN  e.blockers = Count(sys.held, e.id) + Count(sys.blocking, e.id)

\* A job is blocked by an event exactly as long as that event is to tell it
\* when it finishes, and only while it is starting or stopping.
BlockerTells ==
    \A j \in Jobs :
        /\ sys.job[j].blocker # NoEvent =>
                sys.job[j].state \in {"starting", "stopping"}
        /\ \A i \in DOMAIN sys.events :
                sys.events[i].job = j <=> sys.job[j].blocker = sys.events[i].id

\* An event of that name makes the expression true by itself.
TrueOn(e, name) ==
    LET leaves == {n \in DOMAIN e : e[n].op = "match" /\ e[n].name = name}
    IN  e # <<>> /\ Len(e) \in Evaluate(e, leaves)

\* The event waits for the job.
WaitsFor(s, id, j) == \E r \in s.blocking : r.job = j /\ r.event = id

\* The step shows the event to class j.
Shown(j) == j \in poll.todo /\ poll'.todo = poll.todo \ {j}

\* An event that starts or stops a job by itself waits for it, also when it is
\* on its way already, unless it is there.
BeginsToWait(j) ==
    LET name == sys.events[Index(sys, poll.event)].name
    IN  Shown(j) =>
            /\ TrueOn(StopOn[j], name) /\ sys'.job[j].goal = "stop" =>
                    sys'.job[j].state = "waiting" \/ WaitsFor(sys', poll.event, j)
            /\ /\ TrueOn(StartOn[j], name) /\ sys'.job[j].goal = "start"
               /\ j \in Named /\ (j \in Cgroups => cgmanager)
               => \/ j \notin Task /\ sys'.job[j].state = "running"
                  \/ WaitsFor(sys', poll.event, j)

\* It waits until the job is there, fails or is told otherwise: what is told
\* changes the goal, or first the goal and then back.
WaitsOn(j) ==
    \A r \in sys.blocking \ sys'.blocking : r.job = j =>
        \/ sys'.job[j].state = "waiting"
        \/ r.tree = "start" /\ j \notin Task /\ sys'.job[j].state = "running"
        \/ sys'.job[j].goal # sys.job[j].goal
        \/ WaitsFor(sys', poll.event, j)

\* A job that is starting or stopping goes on when its event waits for nobody.
GoesOnAlone(j) ==
    /\ sys.job[j].state \in {"starting", "stopping"}
    /\ sys'.job[j].state # sys.job[j].state
    => \A k \in Jobs : ~WaitsFor(sys, sys.job[j].blocker, k)

\* starting(7) and stopping(7): init "will wait for all services started by
\* this event to be running, all tasks started by this event to have
\* finished and all jobs stopped by this event to be stopped before
\* allowing the job to continue".
JobEventsWait == [][\A j \in Jobs : BeginsToWait(j) /\ WaitsOn(j) /\ GoesOnAlone(j)]_vars

\* The event has failed, or a job for which it waits fails in the step from s to t.
Fails(s, t, e) ==
    \/ e.failed
    \/ \E r \in s.blocking :
        r.event = e.id /\ ~s.job[r.job].failed /\ t.job[r.job].failed

\* It is still in the list, and marked failed.
StaysFailed(t, e) ==
    \E i \in DOMAIN t.events :
        t.events[i].id = e.id /\ t.events[i].name = e.name /\ t.events[i].failed

\* It is gone, its failed event is now in the list, unless it is one itself, and
\* the caller that emitted it has been sent an error.
IsReported(s, t, e, replies) ==
    /\ e.id \notin Ids(t)
    /\ ~e.name.failed =>
        /\ \E i \in DOMAIN t.events :
            /\ t.events[i].name = [e.name EXCEPT !.failed = TRUE]
            /\ t.events[i].progress = "pending"
            /\ t.events[i].id \notin Ids(s)
        /\ e.name.kind = "emit" => replies = {[name |-> e.name, failed |-> TRUE]}

\* A failure is not lost on its way: the events that wait for a job when it fails
\* are marked failed and stay so, whatever the other jobs they wait for do, and
\* none leaves the list without its failed event taking its place and, if it was
\* emitted by a caller of EmitEvent, without an error as the reply.
FailureReported ==
    [][\A i \in DOMAIN sys.events :
        Fails(sys, sys', sys.events[i]) =>
            \/ StaysFailed(sys', sys.events[i])
            \/ IsReported(sys, sys', sys.events[i], replied')]_vars
-----------------------------------------------------------------------------
(***************************************************************************)
(* Fairness: event_poll() and job_class_induct_jobs() run on, a process is *)
(* executed or ends, a process that was killed dies and a task completes.  *)
(***************************************************************************)
CanPoll ==
    ~sys.aborted /\ poll.induct = {} /\ (poll.event # NoEvent \/ NextIndex(sys, 0) # 0)

CanInduct == ~sys.aborted /\ poll.induct # {}

ProcessMoves(j) ==
    \/ MainUp(j)
    \/ /\ sys.job[j].state = "killed" \/ j \in Task
       /\ \E ok \in BOOLEAN : MainEnds(j, ok)

ProcessCanMove(j) ==
    /\ MainLoop /\ sys.job[j].pid
    /\ sys.job[j].state \in {"spawned", "killed"} \/ j \in Task

\* Weak fairness of Poll and InductWaiting and strong fairness of
\* ProcessMoves (the main loop attends to children however often events
\* are emitted), with the guards above for ENABLED.
Fairness ==
    /\ []<>~CanPoll \/ []<><<Poll>>_vars
    /\ []<>~CanInduct \/ []<><<\E j \in Jobs : InductWaiting(j)>>_vars
    /\ \A j \in Jobs : <>[]~ProcessCanMove(j) \/ []<><<ProcessMoves(j)>>_vars

FairSpec == Spec /\ Fairness

\* Every event finishes, unless an expression keeps it for another event
\* that it needs: jobs and events never wait for each other in a circle.  Nor
\* does the list fill up: as the events emitted from outside are limited, so are
\* those that jobs and failed events add while they are handled.
EventsFinish ==
    /\ [](Len(sys.events) <= MaxEvents)
    /\ \A id \in 1 .. MaxEvents + 1 :
        id \in Ids(sys) ~> (id \notin Ids(sys) \/ Kept(id))
=============================================================================
