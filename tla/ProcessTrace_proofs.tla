------------------------ MODULE ProcessTrace_proofs ------------------------
(***************************************************************************)
(* Proofs about ProcessTrace, for any number of processes.                 *)
(*                                                                         *)
(* The invariant says what init knows of the process it follows, for each  *)
(* state of the trace, and that every other process runs free, except the  *)
(* child of a fork whose report has still to be read.  It holds when no    *)
(* signal comes before init has set its options and nobody kills a process *)
(* that is stopped for init.                                               *)
(***************************************************************************)
EXTENDS ProcessTrace, TLAPS

Lives == {"none", "setup", "new", "runs", "stopped", "dead", "reaped"}
Reports == {"none", "trap", "stop", "signal", "fork", "exec", "exit"}

ProcType ==
    [life : Lives, traced : BOOLEAN, options : BOOLEAN, report : Reports,
     child : Pids \cup {0}, forks : 0 .. 2, execs : 0 .. 1]

JobType ==
    [expect : {"fork", "daemon"}, state : {"spawned", "running", "ended"}, pid : Pids,
     trace : {"new", "normal", "new child", "none"}, forks : 0 .. 2]

\* Not traced, and nothing to be read of it but its end.
Alone(q) ==
    /\ ~q.traced /\ ~q.options
    /\ \/ q.life \in {"none", "runs", "reaped"} /\ q.report = "none"
       \/ q.life = "dead" /\ q.report = "exit"

Dying(q) == q.life = "dead" /\ q.report = "exit"

\* The child of p that the trace stops, or will stop, before it does anything.
Pending(q, p) ==
    /\ q.traced /\ q.options /\ q.forks = p.forks + 1
    /\ \/ q.life = "new" /\ q.report = "none"
       \/ q.life = "stopped" /\ q.report \in {"stop", "none"}

\* The fork of the process that is followed has still to be read of.
Forking(j, ps) == j.state = "spawned" /\ ps[j.pid].report = "fork"

\* What is known of the process that is followed.
Known(j, p) ==
    CASE j.state = "spawned" /\ j.trace = "new" ->
            /\ p.traced /\ p.forks = 0 /\ j.forks = 0
            /\ \/ p.life = "setup" /\ p.report = "none"
               \/ p.life = "stopped" /\ p.report = "trap"
               \/ Dying(p)
      [] j.state = "spawned" /\ j.trace = "normal" ->
            /\ p.traced /\ p.options /\ p.forks = j.forks
            /\ \/ p.life = "runs" /\ p.report = "none"
               \/ p.life = "stopped" /\ p.report \in {"fork", "signal"}
               \/ p.life = "stopped" /\ p.report = "exec" /\ p.execs > 0
               \/ Dying(p)
      [] j.state = "spawned" /\ j.trace = "new child" ->
            /\ p.traced /\ p.options /\ p.forks = j.forks + 1
            /\ \/ p.life = "new" /\ p.report = "none"
               \/ p.life = "stopped" /\ p.report = "stop"
      [] j.state = "spawned" /\ j.trace = "none" -> FALSE
      [] j.state = "running" ->
            /\ Alone(p) /\ p.life # "none"
            /\ \/ p.forks = (IF j.expect = "fork" THEN 1 ELSE 2)
               \/ p.forks = 1 /\ p.execs > 0
      [] j.state = "ended" -> p.life = "reaped" /\ p.report = "none"

\* What holds of the job and of all processes.
Good(j, ps) ==
    /\ j \in JobType
    /\ ps \in [Pids -> ProcType]
    /\ j.state = "spawned" => j.forks <= 1 /\ (j.expect = "fork" => j.forks = 0)
    /\ Known(j, ps[j.pid])
    /\ Forking(j, ps) => /\ ps[j.pid].child \in Pids \ {j.pid}
                         /\ Pending(ps[ps[j.pid].child], ps[j.pid])
    /\ \A q \in Pids \ {j.pid} : Alone(ps[q]) \/ (Forking(j, ps) /\ q = ps[j.pid].child)

IInv == Good(followed, procs)

-----------------------------------------------------------------------------
\* A process whose report has been read.
Told(p) == [procs[p] EXCEPT !.report = "none",
                            !.life = IF procs[p].report = "exit" THEN "reaped" ELSE @]

\* The handler reads the report of one process.
LEMMA ReadingReport ==
    ASSUME IInv, NEW p \in Pids
    PROVE  /\ [procs EXCEPT ![p].report = "none",
                            ![p].life = IF procs[p].report = "exit" THEN "reaped" ELSE @]
              = [procs EXCEPT ![p] = Told(p)]
           /\ Told(p) \in ProcType
           /\ Told(p).report = "none"
           /\ Told(p).life = IF procs[p].report = "exit" THEN "reaped" ELSE procs[p].life
           /\ Told(p).traced = procs[p].traced
           /\ Told(p).options = procs[p].options
           /\ Told(p).child = procs[p].child
           /\ Told(p).forks = procs[p].forks
           /\ Told(p).execs = procs[p].execs
           /\ procs[p] \in ProcType /\ procs \in [Pids -> ProcType] /\ followed \in JobType
<1>1. procs[p] \in ProcType /\ procs \in [Pids -> ProcType] /\ followed \in JobType
  BY DEF IInv, Good
<1>2. [procs EXCEPT ![p].report = "none",
                    ![p].life = IF procs[p].report = "exit" THEN "reaped" ELSE @]
      = [procs EXCEPT ![p] = Told(p)]
  BY <1>1 DEF Told, ProcType
<1>3. /\ Told(p) \in ProcType
      /\ Told(p).report = "none"
      /\ Told(p).life = IF procs[p].report = "exit" THEN "reaped" ELSE procs[p].life
      /\ Told(p).traced = procs[p].traced
      /\ Told(p).options = procs[p].options
      /\ Told(p).child = procs[p].child
      /\ Told(p).forks = procs[p].forks
      /\ Told(p).execs = procs[p].execs
  BY <1>1 DEF Told, ProcType, Lives, Reports
<1> QED BY <1>1, <1>2, <1>3

-----------------------------------------------------------------------------
\* A process that is not followed, or a job that has ended: the report is
\* read and nothing else happens.
LEMMA IgnoredGood ==
    ASSUME IInv, NEW p \in Pids, Handler(p), p # followed.pid \/ followed.state = "ended"
    PROVE  IInv'
<1> DEFINE r == Told(p)
<1>1. procs[p] \in ProcType /\ procs \in [Pids -> ProcType] /\ followed \in JobType
  BY DEF IInv, Good
<1>2. followed' = followed /\ procs' = [procs EXCEPT ![p] = r] /\ procs[p].report # "none"
  BY ReadingReport DEF Handler, State
<1>3. /\ r \in ProcType /\ r.report = "none" /\ r.traced = procs[p].traced
      /\ r.options = procs[p].options /\ r.forks = procs[p].forks
      /\ r.life = IF procs[p].report = "exit" THEN "reaped" ELSE procs[p].life
  BY ReadingReport
<1> HIDE DEF r
<1>4. p # followed.pid
  BY <1>2 DEF IInv, Good, Known
<1>5. /\ procs'[followed.pid] = procs[followed.pid] /\ procs'[p] = r
      /\ \A q \in Pids \ {p} : procs'[q] = procs[q]
      /\ procs' \in [Pids -> ProcType]
  BY <1>1, <1>2, <1>3, <1>4 DEF JobType
<1>6. Alone(procs[p]) => Alone(r)
  BY <1>2, <1>3 DEF Alone
<1>7. ASSUME Forking(followed, procs), p = procs[followed.pid].child
      PROVE  Pending(r, procs[followed.pid])
  BY <1>2, <1>3, <1>7 DEF IInv, Good, Pending
<1>8. Forking(followed, procs') <=> Forking(followed, procs)
  BY <1>5 DEF Forking
<1> QED BY <1>1, <1>2, <1>3, <1>4, <1>5, <1>6, <1>7, <1>8, ZenonT(60) DEF IInv, Good

\* The end of the process that is followed ends the trace.
LEMMA ExitGood ==
    ASSUME IInv, NEW p \in Pids, Handler(p), p = followed.pid, followed.state # "ended",
           procs[p].report = "exit"
    PROVE  IInv'
<1> DEFINE r == [procs[p] EXCEPT !.report = "none", !.life = "reaped"]
           j == [followed EXCEPT !.state = "ended", !.trace = "none"]
<1>1. procs[p] \in ProcType /\ procs \in [Pids -> ProcType] /\ followed \in JobType
  BY DEF IInv, Good
<1>2. followed' = j /\ procs' = [procs EXCEPT ![p] = r]
  BY <1>1 DEF Handler, State, MainTerminated, ProcType
<1>3. r \in ProcType /\ r.report = "none" /\ r.life = "reaped"
  BY <1>1 DEF ProcType, Lives, Reports
<1>4. j \in JobType /\ j.state = "ended" /\ j.pid = p
  BY <1>1 DEF JobType
<1> HIDE DEF r, j
<1>5. /\ procs'[p] = r /\ \A q \in Pids \ {p} : procs'[q] = procs[q]
      /\ procs' \in [Pids -> ProcType]
  BY <1>1, <1>2, <1>3
<1>6. \A q \in Pids \ {p} : Alone(procs[q])
  BY DEF IInv, Good, Forking
<1> QED BY <1>2, <1>3, <1>4, <1>5, <1>6 DEF IInv, Good, Known, Forking

\* A change of the followed process alone keeps the invariant when what is
\* known of that process stays true.
LEMMA OwnChange ==
    ASSUME NEW ps \in [Pids -> ProcType], NEW j \in JobType, NEW p \in Pids, NEW r \in ProcType,
           j.pid = p, \A q \in Pids \ {p} : Alone(ps[q]),
           j.state = "spawned" => j.forks <= 1 /\ (j.expect = "fork" => j.forks = 0),
           Known(j, r), r.report # "fork"
    PROVE  Good(j, [ps EXCEPT ![p] = r])
<1> DEFINE new == [ps EXCEPT ![p] = r]
<1>1. new \in [Pids -> ProcType] /\ new[p] = r /\ \A q \in Pids \ {p} : new[q] = ps[q]
  OBVIOUS
<1> HIDE DEF new
<1>2. ~Forking(j, new)
  BY <1>1 DEF Forking
<1>3. Good(j, new)
  BY <1>1, <1>2 DEF Good
<1> QED BY <1>3 DEF new

\* A stopped process that goes on, and one that goes on without its trace.
Going(q) == [q EXCEPT !.life = "runs", !.report = "none"]
Freed(q) == [q EXCEPT !.life = "runs", !.report = "none", !.traced = FALSE, !.options = FALSE]

\* ptrace lets a stopped process go, with or without its trace.
LEMMA Letting ==
    ASSUME NEW ps \in [Pids -> ProcType], NEW p \in Pids, ps[p].life = "stopped"
    PROVE  /\ Continued(ps, p) = [ps EXCEPT ![p] = Going(ps[p])]
           /\ Detached(ps, p) = [ps EXCEPT ![p] = Freed(ps[p])]
<1>1. ps[p] \in ProcType
  OBVIOUS
<1>2. Continued(ps, p) = [ps EXCEPT ![p] = Going(ps[p])]
  BY <1>1 DEF Continued, Released, ProcType, Going
<1>3. Detached(ps, p) = [ps EXCEPT ![p] = Freed(ps[p])]
  BY <1>1 DEF Detached, Released, ProcType, Freed
<1> QED BY <1>2, <1>3

\* What it is like afterwards.
LEMMA Let ==
    ASSUME NEW q \in ProcType
    PROVE  /\ Going(q) \in ProcType /\ Going(q).life = "runs" /\ Going(q).report = "none"
           /\ Going(q).traced = q.traced /\ Going(q).options = q.options
           /\ Going(q).forks = q.forks /\ Going(q).execs = q.execs
           /\ Freed(q) \in ProcType /\ Freed(q).life = "runs" /\ Freed(q).report = "none"
           /\ Freed(q).forks = q.forks /\ Freed(q).execs = q.execs /\ Alone(Freed(q))
<1>1. /\ Going(q) \in ProcType /\ Going(q).life = "runs" /\ Going(q).report = "none"
      /\ Going(q).traced = q.traced /\ Going(q).options = q.options
      /\ Going(q).forks = q.forks /\ Going(q).execs = q.execs
  BY DEF ProcType, Lives, Reports, Going
<1>2. /\ Freed(q) \in ProcType /\ Freed(q).life = "runs" /\ Freed(q).report = "none"
      /\ Freed(q).forks = q.forks /\ Freed(q).execs = q.execs
      /\ Freed(q).traced = FALSE /\ Freed(q).options = FALSE
  BY DEF ProcType, Lives, Reports, Freed
<1>3. Alone(Freed(q))
  BY <1>2 DEF Alone
<1> QED BY <1>1, <1>2, <1>3

\* The process begins to be followed in earnest: job_process_trace_new().
LEMMA TraceNewGood ==
    ASSUME NEW ps \in [Pids -> ProcType], NEW j \in JobType, j.state = "spawned",
           j.forks <= 1, j.expect = "fork" => j.forks = 0,
           ps[j.pid].life = "stopped", ps[j.pid].traced, ps[j.pid].forks = j.forks,
           \A q \in Pids \ {j.pid} : Alone(ps[q])
    PROVE  Good(TraceNew(State(j, ps)).job, TraceNew(State(j, ps)).procs)
<1> DEFINE p == j.pid
           o == [ps[p] EXCEPT !.options = TRUE]
           ops == [ps EXCEPT ![p] = o]
           run == Going(o)
           k == [j EXCEPT !.trace = "normal"]
<1>1. p \in Pids /\ ps[p] \in ProcType
  BY DEF JobType
<1>2. /\ o \in ProcType /\ o.life = "stopped" /\ o.traced /\ o.options /\ o.forks = j.forks
      /\ [ps EXCEPT ![p].options = TRUE] = ops
  BY <1>1 DEF ProcType
<1>3. k \in JobType /\ k.state = "spawned" /\ k.pid = p /\ k.trace = "normal"
      /\ k.forks = j.forks /\ k.expect = j.expect
  BY DEF JobType
<1>4. /\ TraceNew(State(j, ps)).job = k
      /\ TraceNew(State(j, ps)).procs = Continued(ops, p)
  BY <1>2 DEF TraceNew, State, MayTrace
<1> HIDE DEF o, k, p
<1>5. ops \in [Pids -> ProcType] /\ ops[p] = o /\ \A q \in Pids \ {p} : ops[q] = ps[q]
  BY <1>1, <1>2
<1> HIDE DEF ops
<1>6. /\ Continued(ops, p) = [ops EXCEPT ![p] = run] /\ run \in ProcType
      /\ run.life = "runs" /\ run.report = "none" /\ run.traced /\ run.options
      /\ run.forks = j.forks
  BY <1>1, <1>2, <1>5, Letting, Let, ZenonT(60)
<1> HIDE DEF run
<1>7. Known(k, run)
  BY <1>3, <1>6 DEF Known
<1>8. Good(k, [ops EXCEPT ![p] = run])
  BY <1>1, <1>3, <1>5, <1>6, <1>7, OwnChange, ZenonT(60) DEF p
<1> QED BY <1>4, <1>6, <1>8

\* A new child has been met: job_process_trace_new_child() ends the trace or
\* follows the child.
LEMMA NewChildGood ==
    ASSUME NEW ps \in [Pids -> ProcType], NEW j \in JobType, j.state = "spawned",
           j.forks <= 1, j.expect = "fork" => j.forks = 0,
           ps[j.pid].life = "stopped", ps[j.pid].traced, ps[j.pid].forks = j.forks + 1,
           \A q \in Pids \ {j.pid} : Alone(ps[q])
    PROVE  Good(TraceNewChild(State(j, ps)).job, TraceNewChild(State(j, ps)).procs)
<1> DEFINE p == j.pid
           n == [j EXCEPT !.forks = @ + 1]
           free == Freed(ps[p])
           k == [n EXCEPT !.trace = "none", !.state = "running"]
<1>1. p \in Pids /\ ps[p] \in ProcType
  BY DEF JobType
<1>0. (j.forks = 0 \/ j.forks = 1) /\ j.forks + 1 \in 0 .. 2
  <2>1. j.forks \in 0 .. 2
    BY DEF JobType
  <2>2. j.forks = 0 \/ j.forks = 1
    BY <2>1
  <2> QED BY <2>2
<1>2. /\ n \in JobType /\ n.state = "spawned" /\ n.pid = p /\ n.forks = j.forks + 1
      /\ n.expect = j.expect /\ n.expect \in {"fork", "daemon"}
  BY <1>0 DEF JobType
<1>3. /\ k \in JobType /\ k.state = "running" /\ k.pid = p /\ k.forks = j.forks + 1
      /\ k.expect = j.expect
  BY <1>0 DEF JobType
<1>4. /\ EnoughForks(n) => /\ TraceNewChild(State(j, ps)).job = k
                          /\ TraceNewChild(State(j, ps)).procs = Detached(ps, p)
      /\ ~EnoughForks(n) => TraceNewChild(State(j, ps)) = TraceNew(State(n, ps))
  BY <1>2 DEF TraceNewChild, State, Moved
<1> HIDE DEF n, k, p
<1>5. CASE EnoughForks(n)
  <2>1. /\ Detached(ps, p) = [ps EXCEPT ![p] = free] /\ free \in ProcType /\ Alone(free)
        /\ free.life = "runs" /\ free.forks = j.forks + 1 /\ free.report = "none"
    BY <1>1, Letting, Let DEF p
  <2> HIDE DEF free
  <2>2. free.forks = (IF k.expect = "fork" THEN 1 ELSE 2)
    BY <1>0, <1>2, <1>3, <1>5, <2>1 DEF EnoughForks
  <2>3. Known(k, free)
    BY <1>3, <2>1, <2>2 DEF Known
  <2>4. Good(k, [ps EXCEPT ![p] = free])
    BY <1>1, <1>3, <2>1, <2>3, OwnChange DEF p
  <2> QED BY <1>4, <1>5, <2>1, <2>4
<1>6. CASE ~EnoughForks(n)
  <2>1. n.forks <= 1 /\ n.expect # "fork"
    BY <1>0, <1>2, <1>6 DEF EnoughForks
  <2>2. Good(TraceNew(State(n, ps)).job, TraceNew(State(n, ps)).procs)
    BY <1>2, <2>1, TraceNewGood DEF p
  <2> QED BY <1>4, <1>6, <2>2
<1> QED BY <1>5, <1>6

\* The report of a stop of the followed process: what the handler does with it,
\* for each state of the trace in which there can be one.
LEMMA StopHandled ==
    ASSUME IInv, NEW p \in Pids, Handler(p), p = followed.pid, followed.state # "ended",
           procs[p].report # "exit"
    PROVE  LET s == State(followed, [procs EXCEPT ![p] = Told(p)])
           IN /\ procs[p].report # "none" /\ followed.state = "spawned"
              /\ procs[p].life = "stopped" /\ procs[p].traced
              /\ \/ /\ followed.trace = "new" /\ procs[p].report = "trap"
                    /\ followed' = TraceNew(s).job /\ procs' = TraceNew(s).procs
                 \/ /\ followed.trace = "new child" /\ procs[p].report = "stop"
                    /\ followed' = TraceNewChild(s).job /\ procs' = TraceNewChild(s).procs
                 \/ /\ followed.trace = "normal" /\ procs[p].report = "signal"
                    /\ followed' = TraceSignal(s).job /\ procs' = TraceSignal(s).procs
                 \/ /\ followed.trace = "normal" /\ procs[p].report = "fork"
                    /\ followed' = TraceFork(s).job /\ procs' = TraceFork(s).procs
                 \/ /\ followed.trace = "normal" /\ procs[p].report = "exec"
                    /\ followed' = TraceExec(s).job /\ procs' = TraceExec(s).procs
<1> DEFINE s == State(followed, [procs EXCEPT ![p] = Told(p)])
<1>1. /\ followed \in JobType /\ procs[p] \in ProcType
      /\ s = State(followed,
                   [procs EXCEPT ![p].report = "none",
                                 ![p].life = IF procs[p].report = "exit" THEN "reaped" ELSE @])
  BY ReadingReport
<1> HIDE DEF s
<1>2. procs[p].report # "none"
  BY DEF Handler
<1>3. Known(followed, procs[p])
  BY DEF IInv, Good
<1>4. /\ followed.state \in {"spawned", "running", "ended"}
      /\ followed.trace \in {"new", "normal", "new child", "none"}
  BY <1>1 DEF JobType
<1>5. followed.state = "spawned"
  BY <1>2, <1>3, <1>4 DEF Known, Alone
<1>6. /\ procs[p].life = "stopped" /\ procs[p].traced
      /\ \/ followed.trace = "new" /\ procs[p].report = "trap"
         \/ followed.trace = "new child" /\ procs[p].report = "stop"
         \/ followed.trace = "normal" /\ procs[p].report \in {"signal", "fork", "exec"}
  BY <1>2, <1>3, <1>4, <1>5 DEF Known, Dying
<1>7. CASE procs[p].report = "trap"
  <2>1. followed' = TraceNew(s).job /\ procs' = TraceNew(s).procs
    BY <1>1, <1>5, <1>6, <1>7 DEF Handler
  <2> QED BY <1>2, <1>5, <1>6, <1>7, <2>1 DEF s
<1>8. CASE procs[p].report = "stop"
  <2>1. followed' = TraceNewChild(s).job /\ procs' = TraceNewChild(s).procs
    BY <1>1, <1>5, <1>6, <1>8 DEF Handler
  <2> QED BY <1>2, <1>5, <1>6, <1>8, <2>1 DEF s
<1>9. CASE procs[p].report = "signal"
  <2>1. followed' = TraceSignal(s).job /\ procs' = TraceSignal(s).procs
    BY <1>1, <1>5, <1>6, <1>9 DEF Handler
  <2> QED BY <1>2, <1>5, <1>6, <1>9, <2>1 DEF s
<1>10. CASE procs[p].report = "fork"
  <2>1. followed' = TraceFork(s).job /\ procs' = TraceFork(s).procs
    BY <1>1, <1>5, <1>6, <1>10 DEF Handler
  <2> QED BY <1>2, <1>5, <1>6, <1>10, <2>1 DEF s
<1>11. CASE procs[p].report = "exec"
  <2>1. followed' = TraceExec(s).job /\ procs' = TraceExec(s).procs
    BY <1>1, <1>5, <1>6, <1>11 DEF Handler
  <2> QED BY <1>2, <1>5, <1>6, <1>11, <2>1 DEF s
<1> QED BY <1>6, <1>7, <1>8, <1>9, <1>10, <1>11

\* The followed process has forked: job_process_trace_fork() follows the child.
LEMMA TraceForkGood ==
    ASSUME NEW ps \in [Pids -> ProcType], NEW j \in JobType,
           j.state = "spawned", j.trace = "normal",
           j.forks <= 1, j.expect = "fork" => j.forks = 0,
           ps[j.pid].life = "stopped", ps[j.pid].traced, ps[j.pid].forks = j.forks,
           ps[j.pid].child \in Pids \ {j.pid},
           Pending(ps[ps[j.pid].child], ps[j.pid]),
           \A q \in Pids \ {j.pid, ps[j.pid].child} : Alone(ps[q])
    PROVE  Good(TraceFork(State(j, ps)).job, TraceFork(State(j, ps)).procs)
<1> DEFINE p == j.pid
           c == ps[p].child
           k == [j EXCEPT !.pid = c, !.trace = "new child"]
           f == [ps EXCEPT ![p] = Freed(ps[p])]
           o == [ps[c] EXCEPT !.options = FALSE]
           g == [f EXCEPT ![c] = o]
<1>1. p \in Pids /\ ps[p] \in ProcType /\ c \in Pids /\ c # p /\ ps[c] \in ProcType
  BY DEF JobType
<1>2. /\ k \in JobType /\ k.state = "spawned" /\ k.pid = c /\ k.trace = "new child"
      /\ k.forks = j.forks /\ k.expect = j.expect
  BY <1>1 DEF JobType
<1>3. Detached(ps, p) = f /\ Freed(ps[p]) \in ProcType /\ Alone(Freed(ps[p]))
  BY <1>1, Letting, Let
<1>4. /\ f \in [Pids -> ProcType] /\ f[p] = Freed(ps[p]) /\ f[c] = ps[c]
      /\ \A q \in Pids \ {p} : f[q] = ps[q]
  BY <1>1, <1>3
<1>5. o \in ProcType /\ o.life = ps[c].life /\ o.traced = ps[c].traced /\ o.forks = ps[c].forks
  BY <1>1 DEF ProcType
<1>6. [f EXCEPT ![c].options = FALSE] = g
  BY <1>1, <1>4
<1>7. /\ ~MayTrace(f, c) => /\ TraceFork(State(j, ps)).job = k
                            /\ TraceFork(State(j, ps)).procs = f
      /\ MayTrace(f, c) => TraceFork(State(j, ps)) = TraceNewChild(State(k, g))
  BY <1>3, <1>6 DEF TraceFork, State, MayTrace
<1> HIDE DEF k, f, o
<1>8. /\ g \in [Pids -> ProcType] /\ g[c] = o
      /\ \A q \in Pids \ {c} : g[q] = f[q]
  BY <1>1, <1>4, <1>5
<1> HIDE DEF g
<1>9. /\ ps[c].traced /\ ps[c].options /\ ps[c].forks = ps[p].forks + 1
      /\ \/ ps[c].life = "new" /\ ps[c].report = "none"
         \/ ps[c].life = "stopped"
  BY DEF Pending
<1>10. \A q \in Pids \ {c} : Alone(f[q])
  BY <1>1, <1>3, <1>4
<1> HIDE DEF p, c
<1>11. CASE MayTrace(f, c)
  <2>1. o.life = "stopped" /\ o.traced /\ o.forks = k.forks + 1
    BY <1>2, <1>4, <1>5, <1>9, <1>11 DEF MayTrace, p
  <2>2. Good(TraceNewChild(State(k, g)).job, TraceNewChild(State(k, g)).procs)
    BY <1>2, <1>8, <1>10, <2>1, NewChildGood
  <2> QED BY <1>7, <1>11, <2>2
<1>12. CASE ~MayTrace(f, c)
  <2>1. ps[c].life = "new" /\ ps[c].report = "none"
    BY <1>4, <1>9, <1>12 DEF MayTrace
  <2>2. Known(k, f[c]) /\ f[c].report # "fork"
    BY <1>2, <1>4, <1>9, <2>1, ZenonT(60) DEF Known, p
  <2>3. Good(k, f)
    BY <1>2, <1>4, <1>10, <2>2 DEF Good, Forking
  <2> QED BY <1>7, <1>12, <2>3
<1> QED BY <1>11, <1>12

\* job_process_handler() keeps the invariant, whichever report it reads.
LEMMA HandlerGood ==
    ASSUME IInv, NEW p \in Pids, Handler(p)
    PROVE  IInv'
<1>1. CASE p # followed.pid \/ followed.state = "ended"
  BY <1>1, IgnoredGood
<1>2. CASE p = followed.pid /\ followed.state # "ended" /\ procs[p].report = "exit"
  BY <1>2, ExitGood
<1>3. CASE p = followed.pid /\ followed.state # "ended" /\ procs[p].report # "exit"
  <2> DEFINE ps == [procs EXCEPT ![p] = Told(p)]
             s == State(followed, ps)
  <2>1. /\ procs[p].report # "none" /\ followed.state = "spawned"
        /\ procs[p].life = "stopped" /\ procs[p].traced
        /\ \/ /\ followed.trace = "new" /\ procs[p].report = "trap"
              /\ followed' = TraceNew(s).job /\ procs' = TraceNew(s).procs
           \/ /\ followed.trace = "new child" /\ procs[p].report = "stop"
              /\ followed' = TraceNewChild(s).job /\ procs' = TraceNewChild(s).procs
           \/ /\ followed.trace = "normal" /\ procs[p].report = "signal"
              /\ followed' = TraceSignal(s).job /\ procs' = TraceSignal(s).procs
           \/ /\ followed.trace = "normal" /\ procs[p].report = "fork"
              /\ followed' = TraceFork(s).job /\ procs' = TraceFork(s).procs
           \/ /\ followed.trace = "normal" /\ procs[p].report = "exec"
              /\ followed' = TraceExec(s).job /\ procs' = TraceExec(s).procs
    BY <1>3, StopHandled
  <2>2. /\ Told(p) \in ProcType /\ Told(p).report = "none" /\ Told(p).life = "stopped"
        /\ Told(p).traced = procs[p].traced /\ Told(p).options = procs[p].options
        /\ Told(p).forks = procs[p].forks /\ Told(p).child = procs[p].child
        /\ Told(p).execs = procs[p].execs
        /\ procs[p] \in ProcType /\ procs \in [Pids -> ProcType] /\ followed \in JobType
    BY <1>3, <2>1, ReadingReport
  <2>3. ps \in [Pids -> ProcType] /\ ps[p] = Told(p) /\ \A q \in Pids \ {p} : ps[q] = procs[q]
    BY <2>2
  <2>4. /\ followed.forks <= 1 /\ (followed.expect = "fork" => followed.forks = 0)
        /\ Known(followed, procs[p])
        /\ procs[p].report = "fork" => /\ procs[p].child \in Pids \ {p}
                                       /\ Pending(procs[procs[p].child], procs[p])
        /\ \A q \in Pids \ {p} : \/ Alone(procs[q])
                                 \/ procs[p].report = "fork" /\ q = procs[p].child
    BY <1>3, <2>1 DEF IInv, Good, Forking
  <2> HIDE DEF ps
  <2>5. CASE followed.trace = "new" /\ procs[p].report = "trap"
    <3>1. followed' = TraceNew(s).job /\ procs' = TraceNew(s).procs
      BY <2>1, <2>5
    <3>2. Told(p).forks = followed.forks
      BY <2>1, <2>2, <2>4, <2>5 DEF Known
    <3>3. Good(TraceNew(s).job, TraceNew(s).procs)
      BY <1>3, <2>1, <2>2, <2>3, <2>4, <2>5, <3>2, TraceNewGood
    <3> QED BY <3>1, <3>3 DEF IInv
  <2>6. CASE followed.trace = "new child" /\ procs[p].report = "stop"
    <3>1. followed' = TraceNewChild(s).job /\ procs' = TraceNewChild(s).procs
      BY <2>1, <2>6
    <3>2. Told(p).forks = followed.forks + 1
      BY <2>1, <2>2, <2>4, <2>6 DEF Known
    <3>3. Good(TraceNewChild(s).job, TraceNewChild(s).procs)
      BY <1>3, <2>1, <2>2, <2>3, <2>4, <2>6, <3>2, NewChildGood
    <3> QED BY <3>1, <3>3 DEF IInv
  <2>7. CASE followed.trace = "normal" /\ procs[p].report = "signal"
    <3>1. followed' = followed /\ procs' = Continued(ps, p)
      BY <1>3, <2>1, <2>7 DEF TraceSignal, State
    <3>2. /\ procs' = [ps EXCEPT ![p] = Going(Told(p))] /\ Going(Told(p)) \in ProcType
          /\ Going(Told(p)).life = "runs" /\ Going(Told(p)).report = "none"
          /\ Going(Told(p)).traced = procs[p].traced /\ Going(Told(p)).options = procs[p].options
          /\ Going(Told(p)).forks = procs[p].forks
      BY <2>2, <2>3, <3>1, Letting, Let
    <3>3. Known(followed, Going(Told(p)))
      BY <2>1, <2>4, <2>7, <3>2 DEF Known
    <3>4. Good(followed, [ps EXCEPT ![p] = Going(Told(p))])
      BY <1>3, <2>2, <2>3, <2>4, <2>7, <3>2, <3>3, OwnChange
    <3> QED BY <3>1, <3>2, <3>4 DEF IInv
  <2>8. CASE followed.trace = "normal" /\ procs[p].report = "fork"
    <3>1. followed' = TraceFork(s).job /\ procs' = TraceFork(s).procs
      BY <2>1, <2>8
    <3>2. Told(p).forks = followed.forks
      BY <2>1, <2>2, <2>4, <2>8 DEF Known
    <3>3. Pending(ps[Told(p).child], Told(p))
      BY <2>2, <2>3, <2>4, <2>8 DEF Pending
    <3>5. /\ Told(p).child \in Pids \ {p}
          /\ \A q \in Pids \ {p, Told(p).child} : Alone(ps[q])
      BY <2>2, <2>3, <2>4, <2>8
    <3>4. Good(TraceFork(s).job, TraceFork(s).procs)
      BY <1>3, <2>1, <2>2, <2>3, <2>4, <2>8, <3>2, <3>3, <3>5, TraceForkGood
    <3> QED BY <3>1, <3>4 DEF IInv
  <2>9. CASE followed.trace = "normal" /\ procs[p].report = "exec"
    <3>1. /\ procs[p].traced /\ procs[p].options /\ procs[p].forks = followed.forks
          /\ procs[p].execs > 0
      BY <2>1, <2>4, <2>9 DEF Known, Dying
    <3>2. CASE followed.forks > 0
      <4> DEFINE j == [followed EXCEPT !.trace = "none", !.state = "running"]
      <4>1. followed' = j /\ procs' = Detached(ps, p)
        BY <1>3, <2>1, <2>9, <3>2 DEF TraceExec, State, Moved
      <4>2. j \in JobType /\ j.state = "running" /\ j.pid = p
        BY <1>3, <2>2 DEF JobType
      <4>3. /\ procs' = [ps EXCEPT ![p] = Freed(Told(p))] /\ Freed(Told(p)) \in ProcType
            /\ Freed(Told(p)).life = "runs" /\ Freed(Told(p)).report = "none"
            /\ Freed(Told(p)).forks = procs[p].forks /\ Freed(Told(p)).execs = procs[p].execs
            /\ Alone(Freed(Told(p)))
        BY <2>2, <2>3, <4>1, Letting, Let
      <4>4. procs[p].forks = 1
        <5>1. followed.forks \in 0 .. 2
          BY <2>2 DEF JobType
        <5> QED BY <2>4, <3>1, <3>2, <5>1
      <4> HIDE DEF j
      <4>5. Known(j, Freed(Told(p)))
        BY <3>1, <4>2, <4>3, <4>4 DEF Known
      <4>6. Good(j, [ps EXCEPT ![p] = Freed(Told(p))])
        BY <2>3, <2>4, <2>9, <4>2, <4>3, <4>5, OwnChange
      <4> QED BY <4>1, <4>3, <4>6 DEF IInv
    <3>3. CASE ~(followed.forks > 0)
      <4>1. followed' = followed /\ procs' = Continued(ps, p)
        BY <1>3, <2>1, <2>9, <3>3 DEF TraceExec, State
      <4>2. /\ procs' = [ps EXCEPT ![p] = Going(Told(p))] /\ Going(Told(p)) \in ProcType
            /\ Going(Told(p)).life = "runs" /\ Going(Told(p)).report = "none"
            /\ Going(Told(p)).traced = procs[p].traced
            /\ Going(Told(p)).options = procs[p].options
            /\ Going(Told(p)).forks = procs[p].forks
        BY <2>2, <2>3, <4>1, Letting, Let
      <4>3. Known(followed, Going(Told(p)))
        BY <2>1, <2>9, <3>1, <4>2 DEF Known
      <4>4. Good(followed, [ps EXCEPT ![p] = Going(Told(p))])
        BY <1>3, <2>2, <2>3, <2>4, <2>9, <4>2, <4>3, OwnChange
      <4> QED BY <4>1, <4>2, <4>4 DEF IInv
    <3> QED BY <3>2, <3>3
  <2> QED BY <2>1, <2>5, <2>6, <2>7, <2>8, <2>9
<1> QED BY <1>1, <1>2, <1>3

-----------------------------------------------------------------------------
\* A process that runs, or is being set up, is the followed one in a state where
\* that is known, or one that runs free.
LEMMA WhoRuns ==
    ASSUME IInv, NEW p \in Pids
    PROVE  /\ followed \in JobType /\ procs \in [Pids -> ProcType] /\ procs[p] \in ProcType
           /\ followed.pid \in Pids
           /\ procs[p].life = "setup" =>
                /\ p = followed.pid /\ followed.state = "spawned" /\ followed.trace = "new"
                /\ procs[p].traced /\ procs[p].forks = 0 /\ followed.forks = 0
           /\ procs[p].life = "runs" /\ procs[p].traced =>
                /\ p = followed.pid /\ followed.state = "spawned" /\ followed.trace = "normal"
                /\ procs[p].options /\ procs[p].forks = followed.forks
           /\ procs[p].life = "runs" /\ ~procs[p].traced =>
                Alone(procs[p]) /\ (p = followed.pid => followed.state = "running")
           /\ procs[p].life = "none" => p # followed.pid /\ Alone(procs[p])
           /\ procs[p].life \in {"setup", "runs", "none"} /\ p # followed.pid => Alone(procs[p])
           /\ procs[p].life \in {"setup", "runs"} =>
                \/ ~Forking(followed, procs)
                \/ p # procs[followed.pid].child /\ p # followed.pid
<1>1. /\ followed \in JobType /\ procs \in [Pids -> ProcType] /\ procs[p] \in ProcType
      /\ followed.pid \in Pids
  BY DEF IInv, Good, JobType
<1>2. /\ followed.state \in {"spawned", "running", "ended"}
      /\ followed.trace \in {"new", "normal", "new child", "none"}
  BY <1>1 DEF JobType
<1>3. CASE p = followed.pid
  <2>1. Known(followed, procs[p])
    BY <1>3 DEF IInv, Good
  <2>2. procs[p].life = "setup" =>
           /\ followed.state = "spawned" /\ followed.trace = "new"
           /\ procs[p].traced /\ procs[p].forks = 0 /\ followed.forks = 0
    BY <1>2, <2>1 DEF Known, Alone, Dying
  <2>3. procs[p].life = "runs" /\ procs[p].traced =>
           /\ followed.state = "spawned" /\ followed.trace = "normal"
           /\ procs[p].options /\ procs[p].forks = followed.forks
    BY <1>2, <2>1 DEF Known, Alone, Dying
  <2>4. procs[p].life = "runs" /\ ~procs[p].traced => Alone(procs[p]) /\ followed.state = "running"
    BY <1>2, <2>1 DEF Known, Dying
  <2>5. procs[p].life # "none"
    BY <1>2, <2>1 DEF Known, Alone, Dying
  <2>6. procs[p].life \in {"setup", "runs"} => ~Forking(followed, procs)
    BY <1>2, <1>3, <2>1 DEF Known, Alone, Dying, Forking
  <2> QED BY <1>1, <1>3, <2>2, <2>3, <2>4, <2>5, <2>6
<1>4. CASE p # followed.pid
  <2>1. \/ Alone(procs[p])
        \/ /\ Forking(followed, procs) /\ p = procs[followed.pid].child
           /\ Pending(procs[p], procs[followed.pid])
    BY <1>4 DEF IInv, Good
  <2>2. procs[p].life \in {"setup", "runs", "none"} => Alone(procs[p])
    BY <2>1 DEF Pending
  <2>3. procs[p].life # "setup" /\ (procs[p].life = "runs" => ~procs[p].traced)
    BY <2>1 DEF Pending, Alone
  <2>4. procs[p].life \in {"setup", "runs"} /\ Forking(followed, procs) =>
           p # procs[followed.pid].child
    BY <1>4 DEF IInv, Good, Pending
  <2> QED BY <1>1, <1>4, <2>2, <2>3, <2>4
<1> QED BY <1>3, <1>4

\* Changing one process other than the followed one.
LEMMA OtherChange ==
    ASSUME IInv, NEW p \in Pids, NEW r \in ProcType, p # followed.pid, Alone(r),
           Alone(procs[p]), procs[p].life \in {"runs", "none"},
           procs' = [procs EXCEPT ![p] = r], followed' = followed
    PROVE  IInv'
<1>1. /\ followed \in JobType /\ procs \in [Pids -> ProcType] /\ followed.pid \in Pids
  BY WhoRuns
<1>2. /\ procs' \in [Pids -> ProcType] /\ procs'[p] = r
      /\ \A q \in Pids \ {p} : procs'[q] = procs[q]
  BY <1>1
<1>3. Forking(followed, procs') <=> Forking(followed, procs)
  BY <1>1, <1>2 DEF Forking
<1>4. Forking(followed, procs) => procs[followed.pid].child # p
  BY DEF IInv, Good, Alone, Pending
<1> QED BY <1>1, <1>2, <1>3, <1>4 DEF IInv, Good

\* Changing the followed process while no fork of its is to be read.
LEMMA FollowedChange ==
    ASSUME IInv, NEW r \in ProcType, ~Forking(followed, procs), r.report # "fork",
           Known(followed, r),
           procs' = [procs EXCEPT ![followed.pid] = r], followed' = followed
    PROVE  IInv'
<1>1. /\ followed \in JobType /\ procs \in [Pids -> ProcType] /\ followed.pid \in Pids
      /\ followed.state = "spawned" =>
            followed.forks <= 1 /\ (followed.expect = "fork" => followed.forks = 0)
      /\ \A q \in Pids \ {followed.pid} : Alone(procs[q])
  BY DEF IInv, Good, JobType
<1>2. Good(followed, [procs EXCEPT ![followed.pid] = r])
  BY <1>1, OwnChange
<1> QED BY <1>2 DEF IInv

\* A stop, as it looks in the table of processes.
Halted(q, report) == [q EXCEPT !.life = "stopped", !.report = report]

\* The kernel stops a process and notes why.
LEMMA Stopping ==
    ASSUME IInv, NEW p \in Pids, NEW report \in Reports
    PROVE  /\ Stops(p, report) = [procs EXCEPT ![p] = Halted(procs[p], report)]
           /\ Halted(procs[p], report) \in ProcType
           /\ Halted(procs[p], report).life = "stopped"
           /\ Halted(procs[p], report).report = report
           /\ Halted(procs[p], report).traced = procs[p].traced
           /\ Halted(procs[p], report).options = procs[p].options
           /\ Halted(procs[p], report).forks = procs[p].forks
           /\ Halted(procs[p], report).execs = procs[p].execs
<1>1. procs \in [Pids -> ProcType] /\ procs[p] \in ProcType
  BY DEF IInv, Good
<1>2. Stops(p, report) = [procs EXCEPT ![p] = Halted(procs[p], report)]
  BY <1>1 DEF Stops, Halted, ProcType
<1>3. /\ Halted(procs[p], report) \in ProcType
      /\ Halted(procs[p], report).life = "stopped"
      /\ Halted(procs[p], report).report = report
      /\ Halted(procs[p], report).traced = procs[p].traced
      /\ Halted(procs[p], report).options = procs[p].options
      /\ Halted(procs[p], report).forks = procs[p].forks
      /\ Halted(procs[p], report).execs = procs[p].execs
  BY <1>1 DEF Halted, ProcType, Lives
<1> QED BY <1>2, <1>3

\* The main process ends its set-up with its first exec.
LEMMA FirstExecGood ==
    ASSUME IInv, NEW p \in Pids, FirstExec(p)
    PROVE  IInv'
<1>1. procs[p].life = "setup" /\ procs' = Stops(p, "trap") /\ followed' = followed
  BY DEF FirstExec
<1>2. /\ p = followed.pid /\ followed.state = "spawned" /\ followed.trace = "new"
      /\ procs[p].traced /\ procs[p].forks = 0 /\ followed.forks = 0
      /\ ~Forking(followed, procs)
  BY <1>1, WhoRuns
<1> DEFINE r == Halted(procs[p], "trap")
<1>3. /\ procs' = [procs EXCEPT ![p] = r] /\ r \in ProcType /\ r.life = "stopped"
      /\ r.report = "trap" /\ r.traced /\ r.forks = 0
  BY <1>1, <1>2, Stopping DEF Reports
<1> HIDE DEF r
<1>4. Known(followed, r)
  BY <1>2, <1>3 DEF Known
<1> QED BY <1>1, <1>2, <1>3, <1>4, FollowedChange

\* A signal stops the process that is traced.
LEMMA SignalGood ==
    ASSUME IInv, ~EarlySignals, NEW p \in Pids, Signal(p)
    PROVE  IInv'
<1>1. /\ procs[p].life = "runs" /\ procs[p].traced
      /\ procs' = Stops(p, "signal") /\ followed' = followed
  BY DEF Signal
<1>2. /\ p = followed.pid /\ followed.state = "spawned" /\ followed.trace = "normal"
      /\ procs[p].options /\ procs[p].forks = followed.forks /\ ~Forking(followed, procs)
  BY <1>1, WhoRuns
<1> DEFINE r == Halted(procs[p], "signal")
<1>3. /\ procs' = [procs EXCEPT ![p] = r] /\ r \in ProcType /\ r.life = "stopped"
      /\ r.report = "signal" /\ r.traced /\ r.options /\ r.forks = followed.forks
  BY <1>1, <1>2, Stopping DEF Reports
<1> HIDE DEF r
<1>4. Known(followed, r)
  BY <1>2, <1>3 DEF Known
<1> QED BY <1>1, <1>2, <1>3, <1>4, FollowedChange

\* The new child of the followed process stops, before or after its parent's
\* fork has been read of.
LEMMA NewStopsGood ==
    ASSUME IInv, NEW p \in Pids, NewStops(p)
    PROVE  IInv'
<1> DEFINE r == Halted(procs[p], "stop")
<1>1. /\ procs[p].life = "new" /\ procs' = [procs EXCEPT ![p] = r] /\ followed' = followed
      /\ r \in ProcType /\ r.life = "stopped" /\ r.report = "stop"
      /\ r.traced = procs[p].traced /\ r.options = procs[p].options
      /\ r.forks = procs[p].forks
  BY Stopping DEF NewStops, Reports
<1> HIDE DEF r
<1>2. /\ followed \in JobType /\ procs \in [Pids -> ProcType] /\ followed.pid \in Pids
      /\ followed.state \in {"spawned", "running", "ended"}
      /\ followed.trace \in {"new", "normal", "new child", "none"}
      /\ Known(followed, procs[followed.pid])
  BY DEF IInv, Good, JobType
<1>3. CASE p = followed.pid
  <2>1. /\ followed.state = "spawned" /\ followed.trace = "new child" /\ procs[p].report = "none"
        /\ procs[p].traced /\ procs[p].options /\ procs[p].forks = followed.forks + 1
    BY <1>1, <1>2, <1>3 DEF Known, Dying, Alone
  <2>2. Known(followed, r)
    BY <1>1, <2>1 DEF Known
  <2>3. ~Forking(followed, procs)
    BY <1>3, <2>1 DEF Forking
  <2> QED BY <1>1, <1>3, <2>2, <2>3, FollowedChange
<1>4. CASE p # followed.pid
  <2>1. /\ Forking(followed, procs) /\ p = procs[followed.pid].child
        /\ Pending(procs[p], procs[followed.pid])
    BY <1>1, <1>4 DEF IInv, Good, Alone
  <2>2. Pending(r, procs[followed.pid])
    BY <1>1, <2>1 DEF Pending
  <2>3. /\ procs' \in [Pids -> ProcType] /\ procs'[p] = r
        /\ \A q \in Pids \ {p} : procs'[q] = procs[q]
    BY <1>1, <1>2
  <2>4. procs'[followed.pid] = procs[followed.pid]
    BY <1>2, <1>4, <2>3
  <2>5. Forking(followed, procs')
    BY <2>1, <2>4 DEF Forking
  <2> QED BY <1>1, <1>2, <1>4, <2>1, <2>2, <2>3, <2>4, <2>5 DEF IInv, Good
<1> QED BY <1>3, <1>4

\* A process executes another program.
LEMMA ExecGood ==
    ASSUME IInv, NEW p \in Pids, Exec(p)
    PROVE  IInv'
<1>1. /\ procs[p].life = "runs" /\ procs[p].execs < 1 /\ followed' = followed
      /\ procs' = [IF procs[p].options THEN Stops(p, "exec") ELSE procs EXCEPT ![p].execs = @ + 1]
  BY DEF Exec
<1>2. /\ procs \in [Pids -> ProcType] /\ procs[p] \in ProcType /\ procs[p].execs \in 0 .. 1
  BY WhoRuns DEF ProcType
<1>3. procs[p].execs = 0
  BY <1>1, <1>2
<1>4. CASE procs[p].options
  <2> DEFINE h == Halted(procs[p], "exec")
             r == [h EXCEPT !.execs = 1]
  <2>1. /\ Stops(p, "exec") = [procs EXCEPT ![p] = h] /\ h \in ProcType /\ h.execs = 0
        /\ h.life = "stopped" /\ h.report = "exec" /\ h.traced = procs[p].traced
        /\ h.options /\ h.forks = procs[p].forks
    BY <1>3, <1>4, Stopping DEF Reports
  <2> HIDE DEF h
  <2>2. procs' = [procs EXCEPT ![p] = r]
    <3>1. procs' = [Stops(p, "exec") EXCEPT ![p].execs = @ + 1]
      BY <1>1, <1>4
    <3>2. procs' = [procs EXCEPT ![p] = [h EXCEPT !.execs = @ + 1]]
      BY <1>2, <2>1, <3>1
    <3> QED BY <2>1, <3>2 DEF ProcType
  <2>3. /\ r \in ProcType /\ r.execs = 1 /\ r.life = "stopped" /\ r.report = "exec"
        /\ r.traced = procs[p].traced /\ r.options /\ r.forks = procs[p].forks
    BY <2>1 DEF ProcType
  <2> HIDE DEF r
  <2>4. /\ procs[p].traced /\ p = followed.pid /\ followed.state = "spawned"
        /\ followed.trace = "normal" /\ procs[p].forks = followed.forks
        /\ ~Forking(followed, procs)
    BY <1>1, <1>4, WhoRuns DEF Alone
  <2>5. Known(followed, r)
    BY <2>3, <2>4 DEF Known
  <2> QED BY <1>1, <2>2, <2>3, <2>4, <2>5, FollowedChange
<1>5. CASE ~procs[p].options
  <2> DEFINE r == [procs[p] EXCEPT !.execs = 1]
  <2>1. procs' = [procs EXCEPT ![p] = r]
    <3>1. procs' = [procs EXCEPT ![p].execs = @ + 1]
      BY <1>1, <1>5
    <3>2. procs' = [procs EXCEPT ![p] = [procs[p] EXCEPT !.execs = @ + 1]]
      BY <1>2, <3>1
    <3> QED BY <1>2, <1>3, <3>2 DEF ProcType
  <2>2. /\ r \in ProcType /\ r.execs = 1 /\ r.life = "runs" /\ r.report = procs[p].report
        /\ r.traced = procs[p].traced /\ r.options = procs[p].options
        /\ r.forks = procs[p].forks
    BY <1>1, <1>2 DEF ProcType
  <2> HIDE DEF r
  <2>3. ~procs[p].traced /\ Alone(procs[p]) /\ (p = followed.pid => followed.state = "running")
    BY <1>1, <1>5, WhoRuns
  <2>4. Alone(r) /\ r.report # "fork"
    BY <1>1, <2>2, <2>3 DEF Alone
  <2>5. CASE p = followed.pid
    <3>1. Known(followed, procs[p]) /\ ~Forking(followed, procs)
      BY <2>3, <2>5 DEF IInv, Good, Forking
    <3>3. procs[p].forks = (IF followed.expect = "fork" THEN 1 ELSE 2)
      <4>1. ~(procs[p].execs > 0)
        BY <1>3
      <4>2. followed.state = "running" /\ procs[p].life # "none"
        BY <1>1, <2>3, <2>5
      <4> QED BY <3>1, <4>1, <4>2 DEF Known
    <3>2. Known(followed, r)
      BY <2>2, <2>3, <2>4, <2>5, <3>3 DEF Known
    <3> QED BY <1>1, <2>1, <2>2, <2>4, <2>5, <3>1, <3>2, FollowedChange
  <2>6. CASE p # followed.pid
    BY <1>1, <2>1, <2>2, <2>3, <2>4, <2>6, OtherChange
  <2> QED BY <2>5, <2>6
<1> QED BY <1>4, <1>5

\* A process ends by itself.
LEMMA ExitsGood ==
    ASSUME IInv, ~StoppedDie, NEW p \in Pids, Exit(p)
    PROVE  IInv'
<1> DEFINE r == [procs[p] EXCEPT !.life = "dead", !.report = "exit"]
<1>1. procs[p].life \in {"setup", "runs"} /\ followed' = followed
  BY DEF Exit
<1>2. procs \in [Pids -> ProcType] /\ procs[p] \in ProcType
  BY WhoRuns
<1>3. procs' = [procs EXCEPT ![p] = r]
  BY <1>2 DEF Exit, ProcType
<1>4. /\ r \in ProcType /\ r.life = "dead" /\ r.report = "exit" /\ r.traced = procs[p].traced
      /\ r.options = procs[p].options /\ r.forks = procs[p].forks /\ r.execs = procs[p].execs
  BY <1>2 DEF ProcType, Lives, Reports
<1> HIDE DEF r
<1>5. CASE p = followed.pid
  <2>1. ~Forking(followed, procs) /\ Known(followed, procs[p])
    BY <1>1, <1>5, WhoRuns DEF IInv, Good
  <2>2. \/ followed.state = "spawned" /\ followed.trace \in {"new", "normal"}
        \/ followed.state = "running" /\ Alone(procs[p])
    BY <1>1, <1>2, <1>5, WhoRuns DEF ProcType
  <2>3. Alone(procs[p]) => Alone(r)
    BY <1>4 DEF Alone
  <2>4. Known(followed, r)
    BY <1>4, <2>1, <2>2, <2>3 DEF Known, Dying
  <2> QED BY <1>1, <1>3, <1>4, <1>5, <2>1, <2>4, FollowedChange
<1>6. CASE p # followed.pid
  <2>1. Alone(procs[p]) /\ procs[p].life = "runs"
    BY <1>1, <1>6, WhoRuns
  <2>2. Alone(r)
    BY <1>4, <2>1 DEF Alone
  <2> QED BY <1>1, <1>3, <1>4, <1>6, <2>1, <2>2, OtherChange
<1> QED BY <1>5, <1>6

\* A place in the table of processes that no process has.
LEMMA UnusedType ==
    /\ Unused \in ProcType /\ Alone(Unused)
    /\ Unused.report = "none" /\ Unused.forks = 0 /\ Unused.life = "none"
BY DEF ProcType, Lives, Reports, Unused, Alone

\* A process forks.  Of the followed one both halves stop; any other child runs
\* free like its parent.
LEMMA ForkGood ==
    ASSUME IInv, NEW p \in Pids, Fork(p)
    PROVE  IInv'
<1> DEFINE traced == procs[p].traced
           parent(c) == IF traced THEN [procs[p] EXCEPT !.life = "stopped", !.report = "fork",
                                                        !.child = c]
                        ELSE procs[p]
           child == [Unused EXCEPT !.life = IF traced THEN "new" ELSE "runs",
                                   !.traced = traced,
                                   !.options = procs[p].options,
                                   !.forks = procs[p].forks + 1]
<1>1. /\ procs[p].life = "runs" /\ procs[p].forks < 2 /\ followed' = followed
      /\ procs \in [Pids -> ProcType] /\ procs[p] \in ProcType
      /\ followed \in JobType /\ followed.pid \in Pids
  BY WhoRuns DEF Fork
<1>2. PICK c \in Pids : /\ procs[c].life = "none"
                        /\ procs' = [procs EXCEPT ![p] = parent(c), ![c] = child]
  BY DEF Fork
<1>3. c # p /\ c # followed.pid /\ Alone(procs[c])
  BY <1>1, <1>2, WhoRuns
<1>4. /\ procs[p].forks \in 0 .. 2 /\ procs[p].traced \in BOOLEAN /\ procs[p].options \in BOOLEAN
  BY <1>1 DEF ProcType
<1>5. procs[p].forks + 1 \in 0 .. 2
  BY <1>1, <1>4
<1>6. /\ child \in ProcType /\ child.traced = traced /\ child.options = procs[p].options
      /\ child.forks = procs[p].forks + 1 /\ child.report = "none"
      /\ child.life = IF traced THEN "new" ELSE "runs"
  BY <1>4, <1>5, UnusedType, ZenonT(60) DEF ProcType, Lives, Reports
<1>7. parent(c) \in ProcType
  BY <1>1 DEF ProcType, Lives, Reports
<1>8. /\ procs' \in [Pids -> ProcType] /\ procs'[p] = parent(c) /\ procs'[c] = child
      /\ \A q \in Pids \ {p, c} : procs'[q] = procs[q]
  BY <1>1, <1>2, <1>3, <1>6, <1>7
<1> HIDE DEF child
<1>9. CASE traced
  <2>1. /\ p = followed.pid /\ followed.state = "spawned" /\ followed.trace = "normal"
        /\ procs[p].options /\ procs[p].forks = followed.forks /\ ~Forking(followed, procs)
    BY <1>1, <1>9, WhoRuns
  <2> DEFINE r == parent(c)
  <2>2. /\ r.life = "stopped" /\ r.report = "fork" /\ r.child = c /\ r.forks = procs[p].forks
        /\ r.traced /\ r.options
    BY <1>1, <1>9, <2>1 DEF ProcType
  <2> HIDE DEF r
  <2>3. Pending(child, r)
    BY <1>6, <1>9, <2>1, <2>2 DEF Pending
  <2>4. procs'[p] = r
    BY <1>8 DEF r
  <2>5. Forking(followed, procs')
    BY <2>1, <2>2, <2>4 DEF Forking
  <2>6. Known(followed, r)
    BY <2>1, <2>2 DEF Known
  <2>7. /\ \A q \in Pids \ {p} : Alone(procs[q])
        /\ followed.forks <= 1 /\ (followed.expect = "fork" => followed.forks = 0)
    BY <2>1 DEF IInv, Good
  <2>8. \A q \in Pids \ {p} : Alone(procs'[q]) \/ q = c
    BY <1>8, <2>7
  <2> HIDE DEF traced
  <2>9. Good(followed, procs')
    BY <1>1, <1>3, <1>8, <2>1, <2>2, <2>3, <2>4, <2>5, <2>6, <2>7, <2>8 DEF Good
  <2> QED BY <1>1, <2>9 DEF IInv
<1>10. CASE ~traced
  <2>1. Alone(procs[p])
    BY <1>1, <1>10, WhoRuns
  <2>2. Alone(child)
    BY <1>6, <1>10, <2>1 DEF Alone
  <2>3. procs' = [procs EXCEPT ![c] = child]
    BY <1>1, <1>2, <1>10
  <2> QED BY <1>1, <1>2, <1>3, <1>6, <2>2, <2>3, OtherChange
<1> QED BY <1>9, <1>10

-----------------------------------------------------------------------------
\* What is known of the processes at first and after every step, when init is
\* told of the first stop before any signal and stopped processes are not killed.
LEMMA Following ==
    ASSUME ~EarlySignals, ~StoppedDie
    PROVE  TraceSpec => []IInv
<1>1. TraceInit => IInv
  <2> SUFFICES ASSUME TraceInit PROVE IInv
    OBVIOUS
  <2> DEFINE main == [Unused EXCEPT !.life = "setup", !.traced = TRUE]
  <2>1. /\ followed \in JobType /\ followed.pid = 1 /\ followed.state = "spawned"
        /\ followed.trace = "new" /\ followed.forks = 0
    <3>1. 0 \in 0 .. 2
      OBVIOUS
    <3>2. followed \in [expect : {"fork", "daemon"}, state : {"spawned"}, pid : {1},
                        trace : {"new"}, forks : {0}]
      BY DEF TraceInit
    <3>3. /\ followed.state = "spawned" /\ followed.pid = 1 /\ followed.trace = "new"
          /\ followed.forks = 0 /\ followed.expect \in {"fork", "daemon"}
      BY <3>2
    <3>4. followed = [expect |-> followed.expect, state |-> followed.state,
                      pid |-> followed.pid, trace |-> followed.trace,
                      forks |-> followed.forks]
      BY <3>2
    <3>5. /\ followed.forks \in 0 .. 2 /\ followed.pid \in Pids
          /\ followed.state \in {"spawned", "running", "ended"}
          /\ followed.trace \in {"new", "normal", "new child", "none"}
      BY <3>1, <3>3, MainAssumption
    <3>6. followed \in JobType
      BY <3>3, <3>4, <3>5 DEF JobType
    <3> QED BY <3>3, <3>6
  <2>2. /\ main \in ProcType /\ main.life = "setup" /\ main.traced /\ main.forks = 0
        /\ main.report = "none"
    BY UnusedType DEF ProcType, Lives, Reports
  <2>3. Unused \in ProcType /\ Alone(Unused)
    BY UnusedType
  <2>4. procs = [p \in Pids |-> IF p = 1 THEN main ELSE Unused]
    BY DEF TraceInit
  <2> HIDE DEF main
  <2>5. /\ procs \in [Pids -> ProcType] /\ procs[1] = main
        /\ \A q \in Pids \ {1} : procs[q] = Unused
    BY <2>2, <2>3, <2>4, MainAssumption
  <2>6. Known(followed, main) /\ ~Forking(followed, procs)
    BY <2>1, <2>2, <2>5 DEF Known, Forking
  <2> QED BY <2>1, <2>3, <2>5, <2>6 DEF IInv, Good
<1>2. IInv /\ [TraceNext]_traceVars => IInv'
  <2> SUFFICES ASSUME IInv, [TraceNext]_traceVars PROVE IInv'
    OBVIOUS
  <2>1. CASE UNCHANGED traceVars
    BY <2>1 DEF traceVars, IInv
  <2>2. ASSUME NEW p \in Pids, Handler(p) PROVE IInv'
    BY <2>2, HandlerGood
  <2>3. ASSUME NEW p \in Pids, FirstExec(p) PROVE IInv'
    BY <2>3, FirstExecGood
  <2>4. ASSUME NEW p \in Pids, Fork(p) PROVE IInv'
    BY <2>4, ForkGood
  <2>5. ASSUME NEW p \in Pids, NewStops(p) PROVE IInv'
    BY <2>5, NewStopsGood
  <2>6. ASSUME NEW p \in Pids, Exec(p) PROVE IInv'
    BY <2>6, ExecGood
  <2>7. ASSUME NEW p \in Pids, Signal(p) PROVE IInv'
    BY <2>7, SignalGood
  <2>8. ASSUME NEW p \in Pids, Exit(p) PROVE IInv'
    BY <2>8, ExitsGood
  <2> QED BY <2>1, <2>2, <2>3, <2>4, <2>5, <2>6, <2>7, <2>8 DEF TraceNext
<1> QED BY <1>1, <1>2, PTL DEF TraceSpec

\* However many processes there are and in whatever order their reports are
\* read, job_process_trace_new_child() and job_process_trace_exec() leave the
\* job with the process that made the last expected fork, free of the trace.
THEOREM FollowsRightProcess ==
    ASSUME ~EarlySignals, ~StoppedDie
    PROVE  TraceSpec => []RightProcessFollowed
<1>1. IInv => RightProcessFollowed
  BY DEF IInv, Good, Known, Alone, RightProcessFollowed
<1> QED BY <1>1, Following, PTL

\* However many processes there are and in whatever order their reports are
\* read, job_process_handler() leaves none of them stopped for ever.
THEOREM LeavesNoneStopped ==
    ASSUME ~EarlySignals, ~StoppedDie
    PROVE  TraceSpec => []NoneLeftStopped
<1>1. IInv => NoneLeftStopped
  <2> SUFFICES ASSUME IInv, NEW p \in Pids, procs[p].life = "stopped"
               PROVE  \/ p = followed.pid /\ procs[p].report # "none"
                      \/ procs[followed.pid].child = p /\ procs[followed.pid].report = "fork"
                         /\ followed.state = "spawned"
    BY DEF NoneLeftStopped
  <2>1. CASE p = followed.pid
    <3>1. /\ followed.state \in {"spawned", "running", "ended"}
          /\ followed.trace \in {"new", "normal", "new child", "none"}
          /\ Known(followed, procs[p])
      BY <2>1 DEF IInv, Good, JobType
    <3> QED BY <2>1, <3>1 DEF Known, Alone, Dying
  <2>2. CASE p # followed.pid
    BY <2>2 DEF IInv, Good, Alone, Forking
  <2> QED BY <2>1, <2>2
<1> QED BY <1>1, Following, PTL
=============================================================================
