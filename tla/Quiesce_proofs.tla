-------------------------- MODULE Quiesce_proofs --------------------------
(***************************************************************************)
(* Proofs about Quiesce, for any finite set of jobs, any timeouts and any  *)
(* order in which processes die and seconds end.                           *)
(***************************************************************************)
EXTENDS Quiesce, FiniteSetTheorems, WellFoundedInduction, TLAPS

Moves == {"starting", "stopping"}

JobType ==
    [state : {"waiting", "starting", "starting blocked", "running", "pre-stop", "stopping",
              "stopping blocked", "killed"},
     goal : {"start", "stop"}, pid : {"none", "alive", "dead"}, pre : {"none", "alive", "dead"},
     due : Nat, killed : BOOLEAN]

EventType ==
    [name : {"starting", "stopping", "stopped"}, job : Jobs] \cup {SessionEndEvent, Other}

QuiesceType ==
    [phase : {"not quiesced", "wait", "kill", "cleanup"},
     requester : {"none", "system", "session"},
     phase_time : Nat, start_time : Nat, max_kill_timeout : Nat, timer : Nat,
     finalising : BOOLEAN, exit : BOOLEAN]

Stages == {"sleep", "io", "child", "timer", "poll", "exited"}

Typed(r, js, es, c, st) ==
    /\ r \in QuiesceType
    /\ js \in [Jobs -> JobType]
    /\ es \in Seq(EventType)
    /\ c \in Nat \ {0}
    /\ st \in Stages

Once(es, e) ==
    \E i \in DOMAIN es : es[i] = e /\ \A k \in DOMAIN es : es[k] = e => k = i

Never(es, e) == \A k \in DOMAIN es : es[k] # e

\* The event that a job waits for is on the list, once, and no other of that job.
Awaits(es, j, state) ==
    \A n \in Moves :
        /\ state = n => Once(es, Event(n, j))
        /\ state # n => Never(es, Event(n, j))

Linked(js, es) == \A j \in Jobs : Awaits(es, j, js[j].state)

\* The same but for j, of which nothing is on the list.
Free(js, es, j) ==
    /\ \A k \in Jobs \ {j} : Awaits(es, k, js[k].state)
    /\ \A n \in Moves : Never(es, Event(n, j))

\* An event that a job waits for.
IsMove(e) == \E n \in Moves, j \in Jobs : e = Event(n, j)

\* The session-end event has not been put on the list.
NoNewEnd(es, gs) ==
    \A i \in DOMAIN gs : gs[i] = SessionEndEvent =>
        i \in DOMAIN es /\ es[i] = SessionEndEvent

\* What holds of a job at any time.
Consistent(b) ==
    /\ b.state = "waiting" => b.goal = "stop"
    /\ b.state = "running" => b.goal = "start"
    /\ b.state \in {"waiting", "starting", "starting blocked"} => b.pid = "none"
    /\ b.pre # "none" => b.state = "pre-stop"
    /\ b.due # 0 => b.state = "killed" /\ b.pid # "none"

\* A job that nothing delays is asked to leave in the turn in which a phase begins,
\* and its kill timer runs out before init gives up.
InTime(j, b, r, c, st) == j \in Prompt =>
    /\ b.pid # "none" => b.state \notin {"pre-stop", "stopping blocked"}
    /\ b.state = "stopping" /\ b.pid # "none" =>
         /\ r.phase # "not quiesced" /\ ~r.exit
         /\ c <= r.phase_time + 1
         /\ st # "poll" => c <= r.phase_time
    /\ b.state = "killed" /\ b.pid # "none" /\ ~b.killed =>
         /\ b.due # 0
         /\ b.due <= r.phase_time + 1 + KillTimeout[j]
         /\ r.exit => st = "timer" /\ b.due <= c
    /\ r.phase = "kill" /\ b.pid # "none" /\ b.state \in {"stopping", "killed"} =>
         KillTimeout[j] <= r.max_kill_timeout

Longest == Max({DefaultKill} \cup {KillTimeout[j] : j \in Jobs})

\* The phases and their timer.
Phases(r, c, st) ==
    /\ r.exit => r.finalising /\ r.phase = "cleanup"
    /\ ~r.exit => ~r.finalising /\ r.phase # "cleanup"
    /\ r.phase = "not quiesced" => r.timer = 0 /\ r.requester = "none"
    /\ r.start_time <= r.phase_time /\ r.phase_time <= c
    /\ r.phase = "wait" =>
         /\ r.phase_time = r.start_time
         /\ c <= r.timer /\ r.timer <= r.start_time + JobRuntime
    /\ r.phase = "kill" =>
         /\ r.phase_time <= r.start_time + JobRuntime
         /\ DefaultKill <= r.max_kill_timeout /\ r.max_kill_timeout <= Longest
         /\ c <= r.timer /\ r.timer <= r.phase_time + r.max_kill_timeout + 1
    /\ r.exit =>
         /\ st \in {"timer", "poll", "exited"}
         /\ st = "timer" => r.timer = 0 /\ c <= r.start_time + JobRuntime + Longest + 1
         /\ st = "poll" => c <= r.start_time + JobRuntime + Longest + 2
    /\ st = "exited" => r.exit

Sound(r, js, es, c, st) ==
    /\ Typed(r, js, es, c, st)
    /\ Linked(js, es)
    /\ \A j \in Jobs : Consistent(js[j])
    /\ \A j \in Jobs : InTime(j, js[j], r, c, st)
    /\ Phases(r, c, st)
    /\ st = "sleep" => es = <<>>

IInv == Sound(q, jobs, pending, clock, stage)

\* The session-end event is the first that is polled after the request.
Announced(r, es, c, st) ==
    /\ st = "io" /\ r.phase = "not quiesced" => es = <<>>
    /\ \A i \in DOMAIN es : es[i] = SessionEndEvent =>
         /\ i = 1
         /\ r.phase \in {"wait", "kill"}
         /\ st # "poll" => c < r.timer

AllStopped(js) == \A j \in SessionEnd : js[j].goal = "stop"

NoEnd(es) == \A i \in DOMAIN es : es[i] # SessionEndEvent

\* Session-end jobs have had their time, or none is left to have it.
Given(r, js, es, c) ==
    r.requester = "session" /\ SessionEnd # {} /\ r.phase \in {"kill", "cleanup"} =>
        \/ c >= r.start_time + JobRuntime
        \/ r.exit /\ AllStopped(js) /\ NoEnd(es)

Patient == Announced(q, pending, clock, stage) /\ Given(q, jobs, pending, clock)

\* No session-end job also starts on the starting or stopping event of a job.
NotHooked == \A k \in Jobs : Hooks[k] \cap SessionEnd = {}

-----------------------------------------------------------------------------
(* The longest timeout *)

\* Every set of numbers has a least one.
LEMMA HasLeast ==
    ASSUME NEW S \in SUBSET Nat, S # {}
    PROVE  \E m \in S : \A n \in S : m <= n
<1>1. IsWellFoundedOn(OpToRel(<, Nat), Nat)
    BY NatLessThanWellFounded
<1>2. PICK m \in S : \A n \in S : ~(<<n, m>> \in OpToRel(<, Nat))
    BY <1>1, WFMin
<1>3. ASSUME NEW n \in S PROVE m <= n
  <2>1. ~(<<n, m>> \in OpToRel(<, Nat))
      BY <1>2
  <2>2. ~(n < m)
      BY <2>1 DEF OpToRel
  <2> QED
      BY <2>2
<1> QED
    BY <1>3

\* A finite set of numbers has a greatest one: the one that the fewest exceed.
LEMMA MaxIsGreatest ==
    ASSUME NEW S \in SUBSET Nat, IsFiniteSet(S), S # {}
    PROVE  Max(S) \in S /\ \A y \in S : y <= Max(S)
<1> DEFINE Above(x) == {y \in S : y > x}
           counts == {Cardinality(Above(x)) : x \in S}
<1>1. ASSUME NEW x \in S
      PROVE  IsFiniteSet(Above(x)) /\ Cardinality(Above(x)) \in Nat
  <2>1. Above(x) \in SUBSET S
      OBVIOUS
  <2>2. IsFiniteSet(Above(x))
      BY <2>1, FS_Subset
  <2> QED
      BY <2>2, FS_CardinalityType
<1>2. counts \in SUBSET Nat /\ counts # {}
    BY <1>1
<1>3. PICK m \in counts : \A n \in counts : m <= n
    BY <1>2, HasLeast
<1>4. PICK x \in S : m = Cardinality(Above(x))
    OBVIOUS
<1>5. ASSUME NEW y \in S, y > x PROVE FALSE
  <2>1. Above(y) \in SUBSET Above(x)
    <3>1. \A z \in S : z > y => z > x
        BY <1>5
    <3> QED
        BY <3>1
  <2>2. y \in Above(x) /\ y \notin Above(y)
      BY <1>5
  <2>3. /\ Cardinality(Above(y)) <= Cardinality(Above(x))
        /\ Cardinality(Above(x)) = Cardinality(Above(y)) => Above(x) = Above(y)
      BY <1>1, <2>1, FS_Subset
  <2>4. Cardinality(Above(x)) <= Cardinality(Above(y))
      BY <1>3, <1>4
  <2>5. Cardinality(Above(x)) # Cardinality(Above(y))
      BY <2>2, <2>3
  <2>6. Cardinality(Above(x)) \in Nat /\ Cardinality(Above(y)) \in Nat
      BY <1>1
  <2> HIDE DEF Above
  <2> QED
      BY <2>3, <2>4, <2>5, <2>6
<1>6. \E z \in S : \A y \in S : z >= y
    BY <1>5
<1>7. Max(S) \in S /\ \A y \in S : Max(S) >= y
    BY <1>6 DEF Max
<1> QED
    BY <1>7

\* job_class_max_kill_timeout() bounds the timeout of every job that is there.
LEMMA KillTimeouts ==
    ASSUME Sane, NEW S \in SUBSET Jobs
    PROVE  LET m == Max({DefaultKill} \cup {KillTimeout[j] : j \in S})
           IN m \in Nat /\ DefaultKill <= m /\ (\A j \in S : KillTimeout[j] <= m)
              /\ (m = DefaultKill \/ \E j \in S : m = KillTimeout[j])
<1> DEFINE T == {KillTimeout[j] : j \in S}
           f == [j \in S |-> KillTimeout[j]]
           U == {DefaultKill} \cup T
<1>1. IsFiniteSet(S)
    BY FS_Subset DEF Sane
<1>2. f \in Surjection(S, T)
    BY DEF Surjection
<1>3. IsFiniteSet(T)
    BY <1>1, <1>2, FS_Surjection
<1>4. IsFiniteSet({DefaultKill})
    BY FS_Singleton
<1>5. IsFiniteSet(U)
    BY <1>3, <1>4, FS_Union
<1>6. U \in SUBSET Nat /\ U # {}
    BY DEF Sane
<1>7. Max(U) \in U /\ \A y \in U : y <= Max(U)
  <2> HIDE DEF U
  <2> QED
      BY <1>5, <1>6, MaxIsGreatest
<1> QED
    BY <1>6, <1>7

\* The timeouts that count, and those of all jobs.
LEMMA KillTimeoutBounds ==
    ASSUME Sane, NEW js
    PROVE  /\ Longest \in Nat
           /\ MaxKillTimeout(js) \in Nat
           /\ DefaultKill <= MaxKillTimeout(js)
           /\ MaxKillTimeout(js) <= Longest
           /\ \A j \in Jobs : HasInstance(js, j) => KillTimeout[j] <= MaxKillTimeout(js)
<1> DEFINE S == {i \in Jobs : HasInstance(js, i)}
           m == Max({DefaultKill} \cup {KillTimeout[j] : j \in S})
           n == Max({DefaultKill} \cup {KillTimeout[j] : j \in Jobs})
<1>1. MaxKillTimeout(js) = m /\ Longest = n
    BY DEF MaxKillTimeout, Longest
<1>2. m \in Nat /\ DefaultKill <= m /\ (\A j \in S : KillTimeout[j] <= m)
              /\ (m = DefaultKill \/ \E j \in S : m = KillTimeout[j])
  <2>1. S \in SUBSET Jobs
      OBVIOUS
  <2> HIDE DEF S
  <2> QED
      BY <2>1, KillTimeouts
<1>3. n \in Nat /\ DefaultKill <= n /\ (\A j \in Jobs : KillTimeout[j] <= n)
    BY KillTimeouts
<1>4. m <= n
  <2> HIDE DEF m, n
  <2> QED
      BY <1>2, <1>3
<1> HIDE DEF m, n
<1> QED
    BY <1>1, <1>2, <1>3, <1>4

-----------------------------------------------------------------------------
(* The list of events *)

\* An event put at the end of the list.
LEMMA AppendEvents ==
    ASSUME NEW E, NEW es \in Seq(E), NEW e \in E, NEW f
    PROVE  /\ Append(es, e) \in Seq(E)
           /\ f # e /\ Once(es, f) => Once(Append(es, e), f)
           /\ f # e /\ Never(es, f) => Never(Append(es, e), f)
           /\ Never(es, e) => Once(Append(es, e), e)
<1> DEFINE n == Len(es)
           es2 == Append(es, e)
<1>1. /\ es2 \in Seq(E) /\ n \in Nat
      /\ DOMAIN es = 1 .. n /\ DOMAIN es2 = 1 .. (n + 1)
      /\ \A i \in 1 .. n : es2[i] = es[i]
      /\ es2[n + 1] = e
    OBVIOUS
<1> HIDE DEF n, es2
<1>2. ASSUME f # e, Once(es, f) PROVE Once(es2, f)
  <2>1. PICK i \in 1 .. n : es[i] = f /\ \A k \in 1 .. n : es[k] = f => k = i
      BY <1>1, <1>2 DEF Once
  <2>2. \A k \in 1 .. (n + 1) : k \in 1 .. n \/ k = n + 1
      BY <1>1
  <2>3. i \in 1 .. (n + 1) /\ es2[i] = f
      BY <1>1, <2>1
  <2>4. \A k \in 1 .. (n + 1) : es2[k] = f => k = i
      BY <1>1, <1>2, <2>1, <2>2
  <2> QED
      BY <1>1, <2>3, <2>4 DEF Once
<1>3. ASSUME f # e, Never(es, f) PROVE Never(es2, f)
  <2>2. \A k \in 1 .. (n + 1) : k \in 1 .. n \/ k = n + 1
      BY <1>1
  <2> QED
      BY <1>1, <1>3, <2>2 DEF Never
<1>4. ASSUME Never(es, e) PROVE Once(es2, e)
  <2>2. \A k \in 1 .. (n + 1) : k \in 1 .. n \/ k = n + 1
      BY <1>1
  <2>3. n + 1 \in 1 .. (n + 1) /\ es2[n + 1] = e
      BY <1>1
  <2>4. \A k \in 1 .. (n + 1) : es2[k] = e => k = n + 1
      BY <1>1, <1>4, <2>2 DEF Never
  <2> QED
      BY <1>1, <2>3, <2>4 DEF Once
<1> QED
    BY <1>1, <1>2, <1>3, <1>4 DEF es2

\* The first event taken off the list.
LEMMA TailEvents ==
    ASSUME NEW E, NEW es \in Seq(E), es # <<>>, NEW f
    PROVE  /\ Tail(es) \in Seq(E) /\ Head(es) \in E
           /\ Head(es) = es[1] /\ 1 \in DOMAIN es
           /\ \A k \in DOMAIN Tail(es) : k + 1 \in DOMAIN es /\ Tail(es)[k] = es[k + 1] /\ k # 0
           /\ f # Head(es) /\ Once(es, f) => Once(Tail(es), f)
           /\ Never(es, f) => Never(Tail(es), f)
           /\ Once(es, Head(es)) => Never(Tail(es), Head(es))
<1> DEFINE n == Len(es)
           es2 == Tail(es)
           h == Head(es)
<1>1. /\ es2 \in Seq(E) /\ n \in Nat /\ n # 0 /\ h \in E
      /\ DOMAIN es = 1 .. n /\ DOMAIN es2 = 1 .. (n - 1)
      /\ \A i \in 1 .. (n - 1) : es2[i] = es[i + 1]
      /\ h = es[1]
    OBVIOUS
<1> HIDE DEF n, es2, h
<1>a. /\ \A k \in 1 .. (n - 1) : k + 1 \in 1 .. n /\ k # 0
      /\ 1 \in 1 .. n
    BY <1>1
<1>2. ASSUME f # h, Once(es, f) PROVE Once(es2, f)
  <2>1. PICK i \in 1 .. n : es[i] = f /\ \A k \in 1 .. n : es[k] = f => k = i
      BY <1>1, <1>2 DEF Once
  <2>2. i # 1
      BY <1>1, <1>2, <2>1
  <2>3. i - 1 \in 1 .. (n - 1) /\ (i - 1) + 1 = i
      BY <1>1, <2>2
  <2>4. es2[i - 1] = f
      BY <1>1, <2>1, <2>3
  <2>5. ASSUME NEW k \in 1 .. (n - 1), es2[k] = f PROVE k = i - 1
    <3>1. k + 1 = i
        BY <1>1, <1>a, <2>1, <2>5
    <3> QED
        BY <3>1
  <2> QED
      BY <1>1, <2>3, <2>4, <2>5 DEF Once
<1>3. ASSUME Never(es, f) PROVE Never(es2, f)
    BY <1>1, <1>a, <1>3 DEF Never
<1>4. ASSUME Once(es, h) PROVE Never(es2, h)
  <2>1. PICK i \in 1 .. n : es[i] = h /\ \A k \in 1 .. n : es[k] = h => k = i
      BY <1>1, <1>4 DEF Once
  <2>2. i = 1
      BY <1>1, <1>a, <2>1
  <2>3. ASSUME NEW k \in 1 .. (n - 1), es2[k] = h PROVE FALSE
    <3>1. k + 1 = 1
        BY <1>1, <1>a, <2>1, <2>2, <2>3
    <3> QED
        BY <3>1
  <2> QED
      BY <1>1, <2>3 DEF Never
<1> QED
    BY <1>1, <1>a, <1>2, <1>3, <1>4 DEF es2, h

\* The events of a loop over several jobs.
LEMMA EmittedEvents ==
    ASSUME Sane, NEW S \in SUBSET Jobs, NEW name \in {"starting", "stopping", "stopped"}
    PROVE  /\ Emitted(name, S) \in Seq(EventType)
           /\ \A i \in DOMAIN Emitted(name, S) :
                \E j \in S : Emitted(name, S)[i] = Event(name, j)
           /\ \A j \in S : Once(Emitted(name, S), Event(name, j))
<1> DEFINE n == Cardinality(S)
           o == SetToSeq(S)
           E == Emitted(name, S)
<1>1. IsFiniteSet(S)
    BY FS_Subset DEF Sane
<1>2. n \in Nat /\ ExistsBijection(1 .. n, S)
    BY <1>1, FS_CardinalityType
<1>3. PICK b \in [1 .. n -> S] : IsInjective(b)
    BY <1>2 DEF ExistsBijection, Bijection, Injection
<1>4. o \in [1 .. n -> S] /\ IsInjective(o)
    BY <1>3 DEF SetToSeq
<1>5. \A j \in S : \E i \in 1 .. n : o[i] = j
  <2>1. Cardinality(1 .. n) = n
      BY <1>2, FS_Interval
  <2>2. o \in Injection(1 .. n, S)
      BY <1>4 DEF Injection
  <2> HIDE DEF o
  <2>3. o \in Surjection(1 .. n, S)
      BY <1>1, <2>1, <2>2, FS_Injection
  <2> QED
      BY <2>3 DEF Surjection
<1>6. E = [i \in 1 .. n |-> Event(name, o[i])]
    BY <1>4 DEF Emitted
<1> HIDE DEF n, o, E
<1>7. \A j \in S : Event(name, j) \in EventType
    BY DEF Event, EventType
<1>8. E \in Seq(EventType) /\ DOMAIN E = 1 .. n
  <2>1. E \in [1 .. n -> EventType]
      BY <1>4, <1>6, <1>7
  <2> QED
      BY <1>2, <2>1, <1>6
<1>9. \A i \in 1 .. n : E[i] = Event(name, o[i]) /\ o[i] \in S
    BY <1>4, <1>6
<1>10. ASSUME NEW j \in S PROVE Once(E, Event(name, j))
  <2>1. PICK i \in 1 .. n : o[i] = j
      BY <1>5
  <2>2. ASSUME NEW k \in 1 .. n, E[k] = Event(name, j) PROVE k = i
    <3>1. Event(name, o[k]) = Event(name, j)
        BY <1>9, <2>2
    <3>2. Event(name, o[k]).job = o[k] /\ Event(name, j).job = j
        BY DEF Event
    <3>3. o[k] = j
        BY <3>1, <3>2
    <3> QED
        BY <1>4, <2>1, <3>3 DEF IsInjective
  <2> QED
      BY <1>8, <1>9, <2>1, <2>2 DEF Once
<1> QED
    BY <1>8, <1>9, <1>10 DEF E

\* The list with the events of a loop behind it.
LEMMA ConcatEvents ==
    ASSUME NEW E, NEW es \in Seq(E), NEW fs \in Seq(E), NEW f
    PROVE  /\ es \o fs \in Seq(E)
           /\ \A i \in DOMAIN (es \o fs) :
                \/ i \in DOMAIN es /\ (es \o fs)[i] = es[i]
                \/ \E k \in DOMAIN fs : (es \o fs)[i] = fs[k]
           /\ Once(es, f) /\ Never(fs, f) => Once(es \o fs, f)
           /\ Never(es, f) /\ Never(fs, f) => Never(es \o fs, f)
           /\ Never(es, f) /\ Once(fs, f) => Once(es \o fs, f)
<1> DEFINE n == Len(es)
           m == Len(fs)
           gs == es \o fs
<1>1. /\ gs \in Seq(E) /\ n \in Nat /\ m \in Nat
      /\ DOMAIN es = 1 .. n /\ DOMAIN fs = 1 .. m /\ DOMAIN gs = 1 .. (n + m)
      /\ \A i \in 1 .. (n + m) : gs[i] = IF i <= n THEN es[i] ELSE fs[i - n]
    OBVIOUS
<1> HIDE DEF n, m, gs
<1>2. \A i \in 1 .. (n + m) :
          \/ i \in 1 .. n /\ gs[i] = es[i]
          \/ i - n \in 1 .. m /\ gs[i] = fs[i - n] /\ i \notin 1 .. n
    BY <1>1
<1>3. \A i \in 1 .. n : i \in 1 .. (n + m) /\ gs[i] = es[i]
    BY <1>1
<1>4. \A k \in 1 .. m : /\ n + k \in 1 .. (n + m) /\ gs[n + k] = fs[k]
                        /\ (n + k) - n = k
  <2> TAKE k \in 1 .. m
  <2>1. n + k \in 1 .. (n + m) /\ ~(n + k <= n) /\ (n + k) - n = k
      BY <1>1
  <2> QED
      BY <1>1, <2>1
<1>5. ASSUME Once(es, f), Never(fs, f) PROVE Once(gs, f)
  <2>1. PICK i \in 1 .. n : es[i] = f /\ \A k \in 1 .. n : es[k] = f => k = i
      BY <1>1, <1>5 DEF Once
  <2>2. i \in 1 .. (n + m) /\ gs[i] = f
      BY <1>3, <2>1
  <2>3. \A k \in 1 .. (n + m) : gs[k] = f => k = i
      BY <1>1, <1>2, <1>5, <2>1 DEF Never
  <2> QED
      BY <1>1, <2>2, <2>3 DEF Once
<1>6. ASSUME Never(es, f), Never(fs, f) PROVE Never(gs, f)
    BY <1>1, <1>2, <1>6 DEF Never
<1>7. ASSUME Never(es, f), Once(fs, f) PROVE Once(gs, f)
  <2>1. PICK i \in 1 .. m : fs[i] = f /\ \A k \in 1 .. m : fs[k] = f => k = i
      BY <1>1, <1>7 DEF Once
  <2>2. n + i \in 1 .. (n + m) /\ gs[n + i] = f
      BY <1>4, <2>1
  <2>3. ASSUME NEW k \in 1 .. (n + m), gs[k] = f PROVE k = n + i
    <3>1. k - n \in 1 .. m /\ fs[k - n] = f
        BY <1>1, <1>2, <1>7, <2>3 DEF Never
    <3>2. k - n = i
        BY <2>1, <3>1
    <3> QED
        BY <1>1, <3>2
  <2> QED
      BY <1>1, <2>2, <2>3 DEF Once
<1> QED
    BY <1>1, <1>2, <1>5, <1>6, <1>7 DEF gs

\* The events of a loop wait behind those that were there: every job of the loop
\* has one more, the other jobs none.
LEMMA EmitAll ==
    ASSUME Sane, NEW S \in SUBSET Jobs, NEW name \in Moves,
           NEW es \in Seq(EventType), NEW gs, gs = es \o Emitted(name, S),
           NEW j \in Jobs
    PROVE  /\ gs \in Seq(EventType)
           /\ NoNewEnd(es, gs)
           /\ j \in S /\ Never(es, Event(name, j)) => Once(gs, Event(name, j))
           /\ \A n \in Moves : n # name \/ j \notin S =>
                /\ Once(es, Event(n, j)) => Once(gs, Event(n, j))
                /\ Never(es, Event(n, j)) => Never(gs, Event(n, j))
<1> DEFINE fs == Emitted(name, S)
<1>1. /\ fs \in Seq(EventType)
      /\ \A i \in DOMAIN fs : \E k \in S : fs[i] = Event(name, k)
      /\ \A k \in S : Once(fs, Event(name, k))
    BY EmittedEvents DEF Moves
<1>2. gs = es \o fs
    OBVIOUS
<1> HIDE DEF fs
<1>3. \A f : /\ gs \in Seq(EventType)
             /\ \A i \in DOMAIN gs :
                    \/ i \in DOMAIN es /\ gs[i] = es[i]
                    \/ \E k \in DOMAIN fs : gs[i] = fs[k]
             /\ Once(es, f) /\ Never(fs, f) => Once(gs, f)
             /\ Never(es, f) /\ Never(fs, f) => Never(gs, f)
             /\ Never(es, f) /\ Once(fs, f) => Once(gs, f)
    BY <1>1, <1>2, ConcatEvents
<1>4. \A k \in S : Event(name, k) # SessionEndEvent
    BY DEF Event, SessionEndEvent, Moves
<1>5. \A i \in DOMAIN fs : fs[i] # SessionEndEvent
    BY <1>1, <1>4
<1>6. ASSUME NEW n \in Moves, n # name \/ j \notin S
      PROVE  Never(fs, Event(n, j))
  <2>1. \A k \in S : Event(name, k) # Event(n, j)
      BY <1>6 DEF Event
  <2> QED
      BY <1>1, <2>1 DEF Never
<1>7. NoNewEnd(es, gs)
    BY <1>3, <1>5 DEF NoNewEnd
<1> QED
    BY <1>1, <1>3, <1>6, <1>7

\* Events of different jobs or names differ.
LEMMA EventsDiffer ==
    ASSUME NEW n \in Moves, NEW m \in Moves, NEW j \in Jobs, NEW k \in Jobs
    PROVE  /\ Event(n, j) = Event(m, k) => n = m /\ j = k
           /\ Event(n, j) \in EventType
           /\ Event(n, j) # SessionEndEvent /\ Event(n, j) # Other
           /\ Event(n, j) # Event("stopped", k)
           /\ Event(n, j).name = n /\ Event(n, j).job = j
<1>1. /\ Event(n, j).name = n /\ Event(n, j).job = j
      /\ Event(m, k).name = m /\ Event(m, k).job = k
      /\ Event("stopped", k).name = "stopped"
      /\ SessionEndEvent.name = "session-end" /\ Other.name = "other"
    BY DEF Event, SessionEndEvent, Other
<1>2. n \in {"starting", "stopping"}
    BY DEF Moves
<1>3. Event(n, j) \in EventType
    BY <1>2 DEF Event, EventType
<1>4. n # "stopped" /\ n # "session-end" /\ n # "other"
    BY <1>2
<1> QED
    BY <1>1, <1>3, <1>4

\* A job that waits for nothing has nothing on the list.
LEMMA FreeAtRest ==
    ASSUME NEW js, NEW es, NEW j \in Jobs, Linked(js, es), js[j].state \notin Moves
    PROVE  Free(js, es, j)
    BY DEF Linked, Free, Awaits

\* The job whose event is taken off the list waited for it, and has no other.
LEMMA FreeHead ==
    ASSUME NEW js, NEW es \in Seq(EventType), es # <<>>, NEW j \in Jobs, NEW n \in Moves,
           Linked(js, es), Head(es) = Event(n, j)
    PROVE  js[j].state = n /\ Free(js, Tail(es), j)
<1>1. \A f : /\ Head(es) = es[1] /\ 1 \in DOMAIN es
             /\ f # Head(es) /\ Once(es, f) => Once(Tail(es), f)
             /\ Never(es, f) => Never(Tail(es), f)
             /\ Once(es, Head(es)) => Never(Tail(es), Head(es))
    BY TailEvents
<1>2. js[j].state = n
  <2>1. ~Never(es, Event(n, j))
      BY <1>1 DEF Never
  <2> QED
      BY <2>1 DEF Linked, Awaits
<1>3. ASSUME NEW k \in Jobs \ {j} PROVE Awaits(Tail(es), k, js[k].state)
  <2>1. \A m \in Moves : Event(m, k) # Event(n, j)
      BY <1>3, EventsDiffer
  <2>2. Awaits(es, k, js[k].state)
      BY DEF Linked
  <2> QED
      BY <1>1, <2>1, <2>2 DEF Awaits
<1>4. ASSUME NEW m \in Moves PROVE Never(Tail(es), Event(m, j))
  <2>1. Awaits(es, j, n)
      BY <1>2 DEF Linked
  <2>2. CASE m = n
      BY <1>1, <2>1, <2>2 DEF Awaits
  <2>3. CASE m # n
      BY <1>1, <2>1, <2>3 DEF Awaits
  <2> QED
      BY <2>2, <2>3
<1> QED
    BY <1>2, <1>3, <1>4 DEF Free

\* Taking another event off the list concerns nobody.
LEMMA TailLinked ==
    ASSUME NEW js, NEW es \in Seq(EventType), es # <<>>,
           Linked(js, es), ~IsMove(Head(es))
    PROVE  Linked(js, Tail(es))
<1>1. \A f : /\ f # Head(es) /\ Once(es, f) => Once(Tail(es), f)
             /\ Never(es, f) => Never(Tail(es), f)
    BY TailEvents
<1>2. \A n \in Moves, j \in Jobs : Event(n, j) # Head(es)
    BY DEF IsMove
<1> QED
    BY <1>1, <1>2 DEF Linked, Awaits

\* Nor does putting it there.
LEMMA AppendLinked ==
    ASSUME NEW js, NEW es \in Seq(EventType), NEW e \in EventType,
           Linked(js, es), ~IsMove(e)
    PROVE  Linked(js, Append(es, e))
<1>1. \A f : /\ f # e /\ Once(es, f) => Once(Append(es, e), f)
             /\ f # e /\ Never(es, f) => Never(Append(es, e), f)
    BY AppendEvents
<1>2. \A n \in Moves, j \in Jobs : Event(n, j) # e
    BY DEF IsMove
<1> QED
    BY <1>1, <1>2 DEF Linked, Awaits

\* A job that comes to wait for its event.
LEMMA PlaceMove ==
    ASSUME NEW js \in [Jobs -> JobType], NEW es \in Seq(EventType), NEW j \in Jobs,
           Free(js, es, j), NEW b \in JobType, b.state \in Moves
    PROVE  /\ Append(es, Event(b.state, j)) \in Seq(EventType)
           /\ Linked([js EXCEPT ![j] = b], Append(es, Event(b.state, j)))
<1> DEFINE n == b.state
           e == Event(n, j)
           gs == Append(es, e)
           ks == [js EXCEPT ![j] = b]
<1>1. n \in Moves /\ e \in EventType
    BY EventsDiffer
<1>2. \A f : /\ gs \in Seq(EventType)
             /\ f # e /\ Once(es, f) => Once(gs, f)
             /\ f # e /\ Never(es, f) => Never(gs, f)
             /\ Never(es, e) => Once(gs, e)
  <2> HIDE DEF e
  <2> QED
      BY <1>1, AppendEvents
<1>3. ks[j] = b /\ \A k \in Jobs \ {j} : ks[k] = js[k]
    OBVIOUS
<1>4. \A m \in Moves, k \in Jobs : Event(m, k) = e => m = n /\ k = j
    BY <1>1, EventsDiffer
<1> HIDE DEF ks, gs, e
<1>5. ASSUME NEW k \in Jobs \ {j} PROVE Awaits(gs, k, ks[k].state)
    BY <1>2, <1>3, <1>4 DEF Awaits, Free
<1>6. Awaits(gs, j, n)
  <2>1. ASSUME NEW m \in Moves PROVE (n = m => Once(gs, Event(m, j))) /\ (n # m => Never(gs, Event(m, j)))
      BY <1>2, <1>4 DEF Free, e
  <2> QED
      BY <2>1 DEF Awaits
<1> QED
    BY <1>2, <1>3, <1>5, <1>6 DEF Linked, gs, ks, e

\* A job that comes to wait for nothing.
LEMMA PlaceRest ==
    ASSUME NEW js \in [Jobs -> JobType], NEW es, NEW j \in Jobs,
           Free(js, es, j), NEW b \in JobType, b.state \notin Moves
    PROVE  Linked([js EXCEPT ![j] = b], es)
<1> DEFINE ks == [js EXCEPT ![j] = b]
<1>1. ks[j] = b /\ \A k \in Jobs \ {j} : ks[k] = js[k]
    OBVIOUS
<1> HIDE DEF ks
<1>2. ASSUME NEW k \in Jobs \ {j} PROVE Awaits(es, k, ks[k].state)
    BY <1>1 DEF Free
<1>3. Awaits(es, j, b.state)
    BY DEF Awaits, Free
<1> QED
    BY <1>1, <1>2, <1>3 DEF Linked, ks

\* A job that goes on waiting.
LEMMA PlaceSame ==
    ASSUME NEW js \in [Jobs -> JobType], NEW es, NEW j \in Jobs,
           Linked(js, es), NEW b \in JobType, b.state = js[j].state
    PROVE  Linked([js EXCEPT ![j] = b], es)
<1> DEFINE ks == [js EXCEPT ![j] = b]
<1>1. ks[j] = b /\ \A k \in Jobs \ {j} : ks[k] = js[k]
    OBVIOUS
<1>2. \A k \in Jobs : ks[k].state = js[k].state
    BY <1>1
<1> HIDE DEF ks
<1> QED
    BY <1>2 DEF Linked, ks
-----------------------------------------------------------------------------
(* One job, and the turn of the main loop *)

\* What is sound but for the list.
Apart(r, js, c, st) ==
    /\ r \in QuiesceType /\ js \in [Jobs -> JobType] /\ c \in Nat \ {0} /\ st \in Stages
    /\ \A j \in Jobs : Consistent(js[j])
    /\ \A j \in Jobs : InTime(j, js[j], r, c, st)
    /\ Phases(r, c, st)

\* A callback that changes one job, and comes to a list that fits.
LEMMA OneJobApart ==
    ASSUME NEW r, NEW js, NEW c, NEW st, Apart(r, js, c, st),
           NEW j \in Jobs, NEW b \in JobType, NEW gs \in Seq(EventType),
           Linked([js EXCEPT ![j] = b], gs), Consistent(b), InTime(j, b, r, c, st),
           st # "sleep"
    PROVE  Sound(r, [js EXCEPT ![j] = b], gs, c, st)
<1> DEFINE ks == [js EXCEPT ![j] = b]
<1>1. js \in [Jobs -> JobType]
    BY DEF Apart
<1>2. ks \in [Jobs -> JobType] /\ ks[j] = b /\ \A k \in Jobs \ {j} : ks[k] = js[k]
    BY <1>1
<1>3. Linked(ks, gs)
    OBVIOUS
<1> HIDE DEF ks
<1>4. Typed(r, ks, gs, c, st)
    BY <1>2 DEF Apart, Typed
<1>5. \A k \in Jobs : Consistent(ks[k])
    BY <1>2 DEF Apart
<1>6. \A k \in Jobs : InTime(k, ks[k], r, c, st)
    BY <1>2 DEF Apart
<1>7. Phases(r, c, st)
    BY DEF Apart
<1> QED
    BY <1>3, <1>4, <1>5, <1>6, <1>7 DEF Sound, ks

\* A callback that changes one job.
LEMMA OneJob ==
    ASSUME NEW r, NEW js, NEW es, NEW c, NEW st, Sound(r, js, es, c, st),
           NEW j \in Jobs, NEW b \in JobType, NEW gs \in Seq(EventType),
           Linked([js EXCEPT ![j] = b], gs), Consistent(b), InTime(j, b, r, c, st),
           st = "sleep" => gs = <<>>
    PROVE  Sound(r, [js EXCEPT ![j] = b], gs, c, st)
<1> DEFINE ks == [js EXCEPT ![j] = b]
<1>1. js \in [Jobs -> JobType]
    BY DEF Sound, Typed
<1>2. ks \in [Jobs -> JobType] /\ ks[j] = b /\ \A k \in Jobs \ {j} : ks[k] = js[k]
    BY <1>1
<1>3. Linked(ks, gs)
    OBVIOUS
<1> HIDE DEF ks
<1>4. Typed(r, ks, gs, c, st)
    BY <1>2 DEF Sound, Typed
<1>5. \A k \in Jobs : Consistent(ks[k])
    BY <1>2 DEF Sound
<1>6. \A k \in Jobs : InTime(k, ks[k], r, c, st)
    BY <1>2 DEF Sound
<1> QED
    BY <1>3, <1>4, <1>5, <1>6 DEF Sound, ks

\* A job without a process is always in time.
LEMMA IdleInTime ==
    ASSUME NEW j, NEW b, NEW r, NEW c, NEW st, b.pid = "none"
    PROVE  InTime(j, b, r, c, st)
    BY DEF InTime

\* A job waits for an event on the list, so that an empty list means that none waits.
LEMMA NobodyWaits ==
    ASSUME NEW js, Linked(js, <<>>), NEW j \in Jobs
    PROVE  js[j].state \notin Moves
<1>1. \A n \in Moves : ~Once(<<>>, Event(n, j))
    BY DEF Once
<1> QED
    BY <1>1 DEF Linked, Awaits

\* init wakes up.
LEMMA WakeSound == IInv /\ Wake => IInv'
<1> SUFFICES ASSUME IInv, Wake PROVE IInv'
    OBVIOUS
<1>1. /\ stage = "sleep" /\ stage' = "io"
      /\ q' = q /\ jobs' = jobs /\ pending' = pending /\ clock' = clock
    BY DEF Wake
<1>2. Sound(q, jobs, pending, clock, "sleep")
    BY <1>1 DEF IInv
<1>3. Typed(q, jobs, pending, clock, "io")
    BY <1>2 DEF Sound, Typed, Stages
<1>4. Phases(q, clock, "io")
    BY <1>2 DEF Sound, Phases
<1>5. \A j \in Jobs : InTime(j, jobs[j], q, clock, "io")
    BY <1>2, <1>4 DEF Sound, InTime, Phases
<1>6. Sound(q, jobs, pending, clock, "io")
    BY <1>2, <1>3, <1>4, <1>5 DEF Sound
<1> QED
    BY <1>1, <1>6 DEF IInv

\* Somebody emits an event.
LEMMA EmitSound == IInv /\ Emit => IInv'
<1> SUFFICES ASSUME IInv, Emit PROVE IInv'
    OBVIOUS
<1>1. /\ stage = "io" /\ stage' = stage
      /\ q' = q /\ jobs' = jobs /\ pending' = Append(pending, Other) /\ clock' = clock
    BY DEF Emit
<1>2. pending \in Seq(EventType) /\ Other \in EventType
    BY DEF IInv, Sound, Typed, EventType
<1>3. Append(pending, Other) \in Seq(EventType)
    BY <1>2
<1>4. ~IsMove(Other)
    BY EventsDiffer DEF IsMove
<1>5. Linked(jobs, Append(pending, Other))
    BY <1>2, <1>4, AppendLinked DEF IInv, Sound
<1>6. Typed(q, jobs, Append(pending, Other), clock, stage)
    BY <1>3 DEF IInv, Sound, Typed
<1>7. Sound(q, jobs, Append(pending, Other), clock, stage)
    BY <1>1, <1>5, <1>6 DEF IInv, Sound
<1> QED
    BY <1>1, <1>7 DEF IInv

\* The turn goes on: with nothing left on the list nobody has still to be asked to
\* leave, and with no timer due nobody has still to be killed.
LEMMA NextStageSound == Sane /\ IInv /\ NextStage => IInv'
<1> SUFFICES ASSUME Sane, IInv, NextStage PROVE IInv'
    OBVIOUS
<1>1. /\ q' = q /\ jobs' = jobs /\ pending' = pending /\ clock' = clock
      /\ stage \in {"io", "child", "timer", "poll"}
    BY DEF NextStage
<1>2. Sound(q, jobs, pending, clock, stage)
    BY DEF IInv
<1>3. /\ stage = "io" => stage' = "child"
      /\ stage = "child" => stage' = "timer"
      /\ stage = "timer" => stage' = "poll"
      /\ stage = "poll" => stage' = IF q.exit THEN "exited" ELSE "sleep"
    BY DEF NextStage
<1>4. Typed(q, jobs, pending, clock, stage')
    BY <1>1, <1>2, <1>3 DEF Sound, Typed, Stages
<1>a. /\ q \in QuiesceType /\ clock \in Nat /\ clock # 0 /\ jobs \in [Jobs -> JobType]
      /\ q.start_time \in Nat /\ q.phase_time \in Nat
    BY <1>2 DEF Sound, Typed, QuiesceType
<1>5. CASE stage \in {"io", "child"}
  <2>1. ~q.exit
      BY <1>2, <1>5 DEF Sound, Phases
  <2>2. Phases(q, clock, stage')
      BY <1>2, <1>3, <1>5, <2>1 DEF Sound, Phases
  <2>3. \A j \in Jobs : InTime(j, jobs[j], q, clock, stage')
      BY <1>2, <1>3, <1>5, <2>1 DEF Sound, InTime
  <2> QED
      BY <1>1, <1>2, <1>3, <1>4, <1>5, <2>2, <2>3 DEF Sound, IInv
<1>6. CASE stage = "timer"
  <2>1. \A j \in Jobs : jobs[j].due \notin 1 .. clock
      BY <1>6 DEF NextStage
  <2>2. \A j \in Jobs : jobs[j].due \in Nat
      BY <1>a DEF JobType
  <2>3. \A j \in Jobs : InTime(j, jobs[j], q, clock, "poll")
    <3> SUFFICES ASSUME NEW j \in Jobs PROVE InTime(j, jobs[j], q, clock, "poll")
        OBVIOUS
    <3>1. InTime(j, jobs[j], q, clock, "timer")
        BY <1>2, <1>6 DEF Sound
    <3>2. ~(jobs[j].due # 0 /\ jobs[j].due <= clock)
        BY <1>a, <2>1, <2>2
    <3> QED
        BY <3>1, <3>2 DEF InTime
  <2>4. Phases(q, clock, "poll")
    <3>1. Phases(q, clock, "timer")
        BY <1>2, <1>6 DEF Sound
    <3>2. q.exit => clock <= q.start_time + JobRuntime + Longest + 1
        BY <3>1 DEF Phases
    <3>3. Longest \in Nat /\ JobRuntime \in Nat
        BY KillTimeoutBounds DEF Sane
    <3>4. q.exit => clock <= q.start_time + JobRuntime + Longest + 2
        BY <1>a, <3>2, <3>3
    <3> QED
        BY <3>1, <3>4 DEF Phases
  <2> QED
      BY <1>1, <1>2, <1>3, <1>4, <1>6, <2>3, <2>4 DEF Sound, IInv
<1>7. CASE stage = "poll"
  <2>1. pending = <<>>
      BY <1>7 DEF NextStage
  <2>2. \A j \in Jobs : jobs[j].state \notin Moves
      BY <1>2, <2>1, NobodyWaits DEF Sound
  <2>3. \A j \in Jobs : InTime(j, jobs[j], q, clock, stage')
    <3> SUFFICES ASSUME NEW j \in Jobs PROVE InTime(j, jobs[j], q, clock, stage')
        OBVIOUS
    <3>1. InTime(j, jobs[j], q, clock, "poll")
        BY <1>2, <1>7 DEF Sound
    <3>2. jobs[j].state # "stopping"
        BY <2>2 DEF Moves
    <3> QED
        BY <3>1, <3>2 DEF InTime
  <2>4. Phases(q, clock, stage')
    <3>1. CASE q.exit
        BY <1>2, <1>3, <1>7, <3>1 DEF Sound, Phases
    <3>2. CASE ~q.exit
        BY <1>2, <1>3, <1>7, <3>2 DEF Sound, Phases
    <3> QED
        BY <3>1, <3>2
  <2> QED
      BY <1>1, <1>2, <1>4, <2>1, <2>3, <2>4 DEF Sound, IInv
<1> QED
    BY <1>1, <1>5, <1>6, <1>7
\* A timer that is not due.
LEMMA NotDue ==
    ASSUME NEW c \in Nat, c # 0, NEW t \in Nat, t \notin 1 .. c
    PROVE  c <= t => c + 1 <= t
    OBVIOUS

\* A second ends while init sleeps: the list is empty, and no timer is due.
LEMMA TickSound == IInv /\ Tick => IInv'
<1> SUFFICES ASSUME IInv, Tick PROVE IInv'
    OBVIOUS
<1>1. /\ stage = "sleep" /\ stage' = stage
      /\ q' = q /\ jobs' = jobs /\ pending' = pending /\ clock' = clock + 1
      /\ q.timer \notin 1 .. clock
    BY DEF Tick
<1>2. Sound(q, jobs, pending, clock, "sleep")
    BY <1>1 DEF IInv
<1>3. /\ clock \in Nat /\ clock # 0 /\ q \in QuiesceType
      /\ q.timer \in Nat /\ q.phase_time \in Nat
    BY <1>2 DEF Sound, Typed, QuiesceType
<1>4. Typed(q, jobs, pending, clock + 1, "sleep")
    BY <1>2, <1>3 DEF Sound, Typed
<1>5. Phases(q, clock, "sleep") /\ ~q.exit
    BY <1>2 DEF Sound, Phases
<1>6. /\ q.phase \in {"wait", "kill"} => clock <= q.timer
      /\ q.phase_time <= clock
    BY <1>5 DEF Phases
<1>7. /\ q.phase \in {"wait", "kill"} => clock + 1 <= q.timer
      /\ q.phase_time <= clock + 1
  <2>1. clock <= q.timer => clock + 1 <= q.timer
      BY <1>1, <1>3, NotDue
  <2>2. q.phase_time <= clock => q.phase_time <= clock + 1
      BY <1>3
  <2> QED
      BY <1>6, <2>1, <2>2
<1>8. Phases(q, clock + 1, "sleep")
    BY <1>5, <1>7 DEF Phases
<1>9. \A j \in Jobs : jobs[j].state \notin Moves
    BY <1>2, NobodyWaits DEF Sound
<1>10. \A j \in Jobs : InTime(j, jobs[j], q, clock + 1, "sleep")
  <2> SUFFICES ASSUME NEW j \in Jobs PROVE InTime(j, jobs[j], q, clock + 1, "sleep")
      OBVIOUS
  <2>1. InTime(j, jobs[j], q, clock, "sleep") /\ jobs[j].state # "stopping"
      BY <1>2, <1>9 DEF Sound, Moves
  <2> QED
      BY <1>5, <2>1 DEF InTime
<1>11. Sound(q, jobs, pending, clock + 1, "sleep")
    BY <1>2, <1>4, <1>8, <1>10 DEF Sound
<1> QED
    BY <1>1, <1>11 DEF IInv

\* A second ends between the timers and the events: this is the one that the
\* limit of the kill phase has to spare.
LEMMA TickInTurnSound == Sane /\ IInv /\ TickInTurn => IInv'
<1> SUFFICES ASSUME Sane, IInv, TickInTurn PROVE IInv'
    OBVIOUS
<1>1. /\ stage = "timer" /\ stage' = "poll"
      /\ q' = q /\ jobs' = jobs /\ pending' = pending /\ clock' = clock + 1
      /\ q.timer \notin 1 .. clock
      /\ \A j \in Jobs : jobs[j].due \notin 1 .. clock
    BY DEF TickInTurn
<1>2. Sound(q, jobs, pending, clock, "timer")
    BY <1>1 DEF IInv
<1>3. /\ clock \in Nat /\ clock # 0 /\ q \in QuiesceType
      /\ q.timer \in Nat /\ q.phase_time \in Nat /\ q.start_time \in Nat
      /\ Longest \in Nat /\ JobRuntime \in Nat
    BY <1>2, KillTimeoutBounds DEF Sound, Typed, QuiesceType, Sane
<1>4. Typed(q, jobs, pending, clock + 1, "poll")
    BY <1>2, <1>3 DEF Sound, Typed, Stages
<1>5. Phases(q, clock, "timer")
    BY <1>2 DEF Sound
<1>6. /\ q.phase \in {"wait", "kill"} => clock <= q.timer
      /\ q.phase_time <= clock
      /\ q.exit => clock <= q.start_time + JobRuntime + Longest + 1
    BY <1>5 DEF Phases
<1>7. /\ q.phase \in {"wait", "kill"} => clock + 1 <= q.timer
      /\ q.phase_time <= clock + 1
      /\ q.exit => clock + 1 <= q.start_time + JobRuntime + Longest + 2
  <2>1. clock <= q.timer => clock + 1 <= q.timer
      BY <1>1, <1>3, NotDue
  <2>2. q.phase_time <= clock => q.phase_time <= clock + 1
      BY <1>3
  <2>3. clock <= q.start_time + JobRuntime + Longest + 1 =>
            clock + 1 <= q.start_time + JobRuntime + Longest + 2
      BY <1>3
  <2> QED
      BY <1>6, <2>1, <2>2, <2>3
<1>8. Phases(q, clock + 1, "poll")
    BY <1>5, <1>7 DEF Phases
<1>9. \A j \in Jobs : InTime(j, jobs[j], q, clock + 1, "poll")
  <2> SUFFICES ASSUME NEW j \in Jobs PROVE InTime(j, jobs[j], q, clock + 1, "poll")
      OBVIOUS
  <2>1. InTime(j, jobs[j], q, clock, "timer") /\ jobs[j].due \in Nat
      BY <1>2 DEF Sound, Typed, JobType
  <2>2. ~(jobs[j].due # 0 /\ jobs[j].due <= clock)
      BY <1>1, <1>3, <2>1
  <2>3. clock <= q.phase_time => clock + 1 <= q.phase_time + 1
      BY <1>3
  <2> QED
      BY <2>1, <2>2, <2>3 DEF InTime
<1>10. Sound(q, jobs, pending, clock + 1, "poll")
    BY <1>2, <1>4, <1>8, <1>9 DEF Sound
<1> QED
    BY <1>1, <1>10 DEF IInv

\* A process dies, but counts until it is reaped.
LEMMA DieSound == ASSUME IInv, NEW j \in Jobs, Die(j) PROVE IInv'
<1> DEFINE b == [jobs[j] EXCEPT !.pid = "dead"]
<1>1. /\ jobs[j].pid = "alive" /\ q' = q /\ pending' = pending /\ clock' = clock
      /\ stage' = stage /\ jobs' = [jobs EXCEPT ![j].pid = "dead"]
    BY DEF Die
<1>2. jobs \in [Jobs -> JobType] /\ pending \in Seq(EventType) /\ jobs[j] \in JobType
    BY DEF IInv, Sound, Typed
<1>3. /\ b \in JobType /\ b.state = jobs[j].state /\ b.goal = jobs[j].goal
      /\ b.pid = "dead" /\ b.due = jobs[j].due /\ b.killed = jobs[j].killed
      /\ b.pre = jobs[j].pre
    BY <1>2 DEF JobType
<1>4. jobs' = [jobs EXCEPT ![j] = b]
    BY <1>1, <1>2
<1> HIDE DEF b
<1>5. Linked([jobs EXCEPT ![j] = b], pending)
    BY <1>2, <1>3, PlaceSame DEF IInv, Sound
<1>6. Consistent(b)
    BY <1>1, <1>3 DEF IInv, Sound, Consistent
<1>7. InTime(j, b, q, clock, stage)
  <2>1. InTime(j, jobs[j], q, clock, stage)
      BY DEF IInv, Sound
  <2> QED
      BY <1>1, <1>3, <2>1 DEF InTime
<1>8. Sound(q, [jobs EXCEPT ![j] = b], pending, clock, stage)
  <2>1. Sound(q, jobs, pending, clock, stage) /\ (stage = "sleep" => pending = <<>>)
      BY DEF IInv, Sound
  <2> QED
      BY <1>2, <1>3, <1>5, <1>6, <1>7, <2>1, OneJob
<1> QED
    BY <1>1, <1>4, <1>8 DEF IInv

\* A pre-stop process dies, but counts until it is reaped.
LEMMA DiePreStopSound == ASSUME IInv, NEW j \in Jobs, DiePreStop(j) PROVE IInv'
<1> DEFINE b == [jobs[j] EXCEPT !.pre = "dead"]
<1>1. /\ jobs[j].pre = "alive" /\ q' = q /\ pending' = pending /\ clock' = clock
      /\ stage' = stage /\ jobs' = [jobs EXCEPT ![j].pre = "dead"]
    BY DEF DiePreStop
<1>2. jobs \in [Jobs -> JobType] /\ pending \in Seq(EventType) /\ jobs[j] \in JobType
    BY DEF IInv, Sound, Typed
<1>3. /\ b \in JobType /\ b.state = jobs[j].state /\ b.goal = jobs[j].goal
      /\ b.pid = jobs[j].pid /\ b.due = jobs[j].due /\ b.killed = jobs[j].killed
    BY <1>2 DEF JobType
<1>4. jobs' = [jobs EXCEPT ![j] = b]
    BY <1>1, <1>2
<1> HIDE DEF b
<1>5. Linked([jobs EXCEPT ![j] = b], pending)
    BY <1>2, <1>3, PlaceSame DEF IInv, Sound
<1>6. Consistent(b)
    BY <1>1, <1>3 DEF IInv, Sound, Consistent
<1>7. InTime(j, b, q, clock, stage)
  <2>1. InTime(j, jobs[j], q, clock, stage)
      BY DEF IInv, Sound
  <2> QED
      BY <1>1, <1>3, <2>1 DEF InTime
<1>8. Sound(q, [jobs EXCEPT ![j] = b], pending, clock, stage)
  <2>1. Sound(q, jobs, pending, clock, stage) /\ (stage = "sleep" => pending = <<>>)
      BY DEF IInv, Sound
  <2> QED
      BY <1>2, <1>3, <1>5, <1>6, <1>7, <2>1, OneJob
<1> QED
    BY <1>1, <1>4, <1>8 DEF IInv

\* The kill timer sends SIGKILL.
LEMMA KillTimerSound == ASSUME IInv, NEW j \in Jobs, KillTimer(j) PROVE IInv'
<1> DEFINE b == [jobs[j] EXCEPT !.due = 0, !.killed = TRUE]
<1>1. /\ q' = q /\ pending' = pending /\ clock' = clock
      /\ stage' = stage /\ jobs' = [jobs EXCEPT ![j] = b]
    BY DEF KillTimer
<1>2. jobs \in [Jobs -> JobType] /\ pending \in Seq(EventType) /\ jobs[j] \in JobType
    BY DEF IInv, Sound, Typed
<1>3. /\ b \in JobType /\ b.state = jobs[j].state /\ b.goal = jobs[j].goal
      /\ b.pid = jobs[j].pid /\ b.pre = jobs[j].pre /\ b.due = 0 /\ b.killed
    BY <1>2 DEF JobType
<1> HIDE DEF b
<1>5. Linked([jobs EXCEPT ![j] = b], pending)
    BY <1>2, <1>3, PlaceSame DEF IInv, Sound
<1>6. Consistent(b)
    BY <1>3 DEF IInv, Sound, Consistent
<1>7. InTime(j, b, q, clock, stage)
  <2>1. InTime(j, jobs[j], q, clock, stage)
      BY DEF IInv, Sound
  <2> QED
      BY <1>3, <2>1 DEF InTime
<1>8. Sound(q, [jobs EXCEPT ![j] = b], pending, clock, stage)
  <2>1. Sound(q, jobs, pending, clock, stage) /\ (stage = "sleep" => pending = <<>>)
      BY DEF IInv, Sound
  <2> QED
      BY <1>2, <1>3, <1>5, <1>6, <1>7, <2>1, OneJob
<1> QED
    BY <1>1, <1>8 DEF IInv
-----------------------------------------------------------------------------
(* A job changes its state *)

\* A callback that began with the jobs js and the list es leaves j as b.
Becomes(js, es, t, j, b) ==
    /\ b \in JobType
    /\ t.jobs = [js EXCEPT ![j] = b]
    /\ t.pending \in Seq(EventType)
    /\ Linked(t.jobs, t.pending)
    /\ NoNewEnd(es, t.pending)

SameGoals(js, ks) == \A j \in Jobs : ks[j].goal = js[j].goal

\* The jobs and the list of a pair.
LEMMA WithFields ==
    ASSUME NEW js, NEW es PROVE With(js, es).jobs = js /\ With(js, es).pending = es
    BY DEF With

\* The same job changed twice.
LEMMA Twice ==
    ASSUME NEW js \in [Jobs -> JobType], NEW es, NEW j \in Jobs, NEW a \in JobType,
           NEW ks, ks = [js EXCEPT ![j] = a], NEW t, NEW b
    PROVE  /\ ks \in [Jobs -> JobType] /\ ks[j] = a
           /\ Free(js, es, j) => Free(ks, es, j)
           /\ Becomes(ks, es, t, j, b) => Becomes(js, es, t, j, b)
<1>1. ks \in [Jobs -> JobType] /\ ks[j] = a /\ \A k \in Jobs \ {j} : ks[k] = js[k]
    OBVIOUS
<1>2. Free(js, es, j) => Free(ks, es, j)
  <2> HAVE Free(js, es, j)
  <2>1. \A k \in Jobs \ {j} : Awaits(es, k, ks[k].state)
      BY <1>1 DEF Free
  <2> QED
      BY <2>1 DEF Free
<1>3. [ks EXCEPT ![j] = b] = [js EXCEPT ![j] = b]
    BY <1>1
<1> QED
    BY <1>1, <1>2, <1>3 DEF Becomes

\* The list grows by an event other than session-end.
LEMMA AppendNoNewEnd ==
    ASSUME NEW es \in Seq(EventType), NEW e, e # SessionEndEvent
    PROVE  NoNewEnd(es, Append(es, e))
<1> DEFINE n == Len(es)
           gs == Append(es, e)
<1>1. /\ n \in Nat /\ DOMAIN es = 1 .. n /\ DOMAIN gs = 1 .. (n + 1)
      /\ \A i \in 1 .. n : gs[i] = es[i]
      /\ gs[n + 1] = e
    OBVIOUS
<1> HIDE DEF n, gs
<1>2. \A i \in 1 .. (n + 1) : i \in 1 .. n \/ i = n + 1
    BY <1>1
<1>3. NoNewEnd(es, gs)
    BY <1>1, <1>2 DEF NoNewEnd
<1> QED
    BY <1>3 DEF gs

PutState(js, j, n) == [js EXCEPT ![j].state = n]

\* job_change_state() to a state in which the job emits an event and waits for it.
LEMMA MoveBecomes ==
    ASSUME NEW js \in [Jobs -> JobType], NEW es \in Seq(EventType), NEW j \in Jobs,
           Free(js, es, j), NEW n \in Moves, NEW t,
           t = With(PutState(js, j, n), Append(es, Event(n, j)))
    PROVE  \E b \in JobType :
             /\ Becomes(js, es, t, j, b)
             /\ b.state = n /\ b.goal = js[j].goal /\ b.pid = js[j].pid /\ b.pre = js[j].pre
             /\ b.due = js[j].due /\ (b.killed <=> js[j].killed)
<1> DEFINE b == [js[j] EXCEPT !.state = n]
<1>1. js[j] \in JobType /\ n \in {"starting", "stopping"}
    BY DEF Moves
<1>2. /\ b \in JobType /\ b.state = n /\ b.goal = js[j].goal /\ b.pid = js[j].pid
      /\ b.pre = js[j].pre
      /\ b.due = js[j].due /\ (b.killed <=> js[j].killed)
    BY <1>1 DEF JobType
<1>3. PutState(js, j, n) = [js EXCEPT ![j] = b]
    BY DEF PutState
<1>4. t.jobs = [js EXCEPT ![j] = b] /\ t.pending = Append(es, Event(n, j))
    BY <1>3 DEF With
<1> HIDE DEF b
<1>5. /\ Append(es, Event(n, j)) \in Seq(EventType)
      /\ Linked([js EXCEPT ![j] = b], Append(es, Event(n, j)))
    BY <1>2, PlaceMove
<1>6. NoNewEnd(es, Append(es, Event(n, j)))
    BY AppendNoNewEnd, EventsDiffer
<1>7. Becomes(js, es, t, j, b)
    BY <1>2, <1>4, <1>5, <1>6 DEF Becomes
<1> QED
    BY <1>2, <1>7

\* A job whose process is gone leaves killed: it begins anew, or is freed.
LEMMA LeaveKilledBecomes ==
    ASSUME NEW js \in [Jobs -> JobType], NEW es \in Seq(EventType), NEW j \in Jobs,
           Free(js, es, j), js[j].pid = "none", js[j].pre = "none", js[j].due = 0,
           NEW t, t = LeaveKilled(With(js, es), j)
    PROVE  \E b \in JobType :
             /\ Becomes(js, es, t, j, b)
             /\ b.pid = "none" /\ b.goal = js[j].goal /\ Consistent(b)
<1>1. CASE js[j].goal = "start"
  <2> DEFINE n == "starting"
  <2>1. t = With(PutState(js, j, n), Append(es, Event(n, j)))
      BY <1>1 DEF LeaveKilled, EnterStarting, With, PutState
  <2>2. n \in Moves
      BY DEF Moves
  <2> HIDE DEF n
  <2>3. PICK b \in JobType :
             /\ Becomes(js, es, t, j, b)
             /\ b.state = n /\ b.goal = js[j].goal /\ b.pid = js[j].pid /\ b.pre = js[j].pre
             /\ b.due = js[j].due /\ (b.killed <=> js[j].killed)
      BY <2>1, <2>2, MoveBecomes
  <2>4. Consistent(b)
      BY <2>3 DEF Consistent, n
  <2> QED
      BY <2>3, <2>4
<1>2. CASE js[j].goal # "start"
  <2>1. js[j].goal = "stop"
      BY <1>2 DEF JobType
  <2>2. Gone \in JobType /\ Gone.pid = "none" /\ Gone.goal = "stop" /\ Consistent(Gone)
        /\ Gone.state = "waiting"
      BY DEF Gone, JobType, Consistent
  <2> DEFINE e == Event("stopped", j)
  <2>3. e \in EventType /\ ~IsMove(e) /\ e # SessionEndEvent
    <3>1. e \in EventType /\ e # SessionEndEvent
        BY DEF Event, EventType, SessionEndEvent
    <3> QED
        BY <3>1, EventsDiffer DEF IsMove
  <2>4. t.jobs = [js EXCEPT ![j] = Gone] /\ t.pending = Append(es, e)
      BY <1>2 DEF LeaveKilled, With
  <2> HIDE DEF e
  <2>5. Linked([js EXCEPT ![j] = Gone], es)
      BY <2>2, PlaceRest DEF Moves
  <2>6. Linked([js EXCEPT ![j] = Gone], Append(es, e)) /\ Append(es, e) \in Seq(EventType)
      BY <2>3, <2>5, AppendLinked
  <2>7. NoNewEnd(es, Append(es, e))
      BY <2>3, AppendNoNewEnd
  <2>8. Becomes(js, es, t, j, Gone)
      BY <2>2, <2>4, <2>6, <2>7 DEF Becomes
  <2> QED
      BY <2>1, <2>2, <2>8
<1> QED
    BY <1>1, <1>2

\* job_process_terminated() leaves a job without a process.
LEMMA TerminatedBecomes ==
    ASSUME NEW js \in [Jobs -> JobType], NEW es \in Seq(EventType), NEW j \in Jobs,
           Linked(js, es), Consistent(js[j]), js[j].pid = "dead",
           NEW t, t = Terminated(With(js, es), j)
    PROVE  \E b \in JobType :
             /\ Becomes(js, es, t, j, b)
             /\ b.pid = "none" /\ Consistent(b)
             /\ js[j].goal = "stop" => b.goal = "stop"
<1> DEFINE a == [js[j] EXCEPT !.pid = "none", !.due = 0, !.killed = FALSE]
           ks == [js EXCEPT ![j] = a]
<1>1. js[j] \in JobType
    OBVIOUS
<1>2. /\ a \in JobType /\ a.state = js[j].state /\ a.goal = js[j].goal
      /\ a.pid = "none" /\ a.pre = js[j].pre /\ a.due = 0
    BY <1>1 DEF JobType
<1>3. js[j].state \in {"running", "pre-stop", "stopping", "stopping blocked", "killed"}
    BY <1>1 DEF Consistent, JobType
<1> HIDE DEF a
<1>4. \A u, b : /\ ks \in [Jobs -> JobType] /\ ks[j] = a
                /\ Free(js, es, j) => Free(ks, es, j)
                /\ Becomes(ks, es, u, j, b) => Becomes(js, es, u, j, b)
    BY <1>2, Twice
<1>5. t = CASE ks[j].state = "running" ->
              EnterStopping(With([ks EXCEPT ![j].goal = "stop"], es), j)
         [] ks[j].state = "pre-stop" -> With([ks EXCEPT ![j].goal = "stop"], es)
         [] ks[j].state = "killed"  -> LeaveKilled(With(ks, es), j)
         [] OTHER -> With(ks, es)
    BY DEF Terminated, With, a, ks
<1> HIDE DEF ks
<1>6. CASE js[j].state = "running"
  <2> DEFINE g == [a EXCEPT !.goal = "stop"]
             ls == [ks EXCEPT ![j] = g]
             n == "stopping"
  <2>1. /\ g \in JobType /\ g.goal = "stop" /\ g.pid = "none" /\ g.due = 0
        /\ g.pre = js[j].pre
      BY <1>2 DEF JobType
  <2>2. [ks EXCEPT ![j].goal = "stop"] = ls
      BY <1>4
  <2>3. Free(js, es, j)
      BY <1>6, FreeAtRest DEF Moves
  <2> HIDE DEF g
  <2>4. \A u, b : /\ ls \in [Jobs -> JobType] /\ ls[j] = g
                  /\ Free(ks, es, j) => Free(ls, es, j)
                  /\ Becomes(ls, es, u, j, b) => Becomes(ks, es, u, j, b)
      BY <1>4, <2>1, Twice
  <2>5. t = EnterStopping(With(ls, es), j)
      BY <1>2, <1>4, <1>5, <1>6, <2>2
  <2> HIDE DEF ls
  <2>6. t = With(PutState(ls, j, n), Append(es, Event(n, j))) /\ n \in Moves
      BY <2>5 DEF EnterStopping, With, Moves, PutState
  <2> HIDE DEF n
  <2>7. Free(ls, es, j) /\ ls \in [Jobs -> JobType]
      BY <1>4, <2>3, <2>4
  <2>8. PICK b \in JobType :
             /\ Becomes(ls, es, t, j, b)
             /\ b.state = n /\ b.goal = ls[j].goal /\ b.pid = ls[j].pid /\ b.pre = ls[j].pre
             /\ b.due = ls[j].due /\ (b.killed <=> ls[j].killed)
      BY <2>6, <2>7, MoveBecomes
  <2>9. Becomes(js, es, t, j, b)
      BY <1>4, <2>4, <2>8
  <2>10. Consistent(b) /\ b.goal = "stop" /\ b.pid = "none"
      BY <1>6, <2>1, <2>4, <2>8 DEF Consistent, n
  <2> QED
      BY <2>9, <2>10
<1>7. CASE js[j].state = "killed"
  <2>1. Free(js, es, j)
      BY <1>7, FreeAtRest DEF Moves
  <2>2. t = LeaveKilled(With(ks, es), j)
      BY <1>2, <1>4, <1>5, <1>7
  <2>3. /\ Free(ks, es, j) /\ ks \in [Jobs -> JobType] /\ ks[j].pid = "none" /\ ks[j].due = 0
        /\ ks[j].pre = "none"
      BY <1>2, <1>4, <1>7, <2>1 DEF Consistent
  <2>4. PICK b \in JobType :
             /\ Becomes(ks, es, t, j, b)
             /\ b.pid = "none" /\ b.goal = ks[j].goal /\ Consistent(b)
      BY <2>2, <2>3, LeaveKilledBecomes
  <2>5. Becomes(js, es, t, j, b)
      BY <1>4, <2>4
  <2> QED
      BY <1>2, <1>4, <2>4, <2>5
<1>8. CASE js[j].state \in {"stopping", "stopping blocked"}
  <2>1. t = With(ks, es)
      BY <1>2, <1>4, <1>5, <1>8
  <2>2. t.jobs = [js EXCEPT ![j] = a] /\ t.pending = es
    <3>1. With(ks, es).jobs = ks /\ With(ks, es).pending = es
        BY DEF With
    <3> QED
        BY <2>1, <3>1 DEF ks
  <2>3. Linked([js EXCEPT ![j] = a], es)
      BY <1>2, PlaceSame
  <2>4. NoNewEnd(es, es)
      BY DEF NoNewEnd
  <2>5. Becomes(js, es, t, j, a)
      BY <1>2, <2>2, <2>3, <2>4 DEF Becomes
  <2>6. Consistent(a)
      BY <1>2, <1>8 DEF Consistent
  <2> QED
      BY <1>2, <2>5, <2>6
<1>9. CASE js[j].state = "pre-stop"
  <2> DEFINE g == [a EXCEPT !.goal = "stop"]
  <2>1. /\ g \in JobType /\ g.goal = "stop" /\ g.pid = "none" /\ g.due = 0
        /\ g.state = "pre-stop"
      BY <1>2, <1>9 DEF JobType
  <2>2. [ks EXCEPT ![j].goal = "stop"] = [js EXCEPT ![j] = g]
      BY <1>4 DEF ks
  <2>3. t = With([js EXCEPT ![j] = g], es)
      BY <1>2, <1>4, <1>5, <1>9, <2>2
  <2> HIDE DEF g
  <2>4. t.jobs = [js EXCEPT ![j] = g] /\ t.pending = es
      BY <2>3, WithFields
  <2>5. Linked([js EXCEPT ![j] = g], es)
      BY <1>9, <2>1, PlaceSame
  <2>6. Becomes(js, es, t, j, g)
      BY <2>1, <2>4, <2>5 DEF Becomes, NoNewEnd
  <2>7. Consistent(g)
      BY <2>1 DEF Consistent
  <2> QED
      BY <2>1, <2>6, <2>7
<1> QED
    BY <1>3, <1>6, <1>7, <1>8, <1>9

\* The main process is reaped.
LEMMA ReapSound == ASSUME IInv, NEW j \in Jobs, Reap(j) PROVE IInv'
<1> DEFINE t == Terminated(With(jobs, pending), j)
<1>1. /\ stage = "child" /\ jobs[j].pid = "dead"
      /\ jobs' = t.jobs /\ pending' = t.pending
      /\ q' = q /\ clock' = clock /\ stage' = stage
    BY DEF Reap
<1>2. jobs \in [Jobs -> JobType] /\ pending \in Seq(EventType) /\ Linked(jobs, pending)
      /\ Consistent(jobs[j])
    BY DEF IInv, Sound, Typed
<1>3. PICK b \in JobType :
             /\ Becomes(jobs, pending, t, j, b)
             /\ b.pid = "none" /\ Consistent(b)
    BY <1>1, <1>2, TerminatedBecomes
<1> HIDE DEF t
<1>4. InTime(j, b, q, clock, stage)
    BY <1>3, IdleInTime
<1>5. /\ t.jobs = [jobs EXCEPT ![j] = b] /\ t.pending \in Seq(EventType)
      /\ Linked([jobs EXCEPT ![j] = b], t.pending)
    BY <1>3 DEF Becomes
<1>6. Sound(q, [jobs EXCEPT ![j] = b], t.pending, clock, stage)
  <2>1. Sound(q, jobs, pending, clock, stage) /\ stage # "sleep"
      BY <1>1 DEF IInv
  <2> QED
      BY <1>3, <1>4, <1>5, <2>1, OneJob
<1> QED
    BY <1>1, <1>5, <1>6 DEF IInv
\* A pre-stop process is reaped: the job stops, or goes on.  Such a job is delayed.
LEMMA ReapPreStopSound ==
    ASSUME IInv, NEW j \in Jobs, ReapPreStop(j)
    PROVE  IInv' /\ SameGoals(jobs, jobs') /\ NoNewEnd(pending, pending')
<1> DEFINE a == [jobs[j] EXCEPT !.pre = "none"]
           ks == [jobs EXCEPT ![j] = a]
           t == PreStopTerminated(With(jobs, pending), j)
<1>1. /\ stage = "child" /\ jobs[j].pre = "dead"
      /\ jobs' = t.jobs /\ pending' = t.pending
      /\ q' = q /\ clock' = clock /\ stage' = stage
    BY DEF ReapPreStop
<1>2. /\ jobs \in [Jobs -> JobType] /\ pending \in Seq(EventType) /\ Linked(jobs, pending)
      /\ Consistent(jobs[j]) /\ jobs[j] \in JobType
      /\ InTime(j, jobs[j], q, clock, stage)
    BY DEF IInv, Sound, Typed
<1>3. jobs[j].state = "pre-stop" /\ jobs[j].due = 0
    BY <1>1, <1>2 DEF Consistent
<1>4. /\ a \in JobType /\ a.state = "pre-stop" /\ a.goal = jobs[j].goal
      /\ a.pid = jobs[j].pid /\ a.pre = "none" /\ a.due = 0
    BY <1>2, <1>3 DEF JobType
<1>5. t = IF ks[j].goal = "start" THEN With([ks EXCEPT ![j].state = "running"], pending)
          ELSE EnterStopping(With(ks, pending), j)
    BY DEF PreStopTerminated, With
<1> HIDE DEF a, t
<1>6. \A u, b : /\ ks \in [Jobs -> JobType] /\ ks[j] = a
                /\ Free(jobs, pending, j) => Free(ks, pending, j)
                /\ Becomes(ks, pending, u, j, b) => Becomes(jobs, pending, u, j, b)
    BY <1>2, <1>4, Twice
<1>7. Free(jobs, pending, j)
    BY <1>2, <1>3, FreeAtRest DEF Moves
<1> HIDE DEF ks
<1>8. \E b \in JobType :
         /\ Becomes(jobs, pending, t, j, b) /\ Consistent(b)
         /\ b.pid = jobs[j].pid /\ b.goal = jobs[j].goal
  <2>1. CASE jobs[j].goal = "start"
    <3> DEFINE b == [a EXCEPT !.state = "running"]
    <3>1. b \in JobType /\ b.state = "running" /\ b.goal = "start" /\ b.pid = jobs[j].pid
          /\ b.pre = "none" /\ b.due = 0
        BY <1>4, <2>1 DEF JobType
    <3>2. t = With([ks EXCEPT ![j] = b], pending)
        BY <1>4, <1>5, <1>6, <2>1
    <3> HIDE DEF b
    <3>3. t.jobs = [ks EXCEPT ![j] = b] /\ t.pending = pending
        BY <3>2, WithFields
    <3>4. Linked([ks EXCEPT ![j] = b], pending)
        BY <1>6, <1>7, <3>1, PlaceRest DEF Moves
    <3>5. Becomes(ks, pending, t, j, b)
        BY <1>2, <3>1, <3>3, <3>4 DEF Becomes, NoNewEnd
    <3>6. Consistent(b)
        BY <3>1 DEF Consistent
    <3> QED
        BY <1>6, <2>1, <3>1, <3>5, <3>6
  <2>2. CASE jobs[j].goal # "start"
    <3> DEFINE n == "stopping"
    <3>1. t = With(PutState(ks, j, n), Append(pending, Event(n, j))) /\ n \in Moves
        BY <1>4, <1>5, <1>6, <2>2 DEF EnterStopping, With, Moves, PutState
    <3> HIDE DEF n
    <3>2. Free(ks, pending, j) /\ ks \in [Jobs -> JobType]
        BY <1>6, <1>7
    <3>3. PICK b \in JobType :
             /\ Becomes(ks, pending, t, j, b)
             /\ b.state = n /\ b.goal = ks[j].goal /\ b.pid = ks[j].pid /\ b.pre = ks[j].pre
             /\ b.due = ks[j].due /\ (b.killed <=> ks[j].killed)
        BY <1>2, <3>1, <3>2, MoveBecomes
    <3>4. Consistent(b)
        BY <1>4, <1>6, <3>3 DEF Consistent, n
    <3> QED
        BY <1>4, <1>6, <3>3, <3>4
  <2> QED
      BY <2>1, <2>2
<1>9. PICK b \in JobType :
         /\ Becomes(jobs, pending, t, j, b) /\ Consistent(b)
         /\ b.pid = jobs[j].pid /\ b.goal = jobs[j].goal
    BY <1>8
<1>10. InTime(j, b, q, clock, stage)
    BY <1>2, <1>3, <1>9 DEF InTime
<1>11. /\ t.jobs = [jobs EXCEPT ![j] = b] /\ t.pending \in Seq(EventType)
       /\ Linked([jobs EXCEPT ![j] = b], t.pending) /\ NoNewEnd(pending, t.pending)
    BY <1>9 DEF Becomes
<1>12. Sound(q, [jobs EXCEPT ![j] = b], t.pending, clock, stage)
  <2>1. Sound(q, jobs, pending, clock, stage) /\ stage # "sleep"
      BY <1>1 DEF IInv
  <2> QED
      BY <1>9, <1>10, <1>11, <2>1, OneJob
<1>13. SameGoals(jobs, [jobs EXCEPT ![j] = b])
    BY <1>2, <1>9 DEF SameGoals
<1> QED
    BY <1>1, <1>11, <1>12, <1>13 DEF IInv
-----------------------------------------------------------------------------
(* All jobs at once *)

\* The jobs of S, which wait for nothing, go on to the state n, and no others wait
\* for anything else than before.
Advance(js, ks, S, n) ==
    /\ \A j \in S : js[j].state \notin Moves /\ ks[j].state = n
    /\ \A j \in Jobs \ S : \/ ks[j].state = js[j].state
                           \/ js[j].state \notin Moves /\ ks[j].state \notin Moves

\* A loop over some jobs emits no session-end.
LEMMA EmitNoEnd ==
    ASSUME Sane, NEW es \in Seq(EventType), NEW n \in Moves, NEW S \in SUBSET Jobs,
           NEW gs, gs = es \o Emitted(n, S)
    PROVE  gs \in Seq(EventType) /\ NoNewEnd(es, gs)
<1> DEFINE fs == Emitted(n, S)
<1>1. /\ fs \in Seq(EventType)
      /\ \A i \in DOMAIN fs : \E k \in S : fs[i] = Event(n, k)
    BY EmittedEvents DEF Moves
<1> HIDE DEF fs
<1>2. gs = es \o fs
    BY DEF fs
<1>3. /\ gs \in Seq(EventType)
      /\ \A i \in DOMAIN gs :
            \/ i \in DOMAIN es /\ gs[i] = es[i]
            \/ \E k \in DOMAIN fs : gs[i] = fs[k]
    BY <1>1, <1>2, ConcatEvents
<1>4. \A i \in DOMAIN fs : fs[i] # SessionEndEvent
    BY <1>1, EventsDiffer
<1> QED
    BY <1>3, <1>4 DEF NoNewEnd

\* A loop over some jobs that wait for nothing, each of which comes to wait for the
\* event it emits.
LEMMA LoopLinked ==
    ASSUME Sane, NEW js, NEW ks, NEW es \in Seq(EventType), Linked(js, es),
           NEW n \in Moves, NEW S \in SUBSET Jobs, NEW gs, gs = es \o Emitted(n, S),
           Advance(js, ks, S, n)
    PROVE  gs \in Seq(EventType) /\ Linked(ks, gs) /\ NoNewEnd(es, gs)
<1>1. \A j \in Jobs :
           /\ j \in S /\ Never(es, Event(n, j)) => Once(gs, Event(n, j))
           /\ \A m \in Moves : m # n \/ j \notin S =>
                /\ Once(es, Event(m, j)) => Once(gs, Event(m, j))
                /\ Never(es, Event(m, j)) => Never(gs, Event(m, j))
    BY EmitAll
<1>2. gs \in Seq(EventType) /\ NoNewEnd(es, gs)
    BY EmitNoEnd
<1>3. ASSUME NEW j \in S PROVE Awaits(gs, j, ks[j].state)
  <2>1. \A m \in Moves : Never(es, Event(m, j))
      BY DEF Linked, Awaits, Advance
  <2> QED
      BY <1>1, <2>1 DEF Awaits, Advance
<1>4. ASSUME NEW j \in Jobs \ S PROVE Awaits(gs, j, ks[j].state)
  <2>1. Awaits(es, j, ks[j].state)
      BY DEF Linked, Advance, Awaits
  <2> QED
      BY <1>1, <2>1 DEF Awaits
<1> QED
    BY <1>2, <1>3, <1>4 DEF Linked

\* The same while j, which is not of S, has nothing on the list.
LEMMA LoopFree ==
    ASSUME Sane, NEW js, NEW ks, NEW es \in Seq(EventType), NEW j \in Jobs, Free(js, es, j),
           NEW n \in Moves, NEW S \in SUBSET Jobs, j \notin S, NEW gs, gs = es \o Emitted(n, S),
           Advance(js, ks, S, n)
    PROVE  Free(ks, gs, j)
<1>1. \A k \in Jobs :
           /\ k \in S /\ Never(es, Event(n, k)) => Once(gs, Event(n, k))
           /\ \A m \in Moves : m # n \/ k \notin S =>
                /\ Once(es, Event(m, k)) => Once(gs, Event(m, k))
                /\ Never(es, Event(m, k)) => Never(gs, Event(m, k))
    BY EmitAll
<1>2. ASSUME NEW k \in S PROVE Awaits(gs, k, ks[k].state)
  <2>1. \A m \in Moves : Never(es, Event(m, k))
      BY DEF Free, Awaits, Advance
  <2> QED
      BY <1>1, <2>1 DEF Awaits, Advance
<1>3. ASSUME NEW k \in Jobs \ S, k # j PROVE Awaits(gs, k, ks[k].state)
  <2>1. Awaits(es, k, ks[k].state)
      BY <1>3 DEF Free, Advance, Awaits
  <2> QED
      BY <1>1, <2>1 DEF Awaits
<1>4. \A m \in Moves : Never(gs, Event(m, j))
    BY <1>1 DEF Free
<1> QED
    BY <1>2, <1>3, <1>4 DEF Free

\* job_process_stop_all() asks every job to stop; those that run leave.
LEMMA StopAllMoves ==
    ASSUME Sane, NEW js \in [Jobs -> JobType], NEW es \in Seq(EventType),
           Linked(js, es), \A j \in Jobs : Consistent(js[j]),
           NEW t, t = StopAll(With(js, es))
    PROVE  /\ t.jobs \in [Jobs -> JobType] /\ t.pending \in Seq(EventType)
           /\ Linked(t.jobs, t.pending) /\ NoNewEnd(es, t.pending)
           /\ \A j \in Jobs :
                /\ Consistent(t.jobs[j])
                /\ t.jobs[j].goal = "stop" /\ t.jobs[j].pid = js[j].pid
                /\ t.jobs[j].due = js[j].due /\ (t.jobs[j].killed <=> js[j].killed)
                /\ t.jobs[j].pre # "none" => js[j].pre # "none" \/ js[j].pid # "none"
                /\ \/ t.jobs[j].state = js[j].state
                   \/ js[j].state = "running" /\ t.jobs[j].state = "stopping"
                   \/ j \in PreStop /\ js[j].pid # "none" /\ t.jobs[j].state = "pre-stop"
<1> DEFINE R == {j \in Jobs : js[j].state = "running" /\ js[j].goal = "start"}
           A == {j \in R \cap PreStop : js[j].pid # "none"}
           S == R \ A
           n == "stopping"
           gs == es \o Emitted(n, S)
           ks == [j \in Jobs |->
                    CASE j \in S -> [js[j] EXCEPT !.goal = "stop", !.state = "stopping"]
                      [] j \in A -> [js[j] EXCEPT !.goal = "stop", !.state = "pre-stop",
                                                  !.pre = "alive"]
                      [] j \notin R /\ HasInstance(js, j) -> [js[j] EXCEPT !.goal = "stop"]
                      [] OTHER -> js[j]]
<1>1. t.jobs = ks /\ t.pending = gs
    BY DEF StopAll, With
<1>2. ASSUME NEW j \in Jobs
      PROVE  /\ ks[j] \in JobType /\ Consistent(ks[j])
             /\ ks[j].goal = "stop" /\ ks[j].pid = js[j].pid
             /\ ks[j].due = js[j].due /\ (ks[j].killed <=> js[j].killed)
             /\ ks[j].pre # "none" => js[j].pre # "none" \/ js[j].pid # "none"
             /\ j \in S => ks[j].state = n
             /\ j \in A => ks[j].state = "pre-stop"
             /\ j \notin R => ks[j].state = js[j].state
  <2>1. js[j] \in JobType /\ Consistent(js[j])
      OBVIOUS
  <2> DEFINE a == [js[j] EXCEPT !.goal = "stop"]
             b == [js[j] EXCEPT !.goal = "stop", !.state = "stopping"]
             p == [js[j] EXCEPT !.goal = "stop", !.state = "pre-stop", !.pre = "alive"]
  <2>2. /\ a \in JobType /\ a.goal = "stop" /\ a.pid = js[j].pid /\ a.due = js[j].due
        /\ (a.killed <=> js[j].killed) /\ a.state = js[j].state /\ a.pre = js[j].pre
      BY <2>1 DEF JobType
  <2>3. /\ b \in JobType /\ b.goal = "stop" /\ b.pid = js[j].pid /\ b.due = js[j].due
        /\ (b.killed <=> js[j].killed) /\ b.state = "stopping" /\ b.pre = js[j].pre
      BY <2>1 DEF JobType
  <2>10. /\ p \in JobType /\ p.goal = "stop" /\ p.pid = js[j].pid /\ p.due = js[j].due
         /\ (p.killed <=> js[j].killed) /\ p.state = "pre-stop"
      BY <2>1 DEF JobType
  <2>4. CASE j \in S
    <3>1. ks[j] = b /\ j \in R /\ j \notin A
        BY <2>4
    <3>2. js[j].state = "running"
        BY <2>4
    <3> HIDE DEF ks, b, S, A, R
    <3>3. Consistent(b)
        BY <2>1, <2>3, <3>2 DEF Consistent
    <3> QED
        BY <2>3, <2>4, <3>1, <3>3
  <2>7. CASE j \in A
    <3>1. ks[j] = p /\ j \in R /\ j \notin S
        BY <2>7
    <3>2. js[j].state = "running" /\ js[j].pid # "none"
        BY <2>7
    <3> HIDE DEF ks, p, S, A, R
    <3>3. Consistent(p)
        BY <2>1, <2>10, <3>2 DEF Consistent
    <3> QED
        BY <2>7, <2>10, <3>1, <3>2, <3>3
  <2>5. CASE j \notin R /\ HasInstance(js, j)
    <3>1. ks[j] = a /\ j \notin S /\ j \notin A
        BY <2>5
    <3>2. ~(js[j].state = "running" /\ js[j].goal = "start")
        BY <2>5
    <3> HIDE DEF ks, a, S, A, R
    <3>3. Consistent(a)
        BY <2>1, <2>2, <3>2 DEF Consistent
    <3> QED
        BY <2>2, <2>5, <3>1, <3>3
  <2>6. CASE j \notin R /\ ~HasInstance(js, j)
    <3>1. ks[j] = js[j] /\ j \notin S /\ j \notin A
        BY <2>6
    <3>2. js[j].goal = "stop"
        BY <2>1, <2>6 DEF HasInstance, Consistent
    <3> HIDE DEF ks, S, A, R
    <3> QED
        BY <2>1, <2>6, <3>1, <3>2
  <2> QED
      BY <2>4, <2>5, <2>6, <2>7
<1>3. /\ \A j \in R : js[j].state = "running" /\ js[j].state \notin Moves
      /\ \A j \in A : j \in PreStop /\ js[j].pid # "none"
      /\ S = R \ A /\ A \subseteq R /\ R \subseteq Jobs
    BY DEF Moves
<1>8. "pre-stop" \notin Moves
    BY DEF Moves
<1>4. S \in SUBSET Jobs /\ n \in Moves
    BY DEF Moves
<1>5. ks \in [Jobs -> JobType]
  <2>1. \A j \in Jobs : ks[j] \in JobType
      BY <1>2
  <2> QED
      BY <2>1
<1> HIDE DEF R, A, S, ks, n
<1>7. gs = es \o Emitted(n, S)
    OBVIOUS
<1> HIDE DEF gs
<1>6. gs \in Seq(EventType) /\ Linked(ks, gs) /\ NoNewEnd(es, gs)
  <2>1. Advance(js, ks, S, n)
      BY <1>2, <1>3, <1>4, <1>8 DEF Advance
  <2>2. /\ Sane /\ es \in Seq(EventType) /\ Linked(js, es) /\ n \in Moves
        /\ S \in SUBSET Jobs /\ gs = es \o Emitted(n, S)
      BY <1>4, <1>7
  <2> QED
      BY ONLY <2>1, <2>2, LoopLinked
<1> QED
    BY <1>1, <1>2, <1>3, <1>5, <1>6 DEF n

\* Those of E that are not there.
Absent(js, E) == {j \in E : ~HasInstance(js, j)}

\* An event starts the jobs that ask for it, and goes on with those that are there.
LEMMA InductEach ==
    ASSUME NEW js \in [Jobs -> JobType], NEW es,
           \A j \in Jobs : Consistent(js[j]),
           NEW E \in SUBSET Jobs,
           NEW t, t = Induct(With(js, es), E)
    PROVE  /\ t.jobs \in [Jobs -> JobType]
           /\ t.pending = es \o Emitted("starting", Absent(js, E))
           /\ Advance(js, t.jobs, Absent(js, E), "starting")
           /\ \A j \in E : t.jobs[j].state # "waiting"
           /\ \A j \in Jobs :
                /\ Consistent(t.jobs[j])
                /\ t.jobs[j].pid = js[j].pid
                /\ t.jobs[j].due = js[j].due /\ (t.jobs[j].killed <=> js[j].killed)
                /\ js[j].goal = "start" => t.jobs[j].goal = "start"
                /\ j \notin E => t.jobs[j].goal = js[j].goal
                /\ \/ t.jobs[j].state = js[j].state
                   \/ js[j].state = "waiting" /\ t.jobs[j].state = "starting"
<1> DEFINE S == {j \in E : ~HasInstance(js, j)}
           n == "starting"
           gs == es \o Emitted(n, S)
           ks == [j \in Jobs |->
                    CASE j \in S -> [js[j] EXCEPT !.goal = "start", !.state = "starting"]
                      [] j \in E \ S -> [js[j] EXCEPT !.goal = "start"]
                      [] OTHER -> js[j]]
<1>1. t.jobs = ks /\ t.pending = gs
    BY DEF Induct, With
<1>2. ASSUME NEW j \in Jobs
      PROVE  /\ ks[j] \in JobType /\ Consistent(ks[j])
             /\ ks[j].pid = js[j].pid
             /\ ks[j].due = js[j].due /\ (ks[j].killed <=> js[j].killed)
             /\ js[j].goal = "start" => ks[j].goal = "start"
             /\ j \notin E => ks[j].goal = js[j].goal
             /\ j \in S => ks[j].state = n /\ js[j].state = "waiting"
             /\ j \notin S => ks[j].state = js[j].state
             /\ j \in E => ks[j].state # "waiting"
  <2>1. js[j] \in JobType /\ Consistent(js[j])
      OBVIOUS
  <2> DEFINE a == [js[j] EXCEPT !.goal = "start"]
             b == [js[j] EXCEPT !.goal = "start", !.state = "starting"]
  <2>2. /\ a \in JobType /\ a.goal = "start" /\ a.pid = js[j].pid /\ a.due = js[j].due
        /\ (a.killed <=> js[j].killed) /\ a.state = js[j].state /\ a.pre = js[j].pre
      BY <2>1 DEF JobType
  <2>3. /\ b \in JobType /\ b.goal = "start" /\ b.pid = js[j].pid /\ b.due = js[j].due
        /\ (b.killed <=> js[j].killed) /\ b.state = "starting" /\ b.pre = js[j].pre
      BY <2>1 DEF JobType
  <2>4. CASE j \in S
    <3>1. ks[j] = b
        BY <2>4
    <3>2. js[j].state = "waiting" /\ j \in E
        BY <2>4 DEF HasInstance
    <3> HIDE DEF ks, b, S
    <3>3. Consistent(b)
        BY <2>1, <2>3, <3>2 DEF Consistent
    <3> QED
        BY <2>3, <2>4, <3>1, <3>2, <3>3
  <2>5. CASE j \in E \ S
    <3>1. ks[j] = a
        BY <2>5
    <3>2. js[j].state # "waiting"
        BY <2>5 DEF HasInstance
    <3> HIDE DEF ks, a, S
    <3>3. Consistent(a)
        BY <2>1, <2>2, <3>2 DEF Consistent
    <3> QED
        BY <2>2, <2>5, <3>1, <3>2, <3>3
  <2>6. CASE j \notin E
    <3>1. ks[j] = js[j] /\ j \notin S
        BY <2>6
    <3> HIDE DEF ks, S
    <3> QED
        BY <2>1, <2>6, <3>1
  <2> QED
      BY <2>4, <2>5, <2>6
<1>3. S = Absent(js, E)
    BY DEF Absent
<1>4. ks \in [Jobs -> JobType]
  <2>1. \A j \in Jobs : ks[j] \in JobType
      BY <1>2
  <2> QED
      BY <2>1
<1> HIDE DEF S, ks, n
<1>5. S \subseteq Jobs /\ \A j \in S : js[j].state = "waiting"
    BY <1>2, <1>3 DEF Absent
<1>6. Advance(js, ks, S, n)
    BY <1>2, <1>5 DEF Moves, Advance
<1> QED
    BY <1>1, <1>2, <1>3, <1>4, <1>6 DEF n

\* Those that it starts come to wait for their own events.
LEMMA InductMoves ==
    ASSUME Sane, NEW js \in [Jobs -> JobType], NEW es \in Seq(EventType),
           Linked(js, es), \A j \in Jobs : Consistent(js[j]),
           NEW E \in SUBSET Jobs,
           NEW t, t = Induct(With(js, es), E)
    PROVE  t.pending \in Seq(EventType) /\ Linked(t.jobs, t.pending) /\ NoNewEnd(es, t.pending)
<1> DEFINE S == Absent(js, E)
           n == "starting"
<1>1. t.pending = es \o Emitted(n, S) /\ Advance(js, t.jobs, S, n)
    BY InductEach
<1>2. S \in SUBSET Jobs /\ n \in Moves
    BY DEF Moves, Absent
<1> HIDE DEF S, n
<1> QED
    BY <1>1, <1>2, LoopLinked

\* The same while the event of j is being handled.
LEMMA InductFree ==
    ASSUME Sane, NEW js \in [Jobs -> JobType], NEW es \in Seq(EventType),
           NEW j \in Jobs, Free(js, es, j), js[j].state # "waiting",
           \A k \in Jobs : Consistent(js[k]),
           NEW E \in SUBSET Jobs,
           NEW t, t = Induct(With(js, es), E)
    PROVE  t.pending \in Seq(EventType) /\ Free(t.jobs, t.pending, j) /\ NoNewEnd(es, t.pending)
<1> DEFINE S == Absent(js, E)
           n == "starting"
<1>1. t.pending = es \o Emitted(n, S) /\ Advance(js, t.jobs, S, n)
    BY InductEach
<1>2. S \in SUBSET Jobs /\ n \in Moves /\ j \notin S
    BY DEF Moves, Absent, HasInstance
<1> HIDE DEF S, n
<1>3. t.pending \in Seq(EventType) /\ NoNewEnd(es, t.pending)
    BY <1>1, <1>2, EmitNoEnd
<1>4. Free(t.jobs, t.pending, j)
    BY <1>1, <1>2, LoopFree
<1> QED
    BY <1>3, <1>4
-----------------------------------------------------------------------------
(* The phases *)

\* The clock in the wait phase.
LEMMA WaitBound ==
    ASSUME NEW c \in Nat, NEW t \in Nat, NEW s \in Nat, NEW w \in Nat, NEW l \in Nat,
           c <= t, t <= s + w
    PROVE  c <= s + w + l + 1 /\ c <= s + w + l + 2
    OBVIOUS

\* The clock in the kill phase.
LEMMA KillBound ==
    ASSUME NEW c \in Nat, NEW t \in Nat, NEW p \in Nat, NEW m \in Nat,
           NEW s \in Nat, NEW w \in Nat, NEW l \in Nat,
           p <= s + w, m <= l, c <= t, t <= p + m + 1
    PROVE  c <= s + w + l + 1 /\ c <= s + w + l + 2
    OBVIOUS

\* The kill timer of a job that is asked to leave in the turn of time p.
LEMMA DueBound ==
    ASSUME NEW c \in Nat, NEW p \in Nat, NEW k \in Nat, c <= p + 1
    PROVE  c + k <= p + 1 + k
    OBVIOUS

\* quiesce_finalise() ends the session, once.
LEMMA FinaliseFields ==
    ASSUME NEW r \in QuiesceType, r.finalising => r.exit, NEW f, f = Finalise(r)
    PROVE  /\ f \in QuiesceType
           /\ f.phase = "cleanup" /\ f.finalising /\ f.exit
           /\ f.requester = r.requester /\ f.phase_time = r.phase_time
           /\ f.start_time = r.start_time /\ f.max_kill_timeout = r.max_kill_timeout
           /\ f.timer = r.timer
<1> DEFINE c == [r EXCEPT !.phase = "cleanup"]
           d == [c EXCEPT !.finalising = TRUE, !.exit = TRUE]
<1>1. /\ c \in QuiesceType /\ c.phase = "cleanup" /\ (c.finalising <=> r.finalising)
      /\ (c.exit <=> r.exit)
      /\ c.requester = r.requester /\ c.phase_time = r.phase_time
      /\ c.start_time = r.start_time /\ c.max_kill_timeout = r.max_kill_timeout
      /\ c.timer = r.timer
    BY DEF QuiesceType
<1>2. f = IF c.finalising THEN c ELSE d
    BY DEF Finalise
<1> HIDE DEF c
<1>3. /\ d \in QuiesceType /\ d.phase = c.phase /\ d.finalising /\ d.exit
      /\ d.requester = c.requester /\ d.phase_time = c.phase_time
      /\ d.start_time = c.start_time /\ d.max_kill_timeout = c.max_kill_timeout
      /\ d.timer = c.timer
    BY <1>1 DEF QuiesceType
<1> HIDE DEF d
<1>4. CASE c.finalising
    BY <1>1, <1>2, <1>4
<1>5. CASE ~c.finalising
    BY <1>1, <1>2, <1>3, <1>5
<1> QED
    BY <1>4, <1>5

\* A phase begins in which all jobs have been asked to stop: those that run leave in
\* this turn, and the timeout of the kill phase covers every job that is there.
LEMMA StoppedInTime ==
    ASSUME Sane, NEW r \in QuiesceType, NEW js \in [Jobs -> JobType], NEW c \in Nat, NEW st,
           NEW f \in QuiesceType, NEW j \in Jobs, NEW b \in JobType,
           InTime(j, js[j], r, c, st), r.phase_time <= c, ~r.exit,
           b.pid = js[j].pid, b.due = js[j].due, b.killed <=> js[j].killed,
           \/ b.state = js[j].state
           \/ js[j].state = "running" /\ b.state = "stopping"
           \/ j \in PreStop /\ js[j].pid # "none" /\ b.state = "pre-stop",
           f.phase \in {"wait", "kill"}, ~f.exit, f.phase_time = c,
           f.phase = "kill" => f.max_kill_timeout = MaxKillTimeout(js)
    PROVE  InTime(j, b, f, c, st)
<1> SUFFICES ASSUME j \in Prompt PROVE InTime(j, b, f, c, st)
    BY DEF InTime
<1>6. b.state = js[j].state \/ (js[j].state = "running" /\ b.state = "stopping")
    BY DEF Prompt
<1>1. /\ c \in Nat /\ r.phase_time \in Nat /\ KillTimeout[j] \in Nat /\ b.due \in Nat
    BY DEF QuiesceType, Sane, JobType
<1>2. c <= f.phase_time /\ c <= f.phase_time + 1
    BY <1>1
<1>3. b.state = "killed" /\ b.pid # "none" /\ ~b.killed =>
         b.due # 0 /\ b.due <= r.phase_time + 1 + KillTimeout[j]
    BY <1>6 DEF InTime
<1>4. b.due <= r.phase_time + 1 + KillTimeout[j] =>
         b.due <= f.phase_time + 1 + KillTimeout[j]
    BY <1>1
<1>5. f.phase = "kill" /\ b.state \in {"stopping", "killed"} =>
         KillTimeout[j] <= f.max_kill_timeout
  <2> SUFFICES ASSUME f.phase = "kill", b.state \in {"stopping", "killed"}
               PROVE  KillTimeout[j] <= f.max_kill_timeout
      OBVIOUS
  <2>1. HasInstance(js, j)
      BY <1>6 DEF HasInstance
  <2> QED
      BY <2>1, KillTimeoutBounds
<1> QED
    BY <1>2, <1>3, <1>4, <1>5, <1>6 DEF InTime

\* The request: a phase begins with what is there.
LEMMA QuiesceSound ==
    ASSUME Sane, IInv, NEW requester \in {"system", "session"}, Quiesce(requester)
    PROVE  IInv'
<1> DEFINE phase == IF requester = "system" \/ ~EventMatch THEN "kill" ELSE "wait"
           es == Append(pending, SessionEndEvent)
           s == StopAll(With(jobs, es))
           m == IF phase = "kill" THEN MaxKillTimeout(jobs) ELSE 0
           f == [q EXCEPT !.phase = phase, !.requester = requester,
                          !.phase_time = clock, !.start_time = clock,
                          !.max_kill_timeout = m, !.timer = clock + 1]
<1>1. /\ stage = "io" /\ q.phase = "not quiesced"
      /\ q' = f /\ jobs' = s.jobs /\ pending' = s.pending /\ clock' = clock /\ stage' = stage
    BY DEF Quiesce, InProgress
<1>2. /\ q \in QuiesceType /\ jobs \in [Jobs -> JobType] /\ pending \in Seq(EventType)
      /\ clock \in Nat /\ clock # 0 /\ stage \in Stages
      /\ Linked(jobs, pending) /\ Phases(q, clock, stage)
      /\ \A j \in Jobs : Consistent(jobs[j])
    BY DEF IInv, Sound, Typed
<1>3. phase \in {"wait", "kill"} /\ m \in Nat /\ (phase = "kill" => m = MaxKillTimeout(jobs))
    BY KillTimeoutBounds
<1> HIDE DEF phase, m
<1>4. /\ f \in QuiesceType /\ f.phase = phase /\ f.requester = requester
      /\ f.phase_time = clock /\ f.start_time = clock /\ f.max_kill_timeout = m
      /\ f.timer = clock + 1 /\ (f.finalising <=> q.finalising) /\ (f.exit <=> q.exit)
  <2> DEFINE t == clock + 1
             g == [q EXCEPT !.phase = phase, !.requester = requester,
                            !.phase_time = clock]
  <2>1. t \in Nat
      BY <1>2
  <2>2. f = [g EXCEPT !.start_time = clock, !.max_kill_timeout = m, !.timer = t]
      BY <1>2 DEF QuiesceType
  <2> HIDE DEF t, f
  <2>3. /\ g \in QuiesceType /\ g.phase = phase /\ g.requester = requester
        /\ g.phase_time = clock
        /\ (g.finalising <=> q.finalising) /\ (g.exit <=> q.exit)
      BY <1>2, <1>3 DEF QuiesceType
  <2> HIDE DEF g
  <2>4. /\ f \in QuiesceType /\ f.phase = g.phase /\ f.requester = g.requester
        /\ f.phase_time = g.phase_time /\ f.start_time = clock
        /\ f.max_kill_timeout = m /\ f.timer = t
        /\ (f.finalising <=> g.finalising) /\ (f.exit <=> g.exit)
      BY <1>2, <1>3, <2>1, <2>2, <2>3 DEF QuiesceType
  <2> QED
      BY <2>3, <2>4 DEF t
<1> HIDE DEF f
<1>5. ~q.exit /\ ~q.finalising
    BY <1>1, <1>2 DEF Phases
<1>6. Phases(f, clock, "io")
  <2>1. JobRuntime \in Nat /\ JobRuntime # 0 /\ DefaultKill \in Nat
      BY DEF Sane
  <2>2. /\ clock <= clock + 1 /\ clock <= clock + JobRuntime /\ clock <= clock
        /\ clock + 1 <= clock + JobRuntime /\ clock + 1 <= clock + m + 1
      BY <1>2, <1>3, <2>1
  <2>3. phase = "kill" => DefaultKill <= m /\ m <= Longest
      BY <1>3, KillTimeoutBounds
  <2>4. f.phase \in {"wait", "kill"} /\ ~f.exit /\ ~f.finalising
      BY <1>3, <1>4, <1>5
  <2> QED
      BY <1>4, <2>2, <2>3, <2>4 DEF Phases
<1>7. es \in Seq(EventType) /\ Linked(jobs, es)
  <2>1. SessionEndEvent \in EventType /\ ~IsMove(SessionEndEvent)
      BY EventsDiffer DEF EventType, IsMove
  <2> QED
      BY <1>2, <2>1, AppendLinked
<1> HIDE DEF es
<1>8. /\ s.jobs \in [Jobs -> JobType] /\ s.pending \in Seq(EventType)
      /\ Linked(s.jobs, s.pending)
      /\ \A j \in Jobs :
           /\ Consistent(s.jobs[j])
           /\ s.jobs[j].pid = jobs[j].pid
           /\ s.jobs[j].due = jobs[j].due /\ (s.jobs[j].killed <=> jobs[j].killed)
           /\ \/ s.jobs[j].state = jobs[j].state
              \/ jobs[j].state = "running" /\ s.jobs[j].state = "stopping"
              \/ j \in PreStop /\ jobs[j].pid # "none" /\ s.jobs[j].state = "pre-stop"
    BY <1>2, <1>7, StopAllMoves
<1> HIDE DEF s
<1>9. \A j \in Jobs : InTime(j, s.jobs[j], f, clock, "io")
  <2> SUFFICES ASSUME NEW j \in Jobs PROVE InTime(j, s.jobs[j], f, clock, "io")
      OBVIOUS
  <2>1. InTime(j, jobs[j], q, clock, "io") /\ q.phase_time <= clock
      BY <1>1 DEF IInv, Sound, Phases
  <2>2. f.phase \in {"wait", "kill"} /\ ~f.exit /\ f.phase_time = clock
        /\ (f.phase = "kill" => f.max_kill_timeout = MaxKillTimeout(jobs))
      BY <1>3, <1>4, <1>5
  <2>3. s.jobs[j] \in JobType
      BY <1>8
  <2> QED
      BY <1>2, <1>4, <1>5, <1>8, <2>1, <2>2, <2>3, StoppedInTime
<1>10. Typed(f, s.jobs, s.pending, clock, "io")
    BY <1>2, <1>4, <1>8 DEF Typed, Stages
<1>11. Sound(f, s.jobs, s.pending, clock, "io")
    BY <1>6, <1>8, <1>9, <1>10 DEF Sound
<1> QED
    BY <1>1, <1>11 DEF IInv

\* A job in that state waits for an event of name n.
Ends(n, state) ==
    \/ n = "starting" /\ state \in {"starting", "starting blocked"}
    \/ n = "stopping" /\ state \in {"stopping", "stopping blocked"}

\* An event that a job waited for finishes: the job goes on.
LEMMA FinishedBecomes ==
    ASSUME Sane, NEW r \in QuiesceType, NEW js \in [Jobs -> JobType],
           NEW es \in Seq(EventType), NEW j \in Jobs, Free(js, es, j),
           clock \in Nat, clock # 0,
           Consistent(js[j]), InTime(j, js[j], r, clock, "poll"),
           NEW n \in Moves, Ends(n, js[j].state),
           NEW t, t = Finished(With(js, es), Event(n, j))
    PROVE  \E b \in JobType :
             /\ Becomes(js, es, t, j, b)
             /\ Consistent(b) /\ InTime(j, b, r, clock, "poll")
             /\ b.goal = js[j].goal
<1>1. js[j] \in JobType /\ n \in {"starting", "stopping"}
      /\ Event(n, j).name = n /\ Event(n, j).job = j
      /\ With(js, es).jobs = js /\ With(js, es).pending = es
    BY EventsDiffer DEF Moves, With
<1>5. /\ n = "starting" => js[j].pid = "none" /\ js[j].pre = "none" /\ js[j].due = 0
      /\ n = "stopping" => js[j].pre = "none" /\ js[j].due = 0
    BY <1>1 DEF Consistent, Ends
<1>2. CASE n = "starting" /\ js[j].goal = "start"
  <2> DEFINE p == IF j \in Abstract THEN "none" ELSE "alive"
             b == [js[j] EXCEPT !.state = "running", !.pid = p]
  <2>1. t = With([js EXCEPT ![j] = b], es)
      BY <1>1, <1>2 DEF Finished, EnterRunning
  <2>2. p \in {"none", "alive", "dead"}
      OBVIOUS
  <2> HIDE DEF p
  <2>3. b \in JobType /\ b.state = "running" /\ b.goal = js[j].goal /\ b.due = js[j].due
        /\ b.pre = js[j].pre
      BY <1>1, <2>2 DEF JobType
  <2> HIDE DEF b
  <2>4. t.jobs = [js EXCEPT ![j] = b] /\ t.pending = es
      BY <2>1, WithFields
  <2>5. Linked([js EXCEPT ![j] = b], es)
      BY <2>3, PlaceRest DEF Moves
  <2>6. NoNewEnd(es, es)
      BY DEF NoNewEnd
  <2>7. Becomes(js, es, t, j, b)
      BY <2>3, <2>4, <2>5, <2>6 DEF Becomes
  <2>8. Consistent(b)
      BY <1>2, <1>5, <2>3 DEF Consistent
  <2>9. InTime(j, b, r, clock, "poll")
      BY <2>3 DEF InTime
  <2> QED
      BY <1>2, <2>3, <2>7, <2>8, <2>9
<1>3. CASE n = "starting" /\ js[j].goal # "start"
  <2> DEFINE m == "stopping"
  <2>1. t = With(PutState(js, j, m), Append(es, Event(m, j))) /\ m \in Moves
      BY <1>1, <1>3 DEF Finished, EnterStopping, PutState, Moves
  <2> HIDE DEF m
  <2>2. PICK b \in JobType :
             /\ Becomes(js, es, t, j, b)
             /\ b.state = m /\ b.goal = js[j].goal /\ b.pid = js[j].pid /\ b.pre = js[j].pre
             /\ b.due = js[j].due /\ (b.killed <=> js[j].killed)
      BY <2>1, MoveBecomes
  <2>3. b.pid = "none"
      BY <1>3, <1>5, <2>2
  <2>4. Consistent(b)
      BY <1>3, <1>5, <2>2 DEF Consistent, m
  <2>5. InTime(j, b, r, clock, "poll")
      BY <2>3, IdleInTime
  <2> QED
      BY <2>2, <2>4, <2>5
<1>4. CASE n = "stopping"
  <2> DEFINE a == [js[j] EXCEPT !.state = "killed"]
             ks == [js EXCEPT ![j] = a]
  <2>1. /\ a \in JobType /\ a.state = "killed" /\ a.goal = js[j].goal /\ a.pid = js[j].pid
        /\ a.due = js[j].due /\ (a.killed <=> js[j].killed)
        /\ a.pre = js[j].pre
      BY <1>1 DEF JobType
  <2>2. t = EnterKilled(With(js, es), j)
      BY <1>1, <1>4 DEF Finished
  <2>3. [js EXCEPT ![j].state = "killed"] = ks
      OBVIOUS
  <2> HIDE DEF a
  <2>4. \A u, b : /\ ks \in [Jobs -> JobType] /\ ks[j] = a
                  /\ Free(js, es, j) => Free(ks, es, j)
                  /\ Becomes(ks, es, u, j, b) => Becomes(js, es, u, j, b)
      BY <2>1, Twice
  <2>5. t = IF ks[j].pid = "none" THEN LeaveKilled(With(ks, es), j)
            ELSE With([ks EXCEPT ![j].due = clock + KillTimeout[j]], es)
      BY <2>2, <2>3 DEF EnterKilled, With
  <2> HIDE DEF ks
  <2>6. CASE js[j].pid = "none"
    <3>1. t = LeaveKilled(With(ks, es), j)
        BY <2>1, <2>4, <2>5, <2>6
    <3>2. ks[j].due = 0 /\ ks[j].pid = "none" /\ ks[j].pre = "none"
        BY <1>4, <1>5, <2>1, <2>4, <2>6
    <3>3. ks \in [Jobs -> JobType] /\ Free(ks, es, j)
        BY <2>4
    <3>4. PICK b \in JobType :
             /\ Becomes(ks, es, t, j, b)
             /\ b.pid = "none" /\ b.goal = ks[j].goal /\ Consistent(b)
        BY <3>1, <3>2, <3>3, LeaveKilledBecomes
    <3>5. Becomes(js, es, t, j, b) /\ InTime(j, b, r, clock, "poll")
        BY <2>4, <3>4, IdleInTime
    <3> QED
        BY <2>1, <2>4, <3>4, <3>5
  <2>7. CASE js[j].pid # "none"
    <3> DEFINE d == clock + KillTimeout[j]
               b == [a EXCEPT !.due = d]
    <3>1. d \in Nat /\ d # 0 /\ KillTimeout[j] \in Nat
        BY DEF Sane
    <3>2. t = With([ks EXCEPT ![j] = b], es)
        BY <2>1, <2>4, <2>5, <2>7
    <3> HIDE DEF d
    <3>3. /\ b \in JobType /\ b.state = "killed" /\ b.goal = js[j].goal
          /\ b.pid = js[j].pid /\ b.due = d /\ b.pre = js[j].pre
        BY <2>1, <3>1 DEF JobType
    <3> HIDE DEF b
    <3>4. t.jobs = [ks EXCEPT ![j] = b] /\ t.pending = es
        BY <3>2, WithFields
    <3>5. ks \in [Jobs -> JobType] /\ Free(ks, es, j)
        BY <2>4
    <3>6. Linked([ks EXCEPT ![j] = b], es)
        BY <3>3, <3>5, PlaceRest DEF Moves
    <3>7. NoNewEnd(es, es)
        BY DEF NoNewEnd
    <3>8. Becomes(js, es, t, j, b)
      <4>1. Becomes(ks, es, t, j, b)
          BY <3>3, <3>4, <3>6, <3>7 DEF Becomes
      <4> QED
          BY <2>4, <4>1
    <3>9. Consistent(b)
        BY <1>4, <1>5, <2>7, <3>3 DEF Consistent
    <3>10. InTime(j, b, r, clock, "poll")
      <4> SUFFICES ASSUME j \in Prompt PROVE InTime(j, b, r, clock, "poll")
          BY DEF InTime
      <4>1. /\ r.phase # "not quiesced" /\ ~r.exit /\ clock <= r.phase_time + 1
            /\ r.phase = "kill" => KillTimeout[j] <= r.max_kill_timeout
        <5>1. InTime(j, js[j], r, clock, "poll")
            OBVIOUS
        <5>2. js[j].state \in {"stopping", "stopping blocked"}
            BY <1>4 DEF Ends
        <5>3. j \in Prompt
            OBVIOUS
        <5> QED
            BY ONLY <2>7, <5>1, <5>2, <5>3 DEF InTime
      <4>2. r.phase_time \in Nat
          BY DEF QuiesceType
      <4>3. d <= r.phase_time + 1 + KillTimeout[j]
        <5>1. d = clock + KillTimeout[j] /\ clock \in Nat
            BY DEF d
        <5> QED
            BY ONLY <3>1, <4>1, <4>2, <5>1, DueBound
      <4> QED
          BY <3>1, <3>3, <4>1, <4>3 DEF InTime
    <3> QED
        BY <3>3, <3>8, <3>9, <3>10
  <2> QED
      BY <2>6, <2>7
<1> QED
    BY <1>1, <1>2, <1>3, <1>4

\* What event_poll() does with the first event of the list, apart from the end of
\* the session: s is what its handling leaves, t what its end does.
LEMMA PollMoves ==
    ASSUME Sane, IInv, stage = "poll", pending # <<>>,
           NEW e, e = Head(pending),
           NEW s, s = Handled(With(jobs, Tail(pending)), e),
           NEW t, t = Settled(s, e)
    PROVE  /\ Sound(q, t.jobs, t.pending, clock, stage)
           /\ NoNewEnd(Tail(pending), t.pending)
           /\ (\A j \in Jobs : s.jobs[j].state = "waiting") =>
                \A j \in Jobs : t.jobs[j].state = "waiting"
           /\ e = SessionEndEvent => \A j \in SessionEnd : s.jobs[j].state # "waiting"
           /\ e # SessionEndEvent =>
                \A j \in Jobs : (\A k \in Jobs : j \notin Hooks[k]) => t.jobs[j].goal = jobs[j].goal
           /\ \A j \in Jobs : jobs[j].goal = "start" => t.jobs[j].goal = "start"
<1> DEFINE es == Tail(pending)
<1>1. /\ q \in QuiesceType /\ jobs \in [Jobs -> JobType] /\ pending \in Seq(EventType)
      /\ clock \in Nat /\ clock # 0
      /\ Linked(jobs, pending) /\ (\A j \in Jobs : Consistent(jobs[j]))
      /\ \A j \in Jobs : InTime(j, jobs[j], q, clock, "poll")
      /\ Phases(q, clock, "poll")
    BY DEF IInv, Sound, Typed
<1>2. es \in Seq(EventType) /\ e \in EventType
    BY <1>1, TailEvents
<1> HIDE DEF es
<1>3. With(jobs, es).jobs = jobs /\ With(jobs, es).pending = es
    BY DEF With
<1>7. ASSUME NEW E \in SUBSET Jobs, s = Induct(With(jobs, es), E)
      PROVE  /\ Apart(q, s.jobs, clock, "poll")
             /\ \A j \in E : s.jobs[j].state # "waiting"
             /\ \A j \in Jobs :
                  /\ jobs[j].goal = "start" => s.jobs[j].goal = "start"
                  /\ j \notin E => s.jobs[j].goal = jobs[j].goal
                  /\ \/ s.jobs[j].state = jobs[j].state
                     \/ jobs[j].state = "waiting" /\ s.jobs[j].state = "starting"
  <2>1. /\ s.jobs \in [Jobs -> JobType]
        /\ \A j \in E : s.jobs[j].state # "waiting"
        /\ \A j \in Jobs :
             /\ Consistent(s.jobs[j])
             /\ s.jobs[j].pid = jobs[j].pid
             /\ s.jobs[j].due = jobs[j].due /\ (s.jobs[j].killed <=> jobs[j].killed)
             /\ jobs[j].goal = "start" => s.jobs[j].goal = "start"
             /\ j \notin E => s.jobs[j].goal = jobs[j].goal
             /\ \/ s.jobs[j].state = jobs[j].state
                \/ jobs[j].state = "waiting" /\ s.jobs[j].state = "starting"
      BY <1>1, <1>7, InductEach
  <2>2. \A j \in Jobs : InTime(j, s.jobs[j], q, clock, "poll")
    <3> TAKE j \in Jobs
    <3>1. InTime(j, jobs[j], q, clock, "poll") /\ Consistent(jobs[j])
        BY <1>1
    <3>2. /\ s.jobs[j].pid = jobs[j].pid
          /\ s.jobs[j].due = jobs[j].due /\ (s.jobs[j].killed <=> jobs[j].killed)
          /\ \/ s.jobs[j].state = jobs[j].state
             \/ jobs[j].state = "waiting" /\ s.jobs[j].state = "starting"
        BY <2>1
    <3> QED
        BY ONLY <3>1, <3>2 DEF InTime
  <2>3. Apart(q, s.jobs, clock, "poll")
      BY <1>1, <2>1, <2>2 DEF Apart, Stages
  <2> QED
      BY <2>1, <2>3
<1>4. CASE e = SessionEndEvent
  <2>1. e.name = "session-end" /\ ~IsMove(e)
      BY <1>4, EventsDiffer DEF SessionEndEvent, IsMove
  <2>2. t = s /\ s = Induct(With(jobs, es), SessionEnd) /\ SessionEnd \in SUBSET Jobs
      BY <1>4, <2>1 DEF Handled, Settled, Finished, Move, Sane, es
  <2>3. Linked(jobs, es)
      BY <1>1, <2>1, TailLinked DEF es
  <2>4. t.pending \in Seq(EventType) /\ Linked(t.jobs, t.pending) /\ NoNewEnd(es, t.pending)
      BY <1>1, <1>2, <2>2, <2>3, InductMoves
  <2>5. Apart(q, t.jobs, clock, "poll")
      BY <1>7, <2>2
  <2>6. Sound(q, t.jobs, t.pending, clock, "poll")
      BY <2>4, <2>5 DEF Sound, Apart, Typed
  <2>7. /\ \A j \in SessionEnd : s.jobs[j].state # "waiting"
        /\ \A j \in Jobs : jobs[j].goal = "start" => s.jobs[j].goal = "start"
      BY <1>7, <2>2
  <2> QED
      BY <1>4, <2>2, <2>4, <2>6, <2>7 DEF es
<1>5. CASE IsMove(e)
  <2>1. PICK n \in Moves, j \in Jobs : e = Event(n, j)
      BY <1>5 DEF IsMove
  <2>2. e # SessionEndEvent /\ e.name = n /\ e.job = j /\ Move(e)
      BY <2>1, EventsDiffer DEF Move, Moves
  <2>3. s = Induct(With(jobs, es), Hooks[j]) /\ Hooks[j] \in SUBSET Jobs
      BY <2>2 DEF Handled, Sane, es
  <2>4. jobs[j].state = n /\ Free(jobs, es, j) /\ n # "waiting"
      BY <1>1, <2>1, FreeHead DEF es, Moves
  <2>5. /\ Apart(q, s.jobs, clock, "poll")
        /\ \A k \in Jobs :
             /\ jobs[k].goal = "start" => s.jobs[k].goal = "start"
             /\ k \notin Hooks[j] => s.jobs[k].goal = jobs[k].goal
        /\ s.jobs[j].state = n
      BY <1>7, <2>3, <2>4
  <2>6. s.pending \in Seq(EventType) /\ Free(s.jobs, s.pending, j) /\ NoNewEnd(es, s.pending)
      BY <1>1, <1>2, <2>3, <2>4, InductFree
  <2>7. /\ s.jobs \in [Jobs -> JobType] /\ s.jobs[j] \in JobType /\ Consistent(s.jobs[j])
        /\ InTime(j, s.jobs[j], q, clock, "poll")
      BY <2>5 DEF Apart
  <2>8. \E b \in JobType :
             /\ Becomes(s.jobs, s.pending, t, j, b)
             /\ Consistent(b) /\ InTime(j, b, q, clock, "poll")
             /\ b.goal = s.jobs[j].goal
    <3>1. CASE Hooks[j] = {}
      <4>1. t = Finished(With(s.jobs, s.pending), Event(n, j))
        <5>1. s = With(s.jobs, s.pending)
            BY <2>3 DEF Induct, With
        <5> QED
            BY <2>1, <2>2, <3>1, <5>1 DEF Settled
      <4>2. Ends(n, s.jobs[j].state)
          BY <2>5 DEF Ends, Moves
      <4> QED
          BY <1>1, <2>6, <2>7, <4>1, <4>2, FinishedBecomes
    <3>2. CASE Hooks[j] # {}
      <4> DEFINE w == IF n = "starting" THEN "starting blocked" ELSE "stopping blocked"
                 b == [s.jobs[j] EXCEPT !.state = w]
      <4>1. t = With([s.jobs EXCEPT ![j].state = w], s.pending)
          BY <2>2, <3>2 DEF Settled, Blocked
      <4>2. [s.jobs EXCEPT ![j].state = w] = [s.jobs EXCEPT ![j] = b]
          BY <2>7
      <4>3. /\ w \in {"starting blocked", "stopping blocked"} /\ w \notin Moves
            /\ w = "starting blocked" => n = "starting"
          BY DEF Moves
      <4> HIDE DEF w
      <4>4. /\ b \in JobType /\ b.state = w /\ b.goal = s.jobs[j].goal
            /\ b.pid = s.jobs[j].pid /\ b.pre = s.jobs[j].pre /\ b.due = s.jobs[j].due
        <5>1. s.jobs[j] \in JobType
            BY <2>7
        <5> QED
            BY ONLY <4>3, <5>1 DEF JobType
      <4> HIDE DEF b
      <4>5. t.jobs = [s.jobs EXCEPT ![j] = b] /\ t.pending = s.pending
          BY <4>1, <4>2, WithFields
      <4>6. Linked([s.jobs EXCEPT ![j] = b], s.pending)
          BY <2>6, <2>7, <4>3, <4>4, PlaceRest
      <4>7. Becomes(s.jobs, s.pending, t, j, b)
          BY <2>6, <4>4, <4>5, <4>6 DEF Becomes, NoNewEnd
      <4>8. Consistent(b)
          BY <2>5, <2>7, <4>3, <4>4 DEF Consistent, Moves
      <4>9. InTime(j, b, q, clock, "poll")
          BY <3>2 DEF InTime, Prompt
      <4> QED
          BY <4>4, <4>7, <4>8, <4>9
    <3> QED
        BY <3>1, <3>2
  <2>9. PICK b \in JobType :
             /\ Becomes(s.jobs, s.pending, t, j, b)
             /\ Consistent(b) /\ InTime(j, b, q, clock, "poll")
             /\ b.goal = s.jobs[j].goal
      BY <2>8
  <2>10. /\ t.jobs = [s.jobs EXCEPT ![j] = b] /\ t.pending \in Seq(EventType)
         /\ Linked([s.jobs EXCEPT ![j] = b], t.pending) /\ NoNewEnd(s.pending, t.pending)
      BY <2>9 DEF Becomes
  <2>11. Sound(q, [s.jobs EXCEPT ![j] = b], t.pending, clock, "poll")
      BY <2>5, <2>9, <2>10, OneJobApart
  <2>12. NoNewEnd(es, t.pending)
      BY <2>6, <2>10 DEF NoNewEnd
  <2>13. \A k \in Jobs : t.jobs[k].goal = s.jobs[k].goal
      BY <2>7, <2>9, <2>10
  <2> QED
      BY <2>2, <2>4, <2>5, <2>10, <2>11, <2>12, <2>13 DEF es
<1>6. CASE e # SessionEndEvent /\ ~IsMove(e)
  <2>2. e.name \notin {"starting", "stopping"}
    <3>1. CASE e \in [name : {"starting", "stopping", "stopped"}, job : Jobs]
      <4>1. e = Event(e.name, e.job) /\ e.job \in Jobs
          BY <3>1 DEF Event
      <4> QED
          BY <1>6, <4>1 DEF IsMove, Moves
    <3>2. CASE e = Other
        BY <3>2 DEF Other
    <3> QED
        BY <1>2, <1>6, <3>1, <3>2 DEF EventType
  <2>1. s = With(jobs, es)
      BY <1>6, <2>2 DEF Handled, Move, es
  <2>3. t = s
      BY <2>2 DEF Settled, Finished, Move
  <2>4. t.jobs = jobs /\ t.pending = es
      BY <1>3, <2>1, <2>3
  <2>5. Linked(jobs, es)
      BY <1>1, <1>6, TailLinked DEF es
  <2>6. Typed(q, jobs, es, clock, "poll")
      BY <1>1, <1>2 DEF Typed, Stages
  <2>7. Sound(q, jobs, es, clock, "poll")
      BY <1>1, <2>5, <2>6 DEF Sound
  <2>8. NoNewEnd(es, es)
      BY DEF NoNewEnd
  <2> QED
      BY <1>6, <2>3, <2>4, <2>7, <2>8 DEF es
<1> QED
    BY <1>4, <1>5, <1>6

\* An event that was blocked ends.
LEMMA UnblockSound ==
    ASSUME Sane, IInv, NEW j \in Jobs, Unblock(j)
    PROVE  IInv' /\ SameGoals(jobs, jobs') /\ NoNewEnd(pending, pending')
<1> DEFINE n == IF jobs[j].state = "starting blocked" THEN "starting" ELSE "stopping"
           t == Finished(With(jobs, pending), Event(n, j))
<1>1. /\ stage = "poll" /\ jobs[j].state \in {"starting blocked", "stopping blocked"}
      /\ jobs' = t.jobs /\ pending' = t.pending
      /\ q' = q /\ clock' = clock /\ stage' = stage
    BY DEF Unblock
<1>2. /\ q \in QuiesceType /\ jobs \in [Jobs -> JobType] /\ pending \in Seq(EventType)
      /\ clock \in Nat /\ clock # 0
      /\ Linked(jobs, pending) /\ Consistent(jobs[j]) /\ InTime(j, jobs[j], q, clock, "poll")
      /\ Sound(q, jobs, pending, clock, "poll")
    BY <1>1 DEF IInv, Sound, Typed
<1>3. n \in Moves /\ Ends(n, jobs[j].state) /\ jobs[j].state \notin Moves
    BY <1>1 DEF Moves, Ends
<1> HIDE DEF n
<1>4. Free(jobs, pending, j)
    BY <1>2, <1>3, FreeAtRest
<1>5. PICK b \in JobType :
         /\ Becomes(jobs, pending, t, j, b)
         /\ Consistent(b) /\ InTime(j, b, q, clock, "poll")
         /\ b.goal = jobs[j].goal
    BY <1>2, <1>3, <1>4, FinishedBecomes
<1> HIDE DEF t
<1>6. /\ t.jobs = [jobs EXCEPT ![j] = b] /\ t.pending \in Seq(EventType)
      /\ Linked([jobs EXCEPT ![j] = b], t.pending) /\ NoNewEnd(pending, t.pending)
    BY <1>5 DEF Becomes
<1>7. Sound(q, [jobs EXCEPT ![j] = b], t.pending, clock, "poll")
    BY <1>2, <1>5, <1>6, OneJob
<1>8. SameGoals(jobs, [jobs EXCEPT ![j] = b])
    BY <1>2, <1>5 DEF SameGoals
<1> QED
    BY <1>1, <1>6, <1>7, <1>8 DEF IInv

\* With no instance left the session is over, at once.
LEMMA FinaliseSound ==
    ASSUME Sane, NEW r, NEW js, NEW es, NEW c, Sound(r, js, es, c, "poll"),
           r.phase # "not quiesced", \A j \in Jobs : js[j].state = "waiting"
    PROVE  Sound(Finalise(r), js, es, c, "poll")
<1> DEFINE f == Finalise(r)
<1>1. /\ r \in QuiesceType /\ Phases(r, c, "poll") /\ c \in Nat
      /\ r.start_time \in Nat /\ r.phase_time \in Nat /\ r.max_kill_timeout \in Nat
      /\ r.timer \in Nat
      /\ Longest \in Nat /\ JobRuntime \in Nat
    BY KillTimeoutBounds DEF Sound, Typed, QuiesceType, Sane
<1>2. /\ f \in QuiesceType
      /\ f.phase = "cleanup" /\ f.finalising /\ f.exit
      /\ f.phase_time = r.phase_time /\ f.start_time = r.start_time
  <2>1. r.finalising => r.exit
      BY <1>1 DEF Phases
  <2> QED
      BY <1>1, <2>1, FinaliseFields
<1> HIDE DEF f
<1>3. c <= r.start_time + JobRuntime + Longest + 2
  <2>1. CASE r.phase = "wait"
    <3>1. c <= r.timer /\ r.timer <= r.start_time + JobRuntime
        BY <1>1, <2>1 DEF Phases
    <3> QED
        BY ONLY <1>1, <3>1, WaitBound
  <2>2. CASE r.phase = "kill"
    <3>1. /\ r.phase_time <= r.start_time + JobRuntime /\ r.max_kill_timeout <= Longest
          /\ c <= r.timer /\ r.timer <= r.phase_time + r.max_kill_timeout + 1
        BY <1>1, <2>2 DEF Phases
    <3> QED
        BY ONLY <1>1, <3>1, KillBound
  <2>3. CASE r.phase = "cleanup"
      BY <1>1, <2>3 DEF Phases
  <2> QED
      BY <1>1, <2>1, <2>2, <2>3 DEF QuiesceType
<1>4. Phases(f, c, "poll")
    BY <1>1, <1>2, <1>3 DEF Phases
<1>5. \A j \in Jobs : js[j].pid = "none"
    BY DEF Sound, Consistent
<1>6. \A j \in Jobs : InTime(j, js[j], f, c, "poll")
    BY <1>5, IdleInTime
<1>7. Typed(f, js, es, c, "poll")
    BY <1>2 DEF Sound, Typed
<1>8. Sound(f, js, es, c, "poll")
    BY <1>4, <1>6, <1>7 DEF Sound
<1> QED
    BY <1>8 DEF f

\* event_poll() for one event.
LEMMA PollEventSound == Sane /\ IInv /\ PollEvent => IInv'
<1> SUFFICES ASSUME Sane, IInv, PollEvent PROVE IInv'
    OBVIOUS
<1> DEFINE e == Head(pending)
           s == Handled(With(jobs, Tail(pending)), e)
           t == Settled(s, e)
           over == InProgress /\ \A j \in Jobs : ~HasInstance(s.jobs, j)
<1>1. /\ stage = "poll" /\ pending # <<>>
      /\ q' = (IF over THEN Finalise(q) ELSE q)
      /\ jobs' = t.jobs /\ pending' = t.pending /\ clock' = clock /\ stage' = stage
    BY DEF PollEvent
<1>2. /\ Sound(q, t.jobs, t.pending, clock, stage)
      /\ (\A j \in Jobs : s.jobs[j].state = "waiting") =>
             \A j \in Jobs : t.jobs[j].state = "waiting"
    BY <1>1, PollMoves
<1>3. over => q.phase # "not quiesced" /\ \A j \in Jobs : s.jobs[j].state = "waiting"
    BY DEF InProgress, HasInstance
<1> HIDE DEF e, s, t, over
<1>4. CASE over
  <2>1. Sound(Finalise(q), t.jobs, t.pending, clock, "poll")
      BY <1>1, <1>2, <1>3, <1>4, FinaliseSound
  <2> QED
      BY <1>1, <1>4, <2>1 DEF IInv
<1>5. CASE ~over
    BY <1>1, <1>2, <1>5 DEF IInv
<1> QED
    BY <1>4, <1>5
\* The timer fires only in a phase, and the kill phase has a timeout: the
\* assertions of quiesce_wait_callback() hold.
LEMMA TimerInPhase ==
    ASSUME Sane, IInv, stage = "timer", q.timer \in 1 .. clock
    PROVE  /\ q.phase \in {"wait", "kill"} /\ ~q.exit /\ ~q.finalising
           /\ q.phase = "kill" => q.max_kill_timeout # 0
<1>1. /\ q \in QuiesceType /\ Phases(q, clock, "timer") /\ clock \in Nat
      /\ q.max_kill_timeout \in Nat /\ DefaultKill \in Nat /\ DefaultKill # 0
    BY DEF IInv, Sound, Typed, QuiesceType, Sane
<1>2. q.timer # 0
    BY <1>1
<1>3. ~q.exit /\ q.phase # "not quiesced"
    BY <1>1, <1>2 DEF Phases
<1>4. q.phase # "cleanup" /\ ~q.finalising
    BY <1>1, <1>3 DEF Phases
<1>5. q.phase \in {"wait", "kill"}
    BY <1>1, <1>3, <1>4 DEF QuiesceType
<1>6. q.phase = "kill" => DefaultKill <= q.max_kill_timeout
    BY <1>1 DEF Phases
<1>7. q.phase = "kill" => q.max_kill_timeout # 0
    BY <1>1, <1>6
<1> QED
    BY <1>3, <1>4, <1>5, <1>7

\* The same phase goes on.
LEMMA PhaseGoesOn ==
    ASSUME Sane, IInv, stage = "timer", q.phase \in {"wait", "kill"}, ~q.exit,
           q.phase = "wait" => clock + 1 <= q.start_time + JobRuntime,
           q.phase = "kill" => clock + 1 <= q.phase_time + q.max_kill_timeout + 1
    PROVE  Sound([q EXCEPT !.timer = clock + 1], jobs, pending, clock, stage)
<1> DEFINE t == clock + 1
           f == [q EXCEPT !.timer = t]
<1>1. /\ q \in QuiesceType /\ Phases(q, clock, "timer") /\ clock \in Nat
      /\ Sound(q, jobs, pending, clock, "timer") /\ stage = "timer"
    BY DEF IInv, Sound, Typed
<1>2. t \in Nat /\ clock <= t
    BY <1>1
<1>3. /\ q.phase = "wait" => t <= q.start_time + JobRuntime
      /\ q.phase = "kill" => t <= q.phase_time + q.max_kill_timeout + 1
    OBVIOUS
<1> HIDE DEF t
<1>4. /\ f \in QuiesceType /\ f.phase = q.phase /\ f.requester = q.requester
      /\ f.phase_time = q.phase_time /\ f.start_time = q.start_time
      /\ f.max_kill_timeout = q.max_kill_timeout
      /\ f.timer = t /\ (f.finalising <=> q.finalising) /\ (f.exit <=> q.exit)
    BY <1>1, <1>2 DEF QuiesceType
<1> HIDE DEF f
<1>5. Phases(f, clock, "timer")
    BY <1>1, <1>2, <1>3, <1>4 DEF Phases
<1>6. \A j \in Jobs : InTime(j, jobs[j], f, clock, "timer")
    BY <1>1, <1>4 DEF Sound, InTime
<1>7. Typed(f, jobs, pending, clock, "timer")
    BY <1>1, <1>4 DEF Sound, Typed
<1>8. Sound(f, jobs, pending, clock, "timer")
    BY <1>1, <1>5, <1>6, <1>7 DEF Sound
<1> QED
    BY <1>1, <1>8 DEF f, t

\* The session ends with the timer: nothing runs, or what runs has had its kill
\* signal and the timer for its SIGKILL is due in this turn.
LEMMA TimerEnds ==
    ASSUME Sane, NEW r \in QuiesceType, NEW js \in [Jobs -> JobType], NEW es \in Seq(EventType),
           NEW c \in Nat, c # 0, Linked(js, es), \A j \in Jobs : Consistent(js[j]),
           r.finalising => r.exit, r.start_time <= r.phase_time, r.phase_time <= c,
           c <= r.start_time + JobRuntime + Longest + 1,
           \A j \in Prompt : js[j].pid # "none" =>
               /\ js[j].state \notin {"stopping", "pre-stop", "stopping blocked"}
               /\ js[j].state = "killed" /\ ~js[j].killed =>
                    /\ js[j].due # 0 /\ js[j].due <= c
                    /\ js[j].due <= r.phase_time + 1 + KillTimeout[j],
           NEW f, f = [Finalise(r) EXCEPT !.timer = 0]
    PROVE  Sound(f, js, es, c, "timer")
<1> DEFINE g == Finalise(r)
<1>1. /\ g \in QuiesceType
      /\ g.phase = "cleanup" /\ g.finalising /\ g.exit
      /\ g.phase_time = r.phase_time /\ g.start_time = r.start_time
    BY FinaliseFields
<1>2. f = [g EXCEPT !.timer = 0]
    OBVIOUS
<1> HIDE DEF g
<1>3. /\ f \in QuiesceType
      /\ f.phase = "cleanup" /\ f.finalising /\ f.exit /\ f.timer = 0
      /\ f.phase_time = r.phase_time /\ f.start_time = r.start_time
  <2> DEFINE h == [g EXCEPT !.timer = 0]
  <2>1. /\ h \in QuiesceType /\ h.phase = g.phase /\ h.timer = 0
        /\ (h.finalising <=> g.finalising) /\ (h.exit <=> g.exit)
        /\ h.phase_time = g.phase_time /\ h.start_time = g.start_time
      BY <1>1 DEF QuiesceType
  <2>2. f = h
      BY <1>2
  <2> HIDE DEF h
  <2> QED
      BY <1>1, <2>1, <2>2
<1>4. Phases(f, c, "timer")
    BY <1>3 DEF Phases
<1>5. \A j \in Jobs : InTime(j, js[j], f, c, "timer")
  <2> TAKE j \in Jobs
  <2>1. CASE js[j].pid = "none"
      BY <2>1, IdleInTime
  <2>2. CASE js[j].pid # "none" /\ j \in Prompt
    <3>1. /\ js[j].state \notin {"stopping", "pre-stop", "stopping blocked"}
          /\ js[j].state = "killed" /\ ~js[j].killed =>
               /\ js[j].due # 0 /\ js[j].due <= c
               /\ js[j].due <= f.phase_time + 1 + KillTimeout[j]
        BY <1>3, <2>2
    <3> QED
        BY ONLY <1>3, <3>1 DEF InTime
  <2>3. CASE j \notin Prompt
      BY <2>3 DEF InTime
  <2> QED
      BY <2>1, <2>2, <2>3
<1>6. Typed(f, js, es, c, "timer")
    BY <1>3 DEF Typed, Stages
<1> QED
    BY <1>4, <1>5, <1>6 DEF Sound
\* quiesce_wait_callback(): a phase goes on, the kill phase begins, or it ends.
LEMMA WaitCallbackSound == Sane /\ IInv /\ WaitCallback => IInv'
<1> SUFFICES ASSUME Sane, IInv, WaitCallback PROVE IInv'
    OBVIOUS
<1> DEFINE enter == q.phase = "wait" /\ WaitOver
           s == IF enter THEN StopAll(With(jobs, pending)) ELSE With(jobs, pending)
           r == IF enter THEN [q EXCEPT !.phase = "kill", !.phase_time = clock,
                                        !.max_kill_timeout = MaxKillTimeout(jobs)]
                ELSE q
           done == (q.phase = "kill" /\ KillTimedOut) \/ ~JobsRunning(s.jobs)
<1>1. stage = "timer" /\ q.timer \in 1 .. clock /\ clock' = clock
    BY DEF WaitCallback
<1>2. /\ q.phase \in {"wait", "kill"} /\ ~q.exit /\ ~q.finalising
      /\ q.phase = "kill" => q.max_kill_timeout # 0
    BY <1>1, TimerInPhase
<1>3. /\ q' = IF done THEN [Finalise(r) EXCEPT !.timer = 0] ELSE [r EXCEPT !.timer = clock + 1]
      /\ jobs' = s.jobs /\ pending' = s.pending /\ stage' = stage
    BY <1>2 DEF WaitCallback
<1>4. /\ q \in QuiesceType /\ jobs \in [Jobs -> JobType] /\ pending \in Seq(EventType)
      /\ clock \in Nat /\ clock # 0
      /\ Linked(jobs, pending) /\ Phases(q, clock, "timer")
      /\ (\A j \in Jobs : Consistent(jobs[j]))
      /\ \A j \in Jobs : InTime(j, jobs[j], q, clock, "timer")
    BY <1>1 DEF IInv, Sound, Typed
<1>5. /\ q.phase_time \in Nat /\ q.start_time \in Nat /\ q.timer \in Nat
      /\ q.max_kill_timeout \in Nat /\ Longest \in Nat /\ JobRuntime \in Nat
    BY <1>4, KillTimeoutBounds DEF QuiesceType, Sane
<1>6. q.start_time <= q.phase_time /\ q.phase_time <= clock
    BY <1>4 DEF Phases
<1>7. clock <= q.start_time + JobRuntime + Longest + 1
  <2>1. CASE q.phase = "wait"
    <3>1. clock <= q.timer /\ q.timer <= q.start_time + JobRuntime
        BY <1>4, <2>1 DEF Phases
    <3> QED
        BY ONLY <1>4, <1>5, <3>1, WaitBound
  <2>2. CASE q.phase = "kill"
    <3>1. /\ q.phase_time <= q.start_time + JobRuntime /\ q.max_kill_timeout <= Longest
          /\ clock <= q.timer /\ q.timer <= q.phase_time + q.max_kill_timeout + 1
        BY <1>4, <2>2 DEF Phases
    <3> QED
        BY ONLY <1>4, <1>5, <3>1, KillBound
  <2> QED
      BY <1>2, <2>1, <2>2
<1>8. CASE enter
  <2> DEFINE t == StopAll(With(jobs, pending))
             m == MaxKillTimeout(jobs)
             g == [q EXCEPT !.phase = "kill", !.phase_time = clock, !.max_kill_timeout = m]
  <2>1. /\ q' = IF ~JobsRunning(t.jobs) THEN [Finalise(g) EXCEPT !.timer = 0]
                ELSE [g EXCEPT !.timer = clock + 1]
        /\ jobs' = t.jobs /\ pending' = t.pending
      BY <1>3, <1>8
  <2>2. /\ t.jobs \in [Jobs -> JobType] /\ t.pending \in Seq(EventType)
        /\ Linked(t.jobs, t.pending)
        /\ \A j \in Jobs :
             /\ Consistent(t.jobs[j])
             /\ t.jobs[j].pid = jobs[j].pid
             /\ t.jobs[j].due = jobs[j].due /\ (t.jobs[j].killed <=> jobs[j].killed)
             /\ \/ t.jobs[j].state = jobs[j].state
                \/ jobs[j].state = "running" /\ t.jobs[j].state = "stopping"
                \/ j \in PreStop /\ jobs[j].pid # "none" /\ t.jobs[j].state = "pre-stop"
      BY <1>4, StopAllMoves
  <2>3. m \in Nat /\ DefaultKill <= m /\ m <= Longest
      BY KillTimeoutBounds
  <2> HIDE DEF t
  <2>4. /\ g \in QuiesceType /\ g.phase = "kill" /\ g.requester = q.requester
        /\ g.phase_time = clock /\ g.start_time = q.start_time
        /\ g.max_kill_timeout = m /\ (g.finalising <=> q.finalising) /\ (g.exit <=> q.exit)
    <3> HIDE DEF m
    <3> QED
        BY <1>4, <2>3 DEF QuiesceType
  <2> HIDE DEF g
  <2>5. q.start_time <= clock /\ clock <= q.start_time + JobRuntime
    <3>1. clock <= q.timer /\ q.timer <= q.start_time + JobRuntime
        BY <1>4, <1>8 DEF Phases
    <3> QED
        BY <1>4, <1>5, <1>6, <3>1
  <2>6. CASE ~JobsRunning(t.jobs)
    <3> DEFINE f == [Finalise(g) EXCEPT !.timer = 0]
    <3>1. \A j \in Prompt : t.jobs[j].pid = "none"
        BY <2>6 DEF JobsRunning, Prompt
    <3>2. g.finalising => g.exit
        BY <1>2, <2>4
    <3>3. /\ g.start_time <= g.phase_time /\ g.phase_time <= clock
          /\ clock <= g.start_time + JobRuntime + Longest + 1
        BY <1>4, <1>7, <2>4, <2>5
    <3>4. Sound(f, t.jobs, t.pending, clock, "timer")
      <4> HIDE DEF f
      <4>1. f = [Finalise(g) EXCEPT !.timer = 0]
          BY DEF f
      <4>2. \A j \in Jobs : Consistent(t.jobs[j])
          BY <2>2
      <4> QED
          BY <1>4, <2>2, <2>4, <3>1, <3>2, <3>3, <4>1, <4>2, TimerEnds
    <3> QED
        BY <1>1, <1>3, <2>1, <2>6, <3>4 DEF IInv
  <2>7. CASE JobsRunning(t.jobs)
    <3> DEFINE u == clock + 1
               f == [g EXCEPT !.timer = u]
    <3>1. u \in Nat /\ clock <= u /\ u <= clock + m + 1
      <4> HIDE DEF m
      <4> QED
          BY <1>4, <2>3
    <3>2. q' = f
        BY <2>1, <2>7
    <3> HIDE DEF u
    <3>3. /\ f \in QuiesceType /\ f.phase = "kill" /\ f.requester = g.requester
          /\ f.phase_time = clock /\ f.start_time = g.start_time
          /\ f.max_kill_timeout = m /\ f.timer = u
          /\ (f.finalising <=> g.finalising) /\ (f.exit <=> g.exit)
        BY <2>4, <3>1 DEF QuiesceType
    <3> HIDE DEF f
    <3>4. ~f.exit /\ ~f.finalising
        BY <1>2, <2>4, <3>3
    <3>5. Phases(f, clock, "timer")
      <4>1. clock <= clock
          BY <1>4
      <4> QED
          BY <2>3, <2>4, <2>5, <3>1, <3>3, <3>4, <4>1 DEF Phases
    <3>6. \A j \in Jobs : InTime(j, t.jobs[j], f, clock, "timer")
      <4> TAKE j \in Jobs
      <4>1. InTime(j, jobs[j], q, clock, "timer")
          BY <1>4
      <4>2. /\ f.phase \in {"wait", "kill"} /\ ~f.exit /\ f.phase_time = clock
            /\ f.phase = "kill" => f.max_kill_timeout = MaxKillTimeout(jobs)
          BY <3>3, <3>4
      <4>3. t.jobs[j] \in JobType
          BY <2>2
      <4> QED
          BY <1>2, <1>4, <1>6, <2>2, <3>3, <4>1, <4>2, <4>3, StoppedInTime
    <3>7. Typed(f, t.jobs, t.pending, clock, "timer")
        BY <1>4, <2>2, <3>3 DEF Typed, Stages
    <3>8. Sound(f, t.jobs, t.pending, clock, "timer")
        BY <2>2, <3>5, <3>6, <3>7 DEF Sound
    <3> QED
        BY <1>1, <1>3, <2>1, <3>2, <3>8 DEF IInv
  <2> QED
      BY <2>6, <2>7
<1>9. CASE ~enter
  <2>1. s = With(jobs, pending) /\ r = q
      BY <1>9
  <2>2. /\ s.jobs = jobs /\ s.pending = pending
      BY <2>1, WithFields
  <2>3. /\ jobs' = jobs /\ pending' = pending /\ stage' = stage
        /\ q' = IF done THEN [Finalise(q) EXCEPT !.timer = 0] ELSE [q EXCEPT !.timer = clock + 1]
        /\ done <=> (q.phase = "kill" /\ KillTimedOut) \/ ~JobsRunning(jobs)
      BY <1>3, <2>1, <2>2
  <2> HIDE DEF s, r, done
  <2>4. CASE done
    <3> DEFINE f == [Finalise(q) EXCEPT !.timer = 0]
    <3>1. ASSUME NEW j \in Prompt, jobs[j].pid # "none"
          PROVE  /\ jobs[j].state \notin {"stopping", "pre-stop", "stopping blocked"}
                 /\ jobs[j].state = "killed" /\ ~jobs[j].killed =>
                      /\ jobs[j].due # 0 /\ jobs[j].due <= clock
                      /\ jobs[j].due <= q.phase_time + 1 + KillTimeout[j]
      <4> j \in Jobs
          BY DEF Prompt
      <4>1. JobsRunning(jobs)
          BY <3>1 DEF JobsRunning
      <4>2. q.phase = "kill" /\ clock - q.phase_time > q.max_kill_timeout
          BY <2>3, <2>4, <4>1 DEF KillTimedOut
      <4>3. q.phase_time + q.max_kill_timeout + 1 <= clock
          BY <1>4, <1>5, <4>2
      <4>4. InTime(j, jobs[j], q, clock, "timer") /\ jobs[j].due \in Nat
            /\ KillTimeout[j] \in Nat
          BY <1>4 DEF JobType, Sane
      <4>5. jobs[j].state \notin {"stopping", "pre-stop", "stopping blocked"}
        <5>1. /\ jobs[j].state = "stopping" => clock <= q.phase_time
              /\ jobs[j].state \notin {"pre-stop", "stopping blocked"}
            BY <3>1, <4>4 DEF InTime
        <5>2. ~(clock <= q.phase_time)
            BY <1>4, <1>5, <4>3
        <5> QED
            BY <5>1, <5>2
      <4>6. jobs[j].state = "killed" /\ ~jobs[j].killed =>
              /\ jobs[j].due # 0 /\ jobs[j].due <= q.phase_time + 1 + KillTimeout[j]
              /\ KillTimeout[j] <= q.max_kill_timeout
          BY <3>1, <4>2, <4>4 DEF InTime
      <4>7. jobs[j].due <= q.phase_time + 1 + KillTimeout[j]
              /\ KillTimeout[j] <= q.max_kill_timeout => jobs[j].due <= clock
          BY <1>4, <1>5, <4>3, <4>4
      <4> QED
          BY <4>5, <4>6, <4>7
    <3>2. Sound(f, jobs, pending, clock, "timer")
      <4> HIDE DEF f
      <4>1. f = [Finalise(q) EXCEPT !.timer = 0]
          BY DEF f
      <4>2. q.finalising => q.exit
          BY <1>2
      <4> QED
          BY <1>4, <1>6, <1>7, <3>1, <4>1, <4>2, TimerEnds
    <3> QED
        BY <1>1, <2>3, <2>4, <3>2 DEF IInv
  <2>5. CASE ~done
    <3>1. q.phase = "wait" => clock + 1 <= q.start_time + JobRuntime
      <4> SUFFICES ASSUME q.phase = "wait" PROVE clock + 1 <= q.start_time + JobRuntime
          OBVIOUS
      <4>1. ~(clock - q.phase_time >= JobRuntime) /\ q.phase_time = q.start_time
          BY <1>4, <1>9 DEF WaitOver, Phases
      <4> QED
          BY <1>4, <1>5, <4>1
    <3>2. q.phase = "kill" => clock + 1 <= q.phase_time + q.max_kill_timeout + 1
      <4> SUFFICES ASSUME q.phase = "kill"
                   PROVE  clock + 1 <= q.phase_time + q.max_kill_timeout + 1
          OBVIOUS
      <4>1. ~(clock - q.phase_time > q.max_kill_timeout)
          BY <2>3, <2>5 DEF KillTimedOut
      <4> QED
          BY <1>4, <1>5, <4>1
    <3>3. Sound([q EXCEPT !.timer = clock + 1], jobs, pending, clock, stage)
        BY <1>1, <1>2, <3>1, <3>2, PhaseGoesOn
    <3> QED
        BY <1>1, <2>3, <2>5, <3>3 DEF IInv
  <2> QED
      BY <2>4, <2>5
<1> QED
    BY <1>8, <1>9
-----------------------------------------------------------------------------
(* The theorems *)

\* A session begins with jobs that run or are not there.
LEMMA InitSound == Sane /\ SessionInit => IInv
<1> SUFFICES ASSUME Sane, SessionInit PROVE IInv
    OBVIOUS
<1> DEFINE R(p) == [Gone EXCEPT !.state = "running", !.goal = "start", !.pid = p]
<1>1. /\ q = NotQuiesced /\ pending = <<>> /\ clock = 1 /\ stage = "sleep"
      /\ jobs \in [Jobs -> {Gone} \cup {R(p) : p \in {"alive", "none"}}]
    BY DEF SessionInit
<1>2. /\ Gone \in JobType /\ Consistent(Gone) /\ Gone.state = "waiting"
      /\ Gone.pid = "none"
    BY DEF Gone, JobType, Consistent
<1>3. \A p \in {"alive", "none"} :
         R(p) \in JobType /\ Consistent(R(p)) /\ R(p).state = "running"
    BY DEF Gone, JobType, Consistent
<1> HIDE DEF R
<1>4. \A j \in Jobs : /\ jobs[j] \in JobType /\ Consistent(jobs[j])
                      /\ jobs[j].state \in {"waiting", "running"}
  <2> TAKE j \in Jobs
  <2>1. jobs[j] = Gone \/ \E p \in {"alive", "none"} : jobs[j] = R(p)
      BY <1>1
  <2> QED
      BY <1>2, <1>3, <2>1
<1>5. jobs \in [Jobs -> JobType]
    BY <1>1, <1>4
<1>6. /\ q \in QuiesceType /\ q.phase = "not quiesced" /\ q.requester = "none"
      /\ q.phase_time = 0 /\ q.start_time = 0 /\ q.timer = 0 /\ ~q.finalising /\ ~q.exit
    BY <1>1 DEF NotQuiesced, QuiesceType
<1>7. <<>> \in Seq(EventType)
    OBVIOUS
<1>8. Typed(q, jobs, pending, clock, stage)
  <2>1. 1 \in Nat \ {0} /\ "sleep" \in Stages
      BY DEF Stages
  <2>2. clock \in Nat \ {0} /\ stage \in Stages /\ pending \in Seq(EventType)
      BY ONLY <1>1, <1>7, <2>1
  <2> QED
      BY ONLY <1>5, <1>6, <2>2 DEF Typed
<1>9. Linked(jobs, pending)
  <2>1. \A n \in Moves, j \in Jobs : Never(<<>>, Event(n, j))
      BY DEF Never
  <2>2. \A j \in Jobs : jobs[j].state \notin Moves
      BY <1>4 DEF Moves
  <2> QED
      BY <1>1, <2>1, <2>2 DEF Linked, Awaits
<1>10. \A j \in Jobs : InTime(j, jobs[j], q, clock, stage)
    BY <1>4 DEF InTime
<1>11. Phases(q, clock, stage)
  <2>1. q.start_time <= q.phase_time /\ q.phase_time <= clock
    <3>1. 0 <= 0 /\ 0 <= 1
        OBVIOUS
    <3> QED
        BY ONLY <1>1, <1>6, <3>1
  <2>2. stage # "exited" /\ q.phase \notin {"wait", "kill", "cleanup"}
      BY ONLY <1>1, <1>6
  <2>3. q.timer = 0 /\ q.requester = "none" /\ ~q.exit /\ ~q.finalising
      BY ONLY <1>6
  <2> QED
      BY ONLY <2>1, <2>2, <2>3 DEF Phases
<1> QED
    BY <1>1, <1>4, <1>8, <1>9, <1>10, <1>11 DEF IInv, Sound

\* Every callback and every turn of the loop keeps what is said of jobs, list,
\* phases and clock.
LEMMA NextSound == Sane /\ IInv /\ [SessionNext]_sessionVars => IInv'
<1> SUFFICES ASSUME Sane, IInv, [SessionNext]_sessionVars PROVE IInv'
    OBVIOUS
<1>1. CASE UNCHANGED sessionVars
    BY <1>1 DEF sessionVars, IInv
<1>2. ASSUME NEW r \in {"system", "session"}, Quiesce(r) PROVE IInv'
    BY <1>2, QuiesceSound
<1>3. ASSUME NEW j \in Jobs, Reap(j) PROVE IInv'
    BY <1>3, ReapSound
<1>4. ASSUME NEW j \in Jobs, KillTimer(j) PROVE IInv'
    BY <1>4, KillTimerSound
<1>5. ASSUME NEW j \in Jobs, Die(j) PROVE IInv'
    BY <1>5, DieSound
<1>6. ASSUME NEW j \in Jobs, ReapPreStop(j) PROVE IInv'
    BY <1>6, ReapPreStopSound
<1>7. ASSUME NEW j \in Jobs, DiePreStop(j) PROVE IInv'
    BY <1>7, DiePreStopSound
<1>8. ASSUME NEW j \in Jobs, Unblock(j) PROVE IInv'
    BY <1>8, UnblockSound
<1> QED
    BY <1>1, <1>2, <1>3, <1>4, <1>5, <1>6, <1>7, <1>8, WakeSound, EmitSound, NextStageSound, PollEventSound,
       WaitCallbackSound, TickSound, TickInTurnSound DEF SessionNext

\* The invariant of the end of a session.
LEMMA SessionSound == SessionSpec => []IInv
<1>1. SessionInit => IInv
    BY InitSound, SessionAssumption
<1>2. IInv /\ [SessionNext]_sessionVars => IInv'
    BY NextSound, SessionAssumption
<1> QED
    BY <1>1, <1>2, PTL DEF SessionSpec

\* However many jobs there are and whatever their timeouts, init leaves a session
\* only when a process that is still there, of a job that stops, has been sent its
\* kill signal and then SIGKILL, provided that the job has no pre-stop process and that
\* no job waits for its stopping event: the timeout of the kill phase and the second
\* that quiesce_wait_callback() adds by comparing with > cover the kill timer of each.
\* Without the condition it does not hold: see RunningSignalled.
THEOREM SigkilledBeforeExit == SessionSpec => []KilledBeforeExit
<1>1. IInv => KilledBeforeExit
  <2> SUFFICES ASSUME IInv, stage = "exited", NEW j \in Prompt, jobs[j].pid # "none",
                      jobs[j].goal = "stop" \/ jobs[j].state = "killed"
               PROVE  jobs[j].killed
      BY DEF KilledBeforeExit
  <2>1. /\ q.exit /\ InTime(j, jobs[j], q, clock, stage)
        /\ jobs[j] \in JobType /\ Consistent(jobs[j])
      BY DEF IInv, Sound, Typed, Phases, Prompt
  <2>2. jobs[j].state \notin {"stopping", "pre-stop", "stopping blocked"}
      BY <2>1 DEF InTime
  <2>3. jobs[j].state = "killed"
      BY <2>1, <2>2 DEF Consistent, JobType
  <2> QED
      BY <2>1, <2>3 DEF InTime
<1>2. SessionSpec => []IInv
    BY SessionSound
<1> QED
    BY <1>1, <1>2, PTL

\* However the jobs behave, the session is over after the time of both phases and
\* one more turn, and no assertion of quiesce_wait_callback() fails.
THEOREM SessionEndsInTime == SessionSpec => []EndsInTime
<1>1. IInv => EndsInTime
  <2> SUFFICES ASSUME IInv PROVE EndsInTime
      OBVIOUS
  <2>1. /\ q \in QuiesceType /\ Phases(q, clock, stage) /\ clock \in Nat /\ stage \in Stages
        /\ q.start_time \in Nat /\ q.phase_time \in Nat /\ q.max_kill_timeout \in Nat
        /\ q.timer \in Nat
        /\ Longest \in Nat /\ JobRuntime \in Nat
      BY KillTimeoutBounds, SessionAssumption DEF IInv, Sound, Typed, QuiesceType, Sane
  <2>2. stage # "aborted"
      BY <2>1 DEF Stages
  <2>3. ASSUME InProgress, stage # "exited"
        PROVE  clock <= q.start_time + JobRuntime + Longest + 2
    <3>1. CASE q.phase = "wait"
      <4>1. clock <= q.timer /\ q.timer <= q.start_time + JobRuntime
          BY <2>1, <3>1 DEF Phases
      <4> QED
          BY ONLY <2>1, <4>1, WaitBound
    <3>2. CASE q.phase = "kill"
      <4>1. /\ q.phase_time <= q.start_time + JobRuntime /\ q.max_kill_timeout <= Longest
            /\ clock <= q.timer /\ q.timer <= q.phase_time + q.max_kill_timeout + 1
          BY <2>1, <3>2 DEF Phases
      <4> QED
          BY ONLY <2>1, <4>1, KillBound
    <3>3. CASE q.phase = "cleanup"
      <4>1. q.exit
          BY <2>1, <3>3 DEF Phases
      <4>2. \/ clock <= q.start_time + JobRuntime + Longest + 1
            \/ clock <= q.start_time + JobRuntime + Longest + 2
          BY <2>1, <2>3, <4>1 DEF Phases
      <4> QED
          BY <2>1, <4>2
    <3> QED
        BY <2>1, <2>3, <3>1, <3>2, <3>3 DEF InProgress, QuiesceType
  <2>4. clock <= q.start_time + JobRuntime + Longest + 2 =>
            clock - q.start_time <= JobRuntime + Longest + 2
      BY <2>1
  <2> QED
      BY <2>2, <2>3, <2>4 DEF EndsInTime, Longest
<1>2. SessionSpec => []IInv
    BY SessionSound
<1> QED
    BY <1>1, <1>2, PTL
-----------------------------------------------------------------------------
(* The time of session-end jobs *)

\* An event other than session-end on the list.
LEMMA StillNoEnd ==
    ASSUME NEW es, NEW gs, NoNewEnd(es, gs)
    PROVE  NoEnd(es) => NoEnd(gs)
    BY DEF NoEnd, NoNewEnd

\* A step that leaves quiesce.c's variables, the clock and the stage alone, and
\* neither announces the end again nor sets the goal of a job that is to stop.
LEMMA PatienceKept ==
    ASSUME Patient, q' = q, clock' = clock, stage' = stage,
           NoNewEnd(pending, pending'), AllStopped(jobs) => AllStopped(jobs'),
           stage = "io" /\ q.phase = "not quiesced" => pending' = pending
    PROVE  Patient'
<1>1. Announced(q, pending, clock, stage) /\ Given(q, jobs, pending, clock)
    BY DEF Patient
<1>2. Announced(q, pending', clock, stage)
    BY <1>1 DEF Announced, NoNewEnd
<1>3. Given(q, jobs', pending', clock)
    BY <1>1, StillNoEnd DEF Given
<1> QED
    BY <1>2, <1>3 DEF Patient

\* The first event of the list is taken: session-end is no longer there.
LEMMA TailNoEnd ==
    ASSUME pending \in Seq(EventType), pending # <<>>, Announced(q, pending, clock, stage)
    PROVE  NoEnd(Tail(pending))
<1> SUFFICES ASSUME NEW k \in DOMAIN Tail(pending), Tail(pending)[k] = SessionEndEvent
             PROVE  FALSE
    BY DEF NoEnd
<1>1. /\ k + 1 \in DOMAIN pending /\ Tail(pending)[k] = pending[k + 1] /\ k # 0
    BY TailEvents
<1>2. k \in Nat
    <2>1. Tail(pending) \in Seq(EventType)
        BY TailEvents
    <2> QED
        BY <2>1
<1>3. k + 1 = 1
    BY <1>1 DEF Announced
<1> QED
    BY <1>1, <1>2, <1>3

\* Without session-end on the list nothing is asked of the timer.
LEMMA NoneAnnounced ==
    ASSUME NEW r, NEW es, NEW c, NEW st, NoEnd(es), st # "io" \/ r.phase # "not quiesced" \/ es = <<>>
    PROVE  Announced(r, es, c, st)
    BY DEF Announced, NoEnd

\* event_poll() takes an event.
LEMMA PollEventPatient == Sane /\ NotHooked /\ IInv /\ Patient /\ PollEvent => Patient'
<1> SUFFICES ASSUME Sane, NotHooked, IInv, Patient, PollEvent PROVE Patient'
    OBVIOUS
<1> DEFINE e == Head(pending)
           s == Handled(With(jobs, Tail(pending)), e)
           t == Settled(s, e)
           over == InProgress /\ \A j \in Jobs : ~HasInstance(s.jobs, j)
<1>1. /\ stage = "poll" /\ pending # <<>>
      /\ q' = (IF over THEN Finalise(q) ELSE q)
      /\ jobs' = t.jobs /\ pending' = t.pending /\ clock' = clock /\ stage' = stage
    BY DEF PollEvent
<1>2. /\ Sound(q, t.jobs, t.pending, clock, stage)
      /\ NoNewEnd(Tail(pending), t.pending)
      /\ (\A j \in Jobs : s.jobs[j].state = "waiting") =>
             \A j \in Jobs : t.jobs[j].state = "waiting"
      /\ e = SessionEndEvent => \A j \in SessionEnd : s.jobs[j].state # "waiting"
      /\ e # SessionEndEvent =>
             \A j \in Jobs : (\A k \in Jobs : j \notin Hooks[k]) => t.jobs[j].goal = jobs[j].goal
    BY <1>1, PollMoves
<1>3. over => q.phase # "not quiesced" /\ \A j \in Jobs : s.jobs[j].state = "waiting"
    BY DEF InProgress, HasInstance
<1> HIDE DEF s, t, over
<1>4. /\ q \in QuiesceType /\ pending \in Seq(EventType) /\ Phases(q, clock, stage)
      /\ Announced(q, pending, clock, stage) /\ Given(q, jobs, pending, clock)
    BY DEF IInv, Sound, Typed, Patient
<1>5. e = pending[1] /\ 1 \in DOMAIN pending
    BY <1>1, <1>4, TailEvents
<1> HIDE DEF e
<1>6. NoEnd(t.pending)
  <2>1. NoEnd(Tail(pending))
      BY <1>1, <1>4, TailNoEnd
  <2> QED
      BY <1>2, <2>1, StillNoEnd
<1>7. \A r : Announced(r, t.pending, clock, stage)
    BY <1>1, <1>6, NoneAnnounced
<1>8. q.exit /\ AllStopped(jobs) /\ NoEnd(pending) => AllStopped(t.jobs)
  <2>1. \A j \in SessionEnd : j \in Jobs /\ \A k \in Jobs : j \notin Hooks[k]
      BY DEF Sane, NotHooked
  <2> QED
      BY <1>2, <1>5, <2>1 DEF NoEnd, AllStopped
<1>9. CASE over
  <2> DEFINE f == Finalise(q)
  <2>1. q.finalising => q.exit
      BY <1>4 DEF Phases
  <2>2. /\ f.phase = "cleanup" /\ f.exit /\ f.requester = q.requester
        /\ f.start_time = q.start_time
      BY <1>4, <2>1, FinaliseFields
  <2>3. q' = f
      BY <1>1, <1>9
  <2> HIDE DEF f
  <2>4. \A j \in Jobs : t.jobs[j].state = "waiting" /\ Consistent(t.jobs[j])
      BY <1>2, <1>3, <1>9 DEF Sound
  <2>5. AllStopped(t.jobs)
      BY <2>4 DEF AllStopped, Consistent, Sane
  <2>6. Given(f, t.jobs, t.pending, clock)
      BY <1>6, <2>2, <2>5 DEF Given
  <2> QED
      BY <1>1, <1>7, <2>3, <2>6 DEF Patient
<1>10. CASE ~over
  <2>1. Given(q, t.jobs, t.pending, clock)
      BY <1>4, <1>6, <1>8 DEF Given
  <2> QED
      BY <1>1, <1>7, <1>10, <2>1 DEF Patient
<1> QED
    BY <1>9, <1>10

\* The request: the list holds nothing but session-end and what the jobs emit that
\* leave, and the wait phase begins unless there is nothing to wait for.
LEMMA QuiescePatient ==
    ASSUME Sane, IInv, Patient, NEW requester \in {"system", "session"}, Quiesce(requester)
    PROVE  Patient'
<1> DEFINE phase == IF requester = "system" \/ ~EventMatch THEN "kill" ELSE "wait"
           m == IF phase = "kill" THEN MaxKillTimeout(jobs) ELSE 0
           es == Append(pending, SessionEndEvent)
           s == StopAll(With(jobs, es))
           f == [q EXCEPT !.phase = phase, !.requester = requester,
                          !.phase_time = clock, !.start_time = clock,
                          !.max_kill_timeout = m, !.timer = clock + 1]
<1>1. /\ stage = "io" /\ q.phase = "not quiesced"
      /\ q' = f /\ pending' = s.pending /\ jobs' = s.jobs /\ clock' = clock /\ stage' = stage
    BY DEF Quiesce, InProgress
<1>2. /\ q \in QuiesceType /\ jobs \in [Jobs -> JobType] /\ pending \in Seq(EventType)
      /\ clock \in Nat /\ Linked(jobs, pending)
      /\ \A j \in Jobs : Consistent(jobs[j])
    BY DEF IInv, Sound, Typed
<1>3. pending = <<>>
    BY <1>1 DEF Patient, Announced
<1>4. es \in Seq(EventType) /\ Linked(jobs, es) /\ DOMAIN es = {1}
  <2>1. SessionEndEvent \in EventType /\ ~IsMove(SessionEndEvent)
      BY EventsDiffer DEF EventType, IsMove
  <2>2. es \in Seq(EventType) /\ Linked(jobs, es)
      BY <1>2, <2>1, AppendLinked
  <2>3. DOMAIN es = 1 .. 1
      BY <1>3
  <2>4. 1 .. 1 = {1}
      OBVIOUS
  <2> QED
      BY <2>2, <2>3, <2>4
<1>5. phase \in {"wait", "kill"} /\ (phase = "kill" /\ requester = "session" => SessionEnd = {})
    BY DEF EventMatch
<1> HIDE DEF phase, m
<1>6. f.phase = phase /\ f.requester = requester /\ f.timer = clock + 1
    BY <1>2 DEF QuiesceType
<1> HIDE DEF f, es
<1>7. NoNewEnd(es, s.pending)
    BY <1>2, <1>4, StopAllMoves
<1>8. Announced(f, s.pending, clock, stage)
  <2>1. clock < clock + 1
      BY <1>2
  <2> QED
      BY <1>1, <1>4, <1>5, <1>6, <1>7, <2>1 DEF Announced, NoNewEnd
<1>9. Given(f, s.jobs, s.pending, clock)
    BY <1>5, <1>6 DEF Given
<1> QED
    BY <1>1, <1>8, <1>9 DEF Patient

\* quiesce_wait_callback(): session-end was polled before the timer was due, and the
\* wait phase ends when session-end jobs have had their time or nothing runs.
LEMMA WaitCallbackPatient == Sane /\ IInv /\ Patient /\ WaitCallback => Patient'
<1> SUFFICES ASSUME Sane, IInv, Patient, WaitCallback PROVE Patient'
    OBVIOUS
<1> DEFINE enter == q.phase = "wait" /\ WaitOver
           s == IF enter THEN StopAll(With(jobs, pending)) ELSE With(jobs, pending)
           r == IF enter THEN [q EXCEPT !.phase = "kill", !.phase_time = clock,
                                        !.max_kill_timeout = MaxKillTimeout(jobs)]
                ELSE q
           done == (q.phase = "kill" /\ KillTimedOut) \/ ~JobsRunning(s.jobs)
<1>1. stage = "timer" /\ q.timer \in 1 .. clock /\ clock' = clock
    BY DEF WaitCallback
<1>2. /\ q.phase \in {"wait", "kill"} /\ ~q.exit /\ ~q.finalising
      /\ q.phase = "kill" => q.max_kill_timeout # 0
    BY <1>1, TimerInPhase
<1>3. /\ q' = IF done THEN [Finalise(r) EXCEPT !.timer = 0] ELSE [r EXCEPT !.timer = clock + 1]
      /\ jobs' = s.jobs /\ pending' = s.pending /\ stage' = stage
    BY <1>2 DEF WaitCallback
<1>4. /\ q \in QuiesceType /\ jobs \in [Jobs -> JobType] /\ pending \in Seq(EventType)
      /\ clock \in Nat /\ q.timer \in Nat /\ q.phase_time \in Nat /\ q.start_time \in Nat
      /\ Linked(jobs, pending) /\ Phases(q, clock, "timer")
      /\ (\A j \in Jobs : Consistent(jobs[j]))
      /\ Announced(q, pending, clock, stage) /\ Given(q, jobs, pending, clock)
      /\ JobRuntime \in Nat
    BY <1>1 DEF IInv, Sound, Typed, Patient, QuiesceType, Sane
<1>5. NoEnd(pending)
  <2>1. ~(clock < q.timer)
      BY <1>1, <1>4
  <2> QED
      BY <1>1, <1>4, <2>1 DEF Announced, NoEnd
<1>6. CASE enter
  <2> DEFINE t == StopAll(With(jobs, pending))
             m == MaxKillTimeout(jobs)
             g == [q EXCEPT !.phase = "kill", !.phase_time = clock, !.max_kill_timeout = m]
             f == [Finalise(g) EXCEPT !.timer = 0]
             u == clock + 1
             h == [g EXCEPT !.timer = u]
  <2>1. /\ q' = IF ~JobsRunning(t.jobs) THEN f ELSE h
        /\ jobs' = t.jobs /\ pending' = t.pending
      BY <1>3, <1>6
  <2>2. /\ NoNewEnd(pending, t.pending)
        /\ \A j \in Jobs :
             /\ t.jobs[j].goal = "stop" /\ t.jobs[j].pid = jobs[j].pid
             /\ t.jobs[j].pre # "none" => jobs[j].pre # "none" \/ jobs[j].pid # "none"
      BY <1>4, StopAllMoves
  <2>3. m \in Nat /\ u \in Nat
      BY <1>4, KillTimeoutBounds
  <2> HIDE DEF t, m, u
  <2>4. /\ g \in QuiesceType /\ g.phase = "kill" /\ g.requester = q.requester
        /\ g.start_time = q.start_time /\ (g.finalising <=> q.finalising)
      BY <1>4, <2>3 DEF QuiesceType
  <2> HIDE DEF g
  <2>5. NoEnd(t.pending) /\ AllStopped(t.jobs)
      BY <1>5, <2>2, StillNoEnd DEF AllStopped, Sane
  <2>6. Finalise(g) \in QuiesceType /\ Finalise(g).exit
        /\ Finalise(g).start_time = q.start_time
    <3>1. g.finalising => g.exit
        BY <1>2, <2>4
    <3> QED
        BY <2>4, <3>1, FinaliseFields
  <2>7. f.exit /\ f.start_time = q.start_time
    <3> DEFINE k == Finalise(g)
    <3>1. f = [k EXCEPT !.timer = 0] /\ k \in QuiesceType /\ k.exit /\ k.start_time = q.start_time
        BY <2>6
    <3> HIDE DEF k, f
    <3> QED
        BY ONLY <3>1 DEF QuiesceType
  <2>8. h.start_time = q.start_time
      BY <2>4 DEF QuiesceType
  <2> HIDE DEF f, h
  <2>9. ASSUME JobsRunning(t.jobs) PROVE clock >= q.start_time + JobRuntime
    <3>1. JobsRunning(jobs)
        BY <2>2, <2>9 DEF JobsRunning
    <3>2. clock - q.phase_time >= JobRuntime /\ q.phase_time = q.start_time
        BY <1>4, <1>6, <3>1 DEF WaitOver, Phases
    <3> QED
        BY <1>4, <3>2
  <2>10. Given(q', t.jobs, t.pending, clock)
    <3>1. CASE JobsRunning(t.jobs)
        BY <2>1, <2>8, <2>9, <3>1 DEF Given
    <3>2. CASE ~JobsRunning(t.jobs)
        BY <2>1, <2>5, <2>7, <3>2 DEF Given
    <3> QED
        BY <3>1, <3>2
  <2>11. Announced(q', t.pending, clock, stage)
      BY <1>1, <2>5, NoneAnnounced
  <2> QED
      BY <1>1, <1>3, <2>1, <2>10, <2>11 DEF Patient
<1>7. CASE ~enter
  <2>1. s = With(jobs, pending) /\ r = q
      BY <1>7
  <2>2. s.jobs = jobs /\ s.pending = pending
      BY <2>1, WithFields
  <2> DEFINE f == [Finalise(q) EXCEPT !.timer = 0]
             u == clock + 1
             h == [q EXCEPT !.timer = u]
  <2>3. /\ jobs' = jobs /\ pending' = pending /\ stage' = stage
        /\ q' \in {f, h}
        /\ q.phase = "wait" => JobsRunning(jobs)
        /\ q.phase = "wait" => q' = h
      BY <1>3, <1>7, <2>1, <2>2 DEF WaitOver
  <2> HIDE DEF s, r, done, u
  <2>4. h.phase = q.phase /\ h.requester = q.requester /\ h.start_time = q.start_time
      BY <1>4 DEF QuiesceType
  <2>5. f.requester = q.requester /\ f.start_time = q.start_time
    <3> DEFINE k == Finalise(q)
    <3>1. k \in QuiesceType /\ k.requester = q.requester /\ k.start_time = q.start_time
        BY <1>2, <1>4, FinaliseFields
    <3>2. f = [k EXCEPT !.timer = 0]
        OBVIOUS
    <3> HIDE DEF k, f
    <3> QED
        BY ONLY <3>1, <3>2 DEF QuiesceType
  <2> HIDE DEF f, h
  <2>6. q'.requester = q.requester /\ q'.start_time = q.start_time
      BY <2>3, <2>4, <2>5
  <2>7. q.phase = "wait" => q'.phase = "wait"
      BY <2>3, <2>4
  <2>8. q.phase = "kill" /\ q.requester = "session" /\ SessionEnd # {} =>
            clock >= q.start_time + JobRuntime
      BY <1>2, <1>4 DEF Given
  <2>9. Given(q', jobs, pending, clock)
      BY <1>2, <2>6, <2>7, <2>8 DEF Given
  <2>10. Announced(q', pending, clock, stage)
      BY <1>1, <1>5, NoneAnnounced
  <2> QED
      BY <1>1, <2>3, <2>9, <2>10 DEF Patient
<1> QED
    BY <1>6, <1>7

\* A process is reaped: a job that is to stop is freed.
LEMMA ReapPatient == ASSUME IInv, Patient, NEW j \in Jobs, Reap(j) PROVE Patient'
<1> DEFINE t == Terminated(With(jobs, pending), j)
<1>1. /\ stage = "child" /\ jobs[j].pid = "dead"
      /\ jobs' = t.jobs /\ pending' = t.pending
      /\ q' = q /\ clock' = clock /\ stage' = stage
    BY DEF Reap
<1>2. jobs \in [Jobs -> JobType] /\ pending \in Seq(EventType) /\ Linked(jobs, pending)
      /\ Consistent(jobs[j])
    BY DEF IInv, Sound, Typed
<1>3. PICK b \in JobType :
             /\ Becomes(jobs, pending, t, j, b)
             /\ b.pid = "none" /\ Consistent(b)
             /\ jobs[j].goal = "stop" => b.goal = "stop"
    BY <1>1, <1>2, TerminatedBecomes
<1> HIDE DEF t
<1>4. t.jobs = [jobs EXCEPT ![j] = b] /\ NoNewEnd(pending, t.pending)
    BY <1>3 DEF Becomes
<1>5. AllStopped(jobs) => AllStopped(t.jobs)
    BY <1>2, <1>3, <1>4 DEF AllStopped
<1> QED
    BY <1>1, <1>4, <1>5, PatienceKept

\* The steps that neither poll an event nor end a phase.
LEMMA RestPatient ==
    ASSUME Sane, ~EmitsBefore, IInv, Patient,
           \/ Wake \/ Emit \/ NextStage \/ Tick \/ TickInTurn
           \/ \E j \in Jobs : KillTimer(j) \/ Die(j) \/ DiePreStop(j)
    PROVE  Patient'
<1>1. /\ q \in QuiesceType /\ jobs \in [Jobs -> JobType] /\ pending \in Seq(EventType)
      /\ clock \in Nat /\ (stage = "sleep" => pending = <<>>)
      /\ Announced(q, pending, clock, stage) /\ Given(q, jobs, pending, clock)
      /\ q.start_time \in Nat /\ JobRuntime \in Nat
    BY DEF IInv, Sound, Typed, Patient, QuiesceType, Sane
<1>2. NoNewEnd(pending, pending) /\ DOMAIN (<<>>) = {}
    BY DEF NoNewEnd
<1>3. CASE Wake
  <2>1. stage' = "io" /\ q' = q /\ jobs' = jobs /\ pending' = pending /\ clock' = clock
        /\ pending = <<>>
      BY <1>1, <1>3 DEF Wake
  <2>2. Announced(q, pending, clock, "io")
      BY <1>2, <2>1 DEF Announced
  <2> QED
      BY <1>1, <2>1, <2>2 DEF Patient
<1>4. CASE Emit
  <2>1. /\ pending' = Append(pending, Other) /\ q.phase # "not quiesced"
        /\ q' = q /\ jobs' = jobs /\ clock' = clock /\ stage' = stage
      BY <1>4 DEF Emit, InProgress
  <2>2. NoNewEnd(pending, Append(pending, Other))
    <3>1. Other # SessionEndEvent
        BY DEF Other, SessionEndEvent
    <3> QED
        BY <1>1, <3>1, AppendNoNewEnd
  <2> QED
      BY <2>1, <2>2, PatienceKept
<1>5. CASE NextStage
  <2>1. q' = q /\ jobs' = jobs /\ pending' = pending /\ clock' = clock
      BY <1>5 DEF NextStage
  <2>2. \/ stage = "io" /\ stage' = "child"
        \/ stage = "child" /\ stage' = "timer"
        \/ stage = "timer" /\ stage' = "poll"
        \/ stage = "poll" /\ stage' # "io" /\ pending = <<>>
      BY <1>5 DEF NextStage
  <2>3. Announced(q, pending, clock, stage')
      BY <1>1, <1>2, <2>2 DEF Announced
  <2> QED
      BY <1>1, <2>1, <2>3 DEF Patient
<1>6. CASE Tick \/ TickInTurn
  <2>1. /\ q' = q /\ jobs' = jobs /\ pending' = pending /\ clock' = clock + 1
        /\ \/ stage = "sleep" /\ stage' = stage /\ pending = <<>>
           \/ stage = "timer" /\ stage' = "poll"
      BY <1>1, <1>6 DEF Tick, TickInTurn
  <2>2. Announced(q, pending, clock + 1, stage')
      BY <1>1, <1>2, <2>1 DEF Announced
  <2>3. clock >= q.start_time + JobRuntime => clock + 1 >= q.start_time + JobRuntime
      BY <1>1
  <2>4. Given(q, jobs, pending, clock + 1)
      BY <1>1, <2>3 DEF Given
  <2> QED
      BY <2>1, <2>2, <2>4 DEF Patient
<1>7. ASSUME NEW j \in Jobs, KillTimer(j) \/ Die(j) \/ DiePreStop(j) PROVE Patient'
  <2>1. q' = q /\ pending' = pending /\ clock' = clock /\ stage' = stage
      BY <1>7 DEF KillTimer, Die, DiePreStop
  <2>2. SameGoals(jobs, jobs')
    <3>1. CASE KillTimer(j)
        BY <1>1, <3>1 DEF KillTimer, JobType, SameGoals
    <3>2. CASE Die(j)
        BY <1>1, <3>2 DEF Die, JobType, SameGoals
    <3>3. CASE DiePreStop(j)
      <4>1. jobs \in [Jobs -> JobType] /\ jobs' = [jobs EXCEPT ![j].pre = "dead"]
          BY <1>1, <3>3 DEF DiePreStop
      <4> QED
          BY ONLY <4>1 DEF JobType, SameGoals
    <3> QED
        BY <1>7, <3>1, <3>2, <3>3
  <2>3. AllStopped(jobs) => AllStopped(jobs')
      BY <2>2 DEF AllStopped, SameGoals, Sane
  <2> QED
      BY <1>2, <2>1, <2>3, PatienceKept
<1> QED
    BY <1>3, <1>4, <1>5, <1>6, <1>7

\* Session-end jobs are given their time as long as no event is pending when the
\* session is ended, and nothing else starts them meanwhile.
LEMMA PatienceSound ==
    ASSUME ~EmitsBefore, NotHooked PROVE SessionSpec => [](IInv /\ Patient)
<1>1. SessionInit => IInv /\ Patient
  <2> SUFFICES ASSUME SessionInit PROVE IInv /\ Patient
      OBVIOUS
  <2>1. q.phase = "not quiesced" /\ pending = <<>> /\ DOMAIN pending = {}
    <3>1. q = NotQuiesced /\ pending = <<>> /\ DOMAIN (<<>>) = {}
        BY DEF SessionInit
    <3>2. NotQuiesced.phase = "not quiesced"
        BY DEF NotQuiesced
    <3> QED
        BY <3>1, <3>2
  <2>2. Announced(q, pending, clock, stage)
      BY <2>1 DEF Announced
  <2>3. Given(q, jobs, pending, clock)
      BY <2>1 DEF Given
  <2> QED
      BY <2>2, <2>3, InitSound, SessionAssumption DEF Patient
<1>2. IInv /\ Patient /\ [SessionNext]_sessionVars => (IInv /\ Patient)'
  <2> SUFFICES ASSUME IInv, Patient, [SessionNext]_sessionVars PROVE Patient'
      BY NextSound, SessionAssumption
  <2>1. CASE UNCHANGED sessionVars
      BY <2>1 DEF sessionVars, Patient
  <2>2. ASSUME NEW r \in {"system", "session"}, Quiesce(r) PROVE Patient'
      BY <2>2, QuiescePatient, SessionAssumption
  <2>3. ASSUME NEW j \in Jobs, Reap(j) PROVE Patient'
      BY <2>3, ReapPatient
  <2>4. ASSUME NEW j \in Jobs, ReapPreStop(j) \/ Unblock(j) PROVE Patient'
    <3>1. /\ SameGoals(jobs, jobs') /\ NoNewEnd(pending, pending')
        BY <2>4, ReapPreStopSound, UnblockSound, SessionAssumption
    <3>2. q' = q /\ clock' = clock /\ stage' = stage /\ stage # "io"
        BY <2>4 DEF ReapPreStop, Unblock
    <3>3. AllStopped(jobs) => AllStopped(jobs')
        BY <3>1, SessionAssumption DEF AllStopped, SameGoals, Sane
    <3> QED
        BY <3>1, <3>2, <3>3, PatienceKept
  <2> QED
      BY <2>1, <2>2, <2>3, <2>4, RestPatient, PollEventPatient, WaitCallbackPatient,
         SessionAssumption DEF SessionNext
<1> QED
    BY <1>1, <1>2, PTL DEF SessionSpec

\* A job that runs and is to go on running is asked to stop, or left behind.
Dropped(j) ==
    /\ q.requester = "session"
    /\ jobs[j].pid = "alive" /\ jobs[j].goal = "start"
    /\ jobs'[j].goal = "stop" \/ stage' = "exited"

\* Only quiesce_wait_callback() asks a session-end job to stop whose process goes on.
LEMMA DroppedInTime ==
    ASSUME Sane, IInv, Patient, SessionNext, NEW j \in SessionEnd, Dropped(j)
    PROVE  clock - q.start_time >= JobRuntime \/ jobs'[j].pid = "none"
<1>1. /\ q \in QuiesceType /\ jobs \in [Jobs -> JobType] /\ pending \in Seq(EventType)
      /\ clock \in Nat /\ q.start_time \in Nat /\ JobRuntime \in Nat
      /\ Linked(jobs, pending) /\ Phases(q, clock, stage)
      /\ (\A i \in Jobs : Consistent(jobs[i])) /\ j \in Jobs
      /\ Given(q, jobs, pending, clock)
    BY DEF IInv, Sound, Typed, Patient, QuiesceType, Sane
<1>2. /\ q.requester = "session" /\ jobs[j].pid = "alive" /\ jobs[j].goal = "start"
      /\ jobs'[j].goal = "stop" \/ stage' = "exited"
    BY DEF Dropped
<1>3. q.phase # "not quiesced" /\ ~AllStopped(jobs) /\ SessionEnd # {}
    BY <1>1, <1>2 DEF Phases, AllStopped
<1>4. ASSUME q.exit PROVE clock - q.start_time >= JobRuntime
  <2>1. q.phase = "cleanup"
      BY <1>1, <1>4 DEF Phases
  <2>2. clock >= q.start_time + JobRuntime
      BY <1>1, <1>2, <1>3, <2>1 DEF Given
  <2> QED
      BY <1>1, <2>2
<1>5. stage = "exited" => q.exit
    BY <1>1 DEF Phases
<1>6. CASE NextStage
  <2>1. jobs' = jobs /\ (stage' = "exited" => q.exit)
      BY <1>6 DEF NextStage
  <2> QED
      BY <1>2, <1>4, <2>1
<1>7. CASE Wake \/ Emit \/ Tick \/ TickInTurn
  <2>1. jobs' = jobs /\ (stage' = stage \/ stage' # "exited")
      BY <1>7 DEF Wake, Emit, Tick, TickInTurn
  <2> QED
      BY <1>2, <1>4, <1>5, <2>1
<1>8. ASSUME NEW i \in Jobs,
             KillTimer(i) \/ Die(i) \/ DiePreStop(i) \/ ReapPreStop(i) \/ Unblock(i)
      PROVE  clock - q.start_time >= JobRuntime
  <2>1. stage' = stage
      BY <1>8 DEF KillTimer, Die, DiePreStop, ReapPreStop, Unblock
  <2>2. jobs'[j].goal = jobs[j].goal
    <3>1. CASE KillTimer(i)
        BY <1>1, <3>1 DEF KillTimer, JobType
    <3>2. CASE Die(i)
        BY <1>1, <3>2 DEF Die, JobType
    <3>3. CASE DiePreStop(i)
        BY <1>1, <3>3 DEF DiePreStop, JobType
    <3>4. CASE ReapPreStop(i) \/ Unblock(i)
        BY <1>1, <3>4, ReapPreStopSound, UnblockSound DEF SameGoals
    <3> QED
        BY <1>8, <3>1, <3>2, <3>3, <3>4
  <2> QED
      BY <1>2, <1>4, <1>5, <2>1, <2>2
<1>9. ASSUME NEW r \in {"system", "session"}, Quiesce(r) PROVE FALSE
    BY <1>3, <1>9 DEF Quiesce, InProgress
<1>10. ASSUME NEW i \in Jobs, Reap(i)
       PROVE  clock - q.start_time >= JobRuntime \/ jobs'[j].pid = "none"
  <2> DEFINE t == Terminated(With(jobs, pending), i)
  <2>1. jobs[i].pid = "dead" /\ jobs' = t.jobs /\ stage' = stage /\ stage = "child"
      BY <1>10 DEF Reap
  <2>2. PICK b \in JobType : Becomes(jobs, pending, t, i, b)
      BY <1>1, <2>1, TerminatedBecomes
  <2> HIDE DEF t
  <2>3. jobs' = [jobs EXCEPT ![i] = b]
      BY <2>1, <2>2 DEF Becomes
  <2>4. i # j
      BY <1>2, <2>1
  <2> QED
      BY <1>1, <1>2, <2>1, <2>3, <2>4
<1>11. CASE PollEvent
  <2> DEFINE e == Head(pending)
             s == Handled(With(jobs, Tail(pending)), e)
             t == Settled(s, e)
  <2>1. stage = "poll" /\ pending # <<>> /\ jobs' = t.jobs /\ stage' = stage
      BY <1>11 DEF PollEvent
  <2>2. \A i \in Jobs : jobs[i].goal = "start" => t.jobs[i].goal = "start"
      BY <2>1, PollMoves
  <2> HIDE DEF t
  <2> QED
      BY <1>1, <1>2, <2>1, <2>2
<1>12. CASE WaitCallback
  <2> DEFINE enter == q.phase = "wait" /\ WaitOver
             s == IF enter THEN StopAll(With(jobs, pending)) ELSE With(jobs, pending)
  <2>1. stage = "timer" /\ q.timer \in 1 .. clock
      BY <1>12 DEF WaitCallback
  <2>2. /\ q.phase \in {"wait", "kill"}
        /\ q.phase = "kill" => q.max_kill_timeout # 0
      BY <2>1, TimerInPhase
  <2>3. jobs' = s.jobs /\ stage' = stage
      BY <1>12, <2>2 DEF WaitCallback
  <2>4. enter
    <3> SUFFICES ASSUME ~enter PROVE FALSE
        OBVIOUS
    <3>1. jobs' = jobs
        BY <2>3, WithFields
    <3> QED
        BY <1>2, <2>1, <2>3, <3>1
  <2>5. JobsRunning(jobs)
      BY <1>1, <1>2 DEF JobsRunning
  <2>6. clock - q.phase_time >= JobRuntime /\ q.phase_time = q.start_time
      BY <1>1, <2>4, <2>5 DEF WaitOver, Phases
  <2> QED
      BY <2>6
<1> QED
    BY <1>6, <1>7, <1>8, <1>9, <1>10, <1>11, <1>12 DEF SessionNext

\* As long as no event is pending when a user logs out, and no session-end job also
\* starts on the starting or stopping event of a job, a session-end job that runs is
\* neither asked to stop nor left behind before the time such jobs are given, for any
\* set of jobs and any order of deaths and seconds.
THEOREM SessionEndJobsWaitedFor ==
    ASSUME ~EmitsBefore, NotHooked PROVE SessionSpec => WaitedFor
<1> DEFINE Fair(j) == Dropped(j) => clock - q.start_time >= JobRuntime \/ jobs'[j].pid = "none"
<1>1. IInv /\ Patient /\ [SessionNext]_sessionVars => [\A j \in SessionEnd : Fair(j)]_sessionVars
  <2> SUFFICES ASSUME IInv, Patient, SessionNext, NEW j \in SessionEnd, Dropped(j)
               PROVE  clock - q.start_time >= JobRuntime \/ jobs'[j].pid = "none"
      OBVIOUS
  <2> QED
      BY DroppedInTime, SessionAssumption
<1>2. SessionSpec => [](IInv /\ Patient)
    BY PatienceSound
<1>3. SessionSpec => [][\A j \in SessionEnd : Fair(j)]_sessionVars
    BY <1>1, <1>2, PTL DEF SessionSpec
<1> QED
    BY <1>3 DEF WaitedFor, Dropped
=============================================================================
