--------------------------- MODULE Events_proofs ---------------------------
(***************************************************************************)
(* Proofs about Events, for any set of classes and events and any          *)
(* expressions.                                                            *)
(***************************************************************************)
EXTENDS Events, FiniteSetTheorems, SequenceTheorems, WellFoundedInduction, TLAPS

\* Every set of numbers has a least one.
LEMMA HasLeast ==
  ASSUME NEW S \in SUBSET Nat, S # {}
  PROVE  \E m \in S : \A n \in S : m <= n
<1>1. IsWellFoundedOn(OpToRel(<, Nat), Nat)
  BY NatLessThanWellFounded
<1>2. PICK m \in S : \A n \in S : ~(<<n, m>> \in OpToRel(<, Nat))
  BY <1>1, WFMin
<1>3. ASSUME NEW n \in S PROVE m <= n
  <2>1. ~(<<n, m>> \in OpToRel(<, Nat))
    BY <1>2
  <2>2. ~(n < m)
    BY <2>1 DEF OpToRel
  <2> QED BY <2>2
<1> QED BY <1>3

-----------------------------------------------------------------------------
(* Types *)

EventType ==
  [id : Nat \ {0}, name : EventNames, progress : {"pending", "handling"}, failed : BOOLEAN,
   blockers : Nat, job : Jobs \cup {NoJob}]

JobType ==
  [goal : {"start", "stop"}, state : JobStates, blocker : Nat, pid : BOOLEAN, failed : BOOLEAN]

RefType == [job : Jobs, tree : Trees, node : Nat, event : Nat]

SysType ==
  [events : Seq(EventType), job : [Jobs -> JobType], held : SUBSET RefType,
   blocking : SUBSET RefType, cgmanager_wait : SUBSET Jobs, aborted : BOOLEAN]

-----------------------------------------------------------------------------
(* Counting references *)

\* Only references to the event count.
LEMMA CountIsNat ==
  ASSUME NEW refs, IsFiniteSet(refs), NEW id
  PROVE  /\ Count(refs, id) \in Nat
         /\ Count(refs, id) = 0 <=> \A r \in refs : r.event # id
<1> DEFINE T == {r \in refs : r.event = id}
<1>1. T \in SUBSET refs
  OBVIOUS
<1>2. IsFiniteSet(T)
  BY <1>1, FS_Subset
<1>3. Cardinality(T) \in Nat /\ (Cardinality(T) = 0 <=> T = {})
  BY <1>2, FS_CardinalityType, FS_EmptySet
<1> QED BY <1>3 DEF Count

\* References that are new add up.
LEMMA CountAdds ==
  ASSUME NEW A, NEW B, IsFiniteSet(A), IsFiniteSet(B), A \cap B = {}
  PROVE  /\ IsFiniteSet(A \cup B)
         /\ \A id : Count(A \cup B, id) = Count(A, id) + Count(B, id)
<1>1. IsFiniteSet(A \cup B)
  BY FS_Union
<1>2. ASSUME NEW id PROVE Count(A \cup B, id) = Count(A, id) + Count(B, id)
  <2> DEFINE S == {r \in A : r.event = id}
             T == {r \in B : r.event = id}
  <2>1. S \in SUBSET A /\ T \in SUBSET B /\ {r \in A \cup B : r.event = id} = S \cup T
        /\ S \cap T = {}
    OBVIOUS
  <2>2. IsFiniteSet(S) /\ IsFiniteSet(T)
    BY <2>1, FS_Subset
  <2>3. Cardinality(S) \in Nat /\ Cardinality(T) \in Nat /\ Cardinality(S \cap T) = 0
    BY <2>1, <2>2, FS_CardinalityType, FS_EmptySet
  <2>4. Cardinality(S \cup T) = Cardinality(S) + Cardinality(T) - Cardinality(S \cap T)
    BY <2>2, FS_Union
  <2>5. Count(A, id) = Cardinality(S) /\ Count(B, id) = Cardinality(T)
        /\ Count(A \cup B, id) = Cardinality(S \cup T)
    BY <2>1 DEF Count
  <2> HIDE DEF S, T
  <2> QED BY <2>3, <2>4, <2>5
<1> QED BY <1>1, <1>2

\* References that are dropped count no longer.
LEMMA CountDrops ==
  ASSUME NEW A, NEW B, IsFiniteSet(A), B \subseteq A
  PROVE  /\ IsFiniteSet(A \ B) /\ IsFiniteSet(B)
         /\ \A id : Count(A, id) = Count(A \ B, id) + Count(B, id)
<1>1. IsFiniteSet(A \ B) /\ IsFiniteSet(B)
  BY FS_Subset
<1>2. (A \ B) \cap B = {} /\ (A \ B) \cup B = A
  OBVIOUS
<1>3. \A id : Count((A \ B) \cup B, id) = Count(A \ B, id) + Count(B, id)
  BY <1>1, <1>2, CountAdds
<1> QED BY <1>1, <1>2, <1>3

-----------------------------------------------------------------------------
(* The list of events *)

\* A change of every event of the list.
LEMMA EventsChanged ==
  ASSUME NEW q \in Seq(EventType), NEW f, f = [i \in DOMAIN q |-> f[i]],
         \A i \in 1 .. Len(q) : f[i] \in EventType
  PROVE  f \in Seq(EventType) /\ Len(f) = Len(q) /\ Len(q) \in Nat /\ DOMAIN q = 1 .. Len(q)
<1>1. Len(q) \in Nat /\ DOMAIN q = 1 .. Len(q)
  BY LenProperties
<1>2. f \in [1 .. Len(q) -> EventType]
  BY <1>1
<1> QED BY <1>1, <1>2

\* event_block(): more blockers, and nothing else.
LEMMA EventBlocked ==
  ASSUME NEW s \in SysType, NEW refs, IsFiniteSet(refs), NEW y, y = EventBlock(s, refs)
  PROVE  /\ y \in SysType /\ y.job = s.job /\ y.held = s.held /\ y.blocking = s.blocking
         /\ y.cgmanager_wait = s.cgmanager_wait /\ y.aborted = s.aborted
         /\ Len(y.events) = Len(s.events)
         /\ \A i \in 1 .. Len(s.events) :
              LET e == s.events[i] f == y.events[i]
              IN /\ f.id = e.id /\ f.name = e.name /\ f.progress = e.progress
                 /\ f.failed = e.failed /\ f.job = e.job
                 /\ f.blockers = e.blockers + Count(refs, e.id)
<1> DEFINE q == s.events
           New(e) == Blocked(e, Count(refs, e.id))
           g == [i \in DOMAIN q |-> New(q[i])]
<1>1. y = [s EXCEPT !.events = g]
  BY DEF EventBlock
<1>2. q \in Seq(EventType) /\ Len(q) \in Nat /\ DOMAIN q = 1 .. Len(q)
      /\ \A i \in 1 .. Len(q) : q[i] \in EventType
  BY LenProperties DEF SysType
<1>3. ASSUME NEW i \in 1 .. Len(q)
      PROVE  /\ g[i] = New(q[i]) /\ g[i] \in EventType
             /\ g[i].id = q[i].id /\ g[i].name = q[i].name /\ g[i].progress = q[i].progress
             /\ g[i].failed = q[i].failed /\ g[i].job = q[i].job
             /\ g[i].blockers = q[i].blockers + Count(refs, q[i].id)
  <2>1. Count(refs, q[i].id) \in Nat /\ q[i] \in EventType /\ g[i] = New(q[i])
    BY <1>2, CountIsNat
  <2> DEFINE e == q[i] c == Count(refs, q[i].id)
  <2>2. g[i] = [e EXCEPT !.blockers = @ + c] /\ e \in EventType /\ c \in Nat
    BY <2>1 DEF Blocked
  <2> HIDE DEF e, c, g, q
  <2>3. /\ g[i] \in EventType /\ g[i].id = e.id /\ g[i].name = e.name
        /\ g[i].progress = e.progress /\ g[i].failed = e.failed /\ g[i].job = e.job
        /\ g[i].blockers = e.blockers + c
    BY <2>2 DEF EventType
  <2> QED BY <2>1, <2>3 DEF e, c
<1>4. g = [i \in DOMAIN q |-> g[i]]
  OBVIOUS
<1> HIDE DEF g
<1>5. g \in Seq(EventType) /\ Len(g) = Len(q)
  BY <1>2, <1>3, <1>4, EventsChanged
<1>6. y \in SysType /\ y.events = g /\ y.job = s.job /\ y.held = s.held
      /\ y.blocking = s.blocking /\ y.cgmanager_wait = s.cgmanager_wait /\ y.aborted = s.aborted
  BY <1>1, <1>5 DEF SysType
<1> QED BY <1>3, <1>5, <1>6

\* event_unblock(): fewer, and maybe the event has failed.
LEMMA EventUnblocked ==
  ASSUME NEW s \in SysType, NEW refs, IsFiniteSet(refs), NEW failed \in BOOLEAN,
         NEW y, y = EventUnblock(s, refs, failed),
         \A i \in 1 .. Len(s.events) : Count(refs, s.events[i].id) <= s.events[i].blockers
  PROVE  /\ y \in SysType /\ y.job = s.job /\ y.held = s.held /\ y.blocking = s.blocking
         /\ y.cgmanager_wait = s.cgmanager_wait /\ y.aborted = s.aborted
         /\ Len(y.events) = Len(s.events)
         /\ \A i \in 1 .. Len(s.events) :
              LET e == s.events[i] f == y.events[i]
              IN /\ f.id = e.id /\ f.name = e.name /\ f.progress = e.progress
                 /\ f.job = e.job
                 /\ f.blockers = e.blockers - Count(refs, e.id)
                 /\ f.failed <=> e.failed \/ (failed /\ Count(refs, e.id) > 0)
<1> DEFINE q == s.events
           New(e) == Unblocked(e, Count(refs, e.id), failed)
           g == [i \in DOMAIN q |-> New(q[i])]
<1>1. q \in Seq(EventType) /\ Len(q) \in Nat /\ DOMAIN q = 1 .. Len(q)
      /\ \A i \in 1 .. Len(q) : q[i] \in EventType
  BY LenProperties DEF SysType
<1>2. ~\E i \in DOMAIN q : Count(refs, q[i].id) > q[i].blockers
  <2> SUFFICES ASSUME NEW i \in 1 .. Len(q) PROVE ~(Count(refs, q[i].id) > q[i].blockers)
    BY <1>1
  <2>1. Count(refs, q[i].id) \in Nat /\ q[i].blockers \in Nat
    BY <1>1, CountIsNat DEF EventType
  <2> QED BY <2>1
<1>3. y = [s EXCEPT !.events = g]
  BY <1>2 DEF EventUnblock
<1>4. ASSUME NEW i \in 1 .. Len(q)
      PROVE  /\ g[i] = New(q[i]) /\ g[i] \in EventType
             /\ g[i].id = q[i].id /\ g[i].name = q[i].name /\ g[i].progress = q[i].progress
             /\ g[i].job = q[i].job
             /\ g[i].failed <=> q[i].failed \/ (failed /\ Count(refs, q[i].id) > 0)
             /\ g[i].blockers = q[i].blockers - Count(refs, q[i].id)
  <2>1. Count(refs, q[i].id) \in Nat /\ q[i] \in EventType /\ g[i] = New(q[i])
        /\ Count(refs, q[i].id) <= q[i].blockers
    BY <1>1, CountIsNat
  <2> DEFINE e == q[i] c == Count(refs, q[i].id) m == e.blockers - c
             b == e.failed \/ (failed /\ c > 0)
             h == [e EXCEPT !.blockers = m]
  <2>2. e \in EventType /\ m \in Nat /\ b \in BOOLEAN
    BY <2>1 DEF EventType
  <2>3. g[i] = [h EXCEPT !.failed = b]
    <3>1. g[i] = Unblocked(e, c, failed)
      BY <2>1
    <3> HIDE DEF g
    <3>2. Unblocked(e, c, failed) = [h EXCEPT !.failed = b]
      BY <2>2 DEF Unblocked, EventType
    <3> QED BY <3>1, <3>2
  <2> HIDE DEF m, b, c, e, g, q
  <2>4. /\ h \in EventType /\ h.id = e.id /\ h.name = e.name
        /\ h.progress = e.progress /\ h.job = e.job /\ h.blockers = m
    BY <2>2 DEF EventType
  <2> HIDE DEF h
  <2>5. /\ g[i] \in EventType /\ g[i].id = e.id /\ g[i].name = e.name
        /\ g[i].progress = e.progress /\ g[i].failed = b /\ g[i].job = e.job
        /\ g[i].blockers = m
    BY <2>2, <2>4, <2>3 DEF EventType
  <2> QED BY <2>1, <2>5 DEF e, c, m, b
<1>5. g = [i \in DOMAIN q |-> g[i]]
  OBVIOUS
<1> HIDE DEF g
<1>6. g \in Seq(EventType) /\ Len(g) = Len(q)
  BY <1>1, <1>4, <1>5, EventsChanged
<1>7. y \in SysType /\ y.events = g /\ y.job = s.job /\ y.held = s.held
      /\ y.blocking = s.blocking /\ y.cgmanager_wait = s.cgmanager_wait /\ y.aborted = s.aborted
  BY <1>3, <1>6 DEF SysType
<1> QED BY <1>4, <1>6, <1>7

\* There is always a number that no event of the list has.
LEMMA NewIdUnused ==
  ASSUME NEW s \in SysType
  PROVE  NewId(s) \in Nat \ {0} /\ \A i \in 1 .. Len(s.events) : s.events[i].id # NewId(s)
<1> DEFINE n == Len(s.events)
           f == [i \in 1 .. n |-> s.events[i].id]
           S == (1 .. n + 1) \ Ids(s)
<1>1. n \in Nat /\ DOMAIN s.events = 1 .. n
  BY LenProperties DEF SysType
<1>2. f \in Surjection(1 .. n, Ids(s))
  BY <1>1 DEF Surjection, Ids
<1>3. IsFiniteSet(1 .. n) /\ Cardinality(1 .. n) = n
      /\ IsFiniteSet(1 .. n + 1) /\ Cardinality(1 .. n + 1) = n + 1
  <2>1. 1 \in Int /\ n \in Int /\ n + 1 \in Int
    BY <1>1
  <2>2. IsFiniteSet(1 .. n) /\ Cardinality(1 .. n) = IF 1 > n THEN 0 ELSE n - 1 + 1
    BY <2>1, FS_Interval
  <2>3. IsFiniteSet(1 .. n + 1)
        /\ Cardinality(1 .. n + 1) = IF 1 > n + 1 THEN 0 ELSE (n + 1) - 1 + 1
    BY <2>1, FS_Interval
  <2> QED BY <1>1, <2>2, <2>3
<1>4. IsFiniteSet(Ids(s)) /\ Cardinality(Ids(s)) <= n
  BY <1>2, <1>3, FS_Surjection
<1>5. S # {}
  <2> SUFFICES ASSUME S = {} PROVE FALSE
    OBVIOUS
  <2>1. 1 .. n + 1 \in SUBSET Ids(s)
    OBVIOUS
  <2>2. n + 1 <= Cardinality(Ids(s))
    BY <1>3, <1>4, <2>1, FS_Subset
  <2>3. Cardinality(Ids(s)) \in Nat
    BY <1>4, FS_CardinalityType
  <2> QED BY <1>1, <1>4, <2>2, <2>3
<1>6. S \in SUBSET Nat
  BY <1>1
<1>7. \E m \in S : \A x \in S : m <= x
  BY <1>5, <1>6, HasLeast
<1>8. NewId(s) \in S
  BY <1>7 DEF NewId, Min
<1> QED BY <1>1, <1>8 DEF Ids

\* event_new() adds a pending event.
LEMMA EventAdded ==
  ASSUME NEW s \in SysType, NEW name \in EventNames, NEW j \in Jobs \cup {NoJob},
         NEW y, y = EventNew(s, name, j)
  PROVE  /\ y \in SysType /\ y.job = s.job /\ y.held = s.held /\ y.blocking = s.blocking
         /\ y.cgmanager_wait = s.cgmanager_wait /\ y.aborted = s.aborted
         /\ Len(s.events) \in Nat /\ Len(y.events) = Len(s.events) + 1
         /\ \A i \in 1 .. Len(s.events) : y.events[i] = s.events[i]
         /\ LET e == y.events[Len(y.events)]
            IN /\ e.id = NewId(s) /\ e.job = j /\ e.blockers = 0 /\ e.progress = "pending"
               /\ e.name = name
<1> DEFINE q == s.events
           e == [id |-> NewId(s), name |-> name, progress |-> "pending",
                 failed |-> FALSE, blockers |-> 0, job |-> j]
<1>1. NewId(s) \in Nat \ {0}
  BY NewIdUnused
<1>2. e \in EventType
  BY <1>1 DEF EventType
<1>3. y = [s EXCEPT !.events = Append(q, e)]
  BY DEF EventNew
<1>4. q \in Seq(EventType) /\ Len(q) \in Nat
  BY LenProperties DEF SysType
<1>5. /\ e.id = NewId(s) /\ e.job = j /\ e.blockers = 0 /\ e.progress = "pending"
      /\ e.name = name
  OBVIOUS
<1> HIDE DEF e
<1> DEFINE a == Append(q, e)
<1>6. /\ a \in Seq(EventType) /\ Len(a) = Len(q) + 1
      /\ \A i \in 1 .. Len(q) : a[i] = q[i]
      /\ a[Len(q) + 1] = e
  BY <1>2, <1>4, AppendProperties
<1> HIDE DEF a
<1>7. y \in SysType /\ y.events = a /\ y.job = s.job /\ y.held = s.held
      /\ y.blocking = s.blocking /\ y.cgmanager_wait = s.cgmanager_wait /\ y.aborted = s.aborted
  BY <1>3, <1>6 DEF SysType, a
<1> QED BY <1>4, <1>5, <1>6, <1>7

\* An event is taken out of the list.
LEMMA EventTaken ==
  ASSUME NEW q \in Seq(EventType), NEW i \in 1 .. Len(q), NEW a, a = RemoveAt(q, i)
  PROVE  /\ a \in Seq(EventType) /\ Len(q) \in Nat /\ Len(a) = Len(q) - 1
         /\ \A n \in 1 .. Len(a) : a[n] = IF n < i THEN q[n] ELSE q[n + 1]
<1> DEFINE l == SubSeq(q, 1, i - 1)
           r == SubSeq(q, i + 1, Len(q))
<1>1. Len(q) \in Nat /\ \A n \in 1 .. Len(q) : q[n] \in EventType
  BY LenProperties
<1>2. /\ l \in Seq(EventType) /\ Len(l) = i - 1
      /\ \A n \in 1 .. i - 1 : l[n] = q[n]
  <2>1. 1 \in Int /\ i - 1 \in Int /\ \A n \in 1 .. i - 1 : q[n] \in EventType
    BY <1>1
  <2>2. /\ l \in Seq(EventType) /\ Len(l) = IF 1 <= i - 1 THEN (i - 1) - 1 + 1 ELSE 0
        /\ \A n \in 1 .. (i - 1) - 1 + 1 : l[n] = q[1 + n - 1]
    BY <2>1, SubSeqProperties
  <2> HIDE DEF l
  <2> QED BY <1>1, <2>2
<1>3. /\ r \in Seq(EventType) /\ Len(r) = Len(q) - i
      /\ \A n \in 1 .. Len(q) - i : r[n] = q[i + n]
  <2>1. i + 1 \in Int /\ Len(q) \in Int /\ \A n \in i + 1 .. Len(q) : q[n] \in EventType
    BY <1>1
  <2>2. /\ r \in Seq(EventType) /\ Len(r) = IF i + 1 <= Len(q) THEN Len(q) - (i + 1) + 1 ELSE 0
        /\ \A n \in 1 .. Len(q) - (i + 1) + 1 : r[n] = q[(i + 1) + n - 1]
    BY <2>1, SubSeqProperties
  <2> HIDE DEF r
  <2> QED BY <1>1, <2>2
<1>4. a = l \o r
  BY DEF RemoveAt
<1> HIDE DEF l, r
<1>5. /\ a \in Seq(EventType) /\ Len(a) = Len(l) + Len(r)
      /\ \A n \in 1 .. Len(l) + Len(r) : a[n] = IF n <= Len(l) THEN l[n] ELSE r[n - Len(l)]
  <2> DEFINE c == l \o r
  <2>1. l \in Seq(EventType) /\ r \in Seq(EventType)
    BY <1>2, <1>3
  <2>2. /\ c \in Seq(EventType) /\ Len(c) = Len(l) + Len(r)
        /\ \A n \in 1 .. Len(l) + Len(r) : c[n] = IF n <= Len(l) THEN l[n] ELSE r[n - Len(l)]
    BY <2>1, ConcatProperties
  <2>3. a = c
    BY <1>4
  <2> HIDE DEF c
  <2> QED BY <2>2, <2>3
<1>6. Len(a) = Len(q) - 1
  BY <1>1, <1>2, <1>3, <1>5
<1>7. ASSUME NEW n \in 1 .. Len(a) PROVE a[n] = IF n < i THEN q[n] ELSE q[n + 1]
  <2>1. CASE n < i
    BY <1>1, <1>2, <1>3, <1>5, <1>6, <2>1
  <2>2. CASE ~(n < i)
    <3>1. a[n] = r[n - (i - 1)] /\ n - (i - 1) \in 1 .. Len(q) - i
      BY <1>1, <1>2, <1>3, <1>5, <1>6, <2>2
    <3>2. r[n - (i - 1)] = q[i + (n - (i - 1))]
      BY <1>3, <3>1
    <3>3. i + (n - (i - 1)) = n + 1
      BY <1>1, <1>6
    <3> QED BY <2>2, <3>1, <3>2, <3>3
  <2> QED BY <2>1, <2>2
<1> QED BY <1>1, <1>5, <1>6, <1>7

-----------------------------------------------------------------------------
(* The invariant *)

Leaves(j, tree) == {n \in DOMAIN Tree(j, tree) : Tree(j, tree)[n].op = "match"}

\* The event is in the list and has been shown to the classes, or is being shown.
Handling(s, id) ==
  \E i \in 1 .. Len(s.events) : s.events[i].id = id /\ s.events[i].progress = "handling"

\* A reference is from a leaf of an expression to such an event.
IsRef(s, r) == r.node \in Leaves(r.job, r.tree) /\ Handling(s, r.event)

Unique(s) ==
  \A i, n \in 1 .. Len(s.events) : s.events[i].id = s.events[n].id => i = n

Finite(s) == IsFiniteSet(s.held) /\ IsFiniteSet(s.blocking)

Known(s) == \A r \in s.held \cup s.blocking : IsRef(s, r)

Counted(s) ==
  \A i \in 1 .. Len(s.events) :
    s.events[i].blockers = Count(s.held, s.events[i].id) + Count(s.blocking, s.events[i].id)

\* Jobs and the events that block them refer to each other; event x, which is
\* about to finish, has already told its job.
Tells(s, x) ==
  /\ x = NoEvent \/ \E i \in 1 .. Len(s.events) : s.events[i].id = x
  /\ \A j \in Jobs :
       /\ s.job[j].blocker # NoEvent =>
            /\ s.job[j].state \in {"starting", "stopping"}
            /\ s.job[j].blocker # x
            /\ \E i \in 1 .. Len(s.events) : s.events[i].id = s.job[j].blocker
       /\ \A i \in 1 .. Len(s.events) : s.events[i].id # x =>
            (s.events[i].job = j <=> s.job[j].blocker = s.events[i].id)

\* A job that has not started yet has no process.
ProcessStates(s) ==
  \A j \in Jobs : s.job[j].pid => s.job[j].state \notin {"waiting", "starting"}

Sound(s, x) ==
  /\ s \in SysType /\ Unique(s) /\ Finite(s) /\ Known(s) /\ Counted(s) /\ Tells(s, x)
  /\ ProcessStates(s)

\* A later state of the list: what was in it still is.
Grows(s, y) ==
  /\ Len(s.events) <= Len(y.events)
  /\ \A i \in 1 .. Len(s.events) :
       LET e == s.events[i] f == y.events[i]
       IN /\ f.id = e.id /\ f.name = e.name /\ f.progress = e.progress
          /\ f.job = e.job /\ (e.failed => f.failed)

\* No job fails, either.
Frame(s, y) ==
  /\ Grows(s, y) /\ y.cgmanager_wait = s.cgmanager_wait /\ y.aborted = s.aborted
  /\ \A j \in Jobs : y.job[j].failed => s.job[j].failed

\* References are dropped, but none of a start_on.
Shrinks(s, y) ==
  /\ Frame(s, y) /\ y.held \subseteq s.held /\ y.blocking \subseteq s.blocking
  /\ \A r \in s.held : r.tree = "start" => r \in y.held

\* A reference is held by its leaf or by the job, and not by both.
Apart(s) == s.held \cap s.blocking = {}

\* The classes that have not been shown the event have no reference to it.
NotYet(s, p) == \A r \in s.held \cup s.blocking : r.event = p.event => r.job \notin p.todo

\* A class that waits for the cgroup manager has kept an event.
Waits(s) ==
  \A j \in s.cgmanager_wait :
    /\ j \in Cgroups /\ StartOn[j] # <<>>
    /\ \E r \in s.held : r.job = j /\ r.tree = "start"

PollType == [cursor : Nat, event : Nat, todo : SUBSET Jobs, induct : SUBSET Jobs]

\* Where event_poll() or job_class_induct_jobs() is.
Polls(s, p) ==
  /\ p \in PollType
  /\ p.event = NoEvent => p.todo = {}
  /\ p.event # NoEvent => /\ p.induct = {} /\ p.cursor \in 1 .. Len(s.events)
                          /\ s.events[p.cursor].id = p.event
                          /\ s.events[p.cursor].progress = "handling"
  /\ p.induct \subseteq s.cgmanager_wait

IInv ==
  /\ Sound(sys, NoEvent) /\ Apart(sys) /\ NotYet(sys, poll) /\ Waits(sys) /\ Polls(sys, poll)

-----------------------------------------------------------------------------
(* What the steps leave as it was *)

\* The list has a length.
LEMMA ListLength ==
  ASSUME NEW s \in SysType
  PROVE  /\ Len(s.events) \in Nat /\ DOMAIN s.events = 1 .. Len(s.events)
         /\ \A i \in 1 .. Len(s.events) : s.events[i] \in EventType
BY LenProperties DEF SysType

\* What holds of one step and the next holds of both.
LEMMA FrameTransitive ==
  ASSUME NEW s \in SysType, NEW y \in SysType, NEW z \in SysType
  PROVE  /\ Frame(s, y) /\ Frame(y, z) => Frame(s, z)
         /\ Shrinks(s, y) /\ Shrinks(y, z) => Shrinks(s, z)
<1>1. Len(s.events) \in Nat /\ Len(y.events) \in Nat /\ Len(z.events) \in Nat
  BY ListLength
<1>2. Grows(s, y) /\ Grows(y, z) => Grows(s, z)
  <2> SUFFICES ASSUME Grows(s, y), Grows(y, z) PROVE Grows(s, z)
    OBVIOUS
  <2>1. Len(s.events) <= Len(z.events) /\ 1 .. Len(s.events) \subseteq 1 .. Len(y.events)
    BY <1>1 DEF Grows
  <2> QED BY <2>1 DEF Grows
<1>3. Frame(s, y) /\ Frame(y, z) => Frame(s, z)
  BY <1>2 DEF Frame
<1>4. Shrinks(s, y) /\ Shrinks(y, z) => Shrinks(s, z)
  BY <1>3 DEF Shrinks
<1> QED BY <1>3, <1>4

\* An event that is being handled still is.
LEMMA StillHandling ==
  ASSUME NEW s \in SysType, NEW y \in SysType, Grows(s, y), NEW id, Handling(s, id)
  PROVE  Handling(y, id)
<1>1. Len(s.events) \in Nat /\ Len(y.events) \in Nat
  BY ListLength
<1> QED BY <1>1 DEF Handling, Grows

\* A change of the references alone.
LEMMA Recounted ==
  ASSUME NEW x, NEW s, Sound(s, x), NEW y \in SysType, y.job = s.job,
         Len(y.events) = Len(s.events),
         \A i \in 1 .. Len(s.events) :
           LET e == s.events[i] f == y.events[i]
           IN f.id = e.id /\ f.progress = e.progress /\ f.job = e.job,
         Finite(y), Counted(y), \A r \in y.held \cup y.blocking : IsRef(s, r)
  PROVE  Sound(y, x)
<1>1. Unique(y) /\ Tells(y, x) /\ ProcessStates(y)
  BY DEF Sound, Unique, Tells, ProcessStates
<1>2. Known(y)
  BY DEF Known, IsRef, Handling
<1> QED BY <1>1, <1>2 DEF Sound

-----------------------------------------------------------------------------
(* event_operator.c *)

\* The leaves of an expression are finitely many, and so are its references.
LEMMA LeavesFinite ==
  ASSUME NEW j \in Jobs, NEW tree \in Trees
  PROVE  IsFiniteSet(Leaves(j, tree)) /\ Leaves(j, tree) \subseteq Nat
<1>1. IsExpression(Tree(j, tree))
  BY JobsAssumption DEF Tree
<1>2. Len(Tree(j, tree)) \in Nat /\ DOMAIN Tree(j, tree) = 1 .. Len(Tree(j, tree))
  BY <1>1 DEF IsExpression
<1>3. IsFiniteSet(1 .. Len(Tree(j, tree)))
  BY <1>2, FS_Interval
<1>4. Leaves(j, tree) \in SUBSET (1 .. Len(Tree(j, tree)))
  BY <1>2 DEF Leaves
<1> QED BY <1>2, <1>3, <1>4, FS_Subset

\* The references that event_operator_handle() takes.
LEMMA MatchingRefs ==
  ASSUME NEW s \in SysType, NEW j \in Jobs, NEW tree \in Trees, NEW id \in Nat,
         NEW refs, refs = {Ref(j, tree, n, id) : n \in Matching(s, j, tree, id)}
  PROVE  /\ IsFiniteSet(refs) /\ refs \subseteq RefType /\ refs \cap s.held = {}
         /\ \A r \in refs : /\ r.job = j /\ r.tree = tree /\ r.event = id
                            /\ r.node \in Leaves(j, tree)
<1> DEFINE M == Matching(s, j, tree, id)
           f == [n \in M |-> Ref(j, tree, n, id)]
<1>1. M \in SUBSET Leaves(j, tree)
  BY DEF Matching, Leaves
<1>2. IsFiniteSet(M) /\ M \subseteq Nat
  BY <1>1, LeavesFinite, FS_Subset
<1>3. ASSUME NEW n \in M
      PROVE  /\ Ref(j, tree, n, id) \in RefType /\ Ref(j, tree, n, id) \notin s.held
             /\ Ref(j, tree, n, id).job = j /\ Ref(j, tree, n, id).tree = tree
             /\ Ref(j, tree, n, id).event = id /\ Ref(j, tree, n, id).node = n
  BY <1>2 DEF Ref, RefType, Matching, RefsOf
<1>4. f \in Surjection(M, refs)
  BY DEF Surjection
<1>5. IsFiniteSet(refs)
  BY <1>2, <1>4, FS_Surjection
<1> QED BY <1>1, <1>3, <1>5

\* Another set of references from the leaves.
LEMMA HeldSet ==
  ASSUME NEW s \in SysType, NEW h \in SUBSET RefType, NEW z, z = [s EXCEPT !.held = h]
  PROVE  /\ z \in SysType /\ z.held = h /\ z.events = s.events /\ z.job = s.job
         /\ z.blocking = s.blocking /\ z.cgmanager_wait = s.cgmanager_wait
         /\ z.aborted = s.aborted
BY DEF SysType

\* Another set of references from the jobs.
LEMMA BlockingSet ==
  ASSUME NEW s \in SysType, NEW h \in SUBSET RefType, NEW z, z = [s EXCEPT !.blocking = h]
  PROVE  /\ z \in SysType /\ z.blocking = h /\ z.events = s.events /\ z.job = s.job
         /\ z.held = s.held /\ z.cgmanager_wait = s.cgmanager_wait
         /\ z.aborted = s.aborted
BY DEF SysType

\* event_operator_handle(): leaves take references to the event, which is blocked
\* as often.
LEMMA HandleSound ==
  ASSUME NEW x, NEW s, Sound(s, x), NEW j \in Jobs, NEW tree \in Trees, NEW id \in Nat,
         Handling(s, id), NEW y, y = EventOperatorHandle(s, j, tree, id)
  PROVE  /\ Sound(y, x) /\ Frame(s, y) /\ y.job = s.job /\ y.blocking = s.blocking
         /\ s.held \subseteq y.held
         /\ \A r \in y.held \ s.held : r.job = j /\ r.tree = tree /\ r.event = id
<1> DEFINE refs == {Ref(j, tree, n, id) : n \in Matching(s, j, tree, id)}
           z == [s EXCEPT !.held = s.held \cup refs]
<1>1. s \in SysType /\ Finite(s) /\ Known(s) /\ Counted(s)
  BY DEF Sound
<1>2. /\ IsFiniteSet(refs) /\ refs \subseteq RefType /\ refs \cap s.held = {}
      /\ \A r \in refs : /\ r.job = j /\ r.tree = tree /\ r.event = id
                         /\ r.node \in Leaves(j, tree)
  BY <1>1, MatchingRefs
<1>3. y = EventBlock(z, refs)
  BY DEF EventOperatorHandle
<1> HIDE DEF refs
<1>4. s.held \cup refs \in SUBSET RefType
  BY <1>1, <1>2 DEF SysType
<1>5. /\ z \in SysType /\ z.held = s.held \cup refs /\ z.events = s.events /\ z.job = s.job
      /\ z.blocking = s.blocking /\ z.cgmanager_wait = s.cgmanager_wait
      /\ z.aborted = s.aborted
  BY <1>1, <1>4, HeldSet
<1> HIDE DEF z
<1>6. /\ y \in SysType /\ y.job = s.job /\ y.held = s.held \cup refs /\ y.blocking = s.blocking
      /\ y.cgmanager_wait = s.cgmanager_wait /\ y.aborted = s.aborted
      /\ Len(y.events) = Len(s.events)
      /\ \A i \in 1 .. Len(s.events) :
           LET e == s.events[i] f == y.events[i]
           IN /\ f.id = e.id /\ f.name = e.name /\ f.progress = e.progress
              /\ f.failed = e.failed /\ f.job = e.job
              /\ f.blockers = e.blockers + Count(refs, e.id)
  BY <1>2, <1>3, <1>5, EventBlocked
<1>7. IsFiniteSet(y.held) /\ \A i : Count(y.held, i) = Count(s.held, i) + Count(refs, i)
  <2>1. IsFiniteSet(s.held) /\ IsFiniteSet(refs) /\ s.held \cap refs = {}
    BY <1>1, <1>2 DEF Finite
  <2> DEFINE h == s.held \cup refs
  <2>2. IsFiniteSet(h) /\ \A i : Count(h, i) = Count(s.held, i) + Count(refs, i)
    BY ONLY <2>1, CountAdds
  <2>3. y.held = h
    BY <1>6
  <2> HIDE DEF h
  <2> QED BY <2>2, <2>3
<1>8. Finite(y)
  BY <1>1, <1>6, <1>7 DEF Finite
<1>9. Counted(y)
  <2> SUFFICES ASSUME NEW i \in 1 .. Len(s.events)
               PROVE  LET n == s.events[i].id
                      IN y.events[i].blockers = Count(y.held, n) + Count(y.blocking, n)
    BY <1>6, ZenonT(60) DEF Counted
  <2> DEFINE n == s.events[i].id
  <2>1. Count(s.held, n) \in Nat /\ Count(s.blocking, n) \in Nat /\ Count(refs, n) \in Nat
    BY <1>1, <1>2, CountIsNat DEF Finite
  <2>2. s.events[i].blockers = Count(s.held, n) + Count(s.blocking, n)
    BY <1>1 DEF Counted
  <2>3. y.events[i].blockers = s.events[i].blockers + Count(refs, n)
    BY <1>6
  <2>4. Count(y.held, n) = Count(s.held, n) + Count(refs, n) /\ y.blocking = s.blocking
    BY <1>6, <1>7
  <2> HIDE DEF n
  <2>5. y.events[i].blockers = Count(y.held, n) + Count(y.blocking, n)
    BY <2>1, <2>2, <2>3, <2>4
  <2> QED BY <2>5 DEF n
<1>10. \A r \in y.held \cup y.blocking : IsRef(s, r)
  BY <1>1, <1>2, <1>6 DEF Known, IsRef
<1>11. Sound(y, x)
  BY <1>6, <1>8, <1>9, <1>10, Recounted
<1>12. Frame(s, y)
  <2>1. Len(s.events) \in Nat
    BY <1>1, ListLength
  <2> QED BY <1>6, <2>1 DEF Frame, Grows
<1> QED BY <1>2, <1>6, <1>11, <1>12

\* event_operator_events(): the job takes references of its own to the events that
\* the leaves have.
LEMMA EventsSound ==
  ASSUME NEW x, NEW s, Sound(s, x), Apart(s), NEW j \in Jobs, NEW tree \in Trees,
         NEW y, y = EventOperatorEvents(s, j, tree)
  PROVE  /\ Sound(y, x) /\ Frame(s, y) /\ y.job = s.job /\ y.held = s.held
         /\ y.blocking \subseteq s.blocking \cup RefsOf(s.held, j, tree)
<1> DEFINE refs == {r \in RefsOf(s.held, j, tree) : r.node \in Contributing(s, j, tree)}
           z == [s EXCEPT !.blocking = s.blocking \cup refs]
<1>1. s \in SysType /\ Finite(s) /\ Known(s) /\ Counted(s)
  BY DEF Sound
<1>2. refs \in SUBSET s.held /\ refs \subseteq RefsOf(s.held, j, tree) /\ s.blocking \cap refs = {}
  BY DEF RefsOf, Apart
<1>3. y = EventBlock(z, refs)
  BY DEF EventOperatorEvents
<1> HIDE DEF refs
<1>4. IsFiniteSet(refs) /\ IsFiniteSet(s.blocking)
  BY <1>1, <1>2, FS_Subset DEF Finite
<1>5. s.blocking \cup refs \in SUBSET RefType
  BY <1>1, <1>2 DEF SysType
<1>6. /\ z \in SysType /\ z.blocking = s.blocking \cup refs /\ z.events = s.events
      /\ z.job = s.job /\ z.held = s.held /\ z.cgmanager_wait = s.cgmanager_wait
      /\ z.aborted = s.aborted
  BY <1>1, <1>5, BlockingSet
<1> HIDE DEF z
<1>7. /\ y \in SysType /\ y.job = s.job /\ y.blocking = s.blocking \cup refs /\ y.held = s.held
      /\ y.cgmanager_wait = s.cgmanager_wait /\ y.aborted = s.aborted
      /\ Len(y.events) = Len(s.events)
      /\ \A i \in 1 .. Len(s.events) :
           LET e == s.events[i] f == y.events[i]
           IN /\ f.id = e.id /\ f.name = e.name /\ f.progress = e.progress
              /\ f.failed = e.failed /\ f.job = e.job
              /\ f.blockers = e.blockers + Count(refs, e.id)
  <2>1. /\ y \in SysType /\ y.job = z.job /\ y.held = z.held /\ y.blocking = z.blocking
        /\ y.cgmanager_wait = z.cgmanager_wait /\ y.aborted = z.aborted
        /\ Len(y.events) = Len(z.events)
        /\ \A i \in 1 .. Len(z.events) :
             LET e == z.events[i] f == y.events[i]
             IN /\ f.id = e.id /\ f.name = e.name /\ f.progress = e.progress
                /\ f.failed = e.failed /\ f.job = e.job
                /\ f.blockers = e.blockers + Count(refs, e.id)
    <3>1. z \in SysType /\ IsFiniteSet(refs) /\ y = EventBlock(z, refs)
      BY <1>3, <1>4, <1>6
    <3> QED BY ONLY <3>1, EventBlocked
  <2> QED BY <1>6, <2>1
<1>8. IsFiniteSet(y.blocking)
      /\ \A i : Count(y.blocking, i) = Count(s.blocking, i) + Count(refs, i)
  <2> DEFINE h == s.blocking \cup refs
  <2>1. IsFiniteSet(h) /\ \A i : Count(h, i) = Count(s.blocking, i) + Count(refs, i)
    BY <1>2, <1>4, CountAdds
  <2>2. y.blocking = h
    BY <1>7
  <2> HIDE DEF h
  <2> QED BY <2>1, <2>2
<1>9. Finite(y)
  BY <1>1, <1>7, <1>8 DEF Finite
<1>10. Counted(y)
  <2> SUFFICES ASSUME NEW i \in 1 .. Len(s.events)
               PROVE  LET n == s.events[i].id
                      IN y.events[i].blockers = Count(y.held, n) + Count(y.blocking, n)
    BY <1>7, ZenonT(60) DEF Counted
  <2> DEFINE n == s.events[i].id
  <2>1. Count(s.held, n) \in Nat /\ Count(s.blocking, n) \in Nat /\ Count(refs, n) \in Nat
    BY <1>1, <1>4, CountIsNat DEF Finite
  <2>2. s.events[i].blockers = Count(s.held, n) + Count(s.blocking, n)
    BY <1>1 DEF Counted
  <2>3. y.events[i].blockers = s.events[i].blockers + Count(refs, n)
    BY <1>7
  <2>4. Count(y.blocking, n) = Count(s.blocking, n) + Count(refs, n) /\ y.held = s.held
    BY <1>7, <1>8
  <2> HIDE DEF n
  <2>5. y.events[i].blockers = Count(y.held, n) + Count(y.blocking, n)
    BY <2>1, <2>2, <2>3, <2>4
  <2> QED BY <2>5 DEF n
<1>11. \A r \in y.held \cup y.blocking : IsRef(s, r)
  BY <1>1, <1>2, <1>7 DEF Known
<1>12. Sound(y, x)
  BY <1>7, <1>9, <1>10, <1>11, Recounted
<1>13. Frame(s, y)
  <2>1. Len(s.events) \in Nat
    BY <1>1, ListLength
  <2> QED BY <1>7, <2>1 DEF Frame, Grows
<1> QED BY <1>2, <1>7, <1>12, <1>13

\* References are dropped by the leaves, or by a job, and the events are unblocked
\* as often: event_unblock() finds as many blockers as it takes away.
LEMMA DropSound ==
  ASSUME NEW x, NEW s, Sound(s, x), NEW failed \in BOOLEAN, NEW refs,
         NEW z \in SysType, z.events = s.events, z.job = s.job,
         z.cgmanager_wait = s.cgmanager_wait, z.aborted = s.aborted,
         \/ refs \subseteq s.held /\ z.held = s.held \ refs /\ z.blocking = s.blocking
         \/ refs \subseteq s.blocking /\ z.blocking = s.blocking \ refs /\ z.held = s.held,
         NEW y, y = EventUnblock(z, refs, failed)
  PROVE  /\ Sound(y, x) /\ Frame(s, y) /\ y.job = s.job /\ y.held = z.held
         /\ y.blocking = z.blocking
         /\ failed => \A r \in refs : \A i \in 1 .. Len(s.events) :
                        s.events[i].id = r.event => y.events[i].failed
<1>1. s \in SysType /\ Finite(s) /\ Known(s) /\ Counted(s)
  BY DEF Sound
<1>2. IsFiniteSet(refs) /\ Finite(z)
  BY <1>1, CountDrops DEF Finite
<1>3. ASSUME NEW n
      PROVE  /\ Count(refs, n) \in Nat /\ Count(z.held, n) \in Nat /\ Count(z.blocking, n) \in Nat
             /\ Count(s.held, n) + Count(s.blocking, n)
                  = Count(z.held, n) + Count(z.blocking, n) + Count(refs, n)
  <2>1. /\ Count(refs, n) \in Nat /\ Count(z.held, n) \in Nat /\ Count(z.blocking, n) \in Nat
        /\ Count(s.held, n) \in Nat /\ Count(s.blocking, n) \in Nat
    BY <1>1, <1>2, CountIsNat DEF Finite
  <2>2. CASE refs \subseteq s.held /\ z.held = s.held \ refs /\ z.blocking = s.blocking
    <3>1. Count(s.held, n) = Count(s.held \ refs, n) + Count(refs, n)
      BY <1>1, <2>2, CountDrops DEF Finite
    <3>2. Count(s.held, n) = Count(z.held, n) + Count(refs, n)
      BY <2>2, <3>1
    <3> QED BY <2>1, <2>2, <3>2
  <2>3. CASE refs \subseteq s.blocking /\ z.blocking = s.blocking \ refs /\ z.held = s.held
    <3>1. Count(s.blocking, n) = Count(s.blocking \ refs, n) + Count(refs, n)
      BY <1>1, <2>3, CountDrops DEF Finite
    <3>2. Count(s.blocking, n) = Count(z.blocking, n) + Count(refs, n)
      BY <2>3, <3>1
    <3> QED BY <2>1, <2>3, <3>2
  <2> QED BY <2>2, <2>3
<1>4. ASSUME NEW i \in 1 .. Len(s.events)
      PROVE  LET n == s.events[i].id
             IN s.events[i].blockers = Count(z.held, n) + Count(z.blocking, n) + Count(refs, n)
  BY <1>1, <1>3 DEF Counted
<1>5. \A i \in 1 .. Len(z.events) : Count(refs, z.events[i].id) <= z.events[i].blockers
  <2> SUFFICES ASSUME NEW i \in 1 .. Len(s.events)
               PROVE  Count(refs, s.events[i].id) <= s.events[i].blockers
    OBVIOUS
  <2> DEFINE n == s.events[i].id
  <2>1. s.events[i].blockers = Count(z.held, n) + Count(z.blocking, n) + Count(refs, n)
    BY <1>4
  <2> HIDE DEF n
  <2>2. Count(refs, n) <= s.events[i].blockers
    BY <1>3, <2>1
  <2> QED BY <2>2 DEF n
<1>6. /\ y \in SysType /\ y.job = s.job /\ y.held = z.held /\ y.blocking = z.blocking
      /\ y.cgmanager_wait = s.cgmanager_wait /\ y.aborted = s.aborted
      /\ Len(y.events) = Len(s.events)
      /\ \A i \in 1 .. Len(s.events) :
           LET e == s.events[i] f == y.events[i]
           IN /\ f.id = e.id /\ f.name = e.name /\ f.progress = e.progress
              /\ f.job = e.job
              /\ f.blockers = e.blockers - Count(refs, e.id)
              /\ f.failed <=> e.failed \/ (failed /\ Count(refs, e.id) > 0)
  BY <1>2, <1>5, EventUnblocked, SMTT(30)
<1>7. Finite(y)
  BY <1>2, <1>6 DEF Finite
<1>8. Counted(y)
  <2> SUFFICES ASSUME NEW i \in 1 .. Len(s.events)
               PROVE  LET n == s.events[i].id
                      IN y.events[i].blockers = Count(y.held, n) + Count(y.blocking, n)
    BY <1>6 DEF Counted
  <2> DEFINE n == s.events[i].id
  <2>1. s.events[i].blockers = Count(z.held, n) + Count(z.blocking, n) + Count(refs, n)
    BY <1>4
  <2>2. y.events[i].blockers = s.events[i].blockers - Count(refs, n)
    BY <1>6
  <2> HIDE DEF n
  <2>3. y.events[i].blockers = Count(z.held, n) + Count(z.blocking, n)
    BY <1>3, <2>1, <2>2
  <2> QED BY <1>6, <2>3 DEF n
<1>9. \A r \in y.held \cup y.blocking : IsRef(s, r)
  BY <1>1, <1>6 DEF Known
<1>10. Sound(y, x)
  BY <1>6, <1>7, <1>8, <1>9, Recounted
<1>11. Frame(s, y)
  <2>1. Len(s.events) \in Nat
    BY <1>1, ListLength
  <2> QED BY <1>6, <2>1 DEF Frame, Grows
<1>12. ASSUME failed, NEW r \in refs, NEW i \in 1 .. Len(s.events), s.events[i].id = r.event
       PROVE  y.events[i].failed
  <2>1. Count(refs, s.events[i].id) > 0
    <3>1. Count(refs, r.event) \in Nat /\ Count(refs, r.event) # 0
      BY <1>2, CountIsNat
    <3> QED BY <1>12, <3>1
  <2> QED BY <1>6, <1>12, <2>1
<1> QED BY <1>6, <1>10, <1>11, <1>12

\* event_operator_reset(): the leaves let go of their events.
LEMMA ResetSound ==
  ASSUME NEW x, NEW s, Sound(s, x), NEW j \in Jobs, NEW tree \in Trees,
         NEW y, y = EventOperatorReset(s, j, tree)
  PROVE  /\ Sound(y, x) /\ Frame(s, y) /\ y.job = s.job /\ y.blocking = s.blocking
         /\ y.held = s.held \ RefsOf(s.held, j, tree)
<1> DEFINE refs == RefsOf(s.held, j, tree)
           z == [s EXCEPT !.held = s.held \ refs]
<1>1. y = EventUnblock(z, refs, FALSE)
  BY DEF EventOperatorReset
<1>2. refs \subseteq s.held
  BY DEF RefsOf
<1> HIDE DEF refs
<1>3. s \in SysType /\ s.held \ refs \in SUBSET RefType
  BY DEF Sound, SysType
<1>4. /\ z \in SysType /\ z.held = s.held \ refs /\ z.events = s.events /\ z.job = s.job
      /\ z.blocking = s.blocking /\ z.cgmanager_wait = s.cgmanager_wait
      /\ z.aborted = s.aborted
  BY <1>3, HeldSet
<1> HIDE DEF z
<1>5. /\ Sound(y, x) /\ Frame(s, y) /\ y.job = s.job /\ y.held = z.held
      /\ y.blocking = z.blocking
  <2> DEFINE b == FALSE
  <2>1. b \in BOOLEAN /\ y = EventUnblock(z, refs, b)
    BY <1>1
  <2> HIDE DEF b
  <2>2. refs \subseteq s.held /\ z.held = s.held \ refs /\ z.blocking = s.blocking
    BY <1>2, <1>4
  <2> QED BY <1>4, <2>1, <2>2, DropSound
<1> QED BY <1>4, <1>5 DEF refs

\* job_finished(): the job lets go of its events.
LEMMA FinishedSound ==
  ASSUME NEW x, NEW s, Sound(s, x), NEW j \in Jobs, NEW failed \in BOOLEAN,
         NEW y, y = JobFinished(s, j, failed)
  PROVE  /\ Sound(y, x) /\ Frame(s, y) /\ y.job = s.job /\ y.held = s.held
         /\ y.blocking = s.blocking \ {r \in s.blocking : r.job = j}
         /\ failed => \A r \in s.blocking : r.job = j =>
                        \A i \in 1 .. Len(s.events) :
                          s.events[i].id = r.event => y.events[i].failed
<1> DEFINE refs == {r \in s.blocking : r.job = j}
           z == [s EXCEPT !.blocking = s.blocking \ refs]
<1>1. y = EventUnblock(z, refs, failed)
  BY DEF JobFinished
<1>2. refs \subseteq s.blocking
  OBVIOUS
<1>3. \A r \in s.blocking : r.job = j => r \in refs
  OBVIOUS
<1> HIDE DEF refs
<1> DEFINE h == s.blocking \ refs
<1>4. s \in SysType /\ h \in SUBSET RefType /\ z = [s EXCEPT !.blocking = h]
  BY DEF Sound, SysType
<1> HIDE DEF h, z
<1>5. /\ z \in SysType /\ z.blocking = h /\ z.events = s.events
      /\ z.job = s.job /\ z.held = s.held /\ z.cgmanager_wait = s.cgmanager_wait
      /\ z.aborted = s.aborted
  BY <1>4, BlockingSet
<1> USE DEF h
<1> HIDE DEF z
<1>6. /\ Sound(y, x) /\ Frame(s, y) /\ y.job = s.job /\ y.held = z.held
      /\ y.blocking = z.blocking
      /\ failed => \A r \in refs : \A i \in 1 .. Len(s.events) :
                     s.events[i].id = r.event => y.events[i].failed
  BY <1>1, <1>2, <1>5, DropSound
<1> QED BY <1>3, <1>5, <1>6 DEF refs

-----------------------------------------------------------------------------
(* job.c *)

Put(s, j, rec) == [s EXCEPT !.job[j] = rec]

\* Another record for a job.
LEMMA JobSet ==
  ASSUME NEW s \in SysType, NEW j \in Jobs, NEW rec \in JobType,
         NEW z, z = Put(s, j, rec)
  PROVE  /\ z \in SysType /\ z.events = s.events /\ z.held = s.held
         /\ z.blocking = s.blocking /\ z.cgmanager_wait = s.cgmanager_wait
         /\ z.aborted = s.aborted /\ z.job[j] = rec
         /\ \A k \in Jobs \ {j} : z.job[k] = s.job[k]
<1> DEFINE f == [s.job EXCEPT ![j] = rec]
<1>1. f \in [Jobs -> JobType] /\ f[j] = rec /\ \A k \in Jobs \ {j} : f[k] = s.job[k]
  BY DEF SysType
<1>2. z = [s EXCEPT !.job = f]
  BY DEF Put
<1> HIDE DEF f
<1>3. z.job = f
  BY <1>2 DEF SysType
<1> QED BY <1>1, <1>2, <1>3 DEF SysType

\* A job may be given another goal, state or process, if it is not blocked in a
\* state that no event blocks.
LEMMA JobSound ==
  ASSUME NEW x, NEW s, Sound(s, x), NEW j \in Jobs, NEW rec \in JobType,
         rec.blocker = s.job[j].blocker,
         rec.blocker # NoEvent => rec.state \in {"starting", "stopping"},
         rec.pid => rec.state \notin {"waiting", "starting"},
         NEW z, z = Put(s, j, rec)
  PROVE  /\ Sound(z, x) /\ z.events = s.events /\ z.held = s.held
         /\ z.blocking = s.blocking /\ z.cgmanager_wait = s.cgmanager_wait
         /\ z.aborted = s.aborted /\ z.job[j] = rec
         /\ \A k \in Jobs \ {j} : z.job[k] = s.job[k]
         /\ (rec.failed => s.job[j].failed) => Shrinks(s, z)
<1>1. s \in SysType
  BY DEF Sound
<1>2. /\ z \in SysType /\ z.events = s.events /\ z.held = s.held
      /\ z.blocking = s.blocking /\ z.cgmanager_wait = s.cgmanager_wait
      /\ z.aborted = s.aborted /\ z.job[j] = rec
      /\ \A k \in Jobs \ {j} : z.job[k] = s.job[k]
  BY <1>1, JobSet
<1>3. Unique(z) /\ Finite(z) /\ Known(z) /\ Counted(z)
  BY <1>2 DEF Sound, Unique, Finite, Known, Counted, IsRef, Handling
<1>4. Tells(z, x)
  <2>1. \A k \in Jobs : z.job[k].blocker = s.job[k].blocker
    BY <1>2
  <2>2. \A k \in Jobs : z.job[k].blocker # NoEvent => z.job[k].state \in {"starting", "stopping"}
    BY <1>2 DEF Sound, Tells
  <2> QED BY <1>2, <2>1, <2>2 DEF Sound, Tells
<1>5. ProcessStates(z)
  BY <1>2 DEF Sound, ProcessStates
<1>6. ASSUME rec.failed => s.job[j].failed PROVE Shrinks(s, z)
  <2>1. Len(s.events) \in Nat
    BY <1>1, ListLength
  <2>2. \A k \in Jobs : z.job[k].failed => s.job[k].failed
    BY <1>2, <1>6
  <2> QED BY <1>2, <2>1, <2>2 DEF Shrinks, Frame, Grows
<1> QED BY <1>2, <1>3, <1>4, <1>5, <1>6 DEF Sound

\* A new event has no blockers, as no reference can be to it yet; if it blocks a
\* job, the job has been told so.
LEMMA NewSound ==
  ASSUME NEW x, NEW s, Sound(s, x), NEW name \in EventNames, NEW j \in Jobs \cup {NoJob},
         NEW z \in SysType, z.events = s.events, z.held = s.held, z.blocking = s.blocking,
         z.cgmanager_wait = s.cgmanager_wait, z.aborted = s.aborted,
         ProcessStates(z), \A k \in Jobs : z.job[k].failed => s.job[k].failed,
         \A k \in Jobs \ {j} : z.job[k].blocker = s.job[k].blocker /\ z.job[k].state = s.job[k].state,
         j \in Jobs => /\ z.job[j].blocker = NewId(s) /\ s.job[j].blocker = NoEvent
                       /\ z.job[j].state \in {"starting", "stopping"},
         NEW y, y = EventNew(z, name, j)
  PROVE  Sound(y, x) /\ Shrinks(s, y) /\ y.job = z.job
         /\ y.held = s.held /\ y.blocking = s.blocking
<1> DEFINE id == NewId(s)
<1>1. s \in SysType /\ Len(s.events) \in Nat /\ \A i \in 1 .. Len(s.events) : s.events[i] \in EventType
  BY ListLength DEF Sound
<1>2. id \in Nat \ {0} /\ \A i \in 1 .. Len(s.events) : s.events[i].id # id
  BY <1>1, NewIdUnused
<1>3. NewId(z) = id
  BY DEF NewId, Ids
<1>4. /\ y \in SysType /\ y.job = z.job /\ y.held = s.held /\ y.blocking = s.blocking
      /\ y.cgmanager_wait = s.cgmanager_wait /\ y.aborted = s.aborted
      /\ Len(y.events) = Len(s.events) + 1
      /\ \A i \in 1 .. Len(s.events) : y.events[i] = s.events[i]
  BY EventAdded
<1> DEFINE m == Len(y.events)
<1>5. y.events[m].id = id /\ y.events[m].job = j /\ y.events[m].blockers = 0
  BY <1>3, EventAdded
<1> HIDE DEF id, m
<1>6. \A i \in 1 .. m : (i \in 1 .. Len(s.events) /\ y.events[i] = s.events[i]) \/ i = m
  BY <1>1, <1>4 DEF m
<1>7. m \in 1 .. m /\ 1 .. Len(s.events) \subseteq 1 .. m /\ m \notin 1 .. Len(s.events)
  BY <1>1, <1>4 DEF m
<1>8. Unique(y)
  <2>1. Unique(s)
    BY DEF Sound
  <2>2. ASSUME NEW i \in 1 .. m, NEW k \in 1 .. m, y.events[i].id = y.events[k].id
        PROVE  i = k
    <3>1. CASE i = m /\ k = m
      BY <3>1
    <3>2. CASE i \in 1 .. Len(s.events) /\ k \in 1 .. Len(s.events)
      BY ONLY <1>4, <2>1, <2>2, <3>2 DEF Unique
    <3>3. CASE i \in 1 .. Len(s.events) /\ k = m
      BY ONLY <1>2, <1>4, <1>5, <2>2, <3>3
    <3>4. CASE i = m /\ k \in 1 .. Len(s.events)
      BY ONLY <1>2, <1>4, <1>5, <2>2, <3>4
    <3> QED BY ONLY <1>6, <3>1, <3>2, <3>3, <3>4
  <2> QED BY ONLY <2>2 DEF Unique, m
<1>9. Finite(y) /\ Known(y)
  <2>1. Finite(s) /\ Known(s)
    BY DEF Sound
  <2> QED BY <1>4, <1>7, <2>1 DEF Finite, Known, IsRef, Handling, m
<1>10. Counted(y)
  <2>1. Counted(s) /\ Known(s) /\ Finite(s)
    BY DEF Sound
  <2>2. \A r \in s.held \cup s.blocking : r.event # id
    BY <1>2, <2>1 DEF Known, IsRef, Handling
  <2>3. Count(s.held, id) = 0 /\ Count(s.blocking, id) = 0
    BY <2>1, <2>2, CountIsNat DEF Finite
  <2>4. ASSUME NEW i \in 1 .. Len(y.events)
        PROVE  y.events[i].blockers = Count(y.held, y.events[i].id) + Count(y.blocking, y.events[i].id)
    <3>1. CASE i \in 1 .. Len(s.events) /\ y.events[i] = s.events[i]
      BY <1>4, <2>1, <3>1 DEF Counted
    <3>2. CASE i = m
      BY <1>4, <1>5, <2>3, <3>2
    <3> QED BY <1>6, <3>1, <3>2 DEF m
  <2> QED BY <2>4 DEF Counted
<1>11. Tells(y, x)
  <2>0. Tells(s, x)
    BY DEF Sound
  <2>1. x # id
    BY <1>2, <2>0 DEF Tells, NoEvent
  <2>2. x = NoEvent \/ \E i \in 1 .. Len(y.events) : y.events[i].id = x
    BY <1>4, <1>7, <2>0 DEF Tells, m
  <2>3. ASSUME NEW k \in Jobs, k # j
        PROVE  /\ y.job[k].blocker # NoEvent =>
                    /\ y.job[k].state \in {"starting", "stopping"}
                    /\ y.job[k].blocker # x
                    /\ \E i \in 1 .. Len(y.events) : y.events[i].id = y.job[k].blocker
               /\ \A i \in 1 .. Len(y.events) : y.events[i].id # x =>
                    (y.events[i].job = k <=> y.job[k].blocker = y.events[i].id)
    <3>1. y.job[k].blocker = s.job[k].blocker /\ y.job[k].state = s.job[k].state
      BY <1>4, <2>3
    <3>2. y.job[k].blocker # id
      BY <1>2, <2>0, <3>1 DEF Tells, NoEvent
    <3>3. y.job[k].blocker # NoEvent =>
                    /\ y.job[k].state \in {"starting", "stopping"}
                    /\ y.job[k].blocker # x
                    /\ \E i \in 1 .. Len(y.events) : y.events[i].id = y.job[k].blocker
      BY <1>4, <1>7, <2>0, <3>1 DEF Tells, m
    <3>4. ASSUME NEW i \in 1 .. Len(y.events), y.events[i].id # x
          PROVE  y.events[i].job = k <=> y.job[k].blocker = y.events[i].id
      <4>1. CASE i = m
        BY <1>5, <2>3, <3>2, <4>1
      <4>2. CASE i \in 1 .. Len(s.events) /\ y.events[i] = s.events[i]
        BY <2>0, <3>1, <3>4, <4>2 DEF Tells
      <4> QED BY <1>6, <4>1, <4>2 DEF m
    <3> QED BY <3>3, <3>4
  <2>4. ASSUME j \in Jobs
        PROVE  /\ y.job[j].blocker # NoEvent =>
                    /\ y.job[j].state \in {"starting", "stopping"}
                    /\ y.job[j].blocker # x
                    /\ \E i \in 1 .. Len(y.events) : y.events[i].id = y.job[j].blocker
               /\ \A i \in 1 .. Len(y.events) : y.events[i].id # x =>
                    (y.events[i].job = j <=> y.job[j].blocker = y.events[i].id)
    <3>1. y.job[j].blocker = id /\ y.job[j].state \in {"starting", "stopping"}
          /\ s.job[j].blocker = NoEvent
      BY <1>4, <2>4 DEF id
    <3>2. /\ y.job[j].blocker # x
          /\ \E i \in 1 .. Len(y.events) : y.events[i].id = y.job[j].blocker
      BY <1>5, <1>7, <2>1, <3>1 DEF m
    <3>3. ASSUME NEW i \in 1 .. Len(y.events), y.events[i].id # x
          PROVE  y.events[i].job = j <=> y.job[j].blocker = y.events[i].id
      <4>1. CASE i = m
        BY <1>5, <3>1, <4>1
      <4>2. CASE i \in 1 .. Len(s.events) /\ y.events[i] = s.events[i]
        <5>1. s.events[i].id # 0 /\ s.events[i].id # id
          BY <1>1, <1>2, <4>2 DEF EventType
        <5>2. s.events[i].job = j <=> s.job[j].blocker = s.events[i].id
          BY <2>0, <2>4, <3>3, <4>2 DEF Tells
        <5> QED BY <3>1, <4>2, <5>1, <5>2 DEF NoEvent
      <4> QED BY <1>6, <4>1, <4>2 DEF m
    <3> QED BY <3>1, <3>2, <3>3
  <2> QED BY <2>2, <2>3, <2>4 DEF Tells
<1>12. ProcessStates(y)
  BY <1>4 DEF ProcessStates
<1>13. Shrinks(s, y)
  BY <1>1, <1>4 DEF Shrinks, Frame, Grows
<1> QED BY <1>4, <1>8, <1>9, <1>10, <1>11, <1>12, <1>13 DEF Sound

\* The names of the events of a job.
LEMMA JobEventNames ==
  ASSUME NEW j \in Jobs, NEW kind \in {"starting", "started", "stopping", "stopped"}
  PROVE  EventName(kind, j) \in EventNames
BY JobsAssumption DEF EventName, EventNames, Kinds

\* An event that blocks nobody.
LEMMA PlainEventSound ==
  ASSUME NEW x, NEW s, Sound(s, x), NEW name \in EventNames, NEW y, y = EventNew(s, name, NoJob)
  PROVE  Sound(y, x) /\ Shrinks(s, y) /\ y.job = s.job
         /\ y.held = s.held /\ y.blocking = s.blocking
<1>1. NoJob \notin Jobs /\ NoJob \in Jobs \cup {NoJob}
  BY JobsAssumption
<1>2. s \in SysType /\ ProcessStates(s)
  BY DEF Sound
<1> QED BY <1>1, <1>2, NewSound

\* The event that a job emits and waits for.
LEMMA BlockingEventSound ==
  ASSUME NEW x, NEW s, Sound(s, x), NEW j \in Jobs, s.job[j].blocker = NoEvent,
         NEW kind \in {"starting", "stopping"}, s.job[j].state = kind,
         NEW y, y = EmitBlocking(s, j, kind)
  PROVE  Sound(y, x) /\ Shrinks(s, y) /\ y.job[j].state = kind
<1> DEFINE rec == [s.job[j] EXCEPT !.blocker = NewId(s)]
           z == Put(s, j, rec)
           name == EventName(kind, j)
<1>1. s \in SysType /\ s.job[j] \in JobType /\ ProcessStates(s)
  BY DEF Sound, SysType
<1>2. NewId(s) \in Nat
  BY <1>1, NewIdUnused
<1>3. /\ rec \in JobType /\ rec.blocker = NewId(s) /\ rec.state = s.job[j].state
      /\ rec.pid = s.job[j].pid /\ rec.failed = s.job[j].failed
  BY <1>1, <1>2 DEF JobType
<1>4. y = EventNew(z, name, j) /\ name \in EventNames
  BY JobEventNames DEF EmitBlocking, Put
<1> HIDE DEF rec, z, name
<1>5. /\ z \in SysType /\ z.events = s.events /\ z.held = s.held
      /\ z.blocking = s.blocking /\ z.cgmanager_wait = s.cgmanager_wait
      /\ z.aborted = s.aborted /\ z.job[j] = rec
      /\ \A k \in Jobs \ {j} : z.job[k] = s.job[k]
  BY <1>1, <1>3, JobSet DEF z
<1>6. ProcessStates(z)
  BY <1>1, <1>3, <1>5 DEF ProcessStates
<1>7. \A k \in Jobs : z.job[k].failed => s.job[k].failed
  BY <1>3, <1>5
<1>8. j \in Jobs \cup {NoJob}
      /\ (j \in Jobs => /\ z.job[j].blocker = NewId(s) /\ s.job[j].blocker = NoEvent
                        /\ z.job[j].state \in {"starting", "stopping"})
      /\ \A k \in Jobs \ {j} : z.job[k].blocker = s.job[k].blocker /\ z.job[k].state = s.job[k].state
  BY <1>3, <1>5
<1>9. Sound(y, x) /\ Shrinks(s, y) /\ y.job = z.job
  BY <1>4, <1>5, <1>6, <1>7, <1>8, NewSound
<1> QED BY <1>3, <1>5, <1>9

\* A step of the job: references are let go and events are emitted.  A job with a
\* process does not come into state killed without one.
Moved(s, y, x, j) ==
  /\ Sound(y, x) /\ Shrinks(s, y)
  /\ y.job[j].state = "killed" /\ y.job[j].pid => s.job[j].pid

\* Nothing at all is such a step.
LEMMA StayedSound ==
  ASSUME NEW x, NEW s, Sound(s, x), NEW j \in Jobs
  PROVE  Moved(s, s, x, j)
<1>1. s \in SysType /\ Len(s.events) \in Nat
  BY ListLength DEF Sound
<1> QED BY <1>1 DEF Moved, Shrinks, Frame, Grows

\* job_change_state() to starting.
LEMMA StartingSound ==
  ASSUME NEW x, NEW s, Sound(s, x), NEW j \in Jobs, s.job[j].blocker = NoEvent,
         ~s.job[j].pid, NEW y, y = EnterStarting(s, j)
  PROVE  Moved(s, y, x, j)
<1> DEFINE a == [s.job[j] EXCEPT !.state = "starting"]
           w == Put(s, j, a)
           b == [a EXCEPT !.failed = FALSE]
           z == Put(w, j, b)
<1>1. s \in SysType /\ s.job[j] \in JobType
  BY DEF Sound, SysType
<1>2. /\ a \in JobType /\ a.state = "starting" /\ a.blocker = s.job[j].blocker
      /\ a.pid = s.job[j].pid /\ a.failed = s.job[j].failed
  BY <1>1 DEF JobType, JobStates
<1> HIDE DEF a
<1>3. /\ b \in JobType /\ b.state = "starting" /\ b.blocker = s.job[j].blocker
      /\ b.pid = s.job[j].pid /\ ~b.failed
  BY <1>2 DEF JobType
<1> HIDE DEF b, w, z
<1>4. Sound(w, x) /\ w.job[j] = a /\ Shrinks(s, w)
  BY <1>2, JobSound DEF w
<1>5. Sound(z, x) /\ z.job[j] = b /\ Shrinks(w, z)
  <2>1. b.blocker = w.job[j].blocker
    BY <1>2, <1>3, <1>4
  <2> QED BY <1>3, <1>4, <2>1, JobSound DEF z
<1>6. y = EmitBlocking(z, j, "starting")
  <2>1. w.job[j] = a
    BY <1>4
  <2>2. [s EXCEPT !.job[j].state = "starting", !.job[j].failed = FALSE] = z
    BY <2>1 DEF w, z, a, b, Put
  <2> QED BY <2>2 DEF EnterStarting
<1>7. Sound(y, x) /\ Shrinks(z, y) /\ y.job[j].state = "starting"
  BY <1>3, <1>5, <1>6, BlockingEventSound
<1>8. w \in SysType /\ z \in SysType /\ y \in SysType
  BY <1>4, <1>5, <1>7 DEF Sound
<1>9. Shrinks(s, y)
  BY <1>1, <1>4, <1>5, <1>7, <1>8, FrameTransitive
<1> QED BY <1>7, <1>9 DEF Moved

\* job_change_state() to spawned: the main process is forked.
LEMMA SpawnedSound ==
  ASSUME NEW x, NEW s, Sound(s, x), NEW j \in Jobs, s.job[j].blocker = NoEvent,
         NEW y, y = EnterSpawned(s, j)
  PROVE  Moved(s, y, x, j)
<1> DEFINE a == [s.job[j] EXCEPT !.state = "spawned"]
           w == Put(s, j, a)
           b == [a EXCEPT !.pid = TRUE]
           z == Put(w, j, b)
<1>1. s \in SysType /\ s.job[j] \in JobType /\ ProcessStates(s)
  BY DEF Sound, SysType
<1>2. /\ a \in JobType /\ a.state = "spawned" /\ a.blocker = s.job[j].blocker
      /\ a.pid = s.job[j].pid /\ a.failed = s.job[j].failed
  BY <1>1 DEF JobType, JobStates
<1> HIDE DEF a
<1>3. /\ b \in JobType /\ b.state = "spawned" /\ b.blocker = s.job[j].blocker
      /\ b.failed = s.job[j].failed
  BY <1>2 DEF JobType
<1> HIDE DEF b, w, z
<1>4. Sound(w, x) /\ w.job[j] = a /\ Shrinks(s, w)
  BY <1>2, JobSound DEF w
<1>5. Sound(z, x) /\ z.job[j] = b /\ Shrinks(w, z)
  <2>1. b.blocker = w.job[j].blocker /\ b.failed = w.job[j].failed
    BY <1>2, <1>3, <1>4
  <2> QED BY <1>3, <1>4, <2>1, JobSound DEF z
<1>6. y = z
  <2>1. w.job[j] = a
    BY <1>4
  <2> QED BY <2>1 DEF w, z, a, b, Put, EnterSpawned
<1>7. w \in SysType /\ z \in SysType
  BY <1>4, <1>5 DEF Sound
<1>8. Shrinks(s, z)
  BY <1>1, <1>4, <1>5, <1>7, FrameTransitive
<1> QED BY <1>3, <1>5, <1>6, <1>8 DEF Moved

PutState(s, j, v) == [s EXCEPT !.job[j].state = v]

\* The state alone changes.
LEMMA StateSet ==
  ASSUME NEW x, NEW s, Sound(s, x), NEW j \in Jobs, s.job[j].blocker = NoEvent,
         NEW v \in JobStates \ {"waiting", "starting"},
         NEW z, z = PutState(s, j, v)
  PROVE  /\ Sound(z, x) /\ Shrinks(s, z) /\ z.job[j].state = v
         /\ z.job[j].blocker = NoEvent /\ z.job[j].pid = s.job[j].pid
<1> DEFINE a == [s.job[j] EXCEPT !.state = v]
<1>1. s.job[j] \in JobType
  BY DEF Sound, SysType
<1>2. /\ a \in JobType /\ a.state = v /\ a.blocker = s.job[j].blocker
      /\ a.pid = s.job[j].pid /\ a.failed = s.job[j].failed
  BY <1>1 DEF JobType
<1>3. z = Put(s, j, a)
  BY DEF Put, PutState
<1> HIDE DEF a
<1>4. /\ a.blocker # NoEvent => a.state \in {"starting", "stopping"}
      /\ a.pid => a.state \notin {"waiting", "starting"}
      /\ a.failed => s.job[j].failed
  BY <1>2
<1>5. Sound(z, x) /\ Shrinks(s, z) /\ z.job[j] = a
  BY <1>2, <1>3, <1>4, JobSound
<1> QED BY <1>2, <1>5

\* Letting go of the events that wait for the job.
LEMMA FinishedMoves ==
  ASSUME NEW x, NEW s, Sound(s, x), NEW j \in Jobs, NEW failed \in BOOLEAN,
         NEW y, y = JobFinished(s, j, failed)
  PROVE  Sound(y, x) /\ Shrinks(s, y) /\ y.job = s.job
<1>1. /\ Sound(y, x) /\ Frame(s, y) /\ y.job = s.job /\ y.held = s.held
      /\ y.blocking = s.blocking \ {r \in s.blocking : r.job = j}
  BY FinishedSound
<1>2. y.blocking \subseteq s.blocking
  BY <1>1
<1> QED BY <1>1, <1>2 DEF Shrinks

\* job_change_state() to running.
LEMMA RunningSound ==
  ASSUME NEW x, NEW s, Sound(s, x), NEW j \in Jobs, s.job[j].blocker = NoEvent,
         NEW y, y = EnterRunning(s, j)
  PROVE  Moved(s, y, x, j)
<1> DEFINE z == [s EXCEPT !.job[j].state = "running"]
           name == EventName("started", j)
           r == EventNew(z, name, NoJob)
<1>1. y = IF j \in Task THEN r ELSE JobFinished(r, j, FALSE)
  BY DEF EnterRunning
<1>2. "running" \in JobStates \ {"waiting", "starting"} /\ name \in EventNames
  BY JobEventNames DEF JobStates
<1>3. /\ Sound(z, x) /\ Shrinks(s, z) /\ z.job[j].state = "running"
  <2> DEFINE v == "running"
  <2>1. z = PutState(s, j, v) /\ v \in JobStates \ {"waiting", "starting"}
    BY <1>2 DEF PutState
  <2> HIDE DEF z
  <2>2. Sound(z, x) /\ Shrinks(s, z) /\ z.job[j].state = v
    <3> HIDE DEF v
    <3> QED BY <2>1, StateSet
  <2> QED BY <2>2
<1> HIDE DEF z, name
<1>4. Sound(r, x) /\ Shrinks(z, r) /\ r.job = z.job
  BY <1>2, <1>3, PlainEventSound
<1> HIDE DEF r
<1>5. Sound(y, x) /\ Shrinks(r, y) /\ y.job = r.job
  <2>1. CASE j \in Task
    BY <1>1, <1>4, <2>1, StayedSound DEF Moved
  <2>2. CASE j \notin Task
    <3> DEFINE b == FALSE
    <3>1. y = JobFinished(r, j, b) /\ b \in BOOLEAN
      BY <1>1, <2>2
    <3> HIDE DEF b
    <3> QED BY <1>4, <3>1, FinishedMoves
  <2> QED BY <2>1, <2>2
<1>6. s \in SysType /\ z \in SysType /\ r \in SysType /\ y \in SysType
  BY <1>3, <1>4, <1>5 DEF Sound
<1>7. Shrinks(s, r)
  BY <1>3, <1>4, <1>6, FrameTransitive
<1>8. Shrinks(s, y)
  BY <1>5, <1>6, <1>7, FrameTransitive
<1>9. y.job[j].state = "running"
  BY <1>3, <1>4, <1>5
<1> QED BY <1>5, <1>8, <1>9 DEF Moved

\* job_change_state() to stopping.
LEMMA StoppingSound ==
  ASSUME NEW x, NEW s, Sound(s, x), NEW j \in Jobs, s.job[j].blocker = NoEvent,
         NEW y, y = EnterStopping(s, j)
  PROVE  Moved(s, y, x, j)
<1> DEFINE v == "stopping"
           z == PutState(s, j, v)
<1>1. y = EmitBlocking(z, j, v) /\ v \in JobStates \ {"waiting", "starting"}
      /\ v \in {"starting", "stopping"} /\ v # "killed"
  BY DEF EnterStopping, JobStates, PutState
<1> HIDE DEF v
<1>2. Sound(z, x) /\ Shrinks(s, z) /\ z.job[j].state = v /\ z.job[j].blocker = NoEvent
  BY <1>1, StateSet
<1> HIDE DEF z
<1>3. Sound(y, x) /\ Shrinks(z, y) /\ y.job[j].state = v
  BY <1>1, <1>2, BlockingEventSound
<1>4. s \in SysType /\ z \in SysType /\ y \in SysType
  BY <1>2, <1>3 DEF Sound
<1>5. Shrinks(s, y)
  BY <1>2, <1>3, <1>4, FrameTransitive
<1> QED BY <1>1, <1>3, <1>5 DEF Moved

\* job_change_state() to waiting: the instance is freed, with its stop_on.
LEMMA WaitingSound ==
  ASSUME NEW x, NEW s, Sound(s, x), NEW j \in Jobs, s.job[j].blocker = NoEvent,
         NEW y, y = EnterWaiting(s, j)
  PROVE  Moved(s, y, x, j)
<1> DEFINE b == FALSE
           name == EventName("stopped", j)
           n == EventNew(s, name, NoJob)
           f == JobFinished(n, j, b)
           z == Put(f, j, NoJobState)
           t == "stop"
<1>1. y = EventOperatorReset(z, j, t) /\ t \in Trees /\ b \in BOOLEAN
  BY DEF EnterWaiting, Put, Trees
<1>2. name \in EventNames
  BY JobEventNames
<1> HIDE DEF b, name
<1>3. Sound(n, x) /\ Shrinks(s, n) /\ n.job = s.job
  BY <1>2, PlainEventSound
<1> HIDE DEF n
<1>4. Sound(f, x) /\ Shrinks(n, f) /\ f.job = s.job
  BY <1>1, <1>3, FinishedMoves
<1> HIDE DEF f
<1>5. /\ NoJobState \in JobType /\ NoJobState.blocker = NoEvent /\ ~NoJobState.pid
      /\ ~NoJobState.failed /\ NoJobState.state = "waiting"
  BY DEF NoJobState, JobType, JobStates, NoEvent
<1>6. Sound(z, x) /\ Shrinks(f, z) /\ z.job[j] = NoJobState
  BY <1>4, <1>5, JobSound
<1> HIDE DEF z
<1>7. /\ Sound(y, x) /\ Frame(z, y) /\ y.job = z.job /\ y.blocking = z.blocking
      /\ y.held = z.held \ RefsOf(z.held, j, t)
  <2> HIDE DEF t
  <2> QED BY <1>1, <1>6, ResetSound
<1>8. Shrinks(z, y)
  BY <1>7 DEF Shrinks, RefsOf
<1>9. s \in SysType /\ n \in SysType /\ f \in SysType /\ z \in SysType /\ y \in SysType
  BY <1>3, <1>4, <1>6, <1>7 DEF Sound
<1>10. Shrinks(s, f)
  BY <1>3, <1>4, <1>9, FrameTransitive
<1>11. Shrinks(f, y)
  BY <1>6, <1>8, <1>9, FrameTransitive
<1>12. Shrinks(s, y)
  BY <1>9, <1>10, <1>11, FrameTransitive
<1>13. y.job[j].state = "waiting"
  BY <1>5, <1>6, <1>7
<1> QED BY <1>7, <1>12, <1>13 DEF Moved

\* What follows the end of the main process of a job that is being stopped.
LEMMA LeaveKilledSound ==
  ASSUME NEW x, NEW s, Sound(s, x), NEW j \in Jobs, s.job[j].blocker = NoEvent,
         ~s.job[j].pid, NEW y, y = LeaveKilled(s, j)
  PROVE  Moved(s, y, x, j)
<1>1. CASE s.job[j].goal = "start"
  BY <1>1, StartingSound DEF LeaveKilled
<1>2. CASE s.job[j].goal # "start"
  BY <1>2, WaitingSound DEF LeaveKilled
<1> QED BY <1>1, <1>2

\* job_change_state() to killed, and on if there is nothing to kill.
LEMMA KilledSound ==
  ASSUME NEW x, NEW s, Sound(s, x), NEW j \in Jobs, s.job[j].blocker = NoEvent,
         NEW y, y = EnterKilled(s, j)
  PROVE  Moved(s, y, x, j)
<1>1. CASE s.job[j].pid
  <2> DEFINE v == "killed"
  <2>1. y = PutState(s, j, v) /\ v \in JobStates \ {"waiting", "starting"}
    BY <1>1 DEF EnterKilled, JobStates, PutState
  <2> HIDE DEF v
  <2>2. Sound(y, x) /\ Shrinks(s, y)
    BY <2>1, StateSet
  <2> QED BY <1>1, <2>2 DEF Moved
<1>2. CASE ~s.job[j].pid
  BY <1>2, LeaveKilledSound DEF EnterKilled
<1> QED BY <1>1, <1>2

\* job_change_state() to whatever comes next.  A job in state killed gets there by
\* the end of its process.
LEMMA NextStateSound ==
  ASSUME NEW x, NEW s, Sound(s, x), NEW j \in Jobs,
         s.job[j].state = "killed" => ~s.job[j].pid,
         NEW y, y = JobNextState(s, j)
  PROVE  Moved(s, y, x, j)
<1>1. s \in SysType /\ s.job[j] \in JobType /\ ProcessStates(s)
  BY DEF Sound, SysType
<1>2. s.job[j].state \in JobStates
  BY <1>1 DEF JobType
<1>3. CASE s.job[j].blocker # NoEvent
  <2>1. y = s
    BY <1>3 DEF JobNextState
  <2> QED BY <2>1, StayedSound
<1>4. CASE s.job[j].blocker = NoEvent /\ s.job[j].state = "waiting"
  <2>1. y = EnterStarting(s, j)
    BY <1>4 DEF JobNextState
  <2>2. ~s.job[j].pid
    BY <1>1, <1>4 DEF ProcessStates
  <2> QED BY <1>4, <2>1, <2>2, StartingSound
<1>5. CASE s.job[j].blocker = NoEvent /\ s.job[j].state = "starting"
  <2>1. y = IF s.job[j].goal = "start" THEN EnterSpawned(s, j) ELSE EnterStopping(s, j)
    BY <1>5 DEF JobNextState
  <2>2. y = EnterSpawned(s, j) \/ y = EnterStopping(s, j)
    BY <2>1
  <2> QED BY <1>5, <2>2, SpawnedSound, StoppingSound
<1>6. CASE s.job[j].blocker = NoEvent /\ s.job[j].state = "spawned"
  <2>1. y = IF s.job[j].goal = "start" THEN EnterRunning(s, j) ELSE EnterStopping(s, j)
    BY <1>6 DEF JobNextState
  <2>2. y = EnterRunning(s, j) \/ y = EnterStopping(s, j)
    BY <2>1
  <2> QED BY <1>6, <2>2, RunningSound, StoppingSound
<1>7. CASE s.job[j].blocker = NoEvent /\ s.job[j].state = "running"
  <2>1. y = EnterStopping(s, j)
    BY <1>7 DEF JobNextState
  <2> QED BY <1>7, <2>1, StoppingSound
<1>8. CASE s.job[j].blocker = NoEvent /\ s.job[j].state = "stopping"
  <2>1. y = EnterKilled(s, j)
    BY <1>8 DEF JobNextState
  <2> QED BY <1>8, <2>1, KilledSound
<1>9. CASE s.job[j].blocker = NoEvent /\ s.job[j].state = "killed"
  <2>1. y = LeaveKilled(s, j)
    BY <1>9 DEF JobNextState
  <2> QED BY <1>9, <2>1, LeaveKilledSound
<1> QED BY <1>2, <1>3, <1>4, <1>5, <1>6, <1>7, <1>8, <1>9 DEF JobStates

\* Two steps of a job.
LEMMA MovedTransitive ==
  ASSUME NEW x, NEW s, Sound(s, x), NEW z, Sound(z, x), Shrinks(s, z), NEW j \in Jobs,
         z.job[j].pid => s.job[j].pid, NEW y, Moved(z, y, x, j)
  PROVE  Moved(s, y, x, j)
<1>1. s \in SysType /\ z \in SysType /\ y \in SysType
  BY DEF Sound, Moved
<1> QED BY <1>1, FrameTransitive DEF Moved

\* job_change_goal().
LEMMA GoalSound ==
  ASSUME NEW x, NEW s, Sound(s, x), NEW j \in Jobs, NEW goal \in {"start", "stop"},
         NEW y, y = JobChangeGoal(s, j, goal)
  PROVE  Moved(s, y, x, j)
<1> DEFINE a == [s.job[j] EXCEPT !.goal = goal]
           g == Put(s, j, a)
<1>1. s \in SysType /\ s.job[j] \in JobType /\ ProcessStates(s) /\ Tells(s, x)
  BY DEF Sound, SysType
<1>2. /\ a \in JobType /\ a.state = s.job[j].state /\ a.blocker = s.job[j].blocker
      /\ a.pid = s.job[j].pid /\ a.failed = s.job[j].failed
  BY <1>1 DEF JobType
<1>3. y = IF s.job[j].goal = goal THEN s
          ELSE IF \/ goal = "start" /\ s.job[j].state = "waiting"
                  \/ goal = "stop" /\ s.job[j].state = "running"
               THEN JobNextState(g, j)
               ELSE g
  BY DEF JobChangeGoal, Put
<1> HIDE DEF a, g
<1>4. /\ a.blocker # NoEvent => a.state \in {"starting", "stopping"}
      /\ a.pid => a.state \notin {"waiting", "starting"}
      /\ a.failed => s.job[j].failed
  BY <1>1, <1>2 DEF Tells, ProcessStates
<1>5. Sound(g, x) /\ Shrinks(s, g) /\ g.job[j] = a
  BY <1>2, <1>4, JobSound DEF g
<1>6. g.job[j].pid => s.job[j].pid
  BY <1>2, <1>5
<1>7. CASE s.job[j].goal = goal
  <2>1. y = s
    BY <1>3, <1>7
  <2> QED BY <2>1, StayedSound
<1>8. CASE s.job[j].goal # goal /\ s.job[j].state \in {"waiting", "running"} /\ y = JobNextState(g, j)
  <2>1. g.job[j].state # "killed"
    BY <1>2, <1>5, <1>8
  <2>2. Moved(g, y, x, j)
    BY <1>5, <1>8, <2>1, NextStateSound
  <2> QED BY <1>5, <1>6, <2>2, MovedTransitive
<1>9. CASE y = g
  BY <1>5, <1>6, <1>9 DEF Moved
<1>10. \/ s.job[j].goal = goal
       \/ s.job[j].goal # goal /\ s.job[j].state \in {"waiting", "running"} /\ y = JobNextState(g, j)
       \/ y = g
  BY <1>3
<1> QED BY <1>7, <1>8, <1>9, <1>10

-----------------------------------------------------------------------------
(* How an event changes a class *)

\* The references that are new are to the event, from the expression of the class.
OnlyNew(s, y, j, tree, id) ==
  \A r \in y.held \cup y.blocking :
    r \in s.held \cup s.blocking \/ (r.job = j /\ r.tree = tree /\ r.event = id)

Starting(j, tree) == IF tree = "start" THEN {j} ELSE {}

\* References of a start_on are let go by its own class only.
KeepsStarts(s, y, J) ==
  \A r \in s.held : r.tree = "start" /\ r.job \notin J => r \in y.held

\* The events that made an expression true are handed to the job, whose goal
\* changes, and the expression is reset.
LEMMA HandedOver ==
  ASSUME NEW x, NEW s, Sound(s, x), Apart(s), NEW j \in Jobs, NEW tree \in Trees,
         NEW goal \in {"start", "stop"}, NEW e, Sound(e, x), Frame(s, e), e.held = s.held,
         e.blocking \subseteq s.blocking \cup RefsOf(s.held, j, tree),
         NEW y, y = EventOperatorReset(JobChangeGoal(e, j, goal), j, tree)
  PROVE  /\ Sound(y, x) /\ Frame(s, y) /\ Apart(y) /\ RefsOf(y.held, j, tree) = {}
         /\ \A r \in y.held \cup y.blocking : r \in s.held \cup s.blocking
         /\ KeepsStarts(s, y, Starting(j, tree))
<1> DEFINE c == JobChangeGoal(e, j, goal)
<1>1. Sound(c, x) /\ Shrinks(e, c)
  BY GoalSound DEF Moved
<1> HIDE DEF c
<1>2. /\ Sound(y, x) /\ Frame(c, y) /\ y.blocking = c.blocking
      /\ y.held = c.held \ RefsOf(c.held, j, tree)
  BY <1>1, ResetSound DEF c
<1>3. s \in SysType /\ e \in SysType /\ c \in SysType /\ y \in SysType
  BY <1>1, <1>2 DEF Sound
<1>4. Frame(s, y)
  <2>1. Frame(e, c)
    BY <1>1 DEF Shrinks
  <2>2. Frame(s, c)
    BY <1>3, <2>1, FrameTransitive
  <2> QED BY <1>2, <1>3, <2>2, FrameTransitive
<1>5. c.held \subseteq s.held /\ c.blocking \subseteq s.blocking \cup RefsOf(s.held, j, tree)
      /\ \A r \in s.held : r.tree = "start" => r \in c.held
  BY <1>1 DEF Shrinks
<1>6. Apart(y)
  BY <1>2, <1>5 DEF Apart, RefsOf
<1>7. RefsOf(y.held, j, tree) = {}
  BY <1>2 DEF RefsOf
<1>8. \A r \in y.held \cup y.blocking : r \in s.held \cup s.blocking
  BY <1>2, <1>5 DEF RefsOf
<1>9. KeepsStarts(s, y, Starting(j, tree))
  <2>1. CASE tree = "start"
    BY <1>2, <1>5, <2>1 DEF KeepsStarts, RefsOf, Starting
  <2>2. CASE tree # "start"
    BY <1>2, <1>5, <2>2 DEF KeepsStarts, RefsOf, Starting
  <2> QED BY <2>1, <2>2
<1> QED BY <1>2, <1>4, <1>6, <1>7, <1>8, <1>9

\* What a step of a class does: the references stay apart, new ones are to the
\* event, from the expression, and other classes keep theirs.
Handled(s, y, x, j, tree, id) ==
  /\ Sound(y, x) /\ Frame(s, y) /\ Apart(y) /\ OnlyNew(s, y, j, tree, id)
  /\ KeepsStarts(s, y, Starting(j, tree))

\* The events that waited for the job before are released, those that made the
\* expression true wait for it now.
LEMMA CollectSound ==
  ASSUME NEW x, NEW s, Sound(s, x), Apart(s), NEW j \in Jobs, NEW tree \in Trees,
         NEW f, f = s \/ f = JobFinished(s, j, FALSE),
         NEW e, e = f \/ e = EventOperatorEvents(f, j, tree)
  PROVE  /\ Sound(e, x) /\ Frame(s, e) /\ e.held = s.held
         /\ e.blocking \subseteq s.blocking \cup RefsOf(s.held, j, tree)
<1>1. s \in SysType /\ Frame(s, s)
  BY StayedSound DEF Sound, Moved, Shrinks
<1>2. Sound(f, x) /\ Frame(s, f) /\ f.held = s.held /\ f.blocking \subseteq s.blocking
  <2>1. CASE f = s
    BY <1>1, <2>1
  <2>2. CASE f = JobFinished(s, j, FALSE)
    <3> DEFINE b == FALSE
    <3>1. f = JobFinished(s, j, b) /\ b \in BOOLEAN
      BY <2>2
    <3> HIDE DEF b
    <3>2. Sound(f, x) /\ Frame(s, f) /\ f.held = s.held
          /\ f.blocking = s.blocking \ {r \in s.blocking : r.job = j}
      BY <3>1, FinishedSound
    <3> QED BY <3>2
  <2> QED BY <2>1, <2>2
<1>3. CASE e = f
  BY <1>2, <1>3
<1>4. CASE e = EventOperatorEvents(f, j, tree)
  <2>1. Apart(f)
    BY <1>2 DEF Apart
  <2>2. /\ Sound(e, x) /\ Frame(f, e) /\ e.held = f.held
        /\ e.blocking \subseteq f.blocking \cup RefsOf(f.held, j, tree)
    BY <1>2, <1>4, <2>1, EventsSound
  <2>3. f \in SysType /\ e \in SysType
    BY <1>2, <2>2 DEF Sound
  <2>4. Frame(s, e)
    BY <1>1, <1>2, <2>2, <2>3, FrameTransitive
  <2>5. e.blocking \subseteq s.blocking \cup RefsOf(s.held, j, tree)
    BY <1>2, <2>2
  <2> QED BY <1>2, <2>2, <2>4, <2>5
<1> QED BY <1>3, <1>4

\* The leaves of an expression take the event, of which neither they nor the job
\* have a reference.
LEMMA HandleApart ==
  ASSUME NEW x, NEW s, Sound(s, x), Apart(s), NEW j \in Jobs, NEW tree \in Trees,
         NEW id \in Nat, Handling(s, id),
         \A r \in s.held \cup s.blocking : ~(r.job = j /\ r.tree = tree /\ r.event = id),
         NEW y, y = EventOperatorHandle(s, j, tree, id)
  PROVE  Handled(s, y, x, j, tree, id) /\ s.held \subseteq y.held /\ y.job = s.job
         /\ \A r \in y.held \ s.held : r.job = j /\ r.tree = tree
<1>1. /\ Sound(y, x) /\ Frame(s, y) /\ y.job = s.job /\ y.blocking = s.blocking
      /\ s.held \subseteq y.held
      /\ \A r \in y.held \ s.held : r.job = j /\ r.tree = tree /\ r.event = id
  BY HandleSound
<1>2. Apart(y) /\ OnlyNew(s, y, j, tree, id)
  BY <1>1 DEF Apart, OnlyNew
<1>3. \A J : KeepsStarts(s, y, J)
  BY <1>1 DEF KeepsStarts
<1> QED BY <1>1, <1>2, <1>3 DEF Handled

\* One thing after the other.
LEMMA HandledTransitive ==
  ASSUME NEW x, NEW s, Sound(s, x), NEW h, NEW y, NEW j, NEW tree, NEW id,
         Handled(s, h, x, j, tree, id), Handled(h, y, x, j, tree, id)
  PROVE  Handled(s, y, x, j, tree, id)
<1> DEFINE J == Starting(j, tree)
<1>1. s \in SysType /\ h \in SysType /\ y \in SysType
  BY DEF Sound, Handled
<1>2. Frame(s, y)
  BY <1>1, FrameTransitive DEF Handled
<1>3. OnlyNew(s, y, j, tree, id)
  BY DEF Handled, OnlyNew
<1>4. KeepsStarts(s, h, J) /\ KeepsStarts(h, y, J)
  BY DEF Handled
<1> HIDE DEF J
<1>5. KeepsStarts(s, y, J)
  BY <1>4 DEF KeepsStarts
<1>6. Sound(y, x) /\ Apart(y)
  BY DEF Handled
<1>7. KeepsStarts(s, y, Starting(j, tree))
  BY <1>5 DEF J
<1> QED BY <1>2, <1>3, <1>6, <1>7 DEF Handled

\* The stop_on of an instance is shown the event.
LEMMA StopPartSound ==
  ASSUME NEW x, NEW s, Sound(s, x), Apart(s), NEW j \in Jobs, NEW id \in Nat, Handling(s, id),
         \A r \in s.held \cup s.blocking : ~(r.job = j /\ r.event = id),
         NEW y, y = StopPart(s, j, id)
  PROVE  Handled(s, y, x, j, "stop", id)
<1> DEFINE h == EventOperatorHandle(s, j, "stop", id)
<1>1. "stop" \in Trees /\ "stop" \in {"start", "stop"}
  BY DEF Trees
<1>2. Handled(s, h, x, j, "stop", id)
  BY <1>1, HandleApart
<1>3. y = s \/ y = h \/ y = StopInstance(h, j)
  BY DEF StopPart
<1> HIDE DEF h
<1>4. CASE y = s
  <2>1. Frame(s, s)
    BY StayedSound DEF Moved, Shrinks
  <2> QED BY <1>4, <2>1 DEF Handled, OnlyNew, KeepsStarts
<1>5. CASE y = h
  BY <1>2, <1>5
<1>6. CASE y = StopInstance(h, j)
  <2> DEFINE f == IF h.job[j].goal # "stop" THEN JobFinished(h, j, FALSE) ELSE h
             e == EventOperatorEvents(f, j, "stop")
  <2>1. y = EventOperatorReset(JobChangeGoal(e, j, "stop"), j, "stop")
        /\ (f = h \/ f = JobFinished(h, j, FALSE))
        /\ (e = f \/ e = EventOperatorEvents(f, j, "stop"))
    BY <1>6 DEF StopInstance
  <2> HIDE DEF f, e
  <2>2. Sound(h, x) /\ Apart(h)
    BY <1>2 DEF Handled
  <2>3. /\ Sound(e, x) /\ Frame(h, e) /\ e.held = h.held
        /\ e.blocking \subseteq h.blocking \cup RefsOf(h.held, j, "stop")
    BY <1>1, <2>1, <2>2, CollectSound
  <2>4. /\ Sound(y, x) /\ Frame(h, y) /\ Apart(y)
        /\ \A r \in y.held \cup y.blocking : r \in h.held \cup h.blocking
        /\ KeepsStarts(h, y, Starting(j, "stop"))
    BY <1>1, <2>1, <2>2, <2>3, HandedOver
  <2>5. Handled(h, y, x, j, "stop", id)
    BY <2>4 DEF Handled, OnlyNew
  <2> QED BY <1>2, <2>5, HandledTransitive
<1> QED BY <1>3, <1>4, <1>5, <1>6

\* A start_on lets go of its events.
LEMMA ResetHandled ==
  ASSUME NEW x, NEW s, Sound(s, x), Apart(s), NEW j \in Jobs, NEW id,
         NEW y, y = EventOperatorReset(s, j, "start")
  PROVE  Handled(s, y, x, j, "start", id)
<1> DEFINE t == "start"
<1>1. t \in Trees /\ y = EventOperatorReset(s, j, t)
  BY DEF Trees
<1> HIDE DEF t
<1>2. /\ Sound(y, x) /\ Frame(s, y) /\ y.blocking = s.blocking
      /\ y.held = s.held \ RefsOf(s.held, j, t)
  BY <1>1, ResetSound
<1>3. Apart(y) /\ OnlyNew(s, y, j, t, id) /\ KeepsStarts(s, y, {j})
  BY <1>2 DEF Apart, OnlyNew, KeepsStarts, RefsOf
<1>4. Starting(j, "start") = {j}
  BY DEF Starting
<1> QED BY <1>2, <1>3, <1>4 DEF Handled, t

\* job_class_induct_job().
LEMMA InductJobSound ==
  ASSUME NEW x, NEW s, Sound(s, x), Apart(s), NEW j \in Jobs, NEW named \in BOOLEAN, NEW id,
         NEW y, y = InductJob(s, j, named)
  PROVE  Handled(s, y, x, j, "start", id)
<1> DEFINE f == IF s.job[j].goal # "start" THEN JobFinished(s, j, FALSE) ELSE s
           e == IF j \in Task \/ s.job[j].state # "running"
                THEN EventOperatorEvents(f, j, "start") ELSE f
<1>1. /\ f = s \/ f = JobFinished(s, j, FALSE)
      /\ e = f \/ e = EventOperatorEvents(f, j, "start")
      /\ y = IF ~named THEN EventOperatorReset(s, j, "start")
             ELSE EventOperatorReset(JobChangeGoal(e, j, "start"), j, "start")
  BY DEF InductJob
<1> HIDE DEF f, e
<1>2. CASE ~named
  <2>1. y = EventOperatorReset(s, j, "start")
    BY <1>1, <1>2
  <2> QED BY <2>1, ResetHandled
<1>3. CASE named
  <2>1. "start" \in Trees /\ "start" \in {"start", "stop"}
    BY DEF Trees
  <2>2. /\ Sound(e, x) /\ Frame(s, e) /\ e.held = s.held
        /\ e.blocking \subseteq s.blocking \cup RefsOf(s.held, j, "start")
    BY <1>1, <2>1, CollectSound
  <2>3. y = EventOperatorReset(JobChangeGoal(e, j, "start"), j, "start")
    BY <1>1, <1>3
  <2>4. /\ Sound(y, x) /\ Frame(s, y) /\ Apart(y)
        /\ \A r \in y.held \cup y.blocking : r \in s.held \cup s.blocking
        /\ KeepsStarts(s, y, Starting(j, "start"))
    BY <2>1, <2>2, <2>3, HandedOver
  <2> QED BY <2>4 DEF Handled, OnlyNew
<1> QED BY <1>2, <1>3

\* The start_on of a class is shown the event.
LEMMA StartPartSound ==
  ASSUME NEW x, NEW s, Sound(s, x), Apart(s), NEW j \in Jobs, NEW id \in Nat, Handling(s, id),
         \A r \in s.held \cup s.blocking : ~(r.job = j /\ r.tree = "start" /\ r.event = id),
         NEW named \in BOOLEAN, NEW y, y = StartPart(s, j, id, named)
  PROVE  Handled(s, y, x, j, "start", id)
<1> DEFINE h == EventOperatorHandle(s, j, "start", id)
<1>1. "start" \in Trees
  BY DEF Trees
<1>2. Handled(s, h, x, j, "start", id)
  BY <1>1, HandleApart
<1>3. y = h \/ y = InductJob(h, j, named)
  BY DEF StartPart
<1> HIDE DEF h
<1>4. CASE y = InductJob(h, j, named)
  <2>1. Handled(h, y, x, j, "start", id)
    BY <1>2, <1>4, InductJobSound DEF Handled
  <2> QED BY <1>2, <2>1, HandledTransitive
<1> QED BY <1>2, <1>3, <1>4

\* Other classes wait for the cgroup manager.
LEMMA WaitSet ==
  ASSUME NEW x, NEW s, Sound(s, x), NEW w \in SUBSET Jobs,
         NEW y, y = [s EXCEPT !.cgmanager_wait = w]
  PROVE  /\ Sound(y, x) /\ y.cgmanager_wait = w /\ y.held = s.held /\ y.blocking = s.blocking
         /\ y.events = s.events /\ y.job = s.job /\ y.aborted = s.aborted
<1>1. s \in SysType
  BY DEF Sound
<1>2. /\ y \in SysType /\ y.cgmanager_wait = w /\ y.held = s.held /\ y.blocking = s.blocking
      /\ y.events = s.events /\ y.job = s.job /\ y.aborted = s.aborted
  BY <1>1 DEF SysType
<1> QED BY <1>2 DEF Sound, Unique, Finite, Known, Counted, Tells, ProcessStates, IsRef, Handling

\* The whole of it, as event_pending_handle_jobs() sees it.
Steps(s, y) ==
  /\ Grows(s, y) /\ y.aborted = s.aborted /\ \A k \in Jobs : y.job[k].failed => s.job[k].failed

\* Two steps are one.
LEMMA StepsTransitive ==
  ASSUME NEW s \in SysType, NEW y \in SysType, NEW z \in SysType, Steps(s, y), Steps(y, z)
  PROVE  Steps(s, z)
<1>1. Len(s.events) \in Nat /\ Len(y.events) \in Nat /\ Len(z.events) \in Nat
  BY ListLength
<1>2. Len(s.events) <= Len(z.events) /\ 1 .. Len(s.events) \subseteq 1 .. Len(y.events)
  BY <1>1 DEF Steps, Grows
<1>3. Grows(s, z)
  BY <1>2 DEF Steps, Grows
<1> QED BY <1>3 DEF Steps

\* A class that does not start from an event keeps what other classes wait for.
LEMMA WaitsKept ==
  ASSUME NEW x, NEW s, Waits(s), NEW y, NEW j, NEW tree, NEW id, Handled(s, y, x, j, tree, id),
         tree = "start" => j \notin s.cgmanager_wait
  PROVE  Waits(y) /\ y.cgmanager_wait = s.cgmanager_wait /\ Steps(s, y)
<1>1. y.cgmanager_wait = s.cgmanager_wait /\ Steps(s, y) /\ KeepsStarts(s, y, Starting(j, tree))
  BY DEF Handled, Frame, Steps
<1>2. \A k \in s.cgmanager_wait : k \notin Starting(j, tree)
  <2>1. CASE tree = "start"
    BY <2>1 DEF Starting
  <2>2. CASE tree # "start"
    BY <2>2 DEF Starting
  <2> QED BY <2>1, <2>2
<1> QED BY <1>1, <1>2 DEF Waits, KeepsStarts

\* A class that cannot start without the cgroup manager keeps the event.
LEMMA AwaitSound ==
  ASSUME NEW x, NEW s, Sound(s, x), Apart(s), Waits(s), NEW j \in Jobs, NEW id \in Nat,
         Handling(s, id), j \in Cgroups, StartOn[j] # <<>>,
         \A r \in s.held \cup s.blocking : ~(r.job = j /\ r.tree = "start" /\ r.event = id),
         NEW y, y = AwaitCgmanager(s, j, id)
  PROVE  Sound(y, x) /\ Apart(y) /\ Waits(y) /\ Steps(s, y) /\ OnlyNew(s, y, j, "start", id)
<1> DEFINE h == EventOperatorHandle(s, j, "start", id)
<1>0. "start" \in Trees
  BY DEF Trees
<1>1. /\ Handled(s, h, x, j, "start", id) /\ s.held \subseteq h.held
      /\ \A r \in h.held \ s.held : r.job = j /\ r.tree = "start"
  BY <1>0, HandleApart
<1>2. y = IF j \in s.cgmanager_wait THEN s
          ELSE IF h.held # s.held
          THEN [h EXCEPT !.cgmanager_wait = h.cgmanager_wait \cup {j}] ELSE h
  BY DEF AwaitCgmanager
<1> HIDE DEF h
<1>3. Sound(h, x) /\ Apart(h) /\ Steps(s, h) /\ OnlyNew(s, h, j, "start", id)
      /\ h.cgmanager_wait = s.cgmanager_wait
  BY <1>1 DEF Handled, Frame, Steps
<1>4. CASE y = s
  <2>1. Steps(s, s)
    BY StayedSound DEF Moved, Shrinks, Frame, Steps
  <2> QED BY <1>4, <2>1 DEF OnlyNew
<1>5. CASE y = h
  <2>1. Waits(h)
    BY <1>1, <1>3 DEF Waits
  <2> QED BY <1>3, <1>5, <2>1
<1>6. CASE h.held # s.held /\ y = [h EXCEPT !.cgmanager_wait = h.cgmanager_wait \cup {j}]
  <2> DEFINE w == h.cgmanager_wait \cup {j}
  <2>1. w \in SUBSET Jobs /\ y = [h EXCEPT !.cgmanager_wait = w]
    BY <1>3, <1>6 DEF Sound, SysType
  <2> HIDE DEF w
  <2>2. /\ Sound(y, x) /\ y.cgmanager_wait = w /\ y.held = h.held /\ y.blocking = h.blocking
        /\ y.events = h.events /\ y.job = h.job /\ y.aborted = h.aborted
    BY <1>3, <2>1, WaitSet
  <2>3. \E r \in h.held : r.job = j /\ r.tree = "start"
    BY <1>1, <1>6
  <2>4. Waits(y)
    BY <1>1, <1>3, <2>2, <2>3 DEF Waits, w
  <2>5. Apart(y) /\ OnlyNew(s, y, j, "start", id)
    BY <1>3, <2>2 DEF Apart, OnlyNew
  <2>6. Steps(s, y)
    BY <1>3, <2>2 DEF Steps, Grows
  <2> QED BY <2>2, <2>4, <2>5, <2>6
<1> QED BY <1>2, <1>4, <1>5, <1>6

\* When it can start, it lets go of what it kept.
LEMMA HereSound ==
  ASSUME NEW x, NEW s, Sound(s, x), Apart(s), Waits(s), NEW j \in Jobs,
         NEW y, y = CgmanagerHere(s, j)
  PROVE  /\ Sound(y, x) /\ Apart(y) /\ Waits(y) /\ Steps(s, y) /\ j \notin y.cgmanager_wait
         /\ \A r \in y.held \cup y.blocking : r \in s.held \cup s.blocking
<1>1. CASE j \notin s.cgmanager_wait
  <2>1. y = s
    BY <1>1 DEF CgmanagerHere
  <2>2. Steps(s, s)
    BY StayedSound DEF Moved, Shrinks, Frame, Steps
  <2> QED BY <1>1, <2>1, <2>2
<1>2. CASE j \in s.cgmanager_wait
  <2> DEFINE w == s.cgmanager_wait \ {j}
             z == [s EXCEPT !.cgmanager_wait = w]
  <2>1. w \in SUBSET Jobs /\ y = EventOperatorReset(z, j, "start")
    BY <1>2 DEF Sound, SysType, CgmanagerHere
  <2> HIDE DEF w
  <2>2. /\ Sound(z, x) /\ z.cgmanager_wait = w /\ z.held = s.held /\ z.blocking = s.blocking
        /\ z.events = s.events /\ z.job = s.job /\ z.aborted = s.aborted
    BY <2>1, WaitSet
  <2> HIDE DEF z
  <2>3. Apart(z) /\ Waits(z)
    BY <2>2 DEF Apart, Waits, w
  <2>4. \A id : Handled(z, y, x, j, "start", id)
    BY <2>1, <2>2, <2>3, ResetHandled
  <2>5. j \notin z.cgmanager_wait
    BY <2>2 DEF w
  <2>6. Waits(y) /\ y.cgmanager_wait = z.cgmanager_wait /\ Steps(z, y)
    BY <2>3, <2>4, <2>5, WaitsKept
  <2>7. Steps(s, y)
    BY <2>2, <2>6 DEF Steps, Grows
  <2>8. Sound(y, x) /\ Apart(y)
    BY <2>4 DEF Handled
  <2>9. \A r \in y.held \cup y.blocking : r \in s.held \cup s.blocking
    <3> SUFFICES ASSUME NEW r \in y.held \cup y.blocking PROVE r \in s.held \cup s.blocking
      OBVIOUS
    <3>1. y.held \subseteq z.held /\ y.blocking = z.blocking
      <4> DEFINE t == "start"
      <4>1. t \in Trees /\ y = EventOperatorReset(z, j, t)
        BY <2>1 DEF Trees
      <4> HIDE DEF t
      <4>2. y.blocking = z.blocking /\ y.held = z.held \ RefsOf(z.held, j, t)
        BY <2>2, <4>1, ResetSound
      <4> QED BY <4>2
    <3> QED BY <2>2, <3>1
  <2> QED BY <2>5, <2>6, <2>7, <2>8, <2>9
<1> QED BY <1>1, <1>2

\* event_pending_handle_jobs(), for one class.
LEMMA ClassSound ==
  ASSUME NEW x, NEW s, Sound(s, x), Apart(s), Waits(s), NEW j \in Jobs, NEW id \in Nat,
         Handling(s, id), \A r \in s.held \cup s.blocking : ~(r.job = j /\ r.event = id),
         NEW p, p = StopPart(s, j, id),
         NEW c, c = IF StartOn[j] # <<>> /\ j \in Cgroups THEN CgmanagerHere(p, j) ELSE p,
         NEW named \in BOOLEAN,
         NEW y, \/ StartOn[j] # <<>> /\ j \in Cgroups /\ y = AwaitCgmanager(p, j, id)
                \/ y = StartPart(c, j, id, named)
  PROVE  /\ Sound(y, x) /\ Apart(y) /\ Waits(y) /\ Steps(s, y)
         /\ \A r \in y.held \cup y.blocking : r \in s.held \cup s.blocking \/ r.job = j
<1>1. Handled(s, p, x, j, "stop", id)
  BY StopPartSound
<1>2. Waits(p) /\ Steps(s, p) /\ Sound(p, x) /\ Apart(p)
  BY <1>1, WaitsKept DEF Handled
<1>3. OnlyNew(s, p, j, "stop", id)
  BY <1>1 DEF Handled
<1>4. \A r \in p.held \cup p.blocking : ~(r.job = j /\ r.tree = "start" /\ r.event = id)
  BY <1>3 DEF OnlyNew
<1>5. s \in SysType /\ p \in SysType
  BY <1>2 DEF Sound
<1>6. Handling(p, id)
  BY <1>2, <1>5, StillHandling DEF Steps
<1>7. CASE StartOn[j] # <<>> /\ j \in Cgroups /\ y = AwaitCgmanager(p, j, id)
  <2>1. Sound(y, x) /\ Apart(y) /\ Waits(y) /\ Steps(p, y) /\ OnlyNew(p, y, j, "start", id)
    BY <1>2, <1>4, <1>6, <1>7, AwaitSound
  <2>2. y \in SysType
    BY <2>1 DEF Sound
  <2>3. Steps(s, y)
    BY <1>2, <1>5, <2>1, <2>2, StepsTransitive
  <2> QED BY <1>3, <2>1, <2>3 DEF OnlyNew
<1>8. CASE y = StartPart(c, j, id, named)
  <2>1. /\ Sound(c, x) /\ Apart(c) /\ Waits(c) /\ Steps(p, c) /\ j \notin c.cgmanager_wait
        /\ \A r \in c.held \cup c.blocking : r \in p.held \cup p.blocking
    <3>1. CASE StartOn[j] # <<>> /\ j \in Cgroups
      <4>1. c = CgmanagerHere(p, j)
        BY <3>1
      <4> QED BY <1>2, <4>1, HereSound
    <3>2. CASE ~(StartOn[j] # <<>> /\ j \in Cgroups)
      <4>1. c = p
        BY <3>2
      <4>2. j \notin p.cgmanager_wait
        BY <1>2, <3>2 DEF Waits
      <4>3. Steps(p, p)
        BY <1>2, StayedSound DEF Moved, Shrinks, Frame, Steps
      <4> QED BY <1>2, <4>1, <4>2, <4>3
    <3> QED BY <3>1, <3>2
  <2>2. c \in SysType
    BY <2>1 DEF Sound
  <2>3. Handling(c, id)
    BY <1>5, <1>6, <2>1, <2>2, StillHandling DEF Steps
  <2>4. \A r \in c.held \cup c.blocking : ~(r.job = j /\ r.tree = "start" /\ r.event = id)
    BY <1>4, <2>1
  <2>5. Handled(c, y, x, j, "start", id)
    BY <1>8, <2>1, <2>3, <2>4, StartPartSound
  <2>6. Waits(y) /\ Steps(c, y)
    BY <2>1, <2>5, WaitsKept
  <2>7. Sound(y, x) /\ Apart(y) /\ OnlyNew(c, y, j, "start", id)
    BY <2>5 DEF Handled
  <2>8. y \in SysType
    BY <2>7 DEF Sound
  <2>9. Steps(s, y)
    <3>1. Steps(s, c)
      BY <1>2, <1>5, <2>1, <2>2, StepsTransitive
    <3> QED BY <1>5, <2>2, <2>6, <2>8, <3>1, StepsTransitive
  <2> QED BY <1>3, <2>1, <2>6, <2>7, <2>9 DEF OnlyNew
<1> QED BY <1>7, <1>8

-----------------------------------------------------------------------------
(* event_poll() *)

\* event_poll() stops at an event that it can do something for.
LEMMA NextIndexActs ==
  ASSUME NEW s \in SysType, NEW from \in Nat, NEW n, n = NextIndex(s, from)
  PROVE  n \in Nat /\ (n # 0 => n \in 1 .. Len(s.events) /\ Actionable(s.events[n]))
<1> DEFINE I == {i \in DOMAIN s.events : Actionable(s.events[i])}
           J == {i \in I : i >= from}
<1>1. Len(s.events) \in Nat /\ DOMAIN s.events = 1 .. Len(s.events)
  BY ListLength
<1>2. n = IF I = {} THEN 0 ELSE IF J = {} THEN Min(I) ELSE Min(J)
  BY DEF NextIndex
<1>3. I \in SUBSET Nat /\ J \in SUBSET Nat /\ J \subseteq I
  BY <1>1
<1>4. \A i \in I : i \in 1 .. Len(s.events) /\ Actionable(s.events[i])
  BY <1>1
<1> HIDE DEF I, J
<1>5. I # {} => Min(I) \in I
  <2> SUFFICES ASSUME I # {} PROVE Min(I) \in I
    OBVIOUS
  <2>1. \E m \in I : \A k \in I : m <= k
    BY <1>3, HasLeast
  <2> QED BY <2>1 DEF Min
<1>6. J # {} => Min(J) \in J
  <2> SUFFICES ASSUME J # {} PROVE Min(J) \in J
    OBVIOUS
  <2>1. \E m \in J : \A k \in J : m <= k
    BY <1>3, HasLeast
  <2> QED BY <2>1 DEF Min
<1>7. n = 0 \/ n \in I
  BY <1>2, <1>3, <1>5, <1>6
<1>8. CASE n = 0
  BY <1>8
<1>9. CASE n \in I
  <2>1. n \in Nat
    BY <1>3, <1>9
  <2>2. n \in 1 .. Len(s.events) /\ Actionable(s.events[n])
    BY <1>4, <1>9
  <2> QED BY <2>1, <2>2
<1> QED BY <1>7, <1>8, <1>9

\* Where event_poll() goes on, it is not in the middle of an event.
LEMMA PollsOn ==
  ASSUME NEW s \in SysType, NEW from \in Nat, NEW p, p = PollFrom(s, from)
  PROVE  Polls(s, p) /\ NotYet(s, p)
<1> DEFINE n == NextIndex(s, from)
<1>1. n \in Nat
  BY NextIndexActs
<1>2. p = Idle \/ p = [Idle EXCEPT !.cursor = n]
  BY DEF PollFrom
<1> HIDE DEF n
<1>3. p \in PollType /\ p.event = NoEvent /\ p.todo = {} /\ p.induct = {}
  <2>1. CASE p = Idle
    BY <2>1 DEF Idle, PollType, NoEvent
  <2>2. CASE p = [Idle EXCEPT !.cursor = n]
    BY <1>1, <2>2 DEF Idle, PollType, NoEvent
  <2> QED BY <1>2, <2>1, <2>2
<1> QED BY <1>3 DEF Polls, NotYet

\* Event i is gone, the others are there.
Freed(s, i, y) ==
  /\ \A m \in 1 .. Len(s.events) : m # i =>
       \E n \in 1 .. Len(y.events) : y.events[n] = s.events[m]
  /\ \A n \in 1 .. Len(y.events) : y.events[n].id # s.events[i].id

\* An event that nobody has a reference to, and that has told its job, can be freed.
LEMMA FreedSound ==
  ASSUME NEW s, NEW i \in 1 .. Len(s.events), NEW x, x = s.events[i].id, Sound(s, x), x # NoEvent,
         \A r \in s.held \cup s.blocking : r.event # x,
         NEW y, y = [s EXCEPT !.events = RemoveAt(s.events, i)]
  PROVE  /\ Sound(y, NoEvent) /\ y.job = s.job /\ y.held = s.held /\ y.blocking = s.blocking
         /\ y.cgmanager_wait = s.cgmanager_wait /\ y.aborted = s.aborted
         /\ Freed(s, i, y)
<1> DEFINE q == s.events
           a == RemoveAt(q, i)
<1>1. s \in SysType /\ q \in Seq(EventType) /\ Len(q) \in Nat
      /\ \A n \in 1 .. Len(q) : q[n] \in EventType
  BY ListLength DEF Sound, SysType
<1>2. /\ a \in Seq(EventType) /\ Len(a) = Len(q) - 1
      /\ \A n \in 1 .. Len(a) : a[n] = IF n < i THEN q[n] ELSE q[n + 1]
  BY <1>1, EventTaken
<1> HIDE DEF a
<1>3. /\ y \in SysType /\ y.events = a /\ y.job = s.job /\ y.held = s.held
      /\ y.blocking = s.blocking /\ y.cgmanager_wait = s.cgmanager_wait
      /\ y.aborted = s.aborted
  BY <1>1, <1>2 DEF SysType, a
<1> DEFINE Old(n) == IF n < i THEN n ELSE n + 1
<1>4. \A n \in 1 .. Len(a) : /\ Old(n) \in 1 .. Len(q) /\ Old(n) # i /\ a[n] = q[Old(n)]
                             /\ \A m \in 1 .. Len(a) : Old(n) = Old(m) => n = m
  BY <1>1, <1>2, SMTT(30)
<1>5. \A m \in 1 .. Len(q) : m # i => \E n \in 1 .. Len(a) : Old(n) = m
  <2> SUFFICES ASSUME NEW m \in 1 .. Len(q), m # i PROVE \E n \in 1 .. Len(a) : Old(n) = m
    OBVIOUS
  <2>1. CASE m < i
    <3>1. m \in 1 .. Len(a) /\ Old(m) = m
      BY <1>1, <1>2, <2>1
    <3> QED BY <3>1
  <2>2. CASE ~(m < i)
    <3>1. m - 1 \in 1 .. Len(a) /\ Old(m - 1) = m
      BY <1>1, <1>2, <2>2
    <3> QED BY <3>1
  <2> QED BY <2>1, <2>2
<1> HIDE DEF Old
<1>6. \A n \in 1 .. Len(q) : q[n].id = x => n = i
  BY DEF Sound, Unique
<1>7. Unique(y)
  <2>1. Unique(s)
    BY DEF Sound
  <2> QED BY <1>3, <1>4, <2>1 DEF Unique
<1>8. Finite(y)
  BY <1>3 DEF Sound, Finite
<1>9. Known(y)
  <2> SUFFICES ASSUME NEW r \in s.held \cup s.blocking PROVE IsRef(y, r)
    BY <1>3 DEF Known
  <2>1. IsRef(s, r)
    BY DEF Sound, Known
  <2>2. PICK m \in 1 .. Len(q) : q[m].id = r.event /\ q[m].progress = "handling"
    BY <2>1 DEF IsRef, Handling
  <2>3. m # i
    BY <2>2
  <2>4. PICK n \in 1 .. Len(a) : Old(n) = m
    BY <1>5, <2>3
  <2>5. a[n] = q[m]
    BY <1>4, <2>4
  <2> QED BY <1>3, <2>1, <2>2, <2>5 DEF IsRef, Handling
<1>10. Counted(y)
  BY <1>3, <1>4 DEF Sound, Counted
<1>11. Tells(y, NoEvent)
  <2>0. Tells(s, x)
    BY DEF Sound
  <2> SUFFICES ASSUME NEW j \in Jobs
               PROVE  /\ y.job[j].blocker # NoEvent =>
                           /\ y.job[j].state \in {"starting", "stopping"}
                           /\ \E n \in 1 .. Len(y.events) : y.events[n].id = y.job[j].blocker
                      /\ \A n \in 1 .. Len(y.events) :
                           (y.events[n].job = j <=> y.job[j].blocker = y.events[n].id)
    BY DEF Tells
  <2>1. ASSUME y.job[j].blocker # NoEvent
        PROVE  /\ y.job[j].state \in {"starting", "stopping"}
               /\ \E n \in 1 .. Len(y.events) : y.events[n].id = y.job[j].blocker
    <3>1. s.job[j].blocker # NoEvent
      BY <1>3, <2>1
    <3>2. s.job[j].state \in {"starting", "stopping"} /\ s.job[j].blocker # x
          /\ \E m \in 1 .. Len(q) : q[m].id = s.job[j].blocker
      BY <2>0, <3>1 DEF Tells
    <3>3. PICK m \in 1 .. Len(q) : q[m].id = s.job[j].blocker
      BY <3>2
    <3>4. PICK n \in 1 .. Len(a) : Old(n) = m
      BY <1>5, <3>2, <3>3
    <3>5. a[n].id = s.job[j].blocker
      BY <1>4, <3>3, <3>4
    <3> QED BY <1>3, <3>2, <3>5
  <2>2. ASSUME NEW n \in 1 .. Len(y.events)
        PROVE  y.events[n].job = j <=> y.job[j].blocker = y.events[n].id
    <3>1. n \in 1 .. Len(a) /\ y.events[n] = a[n]
      BY <1>3, <2>2
    <3>2. Old(n) \in 1 .. Len(q) /\ Old(n) # i /\ a[n] = q[Old(n)]
      BY <1>4, <3>1
    <3>3. q[Old(n)].id # x
      BY <1>6, <3>2
    <3>4. q[Old(n)].job = j <=> s.job[j].blocker = q[Old(n)].id
      BY <2>0, <3>2, <3>3 DEF Tells
    <3> QED BY <1>3, <3>1, <3>2, <3>4
  <2> QED BY <2>1, <2>2
<1>12. ProcessStates(y)
  BY <1>3 DEF Sound, ProcessStates
<1>13. ASSUME NEW m \in 1 .. Len(q), m # i
       PROVE  \E n \in 1 .. Len(y.events) : y.events[n] = q[m]
  <2>1. PICK n \in 1 .. Len(a) : Old(n) = m
    BY <1>5, <1>13
  <2> QED BY <1>3, <1>4, <2>1
<1>14. \A n \in 1 .. Len(y.events) : y.events[n].id # x
  BY <1>3, <1>4, <1>6
<1>15. Sound(y, NoEvent)
  BY <1>3, <1>7, <1>8, <1>9, <1>10, <1>11, <1>12 DEF Sound
<1>16. Freed(s, i, y)
  BY <1>13, <1>14 DEF Freed
<1> HIDE DEF q
<1> QED BY <1>3, <1>15, <1>16

\* The job that waits for an event is told that it has finished.
LEMMA ToldSound ==
  ASSUME NEW s, Sound(s, NoEvent), NEW i \in 1 .. Len(s.events), NEW x, x = s.events[i].id,
         NEW j \in Jobs, s.events[i].job = j,
         NEW z, z = [s EXCEPT !.job[j].blocker = NoEvent]
  PROVE  /\ Sound(z, x) /\ Shrinks(s, z) /\ z.blocking = s.blocking
         /\ \A k \in Jobs \ {j} : z.job[k] = s.job[k]
         /\ z.job[j].goal = s.job[j].goal /\ z.job[j].state = s.job[j].state
         /\ s.job[j].blocker = x /\ s.job[j].state \in {"starting", "stopping"}
<1>1. /\ s \in SysType /\ Unique(s) /\ Finite(s) /\ Counted(s) /\ Tells(s, NoEvent)
      /\ ProcessStates(s) /\ s.events[i] \in EventType
  BY ListLength DEF Sound
<1>2. x # NoEvent
  BY <1>1 DEF EventType, NoEvent
<1> DEFINE a == [s.job[j] EXCEPT !.blocker = NoEvent]
<1>3. z = Put(s, j, a) /\ s.job[j] \in JobType
  BY <1>1 DEF Put, SysType
<1>4. /\ a \in JobType /\ a.state = s.job[j].state /\ a.blocker = NoEvent
      /\ a.pid = s.job[j].pid /\ a.failed = s.job[j].failed /\ a.goal = s.job[j].goal
  BY <1>3 DEF JobType, NoEvent
<1> HIDE DEF a
<1>5. /\ z \in SysType /\ z.events = s.events /\ z.held = s.held
      /\ z.blocking = s.blocking /\ z.cgmanager_wait = s.cgmanager_wait
      /\ z.aborted = s.aborted /\ z.job[j] = a
      /\ \A k \in Jobs \ {j} : z.job[k] = s.job[k]
  <2>1. s \in SysType /\ j \in Jobs /\ a \in JobType /\ z = Put(s, j, a)
    BY <1>1, <1>3, <1>4
  <2> QED BY ONLY <2>1, JobSet
<1>6. s.job[j].blocker = x /\ s.job[j].state \in {"starting", "stopping"}
  BY <1>1, <1>2 DEF Tells
<1>7. Tells(z, x)
  <2>1. x = NoEvent \/ \E n \in 1 .. Len(z.events) : z.events[n].id = x
    BY <1>5
  <2>2. ASSUME NEW k \in Jobs
        PROVE  /\ z.job[k].blocker # NoEvent =>
                    /\ z.job[k].state \in {"starting", "stopping"}
                    /\ z.job[k].blocker # x
                    /\ \E n \in 1 .. Len(z.events) : z.events[n].id = z.job[k].blocker
               /\ \A n \in 1 .. Len(z.events) : z.events[n].id # x =>
                    (z.events[n].job = k <=> z.job[k].blocker = z.events[n].id)
    <3>1. CASE k = j
      <4>1. z.job[k].blocker = NoEvent
        BY <1>4, <1>5, <3>1
      <4>2. ASSUME NEW n \in 1 .. Len(s.events), s.events[n].id # x
            PROVE  s.events[n].job # j /\ s.events[n].id # NoEvent
        <5>1. s.events[n].id # 0
          BY <1>1, ListLength DEF EventType
        <5>2. s.events[n].job = j <=> s.job[j].blocker = s.events[n].id
          BY <1>1, <5>1 DEF Tells, NoEvent
        <5> QED BY <1>6, <4>2, <5>1, <5>2 DEF NoEvent
      <4> QED BY <1>5, <3>1, <4>1, <4>2
    <3>2. CASE k # j
      <4>1. z.job[k] = s.job[k]
        BY <1>5, <3>2
      <4>2. s.job[k].blocker # x
        BY <1>1, <1>2, <3>2 DEF Tells
      <4>3. /\ s.job[k].blocker # NoEvent =>
                 /\ s.job[k].state \in {"starting", "stopping"}
                 /\ \E n \in 1 .. Len(s.events) : s.events[n].id = s.job[k].blocker
            /\ \A n \in 1 .. Len(s.events) : s.events[n].id # NoEvent =>
                 (s.events[n].job = k <=> s.job[k].blocker = s.events[n].id)
        BY <1>1 DEF Tells
      <4>4. \A n \in 1 .. Len(s.events) : s.events[n].id # NoEvent
        BY <1>1, ListLength DEF EventType, NoEvent
      <4> QED BY <1>5, <4>1, <4>2, <4>3, <4>4
    <3> QED BY <3>1, <3>2
  <2> QED BY <2>1, <2>2 DEF Tells
<1>8. ProcessStates(z)
  BY <1>1, <1>4, <1>5 DEF ProcessStates
<1>9. Sound(z, x)
  BY <1>1, <1>5, <1>7, <1>8 DEF Sound, Unique, Finite, Known, Counted, IsRef, Handling
<1>10. Shrinks(s, z)
  <2>1. Len(s.events) \in Nat
    BY <1>1, ListLength
  <2>2. \A k \in Jobs : z.job[k].failed => s.job[k].failed
    BY <1>4, <1>5
  <2> QED BY <1>5, <2>1, <2>2 DEF Shrinks, Frame, Grows
<1> QED BY <1>4, <1>5, <1>6, <1>9, <1>10

-----------------------------------------------------------------------------
(* Failures *)

\* An event that has failed, or that waits for a job that fails, stays in the list,
\* marked, or it is reported.
Reported(s, y, replies) ==
  \A i \in 1 .. Len(s.events) :
    Fails(s, y, s.events[i]) =>
      StaysFailed(y, s.events[i]) \/ IsReported(s, y, s.events[i], replies)

\* No event leaves the list or loses its mark.
Keeps(s, y) ==
  \A i \in 1 .. Len(s.events) :
    /\ i \in 1 .. Len(y.events)
    /\ y.events[i].id = s.events[i].id /\ y.events[i].name = s.events[i].name
    /\ s.events[i].failed => y.events[i].failed

\* So it is when the list grows.
LEMMA GrownKeeps ==
  ASSUME NEW s \in SysType, NEW y \in SysType, Grows(s, y)
  PROVE  Keeps(s, y)
BY ListLength DEF Grows, Keeps

\* Where no job fails an event is failed only if it was before.
LEMMA FailedBefore ==
  ASSUME NEW s \in SysType, NEW y, \A k \in Jobs : y.job[k].failed => s.job[k].failed,
         NEW e, Fails(s, y, e)
  PROVE  e.failed
BY DEF Fails, SysType, RefType

\* Where no job fails, and no event leaves the list, no failure is lost.
LEMMA NothingFailed ==
  ASSUME NEW s \in SysType, NEW y \in SysType, Keeps(s, y),
         \A k \in Jobs : y.job[k].failed => s.job[k].failed, NEW replies
  PROVE  Reported(s, y, replies)
<1> SUFFICES ASSUME NEW i \in 1 .. Len(s.events), Fails(s, y, s.events[i])
             PROVE  StaysFailed(y, s.events[i])
  BY DEF Reported
<1>1. s.events[i].failed
  BY FailedBefore
<1>2. DOMAIN y.events = 1 .. Len(y.events)
  BY ListLength
<1> QED BY <1>1, <1>2 DEF Keeps, StaysFailed

\* Nor is one lost when the state stays the same.
LEMMA SameReported ==
  ASSUME NEW s \in SysType, NEW replies
  PROVE  Reported(s, s, replies)
<1>1. Keeps(s, s)
  BY DEF Keeps
<1> QED BY <1>1, NothingFailed

\* event_finished(): the job that waited for the event goes on, maybe the failure is
\* reported, and the event is freed.
LEMMA FinishSound ==
  ASSUME NEW s, Sound(s, NoEvent), Apart(s), Waits(s), NEW i \in 1 .. Len(s.events),
         s.events[i].blockers = 0, NEW y, y = Finish(s, i)
  PROVE  /\ Sound(y, NoEvent) /\ Apart(y) /\ Waits(y) /\ y.aborted = s.aborted
         /\ y.cgmanager_wait = s.cgmanager_wait
         /\ \A k \in Jobs : y.job[k].failed => s.job[k].failed
         /\ Reported(s, y, Replies(s.events[i]))
<1> DEFINE e == s.events[i]
           x == e.id
           z == [s EXCEPT !.job[e.job].blocker = NoEvent]
           u == IF e.job = NoJob THEN s ELSE JobNextState(z, e.job)
           r == ReportFailed(u, e)
<1>1. y = [r EXCEPT !.events = RemoveAt(r.events, i)]
  BY DEF Finish
<1>2. s \in SysType /\ e \in EventType /\ Unique(s) /\ Finite(s) /\ Counted(s) /\ Tells(s, NoEvent)
      /\ ProcessStates(s)
  BY ListLength DEF Sound
<1>3. x # NoEvent /\ e.name \in EventNames /\ e.job \in Jobs \cup {NoJob}
  BY <1>2 DEF EventType, NoEvent
<1>4. \A f \in s.held \cup s.blocking : f.event # x
  <2>1. Count(s.held, x) \in Nat /\ Count(s.blocking, x) \in Nat
    BY <1>2, CountIsNat DEF Finite
  <2>2. 0 = Count(s.held, x) + Count(s.blocking, x)
    BY <1>2 DEF Counted
  <2> DEFINE m == Count(s.held, x) n == Count(s.blocking, x)
  <2>3. m \in Nat /\ n \in Nat /\ 0 = m + n
    BY <2>1, <2>2
  <2> HIDE DEF m, n
  <2>4. m = 0 /\ n = 0
    BY <2>3
  <2>5. Count(s.held, x) = 0 /\ Count(s.blocking, x) = 0
    BY <2>4 DEF m, n
  <2> QED BY <1>2, <2>5, CountIsNat DEF Finite
<1>5. \A n \in 1 .. Len(s.events) : s.events[n].id = x => n = i
  BY <1>2 DEF Unique
<1>6. Sound(u, x) /\ Shrinks(s, u)
  <2>1. CASE e.job = NoJob
    <3>1. u = s
      BY <2>1
    <3>2. \A j \in Jobs : s.job[j].blocker # x
      BY <1>2, <1>3, <2>1, JobsAssumption DEF Tells
    <3>3. Tells(s, x)
      <4>1. \E n \in 1 .. Len(s.events) : s.events[n].id = x
        OBVIOUS
      <4>2. \A n \in 1 .. Len(s.events) : s.events[n].id # NoEvent
        BY <1>2, ListLength DEF EventType, NoEvent
      <4> HIDE DEF x, e
      <4> QED BY <1>2, <3>2, <4>1, <4>2 DEF Tells
    <3>4. Sound(s, x)
      BY <3>3 DEF Sound
    <3>5. Shrinks(s, s)
      <4>1. Len(s.events) \in Nat
        BY <1>2, ListLength
      <4> QED BY <4>1 DEF Shrinks, Frame, Grows
    <3> HIDE DEF u, x
    <3> QED BY <3>1, <3>4, <3>5
  <2>2. CASE e.job # NoJob
    <3> DEFINE j == e.job
    <3>1. j \in Jobs /\ s.events[i].job = j /\ s.events[i].id = x
          /\ z = [s EXCEPT !.job[j].blocker = NoEvent] /\ u = JobNextState(z, j)
      BY <1>3, <2>2
    <3> HIDE DEF j, u, z, x, e
    <3>2. /\ Sound(z, x) /\ Shrinks(s, z) /\ z.job[j].state = s.job[j].state
          /\ s.job[j].state \in {"starting", "stopping"}
      BY <3>1, ToldSound
    <3>3. z.job[j].state # "killed"
      BY <3>2
    <3>4. Sound(u, x) /\ Shrinks(z, u)
      BY <3>1, <3>2, <3>3, NextStateSound DEF Moved
    <3>5. z \in SysType /\ u \in SysType
      BY <3>2, <3>4 DEF Sound
    <3>6. Shrinks(s, u)
      BY <1>2, <3>2, <3>4, <3>5, FrameTransitive
    <3> QED BY <3>4, <3>6
  <2> QED BY <2>1, <2>2
<1> HIDE DEF u, x
<1>7. Sound(r, x) /\ Shrinks(u, r)
  <2>1. CASE r = u
    <3>1. u \in SysType /\ Len(u.events) \in Nat
      BY <1>6, ListLength DEF Sound
    <3>2. Shrinks(u, u)
      BY <3>1 DEF Shrinks, Frame, Grows
    <3> HIDE DEF r
    <3> QED BY <1>6, <2>1, <3>2
  <2>2. CASE ~(r = u)
    <3> DEFINE name == [e.name EXCEPT !.failed = TRUE]
    <3>1. r = EventNew(u, name, NoJob)
      BY <2>2 DEF ReportFailed
    <3> HIDE DEF r, e
    <3>2. name \in EventNames
      BY <1>3 DEF EventNames
    <3> HIDE DEF name
    <3> QED BY <1>6, <3>1, <3>2, PlainEventSound
  <2> QED BY <2>1, <2>2
<1>16. ASSUME e.failed, ~e.name.failed
       PROVE  \E n \in 1 .. Len(r.events) :
                /\ r.events[n].name = [e.name EXCEPT !.failed = TRUE]
                /\ r.events[n].progress = "pending"
                /\ \A m \in 1 .. Len(u.events) : u.events[m].id # r.events[n].id
  <2> DEFINE name == [e.name EXCEPT !.failed = TRUE]
             n == Len(r.events)
  <2>1. r = EventNew(u, name, NoJob) /\ u \in SysType
    BY <1>6, <1>16 DEF ReportFailed, Sound
  <2> HIDE DEF r, e
  <2>2. name \in EventNames /\ NoJob \in Jobs \cup {NoJob}
    BY <1>3 DEF EventNames
  <2> HIDE DEF name
  <2>3. /\ Len(u.events) \in Nat /\ n = Len(u.events) + 1
        /\ r.events[n].name = name /\ r.events[n].progress = "pending"
        /\ r.events[n].id = NewId(u)
    BY <2>1, <2>2, EventAdded
  <2>4. n \in 1 .. Len(r.events)
    BY <2>3
  <2>5. \A m \in 1 .. Len(u.events) : u.events[m].id # r.events[n].id
    BY <2>1, <2>3, NewIdUnused
  <2> QED BY <2>3, <2>4, <2>5 DEF name
<1> HIDE DEF r
<1>8. u \in SysType /\ r \in SysType
  BY <1>6, <1>7 DEF Sound
<1>9. Shrinks(s, r)
  BY <1>2, <1>6, <1>7, <1>8, FrameTransitive
<1>10. i \in 1 .. Len(r.events) /\ r.events[i].id = x
  <2>1. Len(s.events) \in Nat /\ Len(r.events) \in Nat
    BY <1>2, <1>8, ListLength
  <2> QED BY <1>9, <2>1 DEF Shrinks, Frame, Grows, x
<1>11. \A f \in r.held \cup r.blocking : f.event # x
  BY <1>4, <1>9 DEF Shrinks
<1>12. /\ Sound(y, NoEvent) /\ y.job = r.job /\ y.held = r.held /\ y.blocking = r.blocking
       /\ y.cgmanager_wait = r.cgmanager_wait /\ y.aborted = r.aborted
       /\ Freed(r, i, y)
  <2>1. /\ Sound(r, x) /\ i \in 1 .. Len(r.events) /\ x = r.events[i].id /\ x # NoEvent
        /\ \A f \in r.held \cup r.blocking : f.event # x
        /\ y = [r EXCEPT !.events = RemoveAt(r.events, i)]
    BY <1>1, <1>3, <1>7, <1>10, <1>11
  <2> QED BY ONLY <2>1, FreedSound
<1>18. /\ \A m \in 1 .. Len(r.events) : m # i =>
            \E n \in 1 .. Len(y.events) : y.events[n] = r.events[m]
       /\ \A n \in 1 .. Len(y.events) : y.events[n].id # x
  BY <1>10, <1>12 DEF Freed
<1>13. Apart(y)
  BY <1>9, <1>12 DEF Apart, Shrinks
<1>14. y.aborted = s.aborted /\ y.cgmanager_wait = s.cgmanager_wait
       /\ \A k \in Jobs : y.job[k].failed => s.job[k].failed
  BY <1>9, <1>12 DEF Shrinks, Frame
<1>15. Waits(y)
  BY <1>9, <1>12, <1>14 DEF Waits, Shrinks
<1>17. Reported(s, y, Replies(e))
  <2> SUFFICES ASSUME NEW k \in 1 .. Len(s.events), Fails(s, y, s.events[k])
               PROVE  StaysFailed(y, s.events[k]) \/ IsReported(s, y, s.events[k], Replies(e))
    BY DEF Reported
  <2>1. s.events[k].failed
    BY <1>2, <1>14, FailedBefore
  <2>2. y \in SysType /\ DOMAIN y.events = 1 .. Len(y.events)
    BY <1>12, ListLength DEF Sound
  <2>3. Keeps(s, r) /\ Keeps(s, u)
    BY <1>2, <1>6, <1>8, <1>9, GrownKeeps DEF Shrinks, Frame
  <2>4. CASE k # i
    <3>1. k \in 1 .. Len(r.events) /\ r.events[k].id = s.events[k].id
          /\ r.events[k].name = s.events[k].name /\ r.events[k].failed
      BY <2>1, <2>3 DEF Keeps
    <3>2. \E n \in 1 .. Len(y.events) : y.events[n] = r.events[k]
      BY <1>18, <2>4, <3>1
    <3> QED BY <2>2, <3>1, <3>2 DEF StaysFailed
  <2>5. CASE k = i
    <3>1. e.failed = TRUE
      BY <1>2, <2>1, <2>5 DEF EventType
    <3>2. x \notin Ids(y)
      BY <1>18, <2>2 DEF Ids
    <3>3. ASSUME ~e.name.failed
          PROVE  \E n \in DOMAIN y.events : /\ y.events[n].name = [e.name EXCEPT !.failed = TRUE]
                                            /\ y.events[n].progress = "pending"
                                            /\ y.events[n].id \notin Ids(s)
      <4>1. PICK m \in 1 .. Len(r.events) :
              /\ r.events[m].name = [e.name EXCEPT !.failed = TRUE]
              /\ r.events[m].progress = "pending"
              /\ \A n \in 1 .. Len(u.events) : u.events[n].id # r.events[m].id
        BY <1>16, <3>1, <3>3
      <4>2. r.events[m].id \notin Ids(s)
        <5>1. DOMAIN s.events = 1 .. Len(s.events)
          BY <1>2, ListLength
        <5>2. \A n \in 1 .. Len(s.events) : n \in 1 .. Len(u.events)
                                            /\ u.events[n].id = s.events[n].id
          BY <2>3 DEF Keeps
        <5> QED BY <4>1, <5>1, <5>2 DEF Ids
      <4>3. m # i
        <5>1. x \in Ids(s)
          BY <1>2, ListLength DEF Ids, x
        <5> QED BY <1>10, <4>2, <5>1
      <4>4. PICK n \in 1 .. Len(y.events) : y.events[n] = r.events[m]
        BY <1>18, <4>3
      <4> QED BY <2>2, <4>1, <4>2, <4>4
    <3>4. ASSUME ~e.name.failed, e.name.kind = "emit"
          PROVE  Replies(e) = {[name |-> e.name, failed |-> TRUE]}
      BY <3>1, <3>4 DEF Replies
    <3>5. IsReported(s, y, e, Replies(e))
      <4> HIDE DEF e
      <4> QED BY <3>2, <3>3, <3>4 DEF IsReported, x
    <3> QED BY <2>5, <3>5
  <2> QED BY <2>4, <2>5
<1> QED BY <1>12, <1>13, <1>14, <1>15, <1>17

-----------------------------------------------------------------------------
(* The actions *)

\* What every step but one does: no assertion fails, and failures are reported.
Regular == IInv' /\ sys'.aborted = sys.aborted /\ Reported(sys, sys', replied')

\* event_poll() takes up an event, or finishes one.
LEMMA PollBeginSound ==
  ASSUME IInv, PollBegin
  PROVE  Regular
<1> DEFINE i == NextIndex(sys, poll.cursor)
           e == sys.events[i]
<1>1. /\ poll.event = NoEvent /\ poll.induct = {} /\ i # 0
      /\ IF e.progress = "pending"
         THEN /\ sys' = [sys EXCEPT !.events[i].progress = "handling"]
              /\ poll' = [Idle EXCEPT !.cursor = i, !.todo = Jobs, !.event = e.id]
         ELSE /\ sys' = Finish(sys, i) /\ poll' = PollFrom(sys', i)
              /\ replied' = Replies(e)
  BY DEF PollBegin
<1>2. Sound(sys, NoEvent) /\ Apart(sys) /\ Waits(sys) /\ Polls(sys, poll) /\ NotYet(sys, poll)
  BY DEF IInv
<1>3. sys \in SysType /\ poll.cursor \in Nat
  BY <1>2 DEF Sound, Polls, PollType
<1>4. i \in Nat /\ i \in 1 .. Len(sys.events) /\ Actionable(e)
  BY <1>1, <1>3, NextIndexActs
<1> HIDE DEF i
<1>5. /\ e \in EventType /\ Len(sys.events) \in Nat /\ sys.events \in Seq(EventType)
      /\ DOMAIN sys.events = 1 .. Len(sys.events)
  BY <1>3, <1>4, ListLength DEF SysType
<1>6. CASE e.progress = "pending"
  <2> DEFINE f == [e EXCEPT !.progress = "handling"]
             q == [sys.events EXCEPT ![i] = f]
  <2>1. /\ f \in EventType /\ f.id = e.id /\ f.name = e.name /\ f.failed = e.failed
        /\ f.job = e.job /\ f.blockers = e.blockers /\ f.progress = "handling"
    BY <1>5 DEF EventType
  <2>2. /\ q \in Seq(EventType) /\ Len(q) = Len(sys.events) /\ q[i] = f
        /\ \A n \in 1 .. Len(q) : n # i => q[n] = sys.events[n]
    BY <1>4, <1>5, <2>1, ExceptSeq
  <2>3. sys' = [sys EXCEPT !.events = q]
    BY <1>1, <1>6
  <2>4. poll' = [Idle EXCEPT !.cursor = i, !.todo = Jobs, !.event = e.id]
    BY <1>1, <1>6
  <2> HIDE DEF f, q
  <2>5. /\ sys' \in SysType /\ sys'.events = q /\ sys'.job = sys.job /\ sys'.held = sys.held
        /\ sys'.blocking = sys.blocking /\ sys'.cgmanager_wait = sys.cgmanager_wait
        /\ sys'.aborted = sys.aborted
    BY <1>3, <2>2, <2>3 DEF SysType
  <2>6. \A n \in 1 .. Len(sys.events) :
          /\ q[n].id = sys.events[n].id /\ q[n].job = sys.events[n].job
          /\ q[n].blockers = sys.events[n].blockers
          /\ sys.events[n].progress = "handling" => q[n].progress = "handling"
    BY <2>1, <2>2
  <2>7. Unique(sys') /\ Finite(sys') /\ Counted(sys')
    BY <1>2, <2>2, <2>5, <2>6 DEF Sound, Unique, Finite, Counted
  <2>8. Known(sys')
    BY <1>2, <2>2, <2>5, <2>6 DEF Sound, Known, IsRef, Handling
  <2>9. Tells(sys', NoEvent) /\ ProcessStates(sys')
    BY <1>2, <2>2, <2>5, <2>6 DEF Sound, Tells, ProcessStates
  <2>10. Sound(sys', NoEvent)
    BY <2>5, <2>7, <2>8, <2>9 DEF Sound
  <2>11. Apart(sys') /\ Waits(sys')
    BY <1>2, <2>5 DEF Apart, Waits
  <2>12. /\ poll' \in PollType /\ poll'.cursor = i /\ poll'.todo = Jobs /\ poll'.event = e.id
         /\ poll'.induct = {}
    <3>1. e.id \in Nat
      BY <1>5 DEF EventType
    <3> DEFINE d == e.id
    <3>2. poll' = [cursor |-> i, event |-> d, todo |-> Jobs, induct |-> {}] /\ d \in Nat
      BY <2>4, <3>1 DEF Idle
    <3> HIDE DEF d
    <3>3. /\ poll' \in PollType /\ poll'.cursor = i /\ poll'.todo = Jobs /\ poll'.event = d
          /\ poll'.induct = {}
      BY <1>4, <3>2 DEF PollType
    <3> QED BY <3>3 DEF d
  <2>13. \A r \in sys.held \cup sys.blocking : r.event # e.id
    <3> SUFFICES ASSUME NEW r \in sys.held \cup sys.blocking, r.event = e.id PROVE FALSE
      OBVIOUS
    <3>1. PICK n \in 1 .. Len(sys.events) :
            sys.events[n].id = r.event /\ sys.events[n].progress = "handling"
      BY <1>2 DEF Sound, Known, IsRef, Handling
    <3>2. n = i
      BY <1>2, <1>4, <3>1 DEF Sound, Unique
    <3> QED BY <1>6, <3>1, <3>2
  <2>14. NotYet(sys', poll')
    BY <2>5, <2>12, <2>13 DEF NotYet
  <2>15. Polls(sys', poll')
    <3>1. e.id # NoEvent
      BY <1>5 DEF EventType, NoEvent
    <3> QED BY <1>4, <2>1, <2>2, <2>5, <2>12, <3>1 DEF Polls
  <2>16. Reported(sys, sys', replied')
    <3>1. Keeps(sys, sys')
      BY <2>1, <2>2, <2>5 DEF Keeps
    <3> QED BY <1>3, <2>5, <3>1, NothingFailed
  <2> QED BY <2>5, <2>10, <2>11, <2>14, <2>15, <2>16 DEF Regular, IInv
<1>7. CASE e.progress # "pending"
  <2>1. e.blockers = 0
    BY <1>4, <1>7 DEF Actionable
  <2>2. sys' = Finish(sys, i) /\ poll' = PollFrom(sys', i)
    BY <1>1, <1>7
  <2>3. /\ Sound(sys', NoEvent) /\ Apart(sys') /\ Waits(sys') /\ sys'.aborted = sys.aborted
        /\ Reported(sys, sys', Replies(e))
    BY <1>2, <1>4, <2>1, <2>2, FinishSound
  <2>4. sys' \in SysType
    BY <2>3 DEF Sound
  <2>5. Polls(sys', poll') /\ NotYet(sys', poll')
    BY <1>4, <2>2, <2>4, PollsOn
  <2>6. replied' = Replies(e)
    BY <1>1, <1>7
  <2> HIDE DEF e
  <2> QED BY <2>3, <2>5, <2>6 DEF Regular, IInv
<1> QED BY <1>6, <1>7

\* The event has been shown to all the classes.
LEMMA PollEndSound ==
  ASSUME IInv, PollEnd
  PROVE  Regular
<1> DEFINE i == poll.cursor
<1>1. /\ poll.event # NoEvent
      /\ IF sys.events[i].blockers = 0
         THEN /\ sys' = Finish(sys, i) /\ poll' = PollFrom(sys', i)
              /\ replied' = Replies(sys.events[i])
         ELSE sys' = sys /\ poll' = PollFrom(sys, i + 1)
  BY DEF PollEnd
<1>2. Sound(sys, NoEvent) /\ Apart(sys) /\ Waits(sys) /\ Polls(sys, poll)
  BY DEF IInv
<1>3. sys \in SysType /\ i \in Nat /\ i \in 1 .. Len(sys.events)
  BY <1>1, <1>2 DEF Sound, Polls, PollType
<1> HIDE DEF i
<1>4. CASE sys.events[i].blockers = 0
  <2>1. sys' = Finish(sys, i) /\ poll' = PollFrom(sys', i)
    BY <1>1, <1>4
  <2>2. /\ Sound(sys', NoEvent) /\ Apart(sys') /\ Waits(sys') /\ sys'.aborted = sys.aborted
        /\ Reported(sys, sys', Replies(sys.events[i]))
    BY <1>2, <1>3, <1>4, <2>1, FinishSound
  <2>3. sys' \in SysType
    BY <2>2 DEF Sound
  <2>4. Polls(sys', poll') /\ NotYet(sys', poll')
    BY <1>3, <2>1, <2>3, PollsOn
  <2>5. replied' = Replies(sys.events[i])
    BY <1>1, <1>4
  <2> QED BY <2>2, <2>4, <2>5 DEF Regular, IInv
<1>5. CASE sys.events[i].blockers # 0
  <2>1. sys' = sys /\ poll' = PollFrom(sys, i + 1) /\ i + 1 \in Nat
    BY <1>1, <1>3, <1>5
  <2>2. Polls(sys, poll') /\ NotYet(sys, poll')
    BY <1>3, <2>1, PollsOn
  <2>3. Reported(sys, sys, replied')
    BY <1>3, SameReported
  <2>4. Sound(sys', NoEvent) /\ Apart(sys') /\ Waits(sys') /\ Polls(sys', poll')
        /\ NotYet(sys', poll')
    BY <1>2, <2>1, <2>2
  <2> QED BY <2>1, <2>3, <2>4 DEF Regular, IInv
<1> QED BY <1>4, <1>5

\* The event is shown to a class.
LEMMA HandleClassSound ==
  ASSUME IInv, NEW j \in Jobs, HandleClass(j)
  PROVE  Regular
<1> DEFINE id == poll.event
           p == StopPart(sys, j, id)
           W == StartOn[j] # <<>> /\ j \in Cgroups
           c == IF W THEN CgmanagerHere(p, j) ELSE p
<1>1. Sound(sys, NoEvent) /\ Apart(sys) /\ Waits(sys) /\ Polls(sys, poll) /\ NotYet(sys, poll)
  BY DEF IInv
<1>2. /\ j \in poll.todo
      /\ \/ /\ W /\ sys' = AwaitCgmanager(p, j, id)
            /\ poll' = [poll EXCEPT !.todo = poll.todo \ {j}]
         \/ \E named \in Expansions(j) :
              /\ sys' = StartPart(c, j, id, named)
              /\ poll' \in {[poll EXCEPT !.todo = {}], [poll EXCEPT !.todo = poll.todo \ {j}]}
  BY DEF HandleClass
<1> HIDE DEF c, p, W
<1>3. poll \in PollType /\ id \in Nat /\ poll.cursor \in 1 .. Len(sys.events) /\ poll.induct = {}
      /\ sys.events[poll.cursor].id = id /\ sys.events[poll.cursor].progress = "handling"
      /\ id # NoEvent
  BY <1>1, <1>2 DEF Polls, PollType
<1>4. Handling(sys, id) /\ \A r \in sys.held \cup sys.blocking : ~(r.job = j /\ r.event = id)
  BY <1>1, <1>2, <1>3 DEF Handling, NotYet
<1>5. PICK named \in BOOLEAN : \/ W /\ sys' = AwaitCgmanager(p, j, id)
                               \/ sys' = StartPart(c, j, id, named)
  <2>1. Expansions(j) \subseteq BOOLEAN
    BY DEF Expansions
  <2> QED BY <1>2, <2>1
<1>6. /\ Sound(sys', NoEvent) /\ Apart(sys') /\ Waits(sys') /\ Steps(sys, sys')
      /\ \A r \in sys'.held \cup sys'.blocking : r \in sys.held \cup sys.blocking \/ r.job = j
  BY <1>1, <1>3, <1>4, <1>5, ClassSound DEF c, p, W
<1>7. /\ poll' \in PollType /\ poll'.cursor = poll.cursor /\ poll'.event = id
      /\ poll'.todo \subseteq poll.todo /\ j \notin poll'.todo /\ poll'.induct = {}
  <2>1. CASE poll' = [poll EXCEPT !.todo = {}]
    BY <1>3, <2>1 DEF PollType
  <2>2. CASE poll' = [poll EXCEPT !.todo = poll.todo \ {j}]
    BY <1>3, <2>2 DEF PollType
  <2> QED BY <1>2, <2>1, <2>2
<1>8. NotYet(sys', poll')
  BY <1>1, <1>6, <1>7 DEF NotYet
<1>9. sys \in SysType /\ sys' \in SysType
  BY <1>1, <1>6 DEF Sound
<1>10. Polls(sys', poll')
  <2>1. Len(sys.events) \in Nat /\ Len(sys'.events) \in Nat
    BY <1>9, ListLength
  <2>2. poll.cursor \in 1 .. Len(sys'.events)
        /\ sys'.events[poll.cursor].id = id /\ sys'.events[poll.cursor].progress = "handling"
    BY <1>3, <1>6, <2>1 DEF Steps, Grows
  <2> QED BY <1>3, <1>7, <2>2 DEF Polls
<1>11. Keeps(sys, sys')
  BY <1>6, <1>9, GrownKeeps DEF Steps
<1>12. sys'.aborted = sys.aborted /\ Reported(sys, sys', replied')
  BY <1>6, <1>9, <1>11, NothingFailed DEF Steps
<1> QED BY <1>6, <1>8, <1>10, <1>12 DEF Regular, IInv

\* What a callback of the main loop leaves of the references.
Lighter(s, y) ==
  /\ y.cgmanager_wait = s.cgmanager_wait /\ y.held \subseteq s.held
  /\ y.blocking \subseteq s.blocking /\ \A r \in s.held : r.tree = "start" => r \in y.held

\* A callback, called when no event is being handled.
LEMMA CallbackSound ==
  ASSUME IInv, MainLoop, NEW y, Callback(y), Sound(y, NoEvent), Lighter(sys, y)
  PROVE  IInv'
<1>1. sys' = y /\ poll' = poll /\ poll = Idle
  BY DEF Callback, MainLoop
<1>2. poll \in PollType /\ poll.event = NoEvent /\ poll.todo = {} /\ poll.induct = {}
  BY <1>1 DEF IInv, Polls, Idle
<1>3. Apart(y) /\ Waits(y)
  BY DEF IInv, Apart, Waits, Lighter
<1>4. NotYet(y, poll) /\ Polls(y, poll)
  BY <1>2 DEF NotYet, Polls
<1>5. Sound(sys', NoEvent) /\ Apart(sys') /\ Waits(sys') /\ NotYet(sys', poll') /\ Polls(sys', poll')
  BY <1>1, <1>3, <1>4
<1> QED BY <1>5 DEF IInv

\* A callback in which no job fails.
LEMMA QuietCallback ==
  ASSUME IInv, MainLoop, NEW y, Callback(y), Sound(y, NoEvent), Shrinks(sys, y)
  PROVE  Regular
<1>1. Lighter(sys, y)
  BY DEF Shrinks, Frame, Lighter
<1>2. IInv'
  BY <1>1, CallbackSound
<1>3. sys' = y /\ sys \in SysType /\ y \in SysType
  BY DEF Callback, IInv, Sound
<1>4. Reported(sys, y, replied')
  <2>1. Keeps(sys, y)
    BY <1>3, GrownKeeps DEF Shrinks, Frame
  <2> QED BY <1>3, <2>1, NothingFailed DEF Shrinks, Frame
<1>5. sys'.aborted = sys.aborted
  BY <1>3 DEF Shrinks, Frame
<1> QED BY <1>2, <1>3, <1>4, <1>5 DEF Regular

\* initctl or a bridge emits an event.
LEMMA EmitSound ==
  ASSUME IInv, NEW name \in Names, Emit(name)
  PROVE  Regular
<1> DEFINE n == EventName("emit", name)
           y == EventNew(sys, n, NoJob)
<1>1. MainLoop /\ Callback(y)
  BY DEF Emit
<1>2. n \in EventNames
  BY DEF EventName, EventNames, Kinds
<1>3. Sound(sys, NoEvent)
  BY DEF IInv
<1> HIDE DEF n
<1>4. Sound(y, NoEvent) /\ Shrinks(sys, y)
  BY <1>2, <1>3, PlainEventSound
<1> HIDE DEF y
<1> QED BY <1>1, <1>4, QuietCallback

\* The main process is up.
LEMMA MainUpSound ==
  ASSUME IInv, NEW j \in Jobs, MainUp(j)
  PROVE  Regular
<1> DEFINE y == JobNextState(sys, j)
<1>1. MainLoop /\ Callback(y) /\ sys.job[j].state = "spawned"
  BY DEF MainUp
<1>2. Sound(sys, NoEvent)
  BY DEF IInv
<1>3. sys.job[j].state # "killed"
  BY <1>1
<1>4. Sound(y, NoEvent) /\ Shrinks(sys, y)
  BY <1>2, <1>3, NextStateSound DEF Moved
<1> HIDE DEF y
<1> QED BY <1>1, <1>4, QuietCallback

\* job_failed(): the events that wait for the job are marked and released, once.
LEMMA FailedSound ==
  ASSUME NEW s, Sound(s, NoEvent), NEW j \in Jobs, NEW y, y = JobFailed(s, j)
  PROVE  /\ Sound(y, NoEvent) /\ Lighter(s, y) /\ Grows(s, y) /\ y.aborted = s.aborted
         /\ y.job[j].pid = s.job[j].pid /\ y.job[j].goal = s.job[j].goal
         /\ \A k \in Jobs \ {j} : y.job[k] = s.job[k]
         /\ \A r \in s.blocking \ y.blocking : r.job = j
         /\ ~s.job[j].failed =>
              \A r \in s.blocking : r.job = j => \A i \in 1 .. Len(s.events) :
                s.events[i].id = r.event => y.events[i].failed
<1>1. s \in SysType /\ s.job[j] \in JobType /\ Tells(s, NoEvent) /\ ProcessStates(s)
      /\ Len(s.events) \in Nat
  BY ListLength DEF Sound, SysType
<1>2. CASE s.job[j].failed
  <2>1. y = s
    BY <1>2 DEF JobFailed
  <2> QED BY <1>1, <1>2, <2>1 DEF Lighter, Grows
<1>3. CASE ~s.job[j].failed
  <2> DEFINE a == [s.job[j] EXCEPT !.failed = TRUE]
             z == Put(s, j, a)
             b == TRUE
  <2>1. y = JobFinished(z, j, b) /\ b \in BOOLEAN /\ b
    BY <1>3 DEF JobFailed, Put
  <2>2. /\ a \in JobType /\ a.state = s.job[j].state /\ a.blocker = s.job[j].blocker
        /\ a.pid = s.job[j].pid /\ a.goal = s.job[j].goal
    BY <1>1 DEF JobType
  <2> HIDE DEF a, b
  <2>3. /\ a.blocker # NoEvent => a.state \in {"starting", "stopping"}
        /\ a.pid => a.state \notin {"waiting", "starting"}
    BY <1>1, <2>2 DEF Tells, ProcessStates
  <2>4. /\ Sound(z, NoEvent) /\ z.events = s.events /\ z.held = s.held
        /\ z.blocking = s.blocking /\ z.cgmanager_wait = s.cgmanager_wait
        /\ z.aborted = s.aborted /\ z.job[j] = a
        /\ \A k \in Jobs \ {j} : z.job[k] = s.job[k]
    BY <2>2, <2>3, JobSound
  <2> HIDE DEF z
  <2>5. /\ Sound(y, NoEvent) /\ Frame(z, y) /\ y.job = z.job /\ y.held = z.held
        /\ y.blocking = z.blocking \ {r \in z.blocking : r.job = j}
        /\ b => \A r \in z.blocking : r.job = j =>
                  \A i \in 1 .. Len(z.events) : z.events[i].id = r.event => y.events[i].failed
    <3>1. Sound(z, NoEvent) /\ b \in BOOLEAN /\ y = JobFinished(z, j, b) /\ j \in Jobs
      BY <2>1, <2>4
    <3> QED BY ONLY <3>1, FinishedSound
  <2>6. y.cgmanager_wait = s.cgmanager_wait /\ y.aborted = s.aborted /\ Grows(s, y)
    BY <2>4, <2>5 DEF Frame, Grows
  <2>7. Lighter(s, y)
    BY <2>4, <2>5, <2>6 DEF Lighter
  <2>8. /\ y.job[j].pid = s.job[j].pid /\ y.job[j].goal = s.job[j].goal
        /\ \A k \in Jobs \ {j} : y.job[k] = s.job[k]
        /\ \A r \in s.blocking \ y.blocking : r.job = j
    BY <2>2, <2>4, <2>5
  <2>9. \A r \in s.blocking : r.job = j => \A i \in 1 .. Len(s.events) :
          s.events[i].id = r.event => y.events[i].failed
    BY <2>1, <2>4, <2>5
  <2> QED BY <2>5, <2>6, <2>7, <2>8, <2>9
<1> QED BY <1>2, <1>3

\* A callback of a job that lets go of references is one after another.
LEMMA LighterTransitive ==
  ASSUME NEW s, NEW y, NEW z, Lighter(s, y), Lighter(y, z)
  PROVE  Lighter(s, z)
BY DEF Lighter

\* The main process ended.
LEMMA MainEndsSound ==
  ASSUME IInv, NEW j \in Jobs, NEW ok \in BOOLEAN, MainEnds(j, ok)
  PROVE  Regular /\ Lighter(sys, sys')
<1> DEFINE a == [sys.job[j] EXCEPT !.pid = FALSE]
           g == Put(sys, j, a)
           f == IF ok THEN g ELSE JobFailed(g, j)
           c == JobChangeGoal(f, j, "stop")
<1>1. Sound(sys, NoEvent)
  BY DEF IInv
<1>2. sys \in SysType /\ sys.job[j] \in JobType /\ Tells(sys, NoEvent) /\ ProcessStates(sys)
  BY <1>1 DEF Sound, SysType
<1>3. MainLoop /\ sys.job[j].pid
  BY DEF MainEnds
<1>4. sys.job[j].state \in {"spawned", "running", "stopping", "killed"}
  BY <1>2, <1>3 DEF ProcessStates, JobType, JobStates
<1>5. /\ a \in JobType /\ a.state = sys.job[j].state /\ a.blocker = sys.job[j].blocker
      /\ ~a.pid /\ a.failed = sys.job[j].failed
  BY <1>2 DEF JobType
<1>6. PICK y \in {g, JobNextState(g, j), JobNextState(c, j)} : Callback(y)
  <2>1. Callback(CASE sys.job[j].state = "stopping" -> g
                   [] sys.job[j].state = "killed" -> JobNextState(g, j)
                   [] sys.job[j].state \in {"spawned", "running"} ->
                        IF sys.job[j].goal = "stop" THEN JobNextState(g, j)
                        ELSE JobNextState(c, j))
    BY DEF MainEnds, Put
  <2> HIDE DEF g, c, f
  <2>2. CASE sys.job[j].state = "stopping"
    BY <2>1, <2>2 DEF Callback
  <2>3. CASE sys.job[j].state = "killed"
    BY <2>1, <2>3 DEF Callback
  <2>4. CASE sys.job[j].state \in {"spawned", "running"}
    BY <2>1, <2>4 DEF Callback
  <2> QED BY <1>4, <2>2, <2>3, <2>4
<1> HIDE DEF a, g, c
<1>7. /\ a.blocker # NoEvent => a.state \in {"starting", "stopping"}
      /\ a.pid => a.state \notin {"waiting", "starting"}
      /\ a.failed => sys.job[j].failed
  BY <1>2, <1>5 DEF Tells
<1>8. /\ Sound(g, NoEvent) /\ g.events = sys.events /\ g.held = sys.held
      /\ g.blocking = sys.blocking /\ g.cgmanager_wait = sys.cgmanager_wait
      /\ g.aborted = sys.aborted /\ g.job[j] = a
      /\ \A k \in Jobs \ {j} : g.job[k] = sys.job[k]
  BY <1>1, <1>5, <1>7, JobSound DEF g
<1>9. Shrinks(sys, g)
  BY <1>1, <1>5, <1>7, JobSound DEF g
<1>10. CASE y = g
  <2>1. sys' = y /\ Lighter(sys, y)
    BY <1>6, <1>9, <1>10 DEF Callback, Lighter, Shrinks, Frame
  <2> QED BY <1>3, <1>6, <1>8, <1>9, <1>10, <2>1, QuietCallback
<1>11. CASE y = JobNextState(g, j)
  <2>1. ~g.job[j].pid
    BY <1>5, <1>8
  <2>2. Sound(y, NoEvent) /\ Shrinks(g, y)
    BY <1>8, <1>11, <2>1, NextStateSound DEF Moved
  <2>3. g \in SysType /\ y \in SysType
    BY <1>8, <2>2 DEF Sound
  <2>4. Shrinks(sys, y)
    BY <1>2, <1>9, <2>2, <2>3, FrameTransitive
  <2>5. sys' = y /\ Lighter(sys, y)
    BY <1>6, <2>4 DEF Callback, Lighter, Shrinks, Frame
  <2> QED BY <1>3, <1>6, <2>2, <2>4, <2>5, QuietCallback
<1>12. CASE y = JobNextState(c, j)
  <2>1. f = g \/ f = JobFailed(g, j)
    OBVIOUS
  <2> HIDE DEF f
  <2>2. /\ Sound(f, NoEvent) /\ Lighter(g, f) /\ Grows(g, f) /\ f.aborted = g.aborted
        /\ f.job[j].pid = g.job[j].pid
        /\ \A k \in Jobs \ {j} : f.job[k].failed => g.job[k].failed
        /\ ~g.job[j].failed /\ f.job[j].failed =>
             \A r \in g.blocking : r.job = j => \A i \in 1 .. Len(g.events) :
               g.events[i].id = r.event => f.events[i].failed
    <3>1. CASE f = g
      <4>1. Len(g.events) \in Nat
        BY <1>8, ListLength DEF Sound
      <4> QED BY <1>8, <3>1, <4>1 DEF Lighter, Grows
    <3>2. CASE f = JobFailed(g, j)
      BY <1>8, <3>2, FailedSound
    <3> QED BY <2>1, <3>1, <3>2
  <2>3. Moved(f, c, NoEvent, j)
    <3> DEFINE goal == "stop"
    <3>1. c = JobChangeGoal(f, j, goal) /\ goal \in {"start", "stop"}
      BY DEF c
    <3> HIDE DEF goal
    <3> QED BY <2>2, <3>1, GoalSound
  <2>4. Sound(c, NoEvent) /\ Shrinks(f, c) /\ (c.job[j].state = "killed" => ~c.job[j].pid)
    BY <1>5, <1>8, <2>2, <2>3 DEF Moved
  <2>5. Sound(y, NoEvent) /\ Shrinks(c, y)
    BY <1>12, <2>4, NextStateSound DEF Moved
  <2>6. f \in SysType /\ c \in SysType /\ y \in SysType
    BY <2>2, <2>4, <2>5 DEF Sound
  <2>7. Shrinks(f, y)
    BY <2>4, <2>5, <2>6, FrameTransitive
  <2>8. Lighter(sys, g) /\ Lighter(f, y)
    BY <1>9, <2>7 DEF Lighter, Shrinks, Frame
  <2>9. Lighter(sys, y)
    BY <2>2, <2>8, LighterTransitive
  <2>10. IInv'
    BY <1>3, <1>6, <2>5, <2>9, CallbackSound
  <2>11. sys' = y /\ sys'.aborted = sys.aborted
    BY <1>6, <1>8, <2>2, <2>7 DEF Callback, Shrinks, Frame
  <2>12. Reported(sys, y, replied')
    <3> SUFFICES ASSUME NEW i \in 1 .. Len(sys.events), Fails(sys, y, sys.events[i])
                 PROVE  StaysFailed(y, sys.events[i])
      BY DEF Reported
    <3>1. Keeps(g, f) /\ Keeps(f, y)
      BY <1>8, <2>2, <2>6, <2>7, GrownKeeps DEF Sound, Shrinks, Frame
    <3>2. i \in 1 .. Len(f.events) /\ f.events[i].id = sys.events[i].id
          /\ f.events[i].name = sys.events[i].name
      BY <1>8, <3>1 DEF Keeps
    <3>3. f.events[i].failed
      <4>1. CASE sys.events[i].failed
        BY <1>8, <3>1, <4>1 DEF Keeps
      <4>2. ASSUME NEW r \in sys.blocking, r.event = sys.events[i].id,
                   ~sys.job[r.job].failed, y.job[r.job].failed
            PROVE  f.events[i].failed
        <5>1. r.job \in Jobs /\ f.job[r.job].failed
          BY <1>2, <2>7, <4>2 DEF SysType, RefType, Shrinks, Frame
        <5>2. r.job = j
          BY <1>8, <2>2, <4>2, <5>1
        <5>3. ~g.job[j].failed
          BY <1>5, <1>8, <4>2, <5>2
        <5> QED BY <1>8, <2>2, <4>2, <5>1, <5>2, <5>3
      <4> QED BY <4>1, <4>2 DEF Fails
    <3>4. DOMAIN y.events = 1 .. Len(y.events)
      BY <2>6, ListLength
    <3> QED BY <3>1, <3>2, <3>3, <3>4 DEF Keeps, StaysFailed
  <2> QED BY <2>9, <2>10, <2>11, <2>12 DEF Regular
<1> QED BY <1>6, <1>10, <1>11, <1>12

\* The cgroup manager is there.
LEMMA NotifySound ==
  ASSUME IInv, NotifyCgmanager
  PROVE  Regular
<1>1. sys' = sys /\ poll = Idle /\ poll' = [poll EXCEPT !.induct = sys.cgmanager_wait]
  BY DEF NotifyCgmanager, MainLoop
<1>2. sys \in SysType /\ Sound(sys, NoEvent) /\ Apart(sys) /\ Waits(sys)
  BY DEF IInv, Sound
<1>3. sys.cgmanager_wait \subseteq Jobs
  BY <1>2 DEF SysType
<1>4. /\ poll' \in PollType /\ poll'.event = NoEvent /\ poll'.todo = {}
      /\ poll'.induct = sys.cgmanager_wait
  <2>1. poll \in PollType /\ poll.event = NoEvent /\ poll.todo = {}
    BY <1>1 DEF IInv, Polls, Idle
  <2> QED BY <1>1, <1>3, <2>1 DEF PollType
<1>5. NotYet(sys, poll') /\ Polls(sys, poll')
  BY <1>4 DEF NotYet, Polls
<1>6. Reported(sys, sys, replied')
  BY <1>2, SameReported
<1>7. Sound(sys', NoEvent) /\ Apart(sys') /\ Waits(sys') /\ NotYet(sys', poll') /\ Polls(sys', poll')
  BY <1>1, <1>2, <1>5
<1> QED BY <1>1, <1>6, <1>7 DEF Regular, IInv

\* job_class_induct_jobs() starts a class that waited for the cgroup manager.
LEMMA InductWaitingSound ==
  ASSUME IInv, NEW j \in Jobs, InductWaiting(j)
  PROVE  /\ IInv' /\ Reported(sys, sys', replied')
         /\ Satisfied(sys, j, "start") => sys'.aborted = sys.aborted
<1>1. /\ Sound(sys, NoEvent) /\ Apart(sys) /\ Waits(sys) /\ Polls(sys, poll) /\ sys \in SysType
  BY DEF IInv, Sound
<1>2. j \in poll.induct /\ poll' = [poll EXCEPT !.induct = poll.induct \ {j}]
  BY DEF InductWaiting
<1>3. /\ poll \in PollType /\ poll.event = NoEvent /\ poll.todo = {}
      /\ poll.induct \subseteq sys.cgmanager_wait
  BY <1>1, <1>2 DEF Polls
<1>4. /\ poll' \in PollType /\ poll'.event = NoEvent /\ poll'.todo = {}
      /\ poll'.induct = poll.induct \ {j}
  BY <1>2, <1>3 DEF PollType
<1>5. \A y : sys.cgmanager_wait \ {j} \subseteq y.cgmanager_wait => NotYet(y, poll') /\ Polls(y, poll')
  BY <1>3, <1>4 DEF NotYet, Polls
<1>6. CASE Satisfied(sys, j, "start")
  <2>1. PICK named \in Expansions(j) :
          sys' = [EventOperatorReset(InductJob(sys, j, named), j, "start")
                    EXCEPT !.cgmanager_wait = @ \ {j}]
    BY <1>6 DEF InductWaiting
  <2>2. named \in BOOLEAN
    BY DEF Expansions
  <2> DEFINE h == InductJob(sys, j, named)
             y == EventOperatorReset(h, j, "start")
             w == y.cgmanager_wait \ {j}
  <2>3. Handled(sys, h, NoEvent, j, "start", NoEvent)
    BY <1>1, <2>2, InductJobSound
  <2> HIDE DEF h
  <2>4. Handled(h, y, NoEvent, j, "start", NoEvent)
    BY <2>3, ResetHandled DEF Handled
  <2>5. sys' = [y EXCEPT !.cgmanager_wait = w]
    BY <2>1 DEF h
  <2> HIDE DEF y
  <2>6. Handled(sys, y, NoEvent, j, "start", NoEvent)
    BY <1>1, <2>3, <2>4, HandledTransitive
  <2>7. Sound(y, NoEvent) /\ Apart(y) /\ Frame(sys, y) /\ KeepsStarts(sys, y, {j})
    BY <2>6 DEF Handled, Starting
  <2>8. y.cgmanager_wait = sys.cgmanager_wait /\ w \in SUBSET Jobs /\ y.aborted = sys.aborted
        /\ \A k \in Jobs : y.job[k].failed => sys.job[k].failed
    BY <1>1, <2>7 DEF Frame, SysType
  <2>9. /\ Sound(sys', NoEvent) /\ sys'.cgmanager_wait = w /\ sys'.held = y.held
        /\ sys'.blocking = y.blocking /\ sys'.job = y.job /\ sys'.aborted = y.aborted
    <3> HIDE DEF w
    <3> QED BY <2>5, <2>7, <2>8, WaitSet
  <2>10. Apart(sys')
    BY <2>7, <2>9 DEF Apart
  <2>11. Waits(sys')
    BY <1>1, <2>7, <2>8, <2>9 DEF Waits, KeepsStarts
  <2>12. NotYet(sys', poll') /\ Polls(sys', poll')
    BY <1>5, <2>8, <2>9
  <2>13. Reported(sys, sys', replied')
    <3>1. sys'.events = y.events /\ y \in SysType /\ sys' \in SysType
      <4>1. sys' \in SysType /\ y \in SysType
        BY <2>7, <2>9 DEF Sound
      <4> HIDE DEF w
      <4> QED BY <2>5, <4>1 DEF SysType
    <3>2. Keeps(sys, y)
      BY <1>1, <2>7, <3>1, GrownKeeps DEF Frame
    <3>3. Keeps(sys, sys')
      BY <3>1, <3>2 DEF Keeps
    <3> QED BY <1>1, <2>8, <2>9, <3>1, <3>3, NothingFailed
  <2> QED BY <2>8, <2>9, <2>10, <2>11, <2>12, <2>13 DEF IInv
<1>7. CASE ~Satisfied(sys, j, "start")
  <2>1. sys' = [sys EXCEPT !.aborted = TRUE]
    BY <1>7 DEF InductWaiting
  <2>2. /\ sys' \in SysType /\ sys'.events = sys.events /\ sys'.job = sys.job
        /\ sys'.held = sys.held /\ sys'.blocking = sys.blocking
        /\ sys'.cgmanager_wait = sys.cgmanager_wait
    BY <1>1, <2>1 DEF SysType
  <2>3. Sound(sys', NoEvent)
    BY <1>1, <2>2
       DEF Sound, Unique, Finite, Known, Counted, Tells, ProcessStates, IsRef, Handling
  <2>4. Apart(sys') /\ Waits(sys')
    BY <1>1, <2>2 DEF Apart, Waits
  <2>5. NotYet(sys', poll') /\ Polls(sys', poll')
    BY <1>5, <2>2
  <2>6. Reported(sys, sys', replied')
    <3>1. Keeps(sys, sys')
      BY <1>1, <2>2, ListLength DEF Keeps
    <3> QED BY <1>1, <2>2, <3>1, NothingFailed
  <2> QED BY <1>7, <2>3, <2>4, <2>5, <2>6 DEF IInv
<1> QED BY <1>6, <1>7

\* There are no events, and no job is running.
LEMMA InitSound ==
  ASSUME Init
  PROVE  IInv /\ ~sys.aborted
<1> DEFINE jobs == [k \in Jobs |-> NoJobState]
<1>1. /\ sys = [events |-> <<>>, job |-> jobs, held |-> {}, blocking |-> {},
                cgmanager_wait |-> {}, aborted |-> FALSE]
      /\ poll = Idle
  BY DEF Init
<1>2. /\ NoJobState \in JobType /\ NoJobState.blocker = NoEvent /\ ~NoJobState.pid
  BY DEF NoJobState, JobType, JobStates, NoEvent
<1>3. jobs \in [Jobs -> JobType] /\ \A k \in Jobs : jobs[k] = NoJobState
  BY <1>2
<1>4. <<>> \in Seq(EventType) /\ Len(<<>>) = 0
  OBVIOUS
<1> HIDE DEF jobs
<1>5. /\ sys \in SysType /\ sys.job = jobs /\ Len(sys.events) = 0 /\ sys.held = {}
      /\ sys.blocking = {} /\ sys.cgmanager_wait = {} /\ ~sys.aborted
  BY <1>1, <1>3, <1>4 DEF SysType
<1>6. 1 .. Len(sys.events) = {}
  BY <1>5
<1>7. Finite(sys)
  BY <1>5, FS_EmptySet DEF Finite
<1>8. Unique(sys) /\ Known(sys) /\ Counted(sys) /\ Tells(sys, NoEvent) /\ ProcessStates(sys)
  BY <1>2, <1>3, <1>5, <1>6 DEF Unique, Known, Counted, Tells, ProcessStates
<1>9. Sound(sys, NoEvent)
  BY <1>5, <1>7, <1>8 DEF Sound
<1>10. Apart(sys) /\ Waits(sys) /\ NotYet(sys, poll)
  BY <1>5 DEF Apart, Waits, NotYet
<1>11. poll \in PollType /\ poll.event = NoEvent /\ poll.todo = {} /\ poll.induct = {}
  BY <1>1 DEF PollType, Idle, NoEvent
<1>12. Polls(sys, poll)
  BY <1>11 DEF Polls
<1> QED BY <1>5, <1>9, <1>10, <1>12 DEF IInv

\* A step keeps the invariant.
LEMMA NextSound ==
  ASSUME IInv, [Next]_vars
  PROVE  /\ IInv' /\ Reported(sys, sys', replied')
         /\ \/ sys'.aborted = sys.aborted
            \/ \E j \in Jobs : InductWaiting(j) /\ ~Satisfied(sys, j, "start")
<1>1. CASE UNCHANGED vars
  <2>1. sys' = sys /\ poll' = poll /\ sys \in SysType
    BY <1>1 DEF vars, IInv, Sound
  <2>2. Reported(sys, sys, replied')
    BY <2>1, SameReported
  <2> QED BY <2>1, <2>2 DEF IInv
<1>2. CASE \E j \in Jobs : InductWaiting(j)
  BY <1>2, InductWaitingSound
<1>3. CASE Poll
  BY <1>3, PollBeginSound, HandleClassSound, PollEndSound DEF Poll, Regular
<1>4. CASE \E name \in Names : Emit(name)
  BY <1>4, EmitSound DEF Regular
<1>5. CASE \E j \in Jobs : MainUp(j) \/ \E ok \in BOOLEAN : MainEnds(j, ok)
  BY <1>5, MainUpSound, MainEndsSound DEF Regular
<1>6. CASE NotifyCgmanager
  BY <1>6, NotifySound DEF Regular
<1> QED BY <1>1, <1>2, <1>3, <1>4, <1>5, <1>6 DEF Next

-----------------------------------------------------------------------------
(* Expressions *)

\* What makes a node true makes it true when more is.
LEMMA TruthGrows ==
  ASSUME NEW e, NEW leaves, NEW more, leaves \subseteq more,
         NEW V, NEW W, V \subseteq W, NEW n, IsTrue(e, leaves, V, n)
  PROVE  IsTrue(e, more, W, n)
BY DEF IsTrue

\* Every expression has a value: the nodes that are in every set with the nodes that
\* its own make true.
LEMMA EvaluateIs ==
  ASSUME NEW e, NEW leaves, NEW V, V = Evaluate(e, leaves)
  PROVE  V \subseteq DOMAIN e /\ \A n \in DOMAIN e : n \in V <=> IsTrue(e, leaves, V, n)
<1> DEFINE D == DOMAIN e
           Closed(W) == \A n \in D : IsTrue(e, leaves, W, n) => n \in W
           L == {n \in D : \A W \in SUBSET D : Closed(W) => n \in W}
           F == {n \in D : IsTrue(e, leaves, L, n)}
<1>1. \A W \in SUBSET D : Closed(W) => L \subseteq W
  OBVIOUS
<1>2. ASSUME NEW n \in D, IsTrue(e, leaves, L, n) PROVE n \in L
  <2> SUFFICES ASSUME NEW W \in SUBSET D, Closed(W) PROVE n \in W
    OBVIOUS
  <2>1. L \subseteq W
    BY <1>1
  <2> HIDE DEF L
  <2>2. IsTrue(e, leaves, W, n)
    BY <1>2, <2>1, TruthGrows
  <2> QED BY <2>2
<1>3. F \subseteq L
  BY <1>2
<1>4. Closed(F)
  <2> SUFFICES ASSUME NEW n \in D, IsTrue(e, leaves, F, n) PROVE IsTrue(e, leaves, L, n)
    OBVIOUS
  <2> HIDE DEF F, L
  <2> QED BY <1>3, TruthGrows
<1>5. L \subseteq F
  <2>1. F \in SUBSET D
    OBVIOUS
  <2> HIDE DEF F, L
  <2> QED BY <1>1, <1>4, <2>1
<1>6. L \in SUBSET D /\ \A n \in D : n \in L <=> IsTrue(e, leaves, L, n)
  <2> HIDE DEF L
  <2> QED BY <1>2, <1>5
<1> HIDE DEF L
<1> QED BY <1>6 DEF Evaluate

\* More events never make an expression false.
LEMMA MoreIsTrue ==
  ASSUME NEW e, IsExpression(e), NEW leaves, NEW more, leaves \subseteq more
  PROVE  Evaluate(e, leaves) \subseteq Evaluate(e, more)
<1> DEFINE V == Evaluate(e, leaves)
           W == Evaluate(e, more)
           K == {n \in DOMAIN e : n \in V /\ n \notin W}
<1>1. V \subseteq DOMAIN e /\ \A n \in DOMAIN e : n \in V <=> IsTrue(e, leaves, V, n)
  BY EvaluateIs
<1>2. \A n \in DOMAIN e : n \in W <=> IsTrue(e, more, W, n)
  BY EvaluateIs
<1>3. DOMAIN e \subseteq Nat
  BY DEF IsExpression
<1> HIDE DEF V, W
<1>4. SUFFICES ASSUME K # {} PROVE FALSE
  BY <1>1 DEF V, W
<1>5. PICK m \in K : \A n \in K : m <= n
  <2>1. K \in SUBSET Nat /\ K # {}
    BY <1>3, <1>4
  <2> HIDE DEF K
  <2> QED BY <2>1, HasLeast
<1>6. m \in DOMAIN e /\ IsTrue(e, leaves, V, m) /\ ~IsTrue(e, more, W, m)
  BY <1>1, <1>2, <1>5
<1>7. \A n \in 1 .. m - 1 : n \in V => n \in W
  BY <1>1, <1>3, <1>5, <1>6
<1>8. e[m].op # "match" => e[m].left \in 1 .. m - 1 /\ e[m].right \in 1 .. m - 1
  BY <1>6 DEF IsExpression
<1> QED BY <1>6, <1>7, <1>8 DEF IsTrue

\* Without events nothing is true.
LEMMA NothingIsTrue ==
  ASSUME NEW e, IsExpression(e)
  PROVE  Evaluate(e, {}) = {}
<1> DEFINE V == Evaluate(e, {})
<1>1. V \subseteq DOMAIN e /\ \A n \in DOMAIN e : n \in V <=> IsTrue(e, {}, V, n)
  BY EvaluateIs
<1>2. DOMAIN e \subseteq Nat
  BY DEF IsExpression
<1>3. SUFFICES ASSUME V # {} PROVE FALSE
  OBVIOUS
<1> HIDE DEF V
<1>4. PICK m \in V : \A n \in V : m <= n
  <2>1. V \in SUBSET Nat /\ V # {}
    BY <1>1, <1>2, <1>3
  <2> QED BY <2>1, HasLeast
<1>5. m \in DOMAIN e /\ IsTrue(e, {}, V, m)
  BY <1>1, <1>4
<1>6. \A n \in 1 .. m - 1 : n \notin V
  BY <1>1, <1>2, <1>4, <1>5
<1>7. e[m].op # "match" => e[m].left \in 1 .. m - 1 /\ e[m].right \in 1 .. m - 1
  BY <1>5 DEF IsExpression
<1> QED BY <1>5, <1>6, <1>7 DEF IsTrue

\* The nodes that had a part in making an expression true: the root, and the true
\* nodes below one that had.
LEMMA ContributingIs ==
  ASSUME NEW s, NEW j, NEW tree, NEW C, C = Contributing(s, j, tree),
         NEW e, e = Tree(j, tree), NEW V, V = Value(s, j, tree)
  PROVE  /\ C \subseteq V
         /\ \A n \in V :
              n \in C <=> \/ n = Len(e)
                          \/ \E m \in C : e[m].op # "match" /\ n \in {e[m].left, e[m].right}
<1> DEFINE Below(W, n) == \E m \in W : e[m].op # "match" /\ n \in {e[m].left, e[m].right}
           Part(W, n) == n = Len(e) \/ Below(W, n)
           Closed(W) == \A n \in V : Part(W, n) => n \in W
           L == {n \in V : \A W \in SUBSET V : Closed(W) => n \in W}
           F == {n \in V : Part(L, n)}
<1>1. \A W \in SUBSET V : Closed(W) => L \subseteq W
  OBVIOUS
<1>2. \A W, X, n : W \subseteq X /\ Part(W, n) => Part(X, n)
  OBVIOUS
<1> HIDE DEF Part
<1>3. ASSUME NEW n \in V, Part(L, n) PROVE n \in L
  <2> SUFFICES ASSUME NEW W \in SUBSET V, Closed(W) PROVE n \in W
    OBVIOUS
  <2>1. L \subseteq W
    BY <1>1
  <2> HIDE DEF L
  <2> QED BY <1>2, <1>3, <2>1
<1>4. F \subseteq L
  BY <1>3
<1>5. Closed(F)
  <2> SUFFICES ASSUME NEW n \in V, Part(F, n) PROVE Part(L, n)
    OBVIOUS
  <2> HIDE DEF F, L
  <2> QED BY <1>2, <1>4
<1>6. L \subseteq F
  <2>1. F \in SUBSET V
    OBVIOUS
  <2> HIDE DEF F, L
  <2> QED BY <1>1, <1>5, <2>1
<1>7. L \in SUBSET V /\ \A n \in V : n \in L <=> Part(L, n)
  <2>1. L \in SUBSET V
    OBVIOUS
  <2> HIDE DEF L
  <2> QED BY <2>1, <1>3, <1>6
<1> HIDE DEF L
<1>8. C = CHOOSE W \in SUBSET V : \A n \in V : n \in W <=> Part(W, n)
  BY DEF Contributing, Part
<1>9. C \in SUBSET V /\ \A n \in V : n \in C <=> Part(C, n)
  BY <1>7, <1>8
<1> QED BY <1>9 DEF Part

\* The events that an expression has matched.
Matched(s, j, tree) == {r.node : r \in RefsOf(s.held, j, tree)}

\* When an expression becomes true, an event that was matched last has its part in
\* it: without it the expression was false.
LEMMA TakesPart ==
  ASSUME NEW s, NEW j \in Jobs, NEW tree \in Trees, Satisfied(s, j, tree),
         NEW old, Len(Tree(j, tree)) \notin Evaluate(Tree(j, tree), old)
  PROVE  \E n \in Contributing(s, j, tree) : n \in Matched(s, j, tree) \ old
<1> DEFINE e == Tree(j, tree)
           C == Contributing(s, j, tree)
           V == Value(s, j, tree)
           L == Matched(s, j, tree)
           O == Evaluate(e, old)
           K == {n \in C : n \notin O}
<1>1. IsExpression(e)
  BY JobsAssumption DEF Tree
<1>2. V = Evaluate(e, L)
  BY DEF Value, Matched
<1>3. V \subseteq DOMAIN e /\ \A n \in DOMAIN e : n \in V <=> IsTrue(e, L, V, n)
  BY <1>2, EvaluateIs
<1>4. \A n \in DOMAIN e : n \in O <=> IsTrue(e, old, O, n)
  BY EvaluateIs
<1>5. /\ C \subseteq V
      /\ \A n \in V : n \in C <=> \/ n = Len(e)
                                  \/ \E m \in C : e[m].op # "match" /\ n \in {e[m].left, e[m].right}
  BY ContributingIs
<1>6. Len(e) \in V /\ Len(e) \notin O
  BY DEF Satisfied
<1>7. Len(e) \in C
  BY <1>5, <1>6
<1>8. DOMAIN e \subseteq Nat
  BY <1>1 DEF IsExpression
<1> SUFFICES ASSUME \A n \in C : n \in L => n \in old PROVE FALSE
  OBVIOUS
<1> HIDE DEF e, C, V, L, O
<1>9. PICK m \in K : \A n \in K : m <= n
  <2>1. K \in SUBSET Nat /\ K # {}
    BY <1>3, <1>5, <1>6, <1>7, <1>8
  <2> HIDE DEF K
  <2> QED BY <2>1, HasLeast
<1>10. m \in DOMAIN e /\ m \in C /\ IsTrue(e, L, V, m) /\ ~IsTrue(e, old, O, m)
  BY <1>3, <1>4, <1>5, <1>9
<1>11. e[m].op # "match" => e[m].left \in 1 .. m - 1 /\ e[m].right \in 1 .. m - 1
  BY <1>1, <1>10 DEF IsExpression
<1>12. \A n \in 1 .. m - 1 : n \in C => n \in O
  BY <1>3, <1>5, <1>8, <1>9, <1>10
<1>13. e[m].op # "match" => (e[m].left \in V => e[m].left \in C) /\ (e[m].right \in V => e[m].right \in C)
  BY <1>5, <1>10
<1> QED BY <1>10, <1>11, <1>12, <1>13 DEF IsTrue

\* The leaves that match an event and have matched none take it.
LEMMA Takes ==
  ASSUME NEW s \in SysType, NEW j, NEW tree, NEW id, NEW y, y = EventOperatorHandle(s, j, tree, id)
  PROVE  /\ y.held = s.held \cup {Ref(j, tree, n, id) : n \in Matching(s, j, tree, id)}
         /\ y.blocking = s.blocking /\ y.job = s.job /\ y.cgmanager_wait = s.cgmanager_wait
<1> DEFINE refs == {Ref(j, tree, n, id) : n \in Matching(s, j, tree, id)}
<1>1. y = EventBlock([s EXCEPT !.held = @ \cup refs], refs)
  BY DEF EventOperatorHandle
<1> HIDE DEF refs
<1>2. /\ y.held = s.held \cup refs /\ y.blocking = s.blocking /\ y.job = s.job
      /\ y.cgmanager_wait = s.cgmanager_wait
  BY <1>1 DEF EventBlock, SysType
<1> QED BY <1>2 DEF refs

\* The events that have a part.
Parts(s, j, tree) == {r \in RefsOf(s.held, j, tree) : r.node \in Contributing(s, j, tree)}

\* They wait for the job.
LEMMA HandsOver ==
  ASSUME NEW s \in SysType, NEW j, NEW tree, NEW y, y = EventOperatorEvents(s, j, tree)
  PROVE  /\ y.blocking = s.blocking \cup Parts(s, j, tree)
         /\ y.held = s.held /\ y.job = s.job /\ y.cgmanager_wait = s.cgmanager_wait
<1> DEFINE refs == Parts(s, j, tree)
<1>1. y = EventBlock([s EXCEPT !.blocking = @ \cup refs], refs)
  BY DEF EventOperatorEvents, Parts
<1> HIDE DEF refs
<1>2. /\ y.blocking = s.blocking \cup refs /\ y.held = s.held /\ y.job = s.job
      /\ y.cgmanager_wait = s.cgmanager_wait
  BY <1>1 DEF EventBlock, SysType
<1> QED BY <1>2 DEF refs

\* The values of an expression follow from the references of its leaves.
LEMMA SameHeld ==
  ASSUME NEW s, NEW y, NEW j, NEW tree, RefsOf(y.held, j, tree) = RefsOf(s.held, j, tree)
  PROVE  /\ Satisfied(y, j, tree) <=> Satisfied(s, j, tree)
         /\ Parts(y, j, tree) = Parts(s, j, tree)
BY DEF Satisfied, Parts, Contributing, Value

\* With fewer of them an expression that was false stays so.
LEMMA StaysFalse ==
  ASSUME NEW s, NEW y, NEW j \in Jobs, NEW tree \in Trees, ~Satisfied(s, j, tree),
         RefsOf(y.held, j, tree) \subseteq RefsOf(s.held, j, tree)
  PROVE  ~Satisfied(y, j, tree)
<1>1. IsExpression(Tree(j, tree))
  BY JobsAssumption DEF Tree
<1>2. Matched(y, j, tree) \subseteq Matched(s, j, tree)
  BY DEF Matched
<1>3. Evaluate(Tree(j, tree), Matched(y, j, tree)) \subseteq Evaluate(Tree(j, tree), Matched(s, j, tree))
  BY <1>1, <1>2, MoreIsTrue
<1> QED BY <1>3 DEF Satisfied, Value, Matched

\* An expression that has let go of its events is false.
LEMMA ResetFalse ==
  ASSUME NEW s, NEW j \in Jobs, NEW tree \in Trees, RefsOf(s.held, j, tree) = {}
  PROVE  ~Satisfied(s, j, tree)
<1>1. IsExpression(Tree(j, tree))
  BY JobsAssumption DEF Tree
<1>2. Value(s, j, tree) = Evaluate(Tree(j, tree), {})
  BY DEF Value
<1> QED BY <1>1, <1>2, NothingIsTrue DEF Satisfied

\* An event of a name that makes an expression true does so when it is handled.
LEMMA MakesTrue ==
  ASSUME NEW s \in SysType, NEW j \in Jobs, NEW tree \in Trees, NEW id,
         NEW name, name = s.events[Index(s, id)].name, TrueOn(Tree(j, tree), name),
         NEW h, h = EventOperatorHandle(s, j, tree, id)
  PROVE  Satisfied(h, j, tree)
<1> DEFINE e == Tree(j, tree)
           T == {n \in DOMAIN e : e[n].op = "match" /\ e[n].name = name}
<1>1. IsExpression(e)
  BY JobsAssumption DEF Tree
<1>2. Len(e) \in Evaluate(e, T)
  BY DEF TrueOn
<1>3. T \subseteq Matched(h, j, tree)
  <2> SUFFICES ASSUME NEW n \in T PROVE \E r \in RefsOf(h.held, j, tree) : r.node = n
    BY DEF Matched
  <2>1. h.held = s.held \cup {Ref(j, tree, m, id) : m \in Matching(s, j, tree, id)}
    BY Takes
  <2>2. CASE \A r \in RefsOf(s.held, j, tree) : r.node # n
    <3>1. n \in Matching(s, j, tree, id)
      BY <2>2 DEF Matching
    <3>2. Ref(j, tree, n, id) \in RefsOf(h.held, j, tree) /\ Ref(j, tree, n, id).node = n
      BY <2>1, <3>1 DEF RefsOf, Ref
    <3> QED BY <3>2
  <2>3. CASE \E r \in RefsOf(s.held, j, tree) : r.node = n
    BY <2>1, <2>3 DEF RefsOf
  <2> QED BY <2>2, <2>3
<1>4. Evaluate(e, T) \subseteq Evaluate(e, Matched(h, j, tree))
  BY <1>1, <1>3, MoreIsTrue
<1> QED BY <1>2, <1>4 DEF Satisfied, Value, Matched

\* The event that makes an expression true has a part in it.
LEMMA HasPart ==
  ASSUME NEW s \in SysType, NEW j \in Jobs, NEW tree \in Trees, NEW id, ~Satisfied(s, j, tree),
         NEW h, h = EventOperatorHandle(s, j, tree, id), Satisfied(h, j, tree)
  PROVE  h.held # s.held /\ \E r \in Parts(h, j, tree) : r.job = j /\ r.event = id
<1> DEFINE old == Matched(s, j, tree)
<1>1. h.held = s.held \cup {Ref(j, tree, m, id) : m \in Matching(s, j, tree, id)}
  BY Takes
<1>2. Len(Tree(j, tree)) \notin Evaluate(Tree(j, tree), old)
  BY DEF Satisfied, Value, Matched
<1>3. PICK n \in Contributing(h, j, tree) : n \in Matched(h, j, tree) \ old
  <2> HIDE DEF old
  <2> QED BY <1>2, TakesPart
<1>4. PICK r \in RefsOf(h.held, j, tree) : r.node = n
  BY <1>3 DEF Matched
<1>5. r \notin s.held
  BY <1>3, <1>4 DEF Matched, RefsOf
<1>6. r.job = j /\ r.event = id
  BY <1>1, <1>4, <1>5 DEF Ref, RefsOf
<1>7. r \in Parts(h, j, tree)
  BY <1>3, <1>4 DEF Parts
<1>8. h.held # s.held
  BY <1>4, <1>5 DEF RefsOf
<1> QED BY <1>6, <1>7, <1>8

-----------------------------------------------------------------------------
(* What waits for a job *)

\* A change of a job leaves the others alone, and references that it lets go are to
\* events that waited for the job, which has got there or does not go there.
Goes(s, y, j) ==
  /\ \A k \in Jobs \ {j} : y.job[k] = s.job[k]
  /\ \A r \in s.blocking \ y.blocking :
       /\ r.job = j
       /\ \/ y.job[j].state = "waiting"
          \/ j \notin Task /\ y.job[j].state = "running" /\ s.job[j].goal = "start"
          \/ y.job[j].goal # s.job[j].goal
  /\ y.job[j].goal \in {s.job[j].goal, "stop"}

\* A new event changes nothing else.
LEMMA NewGoes ==
  ASSUME NEW s \in SysType, NEW name, NEW of, NEW y, y = EventNew(s, name, of)
  PROVE  y.job = s.job /\ y.blocking = s.blocking /\ y.held = s.held
         /\ y.cgmanager_wait = s.cgmanager_wait
BY DEF EventNew, SysType

\* Nor does another state.
LEMMA StateGoes ==
  ASSUME NEW s \in SysType, NEW j \in Jobs, NEW v \in JobStates, NEW z, z = PutState(s, j, v)
  PROVE  /\ z \in SysType /\ z.blocking = s.blocking
         /\ \A k \in Jobs \ {j} : z.job[k] = s.job[k]
         /\ z.job[j].goal = s.job[j].goal /\ z.job[j].state = v
<1> DEFINE a == s.job[j]
           c == [a EXCEPT !.state = v]
<1>1. a \in JobType /\ z = Put(s, j, c)
  BY DEF SysType, PutState, Put
<1> HIDE DEF a
<1>2. c \in JobType /\ c.goal = a.goal /\ c.state = v
  BY <1>1 DEF JobType
<1> HIDE DEF c
<1>3. /\ z \in SysType /\ z.blocking = s.blocking /\ z.job[j] = c
      /\ \A k \in Jobs \ {j} : z.job[k] = s.job[k]
  BY <1>1, <1>2, JobSet
<1> QED BY <1>2, <1>3 DEF a

\* A job that waits for its own event keeps what waits for it.
LEMMA EmitGoes ==
  ASSUME NEW s \in SysType, NEW j \in Jobs, NEW kind, NEW y, y = EmitBlocking(s, j, kind)
  PROVE  /\ \A k \in Jobs \ {j} : y.job[k] = s.job[k]
         /\ y.job[j].goal = s.job[j].goal /\ y.job[j].state = s.job[j].state
         /\ y.blocking = s.blocking
<1> DEFINE z == [s EXCEPT !.job[j].blocker = NewId(s)]
<1>1. y = EventNew(z, EventName(kind, j), j)
  BY DEF EmitBlocking
<1>2. NewId(s) \in Nat
  BY NewIdUnused
<1>3. /\ z \in SysType /\ z.blocking = s.blocking
      /\ \A k \in Jobs \ {j} : z.job[k] = s.job[k]
      /\ z.job[j].goal = s.job[j].goal /\ z.job[j].state = s.job[j].state
  <2> DEFINE a == s.job[j]
             n == NewId(s)
             c == [a EXCEPT !.blocker = n]
  <2>1. a \in JobType /\ z = Put(s, j, c)
    BY DEF SysType, Put
  <2> HIDE DEF a, n, z
  <2>2. c \in JobType /\ c.goal = a.goal /\ c.state = a.state
    BY <1>2, <2>1 DEF JobType, n
  <2> HIDE DEF c
  <2>3. /\ z \in SysType /\ z.blocking = s.blocking /\ z.job[j] = c
        /\ \A k \in Jobs \ {j} : z.job[k] = s.job[k]
    BY <2>1, <2>2, JobSet
  <2> QED BY <2>2, <2>3 DEF a
<1> HIDE DEF z
<1> QED BY <1>1, <1>3, NewGoes

\* starting.
LEMMA StartingGoes ==
  ASSUME NEW s \in SysType, NEW j \in Jobs, NEW y, y = EnterStarting(s, j)
  PROVE  Goes(s, y, j) /\ y.blocking = s.blocking /\ y.job[j].state = "starting"
         /\ y.job[j].goal = s.job[j].goal
<1> DEFINE z == [s EXCEPT !.job[j].state = "starting", !.job[j].failed = FALSE]
<1>1. y = EmitBlocking(z, j, "starting")
  BY DEF EnterStarting
<1>2. /\ z \in SysType /\ z.blocking = s.blocking
      /\ \A k \in Jobs \ {j} : z.job[k] = s.job[k]
      /\ z.job[j].goal = s.job[j].goal /\ z.job[j].state = "starting"
  <2> DEFINE w == [s EXCEPT !.job[j].state = "starting"]
             v == [w EXCEPT !.job[j].failed = FALSE]
  <2>1. /\ w \in SysType /\ w.blocking = s.blocking
        /\ \A k \in Jobs \ {j} : w.job[k] = s.job[k]
        /\ w.job[j].goal = s.job[j].goal /\ w.job[j].state = "starting"
    <3> DEFINE new == "starting"
    <3>1. new \in JobStates /\ w = PutState(s, j, new)
      BY DEF JobStates, PutState
    <3> HIDE DEF new, w
    <3>2. /\ w \in SysType /\ w.blocking = s.blocking
          /\ \A k \in Jobs \ {j} : w.job[k] = s.job[k]
          /\ w.job[j].goal = s.job[j].goal /\ w.job[j].state = new
      BY <3>1, StateGoes
    <3> QED BY <3>2 DEF new
  <2>2. z = v
    OBVIOUS
  <2> HIDE DEF w
  <2> DEFINE a == w.job[j]
             c == [a EXCEPT !.failed = FALSE]
  <2>3. a \in JobType /\ v = Put(w, j, c)
    BY <2>1 DEF SysType, Put
  <2> HIDE DEF a, v, z
  <2>4. c \in JobType /\ c.goal = a.goal /\ c.state = a.state
    BY <2>3 DEF JobType
  <2> HIDE DEF c
  <2>5. /\ v \in SysType /\ v.blocking = w.blocking /\ v.job[j] = c
        /\ \A k \in Jobs \ {j} : v.job[k] = w.job[k]
    <3>1. w \in SysType /\ j \in Jobs /\ c \in JobType /\ v = Put(w, j, c)
      BY <2>1, <2>3, <2>4
    <3> HIDE DEF w
    <3> QED BY ONLY <3>1, JobSet
  <2> QED BY <2>1, <2>2, <2>4, <2>5 DEF a
<1> HIDE DEF z
<1>3. /\ \A k \in Jobs \ {j} : y.job[k] = z.job[k]
      /\ y.job[j].goal = z.job[j].goal /\ y.job[j].state = z.job[j].state
      /\ y.blocking = z.blocking
  BY <1>1, <1>2, EmitGoes
<1> QED BY <1>2, <1>3 DEF Goes

\* spawned.
LEMMA SpawnedGoes ==
  ASSUME NEW s \in SysType, NEW j \in Jobs, NEW y, y = EnterSpawned(s, j)
  PROVE  Goes(s, y, j)
<1>1. /\ y.blocking = s.blocking /\ \A k \in Jobs \ {j} : y.job[k] = s.job[k]
      /\ y.job[j].goal = s.job[j].goal
  BY DEF EnterSpawned, SysType, JobType
<1> QED BY <1>1 DEF Goes

\* stopping.
LEMMA StoppingGoes ==
  ASSUME NEW s \in SysType, NEW j \in Jobs, NEW y, y = EnterStopping(s, j)
  PROVE  Goes(s, y, j) /\ y.blocking = s.blocking /\ y.job[j].state = "stopping"
         /\ y.job[j].goal = s.job[j].goal
<1> DEFINE z == [s EXCEPT !.job[j].state = "stopping"]
<1>1. y = EmitBlocking(z, j, "stopping")
  BY DEF EnterStopping
<1>2. /\ z \in SysType /\ z.blocking = s.blocking
      /\ \A k \in Jobs \ {j} : z.job[k] = s.job[k]
      /\ z.job[j].goal = s.job[j].goal /\ z.job[j].state = "stopping"
  <2> DEFINE new == "stopping"
  <2>1. new \in JobStates /\ z = PutState(s, j, new)
    BY DEF JobStates, PutState
  <2> HIDE DEF new, z
  <2>2. /\ z \in SysType /\ z.blocking = s.blocking
        /\ \A k \in Jobs \ {j} : z.job[k] = s.job[k]
        /\ z.job[j].goal = s.job[j].goal /\ z.job[j].state = new
    BY <2>1, StateGoes
  <2> QED BY <2>2 DEF new
<1> HIDE DEF z
<1>3. /\ \A k \in Jobs \ {j} : y.job[k] = z.job[k]
      /\ y.job[j].goal = z.job[j].goal /\ y.job[j].state = z.job[j].state
      /\ y.blocking = z.blocking
  BY <1>1, <1>2, EmitGoes
<1> QED BY <1>2, <1>3 DEF Goes

\* running: what waited for a service to be there does no longer.
LEMMA RunningGoes ==
  ASSUME NEW x, NEW s, Sound(s, x), NEW j \in Jobs, s.job[j].blocker = NoEvent,
         s.job[j].goal = "start", NEW y, y = EnterRunning(s, j)
  PROVE  Goes(s, y, j)
<1> DEFINE v == "running"
           z == PutState(s, j, v)
           name == EventName("started", j)
           r == EventNew(z, name, NoJob)
           b == FALSE
<1>1. y = IF j \in Task THEN r ELSE JobFinished(r, j, b)
  BY DEF EnterRunning, PutState
<1>2. b \in BOOLEAN /\ name \in EventNames /\ v \in JobStates \ {"waiting", "starting"}
  BY JobEventNames DEF JobStates
<1> HIDE DEF b, name
<1>3. /\ z.blocking = s.blocking /\ \A k \in Jobs \ {j} : z.job[k] = s.job[k]
      /\ z.job[j].goal = s.job[j].goal /\ z.job[j].state = "running"
  BY DEF Sound, PutState, SysType, JobType
<1>4. Sound(z, x)
  <2> HIDE DEF v
  <2> QED BY <1>2, StateSet
<1> HIDE DEF z
<1>5. Sound(r, x) /\ r.job = z.job /\ r.blocking = z.blocking
  BY <1>2, <1>4, PlainEventSound
<1> HIDE DEF r
<1>6. CASE j \in Task
  BY <1>1, <1>3, <1>5, <1>6 DEF Goes
<1>7. CASE j \notin Task
  <2>1. y = JobFinished(r, j, b)
    BY <1>1, <1>7
  <2>2. y.job = r.job /\ y.blocking = r.blocking \ {f \in r.blocking : f.job = j}
    BY <1>2, <1>5, <2>1, FinishedSound
  <2> QED BY <1>3, <1>5, <1>7, <2>2 DEF Goes
<1> QED BY <1>6, <1>7

\* waiting: nothing waits for it any longer.
LEMMA WaitingGoes ==
  ASSUME NEW x, NEW s, Sound(s, x), NEW j \in Jobs, s.job[j].blocker = NoEvent,
         NEW y, y = EnterWaiting(s, j)
  PROVE  Goes(s, y, j)
<1> DEFINE b == FALSE
           name == EventName("stopped", j)
           n == EventNew(s, name, NoJob)
           f == JobFinished(n, j, b)
           z == Put(f, j, NoJobState)
           t == "stop"
<1>1. y = EventOperatorReset(z, j, t) /\ t \in Trees /\ b \in BOOLEAN
  BY DEF EnterWaiting, Put, Trees
<1>2. name \in EventNames
  BY JobEventNames
<1> HIDE DEF b, name
<1>3. Sound(n, x) /\ n.job = s.job /\ n.blocking = s.blocking
  BY <1>2, PlainEventSound
<1> HIDE DEF n
<1>4. Sound(f, x) /\ f.job = s.job /\ f.blocking = s.blocking \ {r \in s.blocking : r.job = j}
  BY <1>1, <1>3, FinishedSound
<1> HIDE DEF f
<1>5. /\ NoJobState \in JobType /\ NoJobState.blocker = NoEvent /\ ~NoJobState.pid
      /\ ~NoJobState.failed /\ NoJobState.state = "waiting" /\ NoJobState.goal = "stop"
  BY DEF NoJobState, JobType, JobStates, NoEvent
<1>6. Sound(z, x) /\ z.job[j] = NoJobState /\ z.blocking = f.blocking
      /\ \A k \in Jobs \ {j} : z.job[k] = f.job[k]
  BY <1>4, <1>5, JobSound
<1> HIDE DEF z
<1>7. y.job = z.job /\ y.blocking = z.blocking
  <2> HIDE DEF t
  <2> QED BY <1>1, <1>6, ResetSound
<1> QED BY <1>4, <1>5, <1>6, <1>7 DEF Goes

\* Whatever comes next.
LEMMA NextGoes ==
  ASSUME NEW x, NEW s, Sound(s, x), NEW j \in Jobs, NEW y, y = JobNextState(s, j)
  PROVE  Goes(s, y, j)
<1>1. s \in SysType /\ s.job[j] \in JobType
  BY DEF Sound, SysType
<1>2. s.job[j].state \in JobStates
  BY <1>1 DEF JobType
<1>3. CASE s.job[j].blocker # NoEvent
  <2>1. y = s
    BY <1>3 DEF JobNextState
  <2> QED BY <2>1 DEF Goes
<1>4. CASE s.job[j].blocker = NoEvent /\ s.job[j].state = "waiting"
  <2>1. y = EnterStarting(s, j)
    BY <1>4 DEF JobNextState
  <2> QED BY <1>1, <2>1, StartingGoes
<1>5. CASE s.job[j].blocker = NoEvent /\ s.job[j].state = "starting"
  <2>1. y = IF s.job[j].goal = "start" THEN EnterSpawned(s, j) ELSE EnterStopping(s, j)
    BY <1>5 DEF JobNextState
  <2>2. y = EnterSpawned(s, j) \/ y = EnterStopping(s, j)
    BY <2>1
  <2> QED BY <1>1, <2>2, SpawnedGoes, StoppingGoes
<1>6. CASE s.job[j].blocker = NoEvent /\ s.job[j].state = "spawned"
  <2>1. y = IF s.job[j].goal = "start" THEN EnterRunning(s, j) ELSE EnterStopping(s, j)
    BY <1>6 DEF JobNextState
  <2>2. \/ s.job[j].goal = "start" /\ y = EnterRunning(s, j)
        \/ y = EnterStopping(s, j)
    BY <2>1
  <2> QED BY <1>1, <1>6, <2>2, RunningGoes, StoppingGoes
<1>7. CASE s.job[j].blocker = NoEvent /\ s.job[j].state = "running"
  <2>1. y = EnterStopping(s, j)
    BY <1>7 DEF JobNextState
  <2> QED BY <1>1, <2>1, StoppingGoes
<1>8. ASSUME s.job[j].blocker = NoEvent, NEW w, w = LeaveKilled(s, j)
      PROVE  Goes(s, w, j)
  <2>1. w = EnterStarting(s, j) \/ w = EnterWaiting(s, j)
    BY <1>8 DEF LeaveKilled
  <2> QED BY <1>1, <1>8, <2>1, StartingGoes, WaitingGoes
<1>9. CASE s.job[j].blocker = NoEvent /\ s.job[j].state = "stopping"
  <2>1. y = EnterKilled(s, j)
    BY <1>9 DEF JobNextState
  <2>2. CASE s.job[j].pid
    <3>1. y = [s EXCEPT !.job[j].state = "killed"]
      BY <2>1, <2>2 DEF EnterKilled
    <3>2. /\ y.blocking = s.blocking /\ \A k \in Jobs \ {j} : y.job[k] = s.job[k]
          /\ y.job[j].goal = s.job[j].goal
      BY <1>1, <3>1 DEF SysType, JobType
    <3> QED BY <3>2 DEF Goes
  <2>3. CASE ~s.job[j].pid
    BY <1>8, <1>9, <2>1, <2>3 DEF EnterKilled
  <2> QED BY <2>2, <2>3
<1>10. CASE s.job[j].blocker = NoEvent /\ s.job[j].state = "killed"
  <2>1. y = LeaveKilled(s, j)
    BY <1>10 DEF JobNextState
  <2> QED BY <1>8, <1>10, <2>1
<1> QED BY <1>2, <1>3, <1>4, <1>5, <1>6, <1>7, <1>9, <1>10 DEF JobStates

\* A change of the goal: the job comes from waiting to starting, or from running to
\* stopping, or stays where it is, and what waits for it waits on.
LEMMA GoalGoes ==
  ASSUME NEW x, NEW s, Sound(s, x), NEW j \in Jobs, NEW goal \in {"start", "stop"},
         NEW y, y = JobChangeGoal(s, j, goal)
  PROVE  /\ \A k \in Jobs \ {j} : y.job[k] = s.job[k]
         /\ y.blocking = s.blocking /\ y.job[j].goal = goal
         /\ s.job[j].goal = goal => y = s
         /\ \/ y.job[j].state = s.job[j].state
            \/ s.job[j].state = "waiting" /\ goal = "start" /\ y.job[j].state = "starting"
            \/ s.job[j].state = "running" /\ goal = "stop" /\ y.job[j].state = "stopping"
         /\ s.job[j].state = "running" /\ goal = "stop" /\ s.job[j].goal # goal =>
              y.job[j].state = "stopping"
<1> DEFINE g == [s EXCEPT !.job[j].goal = goal]
<1>1. s \in SysType /\ s.job[j] \in JobType /\ Tells(s, x)
  BY DEF Sound, SysType
<1>2. /\ g \in SysType /\ g.blocking = s.blocking
      /\ \A k \in Jobs \ {j} : g.job[k] = s.job[k]
      /\ g.job[j].goal = goal /\ g.job[j].state = s.job[j].state
      /\ g.job[j].blocker = s.job[j].blocker
  BY <1>1 DEF SysType, JobType
<1>3. y = IF s.job[j].goal = goal THEN s
          ELSE IF \/ goal = "start" /\ s.job[j].state = "waiting"
                  \/ goal = "stop" /\ s.job[j].state = "running"
               THEN JobNextState(g, j)
               ELSE g
  BY DEF JobChangeGoal
<1> HIDE DEF g
<1>4. CASE s.job[j].goal = goal
  BY <1>3, <1>4
<1>5. CASE s.job[j].goal # goal /\ goal = "start" /\ s.job[j].state = "waiting"
  <2>1. g.job[j].blocker = NoEvent
    BY <1>1, <1>2, <1>5 DEF Tells
  <2>2. y = EnterStarting(g, j)
    BY <1>2, <1>3, <1>5, <2>1 DEF JobNextState
  <2>3. Goes(g, y, j) /\ y.blocking = g.blocking /\ y.job[j].state = "starting"
        /\ y.job[j].goal = g.job[j].goal
    BY <1>2, <2>2, StartingGoes
  <2> QED BY <1>2, <1>5, <2>3 DEF Goes
<1>6. CASE s.job[j].goal # goal /\ goal = "stop" /\ s.job[j].state = "running"
  <2>1. g.job[j].blocker = NoEvent
    BY <1>1, <1>2, <1>6 DEF Tells
  <2>2. y = EnterStopping(g, j)
    BY <1>2, <1>3, <1>6, <2>1 DEF JobNextState
  <2>3. Goes(g, y, j) /\ y.blocking = g.blocking /\ y.job[j].state = "stopping"
        /\ y.job[j].goal = g.job[j].goal
    BY <1>2, <2>2, StoppingGoes
  <2> QED BY <1>2, <1>6, <2>3 DEF Goes
<1>7. CASE y = g /\ s.job[j].goal # goal /\ ~(goal = "stop" /\ s.job[j].state = "running")
  BY <1>2, <1>7
<1> QED BY <1>3, <1>4, <1>5, <1>6, <1>7

-----------------------------------------------------------------------------
(* Events that wait for jobs *)

\* An expression that became true was reset, unless it waits for the cgroup manager.
Unsatisfied(s) ==
  \A j \in Jobs, tree \in Trees :
    Satisfied(s, j, tree) => tree = "start" /\ j \in s.cgmanager_wait

\* An event of a stop on waits for a job that is to stop.
Toward(s) == \A r \in s.blocking : r.tree = "stop" => s.job[r.job].goal = "stop"

\* What lets go of references makes no expression true.
LEMMA UnsatisfiedKept ==
  ASSUME NEW s, Unsatisfied(s), NEW y,
         \A j \in s.cgmanager_wait : j \in y.cgmanager_wait \/ RefsOf(y.held, j, "start") = {},
         \A j \in Jobs, tree \in Trees :
           \/ RefsOf(y.held, j, tree) \subseteq RefsOf(s.held, j, tree)
           \/ RefsOf(y.held, j, tree) = {}
           \/ ~Satisfied(y, j, tree)
           \/ tree = "start" /\ j \in y.cgmanager_wait
  PROVE  Unsatisfied(y)
<1> SUFFICES ASSUME NEW j \in Jobs, NEW tree \in Trees, Satisfied(y, j, tree)
             PROVE  tree = "start" /\ j \in y.cgmanager_wait
  BY DEF Unsatisfied
<1>1. RefsOf(y.held, j, tree) # {}
  BY ResetFalse
<1>2. CASE RefsOf(y.held, j, tree) \subseteq RefsOf(s.held, j, tree)
  <2>1. Satisfied(s, j, tree)
    BY <1>2, StaysFalse
  <2>2. tree = "start" /\ j \in s.cgmanager_wait
    BY <2>1 DEF Unsatisfied
  <2> QED BY <1>1, <2>2
<1> QED BY <1>1, <1>2

\* The goal of the job changes, and the expression is reset.
LEMMA HandedGoes ==
  ASSUME NEW x, NEW e, Sound(e, x), NEW j \in Jobs, NEW tree \in Trees,
         NEW goal \in {"start", "stop"},
         NEW y, y = EventOperatorReset(JobChangeGoal(e, j, goal), j, tree)
  PROVE  /\ y.held \subseteq e.held /\ RefsOf(y.held, j, tree) = {}
         /\ y.blocking = e.blocking /\ y.cgmanager_wait = e.cgmanager_wait
         /\ \A k \in Jobs \ {j} : y.job[k] = e.job[k]
         /\ y.job[j].goal = goal
         /\ e.job[j].goal = goal => y.job = e.job
         /\ \/ y.job[j].state = e.job[j].state
            \/ e.job[j].state = "waiting" /\ goal = "start" /\ y.job[j].state = "starting"
            \/ e.job[j].state = "running" /\ goal = "stop" /\ y.job[j].state = "stopping"
         /\ e.job[j].state = "running" /\ goal = "stop" /\ e.job[j].goal # goal =>
              y.job[j].state = "stopping"
<1> DEFINE c == JobChangeGoal(e, j, goal)
<1>1. Sound(c, x) /\ Shrinks(e, c)
  BY GoalSound DEF Moved
<1>2. /\ \A k \in Jobs \ {j} : c.job[k] = e.job[k]
      /\ c.blocking = e.blocking /\ c.job[j].goal = goal
      /\ e.job[j].goal = goal => c = e
      /\ \/ c.job[j].state = e.job[j].state
         \/ e.job[j].state = "waiting" /\ goal = "start" /\ c.job[j].state = "starting"
         \/ e.job[j].state = "running" /\ goal = "stop" /\ c.job[j].state = "stopping"
      /\ e.job[j].state = "running" /\ goal = "stop" /\ e.job[j].goal # goal =>
           c.job[j].state = "stopping"
  BY GoalGoes
<1> HIDE DEF c
<1>3. /\ Frame(c, y) /\ y.job = c.job /\ y.blocking = c.blocking
      /\ y.held = c.held \ RefsOf(c.held, j, tree)
  BY <1>1, ResetSound DEF c
<1>4. y.held \subseteq e.held /\ RefsOf(y.held, j, tree) = {}
      /\ y.cgmanager_wait = e.cgmanager_wait
  BY <1>1, <1>3 DEF Shrinks, Frame, RefsOf
<1> QED BY <1>2, <1>3, <1>4

\* What waited for the job before is released, as its goal changes.
Released(s, j, goal) == IF s.job[j].goal # goal THEN JobFinished(s, j, FALSE) ELSE s

\* The others are not.
LEMMA ReleasedGoes ==
  ASSUME NEW x, NEW s, Sound(s, x), NEW j \in Jobs, NEW goal, NEW f, f = Released(s, j, goal)
  PROVE  /\ Sound(f, x) /\ f.job = s.job /\ f.held = s.held /\ f.cgmanager_wait = s.cgmanager_wait
         /\ \A r : r \in f.blocking <=>
                   r \in s.blocking /\ (s.job[j].goal # goal => r.job # j)
<1>1. CASE s.job[j].goal # goal
  <2> DEFINE b == FALSE
  <2>1. f = JobFinished(s, j, b) /\ b \in BOOLEAN /\ Sound(s, x) /\ j \in Jobs
    BY <1>1 DEF Released
  <2> HIDE DEF b
  <2>2. Sound(f, x) /\ Frame(s, f) /\ f.job = s.job /\ f.held = s.held
        /\ f.blocking = s.blocking \ {r \in s.blocking : r.job = j}
    BY ONLY <2>1, FinishedSound
  <2> QED BY <1>1, <2>2 DEF Frame
<1>2. CASE s.job[j].goal = goal
  BY <1>2 DEF Released
<1> QED BY <1>1, <1>2

\* The stop on of a job has become true: its events wait for the job.
LEMMA StopInstanceGoes ==
  ASSUME NEW x, NEW s, Sound(s, x), Apart(s), Toward(s), NEW j \in Jobs,
         NEW y, y = StopInstance(s, j)
  PROVE  /\ Toward(y) /\ y.held \subseteq s.held /\ RefsOf(y.held, j, "stop") = {}
         /\ y.cgmanager_wait = s.cgmanager_wait
         /\ \A k \in Jobs \ {j} : y.job[k] = s.job[k]
         /\ \A r \in s.blocking \ y.blocking : r.job = j
         /\ Parts(s, j, "stop") \subseteq y.blocking
         /\ y.job[j].goal = "stop"
         /\ s.job[j].goal = "stop" => y.job = s.job /\ s.blocking \subseteq y.blocking
         /\ \/ y.job[j].state = s.job[j].state /\ (s.job[j].goal # "stop" => s.job[j].state # "running")
            \/ s.job[j].state = "running" /\ y.job[j].state = "stopping"
<1> DEFINE t == "stop"
           f == IF s.job[j].goal # t THEN JobFinished(s, j, FALSE) ELSE s
           e == EventOperatorEvents(f, j, t)
<1>1. y = EventOperatorReset(JobChangeGoal(e, j, t), j, t) /\ t \in Trees /\ t \in {"start", "stop"}
  BY DEF StopInstance, Trees
<1>2. /\ Sound(f, x) /\ f.job = s.job /\ f.held = s.held /\ f.cgmanager_wait = s.cgmanager_wait
      /\ \A r : r \in f.blocking <=> r \in s.blocking /\ (s.job[j].goal # t => r.job # j)
  <2>1. f = Released(s, j, t)
    BY DEF Released
  <2>2. Sound(s, x) /\ j \in Jobs
    OBVIOUS
  <2> HIDE DEF t, f
  <2>3. /\ Sound(f, x) /\ f.job = s.job /\ f.held = s.held /\ f.cgmanager_wait = s.cgmanager_wait
        /\ \A r : r \in f.blocking <=> r \in s.blocking /\ (s.job[j].goal # t => r.job # j)
    BY ONLY <2>1, <2>2, ReleasedGoes
  <2> QED BY <2>3
<1> HIDE DEF f
<1>3. Apart(f) /\ f \in SysType
  BY <1>2 DEF Apart, Sound
<1>4. Sound(e, x)
  BY <1>1, <1>2, <1>3, EventsSound
<1>5. e.blocking = f.blocking \cup Parts(s, j, t) /\ e.held = s.held /\ e.job = s.job
      /\ e.cgmanager_wait = s.cgmanager_wait
  <2>1. e.blocking = f.blocking \cup Parts(f, j, t) /\ e.held = f.held /\ e.job = f.job
        /\ e.cgmanager_wait = f.cgmanager_wait
    BY <1>3, HandsOver
  <2>2. Parts(f, j, t) = Parts(s, j, t)
    BY <1>2, SameHeld
  <2> QED BY <1>2, <2>1, <2>2
<1> HIDE DEF e
<1>6. /\ y.held \subseteq e.held /\ RefsOf(y.held, j, t) = {}
      /\ y.blocking = e.blocking /\ y.cgmanager_wait = e.cgmanager_wait
      /\ \A k \in Jobs \ {j} : y.job[k] = e.job[k]
      /\ y.job[j].goal = t
      /\ e.job[j].goal = t => y.job = e.job
      /\ \/ y.job[j].state = e.job[j].state
         \/ e.job[j].state = "waiting" /\ t = "start" /\ y.job[j].state = "starting"
         \/ e.job[j].state = "running" /\ t = "stop" /\ y.job[j].state = "stopping"
      /\ e.job[j].state = "running" /\ t = "stop" /\ e.job[j].goal # t =>
           y.job[j].state = "stopping"
  <2>1. /\ Sound(e, x) /\ j \in Jobs /\ t \in Trees /\ t \in {"start", "stop"}
        /\ y = EventOperatorReset(JobChangeGoal(e, j, t), j, t)
    BY <1>1, <1>4
  <2> HIDE DEF t
  <2> QED BY ONLY <2>1, HandedGoes
<1>7. Toward(y)
  <2> SUFFICES ASSUME NEW r \in y.blocking, r.tree = "stop" PROVE y.job[r.job].goal = "stop"
    BY DEF Toward
  <2>1. CASE r.job = j
    BY <1>6, <2>1
  <2>2. CASE r.job # j
    <3>1. r \in s.blocking
      BY <1>2, <1>5, <1>6, <2>2 DEF Parts, RefsOf
    <3>2. r.job \in Jobs /\ s.job[r.job].goal = "stop"
      BY <3>1 DEF Toward, Sound, SysType, RefType
    <3> QED BY <1>5, <1>6, <2>2, <3>2
  <2> QED BY <2>1, <2>2
<1> QED BY <1>2, <1>5, <1>6, <1>7

\* A class starts, or holds up the events that would have started it.
LEMMA InductJobGoes ==
  ASSUME NEW x, NEW s, Sound(s, x), Apart(s), Toward(s), NEW j \in Jobs, NEW named \in BOOLEAN,
         NEW y, y = InductJob(s, j, named)
  PROVE  /\ Toward(y) /\ y.held \subseteq s.held /\ RefsOf(y.held, j, "start") = {}
         /\ y.cgmanager_wait = s.cgmanager_wait
         /\ \A k \in Jobs \ {j} : y.job[k] = s.job[k]
         /\ \A r \in s.blocking \ y.blocking : r.job = j
         /\ \/ y.job[j].state = s.job[j].state
            \/ s.job[j].state = "waiting" /\ y.job[j].state = "starting"
         /\ ~named => y.job = s.job /\ s.blocking \subseteq y.blocking
         /\ named =>
              /\ y.job[j].goal = "start"
              /\ s.job[j].goal = "start" => y.job = s.job /\ s.blocking \subseteq y.blocking
              /\ j \in Task \/ s.job[j].state # "running" => Parts(s, j, "start") \subseteq y.blocking
<1> DEFINE t == "start"
           f == IF s.job[j].goal # t THEN JobFinished(s, j, FALSE) ELSE s
           e == IF j \in Task \/ s.job[j].state # "running" THEN EventOperatorEvents(f, j, t) ELSE f
<1>1. /\ y = IF ~named THEN EventOperatorReset(s, j, t)
             ELSE EventOperatorReset(JobChangeGoal(e, j, t), j, t)
      /\ t \in Trees /\ t \in {"start", "stop"}
  BY DEF InductJob, Trees
<1>2. /\ Sound(f, x) /\ f.job = s.job /\ f.held = s.held /\ f.cgmanager_wait = s.cgmanager_wait
      /\ \A r : r \in f.blocking <=> r \in s.blocking /\ (s.job[j].goal # t => r.job # j)
  <2>1. f = Released(s, j, t)
    BY DEF Released
  <2>2. Sound(s, x) /\ j \in Jobs
    OBVIOUS
  <2> HIDE DEF t, f
  <2>3. /\ Sound(f, x) /\ f.job = s.job /\ f.held = s.held /\ f.cgmanager_wait = s.cgmanager_wait
        /\ \A r : r \in f.blocking <=> r \in s.blocking /\ (s.job[j].goal # t => r.job # j)
    BY ONLY <2>1, <2>2, ReleasedGoes
  <2> QED BY <2>3
<1> HIDE DEF f
<1>3. Apart(f) /\ f \in SysType
  BY <1>2 DEF Apart, Sound
<1>4. /\ Sound(e, x) /\ e.held = s.held /\ e.job = s.job /\ e.cgmanager_wait = s.cgmanager_wait
      /\ f.blocking \subseteq e.blocking /\ e.blocking \subseteq f.blocking \cup Parts(s, j, t)
      /\ j \in Task \/ s.job[j].state # "running" => Parts(s, j, t) \subseteq e.blocking
  <2>1. CASE j \in Task \/ s.job[j].state # "running"
    <3>1. e = EventOperatorEvents(f, j, t)
      BY <2>1
    <3> HIDE DEF e, t
    <3>2. Sound(e, x)
      BY <1>1, <1>2, <1>3, <3>1, EventsSound
    <3>3. e.blocking = f.blocking \cup Parts(f, j, t) /\ e.held = f.held /\ e.job = f.job
          /\ e.cgmanager_wait = f.cgmanager_wait
      BY <1>3, <3>1, HandsOver
    <3>4. Parts(f, j, t) = Parts(s, j, t)
      BY <1>2, SameHeld
    <3> QED BY <1>2, <3>2, <3>3, <3>4
  <2>2. CASE ~(j \in Task \/ s.job[j].state # "running")
    <3>1. e = f
      BY <2>2
    <3> HIDE DEF e
    <3> QED BY <1>2, <2>2, <3>1
  <2> QED BY <2>1, <2>2
<1> HIDE DEF e
<1>5. CASE ~named
  <2>1. y = EventOperatorReset(s, j, t)
    BY <1>1, <1>5
  <2>2. Frame(s, y) /\ y.job = s.job /\ y.blocking = s.blocking /\ y.held = s.held \ RefsOf(s.held, j, t)
    <3> HIDE DEF t
    <3> QED BY <1>1, <2>1, ResetSound
  <2> QED BY <1>5, <2>2 DEF Frame, RefsOf, Toward
<1>6. CASE named
  <2>1. y = EventOperatorReset(JobChangeGoal(e, j, t), j, t)
    BY <1>1, <1>6
  <2>2. /\ y.held \subseteq e.held /\ RefsOf(y.held, j, t) = {}
        /\ y.blocking = e.blocking /\ y.cgmanager_wait = e.cgmanager_wait
        /\ \A k \in Jobs \ {j} : y.job[k] = e.job[k]
        /\ y.job[j].goal = t
        /\ e.job[j].goal = t => y.job = e.job
        /\ \/ y.job[j].state = e.job[j].state
           \/ e.job[j].state = "waiting" /\ t = "start" /\ y.job[j].state = "starting"
           \/ e.job[j].state = "running" /\ t = "stop" /\ y.job[j].state = "stopping"
    <3>1. /\ Sound(e, x) /\ j \in Jobs /\ t \in Trees /\ t \in {"start", "stop"}
          /\ y = EventOperatorReset(JobChangeGoal(e, j, t), j, t)
      BY <1>1, <1>4, <2>1
    <3> HIDE DEF t
    <3> QED BY ONLY <3>1, HandedGoes
  <2>3. Toward(y)
    <3> SUFFICES ASSUME NEW r \in y.blocking, r.tree = "stop" PROVE y.job[r.job].goal = "stop"
      BY DEF Toward
    <3>1. r \in s.blocking /\ (s.job[j].goal # t => r.job # j)
      BY <1>2, <1>4, <2>2 DEF Parts, RefsOf
    <3>2. r.job \in Jobs /\ s.job[r.job].goal = "stop"
      BY <3>1 DEF Toward, Sound, SysType, RefType
    <3>3. r.job # j
      BY <3>1, <3>2
    <3> QED BY <1>4, <2>2, <3>2, <3>3
  <2>4. s.job[j].goal = "start" => y.job = s.job /\ s.blocking \subseteq y.blocking
    BY <1>2, <1>4, <2>2
  <2>5. \A r \in s.blocking \ y.blocking : r.job = j
    BY <1>2, <1>4, <2>2
  <2> QED BY <1>4, <1>6, <2>2, <2>3, <2>4, <2>5
<1> QED BY <1>5, <1>6

\* The stop on of an instance is shown the event.
LEMMA StopPartGoes ==
  ASSUME NEW x, NEW s, Sound(s, x), Apart(s), Unsatisfied(s), Toward(s), NEW j \in Jobs,
         NEW id \in Nat, Handling(s, id), \A r \in s.held \cup s.blocking : ~(r.job = j /\ r.event = id),
         NEW y, y = StopPart(s, j, id)
  PROVE  /\ Unsatisfied(y) /\ Toward(y) /\ y.cgmanager_wait = s.cgmanager_wait
         /\ \A k \in Jobs \ {j} : y.job[k] = s.job[k]
         /\ \A r \in s.blocking \ y.blocking : r.job = j
         /\ \/ y.job[j].state = s.job[j].state
            \/ s.job[j].state = "running" /\ y.job[j].state = "stopping"
         /\ \/ y.job[j] = s.job[j] /\ s.blocking \subseteq y.blocking
            \/ y.job[j].goal = "stop" /\ y.job[j].state # "running" /\ WaitsFor(y, id, j)
         /\ TrueOn(StopOn[j], s.events[Index(s, id)].name) =>
              (y.job[j] = s.job[j] /\ s.job[j].state = "waiting") \/ WaitsFor(y, id, j)
<1> DEFINE t == "stop"
           h == EventOperatorHandle(s, j, t, id)
           name == s.events[Index(s, id)].name
<1>1. t \in Trees /\ s \in SysType /\ StopOn[j] = Tree(j, t)
  BY DEF Trees, Sound, Tree
<1>2. Handled(s, h, x, j, t, id) /\ h.job = s.job
  <2>1. \A r \in s.held \cup s.blocking : ~(r.job = j /\ r.tree = t /\ r.event = id)
    OBVIOUS
  <2> HIDE DEF t
  <2> QED BY <1>1, <2>1, HandleApart
<1>3. Sound(h, x) /\ Apart(h)
  BY <1>2 DEF Handled
<1>4. /\ h.held = s.held \cup {Ref(j, t, n, id) : n \in Matching(s, j, t, id)}
      /\ h.blocking = s.blocking /\ h.cgmanager_wait = s.cgmanager_wait
  BY <1>1, Takes
<1>5. ~Satisfied(s, j, t)
  BY <1>1 DEF Unsatisfied
<1>6. Satisfied(h, j, t) => h.held # s.held /\ \E r \in Parts(h, j, t) : r.job = j /\ r.event = id
  <2> HIDE DEF t
  <2>1. h = EventOperatorHandle(s, j, t, id)
    OBVIOUS
  <2> HIDE DEF h
  <2> QED BY <1>1, <1>5, <2>1, HasPart
<1>7. TrueOn(StopOn[j], name) => Satisfied(h, j, t)
  <2>1. name = s.events[Index(s, id)].name /\ h = EventOperatorHandle(s, j, t, id)
    OBVIOUS
  <2> HIDE DEF t, h, name
  <2> QED BY <1>1, <2>1, MakesTrue
<1>8. y = IF s.job[j].state = "waiting" THEN s
          ELSE IF h.held # s.held /\ Satisfied(h, j, t) THEN StopInstance(h, j) ELSE h
  BY DEF StopPart
<1> HIDE DEF h, name
<1>9. Toward(h)
  BY <1>2, <1>4 DEF Toward
<1>10. \A k \in Jobs, u \in Trees :
         RefsOf(h.held, k, u) \subseteq RefsOf(s.held, k, u) \/ (k = j /\ u = t)
  BY <1>4 DEF RefsOf, Ref
<1>11. CASE s.job[j].state = "waiting"
  <2>1. y = s
    BY <1>8, <1>11
  <2> QED BY <1>11, <2>1 DEF name
<1>12. CASE s.job[j].state # "waiting" /\ ~Satisfied(h, j, t)
  <2>1. y = h
    BY <1>8, <1>12
  <2>2. Unsatisfied(h)
    BY <1>4, <1>10, <1>12, UnsatisfiedKept
  <2> QED BY <1>2, <1>4, <1>7, <1>9, <1>12, <2>1, <2>2 DEF name
<1>13. CASE s.job[j].state # "waiting" /\ Satisfied(h, j, t)
  <2>1. y = StopInstance(h, j)
    BY <1>6, <1>8, <1>13
  <2>2. /\ Toward(y) /\ y.held \subseteq h.held /\ RefsOf(y.held, j, t) = {}
        /\ y.cgmanager_wait = h.cgmanager_wait
        /\ \A k \in Jobs \ {j} : y.job[k] = h.job[k]
        /\ \A r \in h.blocking \ y.blocking : r.job = j
        /\ Parts(h, j, t) \subseteq y.blocking
        /\ y.job[j].goal = "stop"
        /\ h.job[j].goal = "stop" => y.job = h.job /\ h.blocking \subseteq y.blocking
        /\ \/ y.job[j].state = h.job[j].state /\ (h.job[j].goal # "stop" => h.job[j].state # "running")
           \/ h.job[j].state = "running" /\ y.job[j].state = "stopping"
    BY <1>3, <1>9, <2>1, StopInstanceGoes
  <2>3. WaitsFor(y, id, j)
    BY <1>6, <1>13, <2>2 DEF WaitsFor
  <2>4. Unsatisfied(y)
    <3>1. \A k \in Jobs, u \in Trees :
            \/ RefsOf(y.held, k, u) \subseteq RefsOf(s.held, k, u)
            \/ RefsOf(y.held, k, u) = {}
      BY <1>10, <2>2 DEF RefsOf
    <3> QED BY <1>4, <2>2, <3>1, UnsatisfiedKept
  <2> QED BY <1>2, <1>4, <2>2, <2>3, <2>4
<1> QED BY <1>11, <1>12, <1>13

\* The start on of a class that does not wait for the cgroup manager is shown the event.
LEMMA StartPartGoes ==
  ASSUME NEW x, NEW s, Sound(s, x), Apart(s), Unsatisfied(s), Toward(s), NEW j \in Jobs,
         j \notin s.cgmanager_wait, NEW id \in Nat, Handling(s, id),
         \A r \in s.held \cup s.blocking : ~(r.job = j /\ r.tree = "start" /\ r.event = id),
         NEW named \in BOOLEAN, NEW y, y = StartPart(s, j, id, named)
  PROVE  /\ Unsatisfied(y) /\ Toward(y) /\ y.cgmanager_wait = s.cgmanager_wait
         /\ \A k \in Jobs \ {j} : y.job[k] = s.job[k]
         /\ \A r \in s.blocking \ y.blocking : r.job = j
         /\ \/ y.job[j].state = s.job[j].state
            \/ s.job[j].state = "waiting" /\ y.job[j].state = "starting"
         /\ \/ y.job[j] = s.job[j] /\ s.blocking \subseteq y.blocking
            \/ /\ s.job[j].goal # "start" /\ y.job[j].goal = "start"
               /\ j \in Task \/ s.job[j].state # "running" => WaitsFor(y, id, j)
         /\ TrueOn(StartOn[j], s.events[Index(s, id)].name) /\ named =>
              (j \notin Task /\ y.job[j].state = "running") \/ WaitsFor(y, id, j)
<1> DEFINE t == "start"
           h == EventOperatorHandle(s, j, t, id)
           name == s.events[Index(s, id)].name
<1>1. t \in Trees /\ s \in SysType /\ StartOn[j] = Tree(j, t)
  BY DEF Trees, Sound, Tree
<1>2. Handled(s, h, x, j, t, id) /\ h.job = s.job
  <2>1. \A r \in s.held \cup s.blocking : ~(r.job = j /\ r.tree = t /\ r.event = id)
    OBVIOUS
  <2> HIDE DEF t
  <2> QED BY <1>1, <2>1, HandleApart
<1>3. Sound(h, x) /\ Apart(h)
  BY <1>2 DEF Handled
<1>4. /\ h.held = s.held \cup {Ref(j, t, n, id) : n \in Matching(s, j, t, id)}
      /\ h.blocking = s.blocking /\ h.cgmanager_wait = s.cgmanager_wait
  BY <1>1, Takes
<1>5. ~Satisfied(s, j, t)
  BY <1>1 DEF Unsatisfied
<1>6. Satisfied(h, j, t) => h.held # s.held /\ \E r \in Parts(h, j, t) : r.job = j /\ r.event = id
  <2>1. h = EventOperatorHandle(s, j, t, id)
    OBVIOUS
  <2> HIDE DEF t, h
  <2> QED BY <1>1, <1>5, <2>1, HasPart
<1>7. TrueOn(StartOn[j], name) => Satisfied(h, j, t)
  <2>1. name = s.events[Index(s, id)].name /\ h = EventOperatorHandle(s, j, t, id)
    OBVIOUS
  <2> HIDE DEF t, h, name
  <2> QED BY <1>1, <2>1, MakesTrue
<1>8. y = IF h.held # s.held /\ Satisfied(h, j, t) THEN InductJob(h, j, named) ELSE h
  BY DEF StartPart, Inducts
<1> HIDE DEF h, name
<1>9. Toward(h)
  BY <1>2, <1>4 DEF Toward
<1>10. \A k \in Jobs, u \in Trees :
         RefsOf(h.held, k, u) \subseteq RefsOf(s.held, k, u) \/ (k = j /\ u = t)
  BY <1>4 DEF RefsOf, Ref
<1>11. CASE ~Satisfied(h, j, t)
  <2>1. y = h
    BY <1>8, <1>11
  <2>2. Unsatisfied(h)
    BY <1>4, <1>10, <1>11, UnsatisfiedKept
  <2> QED BY <1>2, <1>4, <1>7, <1>9, <1>11, <2>1, <2>2 DEF name
<1>12. CASE Satisfied(h, j, t)
  <2>1. y = InductJob(h, j, named)
    BY <1>6, <1>8, <1>12
  <2>2. /\ Toward(y) /\ y.held \subseteq h.held /\ RefsOf(y.held, j, t) = {}
        /\ y.cgmanager_wait = h.cgmanager_wait
        /\ \A k \in Jobs \ {j} : y.job[k] = h.job[k]
        /\ \A r \in h.blocking \ y.blocking : r.job = j
        /\ \/ y.job[j].state = h.job[j].state
           \/ h.job[j].state = "waiting" /\ y.job[j].state = "starting"
        /\ ~named => y.job = h.job /\ h.blocking \subseteq y.blocking
        /\ named =>
             /\ y.job[j].goal = "start"
             /\ h.job[j].goal = "start" => y.job = h.job /\ h.blocking \subseteq y.blocking
             /\ j \in Task \/ h.job[j].state # "running" => Parts(h, j, t) \subseteq y.blocking
    BY <1>3, <1>9, <2>1, InductJobGoes
  <2>3. named /\ (j \in Task \/ h.job[j].state # "running") => WaitsFor(y, id, j)
    BY <1>6, <1>12, <2>2 DEF WaitsFor
  <2>4. Unsatisfied(y)
    <3>1. \A k \in Jobs, u \in Trees :
            \/ RefsOf(y.held, k, u) \subseteq RefsOf(s.held, k, u)
            \/ RefsOf(y.held, k, u) = {}
      BY <1>10, <2>2 DEF RefsOf
    <3> QED BY <1>4, <2>2, <3>1, UnsatisfiedKept
  <2> QED BY <1>2, <1>4, <2>2, <2>3, <2>4
<1> QED BY <1>11, <1>12

\* A class that waits for the cgroup manager keeps the event.
LEMMA AwaitGoes ==
  ASSUME NEW s \in SysType, Unsatisfied(s), Toward(s), NEW j \in Jobs, NEW id,
         NEW y, y = AwaitCgmanager(s, j, id)
  PROVE  Unsatisfied(y) /\ Toward(y) /\ y.job = s.job /\ y.blocking = s.blocking
<1> DEFINE t == "start"
           h == EventOperatorHandle(s, j, t, id)
<1>1. /\ h.held = s.held \cup {Ref(j, t, n, id) : n \in Matching(s, j, t, id)}
      /\ h.blocking = s.blocking /\ h.job = s.job /\ h.cgmanager_wait = s.cgmanager_wait
  BY Takes
<1>2. y = IF j \in s.cgmanager_wait THEN s
          ELSE IF h.held # s.held
          THEN [h EXCEPT !.cgmanager_wait = @ \cup {j}] ELSE h
  BY DEF AwaitCgmanager
<1>3. h = [s EXCEPT !.held = h.held, !.events = h.events]
  BY DEF EventOperatorHandle, EventBlock, SysType
<1> HIDE DEF h
<1>4. CASE y = s
  BY <1>4
<1>5. CASE y = h /\ h.held = s.held
  <2>1. \A k \in Jobs, u \in Trees : RefsOf(y.held, k, u) \subseteq RefsOf(s.held, k, u)
    BY <1>5
  <2>2. Unsatisfied(y)
    BY <1>1, <1>5, <2>1, UnsatisfiedKept
  <2> QED BY <1>1, <1>5, <2>2 DEF Toward
<1>6. CASE y = [h EXCEPT !.cgmanager_wait = @ \cup {j}]
  <2>1. /\ y.held = h.held /\ y.blocking = s.blocking /\ y.job = s.job
        /\ y.cgmanager_wait = s.cgmanager_wait \cup {j}
    BY <1>1, <1>3, <1>6 DEF SysType
  <2>2. \A k \in Jobs, u \in Trees :
          RefsOf(y.held, k, u) \subseteq RefsOf(s.held, k, u) \/ (k = j /\ u = t)
    BY <1>1, <2>1 DEF RefsOf, Ref
  <2>3. Unsatisfied(y)
    BY <2>1, <2>2, UnsatisfiedKept
  <2> QED BY <2>1, <2>3 DEF Toward
<1> QED BY <1>2, <1>4, <1>5, <1>6

\* When it can start, it lets go of what it kept.
LEMMA HereGoes ==
  ASSUME NEW x, NEW s, Sound(s, x), Unsatisfied(s), Toward(s), NEW j \in Jobs,
         NEW y, y = CgmanagerHere(s, j)
  PROVE  Unsatisfied(y) /\ Toward(y) /\ y.job = s.job /\ y.blocking = s.blocking
<1>1. CASE j \notin s.cgmanager_wait
  BY <1>1 DEF CgmanagerHere
<1>2. CASE j \in s.cgmanager_wait
  <2> DEFINE t == "start"
             w == s.cgmanager_wait \ {j}
             z == [s EXCEPT !.cgmanager_wait = w]
  <2>1. w \in SUBSET Jobs /\ y = EventOperatorReset(z, j, t) /\ t \in Trees
    BY <1>2 DEF Sound, SysType, CgmanagerHere, Trees
  <2> HIDE DEF w
  <2>2. /\ Sound(z, x) /\ z.cgmanager_wait = w /\ z.held = s.held /\ z.blocking = s.blocking
        /\ z.job = s.job
    BY <2>1, WaitSet
  <2> HIDE DEF z
  <2>3. /\ Frame(z, y) /\ y.job = z.job /\ y.blocking = z.blocking
        /\ y.held = z.held \ RefsOf(z.held, j, t)
    <3> HIDE DEF t
    <3> QED BY <2>1, <2>2, ResetSound
  <2>4. RefsOf(y.held, j, t) = {} /\ \A k \in Jobs, u \in Trees : RefsOf(y.held, k, u) \subseteq RefsOf(s.held, k, u)
    BY <2>2, <2>3 DEF RefsOf
  <2>5. y.cgmanager_wait = w
    BY <2>2, <2>3 DEF Frame
  <2>6. Unsatisfied(y)
    <3>1. \A k \in s.cgmanager_wait : k \in y.cgmanager_wait \/ RefsOf(y.held, k, "start") = {}
      BY <2>4, <2>5 DEF w
    <3> QED BY <2>4, <3>1, UnsatisfiedKept
  <2> QED BY <2>2, <2>3, <2>6 DEF Toward
<1> QED BY <1>1, <1>2

-----------------------------------------------------------------------------
(* The steps *)

\* What the property says of a step.
Waiting == \A j \in Jobs : BeginsToWait(j) /\ WaitsOn(j) /\ GoesOnAlone(j)

\* No event is shown to a class.
LEMMA NotShown ==
  ASSUME poll.todo = {} \/ poll'.todo = poll.todo, NEW j
  PROVE  BeginsToWait(j)
BY DEF BeginsToWait, Shown

\* Only a job that has got there, or does not go there, is not waited for any longer.
LEMMA GoesWaits ==
  ASSUME sys \in SysType, Toward(sys), NEW j \in Jobs, Goes(sys, sys', j),
         sys'.blocking \subseteq sys.blocking
  PROVE  Toward(sys') /\ \A k \in Jobs : WaitsOn(k)
<1>1. \A r \in sys.blocking : r.job \in Jobs /\ r.tree \in {"start", "stop"}
  BY DEF SysType, RefType, Trees
<1>2. Toward(sys')
  <2> SUFFICES ASSUME NEW r \in sys'.blocking, r.tree = "stop" PROVE sys'.job[r.job].goal = "stop"
    BY DEF Toward
  <2>1. r.job \in Jobs /\ sys.job[r.job].goal = "stop"
    BY <1>1 DEF Toward
  <2>2. CASE r.job = j
    BY <2>1, <2>2 DEF Goes
  <2>3. CASE r.job # j
    BY <2>1, <2>3 DEF Goes
  <2> QED BY <2>2, <2>3
<1>3. ASSUME NEW k \in Jobs, NEW r \in sys.blocking \ sys'.blocking, r.job = k
      PROVE  \/ sys'.job[k].state = "waiting"
             \/ r.tree = "start" /\ k \notin Task /\ sys'.job[k].state = "running"
             \/ sys'.job[k].goal # sys.job[k].goal
  <2>1. k = j /\ \/ sys'.job[k].state = "waiting"
                 \/ k \notin Task /\ sys'.job[k].state = "running" /\ sys.job[k].goal = "start"
                 \/ sys'.job[k].goal # sys.job[k].goal
    BY <1>3 DEF Goes
  <2>2. sys.job[k].goal = "start" => r.tree = "start"
    BY <1>1, <1>3 DEF Toward
  <2> QED BY <2>1, <2>2
<1> QED BY <1>2, <1>3 DEF WaitsOn

\* References that a job lets go of make no expression true.
LEMMA LighterUnsatisfied ==
  ASSUME NEW s, Unsatisfied(s), NEW y, y.held \subseteq s.held,
         y.cgmanager_wait = s.cgmanager_wait
  PROVE  Unsatisfied(y)
<1>1. \A j \in Jobs, tree \in Trees : RefsOf(y.held, j, tree) \subseteq RefsOf(s.held, j, tree)
  BY DEF RefsOf
<1> QED BY <1>1, UnsatisfiedKept

\* Nothing changes that the jobs and events wait for.
LEMMA SameWaits ==
  ASSUME Unsatisfied(sys), Toward(sys), sys'.job = sys.job, sys'.held = sys.held,
         sys'.blocking = sys.blocking, sys'.cgmanager_wait = sys.cgmanager_wait,
         poll.todo = {} \/ poll'.todo = poll.todo
  PROVE  Unsatisfied(sys') /\ Toward(sys') /\ Waiting
<1>1. Unsatisfied(sys')
  BY LighterUnsatisfied
<1>2. Toward(sys')
  BY DEF Toward
<1>3. \A j \in Jobs : WaitsOn(j) /\ GoesOnAlone(j)
  BY DEF WaitsOn, GoesOnAlone
<1> QED BY <1>1, <1>2, <1>3, NotShown DEF Waiting

\* The job that waited for the event goes on: nobody else is waited for by it.
LEMMA FinishWaits ==
  ASSUME IInv, Unsatisfied(sys), Toward(sys), NEW i \in 1 .. Len(sys.events),
         sys.events[i].blockers = 0, sys' = Finish(sys, i),
         poll.todo = {} \/ poll'.todo = poll.todo
  PROVE  Unsatisfied(sys') /\ Toward(sys') /\ Waiting
<1> DEFINE s == sys
           e == s.events[i]
           x == e.id
           u == IF e.job = NoJob THEN s
                ELSE JobNextState([s EXCEPT !.job[e.job].blocker = NoEvent], e.job)
           r == ReportFailed(u, e)
<1>1. Sound(s, NoEvent) /\ s \in SysType /\ e \in EventType /\ Finite(s) /\ Counted(s)
      /\ Tells(s, NoEvent)
  BY ListLength DEF IInv, Sound
<1>2. e.job \in Jobs \cup {NoJob}
  BY <1>1 DEF EventType
<1>3. \A f \in s.blocking : f.event # x
  <2> DEFINE m == Count(s.held, x) n == Count(s.blocking, x)
  <2>1. m \in Nat /\ n \in Nat /\ 0 = m + n
    BY <1>1, CountIsNat DEF Finite, Counted
  <2> HIDE DEF m, n
  <2>2. n = 0
    BY <2>1
  <2> QED BY <1>1, <2>2, CountIsNat DEF Finite, n
<1>4. sys' = [r EXCEPT !.events = RemoveAt(r.events, i)]
  BY DEF Finish
<1>5. /\ u \in SysType /\ u.held \subseteq s.held /\ u.blocking \subseteq s.blocking
      /\ u.cgmanager_wait = s.cgmanager_wait
      /\ \/ u = s
         \/ \E j \in Jobs : Goes(s, u, j) /\ s.job[j].blocker = x
  <2>1. CASE e.job = NoJob
    BY <1>1, <2>1
  <2>2. CASE e.job # NoJob
    <3> DEFINE j == e.job
               z == [s EXCEPT !.job[j].blocker = NoEvent]
    <3>1. j \in Jobs /\ s.events[i].job = j /\ x = s.events[i].id /\ u = JobNextState(z, j)
      BY <1>2, <2>2
    <3> HIDE DEF j, u, x, e
    <3>2. /\ Sound(z, x) /\ Shrinks(s, z) /\ z.blocking = s.blocking
          /\ \A k \in Jobs \ {j} : z.job[k] = s.job[k]
          /\ z.job[j].goal = s.job[j].goal /\ z.job[j].state = s.job[j].state
          /\ s.job[j].blocker = x /\ s.job[j].state \in {"starting", "stopping"}
      BY <1>1, <3>1, ToldSound
    <3> HIDE DEF z
    <3>3. z.job[j].state # "killed"
      BY <3>2
    <3>4. Sound(u, x) /\ Shrinks(z, u)
      BY <3>1, <3>2, <3>3, NextStateSound DEF Moved
    <3>5. Goes(z, u, j)
      BY <3>1, <3>2, NextGoes
    <3>6. Goes(s, u, j)
      BY <3>2, <3>5 DEF Goes
    <3>7. u \in SysType /\ u.held \subseteq s.held /\ u.blocking \subseteq s.blocking
          /\ u.cgmanager_wait = s.cgmanager_wait
      BY <3>2, <3>4 DEF Sound, Shrinks, Frame
    <3> QED BY <3>1, <3>2, <3>6, <3>7
  <2> QED BY <2>1, <2>2
<1> HIDE DEF u
<1>6. /\ r \in SysType /\ r.job = u.job /\ r.held = u.held /\ r.blocking = u.blocking
      /\ r.cgmanager_wait = u.cgmanager_wait
  <2>1. CASE r = u
    BY <1>5, <2>1
  <2>2. CASE ~(r = u)
    <3> DEFINE name == [e.name EXCEPT !.failed = TRUE]
    <3>1. r = EventNew(u, name, NoJob)
      BY <2>2 DEF ReportFailed
    <3> HIDE DEF r
    <3>2. name \in EventNames /\ NoJob \in Jobs \cup {NoJob}
      BY <1>1 DEF EventType, EventNames
    <3> HIDE DEF name, e
    <3> QED BY <1>5, <3>1, <3>2, EventAdded
  <2> QED BY <2>1, <2>2
<1> HIDE DEF r
<1>7. /\ sys'.job = u.job /\ sys'.held = u.held /\ sys'.blocking = u.blocking
      /\ sys'.cgmanager_wait = u.cgmanager_wait
  BY <1>4, <1>6 DEF SysType
<1>8. CASE u = s
  BY <1>7, <1>8, SameWaits
<1>9. CASE \E j \in Jobs : Goes(s, u, j) /\ s.job[j].blocker = x
  <2>1. PICK j \in Jobs : Goes(s, u, j) /\ s.job[j].blocker = x
    BY <1>9
  <2>2. Goes(sys, sys', j)
    BY <1>7, <2>1 DEF Goes
  <2>3. Toward(sys') /\ \A k \in Jobs : WaitsOn(k)
    BY <1>1, <1>5, <1>7, <2>2, GoesWaits
  <2>4. Unsatisfied(sys')
    BY <1>5, <1>7, LighterUnsatisfied
  <2>5. ASSUME NEW k \in Jobs PROVE GoesOnAlone(k)
    <3>1. CASE k = j
      BY <1>3, <2>1, <3>1 DEF GoesOnAlone, WaitsFor
    <3>2. CASE k # j
      BY <2>2, <3>2 DEF GoesOnAlone, Goes
    <3> QED BY <3>1, <3>2
  <2> QED BY <2>3, <2>4, <2>5, NotShown DEF Waiting
<1> QED BY <1>5, <1>8, <1>9

\* The event with an identifier is at one place.
LEMMA IndexIs ==
  ASSUME NEW s \in SysType, Unique(s), NEW i \in 1 .. Len(s.events), NEW id, s.events[i].id = id
  PROVE  Index(s, id) = i
<1>1. DOMAIN s.events = 1 .. Len(s.events)
  BY ListLength
<1>2. Index(s, id) \in 1 .. Len(s.events) /\ s.events[Index(s, id)].id = id
  BY <1>1 DEF Index
<1> QED BY <1>2 DEF Unique

\* It keeps its name.
LEMMA NameKept ==
  ASSUME NEW x, NEW s, Sound(s, x), NEW y, Sound(y, x), Steps(s, y), NEW id, Handling(s, id)
  PROVE  y.events[Index(y, id)].name = s.events[Index(s, id)].name
<1>1. s \in SysType /\ y \in SysType /\ Unique(s) /\ Unique(y)
  BY DEF Sound
<1>2. PICK i \in 1 .. Len(s.events) : s.events[i].id = id
  BY DEF Handling
<1>3. i \in 1 .. Len(y.events) /\ y.events[i].id = id /\ y.events[i].name = s.events[i].name
  <2>1. Len(s.events) \in Nat /\ Len(y.events) \in Nat
    BY <1>1, ListLength
  <2> QED BY <1>2, <2>1 DEF Steps, Grows
<1>4. Index(s, id) = i /\ Index(y, id) = i
  BY <1>1, <1>2, <1>3, IndexIs
<1> QED BY <1>3, <1>4

\* A class that can start lets go of what it kept, and then is shown the event; one that
\* cannot keeps it.
Ready(s, j) == IF StartOn[j] # <<>> /\ j \in Cgroups THEN CgmanagerHere(s, j) ELSE s

Handles(s, y, j, id, named, await) ==
  IF await THEN y = AwaitCgmanager(s, j, id) ELSE y = StartPart(Ready(s, j), j, id, named)

\* event_pending_handle_jobs() for one class: an event that stops or starts its job waits
\* for it, and so do those that did, until the goal changes.
LEMMA ClassGoes ==
  ASSUME NEW x, NEW s, Sound(s, x), Apart(s), Waits(s), Unsatisfied(s), Toward(s),
         NEW j \in Jobs, NEW id \in Nat,
         Handling(s, id), \A r \in s.held \cup s.blocking : ~(r.job = j /\ r.event = id),
         NEW named \in BOOLEAN, NEW await \in BOOLEAN,
         NEW y, Handles(StopPart(s, j, id), y, j, id, named, await)
  PROVE  /\ Unsatisfied(y) /\ Toward(y)
         /\ \A k \in Jobs \ {j} : y.job[k] = s.job[k]
         /\ \/ y.job[j].state = s.job[j].state
            \/ s.job[j].state = "running" /\ y.job[j].state = "stopping"
            \/ s.job[j].state = "waiting" /\ y.job[j].state = "starting"
         /\ \A r \in s.blocking \ y.blocking :
              r.job = j /\ (y.job[j].goal # s.job[j].goal \/ WaitsFor(y, id, j))
         /\ TrueOn(StopOn[j], s.events[Index(s, id)].name) /\ y.job[j].goal = "stop" =>
              y.job[j].state = "waiting" \/ WaitsFor(y, id, j)
         /\ TrueOn(StartOn[j], s.events[Index(s, id)].name) /\ named /\ ~await =>
              (j \notin Task /\ y.job[j].state = "running") \/ WaitsFor(y, id, j)
<1> DEFINE name == s.events[Index(s, id)].name
           p == StopPart(s, j, id)
           c == Ready(p, j)
<1>0. IF await THEN y = AwaitCgmanager(p, j, id) ELSE y = StartPart(c, j, id, named)
  BY DEF Handles
<1>1. Handled(s, p, x, j, "stop", id)
  BY StopPartSound
<1>2. Waits(p) /\ Steps(s, p) /\ Sound(p, x) /\ Apart(p)
  BY <1>1, WaitsKept DEF Handled
<1>3. \A r \in p.held \cup p.blocking : ~(r.job = j /\ r.tree = "start" /\ r.event = id)
  BY <1>1 DEF Handled, OnlyNew
<1>4. s \in SysType /\ p \in SysType
  BY <1>2 DEF Sound
<1>5. Handling(p, id)
  BY <1>2, <1>4, StillHandling DEF Steps
<1>6. /\ Unsatisfied(p) /\ Toward(p)
      /\ \A k \in Jobs \ {j} : p.job[k] = s.job[k]
      /\ \A r \in s.blocking \ p.blocking : r.job = j
      /\ \/ p.job[j].state = s.job[j].state
         \/ s.job[j].state = "running" /\ p.job[j].state = "stopping"
      /\ \/ p.job[j] = s.job[j] /\ s.blocking \subseteq p.blocking
         \/ p.job[j].goal = "stop" /\ p.job[j].state # "running" /\ WaitsFor(p, id, j)
      /\ TrueOn(StopOn[j], name) =>
           (p.job[j] = s.job[j] /\ s.job[j].state = "waiting") \/ WaitsFor(p, id, j)
  BY StopPartGoes
<1> HIDE DEF name, p, c
<1>7. CASE await
  <2>1. Unsatisfied(y) /\ Toward(y) /\ y.job = p.job /\ y.blocking = p.blocking
    BY <1>0, <1>4, <1>6, <1>7, AwaitGoes
  <2>2. WaitsFor(p, id, j) => WaitsFor(y, id, j)
    BY <2>1 DEF WaitsFor
  <2> QED BY <1>6, <1>7, <2>1, <2>2 DEF name
<1>8. CASE ~await
  <2>1. /\ Sound(c, x) /\ Apart(c) /\ Waits(c) /\ Steps(p, c) /\ j \notin c.cgmanager_wait
        /\ \A r \in c.held \cup c.blocking : r \in p.held \cup p.blocking
        /\ Unsatisfied(c) /\ Toward(c) /\ c.job = p.job /\ c.blocking = p.blocking
    <3>1. CASE StartOn[j] # <<>> /\ j \in Cgroups
      <4>1. c = CgmanagerHere(p, j)
        BY <3>1 DEF c, Ready
      <4> QED BY <1>2, <1>6, <4>1, HereSound, HereGoes
    <3>2. CASE ~(StartOn[j] # <<>> /\ j \in Cgroups)
      <4>1. c = p
        BY <3>2 DEF c, Ready
      <4>2. j \notin p.cgmanager_wait
        BY <1>2, <3>2 DEF Waits
      <4>3. Steps(p, p)
        BY <1>2, StayedSound DEF Moved, Shrinks, Frame, Steps
      <4> QED BY <1>2, <1>6, <4>1, <4>2, <4>3
    <3> QED BY <3>1, <3>2
  <2>2. c \in SysType
    BY <2>1 DEF Sound
  <2>3. Handling(c, id)
    BY <1>4, <1>5, <2>1, <2>2, StillHandling DEF Steps
  <2>4. \A r \in c.held \cup c.blocking : ~(r.job = j /\ r.tree = "start" /\ r.event = id)
    BY <1>3, <2>1
  <2>5. c.events[Index(c, id)].name = name
    <3>1. p.events[Index(p, id)].name = s.events[Index(s, id)].name
      BY <1>2, NameKept
    <3>2. c.events[Index(c, id)].name = p.events[Index(p, id)].name
      BY <1>2, <1>5, <2>1, NameKept
    <3> QED BY <3>1, <3>2 DEF name
  <2>6. /\ Unsatisfied(y) /\ Toward(y) /\ y.cgmanager_wait = c.cgmanager_wait
        /\ \A k \in Jobs \ {j} : y.job[k] = c.job[k]
        /\ \A r \in c.blocking \ y.blocking : r.job = j
        /\ \/ y.job[j].state = c.job[j].state
           \/ c.job[j].state = "waiting" /\ y.job[j].state = "starting"
        /\ \/ y.job[j] = c.job[j] /\ c.blocking \subseteq y.blocking
           \/ /\ c.job[j].goal # "start" /\ y.job[j].goal = "start"
              /\ j \in Task \/ c.job[j].state # "running" => WaitsFor(y, id, j)
        /\ TrueOn(StartOn[j], c.events[Index(c, id)].name) /\ named =>
             (j \notin Task /\ y.job[j].state = "running") \/ WaitsFor(y, id, j)
    <3>1. y = StartPart(c, j, id, named)
      BY <1>0, <1>8
    <3> QED BY <2>1, <2>3, <2>4, <3>1, StartPartGoes
  <2>7. c.blocking \subseteq y.blocking /\ WaitsFor(p, id, j) => WaitsFor(y, id, j)
    BY <2>1 DEF WaitsFor
  <2>8. ASSUME NEW r \in s.blocking \ y.blocking
        PROVE  r.job = j /\ (y.job[j].goal # s.job[j].goal \/ WaitsFor(y, id, j))
    <3>1. CASE r \notin p.blocking
      BY <1>6, <2>1, <2>6, <2>7, <3>1
    <3>2. CASE r \in p.blocking
      BY <1>6, <2>1, <2>6, <2>7, <3>2
    <3> QED BY <3>1, <3>2
  <2>9. TrueOn(StopOn[j], name) /\ y.job[j].goal = "stop" =>
          y.job[j].state = "waiting" \/ WaitsFor(y, id, j)
    BY <1>6, <2>1, <2>6, <2>7
  <2>10. TrueOn(StartOn[j], name) /\ named =>
           (j \notin Task /\ y.job[j].state = "running") \/ WaitsFor(y, id, j)
    BY <2>5, <2>6
  <2>11. \A k \in Jobs \ {j} : y.job[k] = s.job[k]
    BY <1>6, <2>1, <2>6
  <2>12. \/ y.job[j].state = s.job[j].state
         \/ s.job[j].state = "running" /\ y.job[j].state = "stopping"
         \/ s.job[j].state = "waiting" /\ y.job[j].state = "starting"
    BY <1>6, <2>1, <2>6
  <2> QED BY <2>6, <2>8, <2>9, <2>10, <2>11, <2>12 DEF name
<1> QED BY <1>7, <1>8

\* event_poll() takes up an event, or finishes one.
LEMMA PollBeginWaits ==
  ASSUME IInv, Unsatisfied(sys), Toward(sys), PollBegin
  PROVE  Unsatisfied(sys') /\ Toward(sys') /\ Waiting
<1> DEFINE i == NextIndex(sys, poll.cursor)
<1>1. /\ poll.event = NoEvent /\ i # 0
      /\ \/ sys' = [sys EXCEPT !.events[i].progress = "handling"]
         \/ sys.events[i].progress # "pending" /\ sys' = Finish(sys, i)
  BY DEF PollBegin
<1>2. sys \in SysType /\ poll.cursor \in Nat /\ poll.todo = {}
  BY <1>1 DEF IInv, Sound, Polls, PollType
<1>3. i \in 1 .. Len(sys.events) /\ Actionable(sys.events[i])
  BY <1>1, <1>2, NextIndexActs
<1> HIDE DEF i
<1>4. CASE sys' = [sys EXCEPT !.events[i].progress = "handling"]
  <2>1. /\ sys'.job = sys.job /\ sys'.held = sys.held /\ sys'.blocking = sys.blocking
        /\ sys'.cgmanager_wait = sys.cgmanager_wait
    BY <1>2, <1>4 DEF SysType
  <2> QED BY <1>2, <2>1, SameWaits
<1>5. CASE sys.events[i].progress # "pending" /\ sys' = Finish(sys, i)
  <2>1. sys.events[i].blockers = 0
    BY <1>3, <1>5 DEF Actionable
  <2> QED BY <1>2, <1>3, <1>5, <2>1, FinishWaits
<1> QED BY <1>1, <1>4, <1>5

\* The event has been shown to all the classes.
LEMMA PollEndWaits ==
  ASSUME IInv, Unsatisfied(sys), Toward(sys), PollEnd
  PROVE  Unsatisfied(sys') /\ Toward(sys') /\ Waiting
<1> DEFINE i == poll.cursor
<1>1. /\ poll.event # NoEvent /\ poll.todo = {}
      /\ IF sys.events[i].blockers = 0 THEN sys' = Finish(sys, i) ELSE sys' = sys
  BY DEF PollEnd
<1>2. i \in 1 .. Len(sys.events)
  BY <1>1 DEF IInv, Polls
<1> HIDE DEF i
<1>3. CASE sys.events[i].blockers = 0
  BY <1>1, <1>2, <1>3, FinishWaits
<1>4. CASE sys.events[i].blockers # 0
  <2>1. sys' = sys
    BY <1>1, <1>4
  <2> QED BY <1>1, <2>1, SameWaits
<1> QED BY <1>3, <1>4

\* The event is shown to a class.
LEMMA HandleClassWaits ==
  ASSUME IInv, Unsatisfied(sys), Toward(sys), NEW j \in Jobs, HandleClass(j)
  PROVE  Unsatisfied(sys') /\ Toward(sys') /\ Waiting
<1> DEFINE id == poll.event
           p == StopPart(sys, j, id)
           c == Ready(p, j)
           wait == StartOn[j] # <<>> /\ j \in Cgroups /\ ~cgmanager
           name == sys.events[Index(sys, id)].name
<1>1. Sound(sys, NoEvent) /\ Apart(sys) /\ Waits(sys) /\ Polls(sys, poll) /\ NotYet(sys, poll)
  BY DEF IInv
<1>2. /\ j \in poll.todo
      /\ IF wait
         THEN sys' = AwaitCgmanager(p, j, id) /\ poll' = [poll EXCEPT !.todo = poll.todo \ {j}]
         ELSE \E named \in Expansions(j) :
                /\ sys' = StartPart(c, j, id, named)
                /\ poll' \in {[poll EXCEPT !.todo = {}], [poll EXCEPT !.todo = poll.todo \ {j}]}
  BY DEF HandleClass, Ready
<1> HIDE DEF c, p
<1>3. poll \in PollType /\ id \in Nat /\ poll.cursor \in 1 .. Len(sys.events)
      /\ sys.events[poll.cursor].id = id /\ sys.events[poll.cursor].progress = "handling"
  BY <1>1, <1>2 DEF Polls, PollType
<1>4. Handling(sys, id) /\ \A r \in sys.held \cup sys.blocking : ~(r.job = j /\ r.event = id)
  BY <1>1, <1>2, <1>3 DEF Handling, NotYet
<1>5. PICK named \in BOOLEAN :
        /\ j \in Named => named
        /\ IF wait THEN sys' = AwaitCgmanager(p, j, id) ELSE sys' = StartPart(c, j, id, named)
  <2>1. \A named \in Expansions(j) : named \in BOOLEAN /\ (j \in Named => named)
    BY DEF Expansions
  <2>2. \E named \in BOOLEAN : j \in Named => named
    OBVIOUS
  <2> QED BY <1>2, <2>1, <2>2
<1>6. poll' \in {[poll EXCEPT !.todo = {}], [poll EXCEPT !.todo = poll.todo \ {j}]}
  BY <1>2
<1>7. (j \in Cgroups /\ ~cgmanager) \/ ~wait
  OBVIOUS
<1> HIDE DEF wait
<1>8. /\ Unsatisfied(sys') /\ Toward(sys')
      /\ \A k \in Jobs \ {j} : sys'.job[k] = sys.job[k]
      /\ \/ sys'.job[j].state = sys.job[j].state
         \/ sys.job[j].state = "running" /\ sys'.job[j].state = "stopping"
         \/ sys.job[j].state = "waiting" /\ sys'.job[j].state = "starting"
      /\ \A r \in sys.blocking \ sys'.blocking :
           r.job = j /\ (sys'.job[j].goal # sys.job[j].goal \/ WaitsFor(sys', id, j))
      /\ TrueOn(StopOn[j], name) /\ sys'.job[j].goal = "stop" =>
           sys'.job[j].state = "waiting" \/ WaitsFor(sys', id, j)
      /\ TrueOn(StartOn[j], name) /\ named /\ ~wait =>
           (j \notin Task /\ sys'.job[j].state = "running") \/ WaitsFor(sys', id, j)
  <2> DEFINE await == IF wait THEN TRUE ELSE FALSE
  <2>1. await \in BOOLEAN /\ (await <=> wait)
    OBVIOUS
  <2>2. Handles(StopPart(sys, j, id), sys', j, id, named, await)
    BY <1>5 DEF p, c, Handles
  <2> HIDE DEF await
  <2> QED BY <1>1, <1>3, <1>4, <2>1, <2>2, ClassGoes
<1> HIDE DEF name
<1>9. ASSUME NEW k \in Jobs, Shown(k) PROVE k = j
  <2>1. poll'.todo \in {{}, poll.todo \ {j}}
    BY <1>3, <1>6 DEF PollType
  <2> QED BY <1>2, <1>9, <2>1 DEF Shown
<1>10. ASSUME NEW k \in Jobs PROVE BeginsToWait(k)
  <2> SUFFICES ASSUME Shown(k) PROVE BeginsToWait(k)
    BY DEF BeginsToWait
  <2>1. k = j
    BY <1>9
  <2> QED BY <1>5, <1>7, <1>8, <2>1 DEF BeginsToWait, name
<1>11. ASSUME NEW k \in Jobs PROVE WaitsOn(k)
  BY <1>8 DEF WaitsOn
<1>12. ASSUME NEW k \in Jobs PROVE GoesOnAlone(k)
  <2>1. CASE k = j
    BY <1>8, <2>1 DEF GoesOnAlone
  <2>2. CASE k # j
    BY <1>8, <2>2 DEF GoesOnAlone
  <2> QED BY <2>1, <2>2
<1> QED BY <1>8, <1>10, <1>11, <1>12 DEF Waiting

\* A step of a job: what waits for it waits on, until it is there.
LEMMA JobStepWaits ==
  ASSUME IInv, Unsatisfied(sys), Toward(sys), NEW j \in Jobs, Goes(sys, sys', j),
         Lighter(sys, sys'), poll.todo = {},
         \/ sys.job[j].state \notin {"starting", "stopping"}
         \/ sys'.job[j].state = sys.job[j].state
  PROVE  Unsatisfied(sys') /\ Toward(sys') /\ Waiting
<1>1. sys \in SysType
  BY DEF IInv, Sound
<1>2. Unsatisfied(sys')
  BY LighterUnsatisfied DEF Lighter
<1>3. Toward(sys') /\ \A k \in Jobs : WaitsOn(k)
  BY <1>1, GoesWaits DEF Lighter
<1>4. \A k \in Jobs : GoesOnAlone(k)
  BY DEF GoesOnAlone, Goes
<1> QED BY <1>2, <1>3, <1>4, NotShown DEF Waiting

\* The main process is up.
LEMMA MainUpWaits ==
  ASSUME IInv, Unsatisfied(sys), Toward(sys), NEW j \in Jobs, MainUp(j)
  PROVE  Unsatisfied(sys') /\ Toward(sys') /\ Waiting
<1> DEFINE y == JobNextState(sys, j)
<1>1. poll = Idle /\ sys' = y /\ sys.job[j].state = "spawned"
  BY DEF MainUp, MainLoop, Callback
<1>2. Sound(sys, NoEvent) /\ poll.todo = {}
  BY <1>1 DEF IInv, Idle
<1>3. sys.job[j].state # "killed"
  BY <1>1
<1>4. Shrinks(sys, y) /\ Goes(sys, y, j)
  BY <1>2, <1>3, NextStateSound, NextGoes DEF Moved
<1> HIDE DEF y
<1>5. Lighter(sys, y)
  BY <1>4 DEF Shrinks, Frame, Lighter
<1> QED BY <1>1, <1>2, <1>4, <1>5, JobStepWaits

\* The main process ended: unless the job is stopping already, it goes on.
LEMMA MainEndsWaits ==
  ASSUME IInv, Unsatisfied(sys), Toward(sys), NEW j \in Jobs, NEW ok \in BOOLEAN, MainEnds(j, ok)
  PROVE  Unsatisfied(sys') /\ Toward(sys') /\ Waiting
<1> DEFINE a == [sys.job[j] EXCEPT !.pid = FALSE]
           g == Put(sys, j, a)
           f == IF ok THEN g ELSE JobFailed(g, j)
           c == JobChangeGoal(f, j, "stop")
           state == sys.job[j].state
           goal == sys.job[j].goal
<1>1. Sound(sys, NoEvent)
  BY DEF IInv
<1>2. sys.job[j] \in JobType /\ Tells(sys, NoEvent) /\ ProcessStates(sys)
  BY <1>1 DEF Sound, SysType
<1>3. poll.todo = {} /\ sys.job[j].pid
  BY DEF MainEnds, MainLoop, Idle
<1>4. state \in {"spawned", "running", "stopping", "killed"}
  BY <1>2, <1>3 DEF ProcessStates, JobType, JobStates
<1>5. Lighter(sys, sys')
  BY MainEndsSound
<1>6. /\ a \in JobType /\ a.state = state /\ a.blocker = sys.job[j].blocker /\ ~a.pid
      /\ a.goal = goal
  BY <1>2 DEF JobType
<1>7. \/ state = "stopping" /\ sys' = g
      \/ state # "stopping" /\ sys' = JobNextState(g, j)
      \/ state # "stopping" /\ goal # "stop" /\ sys' = JobNextState(c, j)
  <2>1. sys' = CASE state = "stopping" -> g
                 [] state = "killed" -> JobNextState(g, j)
                 [] state \in {"spawned", "running"} ->
                      IF goal = "stop" THEN JobNextState(g, j) ELSE JobNextState(c, j)
    BY DEF MainEnds, Callback, Put
  <2> HIDE DEF g, c, f, state, goal
  <2> QED BY <1>4, <2>1
<1> HIDE DEF a, g, f, c
<1>8. /\ a.blocker # NoEvent => a.state \in {"starting", "stopping"}
      /\ a.pid => a.state \notin {"waiting", "starting"}
  BY <1>2, <1>6 DEF Tells
<1>9. /\ Sound(g, NoEvent) /\ g.blocking = sys.blocking /\ g.job[j] = a
      /\ \A k \in Jobs \ {j} : g.job[k] = sys.job[k]
  BY <1>1, <1>6, <1>8, JobSound DEF g
<1>10. CASE state = "stopping" /\ sys' = g
  <2>1. Goes(sys, sys', j) /\ sys'.job[j].state = state
    BY <1>6, <1>9, <1>10 DEF Goes
  <2> QED BY <1>3, <1>5, <2>1, JobStepWaits
<1>11. CASE state # "stopping" /\ sys' = JobNextState(g, j)
  <2>1. Goes(g, sys', j)
    BY <1>9, <1>11, NextGoes
  <2>2. Goes(sys, sys', j)
    BY <1>6, <1>9, <2>1 DEF Goes
  <2> QED BY <1>3, <1>4, <1>5, <1>11, <2>2, JobStepWaits
<1>12. CASE state # "stopping" /\ goal # "stop" /\ sys' = JobNextState(c, j)
  <2>1. /\ Sound(f, NoEvent) /\ f.job[j].goal = goal
        /\ \A k \in Jobs \ {j} : f.job[k] = sys.job[k]
        /\ \A r \in sys.blocking \ f.blocking : r.job = j
    <3>1. CASE f = g
      BY <1>6, <1>9, <3>1
    <3>2. CASE f = JobFailed(g, j)
      BY <1>6, <1>9, <3>2, FailedSound
    <3> QED BY <3>1, <3>2 DEF f
  <2>2. /\ Sound(c, NoEvent) /\ c.blocking = f.blocking /\ c.job[j].goal = "stop"
        /\ \A k \in Jobs \ {j} : c.job[k] = f.job[k]
    <3> DEFINE t == "stop"
    <3>1. c = JobChangeGoal(f, j, t) /\ t \in {"start", "stop"}
      BY DEF c
    <3> HIDE DEF t
    <3>2. Sound(c, NoEvent)
      BY <2>1, <3>1, GoalSound DEF Moved
    <3>3. /\ c.blocking = f.blocking /\ c.job[j].goal = t
          /\ \A k \in Jobs \ {j} : c.job[k] = f.job[k]
      BY <2>1, <3>1, GoalGoes
    <3> QED BY <3>2, <3>3 DEF t
  <2>3. Goes(c, sys', j)
    BY <1>12, <2>2, NextGoes
  <2>4. Goes(sys, sys', j)
    BY <1>12, <2>1, <2>2, <2>3 DEF Goes
  <2> QED BY <1>3, <1>4, <1>5, <1>12, <2>4, JobStepWaits
<1> QED BY <1>7, <1>10, <1>11, <1>12

\* A class that waited for the cgroup manager starts.
LEMMA InductWaits ==
  ASSUME IInv, Unsatisfied(sys), Toward(sys), NEW j \in Jobs, InductWaiting(j)
  PROVE  Unsatisfied(sys') /\ Toward(sys') /\ Waiting
<1>1. Sound(sys, NoEvent) /\ Apart(sys) /\ sys \in SysType
  BY DEF IInv, Sound
<1>2. poll.todo = {}
  BY DEF InductWaiting, IInv, Polls
<1>3. CASE Satisfied(sys, j, "start")
  <2>1. PICK named \in Expansions(j) :
          sys' = [EventOperatorReset(InductJob(sys, j, named), j, "start")
                    EXCEPT !.cgmanager_wait = @ \ {j}]
    BY <1>3 DEF InductWaiting
  <2>2. named \in BOOLEAN
    BY DEF Expansions
  <2> DEFINE t == "start"
             h == InductJob(sys, j, named)
             y == EventOperatorReset(h, j, t)
             w == y.cgmanager_wait \ {j}
  <2>3. /\ Toward(h) /\ h.held \subseteq sys.held /\ RefsOf(h.held, j, "start") = {}
        /\ h.cgmanager_wait = sys.cgmanager_wait
        /\ \A k \in Jobs \ {j} : h.job[k] = sys.job[k]
        /\ \A r \in sys.blocking \ h.blocking : r.job = j
        /\ \/ h.job[j].state = sys.job[j].state
           \/ sys.job[j].state = "waiting" /\ h.job[j].state = "starting"
        /\ ~named => h.job = sys.job /\ sys.blocking \subseteq h.blocking
        /\ named =>
             /\ h.job[j].goal = "start"
             /\ sys.job[j].goal = "start" => h.job = sys.job /\ sys.blocking \subseteq h.blocking
    BY <1>1, <2>2, InductJobGoes
  <2>4. Sound(h, NoEvent)
    BY <1>1, <2>2, InductJobSound DEF Handled
  <2>5. sys' = [y EXCEPT !.cgmanager_wait = w] /\ t \in Trees
    BY <2>1 DEF Trees
  <2> HIDE DEF h
  <2>6. /\ Sound(y, NoEvent) /\ Frame(h, y) /\ y.job = h.job /\ y.blocking = h.blocking
        /\ y.held = h.held \ RefsOf(h.held, j, t)
    <3> HIDE DEF t
    <3> QED BY <2>4, <2>5, ResetSound
  <2> HIDE DEF y, t
  <2>7. /\ sys'.job = h.job /\ sys'.held \subseteq h.held /\ sys'.blocking = h.blocking
        /\ sys'.cgmanager_wait = sys.cgmanager_wait \ {j}
    BY <2>3, <2>5, <2>6 DEF Sound, SysType, Frame
  <2>8. Unsatisfied(sys')
    <3>1. /\ RefsOf(sys'.held, j, "start") = {}
          /\ \A k \in Jobs, u \in Trees : RefsOf(sys'.held, k, u) \subseteq RefsOf(sys.held, k, u)
      BY <2>3, <2>7 DEF RefsOf
    <3>2. \A k \in sys.cgmanager_wait :
            k \in sys'.cgmanager_wait \/ RefsOf(sys'.held, k, "start") = {}
      BY <2>7, <3>1
    <3> QED BY <3>1, <3>2, UnsatisfiedKept
  <2>9. Toward(sys')
    BY <2>3, <2>7 DEF Toward
  <2>10. \A k \in Jobs : WaitsOn(k)
    BY <2>2, <2>3, <2>7 DEF WaitsOn
  <2>11. \A k \in Jobs : GoesOnAlone(k)
    BY <2>3, <2>7 DEF GoesOnAlone
  <2> QED BY <1>2, <2>8, <2>9, <2>10, <2>11, NotShown DEF Waiting
<1>4. CASE ~Satisfied(sys, j, "start")
  <2>1. sys' = [sys EXCEPT !.aborted = TRUE]
    BY <1>4 DEF InductWaiting
  <2>2. /\ sys'.job = sys.job /\ sys'.held = sys.held /\ sys'.blocking = sys.blocking
        /\ sys'.cgmanager_wait = sys.cgmanager_wait
    BY <1>1, <2>1 DEF SysType
  <2> QED BY <1>2, <2>2, SameWaits
<1> QED BY <1>3, <1>4

\* Every step.
LEMMA StepWaits ==
  ASSUME IInv, Unsatisfied(sys), Toward(sys), [Next]_vars
  PROVE  Unsatisfied(sys') /\ Toward(sys') /\ (Waiting \/ UNCHANGED vars)
<1>1. CASE UNCHANGED vars
  BY <1>1 DEF vars
<1>2. CASE Poll
  BY <1>2, PollBeginWaits, HandleClassWaits, PollEndWaits DEF Poll
<1>3. CASE \E name \in Names : Emit(name)
  <2>1. PICK name \in Names : Emit(name)
    BY <1>3
  <2>2. sys' = EventNew(sys, EventName("emit", name), NoJob) /\ poll' = poll
    BY <2>1 DEF Emit, Callback
  <2>3. sys \in SysType
    BY DEF IInv, Sound
  <2>4. /\ sys'.job = sys.job /\ sys'.held = sys.held /\ sys'.blocking = sys.blocking
        /\ sys'.cgmanager_wait = sys.cgmanager_wait
    BY <2>2, <2>3, NewGoes
  <2> QED BY <2>2, <2>4, SameWaits
<1>4. CASE \E j \in Jobs : MainUp(j) \/ \E ok \in BOOLEAN : MainEnds(j, ok)
  BY <1>4, MainUpWaits, MainEndsWaits
<1>5. CASE NotifyCgmanager
  <2>1. sys' = sys /\ poll.todo = {}
    BY <1>5 DEF NotifyCgmanager, MainLoop, Idle
  <2> QED BY <2>1, SameWaits
<1>6. CASE \E j \in Jobs : InductWaiting(j)
  BY <1>6, InductWaits
<1> QED BY <1>1, <1>2, <1>3, <1>4, <1>5, <1>6 DEF Next

-----------------------------------------------------------------------------
(* The theorems *)

\* The web of references between events, expressions and jobs is sound.
LEMMA WebSound == Spec => []IInv
<1>1. Init => IInv
  BY InitSound
<1>2. IInv /\ [Next]_vars => IInv'
  BY NextSound
<1> QED BY <1>1, <1>2, PTL DEF Spec

\* A reply is about an event, and says whether it failed.
RepliesTyped == replied \subseteq [name : EventNames, failed : BOOLEAN]

LEMMA StepReplies ==
  ASSUME IInv, RepliesTyped, [Next]_vars
  PROVE  RepliesTyped'
<1>1. /\ sys.events \in Seq(EventType) /\ DOMAIN sys.events = 1 .. Len(sys.events)
      /\ poll.event # NoEvent => poll.cursor \in DOMAIN sys.events
      /\ NextIndex(sys, poll.cursor) # 0 => NextIndex(sys, poll.cursor) \in DOMAIN sys.events
  <2>1. sys \in SysType /\ Polls(sys, poll) /\ poll.cursor \in Nat
    BY DEF IInv, Sound, Polls, PollType
  <2>2. DOMAIN sys.events = 1 .. Len(sys.events)
    BY <2>1, ListLength
  <2>3. NextIndex(sys, poll.cursor) # 0 => NextIndex(sys, poll.cursor) \in 1 .. Len(sys.events)
    BY <2>1, NextIndexActs
  <2> QED BY <2>1, <2>2, <2>3 DEF Polls, SysType
<1>2. replied' = {} \/ replied' = replied
      \/ \E i \in DOMAIN sys.events : replied' = Replies(sys.events[i])
  <2>1. CASE UNCHANGED vars
    BY <2>1 DEF vars
  <2>2. CASE PollBegin
    BY <1>1, <2>2 DEF PollBegin
  <2>3. CASE PollEnd
    BY <1>1, <2>3 DEF PollEnd
  <2>4. CASE \E j \in Jobs : HandleClass(j)
    BY <2>4 DEF HandleClass
  <2>5. CASE \E name \in Names : Emit(name)
    BY <2>5 DEF Emit, Callback
  <2>6. ASSUME NEW j \in Jobs, MainUp(j) \/ \E ok \in BOOLEAN : MainEnds(j, ok)
        PROVE  replied' = {}
    BY <2>6 DEF MainUp, MainEnds, Callback
  <2>7. CASE NotifyCgmanager
    BY <2>7 DEF NotifyCgmanager
  <2>8. CASE \E j \in Jobs : InductWaiting(j)
    BY <2>8 DEF InductWaiting
  <2> QED BY <2>1, <2>2, <2>3, <2>4, <2>5, <2>6, <2>7, <2>8 DEF Next, Poll
<1>3. ASSUME NEW i \in DOMAIN sys.events
      PROVE  Replies(sys.events[i]) \subseteq [name : EventNames, failed : BOOLEAN]
  <2>1. sys.events[i] \in EventType
    BY <1>1
  <2> QED BY <2>1 DEF Replies, EventType
<1> QED BY <1>2, <1>3 DEF RepliesTyped

\* Events, jobs and references have their types, and no reference (oper->event,
\* job->blocking, job->blocker, the event that event_poll() is at) is to an event
\* that was freed.
THEOREM NoReferenceDangles == Spec => []TypeOK
<1>1. ASSUME IInv, RepliesTyped PROVE TypeOK
  <2>1. /\ sys \in SysType /\ Unique(sys) /\ Known(sys) /\ Tells(sys, NoEvent)
        /\ Waits(sys) /\ Polls(sys, poll)
    BY <1>1 DEF IInv, Sound
  <2>2. DOMAIN sys.events = 1 .. Len(sys.events)
        /\ \A i \in 1 .. Len(sys.events) : sys.events[i] \in EventType
    BY <2>1, ListLength
  <2>3. Ids(sys) = {sys.events[i].id : i \in 1 .. Len(sys.events)}
    BY <2>2 DEF Ids
  <2>4. \A i \in DOMAIN sys.events :
          LET e == sys.events[i]
          IN  /\ e.name \in EventNames
              /\ e.progress \in {"pending", "handling"}
              /\ e.failed \in BOOLEAN
              /\ e.blockers \in Nat
              /\ e.job \in Jobs \cup {NoJob}
              /\ \A k \in DOMAIN sys.events : sys.events[k].id = e.id => k = i
    BY <2>1, <2>2 DEF EventType, Unique
  <2>5. ASSUME NEW j \in Jobs
        PROVE  /\ sys.job[j].goal \in {"start", "stop"}
               /\ sys.job[j].state \in JobStates
               /\ sys.job[j].pid \in BOOLEAN
               /\ sys.job[j].failed \in BOOLEAN
               /\ sys.job[j].blocker \in Ids(sys) \cup {NoEvent}
    <3>1. sys.job[j] \in JobType
      BY <2>1 DEF SysType
    <3>2. sys.job[j].blocker \in Ids(sys) \cup {NoEvent}
      BY <2>1, <2>3 DEF Tells
    <3> QED BY <3>1, <3>2 DEF JobType
  <2>6. ASSUME NEW r \in sys.held \cup sys.blocking PROVE IsReference(r)
    <3>1. r \in RefType /\ IsRef(sys, r)
      BY <2>1 DEF SysType, Known
    <3> QED BY <2>3, <3>1 DEF RefType, IsRef, Leaves, Handling, IsReference
  <2>7. sys.cgmanager_wait \subseteq Cgroups
    BY <2>1 DEF Waits
  <2>8. poll.event \in Ids(sys) \cup {NoEvent} /\ poll.todo \subseteq Jobs
        /\ poll.induct \subseteq Jobs
    BY <2>1, <2>3 DEF Polls, PollType
  <2> QED BY <1>1, <2>4, <2>5, <2>6, <2>7, <2>8 DEF TypeOK, RepliesTyped
<1>2. Init => RepliesTyped
  BY DEF Init, RepliesTyped
<1>3. IInv /\ RepliesTyped /\ [Next]_vars => RepliesTyped'
  BY StepReplies
<1> QED BY <1>1, <1>2, <1>3, WebSound, PTL DEF Spec

\* event->blockers is the number of references there are to the event.
THEOREM BlockersCountReferences == Spec => []BlockersCounted
<1>1. ASSUME IInv PROVE BlockersCounted
  <2>1. sys \in SysType /\ Counted(sys)
    BY <1>1 DEF IInv, Sound
  <2>2. DOMAIN sys.events = 1 .. Len(sys.events)
    BY <2>1, ListLength
  <2> QED BY <2>1, <2>2 DEF Counted, BlockersCounted
<1> QED BY <1>1, WebSound, PTL

\* A job that is blocked is told by the event that blocks it.
THEOREM BlockedJobsAreTold == Spec => []BlockerTells
<1>1. ASSUME IInv PROVE BlockerTells
  <2>1. sys \in SysType /\ Tells(sys, NoEvent)
    BY <1>1 DEF IInv, Sound
  <2>2. DOMAIN sys.events = 1 .. Len(sys.events)
        /\ \A i \in 1 .. Len(sys.events) : sys.events[i].id # NoEvent
    BY <2>1, ListLength DEF EventType, NoEvent
  <2> QED BY <2>1, <2>2 DEF Tells, BlockerTells
<1> QED BY <1>1, WebSound, PTL

\* The start on of a class with a cgroup stanza is true as soon as it has matched
\* an event: it is one event, or several joined by "or".
AnyEventStarts ==
  \A j \in Cgroups : \A leaves \in (SUBSET Leaves(j, "start")) \ {{}} :
    Len(StartOn[j]) \in Evaluate(StartOn[j], leaves)

\* No assertion fails: neither that of event_unblock(), nor that of
\* job_class_induct_jobs(), which a start on with "and" does make fail.
THEOREM AssertionsHold ==
  ASSUME AnyEventStarts
  PROVE  Spec => []NoAssertionFails
<1>1. Init => NoAssertionFails
  BY InitSound DEF NoAssertionFails
<1>2. ASSUME IInv, NoAssertionFails, [Next]_vars PROVE NoAssertionFails'
  <2>1. CASE sys'.aborted = sys.aborted
    BY <1>2, <2>1 DEF NoAssertionFails
  <2>2. ASSUME NEW j \in Jobs, InductWaiting(j) PROVE Satisfied(sys, j, "start")
    <3> DEFINE L == {r.node : r \in RefsOf(sys.held, j, "start")}
    <3>1. Sound(sys, NoEvent) /\ Waits(sys) /\ j \in sys.cgmanager_wait
      BY <1>2, <2>2 DEF IInv, Polls, InductWaiting
    <3>2. j \in Cgroups /\ \E r \in sys.held : r.job = j /\ r.tree = "start"
      BY <3>1 DEF Waits
    <3>3. L # {}
      BY <3>2 DEF RefsOf
    <3>4. L \subseteq Leaves(j, "start")
      BY <3>1 DEF RefsOf, Sound, Known, IsRef
    <3>5. Satisfied(sys, j, "start") <=> Len(StartOn[j]) \in Evaluate(StartOn[j], L)
      BY DEF Satisfied, Value, Tree
    <3> HIDE DEF L
    <3>6. Len(StartOn[j]) \in Evaluate(StartOn[j], L)
      BY <3>2, <3>3, <3>4 DEF AnyEventStarts
    <3> QED BY <3>5, <3>6
  <2> QED BY <1>2, <2>1, <2>2, NextSound
<1> QED BY <1>1, <1>2, WebSound, PTL DEF Spec

\* When a job fails, the events that wait for it are marked failed and stay so, and
\* no failed event leaves the list but its failed event takes its place (unless it is
\* one) and its emitter is sent an error.
THEOREM FailuresReported == Spec => FailureReported
<1>1. ASSUME IInv, [Next]_vars
      PROVE  [\A i \in DOMAIN sys.events :
                Fails(sys, sys', sys.events[i]) =>
                    \/ StaysFailed(sys', sys.events[i])
                    \/ IsReported(sys, sys', sys.events[i], replied')]_vars
  <2>1. Reported(sys, sys', replied') /\ sys \in SysType
    BY <1>1, NextSound DEF IInv, Sound
  <2>2. DOMAIN sys.events = 1 .. Len(sys.events)
    BY <2>1, ListLength
  <2> QED BY <2>1, <2>2 DEF Reported
<1> QED BY <1>1, WebSound, PTL DEF Spec, FailureReported

\* An event that starts or stops a job waits for it: an event that makes the job's
\* start on or stop on true is blocked by the job when event_pending_handle_jobs() is
\* done with its class, it stays so until the job is running (a task: has ended) or has
\* stopped, fails or is told otherwise, and no job goes on from starting or stopping
\* while the event it emitted waits for a job.
THEOREM EventsWaitForJobs == Spec => JobEventsWait
<1> DEFINE Inv == IInv /\ Unsatisfied(sys) /\ Toward(sys)
<1>1. Init => Inv
  <2> SUFFICES ASSUME Init PROVE Inv
    OBVIOUS
  <2>1. sys.held = {} /\ sys.blocking = {}
    BY DEF Init
  <2>2. \A j \in Jobs, tree \in Trees : ~Satisfied(sys, j, tree)
    BY <2>1, ResetFalse DEF RefsOf
  <2> QED BY <2>1, <2>2, InitSound DEF Unsatisfied, Toward
<1>2. Inv /\ [Next]_vars =>
        Inv' /\ [\A j \in Jobs : BeginsToWait(j) /\ WaitsOn(j) /\ GoesOnAlone(j)]_vars
  <2> SUFFICES ASSUME Inv, [Next]_vars
               PROVE  Inv' /\ (Waiting \/ UNCHANGED vars)
    BY DEF Waiting
  <2>1. IInv'
    BY NextSound
  <2>2. Unsatisfied(sys') /\ Toward(sys') /\ (Waiting \/ UNCHANGED vars)
    BY StepWaits
  <2>3. Unsatisfied(sys)' /\ Toward(sys)'
    BY <2>2 DEF Unsatisfied, Toward, Satisfied, Value
  <2> QED BY <2>1, <2>2, <2>3
<1> QED BY <1>1, <1>2, PTL DEF Spec, JobEventsWait
=============================================================================
