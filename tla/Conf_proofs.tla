---------------------------- MODULE Conf_proofs ----------------------------
(***************************************************************************)
(* Proofs about Conf, for any number of directories, texts, events and     *)
(* instances, when every override parses.  (An override that does not      *)
(* parse takes the class away from its ConfFile: see conf_parse_error.)    *)
(*                                                                         *)
(* The three properties of the tables of startup support each other:       *)
(* which classes are allocated, that the registered class is the best one  *)
(* or has instances, and that no other class has any.  What they lack to   *)
(* be inductive is that no two ConfFiles share a class and that exactly    *)
(* the classes without a ConfFile are marked as deleted.                   *)
(*                                                                         *)
(* That the ConfFiles follow the disk needs a second invariant, PInv, on   *)
(* what is still to come: every source whose ConfFile is not what the disk *)
(* says has a notification queued, a call to be made or no watch.  It      *)
(* rests on the order of things: a queue's last word on a file is true,    *)
(* the sources a reload has not come to are its last calls, and a ConfFile *)
(* that is about to be swept is loaded before if its file is there.        *)
(***************************************************************************)
EXTENDS Conf, WellFoundedInduction, TLAPS

OverridesParse == OverrideTexts \cap BadTexts = {}

\* No override has a `start on`: one that has forgets the events matched so far.
OverridesKeepStartOn == \A t \in OverrideTexts : StartOn[t] = NoStanza

ClassType ==
  [conf : ConfTexts \cup {None}, over : OverrideTexts \cup {None},
   startOn : SUBSET EventNames, matched : SUBSET EventNames,
   instances : SUBSET InstanceNames, deleted : BOOLEAN]

\* What startup keeps, as a record of four fields.
Typed(x) ==
  /\ x = [class |-> x.class, file |-> x.file, stale |-> x.stale, registered |-> x.registered]
  /\ x.class = [c \in DOMAIN x.class |-> x.class[c]]
  /\ DOMAIN x.class \subseteq ClassIds
  /\ \A c \in DOMAIN x.class : x.class[c] \in ClassType
  /\ x.file \in [Sources -> ClassIds \cup {NoFile, NoJob}]
  /\ x.stale \subseteq Sources
  /\ x.registered \in ClassIds \cup {None}

DiskTyped ==
  disk \in [dir : [Sources -> BOOLEAN], conf : [Sources -> ConfTexts \cup {None}],
            over : [Sources -> OverrideTexts \cup {None}]]

\* The class of a ConfFile.
Attached(x, c) == \E s \in Sources : x.file[s] = c

\* No two ConfFiles have the same class.
Distinct(x) ==
  \A s, r \in Sources : x.file[s] \in ClassIds /\ x.file[s] = x.file[r] => s = r

Accounted(x) ==
  \A c \in ClassIds : c \in DOMAIN x.class <=> Attached(x, c) \/ c = x.registered

Reachable(x) ==
  \A c \in DOMAIN x.class : x.class[c].instances # {} => x.registered = c

\* A class is marked as deleted when its ConfFile goes.
Marked(x) ==
  \A c \in DOMAIN x.class : x.class[c].deleted <=> ~Attached(x, c)

Best(x) ==
  \/ x.registered = ConfSelectJob(x)
  \/ x.registered # None /\ x.class[x.registered].instances # {}

Sound(x) ==
  Typed(x) /\ Distinct(x) /\ Accounted(x) /\ Reachable(x) /\ Marked(x) /\ Best(x)

IInv == DiskTyped /\ Sound(k)

-----------------------------------------------------------------------------
\* Every set of numbers has a least one.
LEMMA HasLeast ==
  ASSUME NEW S \in SUBSET Nat, S # {}
  PROVE  \E m \in S : \A n \in S : m <= n
<1>1. IsWellFoundedOn(OpToRel(<, Nat), Nat)
  BY NatLessThanWellFounded
<1>2. PICK m \in S : \A n \in S : ~(<<n, m>> \in OpToRel(<, Nat))
  BY <1>1, WFMin
<1>3. ASSUME NEW n \in S PROVE m <= n
  <2>1. ~(<<n, m>> \in OpToRel(<, Nat))
    BY <1>2
  <2>2. ~(n < m)
    BY <2>1 DEF OpToRel
  <2> QED BY <2>2
<1> QED BY <1>3

\* conf_select_job() finds the class of the first source that has one.
LEMMA Selects ==
  ASSUME NEW x
  PROVE  \/ /\ ConfSelectJob(x) = None
            /\ \A s \in Sources : x.file[s] \notin ClassIds
         \/ \E s \in Sources : /\ x.file[s] \in ClassIds /\ ConfSelectJob(x) = x.file[s]
                               /\ \A r \in Sources : x.file[r] \in ClassIds => s <= r
<1>1. CASE Candidates(x) = {}
  BY <1>1 DEF ConfSelectJob, Candidates
<1>2. CASE Candidates(x) # {}
  <2>1. Candidates(x) \in SUBSET Nat /\ Candidates(x) \subseteq Sources
    BY ConfAssumption DEF Candidates, Sources
  <2>2. \E s \in Candidates(x) : \A r \in Candidates(x) : s <= r
    BY <1>2, <2>1, HasLeast
  <2> DEFINE s == CHOOSE s \in Candidates(x) : \A r \in Candidates(x) : s <= r
  <2>3. s \in Candidates(x) /\ \A r \in Candidates(x) : s <= r
    BY <2>2
  <2>4. ConfSelectJob(x) = x.file[s]
    BY <1>2 DEF ConfSelectJob
  <2> HIDE DEF s
  <2> QED BY <2>1, <2>3, <2>4 DEF Candidates
<1> QED BY <1>1, <1>2

\* It looks at the ConfFiles only.
LEMMA SameFilesSameJob ==
  ASSUME NEW x, NEW y, x.file = y.file
  PROVE  ConfSelectJob(x) = ConfSelectJob(y)
BY DEF ConfSelectJob, Candidates

\* What is selected stays selected when a ConfFile with another class, or none,
\* goes.
LEMMA OtherFileGoes ==
  ASSUME NEW x, NEW y, NEW s \in Sources, y.file[s] \notin ClassIds,
         \A r \in Sources \ {s} : y.file[r] = x.file[r],
         ConfSelectJob(x) # x.file[s] \/ x.file[s] \notin ClassIds
  PROVE  ConfSelectJob(y) = ConfSelectJob(x)
<1>1. \A r \in Sources : r \in Nat
  BY ConfAssumption DEF Sources
<1>2. CASE \A r \in Sources : x.file[r] \notin ClassIds
  <2>1. \A r \in Sources : y.file[r] \notin ClassIds
    BY <1>2
  <2> QED BY <1>2, <2>1, Selects
<1>3. CASE \E r \in Sources : x.file[r] \in ClassIds
  <2>1. PICK r \in Sources : /\ x.file[r] \in ClassIds /\ ConfSelectJob(x) = x.file[r]
                             /\ \A q \in Sources : x.file[q] \in ClassIds => r <= q
    BY <1>3, Selects
  <2>2. r # s
    BY <2>1
  <2>3. y.file[r] = x.file[r] /\ y.file[r] \in ClassIds
    BY <2>1, <2>2
  <2>4. PICK t \in Sources : /\ y.file[t] \in ClassIds /\ ConfSelectJob(y) = y.file[t]
                             /\ \A q \in Sources : y.file[q] \in ClassIds => t <= q
    BY <2>3, Selects
  <2>5. t # s /\ y.file[t] = x.file[t]
    BY <2>4
  <2>6. t <= r /\ r <= t
    BY <2>1, <2>3, <2>4, <2>5
  <2>7. t = r
    BY <1>1, <2>6
  <2> QED BY <2>1, <2>4, <2>5, <2>7
<1> QED BY <1>2, <1>3

-----------------------------------------------------------------------------
(* What the operators on the tables leave and what they change *)

\* A class is given another content.
ClassSet(x, c, r) == [x EXCEPT !.class = [x.class EXCEPT ![c] = r]]

\* It changes in nothing else, and no other class does.
LEMMA ClassSetTyped ==
  ASSUME NEW x, Typed(x), NEW c \in DOMAIN x.class, NEW r \in ClassType,
         NEW y, y = ClassSet(x, c, r)
  PROVE  /\ Typed(y) /\ y.file = x.file /\ y.stale = x.stale
         /\ y.registered = x.registered /\ DOMAIN y.class = DOMAIN x.class
         /\ y.class[c] = r /\ \A d \in DOMAIN x.class \ {c} : y.class[d] = x.class[d]
<1>1. /\ y.file = x.file /\ y.stale = x.stale /\ y.registered = x.registered
      /\ y.class = [x.class EXCEPT ![c] = r]
      /\ y = [class |-> y.class, file |-> y.file, stale |-> y.stale, registered |-> y.registered]
  BY DEF Typed, ClassSet
<1>2. /\ DOMAIN y.class = DOMAIN x.class
      /\ y.class[c] = r /\ \A d \in DOMAIN x.class \ {c} : y.class[d] = x.class[d]
      /\ y.class = [d \in DOMAIN y.class |-> y.class[d]]
  BY <1>1
<1>3. Typed(y)
  BY <1>1, <1>2 DEF Typed
<1> QED BY <1>1, <1>2, <1>3

\* Members of a class that has been changed in another.
LEMMA Members ==
  ASSUME NEW r \in ClassType
  PROVE  /\ \A m \in BOOLEAN : LET q == [r EXCEPT !.deleted = m]
                               IN /\ q \in ClassType /\ q.deleted = m /\ q.instances = r.instances
                                  /\ q.startOn = r.startOn /\ q.matched = r.matched
         /\ \A m \in SUBSET EventNames : LET q == [r EXCEPT !.matched = m]
                               IN /\ q \in ClassType /\ q.deleted = r.deleted
                                  /\ q.instances = r.instances
                                  /\ q.startOn = r.startOn /\ q.matched = m
                                  /\ q.conf = r.conf /\ q.over = r.over
         /\ \A m \in SUBSET InstanceNames : LET q == [r EXCEPT !.instances = m]
                               IN /\ q \in ClassType /\ q.deleted = r.deleted /\ q.instances = m
                                  /\ q.startOn = r.startOn /\ q.matched = r.matched
                                  /\ q.conf = r.conf /\ q.over = r.over
<1>1. ASSUME NEW m \in BOOLEAN
      PROVE  LET q == [r EXCEPT !.deleted = m]
             IN /\ q \in ClassType /\ q.deleted = m /\ q.instances = r.instances
                /\ q.startOn = r.startOn /\ q.matched = r.matched
  BY DEF ClassType
<1>2. ASSUME NEW m \in SUBSET EventNames
      PROVE  LET q == [r EXCEPT !.matched = m]
             IN /\ q \in ClassType /\ q.deleted = r.deleted /\ q.instances = r.instances
                /\ q.startOn = r.startOn /\ q.matched = m
                /\ q.conf = r.conf /\ q.over = r.over
  BY DEF ClassType
<1>3. ASSUME NEW m \in SUBSET InstanceNames
      PROVE  LET q == [r EXCEPT !.instances = m]
             IN /\ q \in ClassType /\ q.deleted = r.deleted /\ q.instances = m
                /\ q.startOn = r.startOn /\ q.matched = r.matched
                /\ q.conf = r.conf /\ q.over = r.over
  BY DEF ClassType
<1> QED BY <1>1, <1>2, <1>3

\* Another class is registered.
LEMMA RegisteredSet ==
  ASSUME NEW x, Typed(x), NEW c \in ClassIds \cup {None}
  PROVE  LET y == [x EXCEPT !.registered = c]
         IN /\ Typed(y) /\ y.file = x.file /\ y.stale = x.stale
            /\ y.registered = c /\ y.class = x.class
<1> DEFINE y == [x EXCEPT !.registered = c]
<1>1. /\ y.file = x.file /\ y.stale = x.stale /\ y.registered = c /\ y.class = x.class
      /\ y = [class |-> y.class, file |-> y.file, stale |-> y.stale, registered |-> y.registered]
  BY DEF Typed
<1> HIDE DEF y
<1>2. Typed(y)
  BY <1>1 DEF Typed
<1> QED BY <1>1, <1>2 DEF y

\* A ConfFile is given a class, or none.
LEMMA FileSet ==
  ASSUME NEW x, Typed(x), NEW s \in Sources, NEW f \in ClassIds \cup {NoFile, NoJob}
  PROVE  LET y == [x EXCEPT !.file[s] = f]
         IN /\ Typed(y) /\ y.stale = x.stale /\ y.registered = x.registered /\ y.class = x.class
            /\ y.file[s] = f /\ \A r \in Sources \ {s} : y.file[r] = x.file[r]
<1> DEFINE y == [x EXCEPT !.file[s] = f]
<1>1. /\ y.stale = x.stale /\ y.registered = x.registered /\ y.class = x.class
      /\ y.file = [x.file EXCEPT ![s] = f]
      /\ y = [class |-> y.class, file |-> y.file, stale |-> y.stale, registered |-> y.registered]
  BY DEF Typed
<1> HIDE DEF y
<1>2. /\ y.file[s] = f /\ \A r \in Sources \ {s} : y.file[r] = x.file[r]
      /\ y.file \in [Sources -> ClassIds \cup {NoFile, NoJob}]
  BY <1>1 DEF Typed
<1>3. Typed(y)
  BY <1>1, <1>2 DEF Typed
<1> QED BY <1>1, <1>2, <1>3 DEF y

\* A ConfFile is taken out of the table.
LEMMA Unlinked ==
  ASSUME NEW x, Typed(x), NEW s \in Sources
  PROVE  LET y == Unlink(x, s)
         IN /\ Typed(y) /\ y.registered = x.registered /\ y.class = x.class
            /\ y.file[s] = NoFile /\ \A r \in Sources \ {s} : y.file[r] = x.file[r]
            /\ y.stale = x.stale \ {s}
<1> DEFINE y == Unlink(x, s)
<1>0. y = [class |-> x.class, file |-> [x.file EXCEPT ![s] = NoFile], stale |-> x.stale \ {s},
           registered |-> x.registered]
  <2> DEFINE z == [x EXCEPT !.file[s] = NoFile]
  <2>1. z = [class |-> x.class, file |-> [x.file EXCEPT ![s] = NoFile], stale |-> x.stale,
             registered |-> x.registered]
    BY DEF Typed
  <2>2. y = [z EXCEPT !.stale = x.stale \ {s}]
    BY Zenon DEF Unlink
  <2> HIDE DEF z
  <2> QED BY <2>1, <2>2
<1> HIDE DEF y
<1>1. /\ y.stale = x.stale \ {s} /\ y.registered = x.registered /\ y.class = x.class
      /\ y.file = [x.file EXCEPT ![s] = NoFile]
      /\ y = [class |-> y.class, file |-> y.file, stale |-> y.stale, registered |-> y.registered]
  BY <1>0
<1>2. /\ y.file[s] = NoFile /\ \A r \in Sources \ {s} : y.file[r] = x.file[r]
      /\ y.file \in [Sources -> ClassIds \cup {NoFile, NoJob}]
  BY <1>1 DEF Typed
<1>3. Typed(y)
  BY <1>1, <1>2 DEF Typed
<1> QED BY <1>1, <1>2, <1>3 DEF y

\* A class is allocated at an address that is not in use.
LEMMA Allocated ==
  ASSUME NEW x, Typed(x), NEW c \in ClassIds, c \notin DOMAIN x.class, NEW r \in ClassType
  PROVE  LET y == Allocate(x, c, r)
         IN /\ Typed(y) /\ y.registered = x.registered /\ y.file = x.file /\ y.stale = x.stale
            /\ DOMAIN y.class = DOMAIN x.class \cup {c}
            /\ y.class[c] = r /\ \A d \in DOMAIN x.class : y.class[d] = x.class[d]
<1> DEFINE y == Allocate(x, c, r)
<1>1. /\ y.stale = x.stale /\ y.registered = x.registered /\ y.file = x.file
      /\ y.class = [d \in DOMAIN x.class \cup {c} |-> IF d = c THEN r ELSE x.class[d]]
      /\ y = [class |-> y.class, file |-> y.file, stale |-> y.stale, registered |-> y.registered]
  BY DEF Typed, Allocate
<1> HIDE DEF y
<1>2. /\ DOMAIN y.class = DOMAIN x.class \cup {c}
      /\ y.class[c] = r /\ \A d \in DOMAIN x.class : y.class[d] = x.class[d]
      /\ y.class = [d \in DOMAIN y.class |-> y.class[d]]
  BY <1>1
<1>3. Typed(y)
  BY <1>1, <1>2 DEF Typed
<1> QED BY <1>1, <1>2, <1>3 DEF y

\* A class is freed.
LEMMA FreedClass ==
  ASSUME NEW x, Typed(x), NEW c
  PROVE  LET y == Free(x, c)
         IN /\ Typed(y) /\ y.registered = x.registered /\ y.file = x.file /\ y.stale = x.stale
            /\ DOMAIN y.class = DOMAIN x.class \ {c}
            /\ \A d \in DOMAIN x.class \ {c} : y.class[d] = x.class[d]
<1> DEFINE y == Free(x, c)
<1>1. /\ y.stale = x.stale /\ y.registered = x.registered /\ y.file = x.file
      /\ y.class = [d \in DOMAIN x.class \ {c} |-> x.class[d]]
      /\ y = [class |-> y.class, file |-> y.file, stale |-> y.stale, registered |-> y.registered]
  BY DEF Typed, Free
<1> HIDE DEF y
<1>2. /\ DOMAIN y.class = DOMAIN x.class \ {c}
      /\ \A d \in DOMAIN x.class \ {c} : y.class[d] = x.class[d]
      /\ y.class = [d \in DOMAIN y.class |-> y.class[d]]
  BY <1>1
<1>3. Typed(y)
  BY <1>1, <1>2 DEF Typed
<1> QED BY <1>1, <1>2, <1>3 DEF y

-----------------------------------------------------------------------------
(* Job classes *)

\* Two states of the tables that differ only in the events that classes have matched.
Alike(x, y) ==
  /\ Typed(y) /\ y.file = x.file /\ y.stale = x.stale /\ DOMAIN y.class = DOMAIN x.class
  /\ \A c \in DOMAIN x.class : /\ y.class[c].instances = x.class[c].instances
                               /\ y.class[c].deleted = x.class[c].deleted
                               /\ y.class[c].startOn = x.class[c].startOn
                               /\ y.class[c].conf = x.class[c].conf
                               /\ y.class[c].over = x.class[c].over

\* A class is given another set of matched events.
Matching(x, c, m) == [x EXCEPT !.class[c].matched = m]

\* Nothing else changes.
LEMMA MatchedSet ==
  ASSUME NEW x, Typed(x), NEW c \in DOMAIN x.class, NEW m \in SUBSET EventNames,
         NEW y, y = Matching(x, c, m)
  PROVE  /\ Alike(x, y) /\ y.registered = x.registered /\ y.class[c].matched = m
         /\ \A d \in DOMAIN x.class \ {c} : y.class[d] = x.class[d]
<1> DEFINE r == [x.class[c] EXCEPT !.matched = m]
<1>1. y = ClassSet(x, c, r)
  BY DEF Typed, ClassSet, Matching
<1>2. x.class[c] \in ClassType
  BY DEF Typed
<1>3. /\ r \in ClassType /\ r.deleted = x.class[c].deleted
      /\ r.instances = x.class[c].instances /\ r.startOn = x.class[c].startOn /\ r.matched = m
      /\ r.conf = x.class[c].conf /\ r.over = x.class[c].over
  BY <1>2, Members
<1> HIDE DEF r
<1>4. /\ Typed(y) /\ y.file = x.file /\ y.stale = x.stale /\ y.registered = x.registered
      /\ DOMAIN y.class = DOMAIN x.class /\ y.class[c] = r
      /\ \A d \in DOMAIN x.class \ {c} : y.class[d] = x.class[d]
  BY <1>1, <1>3, ClassSetTyped
<1>5. Alike(x, y)
  BY <1>3, <1>4 DEF Alike
<1> QED BY <1>3, <1>4, <1>5

\* job_class_event_block() hands matched events over and changes nothing else.
LEMMA EventBlock ==
  ASSUME NEW x, Typed(x), NEW old \in DOMAIN x.class, NEW new \in DOMAIN x.class
  PROVE  LET y == JobClassEventBlock(x, old, new)
         IN /\ Alike(x, y) /\ y.registered = x.registered
            /\ x.class[old].instances = {} =>
                 x.class[old].matched \cap x.class[new].startOn \subseteq y.class[new].matched
<1>1. x.class[old] \in ClassType /\ x.class[new] \in ClassType
  BY DEF Typed
<1>2. CASE x.class[old].instances # {}
  BY <1>2 DEF JobClassEventBlock, Alike
<1>3. CASE x.class[old].instances = {}
  <2> DEFINE m == x.class[new].matched \cup (x.class[old].matched \cap x.class[new].startOn)
             y == Matching(x, new, m)
  <2>1. m \in SUBSET EventNames
    BY <1>1 DEF ClassType
  <2>2. x.class[old].matched \cap x.class[new].startOn \subseteq m
    OBVIOUS
  <2>3. JobClassEventBlock(x, old, new) = y
    BY <1>3 DEF JobClassEventBlock, Matching
  <2> HIDE DEF m
  <2>4. Alike(x, y) /\ y.registered = x.registered /\ y.class[new].matched = m
    BY <2>1, MatchedSet
  <2> QED BY <2>2, <2>3, <2>4
<1> QED BY <1>2, <1>3

\* job_class_consider() registers the best class unless the registered one has
\* instances.
LEMMA Considered ==
  ASSUME NEW x, Typed(x), ConfSelectJob(x) \in DOMAIN x.class,
         x.registered \in DOMAIN x.class \cup {None}
  PROVE  LET y    == JobClassConsider(x)
             best == ConfSelectJob(x)
             keep == x.registered # None /\ x.class[x.registered].instances # {}
         IN /\ Alike(x, y)
            /\ y.registered = IF keep THEN x.registered ELSE best
            /\ x.registered \notin {None, best} /\ ~keep =>
                 x.class[x.registered].matched \cap x.class[best].startOn
                   \subseteq y.class[best].matched
            /\ x.registered \in {None, best} => y.class = x.class
<1> DEFINE best == ConfSelectJob(x)
           reg  == x.registered
           b    == JobClassEventBlock(x, reg, best)
           y    == JobClassConsider(x)
           keep == reg # None /\ x.class[reg].instances # {}
<1>1. best # None /\ best \in ClassIds
  BY ConfAssumption DEF Typed
<1>2. CASE reg = best
  <2>1. y = x
    BY <1>1, <1>2 DEF JobClassConsider
  <2> QED BY <1>2, <2>1 DEF Alike
<1>3. CASE reg = None
  <2>1. y = [x EXCEPT !.registered = best]
    BY <1>1, <1>3 DEF JobClassConsider
  <2>2. /\ Typed(y) /\ y.file = x.file /\ y.registered = best /\ y.class = x.class
        /\ y.stale = x.stale
    BY <1>1, <2>1, RegisteredSet
  <2> QED BY <1>3, <2>2 DEF Alike
<1>4. CASE reg # best /\ reg # None
  <2>1. /\ Alike(x, b) /\ b.registered = reg
        /\ x.class[reg].instances = {} =>
             x.class[reg].matched \cap x.class[best].startOn \subseteq b.class[best].matched
    BY <1>4, EventBlock
  <2>2. CASE keep
    <3>1. y = Matching(b, best, {})
      BY <1>4, <2>2 DEF JobClassConsider, Matching
    <3> HIDE DEF b
    <3>2. Alike(b, y) /\ y.registered = b.registered
      <4>1. Typed(b) /\ best \in DOMAIN b.class /\ {} \in SUBSET EventNames
        BY <2>1 DEF Alike
      <4> QED BY <3>1, <4>1, MatchedSet
    <3>3. Alike(x, y)
      BY <2>1, <3>2 DEF Alike
    <3> QED BY <1>4, <2>1, <2>2, <3>2, <3>3
  <2>3. CASE ~keep
    <3>1. y = [b EXCEPT !.registered = best]
      BY <1>4, <2>3 DEF JobClassConsider
    <3> HIDE DEF b
    <3>2. /\ Typed(y) /\ y.file = b.file /\ y.registered = best /\ y.class = b.class
          /\ y.stale = b.stale
      BY <1>1, <2>1, <3>1, RegisteredSet DEF Alike
    <3>3. Alike(x, y)
      BY <2>1, <3>2 DEF Alike
    <3> QED BY <1>4, <2>1, <2>3, <3>2, <3>3
  <2> QED BY <2>2, <2>3
<1> QED BY <1>2, <1>3, <1>4

-----------------------------------------------------------------------------
(* ConfFiles that come and go *)

\* Sound but for class f, whose ConfFile has just been taken out of the table.
Loose(x, f) ==
  /\ Typed(x) /\ Distinct(x) /\ Reachable(x)
  /\ f \in ClassIds => ~Attached(x, f)
  /\ \A c \in ClassIds : c \in DOMAIN x.class <=> Attached(x, c) \/ c = x.registered \/ c = f
  /\ \A c \in DOMAIN x.class \ {f} : x.class[c].deleted <=> ~Attached(x, c)
  /\ Best(x) \/ (f \in ClassIds /\ x.registered = f)

\* What is selected has a ConfFile.
LEMMA SelectedAttached ==
  ASSUME NEW x
  PROVE  /\ ConfSelectJob(x) \in ClassIds => Attached(x, ConfSelectJob(x))
         /\ ConfSelectJob(x) \in ClassIds \cup {None}
         /\ \A s \in Sources : x.file[s] \in ClassIds => ConfSelectJob(x) \in ClassIds
BY Selects, ConfAssumption DEF Attached

\* What the end of a ConfFile with class f leaves as it was.
Destroyed(x, f, y) ==
  /\ DOMAIN y.class \subseteq DOMAIN x.class /\ y.file = x.file /\ y.stale = x.stale
  /\ \A c \in DOMAIN x.class \ {f} : c \in DOMAIN y.class /\ y.class[c] = x.class[c]
  /\ x.registered # f \/ x.class[f].instances # {} => y.registered = x.registered

\* A class without a ConfFile is marked, and freed unless it has instances:
\* conf_file_destroy() leaves the tables sound.
LEMMA DestroySound ==
  ASSUME NEW x, NEW f, Loose(x, f)
  PROVE  Sound(ConfFileDestroy(x, f)) /\ Destroyed(x, f, ConfFileDestroy(x, f))
<1>1. CASE f \notin ClassIds
  <2>1. ConfFileDestroy(x, f) = x
    BY <1>1 DEF ConfFileDestroy
  <2>2. Accounted(x) /\ Marked(x) /\ Best(x)
    BY <1>1 DEF Loose, Accounted, Marked, Typed
  <2> QED BY <2>1, <2>2 DEF Loose, Sound, Destroyed
<1>2. CASE f \in ClassIds
  <2> DEFINE r == [x.class[f] EXCEPT !.deleted = TRUE]
             d == [x EXCEPT !.class[f].deleted = TRUE]
  <2>1. Typed(x) /\ f \in DOMAIN x.class /\ x.class[f] \in ClassType /\ ~Attached(x, f)
    BY <1>2 DEF Loose, Typed
  <2>2. d = ClassSet(x, f, r)
    BY <2>1 DEF Typed, ClassSet
  <2>3. r \in ClassType /\ r.deleted = TRUE /\ r.instances = x.class[f].instances
    BY <2>1, Members
  <2>4. ConfFileDestroy(x, f) = IF Unused(d, f) THEN Free(JobClassReconsider(d, f), f) ELSE d
    BY <1>2 DEF ConfFileDestroy
  <2> HIDE DEF r, d
  <2>5. /\ Typed(d) /\ d.file = x.file /\ d.stale = x.stale /\ d.registered = x.registered
        /\ DOMAIN d.class = DOMAIN x.class /\ d.class[f] = r
        /\ \A c \in DOMAIN x.class \ {f} : d.class[c] = x.class[c]
    BY <2>1, <2>2, <2>3, ClassSetTyped
  <2>6. /\ ConfSelectJob(d) = ConfSelectJob(x) /\ ConfSelectJob(d) # f
        /\ \A c : Attached(d, c) <=> Attached(x, c)
    BY <1>2, <2>1, <2>5, SelectedAttached, SameFilesSameJob DEF Attached
  <2>7. CASE x.registered # f
    <3> DEFINE y == Free(d, f)
    <3>1. ConfFileDestroy(x, f) = y
      BY <2>4, <2>5, <2>7 DEF Unused, JobClassReconsider
    <3>2. /\ Typed(y) /\ y.registered = x.registered /\ y.file = x.file /\ y.stale = x.stale
          /\ DOMAIN y.class = DOMAIN x.class \ {f}
          /\ \A c \in DOMAIN x.class \ {f} : y.class[c] = x.class[c]
      BY <2>5, FreedClass
    <3> HIDE DEF y
    <3>3. ConfSelectJob(y) = ConfSelectJob(x) /\ \A c : Attached(y, c) <=> Attached(x, c)
      BY <3>2, SameFilesSameJob DEF Attached
    <3>4. Distinct(y) /\ Reachable(y)
      BY <3>2 DEF Loose, Distinct, Reachable
    <3>5. Accounted(y)
      BY <2>1, <2>7, <3>2, <3>3 DEF Loose, Accounted
    <3>6. Marked(y)
      BY <3>2, <3>3 DEF Loose, Marked
    <3>7. Best(y)
      <4>1. Best(x) /\ (x.registered # None => x.registered \in DOMAIN x.class \ {f})
        BY <2>7 DEF Loose, Typed
      <4> QED BY <3>2, <3>3, <4>1 DEF Best
    <3>8. Destroyed(x, f, y)
      BY <3>2 DEF Destroyed
    <3> QED BY <3>1, <3>2, <3>4, <3>5, <3>6, <3>7, <3>8 DEF Sound
  <2>8. CASE x.registered = f /\ x.class[f].instances = {}
    <3> DEFINE best == ConfSelectJob(d)
               e == [d EXCEPT !.registered = best]
               y == Free(e, f)
    <3>1. ConfFileDestroy(x, f) = y
      BY <2>3, <2>4, <2>5, <2>6, <2>8 DEF Unused, JobClassReconsider
    <3>2. best \in ClassIds \cup {None}
      BY SelectedAttached
    <3>3. /\ Typed(e) /\ e.file = x.file /\ e.registered = best /\ e.class = d.class
          /\ e.stale = x.stale
      BY <2>5, <3>2, RegisteredSet
    <3> HIDE DEF e
    <3>4. /\ Typed(y) /\ y.registered = best /\ y.file = x.file /\ y.stale = x.stale
          /\ DOMAIN y.class = DOMAIN x.class \ {f}
          /\ \A c \in DOMAIN x.class \ {f} : y.class[c] = x.class[c]
      BY <2>5, <3>3, FreedClass
    <3> HIDE DEF y
    <3>5. ConfSelectJob(y) = best /\ \A c : Attached(y, c) <=> Attached(x, c)
      BY <2>5, <3>4, SameFilesSameJob DEF Attached
    <3>6. Distinct(y)
      BY <3>4 DEF Loose, Distinct
    <3>7. Reachable(y)
      BY <2>8, <3>4 DEF Loose, Reachable
    <3>8. Accounted(y)
      BY <2>1, <2>6, <2>8, <3>4, <3>5, SelectedAttached DEF Loose, Accounted
    <3>9. Marked(y)
      BY <3>4, <3>5 DEF Loose, Marked
    <3>10. Best(y)
      BY <3>4, <3>5 DEF Best
    <3>11. Destroyed(x, f, y)
      BY <2>8, <3>4 DEF Destroyed
    <3> QED BY <3>1, <3>4, <3>6, <3>7, <3>8, <3>9, <3>10, <3>11 DEF Sound
  <2>9. CASE x.registered = f /\ x.class[f].instances # {}
    <3>1. ConfFileDestroy(x, f) = d
      BY <2>3, <2>4, <2>5, <2>9 DEF Unused
    <3>2. f # None
      BY <1>2, ConfAssumption
    <3>3. Distinct(d)
      BY <2>5 DEF Loose, Distinct
    <3>4. Reachable(d)
      BY <2>3, <2>5, <2>9 DEF Loose, Reachable
    <3>5. Accounted(d)
      BY <2>5, <2>6, <2>9 DEF Loose, Accounted
    <3>6. Marked(d)
      BY <2>1, <2>3, <2>5, <2>6 DEF Loose, Marked
    <3>7. Best(d)
      BY <2>3, <2>5, <2>9, <3>2 DEF Best
    <3>8. Destroyed(x, f, d)
      BY <2>5 DEF Destroyed
    <3> QED BY <2>5, <3>1, <3>3, <3>4, <3>5, <3>6, <3>7, <3>8 DEF Sound
  <2> QED BY <2>7, <2>8, <2>9
<1> QED BY <1>1, <1>2

\* A ConfFile loses its class, or goes.
LEMMA FileGone ==
  ASSUME NEW x, Sound(x), NEW s \in Sources, NEW y, Typed(y),
         y.registered = x.registered, y.class = x.class, y.file[s] \in {NoFile, NoJob},
         \A r \in Sources \ {s} : y.file[r] = x.file[r]
  PROVE  Loose(y, x.file[s])
<1> DEFINE f == x.file[s]
<1>1. /\ Typed(x) /\ Distinct(x) /\ Accounted(x) /\ Reachable(x) /\ Marked(x) /\ Best(x)
  BY DEF Sound
<1>2. y.file[s] \notin ClassIds
  BY ConfAssumption
<1>3. \A c \in ClassIds : Attached(x, c) <=> Attached(y, c) \/ c = f
  BY <1>2 DEF Attached
<1>4. f \in ClassIds => ~Attached(y, f)
  BY <1>1, <1>2 DEF Attached, Distinct
<1>5. Distinct(y) /\ Reachable(y)
  BY <1>1, <1>2 DEF Distinct, Reachable
<1>6. \A c \in ClassIds : c \in DOMAIN y.class <=> Attached(y, c) \/ c = y.registered \/ c = f
  BY <1>1, <1>3 DEF Accounted
<1>7. \A c \in DOMAIN y.class \ {f} : y.class[c].deleted <=> ~Attached(y, c)
  BY <1>1, <1>3 DEF Marked, Typed
<1>8. Best(y) \/ (f \in ClassIds /\ y.registered = f)
  <2>1. CASE x.registered # None /\ x.class[x.registered].instances # {}
    BY <2>1 DEF Best
  <2>2. CASE x.registered = ConfSelectJob(x) /\ ConfSelectJob(x) = f /\ f \in ClassIds
    BY <2>2
  <2>3. CASE x.registered = ConfSelectJob(x) /\ (ConfSelectJob(x) # f \/ f \notin ClassIds)
    <3>1. ConfSelectJob(y) = ConfSelectJob(x)
      BY <1>2, <2>3, OtherFileGoes
    <3> QED BY <2>3, <3>1 DEF Best
  <2> QED BY <1>1, <2>1, <2>2, <2>3 DEF Best
<1> QED BY <1>4, <1>5, <1>6, <1>7, <1>8 DEF Loose

\* There is an address for a new class.
LEMMA FreshAddress ==
  ASSUME NEW x, Sound(x)
  PROVE  Fresh(x) \in ClassIds /\ Fresh(x) \notin DOMAIN x.class
<1> DEFINE f == [s \in Sources |-> IF x.file[s] \in ClassIds THEN x.file[s] ELSE None]
<1>1. f \in [Sources -> ClassIds \cup {None}] /\ x.registered \in ClassIds \cup {None}
  BY DEF Sound, Typed
<1>2. PICK c \in ClassIds : c # x.registered /\ \A s \in Sources : c # f[s]
  BY <1>1, AddressAssumption
<1>3. c \notin DOMAIN x.class
  BY <1>2 DEF Sound, Accounted, Attached
<1> QED BY <1>2, <1>3 DEF Fresh, Unallocated

\* A class as parse_job() makes it.
LEMMA NewClassType ==
  ASSUME NEW conf \in ConfTexts \cup {None}, NEW over \in OverrideTexts \cup {None},
         NEW on \in (SUBSET EventNames) \cup {NoStanza}
  PROVE  /\ NewClass(conf, over, on) \in ClassType
         /\ NewClass(conf, over, on).instances = {} /\ ~NewClass(conf, over, on).deleted
         /\ NewClass(conf, over, on).startOn = IF on = NoStanza THEN {} ELSE on
         /\ NewClass(conf, over, on).conf = conf /\ NewClass(conf, over, on).over = over
<1> DEFINE t == IF on = NoStanza THEN {} ELSE on
<1>1. t \in SUBSET EventNames
  <2>1. CASE on = NoStanza
    BY <2>1
  <2>2. CASE on # NoStanza
    <3>1. on \in SUBSET EventNames
      BY <2>2, Zenon
    <3> QED BY <2>2, <3>1
  <2> QED BY <2>1, <2>2
<1>2. NewClass(conf, over, on) = [conf |-> conf, over |-> over, startOn |-> t, matched |-> {},
                                  instances |-> {}, deleted |-> FALSE]
  BY Zenon DEF NewClass
<1> HIDE DEF t
<1>3. /\ NewClass(conf, over, on) \in ClassType
      /\ NewClass(conf, over, on).instances = {} /\ ~NewClass(conf, over, on).deleted
      /\ NewClass(conf, over, on).startOn = t
      /\ NewClass(conf, over, on).conf = conf /\ NewClass(conf, over, on).over = over
  BY <1>1, <1>2 DEF ClassType
<1> QED BY <1>3 DEF t

\* The events that the registered class of x had matched and the one of y needs
\* are matched in it.
HandedOver(x, y) ==
  x.class[x.registered].matched \cap y.class[y.registered].startOn
    \subseteq y.class[y.registered].matched

\* The registered class stays, or one with a ConfFile takes its place; the new
\* class c does so with the events matched so far.
TakesOver(x, y, c) ==
  \/ y.registered = x.registered /\ x.registered \in DOMAIN x.class
       /\ x.class[x.registered].instances # {}
  \/ y.registered \in DOMAIN x.class /\ Attached(y, y.registered)
  \/ /\ y.registered = c /\ Attached(y, c)
     /\ x.registered # None => HandedOver(x, y)

\* A ConfFile comes with a new class, which job_class_consider() looks at.
LEMMA FileComes ==
  ASSUME NEW x, Sound(x), NEW s \in Sources, NEW c \in ClassIds, c \notin DOMAIN x.class,
         NEW z, Typed(z), z.registered = x.registered, DOMAIN z.class = DOMAIN x.class \cup {c},
         z.class[c].instances = {}, ~z.class[c].deleted,
         \A d \in DOMAIN x.class : z.class[d] = x.class[d],
         z.file[s] = c, \A r \in Sources \ {s} : z.file[r] = x.file[r]
  PROVE  /\ Loose(JobClassConsider(z), x.file[s])
         /\ Alike(z, JobClassConsider(z))
         /\ TakesOver(x, JobClassConsider(z), c)
<1> DEFINE f == x.file[s]
           y == JobClassConsider(z)
           best == ConfSelectJob(z)
           keep == z.registered # None /\ z.class[z.registered].instances # {}
<1>1. /\ Typed(x) /\ Distinct(x) /\ Accounted(x) /\ Reachable(x) /\ Marked(x) /\ Best(x)
  BY DEF Sound
<1>2. \A r \in Sources : x.file[r] \in ClassIds => x.file[r] \in DOMAIN x.class /\ x.file[r] # c
  BY <1>1 DEF Accounted, Attached
<1>3. \A d \in ClassIds : Attached(z, d) => d \in DOMAIN z.class
  BY <1>2 DEF Attached
<1>4. best \in ClassIds /\ Attached(z, best) /\ best \in DOMAIN z.class
  BY <1>3, SelectedAttached
<1>5. z.registered \in DOMAIN z.class \cup {None}
  BY <1>1 DEF Accounted, Typed
<1>6. Alike(z, y) /\ y.registered = IF keep THEN z.registered ELSE best
  BY <1>4, <1>5, Considered
<1>7. /\ Typed(y) /\ y.file = z.file /\ DOMAIN y.class = DOMAIN x.class \cup {c}
      /\ y.class[c].instances = {} /\ ~y.class[c].deleted
      /\ \A d \in DOMAIN x.class : /\ y.class[d].instances = x.class[d].instances
                                   /\ y.class[d].deleted = x.class[d].deleted
  BY <1>6 DEF Alike
<1> HIDE DEF y, best
<1>8. \A d \in ClassIds : /\ Attached(y, d) <=> Attached(z, d)
                          /\ Attached(z, d) \/ d = f <=> Attached(x, d) \/ d = c
  BY <1>7 DEF Attached
<1>9. f \in ClassIds => ~Attached(y, f)
  <2> SUFFICES ASSUME f \in ClassIds, NEW r \in Sources, y.file[r] = f PROVE FALSE
    BY DEF Attached
  <2>1. r # s
    BY <1>2, <1>7
  <2> QED BY <1>1, <1>7, <2>1 DEF Distinct
<1>10. keep => x.registered \in DOMAIN x.class
  BY <1>1 DEF Accounted, Typed
<1>11. Distinct(y)
  BY <1>1, <1>2, <1>7 DEF Distinct
<1>12. Reachable(y)
  <2> SUFFICES ASSUME NEW d \in DOMAIN y.class, y.class[d].instances # {}
               PROVE  y.registered = d
    BY DEF Reachable
  <2>1. d \in DOMAIN x.class /\ x.class[d].instances # {}
    BY <1>7
  <2>2. x.registered = d /\ d # None
    BY <1>1, <2>1, ConfAssumption DEF Reachable, Typed
  <2> QED BY <1>6, <2>1, <2>2
<1>13. ASSUME NEW d \in ClassIds
       PROVE  d \in DOMAIN y.class <=> Attached(y, d) \/ d = y.registered \/ d = f
  <2>1. d \in DOMAIN y.class <=> Attached(x, d) \/ d = x.registered \/ d = c
    BY <1>1, <1>7 DEF Accounted
  <2>2. CASE keep
    BY <1>6, <1>8, <2>1, <2>2
  <2>3. CASE ~keep
    <3>1. x.registered # None => x.registered \in DOMAIN x.class
      BY <1>1 DEF Accounted, Typed
    <3>2. x.registered = ConfSelectJob(x)
      BY <1>1, <2>3, <3>1 DEF Best
    <3>3. d = x.registered => Attached(x, d)
      BY <3>2, SelectedAttached
    <3>4. Attached(z, y.registered) /\ y.registered = best
      BY <1>4, <1>6, <2>3
    <3> QED BY <1>4, <1>8, <2>1, <3>3, <3>4
  <2> QED BY <2>2, <2>3
<1>14. ASSUME NEW d \in DOMAIN y.class \ {f} PROVE y.class[d].deleted <=> ~Attached(y, d)
  <2>1. d \in ClassIds
    BY <1>7 DEF Typed
  <2>2. CASE d = c
    BY <1>7, <1>8, <2>1, <2>2 DEF Attached
  <2>3. CASE d # c
    BY <1>1, <1>7, <1>8, <2>1, <2>3 DEF Marked
  <2> QED BY <2>2, <2>3
<1>15. Best(y)
  <2>1. ConfSelectJob(y) = best
    BY <1>7, SameFilesSameJob DEF best
  <2>2. CASE keep
    BY <1>6, <1>7, <1>10, <2>2 DEF Best
  <2>3. CASE ~keep
    BY <1>6, <2>1, <2>3 DEF Best
  <2> QED BY <2>2, <2>3
<1>16. Loose(y, f)
  BY <1>7, <1>9, <1>11, <1>12, <1>13, <1>14, <1>15 DEF Loose
<1>17. TakesOver(x, y, c)
  <2>1. CASE keep
    BY <1>6, <1>10, <2>1 DEF TakesOver
  <2>2. CASE ~keep
    <3>1. y.registered = best /\ best \in DOMAIN x.class \cup {c}
      BY <1>4, <1>6, <2>2
    <3>2. CASE best # c
      BY <1>8, <1>4, <3>1, <3>2 DEF TakesOver
    <3>3. CASE best = c /\ x.registered = None
      BY <3>1, <3>3, <1>4, <1>8 DEF TakesOver
    <3>4. CASE best = c /\ x.registered # None
      <4>1. x.registered \in DOMAIN x.class
        BY <1>1, <3>4 DEF Accounted, Typed
      <4>2. z.registered \notin {None, best} /\ z.class[z.registered] = x.class[x.registered]
        BY <3>4, <4>1
      <4>3. z.class[x.registered].matched \cap z.class[best].startOn \subseteq y.class[best].matched
        BY <1>4, <1>5, <2>2, <4>2, Considered DEF best, y
      <4>4. y.class[best].startOn = z.class[best].startOn
        BY <1>4, <1>6 DEF Alike
      <4>5. HandedOver(x, y)
        BY <3>1, <4>1, <4>3, <4>4 DEF HandedOver
      <4> QED BY <1>4, <1>8, <3>1, <3>4, <4>5 DEF TakesOver
    <3> QED BY <3>2, <3>3, <3>4
  <2> QED BY <2>1, <2>2
<1> QED BY <1>6, <1>16, <1>17 DEF y, best

\* No class is new; or the ConfFile has one, which has taken over if it is the
\* registered one.
Reloaded(x, s, y) ==
  \/ DOMAIN y.class \subseteq DOMAIN x.class
  \/ /\ y.file[s] \in ClassIds
     /\ \/ y.registered \in DOMAIN x.class
        \/ /\ y.registered \in DOMAIN y.class /\ y.class[y.registered].instances = {}
           /\ x.registered # None => HandedOver(x, y)

\* The texts of a class.
SameTexts(x, y, c) ==
  y.class[c].conf = x.class[c].conf /\ y.class[c].over = x.class[c].over

\* No source but s has another ConfFile or other texts in it.
OnlyAt(x, s, y) ==
  /\ y.stale = x.stale \ {s}
  /\ \A r \in Sources \ {s} :
       y.file[r] = x.file[r] /\ (x.file[r] \in ClassIds => SameTexts(x, y, x.file[r]))

\* All sources keep their ConfFile and its texts.
SameFiles(x, y) ==
  /\ y.file = x.file /\ y.stale = x.stale
  /\ \A s \in Sources : x.file[s] \in ClassIds => SameTexts(x, y, x.file[s])

\* The ConfFile of s has a class of these texts.
Made(y, s, conf, over) ==
  /\ y.file[s] \in ClassIds
  /\ y.class[y.file[s]].conf = conf /\ y.class[y.file[s]].over = over

\* What becomes of a ConfFile that is read again.
FileRead(x, s, y, conf) ==
  /\ OnlyAt(x, s, y)
  /\ conf = None => y.file[s] = NoFile
  /\ conf # None /\ conf \in BadTexts => y.file[s] = NoJob
  /\ conf # None /\ conf \notin BadTexts => Made(y, s, conf, None)

\* The end of a ConfFile leaves those of the other sources with their texts.
LEMMA DestroyedAt ==
  ASSUME NEW x, Sound(x), NEW s \in Sources, NEW w, NEW y,
         DOMAIN x.class \subseteq DOMAIN w.class, \A c \in DOMAIN x.class : SameTexts(x, w, c),
         w.stale = x.stale \ {s}, \A r \in Sources \ {s} : w.file[r] = x.file[r],
         Destroyed(w, x.file[s], y)
  PROVE  OnlyAt(x, s, y) /\ y.file[s] = w.file[s]
<1>1. y.file = w.file /\ y.stale = w.stale
  BY DEF Destroyed
<1>2. ASSUME NEW r \in Sources \ {s}, x.file[r] \in ClassIds
      PROVE  SameTexts(x, y, x.file[r])
  <2>1. x.file[r] \in DOMAIN x.class /\ x.file[r] # x.file[s]
    BY <1>2 DEF Sound, Accounted, Attached, Distinct
  <2>2. y.class[x.file[r]] = w.class[x.file[r]]
    BY <2>1 DEF Destroyed
  <2> QED BY <2>1, <2>2 DEF SameTexts
<1> QED BY <1>1, <1>2 DEF OnlyAt

\* conf_reload_path() leaves the tables sound whatever it finds on the disk, and
\* makes of the .conf what its text says.
LEMMA ReloadPathSound ==
  ASSUME IInv, NEW x, Sound(x), NEW s \in Sources
  PROVE  /\ Sound(ConfReloadPath(x, s)) /\ Reloaded(x, s, ConfReloadPath(x, s))
         /\ FileRead(x, s, ConfReloadPath(x, s), disk.conf[s])
<1> DEFINE text == disk.conf[s]
           u == Unlink(x, s)
           c == Fresh(x)
<1>1. Typed(x) /\ text \in ConfTexts \cup {None}
  BY DEF Sound, IInv, DiskTyped
<1>2. /\ Typed(u) /\ u.registered = x.registered /\ u.class = x.class
      /\ u.file[s] = NoFile /\ \A r \in Sources \ {s} : u.file[r] = x.file[r]
      /\ u.stale = x.stale \ {s}
  BY <1>1, Unlinked
<1>3. CASE text = None
  <2>1. ConfReloadPath(x, s) = ConfFileDestroy(u, x.file[s])
    BY <1>3 DEF ConfReloadPath
  <2>2. Loose(u, x.file[s])
    BY <1>2, FileGone
  <2> DEFINE y == ConfFileDestroy(u, x.file[s])
  <2> HIDE DEF u
  <2>3. Sound(y) /\ Destroyed(u, x.file[s], y)
    BY <2>2, DestroySound
  <2> HIDE DEF y
  <2>4. OnlyAt(x, s, y) /\ y.file[s] = NoFile
    BY <1>2, <2>3, DestroyedAt DEF SameTexts
  <2>5. FileRead(x, s, y, text)
    BY <1>3, <2>4 DEF FileRead
  <2> QED BY <1>2, <2>1, <2>3, <2>5 DEF Destroyed, Reloaded, y, u
<1>4. CASE text # None /\ text \in BadTexts
  <2> DEFINE y == [u EXCEPT !.file[s] = NoJob]
  <2>1. ConfReloadPath(x, s) = ConfFileDestroy(y, x.file[s])
    BY <1>4 DEF ConfReloadPath
  <2> HIDE DEF u
  <2>2. /\ Typed(y) /\ y.registered = x.registered /\ y.class = x.class
        /\ y.file[s] = NoJob /\ \A r \in Sources \ {s} : y.file[r] = u.file[r]
        /\ y.stale = u.stale
    BY <1>2, FileSet
  <2> HIDE DEF y
  <2>3. Loose(y, x.file[s])
    BY <1>2, <2>2, FileGone
  <2> DEFINE z == ConfFileDestroy(y, x.file[s])
  <2>4. Sound(z) /\ Destroyed(y, x.file[s], z)
    BY <2>3, DestroySound
  <2> HIDE DEF z
  <2>5. OnlyAt(x, s, z) /\ z.file[s] = NoJob
    <3>1. /\ DOMAIN x.class \subseteq DOMAIN y.class /\ \A d \in DOMAIN x.class : SameTexts(x, y, d)
          /\ y.stale = x.stale \ {s} /\ \A r \in Sources \ {s} : y.file[r] = x.file[r]
      BY <1>2, <2>2 DEF SameTexts
    <3> QED BY <2>2, <2>4, <3>1, DestroyedAt
  <2>6. FileRead(x, s, z, text)
    BY <1>4, <2>5 DEF FileRead
  <2> QED BY <2>1, <2>2, <2>4, <2>6 DEF Destroyed, Reloaded, z
<1>5. CASE text # None /\ text \notin BadTexts
  <2> DEFINE new == NewClass(text, None, StartOn[text])
             a == Allocate(u, c, new)
             z == [a EXCEPT !.file[s] = c]
  <2>1. ConfReloadPath(x, s) = ConfFileDestroy(JobClassConsider(z), x.file[s])
    BY <1>5 DEF ConfReloadPath
  <2>2. c \in ClassIds /\ c \notin DOMAIN x.class
    BY FreshAddress
  <2>3. StartOn[text] \in (SUBSET EventNames) \cup {NoStanza}
    BY <1>1, <1>5, ConfAssumption
  <2>4. /\ new \in ClassType /\ new.instances = {} /\ ~new.deleted
        /\ new.conf = text /\ new.over = None
    <3>1. None \in OverrideTexts \cup {None}
      OBVIOUS
    <3> DEFINE on == StartOn[text]
    <3>2. on \in (SUBSET EventNames) \cup {NoStanza} /\ text \in ConfTexts \cup {None}
      BY <1>1, <2>3
    <3> HIDE DEF text, on
    <3>3. /\ NewClass(text, None, on) \in ClassType /\ NewClass(text, None, on).instances = {}
          /\ ~NewClass(text, None, on).deleted
          /\ NewClass(text, None, on).conf = text /\ NewClass(text, None, on).over = None
      BY <3>1, <3>2, NewClassType
    <3> QED BY <3>3 DEF on
  <2> HIDE DEF new, c, u
  <2>5. /\ Typed(a) /\ a.registered = x.registered /\ a.file = u.file /\ a.stale = u.stale
        /\ DOMAIN a.class = DOMAIN x.class \cup {c}
        /\ a.class[c] = new /\ \A d \in DOMAIN x.class : a.class[d] = x.class[d]
    BY <1>2, <2>2, <2>4, Allocated
  <2> HIDE DEF a
  <2>6. /\ Typed(z) /\ z.registered = x.registered /\ z.class = a.class
        /\ z.file[s] = c /\ \A r \in Sources \ {s} : z.file[r] = x.file[r]
        /\ z.stale = a.stale
    BY <1>2, <2>2, <2>5, FileSet
  <2> HIDE DEF z
  <2> DEFINE w == JobClassConsider(z)
             y == ConfFileDestroy(w, x.file[s])
  <2>7. Loose(w, x.file[s]) /\ Alike(z, w) /\ TakesOver(x, w, c)
    <3>1. /\ DOMAIN z.class = DOMAIN x.class \cup {c} /\ z.class[c].instances = {}
          /\ ~z.class[c].deleted /\ \A d \in DOMAIN x.class : z.class[d] = x.class[d]
      BY <2>4, <2>5, <2>6
    <3> QED BY <2>2, <2>6, <3>1, FileComes
  <2>8. Sound(y) /\ Destroyed(w, x.file[s], y)
    BY <2>7, DestroySound
  <2> HIDE DEF w, y
  <2>9. Reloaded(x, s, y)
    <3>1. y.file[s] \in ClassIds
      BY <2>2, <2>6, <2>7, <2>8 DEF Alike, Destroyed
    <3>2. CASE /\ w.registered = x.registered /\ x.registered \in DOMAIN x.class
               /\ x.class[x.registered].instances # {}
      <4>1. w.class[x.registered].instances = x.class[x.registered].instances
        BY <2>5, <2>6, <2>7, <3>2 DEF Alike
      <4>2. y.registered = x.registered
        BY <2>8, <3>2, <4>1 DEF Destroyed
      <4> QED BY <3>1, <3>2, <4>2 DEF Reloaded
    <3>3. CASE Attached(w, w.registered) /\ w.registered \in DOMAIN x.class
      <4>1. w.registered # x.file[s]
        BY <1>1, <2>7, <3>3 DEF Loose, Typed
      <4>2. y.registered = w.registered
        BY <2>8, <4>1 DEF Destroyed
      <4> QED BY <3>1, <3>3, <4>2 DEF Reloaded
    <3>4. CASE /\ Attached(w, c) /\ w.registered = c
               /\ x.registered # None => HandedOver(x, w)
      <4>1. c # x.file[s]
        BY <2>2, <2>7, <3>4 DEF Loose
      <4>2. y.registered = c
        BY <2>8, <3>4, <4>1 DEF Destroyed
      <4>3. c \in DOMAIN w.class /\ w.class[c].instances = {}
        BY <2>4, <2>5, <2>6, <2>7 DEF Alike
      <4>4. c \in DOMAIN y.class /\ y.class[c] = w.class[c]
        BY <2>8, <4>1, <4>3 DEF Destroyed
      <4>5. x.registered # None => HandedOver(x, y)
        BY <3>4, <4>2, <4>4 DEF HandedOver
      <4> QED BY <3>1, <4>2, <4>3, <4>4, <4>5 DEF Reloaded
    <3> QED BY <2>7, <3>2, <3>3, <3>4 DEF TakesOver
  <2>10. FileRead(x, s, y, text)
    <3>1. /\ DOMAIN x.class \subseteq DOMAIN w.class /\ \A d \in DOMAIN x.class : SameTexts(x, w, d)
          /\ w.stale = x.stale \ {s} /\ \A r \in Sources \ {s} : w.file[r] = x.file[r]
          /\ w.file[s] = c /\ c \in DOMAIN w.class
          /\ w.class[c].conf = text /\ w.class[c].over = None
      <4>1. /\ w.file = z.file /\ w.stale = z.stale /\ DOMAIN w.class = DOMAIN z.class
            /\ \A d \in DOMAIN z.class : /\ w.class[d].conf = z.class[d].conf
                                         /\ w.class[d].over = z.class[d].over
        BY <2>7 DEF Alike
      <4>2. /\ z.stale = x.stale \ {s} /\ DOMAIN z.class = DOMAIN x.class \cup {c}
            /\ z.class[c] = new /\ \A d \in DOMAIN x.class : z.class[d] = x.class[d]
        BY <1>2, <2>5, <2>6
      <4> QED BY <2>4, <2>6, <4>1, <4>2 DEF SameTexts
    <3>2. OnlyAt(x, s, y) /\ y.file[s] = c
      BY <2>8, <3>1, DestroyedAt, SMTT(30)
    <3>3. c # x.file[s]
      BY <2>2 DEF Sound, Accounted, Attached
    <3>4. y.class[c] = w.class[c]
      BY <2>8, <3>1, <3>3 DEF Destroyed
    <3> QED BY <1>5, <2>2, <3>1, <3>2, <3>4 DEF FileRead, Made
  <2> QED BY <2>1, <2>8, <2>9, <2>10 DEF w, y
<1> QED BY <1>3, <1>4, <1>5

\* A change of texts and events alone keeps the tables sound.
LEMMA ContentChanges ==
  ASSUME NEW x, Sound(x), NEW y, Typed(y), y.file = x.file, y.registered = x.registered,
         DOMAIN y.class = DOMAIN x.class,
         \A c \in DOMAIN x.class : /\ y.class[c].instances = x.class[c].instances
                                   /\ y.class[c].deleted = x.class[c].deleted
  PROVE  Sound(y)
<1>1. /\ Typed(x) /\ Distinct(x) /\ Accounted(x) /\ Reachable(x) /\ Marked(x) /\ Best(x)
  BY DEF Sound
<1>2. Distinct(y) /\ Accounted(y) /\ Reachable(y)
  BY <1>1 DEF Distinct, Accounted, Attached, Reachable
<1>3. Marked(y)
  BY <1>1 DEF Marked, Attached
<1>4. x.registered # None => x.registered \in DOMAIN x.class
  BY <1>1 DEF Accounted, Typed
<1>5. Best(y)
  BY <1>1, <1>4, SameFilesSameJob DEF Best
<1> QED BY <1>2, <1>3, <1>5 DEF Sound

\* job_class_consider() changes nothing but content when the tables are sound.
LEMMA ConsiderSound ==
  ASSUME NEW x, Sound(x), NEW s \in Sources, x.file[s] \in ClassIds
  PROVE  /\ Sound(JobClassConsider(x)) /\ JobClassConsider(x).registered = x.registered
         /\ Alike(x, JobClassConsider(x))
         /\ x.registered = ConfSelectJob(x) => JobClassConsider(x).class = x.class
<1> DEFINE y == JobClassConsider(x)
<1>1. Typed(x) /\ Accounted(x) /\ Best(x)
  BY DEF Sound
<1>2. ConfSelectJob(x) \in DOMAIN x.class
  BY <1>1, SelectedAttached DEF Accounted
<1>3. x.registered \in DOMAIN x.class \cup {None}
  BY <1>1 DEF Accounted, Typed
<1>4. /\ Alike(x, y)
      /\ y.registered = IF x.registered # None /\ x.class[x.registered].instances # {}
                        THEN x.registered ELSE ConfSelectJob(x)
      /\ x.registered = ConfSelectJob(x) => y.class = x.class
  BY <1>1, <1>2, <1>3, Considered
<1> HIDE DEF y
<1>5. y.registered = x.registered
  BY <1>1, <1>4 DEF Best
<1>6. Sound(y)
  BY <1>4, <1>5, ContentChanges DEF Alike
<1> QED BY <1>4, <1>5, <1>6 DEF y

\* conf_get_best_override() finds the first of the overrides that apply.
LEMMA BestOverrideType ==
  ASSUME IInv, NEW s \in Sources
  PROVE  BestOverride(s) \in OverrideTexts \cup {None}
<1>1. CASE Overriding(s) = {}
  BY <1>1 DEF BestOverride
<1>2. CASE Overriding(s) # {}
  <2>1. Overriding(s) \in SUBSET Nat /\ Overriding(s) \subseteq Sources
    BY ConfAssumption DEF Overriding, Sources
  <2>2. \E r \in Overriding(s) : \A q \in Overriding(s) : r <= q
    BY <1>2, <2>1, HasLeast
  <2> DEFINE r == CHOOSE r \in Overriding(s) : \A q \in Overriding(s) : r <= q
  <2>3. r \in Overriding(s)
    BY <2>2
  <2>4. BestOverride(s) = disk.over[r]
    BY <1>2 DEF BestOverride
  <2> HIDE DEF r
  <2> QED BY <2>1, <2>3, <2>4 DEF IInv, DiskTyped
<1> QED BY <1>1, <1>2

\* The stanzas of an override replace those of the class.
LEMMA OverrideApplied ==
  ASSUME NEW r \in ClassType, NEW over \in OverrideTexts
  PROVE  /\ ApplyOverride(r, over) \in ClassType
         /\ ApplyOverride(r, over).instances = r.instances
         /\ ApplyOverride(r, over).deleted = r.deleted
         /\ ApplyOverride(r, over).conf = r.conf /\ ApplyOverride(r, over).over = over
         /\ StartOn[over] = NoStanza => /\ ApplyOverride(r, over).startOn = r.startOn
                                        /\ ApplyOverride(r, over).matched = r.matched
<1>1. over \in OverrideTexts \cup {None}
  OBVIOUS
<1>2. CASE StartOn[over] = NoStanza
  <2>1. ApplyOverride(r, over) = [r EXCEPT !.over = over]
    BY <1>2 DEF ApplyOverride
  <2> QED BY <1>1, <2>1 DEF ClassType
<1>3. CASE StartOn[over] # NoStanza
  <2> DEFINE on == StartOn[over]
  <2>1. ApplyOverride(r, over) = [r EXCEPT !.over = over, !.startOn = on, !.matched = {}]
    BY <1>3 DEF ApplyOverride
  <2>2. on \in (SUBSET EventNames) \cup {NoStanza}
    BY ConfAssumption
  <2>3. on \in SUBSET EventNames
    BY <1>3, <2>2, Zenon
  <2> HIDE DEF on
  <2>4. [r EXCEPT !.over = over, !.startOn = on, !.matched = {}] \in ClassType
    BY <1>1, <2>3 DEF ClassType
  <2>5. /\ [r EXCEPT !.over = over, !.startOn = on, !.matched = {}].instances = r.instances
        /\ [r EXCEPT !.over = over, !.startOn = on, !.matched = {}].deleted = r.deleted
        /\ [r EXCEPT !.over = over, !.startOn = on, !.matched = {}].conf = r.conf
        /\ [r EXCEPT !.over = over, !.startOn = on, !.matched = {}].over = over
    BY DEF ClassType
  <2> QED BY <1>3, <2>1, <2>4, <2>5
<1> QED BY <1>2, <1>3

\* An override updates the class of the ConfFile, which keeps its events if it is
\* registered and idle; or makes a class that needs none.
OverrideRead(x, s, y) ==
  \/ /\ x.file[s] \in ClassIds /\ y.registered = x.registered
     /\ LET g == x.registered
        IN g \in DOMAIN x.class /\ x.class[g].instances = {} =>
             /\ y.class[g].startOn = x.class[g].startOn
             /\ y.class[g].matched = x.class[g].matched
  \/ /\ x.file[s] \notin ClassIds
     /\ y.registered \in DOMAIN x.class \/ y.class[y.registered].startOn = {}

\* The class that it leaves has its text, and that of the .conf if it parses.
OverrideIn(x, s, y, over) ==
  /\ y.stale = x.stale /\ \A r \in Sources \ {s} : y.file[r] = x.file[r]
  /\ \A r \in Sources \ {s} : x.file[r] \in ClassIds => SameTexts(x, y, x.file[r])
  /\ x.file[s] \in ClassIds => Made(y, s, x.class[x.file[s]].conf, over)
  /\ x.file[s] \notin ClassIds => Made(y, s, None, over)

\* conf_reload_path() with an override that parses keeps the tables sound.
LEMMA OverridePathSound ==
  ASSUME NEW x, Sound(x), NEW s \in Sources, NEW over \in OverrideTexts, over \notin BadTexts
  PROVE  /\ Sound(ConfOverridePath(x, s, over))
         /\ OverridesKeepStartOn => OverrideRead(x, s, ConfOverridePath(x, s, over))
         /\ OverrideIn(x, s, ConfOverridePath(x, s, over), over)
<1>1. Typed(x) /\ Accounted(x)
  BY DEF Sound
<1>2. CASE x.file[s] \in ClassIds
  <2> DEFINE c == x.file[s]
             r == ApplyOverride(x.class[c], over)
             upd == [x EXCEPT !.class[c] = ApplyOverride(@, over)]
  <2>1. ConfOverridePath(x, s, over) = JobClassConsider(upd)
    BY <1>2 DEF ConfOverridePath
  <2>2. c \in DOMAIN x.class /\ x.class[c] \in ClassType
    BY <1>1, <1>2 DEF Accounted, Attached, Typed
  <2>3. upd = ClassSet(x, c, r)
    BY <1>1, <2>2 DEF Typed, ClassSet
  <2>4. /\ r \in ClassType /\ r.instances = x.class[c].instances
        /\ r.deleted = x.class[c].deleted
        /\ r.conf = x.class[c].conf /\ r.over = over
        /\ OverridesKeepStartOn => /\ r.startOn = x.class[c].startOn
                                   /\ r.matched = x.class[c].matched
    BY <2>2, OverrideApplied DEF OverridesKeepStartOn
  <2> HIDE DEF upd, r, c
  <2>5. /\ Typed(upd) /\ upd.file = x.file /\ upd.registered = x.registered
        /\ upd.stale = x.stale
        /\ DOMAIN upd.class = DOMAIN x.class /\ upd.class[c] = r
        /\ \A d \in DOMAIN x.class \ {c} : upd.class[d] = x.class[d]
    BY <1>1, <2>2, <2>3, <2>4, ClassSetTyped
  <2>6. Sound(upd)
    BY <2>4, <2>5, ContentChanges
  <2> DEFINE y == JobClassConsider(upd)
  <2>7. /\ Sound(y) /\ y.registered = upd.registered /\ Alike(upd, y)
        /\ upd.registered = ConfSelectJob(upd) => y.class = upd.class
    BY <1>2, <2>5, <2>6, ConsiderSound
  <2> HIDE DEF y
  <2>8. ASSUME OverridesKeepStartOn PROVE OverrideRead(x, s, y)
    <3> DEFINE g == x.registered
    <3>1. ASSUME g \in DOMAIN x.class, x.class[g].instances = {}
          PROVE  /\ y.class[g].startOn = x.class[g].startOn
                 /\ y.class[g].matched = x.class[g].matched
      <4>1. upd.class[g].instances = {}
        BY <2>4, <2>5, <3>1
      <4>2. upd.registered = ConfSelectJob(upd)
        BY <2>5, <2>6, <4>1 DEF Sound, Best
      <4>3. /\ upd.class[g].startOn = x.class[g].startOn
            /\ upd.class[g].matched = x.class[g].matched
        BY <2>4, <2>5, <2>8, <3>1
      <4> QED BY <2>7, <4>2, <4>3
    <3> QED BY <1>2, <2>5, <2>7, <3>1 DEF OverrideRead
  <2>9. OverrideIn(x, s, y, over)
    <3>1. /\ y.file = x.file /\ y.stale = x.stale
          /\ \A d \in DOMAIN x.class : /\ y.class[d].conf = upd.class[d].conf
                                       /\ y.class[d].over = upd.class[d].over
      BY <2>5, <2>7 DEF Alike
    <3>2. Made(y, s, x.class[c].conf, over)
      BY <1>2, <2>2, <2>4, <2>5, <3>1 DEF Made, c
    <3>3. ASSUME NEW t \in Sources \ {s}, x.file[t] \in ClassIds PROVE SameTexts(x, y, x.file[t])
      <4>1. x.file[t] \in DOMAIN x.class /\ x.file[t] # c
        BY <3>3 DEF Sound, Accounted, Attached, Distinct, c
      <4> QED BY <2>5, <3>1, <4>1 DEF SameTexts
    <3> QED BY <1>2, <3>1, <3>2, <3>3 DEF OverrideIn, c
  <2> QED BY <2>1, <2>7, <2>8, <2>9 DEF y
<1>3. CASE x.file[s] \notin ClassIds
  <2> DEFINE n == Fresh(x)
             on == StartOn[over]
             new == NewClass(None, over, on)
             a == Allocate(x, n, new)
             z == [a EXCEPT !.file[s] = n]
             y == JobClassConsider(z)
  <2>1. ConfOverridePath(x, s, over) = y
    BY <1>3 DEF ConfOverridePath
  <2>2. n \in ClassIds /\ n \notin DOMAIN x.class
    BY FreshAddress
  <2>3. on \in (SUBSET EventNames) \cup {NoStanza}
    BY ConfAssumption
  <2> HIDE DEF n, on
  <2>4. /\ new \in ClassType /\ new.instances = {} /\ ~new.deleted
        /\ new.conf = None /\ new.over = over
        /\ on = NoStanza => new.startOn = {}
    <3>1. None \in ConfTexts \cup {None} /\ over \in OverrideTexts \cup {None}
      OBVIOUS
    <3> QED BY <2>3, <3>1, NewClassType
  <2> HIDE DEF new
  <2>5. /\ Typed(a) /\ a.registered = x.registered /\ a.file = x.file /\ a.stale = x.stale
        /\ DOMAIN a.class = DOMAIN x.class \cup {n}
        /\ a.class[n] = new /\ \A d \in DOMAIN x.class : a.class[d] = x.class[d]
    BY <1>1, <2>2, <2>4, Allocated
  <2> HIDE DEF a
  <2>6. /\ Typed(z) /\ z.registered = x.registered /\ z.class = a.class
        /\ z.file[s] = n /\ \A r \in Sources \ {s} : z.file[r] = x.file[r]
        /\ z.stale = x.stale
    BY <2>2, <2>5, FileSet
  <2> HIDE DEF z
  <2>7. /\ DOMAIN z.class = DOMAIN x.class \cup {n} /\ z.class[n].instances = {}
        /\ ~z.class[n].deleted /\ \A d \in DOMAIN x.class : z.class[d] = x.class[d]
    BY <2>4, <2>5, <2>6
  <2>8. Loose(y, x.file[s]) /\ Alike(z, y) /\ TakesOver(x, y, n)
    BY <2>2, <2>6, <2>7, FileComes
  <2>9. ConfFileDestroy(y, x.file[s]) = y
    BY <1>3 DEF ConfFileDestroy
  <2> HIDE DEF y
  <2>10. Sound(y)
    BY <2>8, <2>9, DestroySound
  <2>11. ASSUME OverridesKeepStartOn PROVE OverrideRead(x, s, y)
    <3>1. z.class[n].startOn = {}
      BY <2>4, <2>5, <2>6, <2>11 DEF OverridesKeepStartOn, on
    <3>2. y.class[n].startOn = {}
      BY <2>7, <2>8, <3>1 DEF Alike
    <3>3. y.registered \in DOMAIN x.class \/ y.registered = n
      BY <2>8 DEF TakesOver
    <3> QED BY <1>3, <3>2, <3>3 DEF OverrideRead
  <2>12. OverrideIn(x, s, y, over)
    <3>1. /\ y.file = z.file /\ y.stale = x.stale
          /\ \A d \in DOMAIN z.class : /\ y.class[d].conf = z.class[d].conf
                                       /\ y.class[d].over = z.class[d].over
      BY <2>6, <2>8 DEF Alike
    <3>2. z.class[n] = new
      BY <2>5, <2>6
    <3>3. Made(y, s, None, over)
      BY <2>2, <2>4, <2>6, <2>7, <3>1, <3>2 DEF Made
    <3>4. ASSUME NEW t \in Sources \ {s}, x.file[t] \in ClassIds PROVE SameTexts(x, y, x.file[t])
      <4>1. x.file[t] \in DOMAIN x.class
        BY <3>4 DEF Sound, Accounted, Attached
      <4> QED BY <2>7, <3>1, <4>1 DEF SameTexts
    <3> QED BY <1>3, <2>6, <3>1, <3>3, <3>4 DEF OverrideIn
  <2> QED BY <2>1, <2>10, <2>11, <2>12
<1> QED BY <1>2, <1>3

\* A class that was not there before is registered with the events of the class
\* whose place it takes.
MatchesKept(x, y) ==
  x.registered # None /\ y.registered # None /\ y.registered \notin DOMAIN x.class =>
    HandedOver(x, y)

\* conf_load_path_with_override() keeps the tables sound.
LEMMA LoadSound ==
  ASSUME OverridesParse, IInv, NEW x, Sound(x), NEW s \in Sources
  PROVE  /\ Sound(ConfLoadPathWithOverride(x, s))
         /\ OverridesKeepStartOn => MatchesKept(x, ConfLoadPathWithOverride(x, s))
<1> DEFINE w == ConfReloadPath(x, s)
           y == ConfLoadPathWithOverride(x, s)
<1>1. Sound(w) /\ Reloaded(x, s, w)
  BY ReloadPathSound
<1>2. w.registered \in DOMAIN w.class \cup {None} /\ (None \notin DOMAIN w.class)
  BY <1>1, ConfAssumption DEF Sound, Accounted, Typed
<1>3. CASE disk.conf[s] = None \/ BestOverride(s) = None
  <2>1. y = w
    BY <1>3 DEF ConfLoadPathWithOverride
  <2>2. MatchesKept(x, w)
    BY <1>1, <1>2 DEF Reloaded, MatchesKept
  <2> QED BY <1>1, <2>1, <2>2
<1>4. CASE ~(disk.conf[s] = None \/ BestOverride(s) = None)
  <2>1. BestOverride(s) \in OverrideTexts /\ BestOverride(s) \notin BadTexts
    BY <1>4, BestOverrideType DEF OverridesParse
  <2>2. y = ConfOverridePath(w, s, BestOverride(s))
    BY <1>4 DEF ConfLoadPathWithOverride
  <2> HIDE DEF w
  <2>3. Sound(y) /\ (OverridesKeepStartOn => OverrideRead(w, s, y))
    BY <1>1, <2>1, <2>2, OverridePathSound
  <2> HIDE DEF y
  <2>4. ASSUME OverridesKeepStartOn PROVE MatchesKept(x, y)
    <3>1. CASE w.file[s] \in ClassIds
      <4>1. y.registered = w.registered
        BY <2>3, <2>4, <3>1 DEF OverrideRead
      <4>2. CASE w.registered \in DOMAIN x.class \cup {None}
        BY <4>1, <4>2 DEF MatchesKept
      <4>3. CASE /\ w.registered \in DOMAIN w.class /\ w.class[w.registered].instances = {}
                 /\ x.registered # None => HandedOver(x, w)
        <5> DEFINE g == w.registered
        <5>1. /\ y.class[g].startOn = w.class[g].startOn
              /\ y.class[g].matched = w.class[g].matched
          BY <2>3, <2>4, <3>1, <4>3 DEF OverrideRead
        <5> QED BY <4>1, <4>3, <5>1 DEF HandedOver, MatchesKept
      <4> QED BY <1>1, <1>2, <4>2, <4>3 DEF Reloaded
    <3>2. CASE w.file[s] \notin ClassIds
      <4>1. DOMAIN w.class \subseteq DOMAIN x.class
        BY <1>1, <3>2 DEF Reloaded
      <4>2. y.registered \in DOMAIN x.class \/ y.class[y.registered].startOn = {}
        BY <2>3, <2>4, <3>2, <4>1 DEF OverrideRead
      <4> QED BY <4>2 DEF MatchesKept, HandedOver
    <3> QED BY <3>1, <3>2
  <2> QED BY <2>3, <2>4 DEF y
<1> QED BY <1>3, <1>4

\* The ConfFile of source s is what a startup with this disk would make of it.
Matches(x, s) ==
  /\ disk.conf[s] = None => x.file[s] = NoFile
  /\ disk.conf[s] # None /\ ~Usable(s) => x.file[s] = NoJob
  /\ Usable(s) => Made(x, s, Expected(s)[1], Expected(s)[2])

\* conf_load_path_with_override() makes of a source what is on the disk.
LEMMA LoadMatches ==
  ASSUME OverridesParse, IInv, NEW x, Sound(x), NEW s \in Sources
  PROVE  LET y == ConfLoadPathWithOverride(x, s)
         IN OnlyAt(x, s, y) /\ Matches(y, s)
<1> DEFINE w == ConfReloadPath(x, s)
           y == ConfLoadPathWithOverride(x, s)
           text == disk.conf[s]
           over == BestOverride(s)
<1>1. Sound(w) /\ FileRead(x, s, w, text)
  BY ReloadPathSound
<1>2. text \in ConfTexts \cup {None} /\ over \in OverrideTexts \cup {None}
  BY BestOverrideType DEF IInv, DiskTyped
<1>3. None \notin BadTexts /\ (over \in OverrideTexts => over \notin BadTexts)
  BY ConfAssumption DEF OverridesParse
<1>4. /\ Usable(s) <=> text # None /\ (text \notin BadTexts \/ over # None)
      /\ Expected(s)[1] = IF text \in BadTexts THEN None ELSE text
      /\ Expected(s)[2] = over
  BY <1>2, <1>3 DEF Usable, Expected
<1>5. y = IF text = None \/ over = None THEN w ELSE ConfOverridePath(w, s, over)
  BY DEF ConfLoadPathWithOverride
<1> HIDE DEF w, y, text, over
<1>6. CASE text = None \/ over = None
  <2>1. y = w
    BY <1>5, <1>6
  <2>2. Matches(w, s)
    BY <1>1, <1>3, <1>4, <1>6 DEF Matches, FileRead, Made, text
  <2> QED BY <1>1, <2>1, <2>2 DEF FileRead, y
<1>7. CASE text # None /\ over # None
  <2>1. y = ConfOverridePath(w, s, over)
    BY <1>5, <1>7
  <2>2. OverrideIn(w, s, y, over)
    BY <1>1, <1>2, <1>3, <1>7, <2>1, OverridePathSound
  <2>3. OnlyAt(x, s, y)
    <3>1. OnlyAt(x, s, w)
      BY <1>1 DEF FileRead
    <3> QED BY <2>2, <3>1 DEF OverrideIn, OnlyAt, SameTexts
  <2>4. Made(y, s, IF text \in BadTexts THEN None ELSE text, over)
    <3>1. CASE text \in BadTexts
      <4>1. w.file[s] = NoJob
        BY <1>1, <1>7, <3>1 DEF FileRead
      <4>2. w.file[s] \notin ClassIds
        BY <4>1, ConfAssumption
      <4> QED BY <2>2, <3>1, <4>2 DEF OverrideIn
    <3>2. CASE text \notin BadTexts
      <4>1. Made(w, s, text, None)
        BY <1>1, <1>7, <3>2 DEF FileRead
      <4> QED BY <2>2, <3>2, <4>1 DEF OverrideIn, Made
    <3> QED BY <3>1, <3>2
  <2>5. Matches(y, s)
    BY <1>4, <1>7, <2>4 DEF Matches, text
  <2> QED BY <2>3, <2>5 DEF y
<1> QED BY <1>6, <1>7

-----------------------------------------------------------------------------
(* Instances *)

\* A class is given another set of instances.
Running(x, c, m) == [x EXCEPT !.class[c].instances = m]

\* Nothing else changes.
LEMMA InstancesSet ==
  ASSUME NEW x, Typed(x), NEW c \in DOMAIN x.class, NEW m \in SUBSET InstanceNames,
         NEW y, y = Running(x, c, m)
  PROVE  /\ Typed(y) /\ y.file = x.file /\ y.stale = x.stale /\ y.registered = x.registered
         /\ DOMAIN y.class = DOMAIN x.class
         /\ y.class[c].instances = m /\ y.class[c].deleted = x.class[c].deleted
         /\ y.class[c].matched = x.class[c].matched /\ y.class[c].startOn = x.class[c].startOn
         /\ y.class[c].conf = x.class[c].conf /\ y.class[c].over = x.class[c].over
         /\ \A d \in DOMAIN x.class \ {c} : y.class[d] = x.class[d]
<1> DEFINE r == [x.class[c] EXCEPT !.instances = m]
<1>1. y = ClassSet(x, c, r)
  BY DEF Typed, ClassSet, Running
<1>2. x.class[c] \in ClassType
  BY DEF Typed
<1>3. /\ r \in ClassType /\ r.deleted = x.class[c].deleted /\ r.instances = m
      /\ r.startOn = x.class[c].startOn /\ r.matched = x.class[c].matched
      /\ r.conf = x.class[c].conf /\ r.over = x.class[c].over
  BY <1>2, Members
<1> HIDE DEF r
<1>4. /\ Typed(y) /\ y.file = x.file /\ y.stale = x.stale /\ y.registered = x.registered
      /\ DOMAIN y.class = DOMAIN x.class /\ y.class[c] = r
      /\ \A d \in DOMAIN x.class \ {c} : y.class[d] = x.class[d]
  BY <1>1, <1>3, ClassSetTyped
<1> QED BY <1>3, <1>4

\* A class that keeps its texts leaves all ConfFiles with theirs.
LEMMA AllTexts ==
  ASSUME NEW x, Sound(x), NEW y, NEW c, y.file = x.file, y.stale = x.stale, SameTexts(x, y, c),
         \A d \in DOMAIN x.class \ {c} : y.class[d] = x.class[d]
  PROVE  SameFiles(x, y)
<1>1. \A d \in DOMAIN x.class : SameTexts(x, y, d)
  BY DEF SameTexts
<1> QED BY <1>1 DEF SameFiles, Sound, Accounted, Attached

\* The registered class may change its events and get more instances.
LEMMA RegisteredRuns ==
  ASSUME NEW x, Sound(x), x.registered # None,
         NEW y, Typed(y), y.file = x.file, y.registered = x.registered,
         DOMAIN y.class = DOMAIN x.class,
         x.class[x.registered].instances \subseteq y.class[x.registered].instances,
         y.class[x.registered].deleted = x.class[x.registered].deleted,
         \A c \in DOMAIN x.class \ {x.registered} : y.class[c] = x.class[c]
  PROVE  Sound(y)
<1>1. /\ Typed(x) /\ Distinct(x) /\ Accounted(x) /\ Reachable(x) /\ Marked(x) /\ Best(x)
  BY DEF Sound
<1>2. x.registered \in DOMAIN x.class
  BY <1>1 DEF Accounted, Typed
<1>3. Distinct(y) /\ Accounted(y)
  BY <1>1 DEF Distinct, Accounted, Attached
<1>4. Reachable(y)
  BY <1>1 DEF Reachable
<1>5. Marked(y)
  BY <1>1, <1>2 DEF Marked, Attached
<1>6. Best(y)
  BY <1>1, SameFilesSameJob DEF Best
<1> QED BY <1>3, <1>4, <1>5, <1>6 DEF Sound

\* The registered class loses an instance and is reconsidered: when it was the
\* last one a better class takes its place, and a class without a ConfFile is
\* freed.
LEMMA FinishSound ==
  ASSUME NEW x, Sound(x), NEW c \in DOMAIN x.class, NEW i \in x.class[c].instances,
         NEW w, w = Running(x, c, x.class[c].instances \ {i}),
         NEW q, q = IF w.class[c].deleted /\ Unused(w, c)
                    THEN Free(JobClassReconsider(w, c), c) ELSE JobClassReconsider(w, c)
  PROVE  Sound(q) /\ DOMAIN q.class \subseteq DOMAIN x.class /\ SameFiles(x, q)
<1> DEFINE y == JobClassReconsider(w, c)
           best == ConfSelectJob(w)
<1>1. /\ Typed(x) /\ Distinct(x) /\ Accounted(x) /\ Reachable(x) /\ Marked(x) /\ Best(x)
  BY DEF Sound
<1>2. c \in ClassIds /\ c # None /\ x.registered = c
  BY <1>1, ConfAssumption DEF Typed, Reachable
<1>3. x.class[c].instances \ {i} \in SUBSET InstanceNames
  BY <1>1 DEF Typed, ClassType
<1>4. /\ Typed(w) /\ w.file = x.file /\ w.registered = c /\ DOMAIN w.class = DOMAIN x.class
      /\ w.class[c].deleted = x.class[c].deleted /\ w.stale = x.stale /\ SameTexts(x, w, c)
      /\ \A d \in DOMAIN x.class \ {c} : w.class[d] = x.class[d]
  BY <1>1, <1>2, <1>3, InstancesSet DEF SameTexts
<1>5. /\ best = ConfSelectJob(x) /\ \A d : Attached(w, d) <=> Attached(x, d)
  BY <1>4, SameFilesSameJob DEF Attached
<1>6. best \in ClassIds \cup {None} /\ (best \in ClassIds => Attached(w, best))
  BY SelectedAttached
<1> HIDE DEF best
<1>7. \A d \in DOMAIN x.class \ {c} : w.class[d].instances = {}
  BY <1>1, <1>2, <1>4 DEF Reachable
<1>8. Distinct(w) /\ Marked(w) /\ Reachable(w) /\ Accounted(w)
  <2>1. Distinct(w)
    BY <1>1, <1>4 DEF Distinct
  <2>2. Marked(w)
    BY <1>1, <1>4, <1>5 DEF Marked
  <2>3. Reachable(w)
    BY <1>4, <1>7 DEF Reachable
  <2>4. Accounted(w)
    BY <1>1, <1>2, <1>4, <1>5 DEF Accounted
  <2> QED BY <2>1, <2>2, <2>3, <2>4
<1>9. SameFiles(x, w)
  <2>1. \A d \in DOMAIN x.class : SameTexts(x, w, d)
    BY <1>4 DEF SameTexts
  <2> QED BY <1>1, <1>4, <2>1 DEF SameFiles, Accounted, Attached
<1>10. CASE ~Unused(w, c)
  <2>1. y = w
    BY <1>10 DEF JobClassReconsider
  <2>2. Best(w)
    BY <1>2, <1>4, <1>10 DEF Unused, Best
  <2> QED BY <1>4, <1>8, <1>10, <1>9, <2>1, <2>2 DEF Sound
<1>11. CASE Unused(w, c)
  <2>1. best # c /\ w.class[c].instances = {}
    BY <1>4, <1>11 DEF Unused, best
  <2>2. y = [w EXCEPT !.registered = best]
    BY <1>4, <1>11 DEF JobClassReconsider, best
  <2> DEFINE e == [w EXCEPT !.registered = best]
  <2>3. /\ Typed(y) /\ y.file = w.file /\ y.registered = best /\ y.class = w.class
        /\ y.stale = w.stale
    <3>1. /\ Typed(e) /\ e.file = w.file /\ e.registered = best /\ e.class = w.class
          /\ e.stale = w.stale
      BY <1>4, <1>6, RegisteredSet
    <3> HIDE DEF e, y
    <3>2. y = e
      BY <2>2 DEF e
    <3> QED BY <3>1, <3>2
  <2> HIDE DEF y, e
  <2>4. /\ ConfSelectJob(y) = best /\ \A d : Attached(y, d) <=> Attached(w, d)
    BY <2>3, SameFilesSameJob DEF Attached, best
  <2>5. CASE w.class[c].deleted
    <3> DEFINE z == Free(y, c)
    <3>1. /\ Typed(z) /\ z.registered = best /\ z.file = w.file /\ z.stale = w.stale
          /\ DOMAIN z.class = DOMAIN x.class \ {c}
          /\ \A d \in DOMAIN x.class \ {c} : z.class[d] = w.class[d]
      <4>1. /\ Typed(z) /\ z.registered = y.registered /\ z.file = y.file /\ z.stale = y.stale
            /\ DOMAIN z.class = DOMAIN y.class \ {c}
            /\ \A d \in DOMAIN y.class \ {c} : z.class[d] = y.class[d]
        BY <2>3, FreedClass, ZenonT(60)
      <4> HIDE DEF z
      <4> QED BY <1>4, <2>3, <4>1
    <3> HIDE DEF z
    <3>2. /\ ConfSelectJob(z) = best /\ \A d : Attached(z, d) <=> Attached(w, d)
      BY <3>1, SameFilesSameJob DEF Attached, best
    <3>3. ~Attached(w, c)
      BY <1>4, <1>8, <2>5 DEF Marked
    <3>4. Distinct(z) /\ Reachable(z)
      BY <1>7, <1>8, <3>1, ZenonT(60) DEF Distinct, Reachable
    <3>5. Marked(z)
      BY <1>4, <1>8, <3>1, <3>2 DEF Marked
    <3>6. Accounted(z)
      <4>1. ASSUME NEW d \in ClassIds
            PROVE  d \in DOMAIN z.class <=> Attached(z, d) \/ d = z.registered
        <5>1. CASE d = c
          BY <1>4, <1>6, <2>1, <3>1, <3>2, <3>3, <5>1
        <5>2. CASE d # c
          <6>1. d \in DOMAIN z.class <=> d \in DOMAIN x.class
            BY <3>1, <5>2
          <6> QED BY <1>4, <1>6, <1>8, <2>1, <3>1, <3>2, <5>2, <6>1 DEF Accounted
        <5> QED BY <5>1, <5>2
      <4> QED BY <4>1 DEF Accounted
    <3>7. Best(z)
      BY <3>1, <3>2 DEF Best
    <3>8. Sound(z)
      BY <3>1, <3>4, <3>5, <3>6, <3>7 DEF Sound
    <3>9. q = z
      BY <1>11, <2>5 DEF y, z
    <3>10. SameFiles(x, z)
      <4>1. ASSUME NEW s \in Sources, x.file[s] \in ClassIds PROVE SameTexts(x, z, x.file[s])
        <5>1. x.file[s] \in DOMAIN x.class \ {c} /\ SameTexts(x, w, x.file[s])
          BY <1>1, <1>4, <1>9, <3>3, <4>1 DEF Accounted, Attached, SameFiles
        <5> QED BY <3>1, <5>1 DEF SameTexts
      <4> QED BY <1>4, <3>1, <4>1 DEF SameFiles
    <3> QED BY <3>1, <3>8, <3>9, <3>10
  <2>6. CASE ~w.class[c].deleted
    <3>1. Attached(w, c)
      BY <1>4, <1>8, <2>6 DEF Marked
    <3>2. Distinct(y)
      BY <1>8, <2>3 DEF Distinct
    <3>3. Reachable(y)
      BY <1>4, <1>7, <2>1, <2>3 DEF Reachable
    <3>4. Marked(y)
      BY <1>8, <2>3, <2>4 DEF Marked
    <3>5. Accounted(y)
      BY <1>4, <1>6, <1>8, <2>3, <2>4, <3>1 DEF Accounted
    <3>6. Best(y)
      BY <2>3, <2>4 DEF Best
    <3>7. Sound(y)
      BY <2>3, <3>2, <3>3, <3>4, <3>5, <3>6 DEF Sound
    <3>8. q = y
      BY <2>6 DEF y
    <3>9. SameFiles(x, y)
      BY <1>9, <2>3 DEF SameFiles, SameTexts
    <3> QED BY <1>4, <2>3, <3>7, <3>8, <3>9
  <2> QED BY <2>5, <2>6
<1> QED BY <1>10, <1>11

-----------------------------------------------------------------------------
(* The invariant is kept by every step *)

\* Without a new class, none takes over.
LEMMA NoneNew ==
  ASSUME NEW x, NEW y, Sound(y), DOMAIN y.class \subseteq DOMAIN x.class
  PROVE  MatchesKept(x, y)
<1>1. y.registered # None => y.registered \in DOMAIN y.class
  BY DEF Sound, Accounted, Typed
<1> QED BY <1>1 DEF MatchesKept

\* Editors change the disk only.
LEMMA DiskStep ==
  ASSUME IInv, Disk
  PROVE  IInv' /\ MatchesKept(k, k')
<1>1. PICK s \in Sources :
        \/ \E t \in ConfTexts : WriteConf(s, t)
        \/ \E t \in OverrideTexts : WriteOverride(s, t)
        \/ DeleteConf(s) \/ DeleteOverride(s) \/ RemoveDir(s) \/ MakeDir(s)
  BY DEF Disk
<1>2. k' = k
  BY <1>1 DEF WriteConf, WriteOverride, DeleteConf, DeleteOverride, RemoveDir, MakeDir, Edit
<1>3. DiskTyped'
  <2>1. DiskTyped
    BY DEF IInv
  <2>2. ASSUME NEW t \in ConfTexts \cup {None}, disk' = [disk EXCEPT !.conf[s] = t]
        PROVE  DiskTyped'
    BY <2>1, <2>2 DEF DiskTyped
  <2>3. ASSUME NEW t \in OverrideTexts \cup {None}, disk' = [disk EXCEPT !.over[s] = t]
        PROVE  DiskTyped'
    BY <2>1, <2>3 DEF DiskTyped
  <2>4. ASSUME NEW b \in BOOLEAN, disk' = [disk EXCEPT !.dir[s] = b]
        PROVE  DiskTyped'
    BY <2>1, <2>4 DEF DiskTyped
  <2> QED BY <1>1, <2>2, <2>3, <2>4
          DEF WriteConf, WriteOverride, DeleteConf, DeleteOverride, RemoveDir, MakeDir
<1>4. Sound(k')
  BY <1>2 DEF IInv
<1> QED BY <1>2, <1>3, <1>4, NoneNew DEF IInv

\* A ConfFile whose file is gone is destroyed.
LEMMA GoneSound ==
  ASSUME NEW x, Sound(x), NEW s \in Sources
  PROVE  LET y == ConfFileDestroy(Unlink(x, s), x.file[s])
         IN /\ Sound(y) /\ DOMAIN y.class \subseteq DOMAIN x.class
            /\ OnlyAt(x, s, y) /\ y.file[s] = NoFile
<1> DEFINE u == Unlink(x, s)
<1>1. /\ Typed(u) /\ u.registered = x.registered /\ u.class = x.class
      /\ u.file[s] = NoFile /\ \A r \in Sources \ {s} : u.file[r] = x.file[r]
      /\ u.stale = x.stale \ {s}
  BY Unlinked DEF Sound
<1> HIDE DEF u
<1>2. Loose(u, x.file[s])
  BY <1>1, FileGone
<1> DEFINE y == ConfFileDestroy(u, x.file[s])
<1>3. Sound(y) /\ Destroyed(u, x.file[s], y)
  BY <1>2, DestroySound
<1> HIDE DEF y
<1>4. DOMAIN y.class \subseteq DOMAIN x.class
  BY <1>1, <1>3 DEF Destroyed
<1>5. OnlyAt(x, s, y) /\ y.file[s] = NoFile
  <2>1. /\ DOMAIN x.class \subseteq DOMAIN u.class /\ \A c \in DOMAIN x.class : SameTexts(x, u, c)
        /\ u.stale = x.stale \ {s} /\ \A r \in Sources \ {s} : u.file[r] = x.file[r]
    BY <1>1 DEF SameTexts
  <2> QED BY <1>1, <1>3, <2>1, DestroyedAt, SMTT(30)
<1> QED BY <1>3, <1>4, <1>5 DEF u, y

\* The handlers of conf.c leave the disk alone and the tables sound.
LEMMA HandlerStep ==
  ASSUME OverridesParse, IInv, Handler
  PROVE  IInv' /\ (OverridesKeepStartOn => MatchesKept(k, k'))
<1>1. PICK s \in Sources :
        \/ ConfChanged(s) \/ OverrideChanged(s) \/ ConfDeleted(s) \/ OverrideDeleted(s)
        \/ DirDeleted(s) \/ ReloadSource(s) \/ Load(s) \/ LoadIfKnown(s)
        \/ OverrideFound(s) \/ Sweep(s)
  BY DEF Handler
<1>2. disk' = disk
  BY <1>1 DEF ConfChanged, OverrideChanged, ConfDeleted, OverrideDeleted, DirDeleted,
       ReloadSource, Load, LoadIfKnown, OverrideFound, Sweep, HasNote, Doing
<1>3. Sound(k)
  BY DEF IInv
<1>4. CASE \/ ConfChanged(s) \/ OverrideChanged(s) \/ OverrideDeleted(s)
           \/ DirDeleted(s) \/ OverrideFound(s)
  <2>1. k' = k
    BY <1>4 DEF ConfChanged, OverrideChanged, OverrideDeleted, DirDeleted, OverrideFound
  <2> QED BY <1>2, <1>3, <2>1, NoneNew DEF IInv, DiskTyped
<1>5. CASE ConfDeleted(s) \/ Sweep(s)
  <2>1. k' = ConfFileDestroy(Unlink(k, s), k.file[s]) \/ k' = k
    BY <1>5 DEF ConfDeleted, Sweep
  <2>2. Sound(k') /\ DOMAIN k'.class \subseteq DOMAIN k.class
    BY <1>3, <2>1, GoneSound
  <2> QED BY <1>2, <1>3, <2>2, NoneNew DEF IInv, DiskTyped
<1>6. CASE Load(s) \/ LoadIfKnown(s)
  <2>1. k' = ConfLoadPathWithOverride(k, s) \/ k' = k
    BY <1>6 DEF Load, LoadIfKnown
  <2>2. Sound(k') /\ (OverridesKeepStartOn => MatchesKept(k, k'))
    BY <1>3, <2>1, LoadSound, NoneNew
  <2> QED BY <1>2, <2>2 DEF IInv, DiskTyped
<1>7. CASE ReloadSource(s)
  <2> DEFINE m == IF k.file[s] = NoFile THEN k.stale ELSE k.stale \cup {s}
  <2>1. k' = [k EXCEPT !.stale = m]
    BY <1>7 DEF ReloadSource
  <2>2. Typed(k)
    BY <1>3 DEF Sound
  <2>3. m \subseteq Sources
    BY <2>2 DEF Typed
  <2> HIDE DEF m
  <2>4. /\ k'.class = k.class /\ k'.file = k.file /\ k'.registered = k.registered
        /\ k'.stale = m
        /\ k' = [class |-> k'.class, file |-> k'.file, stale |-> k'.stale,
                 registered |-> k'.registered]
    BY <2>1, <2>2 DEF Typed
  <2>5. Typed(k')
    BY <2>2, <2>3, <2>4 DEF Typed
  <2>6. Sound(k')
    BY <1>3, <2>4, <2>5, ContentChanges
  <2> QED BY <1>2, <1>3, <2>4, <2>6, NoneNew DEF IInv, DiskTyped
<1> QED BY <1>1, <1>4, <1>5, <1>6, <1>7

\* Instances come and go in the registered class only.
LEMMA InstanceStep ==
  ASSUME IInv, Instance
  PROVE  IInv' /\ MatchesKept(k, k') /\ SameFiles(k, k')
<1>1. PICK i \in InstanceNames :
        \/ Start(i)
        \/ \E e \in EventNames : EventArrives(e, i)
        \/ \E c \in DOMAIN k.class : Finish(c, i)
  BY DEF Instance
<1>2. disk' = disk
  BY <1>1 DEF Start, EventArrives, Finish
<1>3. Sound(k) /\ Typed(k)
  BY DEF IInv, Sound
<1>4. k.registered # None => k.registered \in DOMAIN k.class
  BY <1>3 DEF Sound, Accounted, Typed
<1>5. CASE Start(i)
  <2> DEFINE c == k.registered
             m == k.class[c].instances \cup {i}
  <2>1. k.registered # None /\ c \in DOMAIN k.class
    BY <1>4, <1>5 DEF Start
  <2>2. k' = Running(k, c, m)
    BY <1>5 DEF Start, Running
  <2>3. m \in SUBSET InstanceNames
    BY <1>3, <2>1 DEF Typed, ClassType
  <2>4. k.class[c].instances \subseteq m
    OBVIOUS
  <2> HIDE DEF m
  <2>5. /\ Typed(k') /\ k'.file = k.file /\ k'.registered = k.registered
        /\ DOMAIN k'.class = DOMAIN k.class
        /\ k'.class[c].instances = m /\ k'.class[c].deleted = k.class[c].deleted
        /\ \A d \in DOMAIN k.class \ {c} : k'.class[d] = k.class[d]
        /\ k'.stale = k.stale /\ SameTexts(k, k', c)
    BY <1>3, <2>1, <2>2, <2>3, InstancesSet DEF SameTexts
  <2>6. Sound(k')
    BY <1>3, <2>1, <2>4, <2>5, RegisteredRuns
  <2>7. SameFiles(k, k')
    BY <1>3, <2>5, AllTexts
  <2> QED BY <1>2, <1>3, <2>5, <2>6, <2>7, NoneNew DEF IInv, DiskTyped
<1>6. CASE \E e \in EventNames : EventArrives(e, i)
  <2>1. PICK e \in EventNames : EventArrives(e, i)
    BY <1>6
  <2> DEFINE c == k.registered
             arrived == k.class[c].matched \cup {e}
             all == arrived = k.class[c].startOn
             m == IF all THEN {} ELSE arrived
             n == IF all THEN k.class[c].instances \cup {i} ELSE k.class[c].instances
             w == Matching(k, c, m)
             y == Running(w, c, n)
  <2>2. k.registered # None /\ c \in DOMAIN k.class
    BY <1>4, <2>1 DEF EventArrives
  <2>3. m \in SUBSET EventNames /\ n \in SUBSET InstanceNames /\ k.class[c].instances \subseteq n
    <3>1. k.class[c].matched \in SUBSET EventNames /\ k.class[c].instances \in SUBSET InstanceNames
      BY <1>3, <2>2 DEF Typed, ClassType
    <3>2. CASE all
      BY <3>1, <3>2
    <3>3. CASE ~all
      BY <3>1, <3>3
    <3> QED BY <3>2, <3>3
  <2>4. /\ Alike(k, w) /\ w.registered = c
        /\ \A d \in DOMAIN k.class \ {c} : w.class[d] = k.class[d]
    <3>1. w = Matching(k, c, m)
      OBVIOUS
    <3> HIDE DEF w, m, n
    <3> QED BY <1>3, <2>2, <2>3, <3>1, MatchedSet
  <2>5. k' = y
    <3>1. k' = [k EXCEPT !.class[c].matched = m,
                         !.class[c].instances = IF all THEN @ \cup {i} ELSE @]
      BY <2>1 DEF EventArrives, Registered
    <3> DEFINE v == [k EXCEPT !.class[c].matched = m]
    <3>2. k' = [v EXCEPT !.class[c].instances = IF all THEN @ \cup {i} ELSE @]
      BY <3>1, ZenonT(60)
    <3>3. v = w
      BY DEF Matching
    <3>4. w.class[c].instances = k.class[c].instances
      BY <2>2, <2>4 DEF Alike
    <3> HIDE DEF v, w, all
    <3>5. k' = [w EXCEPT !.class[c].instances = IF all THEN @ \cup {i} ELSE @]
      BY <3>2, <3>3
    <3>6. CASE all
      BY <3>4, <3>5, <3>6 DEF Running
    <3>7. CASE ~all
      BY <3>4, <3>5, <3>7 DEF Running
    <3> QED BY <3>6, <3>7
  <2> HIDE DEF m, n, w
  <2>6. /\ Typed(y) /\ y.file = w.file /\ y.registered = w.registered
        /\ DOMAIN y.class = DOMAIN w.class
        /\ y.class[c].instances = n /\ y.class[c].deleted = w.class[c].deleted
        /\ \A d \in DOMAIN w.class \ {c} : y.class[d] = w.class[d]
        /\ y.stale = w.stale
        /\ y.class[c].conf = w.class[c].conf /\ y.class[c].over = w.class[c].over
    <3>1. Typed(w) /\ c \in DOMAIN w.class
      BY <2>2, <2>4 DEF Alike
    <3> QED BY <2>3, <3>1, InstancesSet
  <2>7. /\ Typed(k') /\ k'.file = k.file /\ k'.registered = k.registered
        /\ DOMAIN k'.class = DOMAIN k.class
        /\ k'.class[c].instances = n /\ k'.class[c].deleted = k.class[c].deleted
        /\ \A d \in DOMAIN k.class \ {c} : k'.class[d] = k.class[d]
        /\ k'.stale = k.stale /\ SameTexts(k, k', c)
    <3> HIDE DEF y
    <3> QED BY <2>2, <2>4, <2>5, <2>6 DEF Alike, SameTexts
  <2>8. Sound(k')
    BY <1>3, <2>2, <2>3, <2>7, RegisteredRuns
  <2>9. SameFiles(k, k')
    BY <1>3, <2>7, AllTexts
  <2> QED BY <1>2, <1>3, <2>7, <2>8, <2>9, NoneNew DEF IInv, DiskTyped
<1>7. CASE \E c \in DOMAIN k.class : Finish(c, i)
  <2>1. PICK c \in DOMAIN k.class : Finish(c, i)
    BY <1>7
  <2> DEFINE w == Running(k, c, k.class[c].instances \ {i})
  <2>2. i \in k.class[c].instances
    BY <2>1 DEF Finish
  <2>3. k' = IF w.class[c].deleted /\ Unused(w, c)
             THEN Free(JobClassReconsider(w, c), c) ELSE JobClassReconsider(w, c)
    BY <2>1 DEF Finish, Running
  <2> HIDE DEF w
  <2>4. w = Running(k, c, k.class[c].instances \ {i})
    BY DEF w
  <2>5. Sound(k') /\ DOMAIN k'.class \subseteq DOMAIN k.class /\ SameFiles(k, k')
    BY <1>3, <2>2, <2>3, <2>4, FinishSound
  <2> QED BY <1>2, <1>3, <2>5, NoneNew DEF IInv, DiskTyped
<1> QED BY <1>1, <1>5, <1>6, <1>7

\* startup begins without ConfFiles and classes.
LEMMA InitSound ==
  ASSUME Init
  PROVE  IInv
<1>1. /\ k.class = <<>> /\ k.file = [s \in Sources |-> NoFile] /\ k.stale = {}
      /\ k.registered = None
      /\ k = [class |-> k.class, file |-> k.file, stale |-> k.stale, registered |-> k.registered]
  BY DEF Init
<1>2. DOMAIN k.class = {} /\ k.class = [c \in DOMAIN k.class |-> k.class[c]]
  BY <1>1
<1>3. Typed(k)
  BY <1>1, <1>2 DEF Typed
<1>4. \A s \in Sources : k.file[s] \notin ClassIds
  BY <1>1, ConfAssumption
<1>5. Distinct(k) /\ Reachable(k) /\ Marked(k)
  BY <1>2, <1>4 DEF Distinct, Reachable, Marked
<1>6. Accounted(k)
  BY <1>1, <1>2, <1>4, ConfAssumption DEF Accounted, Attached
<1>7. Best(k)
  BY <1>1, <1>4, Selects DEF Best
<1>8. DiskTyped
  BY DEF Init, DiskTyped
<1> QED BY <1>3, <1>5, <1>6, <1>7, <1>8 DEF IInv, Sound

\* The tables of startup are sound whatever happens to the disk, the directories
\* and the instances.
LEMMA TablesSound ==
  ASSUME OverridesParse
  PROVE  Spec => []IInv
<1>1. Init => IInv
  BY InitSound
<1>2. ASSUME IInv, [Next]_vars PROVE IInv'
  <2>1. CASE ConfReload \/ UNCHANGED vars
    BY <1>2, <2>1 DEF ConfReload, vars, IInv, DiskTyped
  <2> QED BY <1>2, <2>1, DiskStep, HandlerStep, InstanceStep DEF Next
<1> QED BY <1>1, <1>2, PTL DEF Spec

\* The classes allocated are those that a ConfFile or job_classes refers to.
THEOREM ClassesNeitherLostNorDangling ==
  ASSUME OverridesParse
  PROVE  Spec => []ClassesAccounted
<1>1. ASSUME IInv PROVE ClassesAccounted
  <2>1. Accounted(k) /\ Typed(k)
    BY <1>1 DEF IInv, Sound
  <2>2. DOMAIN k.class \subseteq ClassIds /\ k.registered \in ClassIds \cup {None}
    BY <2>1 DEF Typed
  <2> QED BY <2>1, <2>2, ConfAssumption DEF ClassesAccounted, Accounted, Attached, Candidates
<1> QED BY <1>1, TablesSound, PTL

\* Only the registered class has instances.
THEOREM InstancesStayReachable ==
  ASSUME OverridesParse
  PROVE  Spec => []InstancesReachable
<1>1. IInv => InstancesReachable
  BY DEF IInv, Sound, Reachable, InstancesReachable
<1> QED BY <1>1, TablesSound, PTL

\* The registered class is the best one, or has instances.
THEOREM BestClassRegistered ==
  ASSUME OverridesParse
  PROVE  Spec => []BestUnlessRunning
<1>1. IInv => BestUnlessRunning
  BY DEF IInv, Sound, Best, BestUnlessRunning, Registered
<1> QED BY <1>1, TablesSound, PTL

\* A class that takes the place of the registered one as it is loaded has the
\* events matched that the old one had matched and it needs.
THEOREM ReloadHandsOver ==
  ASSUME OverridesParse, OverridesKeepStartOn
  PROVE  Spec => ReloadKeepsMatches
<1>1. ASSUME IInv, [Next]_vars
      PROVE  [(/\ k.registered # None /\ k.registered' # None
               /\ k.registered' \notin DOMAIN k.class) =>
                k.class[k.registered].matched \cap k.class'[k.registered'].startOn
                  \subseteq k.class'[k.registered'].matched]_vars
  <2>1. CASE ConfReload \/ UNCHANGED vars
    <3>1. k' = k /\ Sound(k)
      BY <1>1, <2>1 DEF ConfReload, vars, IInv
    <3> QED BY <3>1, NoneNew DEF MatchesKept, HandedOver
  <2>2. CASE Disk \/ Handler \/ Instance
    <3>1. MatchesKept(k, k')
      BY <1>1, <2>2, DiskStep, HandlerStep, InstanceStep
    <3> QED BY <3>1 DEF MatchesKept, HandedOver
  <2> QED BY <1>1, <2>1, <2>2 DEF Next
<1> QED BY <1>1, TablesSound, PTL DEF Spec, ReloadKeepsMatches
-----------------------------------------------------------------------------
(* The notifications and calls that are still to come *)

\* A notification that is queued, a call that the running handler has to make.
Noted(s, S) == \E i \in 1..Len(notes[s]) : notes[s][i] \in S

Due(op, s) == \E i \in 1..Len(todo) : todo[i] = CallOn(op, s)

\* name.conf of the source is still to be looked at: by its notification, by the
\* reload under way, or by the one that would have to watch the directory.
ConfPending(s) ==
  \/ watch[s] # "live"
  \/ Noted(s, {"conf_changed", "conf_deleted"})
  \/ Due("load", s) \/ Due("reload_source", s)
  \/ s \in k.stale /\ Due("sweep", s)

\* So are the overrides that apply to it.
OverPending(s) ==
  \/ Due("load_if_known", s)
  \/ \E r \in Sources : Due("over_found", r)
  \/ \E r \in 1..s : watch[r] # "live" \/ Noted(r, {"over_changed", "over_deleted"})

Followed(s) ==
  Matches(k, s) \/ ConfPending(s) \/ (k.file[s] # NoFile /\ OverPending(s))

\* What the queue of a source last says of a file is true: the notification was
\* followed by another if the file has come back or gone since.
LastWord(s) ==
  \A i \in 1..Len(notes[s]) :
    /\ notes[s][i] = "conf_changed" /\ disk.conf[s] = None =>
         \E j \in (i + 1)..Len(notes[s]) : notes[s][j] = "conf_deleted"
    /\ notes[s][i] = "conf_deleted" /\ disk.conf[s] # None =>
         \E j \in (i + 1)..Len(notes[s]) : notes[s][j] = "conf_changed"
    /\ notes[s][i] = "over_changed" /\ disk.over[s] = None =>
         \E j \in (i + 1)..Len(notes[s]) : notes[s][j] = "over_deleted"

\* The queue of a directory ends with the watch on it.
Queue(s) ==
  /\ watch[s] = "none" => notes[s] = <<>>
  /\ watch[s] = "live" => LastWord(s)
  /\ \A i \in 1..Len(notes[s]) :
       notes[s][i] = "dir_deleted" => watch[s] = "dead" /\ i = Len(notes[s])

\* The sources that a reload has not come to are the last ones, and the last calls.
ReloadOrder ==
  \A i \in 1..Len(todo) : todo[i].op = "reload_source" =>
    /\ \A j \in i..Len(todo) : todo[j].op = "reload_source"
    /\ \A t \in Sources : t > todo[i].src =>
         \E j \in (i + 1)..Len(todo) : todo[j] = CallOn("reload_source", t)

\* A ConfFile that a reload is about to delete has no file, or the file was not
\* there when the reload came to its directory, or is loaded before.
SweepOrder ==
  \A i \in 1..Len(todo) : todo[i].op = "sweep" =>
    LET s == todo[i].src
    IN s \in k.stale /\ watch[s] = "live" /\ disk.conf[s] # None =>
         \/ Noted(s, {"conf_changed"})
         \/ \E j \in 1..(i - 1) : todo[j] = CallOn("load", s)

PInv ==
  /\ watch \in [Sources -> {"none", "live", "dead"}]
  /\ notes \in [Sources -> Seq(Note)]
  /\ todo \in Seq(Call)
  /\ ReloadOrder /\ SweepOrder
  /\ \A s \in Sources : Queue(s) /\ Followed(s)

\* conf_get_best_override() finds the same text while no override up to the source
\* changes.
LEMMA BestOverrideSame ==
  ASSUME NEW s \in Sources, \A r \in 1..s : disk'.over[r] = disk.over[r]
  PROVE  BestOverride(s)' = BestOverride(s)
<1>1. Overriding(s)' = Overriding(s)
  BY DEF Overriding
<1>2. CASE Overriding(s) = {}
  BY <1>1, <1>2 DEF BestOverride
<1>3. CASE Overriding(s) # {}
  <2>1. Overriding(s) \in SUBSET Nat
    BY ConfAssumption DEF Overriding, Sources
  <2>2. \E r \in Overriding(s) : \A q \in Overriding(s) : r <= q
    BY <1>3, <2>1, HasLeast
  <2> DEFINE r == CHOOSE r \in Overriding(s) : \A q \in Overriding(s) : r <= q
  <2>3. r \in Overriding(s)
    BY <2>2
  <2>4. BestOverride(s) = disk.over[r] /\ BestOverride(s)' = disk'.over[r]
    BY <1>1, <1>3 DEF BestOverride
  <2>5. r \in 1..s
    BY <2>3 DEF Overriding
  <2> QED BY <2>4, <2>5
<1> QED BY <1>2, <1>3

\* A source goes on matching the disk while neither it nor what applies to it on
\* the disk changes.
LEMMA MatchesSame ==
  ASSUME NEW s \in Sources, Matches(k, s), disk'.conf[s] = disk.conf[s],
         \A r \in 1..s : disk'.over[r] = disk.over[r],
         k'.file[s] = k.file[s], k.file[s] \in ClassIds => SameTexts(k, k', k.file[s])
  PROVE  Matches(k, s)'
<1>1. BestOverride(s)' = BestOverride(s)
  BY BestOverrideSame
<1>2. (Usable(s)' <=> Usable(s)) /\ Expected(s)' = Expected(s)
  BY <1>1 DEF Usable, Expected
<1>3. ASSUME NEW a, NEW b, Made(k, s, a, b) PROVE Made(k', s, a, b)
  BY <1>3 DEF Made, SameTexts
<1> QED BY <1>2, <1>3 DEF Matches

\* A source that matches without a ConfFile has no .conf.
LEMMA NothingMatches ==
  ASSUME NEW s \in Sources, Matches(k, s), k.file[s] = NoFile
  PROVE  disk.conf[s] = None
BY ConfAssumption DEF Matches, Made

-----------------------------------------------------------------------------
(* Queues of notifications and calls, element by element *)

\* What a queue holds after a notification.
LEMMA Queued ==
  ASSUME NEW q \in Seq(Note), NEW e \in Note, NEW p, p = Append(q, e)
  PROVE  /\ p \in Seq(Note) /\ Len(p) = Len(q) + 1 /\ p[Len(p)] = e
         /\ \A i \in 1..Len(q) : p[i] = q[i]
BY DEF Note

\* What it holds once the first has been read.
LEMMA Unqueued ==
  ASSUME NEW q \in Seq(Note), q # <<>>, NEW p, p = Tail(q)
  PROVE  /\ p \in Seq(Note) /\ Len(p) = Len(q) - 1 /\ Len(q) \in Nat \ {0} /\ Head(q) = q[1]
         /\ \A i \in 1..Len(p) : p[i] = q[i + 1]
         /\ \A i \in 2..Len(q) : q[i] = p[i - 1]
BY DEF Note

\* The first call is made, which puts the calls w in its place.
Replaced(w) ==
  /\ Len(todo') = Len(w) + Len(todo) - 1
  /\ \A i \in 1..Len(w) : todo'[i] = w[i]
  /\ \A i \in 2..Len(todo) : todo'[Len(w) + i - 1] = todo[i]
  /\ \A i \in 1..Len(todo') : i > Len(w) =>
       i - Len(w) + 1 \in 2..Len(todo) /\ todo'[i] = todo[i - Len(w) + 1]

\* In place of the first call there are others, which come before the rest.
LEMMA CallsReplaced ==
  ASSUME todo \in Seq(Call), todo # <<>>, NEW w \in Seq(Call), todo' = w \o Tail(todo)
  PROVE  todo' \in Seq(Call) /\ Replaced(w) /\ Len(todo) \in Nat \ {0} /\ Head(todo) = todo[1]
<1>1. /\ Tail(todo) \in Seq(Call) /\ Len(Tail(todo)) = Len(todo) - 1 /\ Len(todo) \in Nat \ {0}
      /\ Head(todo) = todo[1] /\ \A i \in 1..(Len(todo) - 1) : Tail(todo)[i] = todo[i + 1]
  OBVIOUS
<1>2. /\ todo' \in Seq(Call) /\ Len(todo') = Len(w) + Len(todo) - 1 /\ Len(w) \in Nat
      /\ \A i \in 1..Len(todo') : todo'[i] = IF i <= Len(w) THEN w[i] ELSE Tail(todo)[i - Len(w)]
  BY <1>1
<1>3. ASSUME NEW i \in 1..Len(todo'), i > Len(w)
      PROVE  i - Len(w) + 1 \in 2..Len(todo) /\ todo'[i] = todo[i - Len(w) + 1]
  <2>1. i - Len(w) \in 1..(Len(todo) - 1) /\ ~(i <= Len(w))
    BY <1>1, <1>2, <1>3
  <2>2. todo'[i] = Tail(todo)[i - Len(w)]
    BY <1>2, <2>1
  <2> QED BY <1>1, <1>2, <2>1, <2>2
<1>4. ASSUME NEW i \in 2..Len(todo) PROVE todo'[Len(w) + i - 1] = todo[i]
  <2> DEFINE m == Len(w) + i - 1
  <2>1. m \in 1..Len(todo') /\ m > Len(w) /\ m - Len(w) + 1 = i
    BY <1>1, <1>2, <1>4
  <2> HIDE DEF m
  <2>2. todo'[m] = todo[m - Len(w) + 1]
    BY <1>3, <2>1
  <2> QED BY <2>1, <2>2 DEF m
<1>5. ASSUME NEW i \in 1..Len(w) PROVE todo'[i] = w[i]
  <2>1. i \in 1..Len(todo') /\ i <= Len(w)
    BY <1>1, <1>2
  <2> QED BY <1>2, <2>1
<1> QED BY <1>1, <1>2, <1>3, <1>4, <1>5 DEF Replaced

\* In its place there is nothing.
LEMMA CallMade ==
  ASSUME todo \in Seq(Call), todo # <<>>, todo' = Tail(todo)
  PROVE  todo' \in Seq(Call) /\ Replaced(<<>>) /\ Len(todo) \in Nat \ {0} /\ Head(todo) = todo[1]
<1>1. <<>> \in Seq(Call) /\ todo' = <<>> \o Tail(todo)
  <2>1. Tail(todo) \in Seq(Call)
    OBVIOUS
  <2> QED BY <2>1
<1> QED BY <1>1, CallsReplaced

\* The other calls are still to be made, and the ones that take its place.
LEMMA StillDue ==
  ASSUME NEW w \in Seq(Call), Replaced(w), Len(todo) \in Nat \ {0}, NEW op, NEW s
  PROVE  /\ Due(op, s) => todo[1] = CallOn(op, s) \/ Due(op, s)'
         /\ (\E i \in 1..Len(w) : w[i] = CallOn(op, s)) => Due(op, s)'
<1>1. CallOn(op, s)' = CallOn(op, s) /\ Len(w) \in Nat
  BY DEF CallOn
<1>2. ASSUME NEW i \in 1..Len(todo), todo[i] = CallOn(op, s), i # 1 PROVE Due(op, s)'
  <2>1. i \in 2..Len(todo) /\ Len(w) + i - 1 \in 1..Len(todo')
    BY <1>1, <1>2 DEF Replaced
  <2>2. todo'[Len(w) + i - 1] = todo[i]
    BY <2>1 DEF Replaced
  <2> QED BY <1>1, <1>2, <2>1, <2>2 DEF Due
<1>3. ASSUME NEW i \in 1..Len(w), w[i] = CallOn(op, s) PROVE Due(op, s)'
  <2>1. i \in 1..Len(todo') /\ todo'[i] = w[i]
    BY <1>1 DEF Replaced
  <2> QED BY <1>1, <1>3, <2>1 DEF Due
<1> QED BY <1>2, <1>3 DEF Due

\* A call for every source.
LEMMA CallsSeq ==
  ASSUME NEW op \in {"reload_source", "load", "load_if_known", "over_found", "sweep"}
  PROVE  /\ Calls(op) \in Seq(Call) /\ Len(Calls(op)) = NumSources
         /\ \A i \in 1..NumSources : Calls(op)[i] = CallOn(op, i)
<1>1. NumSources \in Nat /\ \A i \in 1..NumSources : CallOn(op, i) \in Call
  BY ConfAssumption DEF CallOn, Call, Sources
<1> DEFINE f == [i \in 1..NumSources |-> CallOn(op, i)]
<1>2. Calls(op) = f
  BY DEF Calls, Sources
<1>3. f \in Seq(Call) /\ Len(f) = NumSources
  <2> HIDE DEF CallOn
  <2> QED BY <1>1
<1> QED BY <1>2, <1>3
-----------------------------------------------------------------------------
(* Editors: what they change is in a queue, or in a directory without a watch *)

\* The notes of what editors do.
OverNotes == {"over_changed", "over_deleted"}
ConfNotes == {"conf_changed", "conf_deleted"}

\* A step that makes no call and reads no notification.
Appends ==
  /\ todo' = todo /\ k' = k
  /\ \A r \in Sources : watch'[r] = "live" => watch[r] = "live"
  /\ \A r \in Sources : \/ notes'[r] = notes[r]
                        \/ \E e \in Note : notes'[r] = Append(notes[r], e)

\* What was queued is still queued.
LEMMA AppendsNoted ==
  ASSUME PInv, Appends, NEW r \in Sources, NEW S, Noted(r, S)
  PROVE  Noted(r, S)'
<1>1. PICK i \in 1..Len(notes[r]) : notes[r][i] \in S
  BY DEF Noted
<1>2. notes[r] \in Seq(Note)
  BY DEF PInv
<1>3. CASE notes'[r] = notes[r]
  BY <1>3 DEF Noted
<1>4. ASSUME NEW e \in Note, notes'[r] = Append(notes[r], e) PROVE Noted(r, S)'
  <2>1. Len(notes'[r]) = Len(notes[r]) + 1 /\ notes'[r][i] = notes[r][i]
    BY <1>2, <1>4, Queued
  <2>2. i \in 1..Len(notes'[r])
    BY <1>2, <2>1
  <2> QED BY <1>1, <2>1, <2>2 DEF Noted
<1> QED BY <1>3, <1>4 DEF Appends

\* What an editor changes is still to be looked at.
LEMMA EditFollowed ==
  ASSUME PInv, Appends, NEW t \in Sources,
         disk'.conf[t] = disk.conf[t] \/ ConfPending(t)',
         \A r \in Sources : \/ disk'.over[r] = disk.over[r]
                            \/ watch'[r] # "live" \/ Noted(r, OverNotes)'
  PROVE  Followed(t)'
<1>1. Followed(t)
  BY DEF PInv
<1>2. \A op, r : Due(op, r) => Due(op, r)'
  BY DEF Due, Appends, CallOn
<1>3. 1..t \subseteq Sources
  BY ConfAssumption DEF Sources
<1>4. ConfPending(t) => ConfPending(t)'
  <2>1. Noted(t, ConfNotes) => Noted(t, ConfNotes)'
    BY AppendsNoted
  <2> QED BY <1>2, <2>1 DEF ConfPending, Appends, ConfNotes
<1>5. OverPending(t) => OverPending(t)'
  <2>1. \A r \in Sources : Noted(r, OverNotes) => Noted(r, OverNotes)'
    BY AppendsNoted
  <2>2. \A r \in 1..t : watch[r] # "live" => watch'[r] # "live"
    BY <1>3 DEF Appends
  <2> QED BY <1>2, <1>3, <2>1, <2>2 DEF OverPending, OverNotes
<1>6. k' = k
  BY DEF Appends
<1>7. CASE Matches(k, t)
  <2>1. CASE disk'.conf[t] = disk.conf[t] /\ \A r \in 1..t : disk'.over[r] = disk.over[r]
    <3>1. Matches(k, t)'
      BY <1>6, <1>7, <2>1, MatchesSame DEF SameTexts
    <3> QED BY <3>1 DEF Followed
  <2>2. CASE disk'.conf[t] = disk.conf[t] /\ \E r \in 1..t : disk'.over[r] # disk.over[r]
    <3>1. PICK r \in 1..t : disk'.over[r] # disk.over[r]
      BY <2>2
    <3>2. watch'[r] # "live" \/ Noted(r, OverNotes)'
      BY <1>3, <3>1
    <3>3. OverPending(t)'
      BY <3>2 DEF OverPending, OverNotes
    <3>4. CASE k.file[t] = NoFile
      <4>1. disk.conf[t] = None
        BY <1>7, <3>4, NothingMatches
      <4>2. Matches(k, t)'
        BY <1>6, <2>2, <3>4, <4>1 DEF Matches, Usable
      <4> QED BY <4>2 DEF Followed
    <3>5. CASE k.file[t] # NoFile
      BY <1>6, <3>3, <3>5 DEF Followed
    <3> QED BY <3>4, <3>5
  <2>3. CASE ConfPending(t)'
    BY <2>3 DEF Followed
  <2> QED BY <2>1, <2>2, <2>3
<1>8. CASE ConfPending(t)
  BY <1>4, <1>8 DEF Followed
<1>9. CASE k.file[t] # NoFile /\ OverPending(t)
  BY <1>5, <1>6, <1>9 DEF Followed
<1> QED BY <1>1, <1>7, <1>8, <1>9 DEF Followed

\* The last word on a file is the notification of its last change.
LEMMA AppendsLastWord ==
  ASSUME PInv, NEW s \in Sources, LastWord(s), NEW e \in Note, notes'[s] = Append(notes[s], e),
         \/ e = "conf_changed" /\ disk'.conf[s] # None /\ disk'.over[s] = disk.over[s]
         \/ e = "conf_deleted" /\ disk'.conf[s] = None /\ disk'.over[s] = disk.over[s]
         \/ e = "over_changed" /\ disk'.conf[s] = disk.conf[s] /\ disk'.over[s] # None
         \/ e = "over_deleted" /\ disk'.conf[s] = disk.conf[s] /\ disk'.over[s] = None
  PROVE  LastWord(s)'
<1> DEFINE n == Len(notes[s])
<1>1. notes[s] \in Seq(Note) /\ n \in Nat
  BY DEF PInv
<1>2. /\ Len(notes'[s]) = n + 1 /\ notes'[s][n + 1] = e
      /\ \A i \in 1..n : notes'[s][i] = notes[s][i]
  BY <1>1, Queued
<1>3. ASSUME NEW i \in 1..n, NEW j \in (i + 1)..n
      PROVE  j \in (i + 1)..(n + 1) /\ notes'[s][j] = notes[s][j]
  <2>1. j \in 1..n /\ j \in (i + 1)..(n + 1)
    BY <1>1
  <2> QED BY <1>2, <2>1
<1>4. ASSUME NEW i \in 1..(n + 1), NEW a, notes'[s][i] = a, e # a
      PROVE  i \in 1..n /\ notes[s][i] = a /\ n + 1 \in (i + 1)..(n + 1)
  BY <1>1, <1>2, <1>4
<1> HIDE DEF n
<1>5. ASSUME NEW i \in 1..(n + 1)
      PROVE  /\ notes'[s][i] = "conf_changed" /\ disk'.conf[s] = None =>
                  \E j \in (i + 1)..(n + 1) : notes'[s][j] = "conf_deleted"
             /\ notes'[s][i] = "conf_deleted" /\ disk'.conf[s] # None =>
                  \E j \in (i + 1)..(n + 1) : notes'[s][j] = "conf_changed"
             /\ notes'[s][i] = "over_changed" /\ disk'.over[s] = None =>
                  \E j \in (i + 1)..(n + 1) : notes'[s][j] = "over_deleted"
  <2>0. \A a \in 1..n : /\ notes[s][a] = "conf_changed" /\ disk.conf[s] = None =>
                             \E j \in (a + 1)..n : notes[s][j] = "conf_deleted"
                        /\ notes[s][a] = "conf_deleted" /\ disk.conf[s] # None =>
                             \E j \in (a + 1)..n : notes[s][j] = "conf_changed"
                        /\ notes[s][a] = "over_changed" /\ disk.over[s] = None =>
                             \E j \in (a + 1)..n : notes[s][j] = "over_deleted"
    BY DEF LastWord, n
  <2>1. CASE notes'[s][i] = "conf_changed" /\ disk'.conf[s] = None
    <3>1. e # "conf_changed"
      BY <2>1
    <3>2. CASE e = "conf_deleted"
      BY <1>2, <1>4, <2>1, <3>1, <3>2
    <3>3. CASE e # "conf_deleted"
      <4>1. disk.conf[s] = None
        BY <2>1, <3>1, <3>3
      <4>2. i \in 1..n => \E j \in (i + 1)..n : notes[s][j] = "conf_deleted"
        BY <1>4, <2>0, <2>1, <3>1, <4>1
      <4>3. i \in 1..n
        BY <1>4, <2>1, <3>1
      <4>4. \E j \in (i + 1)..(n + 1) : notes'[s][j] = "conf_deleted"
        BY <1>3, <4>2, <4>3
      <4> QED BY <2>1, <4>4
    <3> QED BY <2>1, <3>2, <3>3
  <2>2. CASE notes'[s][i] = "conf_deleted" /\ disk'.conf[s] # None
    <3>1. e # "conf_deleted"
      BY <2>2
    <3>2. CASE e = "conf_changed"
      BY <1>2, <1>4, <2>2, <3>1, <3>2
    <3>3. CASE e # "conf_changed"
      <4>1. disk.conf[s] # None
        BY <2>2, <3>1, <3>3
      <4>2. i \in 1..n => \E j \in (i + 1)..n : notes[s][j] = "conf_changed"
        BY <1>4, <2>0, <2>2, <3>1, <4>1
      <4>3. i \in 1..n
        BY <1>4, <2>2, <3>1
      <4>4. \E j \in (i + 1)..(n + 1) : notes'[s][j] = "conf_changed"
        BY <1>3, <4>2, <4>3
      <4> QED BY <2>2, <4>4
    <3> QED BY <2>2, <3>2, <3>3
  <2>3. CASE notes'[s][i] = "over_changed" /\ disk'.over[s] = None
    <3>1. e # "over_changed"
      BY <2>3
    <3>2. CASE e = "over_deleted"
      BY <1>2, <1>4, <2>3, <3>1, <3>2
    <3>3. CASE e # "over_deleted"
      <4>1. disk.over[s] = None
        BY <2>3, <3>1, <3>3
      <4>2. i \in 1..n => \E j \in (i + 1)..n : notes[s][j] = "over_deleted"
        BY <1>4, <2>0, <2>3, <3>1, <4>1
      <4>3. i \in 1..n
        BY <1>4, <2>3, <3>1
      <4>4. \E j \in (i + 1)..(n + 1) : notes'[s][j] = "over_deleted"
        BY <1>3, <4>2, <4>3
      <4> QED BY <2>3, <4>4
    <3> QED BY <2>3, <3>2, <3>3
  <2>4. ("conf_changed" # "conf_deleted") /\ ("conf_deleted" # "over_changed")
    OBVIOUS
  <2> QED BY <2>1, <2>2, <2>3, <2>4
<1> QED BY <1>2, <1>5, SMTT(30) DEF LastWord

\* The order of the calls does not change with the disk: a .conf that a reload has
\* not seen has been notified.
LEMMA EditOrder ==
  ASSUME PInv, Appends,
         \A r \in Sources : disk'.conf[r] # None /\ watch'[r] = "live" =>
           disk.conf[r] # None \/ Noted(r, {"conf_changed"})'
  PROVE  ReloadOrder' /\ SweepOrder' /\ todo' \in Seq(Call)
<1>1. todo' = todo /\ k' = k /\ \A op, s : CallOn(op, s)' = CallOn(op, s)
  BY DEF Appends, CallOn
<1>2. ReloadOrder'
  BY <1>1 DEF PInv, ReloadOrder
<1>3. ASSUME NEW i \in 1..Len(todo), todo[i].op = "sweep", NEW s, s = todo[i].src,
             s \in k.stale, watch'[s] = "live", disk'.conf[s] # None
      PROVE  Noted(s, {"conf_changed"})' \/ \E j \in 1..(i - 1) : todo[j] = CallOn("load", s)
  <2>1. s \in Sources
    <3>1. todo \in Seq(Call)
      BY DEF PInv
    <3>2. todo[i] \in Call
      BY <3>1
    <3> QED BY <1>3, <3>2 DEF Call
  <2>2. CASE disk.conf[s] # None
    <3>1. watch[s] = "live"
      BY <1>3, <2>1 DEF Appends
    <3>2. Noted(s, {"conf_changed"}) \/ \E j \in 1..(i - 1) : todo[j] = CallOn("load", s)
      BY <1>3, <2>2, <3>1 DEF PInv, SweepOrder
    <3> QED BY <2>1, <3>2, AppendsNoted
  <2>3. CASE disk.conf[s] = None
    BY <1>3, <2>1, <2>3
  <2> QED BY <2>2, <2>3
<1>4. SweepOrder'
  BY <1>1, <1>3 DEF SweepOrder
<1> QED BY <1>1, <1>2, <1>4 DEF PInv

\* The kernel puts a notification at the end of the queue of a watched directory.
LEMMA NotifyAppends ==
  ASSUME PInv, NEW s \in Sources, NEW e \in Note, Notify(s, e), todo' = todo, k' = k,
         \A r \in Sources : watch'[r] = "live" => watch[r] = "live"
  PROVE  /\ Appends /\ notes' \in [Sources -> Seq(Note)]
         /\ watch[s] = "live" => notes'[s] = Append(notes[s], e) /\ Noted(s, {e})'
         /\ watch[s] # "live" => notes' = notes
         /\ \A r \in Sources \ {s} : notes'[r] = notes[r]
<1>1. notes \in [Sources -> Seq(Note)]
  BY DEF PInv
<1>2. CASE watch[s] = "live"
  <2>1. notes' = [notes EXCEPT ![s] = Append(@, e)]
    BY <1>2 DEF Notify
  <2>2. notes'[s] = Append(notes[s], e) /\ \A r \in Sources \ {s} : notes'[r] = notes[r]
    BY <1>1, <2>1
  <2>3. /\ Append(notes[s], e) \in Seq(Note)
        /\ Len(notes'[s]) = Len(notes[s]) + 1 /\ notes'[s][Len(notes'[s])] = e
    BY <1>1, <2>2, Queued
  <2>4. notes' \in [Sources -> Seq(Note)]
    BY <1>1, <2>1, <2>3
  <2>5. Len(notes'[s]) \in 1..Len(notes'[s])
    BY <1>1, <2>3
  <2>6. Noted(s, {e})'
    BY <2>3, <2>5 DEF Noted
  <2> QED BY <1>2, <2>2, <2>4, <2>6 DEF Appends
<1>3. CASE watch[s] # "live"
  <2>1. notes' = notes
    BY <1>3 DEF Notify
  <2> QED BY <1>1, <1>3, <2>1 DEF Appends
<1> QED BY <1>2, <1>3

\* Nothing is said of a directory that an editor does not touch.
LEMMA QueueSame ==
  ASSUME NEW s \in Sources, Queue(s), notes'[s] = notes[s], watch'[s] = watch[s],
         disk'.conf[s] = disk.conf[s], disk'.over[s] = disk.over[s]
  PROVE  Queue(s)'
<1>1. LastWord(s) => LastWord(s)'
  BY DEF LastWord
<1> QED BY <1>1 DEF Queue

\* The queue of the directory that it touches tells the change.
LEMMA QueueAppends ==
  ASSUME PInv, NEW s \in Sources, NEW e \in Note \ {"dir_deleted"}, watch' = watch,
         watch[s] = "live" => notes'[s] = Append(notes[s], e),
         watch[s] # "live" => notes' = notes,
         \/ e = "conf_changed" /\ disk'.conf[s] # None /\ disk'.over[s] = disk.over[s]
         \/ e = "conf_deleted" /\ disk'.conf[s] = None /\ disk'.over[s] = disk.over[s]
         \/ e = "over_changed" /\ disk'.conf[s] = disk.conf[s] /\ disk'.over[s] # None
         \/ e = "over_deleted" /\ disk'.conf[s] = disk.conf[s] /\ disk'.over[s] = None
  PROVE  Queue(s)'
<1>1. Queue(s) /\ notes[s] \in Seq(Note)
  BY DEF PInv
<1>2. CASE watch[s] = "live"
  <2>1. LastWord(s)'
    BY <1>1, <1>2, AppendsLastWord DEF Queue
  <2>2. /\ Len(notes'[s]) = Len(notes[s]) + 1 /\ notes'[s][Len(notes[s]) + 1] = e
        /\ \A i \in 1..Len(notes[s]) : notes'[s][i] = notes[s][i]
    BY <1>1, <1>2, Queued
  <2>3. \A i \in 1..Len(notes[s]) : notes[s][i] # "dir_deleted"
    BY <1>1, <1>2 DEF Queue
  <2>4. \A i \in 1..Len(notes'[s]) : notes'[s][i] # "dir_deleted"
    BY <1>1, <2>2, <2>3
  <2> QED BY <1>2, <2>1, <2>4 DEF Queue
<1>3. CASE watch[s] # "live"
  BY <1>1, <1>3 DEF Queue
<1> QED BY <1>2, <1>3

\* Whatever an editor changes, in a directory with a watch or without, is followed.
LEMMA DiskFollowed ==
  ASSUME IInv, PInv, Disk
  PROVE  PInv'
<1>1. PICK s \in Sources :
        \/ \E t \in ConfTexts : WriteConf(s, t)
        \/ \E t \in OverrideTexts : WriteOverride(s, t)
        \/ DeleteConf(s) \/ DeleteOverride(s) \/ RemoveDir(s) \/ MakeDir(s)
  BY DEF Disk
<1>2. /\ watch \in [Sources -> {"none", "live", "dead"}] /\ notes \in [Sources -> Seq(Note)]
      /\ \A r \in Sources : Queue(r)
  BY DEF PInv
<1>3. /\ disk = [dir |-> disk.dir, conf |-> disk.conf, over |-> disk.over]
      /\ disk.conf \in [Sources -> ConfTexts \cup {None}]
      /\ disk.over \in [Sources -> OverrideTexts \cup {None}]
  BY DEF IInv, DiskTyped
<1>4. None \notin ConfTexts /\ None \notin OverrideTexts
  BY ConfAssumption
<1>5. ASSUME NEW e \in Note \ {"dir_deleted"}, Notify(s, e), watch' = watch, todo' = todo, k' = k,
             \A r \in Sources \ {s} : disk'.conf[r] = disk.conf[r] /\ disk'.over[r] = disk.over[r],
             \/ e = "conf_changed" /\ disk'.conf[s] # None /\ disk'.over[s] = disk.over[s]
             \/ e = "conf_deleted" /\ disk'.conf[s] = None /\ disk'.over[s] = disk.over[s]
             \/ e = "over_changed" /\ disk'.conf[s] = disk.conf[s] /\ disk'.over[s] # None
             \/ e = "over_deleted" /\ disk'.conf[s] = disk.conf[s] /\ disk'.over[s] = None
      PROVE  PInv'
  <2>1. /\ Appends /\ notes' \in [Sources -> Seq(Note)]
        /\ watch[s] = "live" => notes'[s] = Append(notes[s], e) /\ Noted(s, {e})'
        /\ watch[s] # "live" => notes' = notes
        /\ \A r \in Sources \ {s} : notes'[r] = notes[r]
    <3>1. \A r \in Sources : watch'[r] = "live" => watch[r] = "live"
      BY <1>5
    <3> QED BY <1>5, <3>1, NotifyAppends
  <2>2. ASSUME NEW r \in Sources PROVE Queue(r)'
    <3>1. CASE r = s
      BY <1>5, <2>1, <3>1, QueueAppends
    <3>2. CASE r # s
      BY <1>2, <1>5, <2>1, <3>2, QueueSame
    <3> QED BY <3>1, <3>2
  <2>3. ReloadOrder' /\ SweepOrder' /\ todo' \in Seq(Call)
    <3>1. ASSUME NEW r \in Sources, disk'.conf[r] # None, watch'[r] = "live"
          PROVE  disk.conf[r] # None \/ Noted(r, {"conf_changed"})'
      BY <1>5, <2>1, <3>1
    <3> QED BY <2>1, <3>1, EditOrder
  <2>4. ASSUME NEW t \in Sources PROVE Followed(t)'
    <3>1. disk'.conf[t] = disk.conf[t] \/ ConfPending(t)'
      <4>1. CASE t = s /\ e \in ConfNotes
        <5>1. watch'[s] # "live" \/ Noted(s, ConfNotes)'
          BY <1>5, <2>1, <4>1 DEF Noted
        <5> QED BY <4>1, <5>1 DEF ConfPending, ConfNotes
      <4>2. CASE ~(t = s /\ e \in ConfNotes)
        BY <1>5, <4>2 DEF ConfNotes
      <4> QED BY <4>1, <4>2
    <3>2. ASSUME NEW r \in Sources
          PROVE  disk'.over[r] = disk.over[r] \/ watch'[r] # "live" \/ Noted(r, OverNotes)'
      <4>1. CASE r = s /\ e \in OverNotes
        BY <1>5, <2>1, <4>1 DEF Noted
      <4>2. CASE ~(r = s /\ e \in OverNotes)
        BY <1>5, <4>2 DEF OverNotes
      <4> QED BY <4>1, <4>2
    <3> QED BY <2>1, <3>1, <3>2, EditFollowed
  <2> QED BY <1>2, <1>5, <2>1, <2>2, <2>3, <2>4 DEF PInv
<1>6. ASSUME disk'.conf = disk.conf, disk'.over = disk.over, Appends,
             watch' \in [Sources -> {"none", "live", "dead"}], notes' \in [Sources -> Seq(Note)],
             \A r \in Sources : Queue(r)'
      PROVE  PInv'
  <2>1. ReloadOrder' /\ SweepOrder' /\ todo' \in Seq(Call)
    BY <1>6, EditOrder
  <2>2. \A t \in Sources : Followed(t)'
    BY <1>6, EditFollowed
  <2> QED BY <1>6, <2>1, <2>2 DEF PInv
<1>7. ASSUME NEW t \in ConfTexts, WriteConf(s, t) PROVE PInv'
  <2>1. /\ Notify(s, "conf_changed") /\ watch' = watch /\ todo' = todo /\ k' = k
        /\ disk' = [disk EXCEPT !.conf[s] = t]
    BY <1>7 DEF WriteConf, Edit
  <2>2. /\ disk'.over = disk.over /\ disk'.conf[s] = t
        /\ \A r \in Sources \ {s} : disk'.conf[r] = disk.conf[r]
    BY <1>3, <2>1
  <2> QED BY <1>4, <1>5, <2>1, <2>2 DEF Note
<1>8. ASSUME DeleteConf(s) PROVE PInv'
  <2>1. /\ Notify(s, "conf_deleted") /\ watch' = watch /\ todo' = todo /\ k' = k
        /\ disk' = [disk EXCEPT !.conf[s] = None]
    BY <1>8 DEF DeleteConf, Edit
  <2>2. /\ disk'.over = disk.over /\ disk'.conf[s] = None
        /\ \A r \in Sources \ {s} : disk'.conf[r] = disk.conf[r]
    BY <1>3, <2>1
  <2> QED BY <1>5, <2>1, <2>2 DEF Note
<1>9. ASSUME NEW t \in OverrideTexts, WriteOverride(s, t) PROVE PInv'
  <2>1. /\ Notify(s, "over_changed") /\ watch' = watch /\ todo' = todo /\ k' = k
        /\ disk' = [disk EXCEPT !.over[s] = t]
    BY <1>9 DEF WriteOverride, Edit
  <2>2. /\ disk'.conf = disk.conf /\ disk'.over[s] = t
        /\ \A r \in Sources \ {s} : disk'.over[r] = disk.over[r]
    BY <1>3, <2>1
  <2> QED BY <1>4, <1>5, <2>1, <2>2 DEF Note
<1>10. ASSUME DeleteOverride(s) PROVE PInv'
  <2>1. /\ Notify(s, "over_deleted") /\ watch' = watch /\ todo' = todo /\ k' = k
        /\ disk' = [disk EXCEPT !.over[s] = None]
    BY <1>10 DEF DeleteOverride, Edit
  <2>2. /\ disk'.conf = disk.conf /\ disk'.over[s] = None
        /\ \A r \in Sources \ {s} : disk'.over[r] = disk.over[r]
    BY <1>3, <2>1
  <2> QED BY <1>5, <2>1, <2>2 DEF Note
<1>11. ASSUME RemoveDir(s) PROVE PInv'
  <2>1. /\ Notify(s, "dir_deleted") /\ todo' = todo /\ k' = k
        /\ disk' = [disk EXCEPT !.dir[s] = FALSE]
        /\ watch' = IF watch[s] = "live" THEN [watch EXCEPT ![s] = "dead"] ELSE watch
    BY <1>11 DEF RemoveDir, Edit
  <2>2. disk'.conf = disk.conf /\ disk'.over = disk.over
    BY <1>3, <2>1
  <2>3. /\ watch' \in [Sources -> {"none", "live", "dead"}] /\ watch'[s] # "live"
        /\ \A r \in Sources \ {s} : watch'[r] = watch[r]
        /\ watch[s] = "live" => watch'[s] = "dead"
        /\ watch[s] # "live" => watch' = watch
    <3>1. CASE watch[s] = "live"
      BY <1>2, <2>1, <3>1
    <3>2. CASE watch[s] # "live"
      BY <1>2, <2>1, <3>2
    <3> QED BY <3>1, <3>2
  <2>4. /\ Appends /\ notes' \in [Sources -> Seq(Note)]
        /\ watch[s] = "live" => notes'[s] = Append(notes[s], "dir_deleted")
        /\ watch[s] # "live" => notes' = notes
        /\ \A r \in Sources \ {s} : notes'[r] = notes[r]
    <3>1. "dir_deleted" \in Note /\ \A r \in Sources : watch'[r] = "live" => watch[r] = "live"
      BY <2>3 DEF Note
    <3> QED BY <2>1, <3>1, NotifyAppends
  <2>5. ASSUME NEW r \in Sources PROVE Queue(r)'
    <3>1. CASE r # s
      BY <1>2, <2>2, <2>3, <2>4, <3>1, QueueSame
    <3>2. CASE r = s /\ watch[s] # "live"
      BY <1>2, <2>2, <2>3, <2>4, <3>2, QueueSame
    <3>3. CASE r = s /\ watch[s] = "live"
      <4>1. notes[s] \in Seq(Note) /\ "dir_deleted" \in Note
        BY <1>2 DEF Note
      <4>2. /\ Len(notes'[s]) = Len(notes[s]) + 1 /\ Len(notes[s]) \in Nat
            /\ \A i \in 1..Len(notes[s]) : notes'[s][i] = notes[s][i]
        BY <2>4, <3>3, <4>1, Queued, SMTT(30)
      <4>3. \A i \in 1..Len(notes[s]) : notes[s][i] # "dir_deleted"
        BY <1>2, <3>3 DEF Queue
      <4>4. \A i \in 1..Len(notes'[s]) : notes'[s][i] = "dir_deleted" => i = Len(notes'[s])
        BY <4>2, <4>3
      <4> QED BY <2>3, <3>3, <4>4 DEF Queue
    <3> QED BY <3>1, <3>2, <3>3
  <2> QED BY <1>6, <2>2, <2>3, <2>4, <2>5
<1>12. ASSUME MakeDir(s) PROVE PInv'
  <2>1. /\ watch' = watch /\ notes' = notes /\ todo' = todo /\ k' = k
        /\ disk' = [disk EXCEPT !.dir[s] = TRUE]
    BY <1>12 DEF MakeDir, Edit
  <2>2. disk'.conf = disk.conf /\ disk'.over = disk.over
    BY <1>3, <2>1
  <2>3. Appends
    BY <2>1 DEF Appends
  <2>4. \A r \in Sources : Queue(r)'
    BY <1>2, <2>1, <2>2, QueueSame
  <2> QED BY <1>2, <1>6, <2>1, <2>2, <2>3, <2>4
<1> QED BY <1>1, <1>7, <1>8, <1>9, <1>10, <1>11, <1>12

-----------------------------------------------------------------------------
(* The handlers: what they take from a queue they do, or the queue says it again *)

\* With no call to make, nothing is due.
LEMMA NothingDue ==
  ASSUME todo = <<>>
  PROVE  \A op, s : ~Due(op, s)
<1>1. Len(todo) = 0
  OBVIOUS
<1> QED BY <1>1 DEF Due

\* A notification is read.
LEMMA NoteRead ==
  ASSUME PInv, NEW s \in Sources, NEW e, HasNote(s, e)
  PROVE  /\ todo = <<>> /\ disk' = disk /\ notes' \in [Sources -> Seq(Note)]
         /\ notes[s] \in Seq(Note) /\ Len(notes[s]) \in Nat \ {0} /\ notes[s][1] = e
         /\ Len(notes'[s]) = Len(notes[s]) - 1
         /\ \A i \in 1..Len(notes'[s]) : notes'[s][i] = notes[s][i + 1]
         /\ \A i \in 2..Len(notes[s]) : notes'[s][i - 1] = notes[s][i]
         /\ \A r \in Sources \ {s} : notes'[r] = notes[r]
<1>1. /\ todo = <<>> /\ disk' = disk /\ notes[s] # <<>> /\ Head(notes[s]) = e
      /\ notes' = [notes EXCEPT ![s] = Tail(@)]
  BY DEF HasNote, Idle
<1>2. notes \in [Sources -> Seq(Note)]
  BY DEF PInv
<1>3. notes[s] \in Seq(Note) /\ notes'[s] = Tail(notes[s])
  BY <1>1, <1>2
<1>4. /\ notes'[s] \in Seq(Note) /\ Len(notes'[s]) = Len(notes[s]) - 1
      /\ Len(notes[s]) \in Nat \ {0} /\ Head(notes[s]) = notes[s][1]
      /\ \A i \in 1..Len(notes'[s]) : notes'[s][i] = notes[s][i + 1]
      /\ \A i \in 2..Len(notes[s]) : notes[s][i] = notes'[s][i - 1]
  BY <1>1, <1>3, Unqueued
<1>5. notes' \in [Sources -> Seq(Note)] /\ \A r \in Sources \ {s} : notes'[r] = notes[r]
  BY <1>1, <1>2, <1>3, <1>4
<1> QED BY <1>1, <1>3, <1>4, <1>5

\* Notifications of the other kind stay, and one that is told again.
LEMMA NoteStays ==
  ASSUME PInv, NEW s \in Sources, NEW e, HasNote(s, e), NEW r \in Sources, NEW S
  PROVE  /\ Noted(r, S) /\ (r # s \/ e \notin S) => Noted(r, S)'
         /\ \A d \in S : (\E j \in 2..Len(notes[s]) : notes[s][j] = d) => Noted(s, S)'
<1>1. /\ notes[s] \in Seq(Note) /\ Len(notes[s]) \in Nat \ {0} /\ notes[s][1] = e
      /\ Len(notes'[s]) = Len(notes[s]) - 1
      /\ \A i \in 2..Len(notes[s]) : notes'[s][i - 1] = notes[s][i]
      /\ \A t \in Sources \ {s} : notes'[t] = notes[t]
  BY NoteRead
<1>2. ASSUME NEW j \in 2..Len(notes[s]), notes[s][j] \in S PROVE Noted(s, S)'
  <2>1. j - 1 \in 1..Len(notes'[s]) /\ notes'[s][j - 1] \in S
    BY <1>1, <1>2
  <2> QED BY <2>1 DEF Noted
<1>3. ASSUME Noted(r, S), r # s \/ e \notin S PROVE Noted(r, S)'
  <2>1. CASE r # s
    BY <1>1, <1>3, <2>1 DEF Noted
  <2>2. CASE r = s
    <3>1. PICK i \in 1..Len(notes[s]) : notes[s][i] \in S
      BY <1>3, <2>2 DEF Noted
    <3>2. i \in 2..Len(notes[s])
      BY <1>1, <1>3, <2>2, <3>1
    <3> QED BY <1>2, <2>2, <3>1, <3>2
  <2> QED BY <2>1, <2>2
<1> QED BY <1>2, <1>3

\* The rest of a queue still has the last word.
LEMMA QueueRead ==
  ASSUME PInv, NEW s \in Sources, NEW e, HasNote(s, e), e # "dir_deleted",
         watch' = watch, NEW r \in Sources
  PROVE  Queue(r)'
<1>1. Queue(r) /\ Queue(s)
  BY DEF PInv
<1>2. /\ disk' = disk /\ notes[s] \in Seq(Note) /\ Len(notes[s]) \in Nat \ {0}
      /\ Len(notes'[s]) = Len(notes[s]) - 1
      /\ \A i \in 1..Len(notes'[s]) : notes'[s][i] = notes[s][i + 1]
      /\ \A i \in 2..Len(notes[s]) : notes'[s][i - 1] = notes[s][i]
      /\ \A t \in Sources \ {s} : notes'[t] = notes[t]
  BY NoteRead
<1>3. CASE r # s
  BY <1>1, <1>2, <1>3, QueueSame
<1>4. CASE r = s
  <2> DEFINE n == Len(notes[s])
  <2>1. watch[s] # "none"
    BY <1>1, <1>2 DEF Queue
  <2>2. ASSUME LastWord(s) PROVE LastWord(s)'
    <3>1. ASSUME NEW i \in 1..(n - 1), NEW d, \E j \in (i + 2)..n : notes[s][j] = d
          PROVE  \E j \in (i + 1)..(n - 1) : notes'[s][j] = d
      <4>1. PICK j \in (i + 2)..n : notes[s][j] = d
        BY <3>1
      <4>2. j - 1 \in (i + 1)..(n - 1) /\ j \in 2..n
        BY <1>2, <4>1
      <4> QED BY <1>2, <4>1, <4>2
    <3>2. ASSUME NEW i \in 1..(n - 1)
          PROVE  /\ notes'[s][i] = "conf_changed" /\ disk.conf[s] = None =>
                      \E j \in (i + 1)..(n - 1) : notes'[s][j] = "conf_deleted"
                 /\ notes'[s][i] = "conf_deleted" /\ disk.conf[s] # None =>
                      \E j \in (i + 1)..(n - 1) : notes'[s][j] = "conf_changed"
                 /\ notes'[s][i] = "over_changed" /\ disk.over[s] = None =>
                      \E j \in (i + 1)..(n - 1) : notes'[s][j] = "over_deleted"
      <4>1. i + 1 \in 1..n /\ notes'[s][i] = notes[s][i + 1] /\ (i + 1) + 1 = i + 2
        BY <1>2
      <4>2. /\ notes[s][i + 1] = "conf_changed" /\ disk.conf[s] = None =>
                 \E j \in (i + 2)..n : notes[s][j] = "conf_deleted"
            /\ notes[s][i + 1] = "conf_deleted" /\ disk.conf[s] # None =>
                 \E j \in (i + 2)..n : notes[s][j] = "conf_changed"
            /\ notes[s][i + 1] = "over_changed" /\ disk.over[s] = None =>
                 \E j \in (i + 2)..n : notes[s][j] = "over_deleted"
        <5> DEFINE m == i + 1
        <5>1. /\ notes[s][m] = "conf_changed" /\ disk.conf[s] = None =>
                   \E j \in (m + 1)..n : notes[s][j] = "conf_deleted"
              /\ notes[s][m] = "conf_deleted" /\ disk.conf[s] # None =>
                   \E j \in (m + 1)..n : notes[s][j] = "conf_changed"
              /\ notes[s][m] = "over_changed" /\ disk.over[s] = None =>
                   \E j \in (m + 1)..n : notes[s][j] = "over_deleted"
          BY <2>2, <4>1 DEF LastWord
        <5> QED BY <4>1, <5>1
      <4> HIDE DEF n
      <4> QED BY <3>1, <4>1, <4>2
    <3> QED BY <1>2, <3>2 DEF LastWord
  <2>3. \A i \in 1..Len(notes'[s]) :
          notes'[s][i] = "dir_deleted" => watch[s] = "dead" /\ i = Len(notes'[s])
    <3>1. ASSUME NEW i \in 1..Len(notes'[s]), notes'[s][i] = "dir_deleted"
          PROVE  watch[s] = "dead" /\ i = Len(notes'[s])
      <4>1. i + 1 \in 1..n /\ notes[s][i + 1] = "dir_deleted"
        BY <1>2, <3>1
      <4>2. watch[s] = "dead" /\ i + 1 = n
        BY <1>1, <4>1 DEF Queue
      <4> QED BY <1>2, <4>2
    <3> QED BY <3>1
  <2> QED BY <1>1, <1>4, <2>1, <2>2, <2>3 DEF Queue
<1> QED BY <1>3, <1>4

\* A source that the notification is not about stays followed, and one that it is
\* about when the handler sees to that.
LEMMA FollowedRead ==
  ASSUME PInv, NEW s \in Sources, NEW e, HasNote(s, e), NEW t \in Sources,
         \A r \in Sources : watch[r] # "live" => watch'[r] # "live",
         k'.file[t] = k.file[t], k.file[t] \in ClassIds => SameTexts(k, k', k.file[t]),
         ~(t = s /\ e \in ConfNotes), s \in 1..t /\ e \in OverNotes => OverPending(t)'
  PROVE  Followed(t)'
<1>1. Followed(t) /\ 1..t \subseteq Sources
  BY ConfAssumption DEF PInv, Sources
<1>2. todo = <<>> /\ disk' = disk
  BY NoteRead
<1>3. \A op, r : ~Due(op, r)
  BY <1>2, NothingDue
<1>4. CASE Matches(k, t)
  <2>1. Matches(k, t)'
    BY <1>2, <1>4, MatchesSame
  <2> QED BY <2>1 DEF Followed
<1>5. CASE ConfPending(t)
  <2>1. watch[t] # "live" \/ Noted(t, ConfNotes)
    BY <1>3, <1>5 DEF ConfPending, ConfNotes
  <2>2. watch'[t] # "live" \/ Noted(t, ConfNotes)'
    BY <2>1, NoteStays
  <2> QED BY <2>2 DEF Followed, ConfPending, ConfNotes
<1>6. CASE k.file[t] # NoFile /\ OverPending(t)
  <2>1. PICK r \in 1..t : watch[r] # "live" \/ Noted(r, OverNotes)
    BY <1>3, <1>6 DEF OverPending, OverNotes
  <2>2. r \in Sources
    BY <1>1
  <2>3. watch'[r] # "live" \/ Noted(r, OverNotes)' \/ OverPending(t)'
    <3>1. CASE r = s /\ e \in OverNotes
      BY <3>1
    <3>2. CASE ~(r = s /\ e \in OverNotes)
      BY <2>1, <2>2, <3>2, NoteStays
    <3> QED BY <3>1, <3>2
  <2>4. OverPending(t)'
    BY <2>3 DEF OverPending, OverNotes
  <2> QED BY <1>6, <2>4 DEF Followed
<1> QED BY <1>1, <1>4, <1>5, <1>6 DEF Followed

\* A handler that has calls to make for a notification.
LEMMA NotesFollowed ==
  ASSUME IInv, PInv, NEW s \in Sources,
         ConfChanged(s) \/ OverrideChanged(s) \/ ConfDeleted(s) \/ OverrideDeleted(s) \/ DirDeleted(s)
  PROVE  PInv'
<1>1. /\ watch \in [Sources -> {"none", "live", "dead"}] /\ notes \in [Sources -> Seq(Note)]
      /\ \A r \in Sources : Queue(r)
  BY DEF PInv
<1>2. ASSUME NEW e, HasNote(s, e), e # "dir_deleted", watch' = watch,
             todo' = <<>> \/ todo' = <<CallOn("load", s)>> \/ todo' = Calls("load_if_known"),
             \A t \in Sources : Followed(t)'
      PROVE  PInv'
  <2>1. notes' \in [Sources -> Seq(Note)] /\ \A r \in Sources : Queue(r)'
    BY <1>2, NoteRead, QueueRead
  <2>2. todo' \in Seq(Call) /\ \A i \in 1..Len(todo') : todo'[i].op \notin {"reload_source", "sweep"}
    <3>1. CASE todo' = <<>>
      BY <3>1
    <3>2. CASE todo' = <<CallOn("load", s)>>
      BY <3>2 DEF CallOn, Call
    <3>3. CASE todo' = Calls("load_if_known")
      <4>1. /\ todo' \in Seq(Call) /\ Len(todo') = NumSources
            /\ \A i \in 1..NumSources : todo'[i] = CallOn("load_if_known", i)
        BY <3>3, CallsSeq
      <4> QED BY <4>1 DEF CallOn
    <3> QED BY <1>2, <3>1, <3>2, <3>3
  <2>3. (ReloadOrder /\ SweepOrder)'
    BY <2>2 DEF ReloadOrder, SweepOrder
  <2> QED BY <1>1, <1>2, <2>1, <2>2, <2>3 DEF PInv
<1>3. ASSUME NEW e, HasNote(s, e), watch[s] = "live", NEW d, NEW S, d \in S,
             \E j \in 2..Len(notes[s]) : notes[s][j] = d
      PROVE  Noted(s, S)'
  BY <1>3, NoteStays
<1>4. CASE ConfChanged(s)
  <2>1. /\ HasNote(s, "conf_changed") /\ k' = k /\ watch' = watch
        /\ todo' = IF disk.conf[s] = None THEN <<>> ELSE <<CallOn("load", s)>>
    BY <1>4 DEF ConfChanged
  <2>2. ASSUME NEW t \in Sources, t # s PROVE Followed(t)'
    BY <2>1, <2>2, FollowedRead DEF SameTexts, OverNotes
  <2>3. ConfPending(s)'
    <3>1. CASE disk.conf[s] # None
      <4>1. todo' = <<CallOn("load", s)>>
        BY <2>1, <3>1
      <4>2. 1 \in 1..Len(todo') /\ todo'[1] = CallOn("load", s)
        BY <4>1
      <4>3. Due("load", s)'
        BY <4>2 DEF Due, CallOn
      <4> QED BY <4>3 DEF ConfPending
    <3>2. CASE disk.conf[s] = None /\ watch[s] = "live"
      <4>1. Len(notes[s]) \in Nat \ {0} /\ notes[s][1] = "conf_changed" /\ LastWord(s)
        BY <1>1, <2>1, <3>2, NoteRead DEF Queue
      <4>2. \E j \in 2..Len(notes[s]) : notes[s][j] = "conf_deleted"
        BY <3>2, <4>1 DEF LastWord
      <4>3. Noted(s, ConfNotes)'
        BY <1>3, <2>1, <3>2, <4>2 DEF ConfNotes
      <4> QED BY <4>3 DEF ConfPending, ConfNotes
    <3>3. CASE watch[s] # "live"
      BY <2>1, <3>3 DEF ConfPending
    <3> QED BY <3>1, <3>2, <3>3
  <2>4. \A t \in Sources : Followed(t)'
    BY <2>2, <2>3 DEF Followed
  <2> QED BY <1>2, <2>1, <2>4
<1>5. CASE OverrideChanged(s) \/ OverrideDeleted(s)
  <2>1. PICK e \in OverNotes : HasNote(s, e) /\ (OverrideDeleted(s) => e = "over_deleted")
                                /\ (OverrideChanged(s) => e = "over_changed")
    <3>1. CASE OverrideChanged(s)
      <4>1. HasNote(s, "over_changed") /\ notes[s] # <<>> /\ Head(notes[s]) = "over_changed"
        BY <3>1 DEF OverrideChanged, HasNote
      <4>2. ~OverrideDeleted(s)
        BY <4>1 DEF OverrideDeleted, HasNote
      <4> QED BY <4>1, <4>2 DEF OverNotes
    <3>2. CASE OverrideDeleted(s)
      <4>1. HasNote(s, "over_deleted") /\ notes[s] # <<>> /\ Head(notes[s]) = "over_deleted"
        BY <3>2 DEF OverrideDeleted, HasNote
      <4>2. ~OverrideChanged(s)
        BY <4>1 DEF OverrideChanged, HasNote
      <4> QED BY <4>1, <4>2 DEF OverNotes
    <3> QED BY <1>5, <3>1, <3>2
  <2>2. /\ k' = k /\ watch' = watch
        /\ \/ todo' = Calls("load_if_known")
           \/ todo' = <<>> /\ e = "over_changed" /\ disk.over[s] = None
    BY <1>5, <2>1 DEF OverrideChanged, OverrideDeleted
  <2>3. ASSUME NEW t \in Sources, s \in 1..t PROVE OverPending(t)'
    <3>1. CASE todo' = Calls("load_if_known")
      <4>1. Len(todo') = NumSources /\ todo'[t] = CallOn("load_if_known", t) /\ t \in 1..NumSources
        BY <3>1, CallsSeq DEF Sources
      <4>2. Due("load_if_known", t)'
        BY <4>1 DEF Due, CallOn
      <4> QED BY <4>2 DEF OverPending
    <3>2. CASE e = "over_changed" /\ disk.over[s] = None /\ watch[s] = "live"
      <4>1. Len(notes[s]) \in Nat \ {0} /\ notes[s][1] = "over_changed" /\ LastWord(s)
        BY <1>1, <2>1, <3>2, NoteRead DEF Queue
      <4>2. \E j \in 2..Len(notes[s]) : notes[s][j] = "over_deleted"
        BY <3>2, <4>1 DEF LastWord
      <4>3. Noted(s, OverNotes)'
        BY <1>3, <2>1, <3>2, <4>2 DEF OverNotes
      <4> QED BY <2>3, <4>3 DEF OverPending, OverNotes
    <3>3. CASE watch[s] # "live"
      BY <2>2, <2>3, <3>3 DEF OverPending
    <3> QED BY <2>2, <3>1, <3>2, <3>3
  <2>4. ASSUME NEW t \in Sources PROVE Followed(t)'
    BY <2>1, <2>2, <2>3, FollowedRead DEF SameTexts, OverNotes, ConfNotes
  <2>5. e # "dir_deleted"
    BY DEF OverNotes
  <2> QED BY <1>2, <2>1, <2>2, <2>4, <2>5
<1>6. CASE ConfDeleted(s)
  <2>1. /\ HasNote(s, "conf_deleted") /\ todo' = todo /\ watch' = watch
        /\ k' = ConfFileDestroy(Unlink(k, s), k.file[s])
    BY <1>6 DEF ConfDeleted
  <2>2. OnlyAt(k, s, k') /\ k'.file[s] = NoFile
    BY <2>1, GoneSound DEF IInv
  <2>3. ASSUME NEW t \in Sources, t # s PROVE Followed(t)'
    <3>1. k'.file[t] = k.file[t] /\ (k.file[t] \in ClassIds => SameTexts(k, k', k.file[t]))
      BY <2>2, <2>3 DEF OnlyAt
    <3> QED BY <2>1, <2>3, <3>1, FollowedRead DEF OverNotes
  <2>4. Followed(s)'
    <3>1. CASE disk.conf[s] = None
      <4>1. disk' = disk
        BY <2>1, NoteRead
      <4>2. Matches(k, s)'
        BY <2>2, <3>1, <4>1 DEF Matches, Usable
      <4> QED BY <4>2 DEF Followed
    <3>2. CASE disk.conf[s] # None /\ watch[s] = "live"
      <4>1. Len(notes[s]) \in Nat \ {0} /\ notes[s][1] = "conf_deleted" /\ LastWord(s)
        BY <1>1, <2>1, <3>2, NoteRead DEF Queue
      <4>2. \E j \in 2..Len(notes[s]) : notes[s][j] = "conf_changed"
        BY <3>2, <4>1 DEF LastWord
      <4>3. Noted(s, ConfNotes)'
        BY <1>3, <2>1, <3>2, <4>2 DEF ConfNotes
      <4> QED BY <4>3 DEF Followed, ConfPending, ConfNotes
    <3>3. CASE watch[s] # "live"
      BY <2>1, <3>3 DEF Followed, ConfPending
    <3> QED BY <3>1, <3>2, <3>3
  <2>5. todo' = <<>>
    BY <2>1, NoteRead
  <2>6. \A t \in Sources : Followed(t)'
    BY <2>3, <2>4
  <2> QED BY <1>2, <2>1, <2>5, <2>6
<1>7. CASE DirDeleted(s)
  <2>1. /\ HasNote(s, "dir_deleted") /\ todo' = todo /\ k' = k
        /\ watch' = [watch EXCEPT ![s] = "none"]
    BY <1>7 DEF DirDeleted
  <2>2. /\ todo = <<>> /\ disk' = disk /\ notes' \in [Sources -> Seq(Note)]
        /\ Len(notes[s]) \in Nat \ {0} /\ notes[s][1] = "dir_deleted"
        /\ Len(notes'[s]) = Len(notes[s]) - 1
        /\ \A r \in Sources \ {s} : notes'[r] = notes[r]
    BY <2>1, NoteRead
  <2>3. watch[s] = "dead" /\ 1 = Len(notes[s])
    BY <1>1, <2>2 DEF Queue
  <2>4. notes'[s] = <<>>
    <3>1. notes'[s] \in Seq(Note) /\ Len(notes'[s]) = 0
      BY <2>2, <2>3
    <3> QED BY <3>1
  <2>5. /\ watch' \in [Sources -> {"none", "live", "dead"}] /\ watch'[s] = "none"
        /\ \A r \in Sources \ {s} : watch'[r] = watch[r]
    BY <1>1, <2>1
  <2>6. ASSUME NEW r \in Sources PROVE Queue(r)'
    <3>1. CASE r = s
      BY <2>4, <2>5, <3>1 DEF Queue
    <3>2. CASE r # s
      BY <1>1, <2>2, <2>5, <3>2, QueueSame
    <3> QED BY <3>1, <3>2
  <2>7. \A t \in Sources : Followed(t)'
    BY <2>1, <2>3, <2>5, FollowedRead DEF SameTexts, OverNotes, ConfNotes
  <2>8. (ReloadOrder /\ SweepOrder)' /\ todo' \in Seq(Call)
    BY <2>1, <2>2 DEF ReloadOrder, SweepOrder
  <2> QED BY <2>2, <2>5, <2>6, <2>7, <2>8 DEF PInv
<1> QED BY <1>4, <1>5, <1>6, <1>7

-----------------------------------------------------------------------------
(* The calls of a handler, in their order *)

\* A call that is made leaves what is to be done for the other sources.
LEMMA FollowedCall ==
  ASSUME PInv, NEW w \in Seq(Call), Replaced(w), Len(todo) \in Nat \ {0},
         disk' = disk, notes' = notes, NEW t \in Sources,
         \A r \in 1..t : watch[r] # "live" => watch'[r] # "live",
         k'.file[t] = k.file[t], k.file[t] \in ClassIds => SameTexts(k, k', k.file[t]),
         t \in k.stale => t \in k'.stale,
         todo[1] \notin {CallOn("load", t), CallOn("reload_source", t)},
         t \in k.stale => todo[1] # CallOn("sweep", t),
         \/ k.file[t] = NoFile \/ OverPending(t)'
         \/ /\ todo[1] # CallOn("load_if_known", t)
            /\ \A r \in Sources : todo[1] # CallOn("over_found", r)
  PROVE  Followed(t)'
<1>1. Followed(t) /\ 1..t \subseteq Sources /\ t \in 1..t
  BY ConfAssumption DEF PInv, Sources
<1>2. \A op, r : Due(op, r) => todo[1] = CallOn(op, r) \/ Due(op, r)'
  BY StillDue
<1>3. \A r, S : Noted(r, S) => Noted(r, S)'
  BY DEF Noted
<1>4. CASE Matches(k, t)
  <2>1. Matches(k, t)'
    BY <1>4, MatchesSame
  <2> QED BY <2>1 DEF Followed
<1>5. CASE ConfPending(t)
  <2>1. ConfPending(t)'
    BY <1>1, <1>2, <1>3, <1>5 DEF ConfPending
  <2> QED BY <2>1 DEF Followed
<1>6. CASE k.file[t] # NoFile /\ OverPending(t)
  <2>1. CASE OverPending(t)'
    BY <1>6, <2>1 DEF Followed
  <2>2. CASE /\ todo[1] # CallOn("load_if_known", t)
             /\ \A r \in Sources : todo[1] # CallOn("over_found", r)
    <3>1. OverPending(t)'
      BY <1>1, <1>2, <1>3, <1>6, <2>2 DEF OverPending
    <3> QED BY <1>6, <3>1 DEF Followed
  <2> QED BY <1>6, <2>1, <2>2
<1> QED BY <1>1, <1>4, <1>5, <1>6 DEF Followed

\* Where the calls are that take the place of the first one, and the others.
LEMMA ReplacedAt ==
  ASSUME NEW w \in Seq(Call), Replaced(w), Len(todo) \in Nat \ {0}
  PROVE  LET m == Len(w)
             n == Len(todo)
         IN /\ m \in Nat /\ n \in Nat /\ Len(todo') = m + n - 1
            /\ \A i \in 1..m : todo'[i] = w[i]
            /\ \A i \in 2..n : todo'[m + i - 1] = todo[i]
            /\ \A i \in 1..(m + n - 1) :
                 i > m => i - m + 1 \in 2..n /\ todo'[i] = todo[i - m + 1]
BY DEF Replaced

\* The sources still to be reloaded stay at the end of the calls.
LEMMA ReloadOrderKept ==
  ASSUME PInv, NEW w \in Seq(Call), Replaced(w), Len(todo) \in Nat \ {0},
         \A i \in 1..Len(w) : w[i].op # "reload_source"
  PROVE  ReloadOrder'
<1> DEFINE m == Len(w)
           n == Len(todo)
<1>1. /\ m \in Nat /\ n \in Nat /\ Len(todo') = m + n - 1
      /\ \A i \in 1..m : todo'[i] = w[i]
      /\ \A i \in 2..n : todo'[m + i - 1] = todo[i]
      /\ \A i \in 1..(m + n - 1) : i > m => i - m + 1 \in 2..n /\ todo'[i] = todo[i - m + 1]
  BY ReplacedAt
<1>2. ASSUME NEW i \in 1..(m + n - 1), todo'[i].op = "reload_source"
      PROVE  /\ \A j \in i..(m + n - 1) : todo'[j].op = "reload_source"
             /\ \A t \in Sources : t > todo'[i].src =>
                  \E j \in (i + 1)..(m + n - 1) : todo'[j] = CallOn("reload_source", t)
  <2> DEFINE a == i - m + 1
  <2>1. i > m
    BY <1>1, <1>2
  <2>2. a \in 2..n /\ todo'[i] = todo[a]
    BY <1>1, <2>1
  <2>3. /\ \A j \in a..n : todo[j].op = "reload_source"
        /\ \A t \in Sources : t > todo[a].src =>
             \E j \in (a + 1)..n : todo[j] = CallOn("reload_source", t)
    <3>1. a \in 1..n /\ todo[a].op = "reload_source"
      BY <1>1, <1>2, <2>2
    <3> HIDE DEF a
    <3> QED BY <3>1 DEF PInv, ReloadOrder
  <2>4. ASSUME NEW j \in i..(m + n - 1) PROVE todo'[j].op = "reload_source"
    <3>1. j \in 1..(m + n - 1) /\ j > m /\ j - m + 1 \in a..n
      BY <1>1, <2>1
    <3>2. todo'[j] = todo[j - m + 1]
      BY <1>1, <3>1
    <3> QED BY <2>3, <3>1, <3>2
  <2>5. ASSUME NEW t \in Sources, t > todo'[i].src
        PROVE  \E j \in (i + 1)..(m + n - 1) : todo'[j] = CallOn("reload_source", t)
    <3>1. PICK j \in (a + 1)..n : todo[j] = CallOn("reload_source", t)
      BY <2>2, <2>3, <2>5
    <3>2. j \in 2..n /\ m + j - 1 \in (i + 1)..(m + n - 1)
      BY <1>1, <2>2
    <3>3. todo'[m + j - 1] = todo[j]
      BY <1>1, <3>2
    <3> QED BY <3>1, <3>2, <3>3
  <2> QED BY <2>4, <2>5
<1> HIDE DEF m, n
<1>3. \A t : CallOn("reload_source", t)' = CallOn("reload_source", t)
  BY DEF CallOn
<1> QED BY <1>1, <1>2, <1>3 DEF ReloadOrder

\* The loads that are to come before a sweep still do.
LEMMA SweepOrderKept ==
  ASSUME PInv, NEW w \in Seq(Call), Replaced(w), Len(todo) \in Nat \ {0},
         disk' = disk, notes' = notes,
         \A i \in 1..Len(w) : w[i].op # "sweep",
         \A r \in Sources : watch'[r] = "live" => watch[r] = "live",
         \A r \in Sources : r \in k'.stale => r \in k.stale /\ todo[1] # CallOn("load", r)
  PROVE  SweepOrder'
<1> DEFINE m == Len(w)
           n == Len(todo)
<1>1. /\ m \in Nat /\ n \in Nat /\ Len(todo') = m + n - 1
      /\ \A i \in 1..m : todo'[i] = w[i]
      /\ \A i \in 2..n : todo'[m + i - 1] = todo[i]
      /\ \A i \in 1..(m + n - 1) : i > m => i - m + 1 \in 2..n /\ todo'[i] = todo[i - m + 1]
  BY ReplacedAt
<1>2. ASSUME NEW i \in 1..(m + n - 1), todo'[i].op = "sweep", NEW s, s = todo'[i].src,
             s \in k'.stale, watch'[s] = "live", disk.conf[s] # None
      PROVE  \/ Noted(s, {"conf_changed"})
             \/ \E j \in 1..(i - 1) : todo'[j] = CallOn("load", s)
  <2> DEFINE a == i - m + 1
  <2>1. i > m
    BY <1>1, <1>2
  <2>2. a \in 2..n /\ a \in 1..n /\ todo'[i] = todo[a]
    BY <1>1, <2>1
  <2>3. s \in Sources
    <3>1. todo \in Seq(Call)
      BY DEF PInv
    <3>2. todo[a] \in Call
      BY <2>2, <3>1
    <3> QED BY <1>2, <2>2, <3>2 DEF Call
  <2>4. Noted(s, {"conf_changed"}) \/ \E j \in 1..(a - 1) : todo[j] = CallOn("load", s)
    <3> HIDE DEF a
    <3> QED BY <1>2, <2>2, <2>3 DEF PInv, SweepOrder
  <2>5. ASSUME NEW j \in 1..(a - 1), todo[j] = CallOn("load", s)
        PROVE  \E b \in 1..(i - 1) : todo'[b] = CallOn("load", s)
    <3>1. j # 1
      BY <1>2, <2>3, <2>5
    <3>2. j \in 2..n /\ m + j - 1 \in 1..(i - 1)
      BY <1>1, <2>2, <3>1
    <3>3. todo'[m + j - 1] = todo[j]
      BY <1>1, <3>2
    <3> QED BY <2>5, <3>2, <3>3
  <2> QED BY <2>4, <2>5
<1> HIDE DEF m, n
<1>3. ASSUME NEW i \in 1..Len(todo'), todo'[i].op = "sweep", todo'[i].src \in k'.stale,
             watch'[todo'[i].src] = "live", disk'.conf[todo'[i].src] # None
      PROVE  \/ Noted(todo[i].src, {"conf_changed"})'
             \/ \E j \in 1..(i - 1) : todo'[j] = CallOn("load", todo[i].src)'
  <2>1. /\ Noted(todo[i].src, {"conf_changed"})' <=> Noted(todo'[i].src, {"conf_changed"})
        /\ CallOn("load", todo[i].src)' = CallOn("load", todo'[i].src)
    BY DEF Noted, CallOn
  <2>2. \/ Noted(todo'[i].src, {"conf_changed"})
        \/ \E j \in 1..(i - 1) : todo'[j] = CallOn("load", todo'[i].src)
    BY <1>1, <1>2, <1>3
  <2> QED BY <2>1, <2>2
<1> QED BY <1>3 DEF SweepOrder

\* A call by which nothing but the ConfFile of its source changes.
LEMMA CallKept ==
  ASSUME PInv, NEW s \in Sources, NEW op, Doing(op, s), watch' = watch, todo' = Tail(todo),
         op \in {"load", "load_if_known", "sweep"},
         \/ OnlyAt(k, s, k') /\ Followed(s)'
         \/ k' = k /\ op # "load" /\ (op = "sweep" => s \notin k.stale)
                   /\ (op = "load_if_known" => k.file[s] = NoFile)
  PROVE  PInv'
<1>1. /\ watch \in [Sources -> {"none", "live", "dead"}] /\ notes \in [Sources -> Seq(Note)]
      /\ todo \in Seq(Call) /\ \A r \in Sources : Queue(r)
  BY DEF PInv
<1>2. todo # <<>> /\ Head(todo) = CallOn(op, s) /\ disk' = disk /\ notes' = notes
  BY DEF Doing
<1>3. /\ todo' \in Seq(Call) /\ Replaced(<<>>) /\ Len(todo) \in Nat \ {0}
      /\ todo[1] = CallOn(op, s)
  BY <1>1, <1>2, CallMade
<1> DEFINE w == <<>>
<1>4. w \in Seq(Call) /\ Len(w) = 0 /\ Replaced(w) /\ 1..Len(w) = {}
  BY <1>3
<1> HIDE DEF w
<1>5. ReloadOrder'
  BY <1>3, <1>4, ReloadOrderKept
<1>6. SweepOrder'
  <2>1. ASSUME NEW r \in Sources, r \in k'.stale
        PROVE  r \in k.stale /\ todo[1] # CallOn("load", r)
    <3>1. CASE OnlyAt(k, s, k')
      BY <1>3, <2>1, <3>1 DEF OnlyAt, CallOn
    <3>2. CASE k' = k /\ op # "load"
      BY <1>3, <2>1, <3>2 DEF CallOn
    <3> QED BY <3>1, <3>2
  <2> QED BY <1>2, <1>3, <1>4, <2>1, SweepOrderKept
<1>7. \A r \in Sources : Queue(r)'
  BY <1>1, <1>2, QueueSame
<1>8. ASSUME NEW t \in Sources PROVE Followed(t)'
  <2>1. CASE t = s /\ Followed(s)'
    BY <2>1
  <2>2. CASE t # s
    <3>1. \A p : todo[1] # CallOn(p, t)
      BY <1>3, <2>2 DEF CallOn
    <3>2. \A r \in Sources : todo[1] # CallOn("over_found", r)
      BY <1>3 DEF CallOn
    <3>3. /\ k'.file[t] = k.file[t] /\ (k.file[t] \in ClassIds => SameTexts(k, k', k.file[t]))
          /\ t \in k.stale => t \in k'.stale
      BY <2>2 DEF OnlyAt, SameTexts
    <3> QED BY <1>2, <1>3, <1>4, <3>1, <3>2, <3>3, FollowedCall
  <2>3. CASE /\ t = s /\ k' = k /\ op # "load" /\ (op = "sweep" => s \notin k.stale)
             /\ op = "load_if_known" => k.file[s] = NoFile
    <3>1. /\ todo[1] \notin {CallOn("load", t), CallOn("reload_source", t)}
          /\ \A r \in Sources : todo[1] # CallOn("over_found", r)
          /\ t \in k.stale => todo[1] # CallOn("sweep", t)
          /\ k.file[t] = NoFile \/ todo[1] # CallOn("load_if_known", t)
      BY <1>3, <2>3 DEF CallOn
    <3>2. k'.file[t] = k.file[t] /\ SameTexts(k, k', k.file[t]) /\ k'.stale = k.stale
      BY <2>3 DEF SameTexts
    <3> QED BY <1>2, <1>3, <1>4, <3>1, <3>2, FollowedCall
  <2> QED BY <2>1, <2>2, <2>3
<1> QED BY <1>1, <1>2, <1>3, <1>5, <1>6, <1>7, <1>8 DEF PInv

\* A ConfFile that was just made of the disk matches it.
LEMMA MatchesNow ==
  ASSUME NEW s \in Sources, disk' = disk, Matches(k', s)
  PROVE  Followed(s)'
<1>1. BestOverride(s)' = BestOverride(s)
  BY BestOverrideSame
<1>2. (Usable(s)' <=> Usable(s)) /\ Expected(s)' = Expected(s)
  BY <1>1 DEF Usable, Expected
<1>3. Matches(k, s)'
  BY <1>2 DEF Matches, Made
<1> QED BY <1>3 DEF Followed

\* conf_load_path_with_override() leaves nothing to be done for its source, nor does
\* the end of conf_source_reload().
LEMMA LoadFollowed ==
  ASSUME OverridesParse, IInv, PInv, NEW s \in Sources,
         Load(s) \/ LoadIfKnown(s) \/ Sweep(s)
  PROVE  PInv'
<1>1. Sound(k)
  BY DEF IInv
<1>2. ASSUME k' = ConfLoadPathWithOverride(k, s), disk' = disk
      PROVE  OnlyAt(k, s, k') /\ Followed(s)'
  <2>1. OnlyAt(k, s, k') /\ Matches(k', s)
    BY <1>1, <1>2, LoadMatches
  <2> QED BY <1>2, <2>1, MatchesNow
<1>3. CASE Load(s)
  <2>1. Doing("load", s) /\ k' = ConfLoadPathWithOverride(k, s) /\ todo' = Tail(todo) /\ watch' = watch
    BY <1>3 DEF Load
  <2>2. disk' = disk
    BY <2>1 DEF Doing
  <2> QED BY <1>2, <2>1, <2>2, CallKept
<1>4. CASE LoadIfKnown(s)
  <2>1. /\ Doing("load_if_known", s) /\ todo' = Tail(todo) /\ watch' = watch
        /\ k' = IF k.file[s] = NoFile THEN k ELSE ConfLoadPathWithOverride(k, s)
    BY <1>4 DEF LoadIfKnown
  <2>2. disk' = disk
    BY <2>1 DEF Doing
  <2>3. CASE k.file[s] # NoFile
    BY <1>2, <2>1, <2>2, <2>3, CallKept
  <2>4. CASE k.file[s] = NoFile
    <3>1. k' = k
      BY <2>1, <2>4
    <3> QED BY <2>1, <2>4, <3>1, CallKept
  <2> QED BY <2>3, <2>4
<1>5. CASE Sweep(s)
  <2>1. /\ Doing("sweep", s) /\ todo' = Tail(todo) /\ watch' = watch
        /\ k' = IF s \in k.stale THEN ConfFileDestroy(Unlink(k, s), k.file[s]) ELSE k
    BY <1>5 DEF Sweep
  <2>2. disk' = disk /\ notes' = notes /\ todo # <<>> /\ Head(todo) = CallOn("sweep", s)
    BY <2>1 DEF Doing
  <2>3. CASE s \in k.stale
    <3>1. OnlyAt(k, s, k') /\ k'.file[s] = NoFile
      BY <1>1, <2>1, <2>3, GoneSound
    <3>2. CASE disk.conf[s] = None
      <4>1. Matches(k', s)
        BY <3>1, <3>2 DEF Matches, Usable
      <4> QED BY <2>1, <2>2, <3>1, <4>1, MatchesNow, CallKept
    <3>3. CASE disk.conf[s] # None
      <4>1. todo[1] = CallOn("sweep", s) /\ 1 \in 1..Len(todo)
        <5>1. todo \in Seq(Call)
          BY DEF PInv
        <5> QED BY <2>2, <5>1
      <4>2. todo[1].op = "sweep" /\ todo[1].src = s
        BY <4>1 DEF CallOn
      <4>3. \/ watch[s] # "live" \/ Noted(s, {"conf_changed"})
            \/ \E j \in 1..(1 - 1) : todo[j] = CallOn("load", s)
        BY <2>3, <3>3, <4>1, <4>2 DEF PInv, SweepOrder
      <4>4. watch[s] # "live" \/ Noted(s, {"conf_changed"})
        BY <4>3
      <4>5. ConfPending(s)'
        BY <2>1, <2>2, <4>4 DEF ConfPending, Noted
      <4>6. Followed(s)'
        BY <4>5 DEF Followed
      <4> QED BY <2>1, <3>1, <4>6, CallKept
    <3> QED BY <3>2, <3>3
  <2>4. CASE s \notin k.stale
    <3>1. k' = k
      BY <2>1, <2>4
    <3> QED BY <2>1, <2>4, <3>1, CallKept
  <2> QED BY <2>3, <2>4
<1> QED BY <1>3, <1>4, <1>5

\* An override that a new watch finds is applied to every known .conf.
LEMMA OverrideFoundFollowed ==
  ASSUME PInv, NEW s \in Sources, OverrideFound(s)
  PROVE  PInv'
<1>1. /\ watch \in [Sources -> {"none", "live", "dead"}] /\ notes \in [Sources -> Seq(Note)]
      /\ todo \in Seq(Call) /\ \A r \in Sources : Queue(r)
  BY DEF PInv
<1>2. /\ todo # <<>> /\ Head(todo) = CallOn("over_found", s) /\ disk' = disk /\ notes' = notes
      /\ k' = k /\ watch' = watch /\ todo' = Calls("load_if_known") \o Tail(todo)
  BY DEF OverrideFound, Doing
<1> DEFINE w == Calls("load_if_known")
<1>3. /\ w \in Seq(Call) /\ Len(w) = NumSources
      /\ \A i \in 1..NumSources : w[i] = CallOn("load_if_known", i)
  BY CallsSeq
<1>4. todo' = w \o Tail(todo)
  BY <1>2
<1> HIDE DEF w
<1>5. /\ todo' \in Seq(Call) /\ Replaced(w) /\ Len(todo) \in Nat \ {0}
      /\ todo[1] = CallOn("over_found", s)
  BY <1>1, <1>2, <1>3, <1>4, CallsReplaced
<1>6. \A i \in 1..Len(w) : w[i].op = "load_if_known"
  BY <1>3 DEF CallOn
<1>7. ReloadOrder'
  BY <1>3, <1>5, <1>6, ReloadOrderKept
<1>8. SweepOrder'
  <2>1. \A r \in Sources : todo[1] # CallOn("load", r)
    BY <1>5 DEF CallOn
  <2> QED BY <1>2, <1>3, <1>5, <1>6, <2>1, SweepOrderKept
<1>9. \A r \in Sources : Queue(r)'
  BY <1>1, <1>2, QueueSame
<1>10. ASSUME NEW t \in Sources PROVE Followed(t)'
  <2>1. t \in 1..Len(w) /\ w[t] = CallOn("load_if_known", t)
    BY <1>3 DEF Sources
  <2>2. Due("load_if_known", t)'
    BY <1>3, <1>5, <2>1, StillDue
  <2>3. OverPending(t)'
    BY <2>2 DEF OverPending
  <2>4. /\ todo[1] \notin {CallOn("load", t), CallOn("reload_source", t)}
        /\ todo[1] # CallOn("sweep", t)
    BY <1>5 DEF CallOn
  <2>5. SameTexts(k, k', k.file[t]) /\ k'.file[t] = k.file[t] /\ k'.stale = k.stale
    BY <1>2 DEF SameTexts
  <2> QED BY <1>2, <1>3, <1>5, <2>3, <2>4, <2>5, FollowedCall
<1> QED BY <1>1, <1>2, <1>5, <1>7, <1>8, <1>9, <1>10 DEF PInv

\* The calls of conf_source_reload(): the files of the directory in either order,
\* then the ConfFile that was not read again.
Walk(l, o, z, conf, over, walk, w) ==
  /\ l \in Call /\ o \in Call /\ z \in Call
  /\ conf = <<>> \/ conf = <<l>>
  /\ over = <<>> \/ over = <<o>>
  /\ walk = conf \o over \/ walk = over \o conf
  /\ w = walk \o <<z>>

\* A .conf that is there is loaded; the old ConfFile is looked at last.
LEMMA Walked ==
  ASSUME NEW l, NEW o, NEW z, NEW conf, NEW over, NEW walk, NEW w,
         Walk(l, o, z, conf, over, walk, w)
  PROVE  /\ w \in Seq(Call) /\ Len(w) \in Nat \ {0} /\ w[Len(w)] = z
         /\ \A i \in 1..(Len(w) - 1) : w[i] \in {l, o}
         /\ conf = <<l>> => \E j \in 1..(Len(w) - 1) : w[j] = l
<1> USE DEF Walk
<1>1. <<>> \in Seq(Call) /\ Len(<<>>) = 0
  OBVIOUS
<1>2. ASSUME NEW a \in Call PROVE <<a>> \in Seq(Call) /\ Len(<<a>>) = 1 /\ <<a>>[1] = a
  OBVIOUS
<1>3. /\ conf \in Seq(Call) /\ over \in Seq(Call)
      /\ \/ Len(conf) = 0 /\ conf # <<l>>
         \/ Len(conf) = 1 /\ conf[1] = l
      /\ Len(over) = 0 \/ (Len(over) = 1 /\ over[1] = o)
  BY <1>1, <1>2
<1>4. /\ walk \in Seq(Call)
      /\ \/ Len(walk) = 0 /\ conf # <<l>>
         \/ Len(walk) = 1 /\ walk[1] = l
         \/ Len(walk) = 1 /\ walk[1] = o /\ conf # <<l>>
         \/ Len(walk) = 2 /\ walk[1] = l /\ walk[2] = o
         \/ Len(walk) = 2 /\ walk[1] = o /\ walk[2] = l
  <2>1. ASSUME NEW a \in Seq(Call), NEW b \in Seq(Call), NEW c, c = a \o b
        PROVE  /\ c \in Seq(Call) /\ Len(c) = Len(a) + Len(b)
               /\ \A i \in 1..Len(a) : c[i] = a[i]
               /\ \A i \in 1..Len(b) : c[Len(a) + i] = b[i]
    BY <2>1
  <2>2. CASE walk = conf \o over
    <3>1. /\ walk \in Seq(Call) /\ Len(walk) = Len(conf) + Len(over)
          /\ \A i \in 1..Len(conf) : walk[i] = conf[i]
          /\ \A i \in 1..Len(over) : walk[Len(conf) + i] = over[i]
      BY <1>3, <2>1, <2>2
    <3> QED BY <1>3, <3>1, SMTT(30)
  <2>3. CASE walk = over \o conf
    <3>1. /\ walk \in Seq(Call) /\ Len(walk) = Len(over) + Len(conf)
          /\ \A i \in 1..Len(over) : walk[i] = over[i]
          /\ \A i \in 1..Len(conf) : walk[Len(over) + i] = conf[i]
      BY <1>3, <2>1, <2>3
    <3> QED BY <1>3, <3>1, SMTT(30)
  <2> QED BY <2>2, <2>3
<1> DEFINE q == <<z>>
<1>5. q \in Seq(Call) /\ Len(q) = 1 /\ q[1] = z /\ w = walk \o q
  BY <1>2
<1> HIDE DEF q
<1>6. /\ w \in Seq(Call) /\ Len(w) = Len(walk) + 1 /\ w[Len(walk) + 1] = z
      /\ \A i \in 1..Len(walk) : w[i] = walk[i]
  BY <1>4, <1>5
<1>7. \A i \in 1..Len(walk) : walk[i] \in {l, o}
  BY <1>4
<1>8. conf = <<l>> => \E j \in 1..Len(walk) : walk[j] = l
  BY <1>4
<1> QED BY <1>4, <1>6, <1>7, <1>8

\* A source that a reload comes to is looked at before the reload goes on: its files
\* are read, and the ConfFile that was not is deleted.
LEMMA ReloadSourceFollowed ==
  ASSUME IInv, PInv, NEW s \in Sources, ReloadSource(s)
  PROVE  PInv'
<1>1. /\ watch \in [Sources -> {"none", "live", "dead"}] /\ notes \in [Sources -> Seq(Note)]
      /\ todo \in Seq(Call) /\ \A r \in Sources : Queue(r)
  BY DEF PInv
<1>2. todo # <<>> /\ Head(todo) = CallOn("reload_source", s) /\ disk' = disk /\ notes' = notes
  BY DEF ReloadSource, Doing
<1> DEFINE new  == watch[s] = "none" /\ disk.dir[s]
           conf == IF disk.conf[s] = None THEN <<>> ELSE <<CallOn("load", s)>>
           over == IF disk.over[s] = None \/ ~new THEN <<>> ELSE <<CallOn("over_found", s)>>
           z    == CallOn("sweep", s)
<1>3. watch' = IF new THEN [watch EXCEPT ![s] = "live"] ELSE watch
  BY DEF ReloadSource
<1>4. PICK walk \in {conf \o over, over \o conf} : todo' = walk \o <<z>> \o Tail(todo)
  BY DEF ReloadSource
<1> DEFINE w == walk \o <<z>>
<1>5. /\ CallOn("load", s) \in Call /\ CallOn("over_found", s) \in Call /\ z \in Call
      /\ conf \in {<<>>, <<CallOn("load", s)>>} /\ over \in {<<>>, <<CallOn("over_found", s)>>}
      /\ disk.conf[s] # None => conf = <<CallOn("load", s)>>
      /\ todo' = w \o Tail(todo)
  BY <1>4 DEF CallOn, Call
<1> HIDE DEF conf, over
<1>6. /\ w \in Seq(Call) /\ Len(w) \in Nat \ {0} /\ w[Len(w)] = z
      /\ \A i \in 1..(Len(w) - 1) : w[i] \in {CallOn("load", s), CallOn("over_found", s)}
      /\ disk.conf[s] # None => \E j \in 1..(Len(w) - 1) : w[j] = CallOn("load", s)
  <2> DEFINE l == CallOn("load", s)
             o == CallOn("over_found", s)
  <2>1. Walk(l, o, z, conf, over, walk, w)
    BY <1>4, <1>5 DEF Walk
  <2> HIDE DEF l, o, z, w
  <2>2. /\ w \in Seq(Call) /\ Len(w) \in Nat \ {0} /\ w[Len(w)] = z
        /\ \A i \in 1..(Len(w) - 1) : w[i] \in {l, o}
        /\ conf = <<l>> => \E j \in 1..(Len(w) - 1) : w[j] = l
    BY <2>1, Walked
  <2> QED BY <1>5, <2>2 DEF l, o
<1> HIDE DEF w, z
<1>7. /\ todo' \in Seq(Call) /\ Replaced(w) /\ Len(todo) \in Nat \ {0}
      /\ todo[1] = CallOn("reload_source", s)
  BY <1>1, <1>2, <1>5, <1>6, CallsReplaced
<1>8. /\ \A i \in 1..Len(w) : w[i].op # "reload_source"
      /\ \A i \in 1..Len(w) : w[i].op = "sweep" => i = Len(w)
  <2>1. ASSUME NEW i \in 1..Len(w) PROVE i \in 1..(Len(w) - 1) \/ i = Len(w)
    BY <1>6
  <2> QED BY <1>6, <2>1 DEF CallOn, z
<1>9. ReloadOrder'
  BY <1>6, <1>7, <1>8, ReloadOrderKept
<1>10. /\ \A j \in 1..Len(todo) : todo[j].op = "reload_source"
       /\ \A t \in Sources : t > s =>
            \E j \in 2..Len(todo) : todo[j] = CallOn("reload_source", t)
  <2>1. 1 \in 1..Len(todo) /\ todo[1].op = "reload_source" /\ todo[1].src = s
    BY <1>7 DEF CallOn
  <2>2. /\ \A j \in 1..Len(todo) : todo[j].op = "reload_source"
        /\ \A t \in Sources : t > todo[1].src =>
             \E j \in (1 + 1)..Len(todo) : todo[j] = CallOn("reload_source", t)
    BY <2>1 DEF PInv, ReloadOrder
  <2> QED BY <2>1, <2>2
<1>11. SweepOrder'
  <2>1. ASSUME NEW i \in 1..Len(todo'), todo'[i].op = "sweep" PROVE i = Len(w) /\ todo'[i] = z
    <3>1. i \in 1..Len(w)
      <4>1. CASE i > Len(w)
        <5>1. i - Len(w) + 1 \in 2..Len(todo) /\ todo'[i] = todo[i - Len(w) + 1]
          BY <1>7, <4>1 DEF Replaced
        <5>2. i - Len(w) + 1 \in 1..Len(todo)
          BY <1>7, <5>1
        <5> QED BY <1>10, <2>1, <5>1, <5>2
      <4> QED BY <1>6, <4>1
    <3>2. todo'[i] = w[i]
      BY <1>7, <3>1 DEF Replaced
    <3> QED BY <1>6, <1>8, <2>1, <3>1, <3>2
  <2>2. ASSUME NEW i \in 1..Len(todo'), todo'[i].op = "sweep", disk'.conf[todo'[i].src] # None
        PROVE  \E j \in 1..(i - 1) : todo'[j] = CallOn("load", todo'[i].src)
    <3>1. i = Len(w) /\ todo'[i].src = s
      BY <2>1, <2>2 DEF z, CallOn
    <3>2. PICK j \in 1..(Len(w) - 1) : w[j] = CallOn("load", s)
      BY <1>2, <1>6, <2>2, <3>1
    <3>3. j \in 1..Len(w)
      BY <1>6
    <3>4. todo'[j] = w[j]
      BY <1>7, <3>3 DEF Replaced
    <3> QED BY <3>1, <3>2, <3>4
  <2>3. \A r : CallOn("load", r)' = CallOn("load", r)
    BY DEF CallOn
  <2> QED BY <2>2, <2>3 DEF SweepOrder
<1>12. /\ \A r \in Sources \ {s} : watch'[r] = watch[r]
       /\ watch' \in [Sources -> {"none", "live", "dead"}]
       /\ watch'[s] = watch[s] \/ (watch[s] = "none" /\ watch'[s] = "live")
  BY <1>1, <1>3
<1>13. ASSUME NEW r \in Sources PROVE Queue(r)'
  <2>1. CASE watch'[r] = watch[r]
    BY <1>1, <1>2, <2>1, QueueSame
  <2>2. CASE r = s /\ watch[s] = "none"
    <3>1. notes'[r] = <<>>
      BY <1>1, <1>2, <2>2 DEF Queue
    <3>2. 1..Len(notes'[r]) = {}
      BY <3>1
    <3>3. LastWord(r)'
      BY <3>2 DEF LastWord
    <3> QED BY <3>1, <3>2, <3>3 DEF Queue
  <2> QED BY <1>12, <2>1, <2>2
<1>14. /\ k'.file = k.file /\ k'.class = k.class
       /\ k'.stale = IF k.file[s] = NoFile THEN k.stale ELSE k.stale \cup {s}
  <2>1. Typed(k)
    BY DEF IInv, Sound
  <2>2. k' = [k EXCEPT !.stale = IF k.file[s] = NoFile THEN k.stale ELSE k.stale \cup {s}]
    BY DEF ReloadSource
  <2> QED BY <2>1, <2>2 DEF Typed
<1>15. ASSUME NEW t \in Sources PROVE Followed(t)'
  <2>1. CASE t > s
    <3>1. PICK j \in 2..Len(todo) : todo[j] = CallOn("reload_source", t)
      BY <1>10, <2>1
    <3>2. Due("reload_source", t) /\ todo[1] # CallOn("reload_source", t)
      <4>1. s # t /\ j \in 1..Len(todo)
        BY <1>7, <2>1, ConfAssumption DEF Sources
      <4>2. todo[1] # CallOn("reload_source", t)
        BY <1>7, <4>1 DEF CallOn
      <4> QED BY <3>1, <4>1, <4>2 DEF Due
    <3>3. Due("reload_source", t)'
      BY <1>6, <1>7, <3>2, StillDue
    <3>4. ConfPending(t)'
      BY <3>3 DEF ConfPending
    <3> QED BY <3>4 DEF Followed
  <2>2. CASE t < s
    <3>1. t # s /\ \A r \in 1..t : r \in Sources \ {s}
      BY <2>2, ConfAssumption DEF Sources
    <3>2. \A r \in 1..t : watch[r] # "live" => watch'[r] # "live"
      BY <1>12, <3>1
    <3>3. \A p : todo[1] # CallOn(p, t)
      BY <1>7, <3>1 DEF CallOn
    <3>4. \A r \in Sources : todo[1] # CallOn("over_found", r)
      BY <1>7 DEF CallOn
    <3>5. k'.file[t] = k.file[t] /\ SameTexts(k, k', k.file[t]) /\ (t \in k.stale => t \in k'.stale)
      BY <1>14 DEF SameTexts
    <3> QED BY <1>2, <1>6, <1>7, <3>2, <3>3, <3>4, <3>5, FollowedCall
  <2>3. CASE t = s
    <3>1. CASE disk.conf[s] # None
      <4>1. PICK j \in 1..(Len(w) - 1) : w[j] = CallOn("load", s)
        BY <1>6, <3>1
      <4>2. j \in 1..Len(w)
        BY <1>6
      <4>3. Due("load", s)'
        BY <1>6, <1>7, <4>1, <4>2, StillDue
      <4>4. ConfPending(s)'
        BY <4>3 DEF ConfPending
      <4> QED BY <2>3, <4>4 DEF Followed
    <3>2. CASE disk.conf[s] = None /\ k.file[s] = NoFile
      <4>1. Matches(k', s)
        BY <1>14, <3>2 DEF Matches, Usable
      <4> QED BY <1>2, <2>3, <4>1, MatchesNow
    <3>3. CASE k.file[s] # NoFile
      <4>1. Len(w) \in 1..Len(w) /\ w[Len(w)] = CallOn("sweep", s)
        BY <1>6 DEF z
      <4>2. Due("sweep", s)'
        BY <1>6, <1>7, <4>1, StillDue
      <4>3. s \in k'.stale
        BY <1>14, <3>3
      <4>4. ConfPending(s)'
        BY <4>2, <4>3 DEF ConfPending
      <4> QED BY <2>3, <4>4 DEF Followed
    <3> QED BY <3>1, <3>2, <3>3
  <2> QED BY <2>1, <2>2, <2>3, ConfAssumption DEF Sources
<1> QED BY <1>1, <1>2, <1>7, <1>9, <1>11, <1>12, <1>13, <1>15 DEF PInv

\* A reload is about to begin.
Reloading ==
  /\ watch \in [Sources -> {"none", "live", "dead"}] /\ notes \in [Sources -> Seq(Note)]
  /\ todo = Calls("reload_source") /\ \A r \in Sources : Queue(r)

\* A reload looks at every source again.
LEMMA ReloadingFollowed == Reloading => PInv
<1> SUFFICES ASSUME Reloading PROVE PInv
  OBVIOUS
<1> USE DEF Reloading
<1> DEFINE n == NumSources
<1>1. /\ n \in Nat /\ todo \in Seq(Call) /\ Len(todo) = n
      /\ \A i \in 1..n : todo[i] = CallOn("reload_source", i)
      /\ \A i \in 1..n : todo[i].op = "reload_source" /\ todo[i].src = i
  <2>1. /\ todo \in Seq(Call) /\ Len(todo) = n
        /\ \A i \in 1..n : todo[i] = CallOn("reload_source", i)
    BY CallsSeq
  <2>2. \A i \in 1..n : todo[i].op = "reload_source" /\ todo[i].src = i
    <3>1. \A i : CallOn("reload_source", i).op = "reload_source" /\ CallOn("reload_source", i).src = i
      BY DEF CallOn
    <3> QED BY <2>1, <3>1
  <2> QED BY <2>1, <2>2, ConfAssumption
<1>2. ReloadOrder
  <2>1. ASSUME NEW i \in 1..n PROVE \A j \in i..n : todo[j].op = "reload_source"
    BY <1>1
  <2>2. ASSUME NEW i \in 1..n, NEW t \in Sources, t > todo[i].src
        PROVE  \E j \in (i + 1)..n : todo[j] = CallOn("reload_source", t)
    <3>1. t \in (i + 1)..n /\ t \in 1..n
      BY <1>1, <2>2 DEF Sources
    <3> QED BY <1>1, <3>1
  <2> QED BY <1>1, <2>1, <2>2 DEF ReloadOrder
<1>3. SweepOrder
  BY <1>1 DEF SweepOrder
<1>4. ASSUME NEW t \in Sources PROVE Followed(t)
  <2>1. t \in 1..n
    BY DEF Sources
  <2>2. Due("reload_source", t)
    BY <1>1, <2>1 DEF Due
  <2> QED BY <2>2 DEF Followed, ConfPending
<1> QED BY <1>1, <1>2, <1>3, <1>4 DEF PInv

\* Jobs that start and end change nothing that a .conf or an override says.
LEMMA NothingFollowed ==
  ASSUME PInv, disk' = disk, watch' = watch, notes' = notes, todo' = todo, SameFiles(k, k')
  PROVE  PInv'
<1>1. disk' = disk /\ watch' = watch /\ notes' = notes /\ todo' = todo
  OBVIOUS
<1>2. SameFiles(k, k')
  OBVIOUS
<1>3. \A op, s : Due(op, s) <=> Due(op, s)'
  BY <1>1 DEF Due, CallOn
<1>4. \A s, S : Noted(s, S) <=> Noted(s, S)'
  BY <1>1 DEF Noted
<1>5. ReloadOrder'
  BY <1>1 DEF PInv, ReloadOrder, CallOn
<1>6. SweepOrder'
  <2>1. k'.stale = k.stale
    BY <1>2 DEF SameFiles
  <2> QED BY <1>1, <1>4, <2>1 DEF PInv, SweepOrder, CallOn
<1>7. ASSUME NEW s \in Sources PROVE Queue(s)'
  BY <1>1, QueueSame DEF PInv
<1>8. ASSUME NEW s \in Sources PROVE Followed(s)'
  <2>1. Followed(s) /\ k'.file[s] = k.file[s] /\ k'.stale = k.stale
    BY <1>2 DEF PInv, SameFiles
  <2>2. Matches(k, s) => Matches(k, s)'
    BY <1>1, <1>2, <2>1, MatchesSame DEF SameFiles
  <2>3. ConfPending(s) => ConfPending(s)'
    BY <1>1, <1>3, <1>4, <2>1 DEF ConfPending
  <2>4. OverPending(s) => OverPending(s)'
    BY <1>1, <1>3, <1>4 DEF OverPending
  <2> QED BY <2>1, <2>2, <2>3, <2>4 DEF Followed
<1> QED BY <1>1, <1>5, <1>6, <1>7, <1>8 DEF PInv

-----------------------------------------------------------------------------
\* startup begins with every source to be reloaded, and every step leaves what is on
\* the disk followed or still to be looked at.
LEMMA DiskIsFollowed ==
  ASSUME OverridesParse
  PROVE  Spec => [](IInv /\ PInv)
<1>1. Init => PInv
  <2> SUFFICES ASSUME Init PROVE PInv
    OBVIOUS
  <2>1. /\ watch = [s \in Sources |-> "none"] /\ notes = [s \in Sources |-> <<>>]
        /\ todo = Calls("reload_source")
    BY DEF Init
  <2>2. <<>> \in Seq(Note) /\ 1..Len(<<>>) = {}
    OBVIOUS
  <2>3. /\ watch \in [Sources -> {"none", "live", "dead"}] /\ notes \in [Sources -> Seq(Note)]
        /\ \A s \in Sources : notes[s] = <<>> /\ watch[s] = "none" /\ 1..Len(notes[s]) = {}
    BY <2>1, <2>2
  <2>4. \A s \in Sources : Queue(s)
    BY <2>3 DEF Queue, LastWord
  <2> QED BY <2>1, <2>3, <2>4, ReloadingFollowed DEF Reloading
<1>2. ASSUME IInv, PInv, [Next]_vars PROVE PInv'
  <2>1. CASE Disk
    BY <1>2, <2>1, DiskFollowed
  <2>2. CASE Handler
    <3>1. PICK s \in Sources :
            \/ ConfChanged(s) \/ OverrideChanged(s) \/ ConfDeleted(s) \/ OverrideDeleted(s)
            \/ DirDeleted(s) \/ ReloadSource(s) \/ Load(s) \/ LoadIfKnown(s)
            \/ OverrideFound(s) \/ Sweep(s)
      BY <2>2 DEF Handler
    <3> QED BY <1>2, <3>1, NotesFollowed, ReloadSourceFollowed, LoadFollowed, OverrideFoundFollowed
  <2>3. CASE ConfReload
    <3>1. /\ disk' = disk /\ watch' = watch /\ notes' = notes /\ k' = k
          /\ todo' = Calls("reload_source") /\ \A s \in Sources : Queue(s)
          /\ watch \in [Sources -> {"none", "live", "dead"}] /\ notes \in [Sources -> Seq(Note)]
      BY <1>2, <2>3 DEF ConfReload, PInv
    <3>2. \A s \in Sources : Queue(s)'
      BY <3>1, QueueSame
    <3>3. todo' = Calls("reload_source")'
      BY <3>1 DEF Calls, CallOn
    <3>4. Reloading'
      BY <3>1, <3>2, <3>3 DEF Reloading
    <3> QED BY <3>4, ReloadingFollowed, PTL
  <2>4. CASE Instance
    <3>1. disk' = disk /\ watch' = watch /\ notes' = notes /\ todo' = todo
      BY <2>4 DEF Instance, Start, EventArrives, Finish
    <3>2. SameFiles(k, k')
      BY <1>2, <2>4, InstanceStep
    <3> QED BY <1>2, <3>1, <3>2, NothingFollowed
  <2>5. CASE UNCHANGED vars
    <3>1. disk' = disk /\ watch' = watch /\ notes' = notes /\ todo' = todo /\ k' = k
      BY <2>5 DEF vars
    <3>2. SameFiles(k, k')
      BY <3>1 DEF SameFiles, SameTexts
    <3> QED BY <1>2, <3>1, <3>2, NothingFollowed
  <2> QED BY <1>2, <2>1, <2>2, <2>3, <2>4, <2>5 DEF Next
<1> QED BY <1>1, <1>2, TablesSound, PTL DEF Spec

\* Once the notifications are handled, the best class is the one a fresh start would
\* load: whatever order conf.c hears of creations, changes and deletions in, and
\* whatever a reload finds changed since it began, no old text stays in force.
THEOREM SettledFollowsDisk ==
  ASSUME OverridesParse
  PROVE  Spec => []SettledMatchesDisk
<1>1. ASSUME IInv, PInv PROVE SettledMatchesDisk
  <2> SUFFICES ASSUME Settled
               PROVE  LET best == ConfSelectJob(k)
                          use  == {s \in Sources : Usable(s)}
                      IN IF use = {} THEN best = None
                         ELSE /\ best # None
                              /\ <<k.class[best].conf, k.class[best].over>> =
                                   Expected(CHOOSE s \in use : \A r \in use : s <= r)
    BY DEF SettledMatchesDisk
  <2> DEFINE best == ConfSelectJob(k)
             use  == {s \in Sources : Usable(s)}
  <2>1. /\ 1..Len(todo) = {} /\ \A s \in Sources : watch[s] = "live" /\ 1..Len(notes[s]) = {}
    <3>1. 1..Len(<<>>) = {}
      OBVIOUS
    <3> QED BY <3>1 DEF Settled, Idle
  <2>2. ASSUME NEW s \in Sources PROVE Matches(k, s)
    <3>1. 1..s \subseteq Sources
      BY ConfAssumption DEF Sources
    <3>2. /\ \A op, r : ~Due(op, r)
          /\ \A r \in Sources : \A S : ~Noted(r, S)
      BY <2>1 DEF Due, Noted
    <3>3. ~ConfPending(s) /\ ~OverPending(s)
      BY <2>1, <3>1, <3>2 DEF ConfPending, OverPending
    <3> QED BY <1>1, <3>3 DEF PInv, Followed
  <2>3. ASSUME NEW s \in Sources PROVE k.file[s] \in ClassIds <=> s \in use
    <3>1. Matches(k, s)
      BY <2>2
    <3> QED BY <3>1, ConfAssumption DEF Matches, Made
  <2>4. CASE best = None /\ \A s \in Sources : k.file[s] \notin ClassIds
    <3>1. use = {}
      BY <2>3, <2>4
    <3> QED BY <2>4, <3>1
  <2>5. ASSUME NEW s \in Sources, k.file[s] \in ClassIds, best = k.file[s],
               \A r \in Sources : k.file[r] \in ClassIds => s <= r
        PROVE  /\ use # {} /\ best # None
               /\ <<k.class[best].conf, k.class[best].over>> =
                    Expected(CHOOSE m \in use : \A r \in use : m <= r)
    <3>1. s \in use /\ \A r \in use : s <= r
      BY <2>3, <2>5
    <3>2. best # None
      BY <2>5, ConfAssumption
    <3> DEFINE m == CHOOSE m \in use : \A r \in use : m <= r
    <3>3. m \in use /\ \A r \in use : m <= r
      BY <3>1
    <3>4. use \subseteq Nat
      BY DEF Sources
    <3> HIDE DEF use, m
    <3>5. m = s
      BY <3>1, <3>3, <3>4
    <3>6. Made(k, s, Expected(s)[1], Expected(s)[2])
      BY <2>2, <3>1 DEF Matches, use
    <3>7. <<k.class[best].conf, k.class[best].over>> = <<Expected(s)[1], Expected(s)[2]>>
      BY <2>5, <3>6 DEF Made
    <3>8. <<Expected(s)[1], Expected(s)[2]>> = Expected(s)
      BY DEF Expected
    <3>9. <<k.class[best].conf, k.class[best].over>> = Expected(m)
      BY <3>5, <3>7, <3>8
    <3> QED BY <3>1, <3>2, <3>9 DEF m
  <2> HIDE DEF best, use
  <2>6. \/ best = None /\ \A s \in Sources : k.file[s] \notin ClassIds
        \/ \E s \in Sources : /\ k.file[s] \in ClassIds /\ best = k.file[s]
                              /\ \A r \in Sources : k.file[r] \in ClassIds => s <= r
    BY Selects DEF best
  <2>7. CASE best = None /\ \A s \in Sources : k.file[s] \notin ClassIds
    BY <2>4, <2>7 DEF best, use
  <2>8. CASE \E s \in Sources : /\ k.file[s] \in ClassIds /\ best = k.file[s]
                                /\ \A r \in Sources : k.file[r] \in ClassIds => s <= r
    <3>1. /\ use # {} /\ best # None
          /\ <<k.class[best].conf, k.class[best].over>> =
               Expected(CHOOSE m \in use : \A r \in use : m <= r)
      BY <2>5, <2>8
    <3> QED BY <3>1 DEF best, use
  <2> QED BY <2>6, <2>7, <2>8
<1> QED BY <1>1, DiskIsFollowed, PTL
=============================================================================
