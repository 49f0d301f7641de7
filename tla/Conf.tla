-------------------------------- MODULE Conf --------------------------------
(***************************************************************************)
(* How job configuration on disk becomes the registered job class          *)
(* (init/conf.c, init/job_class.c, the end of an instance in init/job.c).  *)
(*                                                                         *)
(* The module follows ONE job name through a list of job directories       *)
(* (ConfSources of type CONF_JOB_DIR), source 1 having the highest         *)
(* priority.  Each directory may hold a name.conf and a name.override.     *)
(* Editors change the disk at any time; every watched directory has an     *)
(* inotify queue of its own; startup handles the notifications, or walks   *)
(* the directories when told to reload, and keeps                          *)
(*                                                                         *)
(*   file[s]     the ConfFile of name.conf in source s: no ConfFile, one   *)
(*               whose text did not parse (no job attached), or its class; *)
(*   class       the JobClass structures that are allocated;               *)
(*   registered  the one of them in the job_classes hash table.            *)
(*                                                                         *)
(* A class that has instances cannot leave the hash table: the best class  *)
(* then waits until the last instance has ended.                           *)
(***************************************************************************)
EXTENDS Integers, Sequences, FiniteSets

CONSTANTS
  NumSources,     \* number of job directories
  ConfTexts,      \* what a name.conf may contain
  OverrideTexts,  \* what a name.override may contain
  BadTexts,       \* the texts that do not parse
  StartOn,        \* StartOn[t]: the events the `start on` of t needs, or NoStanza
  EventNames,     \* the events of the `start on` conditions
  InstanceNames,  \* instance names of the job
  ClassIds,       \* addresses of JobClass structures
  MaxEdits,       \* bound: changes made to the disk
  NoFile, NoJob, None, NoStanza

Sources == 1..NumSources

ASSUME ConfAssumption ==
  /\ NumSources \in Nat \ {0}
  /\ BadTexts \subseteq ConfTexts \cup OverrideTexts
  /\ None \notin ClassIds \cup ConfTexts \cup OverrideTexts
  /\ NoFile \notin ClassIds /\ NoJob \notin ClassIds /\ NoFile # NoJob
  /\ StartOn \in [ConfTexts \cup OverrideTexts ->
                    (SUBSET EventNames) \cup {NoStanza}]

\* Memory does not run out: nih_must() tries again until it gets some.  At most
\* every ConfFile and the job_classes table have a class.
ASSUME AddressAssumption ==
  \A f \in [Sources -> ClassIds \cup {None}], r \in ClassIds \cup {None} :
    \E c \in ClassIds : c # r /\ \A s \in Sources : c # f[s]

VARIABLES
  disk,    \* [dir, conf, over]: per source, is the directory there, its files
  watch,   \* per source: "none", "live", or "dead" (the directory is gone)
  notes,   \* per source: the inotify queue
  k,       \* [class, file, stale, registered]: what startup keeps
  todo,    \* calls the running handler has still to make
  edits    \* changes made to the disk so far

vars == <<disk, watch, notes, k, todo, edits>>

Texts == ConfTexts \cup OverrideTexts

Class ==
  {c \in [conf : ConfTexts \cup {None}, over : OverrideTexts \cup {None},
          startOn : SUBSET EventNames, matched : SUBSET EventNames,
          instances : SUBSET InstanceNames, deleted : BOOLEAN] :
     c.matched \subseteq c.startOn}

Note == {"conf_changed", "conf_deleted", "over_changed", "over_deleted",
         "dir_deleted"}

Call == [op : {"reload_source", "load", "load_if_known", "over_found", "sweep"},
         src : Sources]

-----------------------------------------------------------------------------
(* Job classes *)

\* The first class in order of source priority (conf_select_job).
Candidates(x) == {s \in Sources : x.file[s] \in ClassIds}

ConfSelectJob(x) ==
  IF Candidates(x) = {} THEN None
  ELSE x.file[CHOOSE s \in Candidates(x) : \A r \in Candidates(x) : s <= r]

NewClass(conf, over, on) ==
  [conf |-> conf, over |-> over,
   startOn |-> IF on = NoStanza THEN {} ELSE on, matched |-> {},
   instances |-> {}, deleted |-> FALSE]

Unallocated(x) == ClassIds \ DOMAIN x.class

\* Allocation gives an address that is not in use.
Fresh(x) == CHOOSE c \in ClassIds : c \in Unallocated(x)

Allocate(x, c, class) ==
  [x EXCEPT !.class = [d \in DOMAIN x.class \cup {c} |->
                         IF d = c THEN class ELSE x.class[d]]]

Free(x, c) ==
  [x EXCEPT !.class = [d \in DOMAIN x.class \ {c} |-> x.class[d]]]

\* job_class_event_block: the events that both `start on` trees name and that
\* the old one has matched are matched in the new one.
JobClassEventBlock(x, old, new) ==
  IF x.class[old].instances # {} THEN x
  ELSE [x EXCEPT !.class[new].matched =
          @ \cup (x.class[old].matched \cap x.class[new].startOn)]

\* Mutant of JobClassConsider: instances do not keep a class in the table.
JobClassConsider_IgnoresInstances(x) ==
  LET best == ConfSelectJob(x)
  IN IF x.registered \in {best, None} THEN [x EXCEPT !.registered = best]
     ELSE [JobClassEventBlock(x, x.registered, best) EXCEPT !.registered = best]

JobClassConsider(x) ==
  LET best == ConfSelectJob(x)
      reg  == x.registered
      b    == JobClassEventBlock(x, reg, best)
  IN CASE reg = best -> x
       [] reg = None -> [x EXCEPT !.registered = best]
       [] reg \notin {best, None} /\ x.class[reg].instances # {} ->
            [b EXCEPT !.class[best].matched = {}]
       [] OTHER -> [b EXCEPT !.registered = best]

\* job_class_reconsider: is the class out of the hash table afterwards?
Unused(x, c) ==
  x.registered = c =>
     /\ ConfSelectJob(x) # c
     /\ x.class[c].instances = {}

JobClassReconsider(x, c) ==
  IF x.registered = c /\ Unused(x, c)
  THEN [x EXCEPT !.registered = ConfSelectJob(x)]
  ELSE x

-----------------------------------------------------------------------------
(* Configuration files *)

\* Mutant of ConfFileDestroy: a class in use is not marked for deletion.
ConfFileDestroy_DoesNotMark(x, f) ==
  IF f \notin ClassIds THEN x
  ELSE IF Unused(x, f) THEN Free(JobClassReconsider(x, f), f) ELSE x

\* conf_file_destroy, for a ConfFile already taken out of the files table.
ConfFileDestroy(x, f) ==
  IF f \notin ClassIds THEN x
  ELSE LET d == [x EXCEPT !.class[f].deleted = TRUE]
       IN IF Unused(d, f) THEN Free(JobClassReconsider(d, f), f) ELSE d

Unlink(x, s) == [x EXCEPT !.file[s] = NoFile, !.stale = @ \ {s}]

\* Mutant of ConfReloadPath: the old ConfFile goes before the new one comes.
ConfReloadPath_FreesFirst(x, s) ==
  LET text == disk.conf[s]
      c    == Fresh(x)
      u    == ConfFileDestroy(Unlink(x, s), x.file[s])
  IN CASE text = None -> u
       [] text \in BadTexts -> [u EXCEPT !.file[s] = NoJob]
       [] OTHER -> JobClassConsider(
                     [Allocate(u, c, NewClass(text, None, StartOn[text]))
                        EXCEPT !.file[s] = c])

\* conf_reload_path for name.conf: the new ConfFile and its class first, then
\* the end of the one they replace.
ConfReloadPath(x, s) ==
  LET orig == x.file[s]
      text == disk.conf[s]
      c    == Fresh(x)
      u    == Unlink(x, s)
      new  == IF text \in BadTexts THEN [u EXCEPT !.file[s] = NoJob]
              ELSE JobClassConsider(
                     [Allocate(u, c, NewClass(text, None, StartOn[text]))
                        EXCEPT !.file[s] = c])
  IN ConfFileDestroy(IF text = None THEN u ELSE new, orig)

\* conf_get_best_override: the first override up to the source of the .conf.
Overriding(s) == {r \in 1..s : disk.over[r] # None}

BestOverride(s) ==
  IF Overriding(s) = {} THEN None
  ELSE disk.over[CHOOSE r \in Overriding(s) : \A q \in Overriding(s) : r <= q]

\* parse_job on an existing class: each stanza replaces what was there, and a
\* new `start on` has nothing matched yet.
ApplyOverride(class, over) ==
  IF StartOn[over] = NoStanza THEN [class EXCEPT !.over = over]
  ELSE [class EXCEPT !.over = over, !.startOn = StartOn[over], !.matched = {}]

\* conf_reload_path with an override: the class of the ConfFile is updated, or
\* a class is made of the override alone when the .conf did not parse.  After a
\* parse error the updated class is no longer attached to the ConfFile.
ConfOverridePath(x, s, over) ==
  LET c     == x.file[s]
      n     == Fresh(x)
      known == c \in ClassIds
      bad   == over \in BadTexts
      upd   == [x EXCEPT !.class[c] = ApplyOverride(@, over)]
  IN CASE known /\ bad   -> [upd EXCEPT !.file[s] = NoJob]
       [] known /\ ~bad  -> JobClassConsider(upd)
       [] ~known /\ bad  -> x
       [] ~known /\ ~bad -> JobClassConsider(
            [Allocate(x, n, NewClass(None, over, StartOn[over]))
               EXCEPT !.file[s] = n])

ConfLoadPathWithOverride(x, s) ==
  LET y == ConfReloadPath(x, s)
  IN IF disk.conf[s] = None \/ BestOverride(s) = None THEN y
     ELSE ConfOverridePath(y, s, BestOverride(s))

-----------------------------------------------------------------------------
(* The disk, changed by editors and package managers *)

\* The kernel queues a notification while the directory is watched.
Notify(s, note) ==
  notes' = IF watch[s] = "live" THEN [notes EXCEPT ![s] = Append(@, note)]
           ELSE notes

Edit == edits < MaxEdits /\ edits' = edits + 1 /\ UNCHANGED <<k, todo>>

WriteConf(s, text) ==
  /\ Edit /\ disk.dir[s]
  /\ disk' = [disk EXCEPT !.conf[s] = text]
  /\ Notify(s, "conf_changed") /\ UNCHANGED watch

WriteOverride(s, text) ==
  /\ Edit /\ disk.dir[s]
  /\ disk' = [disk EXCEPT !.over[s] = text]
  /\ Notify(s, "over_changed") /\ UNCHANGED watch

DeleteConf(s) ==
  /\ Edit /\ disk.conf[s] # None
  /\ disk' = [disk EXCEPT !.conf[s] = None]
  /\ Notify(s, "conf_deleted") /\ UNCHANGED watch

DeleteOverride(s) ==
  /\ Edit /\ disk.over[s] # None
  /\ disk' = [disk EXCEPT !.over[s] = None]
  /\ Notify(s, "over_deleted") /\ UNCHANGED watch

\* An empty directory is removed; its inotify watch dies with it.
RemoveDir(s) ==
  /\ Edit /\ disk.dir[s] /\ disk.conf[s] = None /\ disk.over[s] = None
  /\ disk' = [disk EXCEPT !.dir[s] = FALSE]
  /\ Notify(s, "dir_deleted")
  /\ watch' = IF watch[s] = "live" THEN [watch EXCEPT ![s] = "dead"] ELSE watch

MakeDir(s) ==
  /\ Edit /\ ~disk.dir[s]
  /\ disk' = [disk EXCEPT !.dir[s] = TRUE]
  /\ UNCHANGED <<watch, notes>>

-----------------------------------------------------------------------------
(* The handlers of conf.c; startup runs one at a time *)

Idle == todo = <<>>

CallOn(op, s) == [op |-> op, src |-> s]
Calls(op) == [s \in Sources |-> CallOn(op, s)]

HasNote(s, note) ==
  /\ Idle /\ notes[s] # <<>> /\ Head(notes[s]) = note
  /\ notes' = [notes EXCEPT ![s] = Tail(@)]
  /\ UNCHANGED <<disk, edits>>

\* conf_create_modify_handler for a .conf.  The watch drops the notification
\* of a file that is gone: its deletion is notified next.
ConfChanged(s) ==
  /\ HasNote(s, "conf_changed")
  /\ todo' = IF disk.conf[s] = None THEN <<>> ELSE <<CallOn("load", s)>>
  /\ UNCHANGED <<k, watch>>

\* conf_create_modify_handler for an override: every known .conf of that name.
OverrideChanged(s) ==
  /\ HasNote(s, "over_changed")
  /\ todo' = IF disk.over[s] = None THEN <<>> ELSE Calls("load_if_known")
  /\ UNCHANGED <<k, watch>>

\* conf_delete_handler, with its three cases.
ConfDeleted(s) ==
  /\ HasNote(s, "conf_deleted")
  /\ k' = ConfFileDestroy(Unlink(k, s), k.file[s])
  /\ UNCHANGED <<todo, watch>>

\* Mutant of OverrideDeleted: only the .conf beside the override is reloaded.
OverrideDeleted_OnlyBeside(s) ==
  /\ HasNote(s, "over_deleted")
  /\ todo' = <<CallOn("load_if_known", s)>>
  /\ UNCHANGED <<k, watch>>

OverrideDeleted(s) ==
  /\ HasNote(s, "over_deleted")
  /\ todo' = Calls("load_if_known")
  /\ UNCHANGED <<k, watch>>

DirDeleted(s) ==
  /\ HasNote(s, "dir_deleted")
  /\ watch' = [watch EXCEPT ![s] = "none"]
  /\ UNCHANGED <<k, todo>>

\* conf_reload, asked for with `initctl reload-configuration` or SIGHUP.
ConfReload ==
  /\ Idle
  /\ todo' = Calls("reload_source")
  /\ UNCHANGED <<disk, watch, notes, k, edits>>

\* The next call of the running handler.
Doing(op, s) ==
  /\ todo # <<>> /\ Head(todo) = CallOn(op, s)
  /\ UNCHANGED <<disk, notes, edits>>

\* conf_source_reload up to the walk: the flag is toggled, which leaves the
\* ConfFile of the source out of date; a directory without a watch gets one and
\* the new watch reports both files, otherwise only .conf files are visited.
ReloadSource(s) ==
  /\ Doing("reload_source", s)
  /\ k' = [k EXCEPT !.stale = IF k.file[s] = NoFile THEN @ ELSE @ \cup {s}]
  /\ LET new   == watch[s] = "none" /\ disk.dir[s]
         conf  == IF disk.conf[s] = None THEN <<>> ELSE <<CallOn("load", s)>>
         over  == IF disk.over[s] = None \/ ~new THEN <<>>
                  ELSE <<CallOn("over_found", s)>>
         sweep == <<CallOn("sweep", s)>>
     IN /\ watch' = IF new THEN [watch EXCEPT ![s] = "live"] ELSE watch
        /\ \E walk \in {conf \o over, over \o conf} :
             todo' = walk \o sweep \o Tail(todo)

\* conf_load_path_with_override.
Load(s) ==
  /\ Doing("load", s)
  /\ k' = ConfLoadPathWithOverride(k, s)
  /\ todo' = Tail(todo)
  /\ UNCHANGED watch

LoadIfKnown(s) ==
  /\ Doing("load_if_known", s)
  /\ k' = IF k.file[s] = NoFile THEN k ELSE ConfLoadPathWithOverride(k, s)
  /\ todo' = Tail(todo)
  /\ UNCHANGED watch

OverrideFound(s) ==
  /\ Doing("over_found", s)
  /\ todo' = Calls("load_if_known") \o Tail(todo)
  /\ UNCHANGED <<k, watch>>

\* The end of conf_source_reload: a ConfFile with the old flag is deleted.
Sweep(s) ==
  /\ Doing("sweep", s)
  /\ k' = IF s \in k.stale THEN ConfFileDestroy(Unlink(k, s), k.file[s]) ELSE k
  /\ todo' = Tail(todo)
  /\ UNCHANGED watch

-----------------------------------------------------------------------------
(* Instances of the registered class *)

Registered == k.class[k.registered]

\* An instance is started by a command on the registered class.
Start(i) ==
  /\ Idle /\ k.registered # None /\ i \notin Registered.instances
  /\ k' = [k EXCEPT !.class[k.registered].instances = @ \cup {i}]
  /\ UNCHANGED <<disk, watch, notes, todo, edits>>

\* An event reaches the `start on` of the registered class; the last one it
\* needs starts an instance, which takes the events over.
EventArrives(e, i) ==
  /\ Idle /\ k.registered # None
  /\ e \in Registered.startOn \ Registered.matched
  /\ LET matched == Registered.matched \cup {e}
         all     == matched = Registered.startOn
     IN k' = [k EXCEPT !.class[k.registered].matched =
                          IF all THEN {} ELSE matched,
                       !.class[k.registered].instances =
                          IF all THEN @ \cup {i} ELSE @]
  /\ UNCHANGED <<disk, watch, notes, todo, edits>>

\* Mutant of Finish: the class is not reconsidered.
Finish_KeepsClass(c, i) ==
  /\ Idle /\ i \in k.class[c].instances
  /\ k' = [k EXCEPT !.class[c].instances = @ \ {i}]
  /\ UNCHANGED <<disk, watch, notes, todo, edits>>

\* job_change_state on entering waiting: the instance leaves its class, which
\* may now be replaced.
Finish(c, i) ==
  /\ Idle /\ i \in k.class[c].instances
  /\ LET x == [k EXCEPT !.class[c].instances = @ \ {i}]
         y == JobClassReconsider(x, c)
     IN k' = IF x.class[c].deleted /\ Unused(x, c) THEN Free(y, c) ELSE y
  /\ UNCHANGED <<disk, watch, notes, todo, edits>>

-----------------------------------------------------------------------------
\* startup begins by reloading every source.
Init ==
  /\ disk \in [dir : [Sources -> BOOLEAN], conf : {[s \in Sources |-> None]},
               over : {[s \in Sources |-> None]}]
  /\ watch = [s \in Sources |-> "none"]
  /\ notes = [s \in Sources |-> <<>>]
  /\ k = [class |-> <<>>, file |-> [s \in Sources |-> NoFile],
          stale |-> {}, registered |-> None]
  /\ todo = Calls("reload_source")
  /\ edits = 0

Disk ==
  \E s \in Sources :
    \/ \E t \in ConfTexts : WriteConf(s, t)
    \/ \E t \in OverrideTexts : WriteOverride(s, t)
    \/ DeleteConf(s)
    \/ DeleteOverride(s)
    \/ RemoveDir(s)
    \/ MakeDir(s)

Handler ==
  \E s \in Sources :
    \/ ConfChanged(s)
    \/ OverrideChanged(s)
    \/ ConfDeleted(s)
    \/ OverrideDeleted(s)
    \/ DirDeleted(s)
    \/ ReloadSource(s)
    \/ Load(s)
    \/ LoadIfKnown(s)
    \/ OverrideFound(s)
    \/ Sweep(s)

Instance ==
  \E i \in InstanceNames :
    \/ Start(i)
    \/ \E e \in EventNames : EventArrives(e, i)
    \/ \E c \in DOMAIN k.class : Finish(c, i)

Next == Disk \/ Handler \/ ConfReload \/ Instance

Spec == Init /\ [][Next]_vars
-----------------------------------------------------------------------------
(* Properties *)

\* The type of every variable; a class has matched only events that its
\* `start on` tree has a leaf for.
TypeOK ==
  /\ disk \in [dir : [Sources -> BOOLEAN],
               conf : [Sources -> ConfTexts \cup {None}],
               over : [Sources -> OverrideTexts \cup {None}]]
  /\ watch \in [Sources -> {"none", "live", "dead"}]
  /\ notes \in [Sources -> Seq(Note)]
  /\ DOMAIN k = {"class", "file", "stale", "registered"}
  /\ DOMAIN k.class \subseteq ClassIds
  /\ \A c \in DOMAIN k.class : k.class[c] \in Class
  /\ k.file \in [Sources -> ClassIds \cup {NoFile, NoJob}]
  /\ k.stale \subseteq Sources
  /\ k.registered \in ClassIds \cup {None}
  /\ todo \in Seq(Call)
  /\ edits \in 0..MaxEdits

\* Whatever order files, directories, reloads and instances come and go in, the
\* JobClass structures that are allocated are exactly the ones a ConfFile or the
\* job_classes table refers to: conf_file_destroy and the end of the last
\* instance neither leave a pointer to a class they freed nor forget one.
ClassesAccounted ==
  DOMAIN k.class =
    {k.file[s] : s \in Candidates(k)} \cup ({k.registered} \ {None})

\* A class with instances is the registered one.  Children that die, events and
\* commands reach a job only through job_classes, so a job of a class that had
\* left the table could never be stopped or reaped.
InstancesReachable ==
  \A c \in DOMAIN k.class : k.class[c].instances # {} => k.registered = c

\* After every call, the registered class is the best one on offer, unless it
\* still has instances that keep job_class_remove from taking it out.
BestUnlessRunning ==
  k.registered # ConfSelectJob(k) =>
    k.registered # None /\ Registered.instances # {}

\* Every notification has been handled and every directory is watched.
Settled == Idle /\ \A s \in Sources : notes[s] = <<>> /\ watch[s] = "live"

\* The sources from which a startup with this disk would make a class, and the
\* texts it would make it of.
Usable(s) ==
  /\ disk.conf[s] # None
  /\ BestOverride(s) \notin BadTexts
  /\ disk.conf[s] \notin BadTexts \/ BestOverride(s) # None

Expected(s) ==
  <<IF disk.conf[s] \in BadTexts THEN None ELSE disk.conf[s], BestOverride(s)>>

\* Once the notifications are handled, the best class is what a fresh start
\* would load: no sequence of creations, changes and deletions of .conf and
\* .override files, in directories whose notifications are handled in any order
\* and with reloads in between, leaves an old text in force.
SettledMatchesDisk ==
  Settled =>
    LET best == ConfSelectJob(k)
        use  == {s \in Sources : Usable(s)}
    IN IF use = {} THEN best = None
       ELSE /\ best # None
            /\ <<k.class[best].conf, k.class[best].over>> =
                 Expected(CHOOSE s \in use : \A r \in use : s <= r)

\* When a class just loaded takes the place of the registered one, the events
\* the old one had matched and the new one needs are matched already: a reload
\* half-way through the boot does not wait for events that have passed.
ReloadKeepsMatches ==
  [][(/\ k.registered # None /\ k.registered' # None
      /\ k.registered' \notin DOMAIN k.class) =>
       k.class[k.registered].matched \cap k.class'[k.registered'].startOn
         \subseteq k.class'[k.registered'].matched]_vars

\* An error in the .conf or in the override that applies to it.
HasError(s) == disk.conf[s] \in BadTexts \/ BestOverride(s) \in BadTexts

\* startup(5): a parse error stops a job from running.  With an error in every
\* configuration of the job, no idle class stays registered for it.
ParseErrorStopsJob ==
  (Settled /\ \A s \in Sources : disk.conf[s] # None => HasError(s)) =>
    k.registered = None \/ Registered.instances # {}
=============================================================================
