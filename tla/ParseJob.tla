------------------------------ MODULE ParseJob ------------------------------
(***************************************************************************)
(* The parser of job files (init/parse_job.c), and the way back from a     *)
(* condition to its text (event_operator.c, state.c).                      *)
(*                                                                         *)
(* The tokeniser is libnih's.  A condition is a sequence of tokens, "NL"   *)
(* among them.  Any other stanza is a line [stanza, words, nums]: its      *)
(* keywords and its numbers, NULL for anything else.  A    *)
(* handler gives [class, ok]: on an error the class keeps what was stored  *)
(* before it.  An int has IntBits bits.                                    *)
(***************************************************************************)
EXTENDS StateData, FiniteSets, FiniteSetsExt

CONSTANTS
  Assignments,  \* the words with an equals sign
  Spaced,       \* the words with white space in them
  IntBits       \* width of an int

ASSUME IntBitsAssumption == IntBits \in Nat \ {0}

-----------------------------------------------------------------------------
(* Conditions.  The state of parse_on is [stack, root, paren, error, done]; *)
(* the stack begins with its top, and NULL on it marks an open parenthesis. *)

Match(name) == [type |-> MATCH, name |-> name, env |-> <<>>]

Refuse(s) == [s EXCEPT !.error = TRUE]

\* Operators and events are taken from the stack up to an open parenthesis: an
\* operator needs a tree for its right side, an event must be the first.
RECURSIVE ParseOnCollect(_)
ParseOnCollect(s) ==
  IF s.stack = <<>> \/ Head(s.stack) = NULL
  THEN IF s.root = NULL THEN Refuse(s) ELSE s
  ELSE LET oper == Head(s.stack)
           rest == [s EXCEPT !.stack = Tail(@)]
       IN IF (oper.type = MATCH) = (s.root # NULL) THEN Refuse(rest)
          ELSE ParseOnCollect([rest EXCEPT !.root =
                 IF oper.type = MATCH THEN oper ELSE [oper EXCEPT !.right = s.root]])

\* The item on top is an event.
EventOnTop(s) ==
  s.stack # <<>> /\ Head(s.stack) # NULL /\ Head(s.stack).type = MATCH

\* Mutant of ParseOnOperand: arguments in any order.
ParseOnOperand_AnyOrder(s, word) ==
  IF ~EventOnTop(s) THEN [s EXCEPT !.stack = <<Match(word)>> \o @]
  ELSE [s EXCEPT !.stack[1].env = Append(@, word)]

\* A word is the name of an event, or an argument of the event on top; no
\* positional argument may follow a named one.
ParseOnOperand(s, word) ==
  IF ~EventOnTop(s) THEN [s EXCEPT !.stack = <<Match(word)>> \o @]
  ELSE LET env == Append(Head(s.stack).env, word)
           new == [s EXCEPT !.stack[1].env = env]
       IN IF \E i, j \in DOMAIN env : i < j /\ env[i] \in Assignments /\ env[j] \notin Assignments
          THEN Refuse(new) ELSE new

\* What has been read so far becomes the left side of the new operator.
ParseOnOperator(s, token) ==
  IF token \notin {"and", "or"} THEN ParseOnOperand(s, token)
  ELSE LET c == ParseOnCollect(s)
       IN IF c.error THEN c
          ELSE [c EXCEPT !.root = NULL,
                         !.stack = <<[type |-> IF token = "and" THEN AND ELSE OR,
                                      left |-> c.root, right |-> NULL]>> \o @]

ParseOnParen(s, token) ==
  IF token = "("
  THEN IF s.root # NULL \/ EventOnTop(s) THEN Refuse(s)
       ELSE [s EXCEPT !.paren = @ + 1, !.stack = <<NULL>> \o @]
  ELSE LET c == ParseOnCollect([s EXCEPT !.paren = @ - 1])
       IN IF c.error \/ c.stack = <<>> THEN Refuse(c)
          ELSE [c EXCEPT !.stack = Tail(@)]

\* A line ends the condition unless a parenthesis is open.
ParseOnToken(s, token) ==
  CASE s.error \/ s.done  -> s
    [] ~(s.error \/ s.done) /\ token = "NL" -> [s EXCEPT !.done = (s.paren = 0)]
    [] ~(s.error \/ s.done) /\ token \in {"(", ")"} -> ParseOnParen(s, token)
    [] OTHER -> ParseOnOperator(s, token)

\* The tree, or NULL for an error.
ParseOn(tokens) ==
  LET start == [stack |-> <<>>, root |-> NULL, paren |-> 0, error |-> FALSE, done |-> FALSE]
      read  == FoldLeft(ParseOnToken, start, tokens)
      end   == IF read.error \/ tokens = <<>> THEN Refuse(read) ELSE ParseOnCollect(read)
  IN IF end.error \/ end.stack # <<>> THEN NULL ELSE end.root

-----------------------------------------------------------------------------
(* From a condition to its text *)

\* A value with white space is quoted, and so is one word again; a word without
\* an equals sign is not, and falls apart.
StateCollapseEnv(env) ==
  FlattenSeq([i \in DOMAIN env |->
                IF env[i] \in Spaced \ Assignments THEN <<"b", "b">> ELSE <<env[i]>>])

\* Mutant of Collapsed: the operand on top of the stack is taken for the left one.
Collapsed_Reflected(t, stack) ==
  LET text(n) == <<n.name>> \o StateCollapseEnv(n.env)
      l  == IF t.left.type # MATCH THEN <<Head(stack), Tail(stack)>> ELSE <<text(t.left), stack>>
      r  == IF t.right.type # MATCH THEN <<Head(l[2]), Tail(l[2])>> ELSE <<text(t.right), l[2]>>
      op == IF t.type = OR THEN "or" ELSE "and"
  IN <<<<"(">> \o l[1] \o <<op>> \o r[1] \o <<")">>>> \o r[2]

\* An inner node takes the text of each inner child from the stack, the right one
\* first, and puts its own there.
Collapsed(t, stack) ==
  LET text(n) == <<n.name>> \o StateCollapseEnv(n.env)
      r  == IF t.right.type # MATCH THEN <<Head(stack), Tail(stack)>> ELSE <<text(t.right), stack>>
      l  == IF t.left.type # MATCH THEN <<Head(r[2]), Tail(r[2])>> ELSE <<text(t.left), r[2]>>
      op == IF t.type = OR THEN "or" ELSE "and"
  IN <<<<"(">> \o l[1] \o <<op>> \o r[1] \o <<")">>>> \o l[2]

EventOperatorCollapse(t) ==
  IF t.type = MATCH THEN <<t.name>> \o StateCollapseEnv(t.env)
  ELSE Head(FoldLeft(LAMBDA stack, n : IF n.type = MATCH THEN stack ELSE Collapsed(n, stack),
                     <<>>, Postorder(t)))

-----------------------------------------------------------------------------
(* Stanzas *)

Ok(class) == [class |-> class, ok |-> TRUE]

Fail(class) == [class |-> class, ok |-> FALSE]

\* Conversion to an int keeps the low bits.
ToInt(n) == ((n + 2^(IntBits - 1)) % 2^IntBits) - 2^(IntBits - 1)

IntMax == 2^(IntBits - 1) - 1

\* strtol and the like store what they read before a word, and complain: zero.
Number(n) == IF n = NULL THEN 0 ELSE n

Word(l, i) == IF i \in DOMAIN l.words THEN l.words[i] ELSE NULL

Num(l, i) == IF i \in DOMAIN l.nums THEN l.nums[i] ELSE NULL

Missing(l, i) == i \notin DOMAIN l.nums

\* A number, if there is one, is stored in a field as an int and then checked.
StoreInt(class, field, l, i, valid) ==
  LET new == [class EXCEPT ![field] = ToInt(Number(Num(l, i)))]
  IN IF Missing(l, i) THEN Fail(class)
     ELSE IF Num(l, i) # NULL /\ new[field] \in valid THEN Ok(new) ELSE Fail(new)

\* The same with a time_t, which holds what strtol returns.
StoreTime(class, field, l, i) ==
  LET new == [class EXCEPT ![field] = Number(Num(l, i))]
  IN IF Missing(l, i) THEN Fail(class)
     ELSE IF Num(l, i) # NULL /\ new[field] >= 0 THEN Ok(new) ELSE Fail(new)

\* The stanzas with one word: the old one is dropped, missing or not.
StoreWord(class, field, l) ==
  LET new == [class EXCEPT ![field] = Word(l, 1)]
  IN IF Word(l, 1) = NULL THEN Fail(new) ELSE Ok(new)

StanzaInstance(class, l)    == StoreWord(class, "instance", l)
StanzaDescription(class, l) == StoreWord(class, "description", l)
StanzaAuthor(class, l)      == StoreWord(class, "author", l)
StanzaVersion(class, l)     == StoreWord(class, "version", l)
StanzaChroot(class, l)      == StoreWord(class, "chroot", l)
StanzaChdir(class, l)       == StoreWord(class, "chdir", l)
StanzaSetuid(class, l)      == StoreWord(class, "setuid", l)
StanzaSetgid(class, l)      == StoreWord(class, "setgid", l)
StanzaUsage(class, l)       == StoreWord(class, "usage", l)

StanzaDebug(class, l)  == Ok(class)   \* without the option that enables it

StanzaManual(class, l) == Ok([class EXCEPT !.start_on = NULL])

\* The old tree is given up before the new one is read.
StanzaStart(class, l) ==
  IF Word(l, 1) # "on" THEN Fail(class)
  ELSE LET new == [class EXCEPT !.start_on = ParseOn(Tail(l.words))]
       IN IF new.start_on = NULL THEN Fail(new) ELSE Ok(new)

StanzaStop(class, l) ==
  IF Word(l, 1) # "on" THEN Fail(class)
  ELSE LET new == [class EXCEPT !.stop_on = ParseOn(Tail(l.words))]
       IN IF new.stop_on = NULL THEN Fail(new) ELSE Ok(new)

\* Lists that grow.
StanzaEnv(class, l) ==
  IF l.words = <<>> THEN Fail(class) ELSE Ok([class EXCEPT !.env = Append(@, l.words[1])])

StanzaExport(class, l) ==
  IF l.words = <<>> THEN Fail(class) ELSE Ok([class EXCEPT !.export = @ \o l.words])

StanzaEmits(class, l) ==
  IF l.words = <<>> THEN Fail(class) ELSE Ok([class EXCEPT !.emits = @ \o l.words])

\* Mutant of ParseExec: the command of a script is still taken for a script.
ParseExec_KeepsScript(class, p, args) ==
  IF args = <<>> THEN Fail(class) ELSE Ok([class EXCEPT !.process[p].command = args])

\* What follows "exec", a command of at least one word, replaces the command.
ParseExec(class, p, args) ==
  IF args = <<>> THEN Fail(class)
  ELSE Ok([class EXCEPT !.process[p] = [script |-> FALSE, command |-> args]])

\* What follows "script", up to "end script": without the end there is no command.
ParseScript(class, p, args) ==
  LET ended == args # <<>> /\ Last(args) = "end script"
      new   == [class EXCEPT !.process[p] =
                  [script |-> TRUE, command |-> IF ended THEN Front(args) ELSE NULL]]
  IN IF ended THEN Ok(new) ELSE Fail(new)

\* The slot of a process is filled before anything is read for it.
Allocated(class, p) ==
  [class EXCEPT !.process[p] = IF @ = NULL THEN [script |-> FALSE, command |-> NULL] ELSE @]

ParseProcess(class, p, l) ==
  LET new == Allocated(class, p)
  IN CASE Word(l, 1) = "exec"   -> ParseExec(new, p, Tail(l.words))
       [] Word(l, 1) = "script" -> ParseScript(new, p, Tail(l.words))
       [] OTHER -> Fail(new)

StanzaExec(class, l)      == ParseExec(Allocated(class, "main"), "main", l.words)
StanzaScript(class, l)    == ParseScript(Allocated(class, "main"), "main", l.words)
StanzaPreStart(class, l)  == ParseProcess(class, "pre-start", l)
StanzaPostStart(class, l) == ParseProcess(class, "post-start", l)
StanzaPreStop(class, l)   == ParseProcess(class, "pre-stop", l)
StanzaPostStop(class, l)  == ParseProcess(class, "post-stop", l)

StanzaExpect(class, l) ==
  IF Word(l, 1) \in {"readyfd", "stop", "daemon", "fork", "none"}
  THEN Ok([class EXCEPT !.expect = Word(l, 1)]) ELSE Fail(class)

StanzaTask(class, l) == Ok([class EXCEPT !.task = TRUE])

\* A signal by its name, or a number that fits an int.
SignalOf(l) ==
  CASE Word(l, 2) = "TERM" -> 15
    [] Word(l, 2) = "KILL" -> 9
    [] OTHER -> IF Num(l, 1) \in 0..IntMax THEN Num(l, 1) ELSE NULL

StanzaKill(class, l) ==
  CASE Word(l, 1) = "timeout" -> StoreTime(class, "kill_timeout", l, 1)
    [] Word(l, 1) = "signal" /\ SignalOf(l) # NULL -> Ok([class EXCEPT !.kill_signal = SignalOf(l)])
    [] OTHER -> Fail(class)

StanzaReload(class, l) ==
  IF Word(l, 1) = "signal" /\ SignalOf(l) # NULL
  THEN Ok([class EXCEPT !.reload_signal = SignalOf(l)]) ELSE Fail(class)

StanzaApparmor(class, l) ==
  CASE Word(l, 1) = "load" /\ Word(l, 2) # NULL ->
         Ok([class EXCEPT !.process["security"] = [script |-> FALSE, command |-> <<Word(l, 2)>>]])
    [] Word(l, 1) = "switch" ->
         LET new == [class EXCEPT !.apparmor_switch = Word(l, 2)]
         IN IF Word(l, 2) = NULL THEN Fail(new) ELSE Ok(new)
    [] OTHER -> Fail(class)

StanzaRespawn(class, l) ==
  CASE l.words = <<>> /\ l.nums = <<>> -> Ok([class EXCEPT !.respawn = TRUE])
    [] Word(l, 1) = "limit" /\ Word(l, 2) = "unlimited" ->
         Ok([class EXCEPT !.respawn_limit = 0, !.respawn_interval = 0])
    [] Word(l, 1) = "limit" /\ Word(l, 2) # "unlimited" ->
         LET limit == StoreInt(class, "respawn_limit", l, 1, Nat)
         IN IF ~limit.ok THEN limit ELSE StoreTime(limit.class, "respawn_interval", l, 2)
    [] OTHER -> Fail(class)

\* One status after the other is added, until one is wrong.  NULL is the name of
\* the signal TERM; the status of a signal is shifted out of the way of exit codes.
StanzaNormal(class, l) ==
  LET status(i) == IF l.nums[i] = NULL THEN 15 * 256 ELSE l.nums[i]
      bad  == {i \in DOMAIN l.nums : status(i) < 0 \/ (l.nums[i] # NULL /\ status(i) > IntMax)}
      upto == IF bad = {} THEN Len(l.nums) ELSE Min(bad) - 1
      new  == [class EXCEPT !.normalexit = @ \o [i \in 1..upto |-> status(i)]]
  IN IF Word(l, 1) # "exit" THEN Fail(class)
     ELSE IF bad = {} /\ l.nums # <<>> THEN Ok(new) ELSE Fail(new)

StanzaConsole(class, l) ==
  IF Word(l, 1) \in {"none", "output", "owner", "log"}
  THEN Ok([class EXCEPT !.console = Word(l, 1)]) ELSE Fail([class EXCEPT !.console = NULL])

\* The bound of a umask is 0777, of which TLA+ keeps the decimal value.
StanzaUmask(class, l) ==
  LET new == [class EXCEPT !.umask = Number(Num(l, 1)) % 2^IntBits]
  IN IF Missing(l, 1) THEN Fail(class)
     ELSE IF Num(l, 1) # NULL /\ new.umask <= 511 THEN Ok(new) ELSE Fail(new)

StanzaNice(class, l) == StoreInt(class, "nice", l, 1, -20..19)

\* Division in C cuts towards zero.
Quotient(a, b) == IF a < 0 THEN -((-a) \div b) ELSE a \div b

\* The old scale is turned into that of oom_score_adj before it is checked.
StanzaOom(class, l) ==
  CASE Word(l, 1) = "score" /\ Word(l, 2) = "never" -> Ok([class EXCEPT !.oom_score_adj = -1000])
    [] Word(l, 1) = "score" /\ Word(l, 2) # "never" ->
         StoreInt(class, "oom_score_adj", l, 1, -1000..1000)
    [] Word(l, 1) = "never" -> Ok([class EXCEPT !.oom_score_adj = -1000])
    [] OTHER ->
         LET adj == ToInt(Number(Num(l, 1)))
             new == [class EXCEPT !.oom_score_adj = Quotient(adj * 1000, IF adj < 0 THEN 17 ELSE 15)]
         IN IF Missing(l, 1) THEN Fail(class)
            ELSE IF Num(l, 1) # NULL /\ adj \in -17..15 THEN Ok(new) ELSE Fail(new)

\* A limit that is new and not completed has values nobody set.
Unset == [cur |-> NULL, max |-> NULL]

\* -1 stands for RLIM_INFINITY.  The slot is made before its values are read, and
\* each value is stored before the next is looked for.
StanzaLimit(class, l) ==
  LET given(i) == Word(l, i + 1) = "unlimited" \/ ~Missing(l, i)
      value(i) == IF Word(l, i + 1) = "unlimited" THEN -1 ELSE Num(l, i)
      r    == Word(l, 1)
      made == [class EXCEPT !.limits[r] = IF @ = NULL THEN Unset ELSE @]
      soft == [made EXCEPT !.limits[r].cur = Number(value(1))]
      hard == [soft EXCEPT !.limits[r].max = Number(value(2))]
  IN CASE r \notin DOMAIN class.limits -> Fail(class)
       [] r \in DOMAIN class.limits /\ ~given(1) -> Fail(made)
       [] r \in DOMAIN class.limits /\ given(1) /\ (value(1) = NULL \/ ~given(2)) -> Fail(soft)
       [] OTHER -> IF value(2) = NULL THEN Fail(hard) ELSE Ok(hard)

-----------------------------------------------------------------------------
(* Cgroups: sequences without two entries of one name *)

\* A key that is there is given the new value.
AddSetting(name, key, value) ==
  LET i == SelectInSeq(name.settings, LAMBDA s : s.key = key)
  IN IF key = NULL THEN name
     ELSE IF i = 0 THEN [name EXCEPT !.settings = Append(@, [key |-> key, value |-> value])]
     ELSE [name EXCEPT !.settings[i].value = value]

NewName(name) == [name |-> name, expanded |-> NULL, settings |-> <<>>]

AddName(cgroup, name, key, value) ==
  LET i == SelectInSeq(cgroup.names, LAMBDA n : n.name = name)
  IN IF i = 0
     THEN [cgroup EXCEPT !.names = Append(@, AddSetting(NewName(name), key, value))]
     ELSE [cgroup EXCEPT !.names[i] = AddSetting(@, key, value)]

\* Without a name the setting goes to the group that startup makes itself.
CgroupAdd(cgroups, controller, given, key, value) ==
  LET name == IF given = NULL THEN "UPSTART_CGROUP" ELSE given
      i    == SelectInSeq(cgroups, LAMBDA c : c.controller = controller)
  IN IF i = 0
     THEN Append(cgroups, AddName([controller |-> controller, names |-> <<>>], name, key, value))
     ELSE [cgroups EXCEPT ![i] = AddName(@, name, key, value)]

\* controller [name] [key value]: with three words there is no name.
ParseCgroup(class, l) ==
  LET w == l.words
      add(name, key, value) ==
        Ok([class EXCEPT !.cgroups = CgroupAdd(@, w[1], name, key, value)])
  IN CASE Len(w) = 0 -> Fail(class)
       [] Len(w) = 1 -> add(NULL, NULL, NULL)
       [] Len(w) = 2 -> add(w[2], NULL, NULL)
       [] Len(w) = 3 -> add(NULL, w[2], w[3])
       [] Len(w) > 3 -> add(w[2], w[3], w[4])

StanzaCgroup(class, l) == ParseCgroup(class, l)

-----------------------------------------------------------------------------
(* Files *)

ProcessSlots == {"main", "pre-start", "post-start", "pre-stop", "post-stop", "security"}

Resources == {"as", "core", "cpu", "data", "fsize", "memlock", "msgqueue", "nice", "nofile",
              "nproc", "rss", "rtprio", "sigpending", "stack"}

\* job_class_new: the defaults.
NewClass ==
  [instance |-> "", description |-> NULL, author |-> NULL, version |-> NULL,
   chroot |-> NULL, chdir |-> NULL, setuid |-> NULL, setgid |-> NULL, usage |-> NULL,
   apparmor_switch |-> NULL, env |-> <<>>, export |-> <<>>, emits |-> <<>>,
   start_on |-> NULL, stop_on |-> NULL, process |-> [p \in ProcessSlots |-> NULL],
   expect |-> "none", task |-> FALSE, kill_timeout |-> 5, kill_signal |-> 15,
   reload_signal |-> 1, respawn |-> FALSE, respawn_limit |-> 10, respawn_interval |-> 5,
   normalexit |-> <<>>, console |-> "log", umask |-> 18, nice |-> NULL, oom_score_adj |-> 0,
   limits |-> [r \in Resources |-> NULL], cgroups |-> <<>>]

\* The table of stanzas.
Handle(class, l) ==
  CASE l.stanza = "instance"    -> StanzaInstance(class, l)
    [] l.stanza = "description" -> StanzaDescription(class, l)
    [] l.stanza = "author"      -> StanzaAuthor(class, l)
    [] l.stanza = "version"     -> StanzaVersion(class, l)
    [] l.stanza = "env"         -> StanzaEnv(class, l)
    [] l.stanza = "export"      -> StanzaExport(class, l)
    [] l.stanza = "start"       -> StanzaStart(class, l)
    [] l.stanza = "stop"        -> StanzaStop(class, l)
    [] l.stanza = "emits"       -> StanzaEmits(class, l)
    [] l.stanza = "exec"        -> StanzaExec(class, l)
    [] l.stanza = "script"      -> StanzaScript(class, l)
    [] l.stanza = "pre-start"   -> StanzaPreStart(class, l)
    [] l.stanza = "post-start"  -> StanzaPostStart(class, l)
    [] l.stanza = "pre-stop"    -> StanzaPreStop(class, l)
    [] l.stanza = "post-stop"   -> StanzaPostStop(class, l)
    [] l.stanza = "expect"      -> StanzaExpect(class, l)
    [] l.stanza = "task"        -> StanzaTask(class, l)
    [] l.stanza = "kill"        -> StanzaKill(class, l)
    [] l.stanza = "reload"      -> StanzaReload(class, l)
    [] l.stanza = "respawn"     -> StanzaRespawn(class, l)
    [] l.stanza = "normal"      -> StanzaNormal(class, l)
    [] l.stanza = "console"     -> StanzaConsole(class, l)
    [] l.stanza = "umask"       -> StanzaUmask(class, l)
    [] l.stanza = "nice"        -> StanzaNice(class, l)
    [] l.stanza = "oom"         -> StanzaOom(class, l)
    [] l.stanza = "limit"       -> StanzaLimit(class, l)
    [] l.stanza = "chroot"      -> StanzaChroot(class, l)
    [] l.stanza = "chdir"       -> StanzaChdir(class, l)
    [] l.stanza = "setuid"      -> StanzaSetuid(class, l)
    [] l.stanza = "setgid"      -> StanzaSetgid(class, l)
    [] l.stanza = "debug"       -> StanzaDebug(class, l)
    [] l.stanza = "manual"      -> StanzaManual(class, l)
    [] l.stanza = "usage"       -> StanzaUsage(class, l)
    [] l.stanza = "apparmor"    -> StanzaApparmor(class, l)
    [] l.stanza = "cgroup"      -> StanzaCgroup(class, l)

\* The first error ends the file.  update is a class to change, for an override.
ParseFile(update, file) ==
  FoldLeft(LAMBDA r, l : IF r.ok THEN Handle(r.class, l) ELSE r,
           Ok(IF update = NULL THEN NewClass ELSE update), file)

=============================================================================
