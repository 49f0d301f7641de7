---------------------------- MODULE MCAlgorithms ----------------------------
(***************************************************************************)
(* The pure algorithms of ParseJob, Environ and StateData against reference *)
(* definitions, on every input up to a length: input grows by one element  *)
(* at a time, and kind tells which algorithm it is for.                    *)
(***************************************************************************)
EXTENDS ParseJob

CONSTANTS MaxTokens, MaxLines, MaxAdds, MaxPieces

VARIABLES kind, input

-----------------------------------------------------------------------------
(* Inputs *)

Tokens == {"(", ")", "and", "or", "b", "K=v w", "NL"}

L(stanza, words, nums) == [stanza |-> stanza, words |-> words, nums |-> nums]

\* The numbers at the edges: of nice, of both scales of oom, of a umask, of an
\* int, and the first that an int cannot hold.
Edges == {-1001, -1000, -21, -20, -18, -17, -1, 0, 15, 16, 19, 20, 511, 512, 1000, 1001,
          IntMax, IntMax + 1, 2^IntBits, 2^IntBits + 19, NULL}

Lines ==
  {L(s, <<>>, <<n>>) : s \in {"nice", "oom", "umask"}, n \in Edges}
  \cup {L("oom", <<"score">>, <<n>>) : n \in Edges}
  \cup {L("kill", <<"timeout">>, n) : n \in {<<-1>>, <<0>>, <<1>>, <<NULL>>, <<>>}}
  \cup {L("respawn", <<"limit">>, n) :
          n \in {<<3, 7>>, <<-1, 7>>, <<3, -1>>, <<3>>, <<NULL>>, <<2^IntBits - 1, 1>>}}
  \cup {L("normal", <<"exit">>, n) : n \in {<<0, 1>>, <<1, NULL, 2>>, <<1, IntMax + 1>>, <<-1>>, <<>>}}
  \cup {L(s, <<"signal">> \o w, n) : s \in {"kill", "reload"}, w \in {<<>>, <<"KILL">>},
                                     n \in {<<>>, <<0>>, <<IntMax>>, <<IntMax + 1>>}}
  \cup {L("limit", w, n) : w \in {<<"core">>, <<"core", "unlimited", "unlimited">>, <<"none">>},
                           n \in {<<>>, <<1>>, <<1, 2>>, <<NULL, 2>>}}
  \cup {L(s, w, <<>>) : s \in {"start", "stop"},
                        w \in {<<"on", "b">>, <<"on", "b", "or", "c">>, <<"on", "and">>, <<"off">>}}
  \cup {L(s, w, <<>>) : s \in {"pre-start", "post-start", "pre-stop", "post-stop"},
                        w \in {<<"exec", "c">>, <<"script", "c", "end script">>, <<"script", "c">>,
                               <<"exec">>, <<"b">>}}
  \cup {L("exec", w, <<>>) : w \in {<<"c">>, <<>>}}
  \cup {L("script", w, <<>>) : w \in {<<"d", "end script">>, <<"d">>}}
  \cup {L("cgroup", w, <<>>) : w \in {<<>>, <<"cpu">>, <<"cpu", "n">>, <<"cpu", "k", "v">>,
                                      <<"cpu", "k", "u">>, <<"cpu", "n", "k", "v">>,
                                      <<"memory", "n", "k", "v">>}}
  \cup {L(s, w, <<>>) : s \in {"instance", "description", "author", "version", "chroot", "chdir",
                               "setuid", "setgid", "usage", "env", "export", "emits"},
                        w \in {<<>>, <<"b">>}}
  \cup {L("expect", w, <<>>) : w \in {<<"fork">>, <<"none">>, <<"b">>}}
  \cup {L("console", w, <<>>) : w \in {<<"owner">>, <<"b">>}}
  \cup {L("apparmor", w, <<>>) : w \in {<<"load", "p">>, <<"load">>, <<"switch", "p">>, <<"switch">>}}
  \cup {L("oom", <<"score", "never">>, <<>>), L("oom", <<"never">>, <<>>),
        L("respawn", <<>>, <<>>), L("respawn", <<"limit", "unlimited">>, <<>>),
        L("task", <<>>, <<>>), L("manual", <<>>, <<>>), L("debug", <<>>, <<>>)}

\* Additions to a table; a key may be a prefix of another, and have no value.
Adds == [str : [key : {<<"A">>, <<"A", "B">>}, val : {<<"1">>, <<>>, NULL}], replace : BOOLEAN]

MCEnviron == <<[key |-> <<"A">>, val |-> <<"o">>]>>

\* The table that references are looked up in: a value is empty, another looks
\* like a reference, and AB is not set.
Known == <<[key |-> <<"A">>, val |-> <<>>], [key |-> <<"B">>, val |-> <<"$", "A", "}">>]>>

\* A text: a character, a name without braces, or a reference with an operator
\* and an argument that is a text again.
Plainly == {[of |-> "char", c |-> "/"], [of |-> "dollar"]}
           \cup {[of |-> "simple", name |-> n] : n \in {<<"A">>, <<"B">>}}

Ref(names, args) ==
  [of : {"ref"}, name : names, op : {"value", "default", "alternate"}, colon : BOOLEAN, arg : args]

Names == {<<"A">>, <<"B">>, <<"A", "B">>}

Flat == Ref(Names, {<<>>, <<[of |-> "char", c |-> "/"]>>, <<[of |-> "simple", name |-> <<"B">>]>>})

Pieces == Plainly \cup Flat \cup Ref(Names, {<<p>> : p \in Flat})

-----------------------------------------------------------------------------
(* Conditions as trees, up to two operators deep *)

Events1 == {Match("b"), [Match("b") EXCEPT !.env = <<"b", "K=v w">>]}

Over(trees) == Events1 \cup [type : {OR, AND}, left : trees, right : trees]

Trees == Over(Over(Events1))

-----------------------------------------------------------------------------
InputInit == kind \in {"on", "tree", "file", "table", "text"} /\ input = <<>>

Grow(k, set, max) ==
  /\ kind = k
  /\ Len(input) < max
  /\ \E x \in set : input' = Append(input, x)
  /\ UNCHANGED kind

\* A blank line inside a condition is the tokeniser's affair.
GrowTokens ==
  /\ Grow("on", Tokens, MaxTokens)
  /\ Last(input') = "NL" => input # <<>> /\ Last(input) # "NL"

GrowFile == Grow("file", Lines, MaxLines)

GrowTable == Grow("table", Adds, MaxAdds)

GrowText == Grow("text", IF input = <<>> THEN Pieces ELSE Plainly \cup Flat, MaxPieces)

GrowTree == Grow("tree", Trees, 2)

\* The tree of the input: the second tree is joined to the first.
Tree == IF Len(input) = 1 THEN input[1]
        ELSE [type |-> OR, left |-> input[1], right |-> input[2]]

InputNext == GrowTokens \/ GrowTree \/ GrowFile \/ GrowTable \/ GrowText

InputSpec == InputInit /\ [][InputNext]_<<kind, input>>

-----------------------------------------------------------------------------
(* Conditions against their grammar:                                        *)
(*   expr = term | expr op term      term = event | "(" expr ")"            *)

\* How many parentheses are open before position i.
Depth(ts, i) ==
  Cardinality({j \in 1..(i - 1) : ts[j] = "("}) - Cardinality({j \in 1..(i - 1) : ts[j] = ")"})

\* An event with its arguments, the named ones last; NULL if it is none.
EventRef(ts) ==
  IF /\ ts # <<>>
     /\ \A i \in DOMAIN ts : ts[i] \notin {"(", ")", "and", "or"}
     /\ \A i, j \in 2..Len(ts) : i < j /\ ts[i] \in Assignments => ts[j] \in Assignments
  THEN [type |-> MATCH, name |-> Head(ts), env |-> Tail(ts)] ELSE NULL

RECURSIVE ExprRef(_)
ExprRef(ts) ==
  LET ops == {i \in DOMAIN ts : ts[i] \in {"and", "or"} /\ Depth(ts, i) = 0}
      Group(g) ==
        IF Len(g) > 2 /\ Head(g) = "(" /\ Last(g) = ")"
           /\ \A i \in 2..Len(g) : Depth(g, i) > 0
        THEN ExprRef(SubSeq(g, 2, Len(g) - 1)) ELSE NULL
      Term(g) == IF g # <<>> /\ Head(g) = "(" THEN Group(g) ELSE EventRef(g)
  IN IF ops = {} THEN Term(ts)
     ELSE LET i == Max(ops)
              l == ExprRef(SubSeq(ts, 1, i - 1))
              r == Term(SubSeq(ts, i + 1, Len(ts)))
          IN IF l = NULL \/ r = NULL THEN NULL
             ELSE [type |-> IF ts[i] = "and" THEN AND ELSE OR, left |-> l, right |-> r]

\* The tokens of the condition: up to the end of a line with nothing open.
Condition(ts) ==
  LET ends == {i \in DOMAIN ts : ts[i] = "NL" /\ Depth(ts, i) <= 0}
  IN SelectSeq(IF ends = {} THEN ts ELSE SubSeq(ts, 1, Min(ends) - 1), LAMBDA t : t # "NL")

\* parse_on accepts exactly the sentences of the grammar and builds their tree:
\* operators of equal rank, grouped to the left.
OnIsGrammar == kind = "on" => ParseOn(input) = ExprRef(Condition(input))

\* A condition as it is while events are waited for: every leaf has its own.
RECURSIVE Waiting(_, _)
Waiting(t, n) ==
  IF t.type = MATCH
  THEN [type |-> MATCH, name |-> t.name, env |-> StateDeserialiseStrArray(t.env),
        value |-> n % 2 = 0, event |-> n]
  ELSE [type |-> t.type, value |-> FALSE, left |-> Waiting(t.left, 2 * n),
        right |-> Waiting(t.right, 2 * n + 1)]

\* Both written forms of a condition give the same condition again, whatever its
\* shape: the text that event_operator_collapse makes of it ("it will be logically
\* identical"), and the array of nodes that is passed over a re-exec, with each
\* leaf's event.
ConditionReadsBack ==
  kind = "tree" /\ input # <<>> =>
    LET t      == Waiting(Tree, 1)
        events == [i \in 1..31 |-> 32 - i]
    IN /\ ParseOn(EventOperatorCollapse(Tree)) = Tree
       /\ EventOperatorDeserialiseAll(EventOperatorSerialiseAll(t, events), events) = t

-----------------------------------------------------------------------------
(* Job files *)

\* The parts of a class: its fields, one process, one limit.
Part(class, f) == IF Len(f) = 1 THEN class[f[1]] ELSE class[f[1]][f[2]]

Parts == {<<f>> : f \in DOMAIN NewClass \ {"process", "limits"}}
         \cup ({"process"} \X ProcessSlots) \cup ({"limits"} \X Resources)

\* The lists that take more with every line.
Growing == {<<"env">>, <<"export">>, <<"emits">>, <<"normalexit">>, <<"cgroups">>}

GrownBy(l) ==
  CASE l.stanza = "normal" -> {<<"normalexit">>}
    [] l.stanza = "cgroup" -> {<<"cgroups">>}
    [] OTHER -> {<<l.stanza>>} \cap Growing

\* The parts that a line sets, other than those lists.
SetBy(l) ==
  CASE l.stanza = "start" \/ l.stanza = "manual" -> {<<"start_on">>}
    [] l.stanza = "stop"   -> {<<"stop_on">>}
    [] l.stanza = "oom"    -> {<<"oom_score_adj">>}
    [] l.stanza = "reload" -> {<<"reload_signal">>}
    [] l.stanza = "kill"   -> {IF l.words[1] = "timeout" THEN <<"kill_timeout">>
                               ELSE <<"kill_signal">>}
    [] l.stanza = "respawn" -> IF l.words = <<>> THEN {<<"respawn">>}
                               ELSE {<<"respawn_limit">>, <<"respawn_interval">>}
    [] l.stanza \in {"exec", "script"} -> {<<"process", "main">>}
    [] l.stanza \in ProcessSlots -> {<<"process", l.stanza>>}
    [] l.stanza = "limit"  -> {<<"limits", l.words[1]>>}
    [] l.stanza = "apparmor" -> {IF l.words[1] = "load" THEN <<"process", "security">>
                                 ELSE <<"apparmor_switch">>}
    [] OTHER -> {<<l.stanza>>} \cap (Parts \ Growing)

\* What a line of an override, or a later line of the same file, sets is what it
\* would set alone, whatever form the stanza had before; what it does not name it
\* leaves as it was; and the lists of words and of exit codes keep what they had
\* and take what the line adds.
LaterLineWins ==
  kind = "file" /\ Len(input) > 0 /\ ParseFile(NULL, input).ok =>
    LET line   == Last(input)
        class  == ParseFile(NULL, input).class
        before == ParseFile(NULL, Front(input)).class
        alone  == ParseFile(NULL, <<line>>).class
    IN /\ \A f \in SetBy(line) : Part(class, f) = Part(alone, f)
       /\ \A f \in Parts \ (SetBy(line) \cup GrownBy(line)) : Part(class, f) = Part(before, f)
       /\ \A f \in GrownBy(line) \ {<<"cgroups">>} :
            Part(class, f) = Part(before, f) \o Part(alone, f)

-----------------------------------------------------------------------------
(* Environment tables *)

Built == FoldLeft(LAMBDA env, a : EnvironAdd(env, MCEnviron, a.replace, a.str), <<>>, input)

\* The value a key has after all additions, one at a time: of those that count,
\* the last; a bare key takes init's own value or removes the key.
RECURSIVE TableRef(_, _)
TableRef(adds, key) ==
  IF adds = <<>> THEN NULL
  ELSE LET before == TableRef(Front(adds), key)
           a      == Last(adds)
       IN IF a.str.key # key \/ (before # NULL /\ ~a.replace) THEN before
          ELSE IF a.str.val # NULL THEN a.str.val ELSE EnvironGet(MCEnviron, key)

\* A table is a map: each key is there at most once, with the value that the
\* history of environ_add calls gives it, and environ_remove takes the one key out
\* and leaves those that begin with it.
TableIsMap ==
  kind = "table" =>
    /\ \A i, j \in DOMAIN Built : i # j => Built[i].key # Built[j].key
    /\ \A k \in {<<"A">>, <<"A", "B">>} : EnvironGet(Built, k) = TableRef(input, k)
    /\ Built # <<>> =>
         EnvironRemove(Built, <<"A">>) = SelectSeq(Built, LAMBDA e : e.key # <<"A">>)

-----------------------------------------------------------------------------
(* Expansion of references *)

RECURSIVE Rendered(_)
Rendered(pieces) ==
  FlattenSeq([i \in DOMAIN pieces |->
    LET p == pieces[i]
    IN CASE p.of = "char"   -> <<p.c>>
         [] p.of = "dollar" -> <<"$", "{", "}">>
         [] p.of = "simple" -> <<"$">> \o p.name
         [] p.of = "ref" -> <<"$", "{">> \o p.name
              \o (IF p.op # "value" /\ p.colon THEN <<":">> ELSE <<>>)
              \o (CASE p.op = "value" -> <<>>
                    [] p.op = "default" -> <<"-">> \o Rendered(p.arg)
                    [] p.op = "alternate" -> <<"+">> \o Rendered(p.arg))
              \o <<"}">>])

\* What a text stands for; NULL if a name that has to be set is not.
RECURSIVE TextRef(_)
PieceRef(p) ==
  LET v == EnvironGet(Known, p.name)
      a == IF p.of = "ref" /\ p.op # "value" THEN TextRef(p.arg) ELSE <<>>
      absent == v = NULL \/ (p.colon /\ v = <<>>)
  IN CASE p.of = "char"   -> <<p.c>>
       [] p.of = "dollar" -> <<"$">>
       [] p.of = "simple" -> v
       [] p.of = "ref" -> IF a = NULL THEN NULL
                          ELSE CASE p.op = "value" -> v
                                 [] p.op = "default" -> IF absent THEN a ELSE v
                                 [] p.op = "alternate" -> IF absent THEN <<>> ELSE a

TextRef(pieces) ==
  IF \E i \in DOMAIN pieces : PieceRef(pieces[i]) = NULL THEN NULL
  ELSE FlattenSeq([i \in DOMAIN pieces |-> PieceRef(pieces[i])])

\* The expansion in place, which moves the rest of the string at every reference
\* and works on arguments inside it, gives what the nested references stand for; a
\* value is never expanded again.
ExpandsNested == kind = "text" => EnvironExpand(Rendered(input), Known) = TextRef(input)

\* environ_expand's comment: "${KEY+alternate} [...] will expand to "alternate" only
\* if $KEY is unset".  The code tests for the opposite, as a shell does.
AlternateOnlyIfUnset ==
  kind = "text" /\ Len(input) = 1 /\ input[1].of = "ref" =>
    LET p == input[1]
        a == TextRef(p.arg)
    IN p.op = "alternate" /\ ~p.colon /\ a \notin {NULL, <<>>}
         /\ EnvironExpand(Rendered(input), Known) = a =>
       EnvironGet(Known, p.name) = NULL

=============================================================================
