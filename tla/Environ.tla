------------------------------ MODULE Environ ------------------------------
(***************************************************************************)
(* Environment tables and the expansion of references to them              *)
(* (init/environ.c).                                                       *)
(*                                                                         *)
(* A table is a sequence of entries [key, val].  What a caller adds may    *)
(* have no value (val = NULL, the string KEY without '='): the value then  *)
(* comes from the environment of init itself, own.  Keys are sequences of  *)
(* letters, for one key may be a prefix of another.  A string to expand is *)
(* a sequence of characters; the expansion works in place, as in the code, *)
(* on [str, pos] and stops at the first error.                             *)
(***************************************************************************)
EXTENDS Integers, Sequences, SequencesExt

CONSTANT NULL   \* a null pointer

-----------------------------------------------------------------------------
(* Tables *)

\* The index of the entry of key, or 0 (environ_lookup).
EnvironLookup(env, key) ==
  LET at == {i \in DOMAIN env : env[i].key = key}
  IN IF at = {} THEN 0 ELSE CHOOSE i \in at : \A j \in at : i <= j

EnvironGet(env, key) ==
  LET i == EnvironLookup(env, key) IN IF i = 0 THEN NULL ELSE env[i].val

\* What is stored for str: itself, or init's own value of a bare key.
ValueOf(str, own) ==
  IF str.val # NULL THEN str
  ELSE IF EnvironLookup(own, str.key) = 0 THEN NULL
       ELSE own[EnvironLookup(own, str.key)]

\* Mutant of EnvironAdd: a key that is there already is added again.
EnvironAdd_Appends(env, own, replace, str) ==
  IF ValueOf(str, own) = NULL THEN env ELSE Append(env, ValueOf(str, own))

EnvironAdd(env, own, replace, str) ==
  LET i   == EnvironLookup(env, str.key)
      new == ValueOf(str, own)
  IN CASE i # 0 /\ ~replace -> env
       [] i # 0 /\ replace /\ new # NULL -> [env EXCEPT ![i] = new]
       [] i # 0 /\ replace /\ new = NULL -> RemoveAt(env, i)
       [] i = 0 /\ new # NULL -> Append(env, new)
       [] OTHER -> env

\* environ_append: every entry of the second table in turn.
EnvironAppend(env, own, replace, newEnv) ==
  FoldLeft(LAMBDA e, str : EnvironAdd(e, own, replace, str), env, newEnv)

\* environ_remove compares as many characters as the key of the ENTRY has, and
\* steps over the entry that moves into the place of one it removes.
RECURSIVE RemoveFrom(_, _, _)
RemoveFrom(env, i, key) ==
  IF i > Len(env) THEN env
  ELSE RemoveFrom(IF IsPrefix(env[i].key, key) THEN RemoveAt(env, i) ELSE env,
                  i + 1, key)

EnvironRemove(env, key) == IF env = <<>> THEN NULL ELSE RemoveFrom(env, 1, key)

EnvironAllValid(strs) == \A i \in DOMAIN strs : strs[i].val # NULL

-----------------------------------------------------------------------------
(* Expansion *)

Letters == {"A", "B"}
Digits  == {"1"}
Nul     == "end"     \* the terminating null

At(s, i) == IF i <= Len(s.str) THEN s.str[i] ELSE Nul

Error == [str |-> NULL, pos |-> 0]

\* The first position from i whose character is not of a name, or is in stop.
RECURSIVE NameEnd(_, _)
NameEnd(s, i) == IF At(s, i) \in Letters \cup Digits THEN NameEnd(s, i + 1) ELSE i

RECURSIVE NextStop(_, _, _)
NextStop(s, i, until) ==
  IF At(s, i) \in {"$", Nul} \cup until THEN i ELSE NextStop(s, i + 1, until)

\* Replace the characters from start up to end by value; go on behind it.
Subst(s, start, end, value) ==
  [str |-> SubSeq(s.str, 1, start - 1) \o value \o SubSeq(s.str, end, Len(s.str)),
   pos |-> start + Len(value)]

\* Mutant of Substitute: ${KEY:-x} keeps an empty value.
Substitute_KeepsEmpty(op, ignoreEmpty, value, arg) ==
  CASE op = "value"     -> value
    [] op = "default"   -> IF value = NULL THEN arg ELSE value
    [] op = "alternate" -> IF value = NULL THEN <<>> ELSE arg

\* What a reference stands for, given its operator, value and argument.
Substitute(op, ignoreEmpty, value, arg) ==
  LET unset == value = NULL \/ (ignoreEmpty /\ value = <<>>)
  IN CASE op = "value"     -> value
       [] op = "default"   -> IF unset THEN arg ELSE value
       [] op = "alternate" -> IF unset THEN <<>> ELSE arg

\* The operator at the end of the name, how long it is, and whether an empty
\* value counts as unset.
Operator(s) ==
  CASE At(s, s.pos) = ":" /\ At(s, s.pos + 1) = "-" -> <<"default", 2, TRUE>>
    [] At(s, s.pos) = ":" /\ At(s, s.pos + 1) = "+" -> <<"alternate", 2, TRUE>>
    [] At(s, s.pos) = "-" -> <<"default", 1, FALSE>>
    [] At(s, s.pos) = "+" -> <<"alternate", 1, FALSE>>
    [] At(s, s.pos) \in {"}", Nul} -> <<"value", 0, FALSE>>
    [] OTHER -> <<"error", 0, FALSE>>

RECURSIVE ExpandUntil(_, _, _)

\* A bracketed reference that starts at start; its name follows the bracket.
\* The argument is expanded before the name is looked up.
Bracketed(s, start, env) ==
  LET name == ExpandUntil([s EXCEPT !.pos = start + 2], env, {"}", ":", "-", "+"})
      op   == Operator(name)
      from == name.pos + op[2]
      arg  == ExpandUntil([name EXCEPT !.pos = from], env, {"}"})
      val  == EnvironGet(env, SubSeq(arg.str, start + 2, name.pos - 1))
      text == Substitute(op[1], op[3], val, SubSeq(arg.str, from, arg.pos - 1))
  IN IF name = Error \/ op[1] = "error" THEN Error
     ELSE IF arg = Error \/ At(arg, arg.pos) # "}" \/ text = NULL THEN Error
     ELSE Subst(arg, start, arg.pos + 1, text)

\* A simple reference: the letters and digits that follow the dollar.
Simple(s, start, env) ==
  LET end == NameEnd(s, start + 1)
      val == EnvironGet(env, SubSeq(s.str, start + 1, end - 1))
  IN IF val = NULL THEN Error ELSE Subst(s, start, end, val)

\* environ_expand_until: one reference after the other until a character of
\* until, or the end, is reached.  ${} stands for the dollar itself.
ExpandUntil(s, env, until) ==
  LET start == NextStop(s, s.pos, until)
      next  == At(s, start + 1)
      done  == CASE next \in Letters -> Simple(s, start, env)
                 [] next = "{" /\ At(s, start + 2) = "}" ->
                      Subst(s, start, start + 3, <<"$">>)
                 [] next = "{" /\ At(s, start + 2) # "}" ->
                      Bracketed(s, start, env)
                 [] OTHER -> [s EXCEPT !.pos = start + 1]
  IN CASE s = Error -> Error
       [] s # Error /\ At(s, start) # "$" -> [s EXCEPT !.pos = start]
       [] OTHER -> IF done = Error THEN Error ELSE ExpandUntil(done, env, until)

\* environ_expand: the expanded string, or NULL.
EnvironExpand(str, env) == ExpandUntil([str |-> str, pos |-> 1], env, {}).str

=============================================================================
