----------------------------- MODULE StateData -----------------------------
(***************************************************************************)
(* How the data inside startup's objects is written to JSON and read back  *)
(* for a re-exec: init/state.c and the parts of process.c, cgroup.c,       *)
(* event_operator.c and log.c that it calls.                               *)
(*                                                                         *)
(* JSON arrays are sequences and JSON objects records.  Nothing here       *)
(* refers to an address: a reference to an event is its index in the array *)
(* of events.                                                              *)
(***************************************************************************)
EXTENDS Environ

CONSTANTS
  RlimitNlimits,   \* RLIMIT_NLIMITS
  ProcessLast      \* PROCESS_LAST

-----------------------------------------------------------------------------
(* Enumerations travel by name.  A table lists the names in the order of    *)
(* the type, first the value First.                                         *)

EnumToStr(table, First, value) ==
  IF value - First + 1 \in DOMAIN table THEN table[value - First + 1] ELSE NULL

\* -1 for an unknown name, which every reader takes for an error.
StrToEnum(table, First, str) ==
  IF \E i \in DOMAIN table : table[i] = str
  THEN (CHOOSE i \in DOMAIN table : table[i] = str) + First - 1 ELSE -1

JobGoalStrs  == <<"JOB_STOP", "JOB_START", "JOB_RESPAWN">>

JobStateStrs ==
  <<"JOB_WAITING", "JOB_STARTING", "JOB_SECURITY_SPAWNING", "JOB_SECURITY",
    "JOB_PRE_STARTING", "JOB_PRE_START", "JOB_SPAWNING", "JOB_SPAWNED",
    "JOB_POST_STARTING", "JOB_POST_START", "JOB_RUNNING", "JOB_PRE_STOPPING",
    "JOB_PRE_STOP", "JOB_STOPPING", "JOB_KILLED", "JOB_POST_STOPPING",
    "JOB_POST_STOP">>

JobTraceStateStrs == <<"TRACE_NONE", "TRACE_NEW", "TRACE_NEW_CHILD", "TRACE_NORMAL">>

\* PROCESS_INVALID is -2, and -1 is left free for the error.
ProcessTypeStrs ==
  <<"PROCESS_INVALID", NULL, "PROCESS_MAIN", "PROCESS_PRE_START",
    "PROCESS_POST_START", "PROCESS_PRE_STOP", "PROCESS_POST_STOP",
    "PROCESS_SECURITY">>

ExpectTypeStrs ==
  <<"EXPECT_NONE", "EXPECT_STOP", "EXPECT_DAEMON", "EXPECT_FORK", "EXPECT_READYFD">>

ConsoleTypeStrs ==
  <<"CONSOLE_NONE", "CONSOLE_OUTPUT", "CONSOLE_OWNER", "CONSOLE_LOG">>

EventProgressStrs == <<"EVENT_PENDING", "EVENT_HANDLING", "EVENT_FINISHED">>

EventOperatorTypeStrs == <<"EVENT_OR", "EVENT_AND", "EVENT_MATCH">>

ConfSourceTypeStrs == <<"CONF_FILE", "CONF_DIR", "CONF_JOB_DIR">>

BlockedTypeStrs ==
  <<"BLOCKED_JOB", "BLOCKED_EVENT", "BLOCKED_EMIT_METHOD",
    "BLOCKED_JOB_START_METHOD", "BLOCKED_JOB_STOP_METHOD",
    "BLOCKED_JOB_RESTART_METHOD", "BLOCKED_INSTANCE_START_METHOD",
    "BLOCKED_INSTANCE_STOP_METHOD", "BLOCKED_INSTANCE_RESTART_METHOD">>

-----------------------------------------------------------------------------
(* Arrays *)

\* state_serialise_str_array, as the macro that calls it for an object: no
\* table and an empty one look alike.
StateSerialiseStrArray(array) == IF array = NULL THEN <<>> ELSE array

\* _state_deserialise_str_array for plain strings.
StateDeserialiseStrArray(json) == IF json = <<>> THEN NULL ELSE json

\* The same for environment strings: each goes through environ_add.
StateDeserialiseEnvArray(json, own) ==
  IF json = <<>> THEN NULL ELSE EnvironAppend(<<>>, own, TRUE, json)

\* state_serialise_int32_array, state_serialise_int64_array.
StateSerialiseIntArray(array) == IF array = NULL THEN <<>> ELSE array

\* state_deserialise_int32_array, state_deserialise_int64_array: when the array
\* is empty what the caller holds already is left alone.
StateDeserialiseIntArray(json, before) == IF json = <<>> THEN before ELSE json

-----------------------------------------------------------------------------
(* Hexadecimal text of a log's buffer.  A byte is 0..255. *)

StateDataToHex(data) ==
  FlattenSeq([i \in DOMAIN data |-> <<data[i] \div 16, data[i] % 16>>])

\* strtol gives the byte; it is stored in a char, and read as a byte again.
StateHexToData(hex) ==
  [i \in 1..(Len(hex) \div 2) |-> (hex[2 * i - 1] * 16 + hex[2 * i]) % 256]

-----------------------------------------------------------------------------
(* Resource limits: [cur, max] or NULL in each of RlimitNlimits slots *)

Placeholder == [cur |-> 0, max |-> 0]

StateRlimitSerialise(limit) == [rlim_cur |-> limit.cur, rlim_max |-> limit.max]

\* Every slot has an entry, so that the index tells the limit.
StateRlimitSerialiseAll(limits) ==
  [i \in 1..RlimitNlimits |->
     StateRlimitSerialise(IF limits[i] = NULL THEN Placeholder ELSE limits[i])]

StateRlimitDeserialise(json) == [cur |-> json.rlim_cur, max |-> json.rlim_max]

\* An entry with both values zero is taken for a slot without a limit.
StateRlimitDeserialiseAll(json) ==
  [i \in 1..RlimitNlimits |->
     IF i > Len(json) \/ StateRlimitDeserialise(json[i]) = Placeholder
     THEN NULL ELSE StateRlimitDeserialise(json[i])]

-----------------------------------------------------------------------------
(* The processes of a class: [script, command] or NULL in each slot *)

ProcessSerialise(process) == [script |-> process.script, command |-> process.command]

ProcessSerialiseAll(processes) ==
  [i \in 1..ProcessLast |->
     ProcessSerialise(IF processes[i] = NULL THEN [script |-> FALSE, command |-> NULL]
                      ELSE processes[i])]

\* A process without a command only kept its slot.
ProcessDeserialise(json) ==
  IF json.command = NULL THEN NULL
  ELSE [script |-> json.script, command |-> json.command]

ProcessDeserialiseAll(json) ==
  [i \in 1..ProcessLast |-> IF i > Len(json) THEN NULL ELSE ProcessDeserialise(json[i])]

-----------------------------------------------------------------------------
(* Cgroups: lists of [controller, names], a name has [name, expanded,      *)
(* settings] and a setting [key, value].  Reading appends to an empty list *)
(* of the new parent.                                                      *)

CgroupSettingSerialiseAll(settings) ==
  [i \in DOMAIN settings |-> [key |-> settings[i].key, value |-> settings[i].value]]

CgroupNameSerialise(name) ==
  [name |-> name.name, expanded |-> name.expanded,
   settings |-> CgroupSettingSerialiseAll(name.settings)]

CgroupNameSerialiseAll(names) ==
  [i \in DOMAIN names |-> CgroupNameSerialise(names[i])]

CgroupSerialise(cgroup) ==
  [controller |-> cgroup.controller, names |-> CgroupNameSerialiseAll(cgroup.names)]

CgroupSerialiseAll(cgroups) == [i \in DOMAIN cgroups |-> CgroupSerialise(cgroups[i])]

CgroupSettingDeserialiseAll(json) == FoldLeft(Append, <<>>, json)

CgroupNameDeserialise(json) ==
  [name |-> json.name, expanded |-> json.expanded,
   settings |-> CgroupSettingDeserialiseAll(json.settings)]

CgroupNameDeserialiseAll(json) ==
  FoldLeft(LAMBDA list, n : Append(list, CgroupNameDeserialise(n)), <<>>, json)

CgroupDeserialise(json) ==
  [controller |-> json.controller, names |-> CgroupNameDeserialiseAll(json.names)]

CgroupDeserialiseAll(json) ==
  FoldLeft(LAMBDA list, c : Append(list, CgroupDeserialise(c)), <<>>, json)

-----------------------------------------------------------------------------
(* Event operators.  A leaf is [type |-> MATCH, name, env, value, event],   *)
(* an inner node [type, value, left, right].  In memory event is an address *)
(* or NULL; events is the list of addresses that it is an index into.       *)

EventToIndex(events, addr) ==
  IF \E i \in DOMAIN events : events[i] = addr
  THEN (CHOOSE i \in DOMAIN events : events[i] = addr) - 1 ELSE -1

EventFromIndex(events, i) == IF i + 1 \in DOMAIN events THEN events[i + 1] ELSE NULL

OR    == 0
AND   == 1
MATCH == 2

RECURSIVE Postorder(_)
Postorder(t) ==
  IF t.type = MATCH THEN <<t>>
  ELSE Postorder(t.left) \o Postorder(t.right) \o <<t>>

\* An operator has a name, env and event only if it is a leaf.
EventOperatorSerialise(t, events) ==
  LET type == EnumToStr(EventOperatorTypeStrs, 0, t.type)
  IN IF t.type = MATCH
     THEN [type |-> type, value |-> t.value, name |-> t.name,
           env |-> StateSerialiseStrArray(t.env),
           event |-> IF t.event = NULL THEN NULL ELSE EventToIndex(events, t.event)]
     ELSE [type |-> type, value |-> t.value]

\* The tree as an array of its nodes in post-order.
EventOperatorSerialiseAll(root, events) ==
  IF root = NULL THEN NULL
  ELSE LET nodes == Postorder(root)
       IN [i \in DOMAIN nodes |-> EventOperatorSerialise(nodes[i], events)]

\* The environment of a leaf is read as plain strings, for it holds patterns.
EventOperatorDeserialise(json, events) ==
  LET type == StrToEnum(EventOperatorTypeStrs, 0, json.type)
  IN IF type = MATCH
     THEN [type |-> type, value |-> json.value, name |-> json.name,
           env |-> StateDeserialiseStrArray(json.env),
           event |-> IF json.event = NULL THEN NULL ELSE EventFromIndex(events, json.event)]
     ELSE [type |-> type, value |-> json.value]

\* A leaf is pushed; an operator takes the two topmost trees as its right and
\* left child and is pushed in their place.
Attach(stack, oper) ==
  IF oper.type = MATCH THEN <<oper>> \o stack
  ELSE <<[type |-> oper.type, value |-> oper.value,
          left |-> stack[2], right |-> stack[1]]>> \o SubSeq(stack, 3, Len(stack))

EventOperatorDeserialiseAll(json, events) ==
  IF json = NULL THEN NULL
  ELSE FoldLeft(LAMBDA stack, j : Attach(stack, EventOperatorDeserialise(j, events)),
                <<>>, json)[1]

=============================================================================
