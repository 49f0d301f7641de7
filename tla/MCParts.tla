------------------------------ MODULE MCParts ------------------------------
(***************************************************************************)
(* The parts of init that share no state with each other, for TLC: the     *)
(* respawn limit, the end of a session, the log of a job, the trace of its *)
(* forks, a re-exec, and the pure algorithms.  A behaviour is one of the   *)
(* part that Init chooses; the others stay in an initial state, or have    *)
(* nothing to work on.                                                     *)
(***************************************************************************)
EXTENDS RespawnLimit, MCQuiesce, ProcessTrace, Log, MCReexec, MCAlgorithms

VARIABLE part

respawnVars == vars
inputVars == <<kind, input>>

-----------------------------------------------------------------------------
Idle(p, still) == part # p => still

NothingToRestore ==
    /\ world = Nothing
    /\ before = Nothing
    /\ json = NULL
    /\ restoring = "up"
    /\ fdFlag = [fd \in Fds |-> "closed"]
    /\ generation = 0

PartsInit ==
    /\ part \in {"respawn", "session", "output", "trace", "restore", "input"}
    /\ Init /\ Idle("respawn", now = 0)
    /\ SessionInit /\ Idle("session", \A j \in Jobs : jobs[j].state = "waiting")
    /\ LogInit /\ Idle("output", disk.mode = "writeable")
    /\ TraceInit /\ Idle("trace", followed.expect = "fork")
    /\ IF part = "restore" THEN ReexecInit ELSE NothingToRestore
    /\ InputInit /\ Idle("input", kind = "on")

RespawnStep ==
    /\ part = "respawn" /\ Next
    /\ UNCHANGED <<part, sessionVars, logVars, traceVars, reexecVars, inputVars>>

SessionStep ==
    /\ part = "session" /\ SessionNext
    /\ UNCHANGED <<part, respawnVars, logVars, traceVars, reexecVars, inputVars>>

OutputStep ==
    /\ part = "output" /\ LogNext
    /\ UNCHANGED <<part, respawnVars, sessionVars, traceVars, reexecVars, inputVars>>

TraceStep ==
    /\ part = "trace" /\ TraceNext
    /\ UNCHANGED <<part, respawnVars, sessionVars, logVars, reexecVars, inputVars>>

RestoreStep ==
    /\ part = "restore" /\ ReexecNext
    /\ UNCHANGED <<part, respawnVars, sessionVars, logVars, traceVars, inputVars>>

InputStep ==
    /\ part = "input" /\ InputNext
    /\ UNCHANGED <<part, respawnVars, sessionVars, logVars, traceVars, reexecVars>>

PartsNext == RespawnStep \/ SessionStep \/ OutputStep \/ TraceStep \/ RestoreStep \/ InputStep

PartsSpec ==
    PartsInit
    /\ [][PartsNext]_<<part, respawnVars, sessionVars, logVars, traceVars, reexecVars, inputVars>>

=============================================================================
