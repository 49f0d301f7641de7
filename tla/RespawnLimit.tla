---------------------------- MODULE RespawnLimit ----------------------------
(***************************************************************************)
(* The limit on respawns: job_process_catch_runaway() in real time.        *)
(*                                                                         *)
(* JobInstance only knows whether the respawn interval has passed.  Here   *)
(* the clock is part of the state, so that the limit can be compared with  *)
(* what startup(5) says of it: "if the job is respawned more than COUNT    *)
(* times in INTERVAL seconds, it will be considered to be having deeper    *)
(* problems and will be stopped".                                          *)
(***************************************************************************)
EXTENDS Naturals, Sequences, FiniteSets

CONSTANTS
    Limit,          \* class->respawn_limit
    Interval,       \* class->respawn_interval, in seconds
    MaxTime,        \* bound: the clock stops there
    MaxPerSecond    \* bound: respawns within a second

ASSUME LimitAssumption ==
    /\ Limit \in Nat \ {0}
    /\ Interval \in Nat \ {0}
    /\ MaxTime \in Nat
    /\ MaxPerSecond \in Nat

VARIABLES
    now,            \* CLOCK_MONOTONIC, in whole seconds
    respawn_time,   \* job->respawn_time
    respawn_count,  \* job->respawn_count
    stopped,        \* the job was found to respawn too fast
    respawns        \* history: the times of the respawns

vars == <<now, respawn_time, respawn_count, stopped, respawns>>

TypeOK ==
    /\ now \in 0 .. MaxTime
    /\ respawn_time \in 0 .. MaxTime
    /\ respawn_count \in Nat
    /\ stopped \in BOOLEAN
    /\ respawns \in Seq(0 .. MaxTime)

\* The job was started when the clock, which counts from boot, showed now.
Init ==
    /\ now \in 0 .. MaxTime
    /\ respawn_time = 0
    /\ respawn_count = 0
    /\ stopped = FALSE
    /\ respawns = <<>>

TimePasses ==
    /\ now < MaxTime
    /\ now' = now + 1
    /\ UNCHANGED <<respawn_time, respawn_count, stopped, respawns>>

WithinInterval == now - respawn_time < Interval

RespawnsNow == Cardinality({i \in DOMAIN respawns : respawns[i] = now})

DoRespawn == respawns' = Append(respawns, now)

\* Mutant of MainEnds: a new interval does not start where the respawn is.
MainEnds_KeepsTime ==
    /\ ~stopped
    /\ RespawnsNow < MaxPerSecond
    /\ UNCHANGED <<now, respawn_time>>
    /\ IF WithinInterval
       THEN /\ respawn_count' = respawn_count + 1
            /\ IF respawn_count + 1 > Limit
               THEN stopped' = TRUE /\ UNCHANGED respawns
               ELSE DoRespawn /\ UNCHANGED stopped
       ELSE respawn_count' = 1 /\ DoRespawn /\ UNCHANGED stopped

\* The main process ends abnormally: it is respawned unless it has been too
\* often within the interval that began with respawn_time.
MainEnds ==
    /\ ~stopped
    /\ RespawnsNow < MaxPerSecond
    /\ UNCHANGED now
    /\ IF WithinInterval
       THEN /\ respawn_count' = respawn_count + 1
            /\ UNCHANGED respawn_time
            /\ IF respawn_count + 1 > Limit
               THEN stopped' = TRUE /\ UNCHANGED respawns
               ELSE DoRespawn /\ UNCHANGED stopped
       ELSE /\ respawn_time' = now
            /\ respawn_count' = 1
            /\ DoRespawn
            /\ UNCHANGED stopped

Next == TimePasses \/ MainEnds

Spec == Init /\ [][Next]_vars
-----------------------------------------------------------------------------
\* The intervals init counts in do not overlap, so that any interval meets
\* at most two of them: what the limit really promises.  Twice the limit and
\* one more respawns take at least an interval.
AnyIntervalTwiceLimit ==
    \A i, j \in DOMAIN respawns :
        j = i + 2 * Limit => respawns[j] - respawns[i] >= Interval
=============================================================================
