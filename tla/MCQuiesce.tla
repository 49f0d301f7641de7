----------------------------- MODULE MCQuiesce -----------------------------
(***************************************************************************)
(* A service, a session-end job and a job without a main process.          *)
(***************************************************************************)
EXTENDS Quiesce

\* The service has a longer timeout than the default, and the others that one.
MCKillTimeout == [j \in Jobs |-> IF j = "service" THEN 2 ELSE 1]

\* A job that starts on the starting or stopping event of the session-end job.
MCHooks == [j \in Jobs |-> IF j = "end" THEN {"abstract"} ELSE {}]

=============================================================================
