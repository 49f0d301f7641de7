---------------------------- MODULE JobLifecycle ----------------------------
(***************************************************************************)
(* The state diagram of doc/states.dot: what the rest of init, the other   *)
(* jobs and the users may expect of a job instance, whatever its processes *)
(* do.                                                                     *)
(*                                                                         *)
(* "Green arrows are followed while the goal is START.  Red arrows are     *)
(* followed while the goal is STOP."  A job passes through the states that *)
(* have nothing to wait for, so a step follows one arrow or several of the *)
(* same colour; it never passes through starting or stopping, whose events *)
(* have to finish first, nor through the rest states waiting and running.  *)
(***************************************************************************)
VARIABLES state, goal

\* Where green arrows lead from s.  The diagram draws the respawn of a
\* running job only; job_next_state() and job_process_terminated() also
\* respawn from the other states in which the main process may have ended,
\* and stopping is added here for those.
Green(s) ==
    CASE s = "waiting"    -> {"starting"}
      [] s = "starting"   -> {"security", "pre-start", "spawned",
                              "post-start", "running"}
      [] s = "security"   -> {"pre-start", "spawned", "post-start", "running"}
      [] s = "pre-start"  -> {"spawned", "post-start", "running"}
      [] s = "spawned"    -> {"post-start", "running", "stopping"}
      [] s = "post-start" -> {"running", "stopping"}
      [] s = "running"    -> {"stopping"}
      [] s = "pre-stop"   -> {"running", "stopping"}
      [] s = "stopping"   -> {"killed", "post-stop", "starting"}
      [] s = "killed"     -> {"post-stop", "starting"}
      [] s = "post-stop"  -> {"starting"}

\* Where red arrows lead from s.
Red(s) ==
    CASE s = "waiting"    -> {}
      [] s \in {"starting", "security", "pre-start", "spawned", "post-start",
                "pre-stop"} -> {"stopping"}
      [] s = "running"    -> {"pre-stop", "stopping"}
      [] s = "stopping"   -> {"killed", "post-stop", "waiting"}
      [] s = "killed"     -> {"post-stop", "waiting"}
      [] s = "post-stop"  -> {"waiting"}

Init == state = "waiting" /\ goal = "stop"

\* The goal changes and the job waits for what it was waiting for.
ChangeGoal ==
    /\ goal' \in {"start", "stop"}
    /\ state # "waiting"
    /\ state' = state

\* The job moves on, perhaps after a change of goal.
Move ==
    \/ goal' = "start" /\ state' \in Green(state)
    \/ goal' = "stop" /\ state' \in Red(state)

\* A restart sends a running job down a red arrow and then makes its goal
\* start again.
Restart ==
    /\ state = "running"
    /\ goal' = "start"
    /\ state' \in Red(state)

Next == ChangeGoal \/ Move \/ Restart

Spec == Init /\ [][Next]_<<state, goal>>
=============================================================================
