--------------------------- MODULE MCJobInstance ---------------------------
(***************************************************************************)
(* JobInstance for TLC.  The configurations give the class of the job (its *)
(* processes, task, respawn, expect) and bound the children that exist at  *)
(* the same time, by the set Pids, and the callers.                        *)
(***************************************************************************)
EXTENDS JobInstanceLifecycle, TLC

\* Process ids and callers are interchangeable: safety runs need only one
\* state of each class.
Symmetry == Permutations(Pids) \cup Permutations(Callers)
=============================================================================
