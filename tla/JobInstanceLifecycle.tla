----------------------- MODULE JobInstanceLifecycle -----------------------
(***************************************************************************)
(* A job instance follows the state diagram.                               *)
(***************************************************************************)
EXTENDS JobInstance

\* The goal respawn, which remembers a respawn until a script has finished,
\* does not appear in the diagram; it is a way to head for start.
GoalShown == IF job.goal = "respawn" THEN "start" ELSE job.goal

Diagram == INSTANCE JobLifecycle WITH state <- job.state, goal <- GoalShown

\* Whatever the processes of the job do, whenever they end and in whatever
\* order their ends are reported, and whichever commands arrive meanwhile,
\* the job follows the arrows of doc/states.dot.
FollowsDiagram == Diagram!Spec
=============================================================================
