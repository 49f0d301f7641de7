------------------------------ MODULE MCReexec ------------------------------
(***************************************************************************)
(* Two classes.  The first has its instance in each of the situations of   *)
(* Reexec, the second may be starting at the same time.                    *)
(***************************************************************************)
EXTENDS Reexec

\* init's own environment has another value of the one variable of the tables.
MCOwn == <<[key |-> <<"A">>, val |-> <<"own">>]>>

=============================================================================
