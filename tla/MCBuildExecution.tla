-------------------------- MODULE MCBuildExecution --------------------------
(***************************************************************************)
(* The plan and the requests of the runs of BuildExecution.                *)
(***************************************************************************)
EXTENDS BuildExecution

\* A chain of three tasks.
MCChain == <<{}, {1}, {2}>>

Request(k, b, e, s) == [key |-> k, build |-> b, exec |-> e, scope |-> s]

\* A request; one for another build whose execution has its key and its name;
\* and one for another execution of the first build with its key.  All of them
\* are for one target.
MCRequests == {Request("k1", "b1", 1, "s1"), Request("k1", "b2", 1, "s1"),
               Request("k1", "b1", 2, "s1")}
============================================================================
