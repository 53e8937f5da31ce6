------------------------------ MODULE BuildRun ------------------------------
(***************************************************************************)
(* What the builder promises of its executions: in each, every task is     *)
(* given to a worker at most once, after all it depends on has completed   *)
(* and while no other of its tasks runs; what lies downstream of a failure *)
(* never runs; the verdict comes when every task has its outcome, and is   *)
(* final.  A task that completed may still turn out failed, as long as     *)
(* nothing builds on it.  BuildExecution implements it.                    *)
(***************************************************************************)
EXTENDS TaskScheduler

CONSTANT Runs   \* the executions

VARIABLES outcome, verdict

Init ==
    /\ outcome = [r \in Runs |-> [t \in Tasks |-> "waiting"]]
    /\ verdict = [r \in Runs |-> "none"]

Becomes(r, s) ==
    /\ verdict[r] = "none"
    /\ outcome' = [outcome EXCEPT ![r] = s]
    /\ UNCHANGED verdict

Begin(r, t) ==
    /\ outcome[r][t] = "waiting"
    /\ \A u \in Tasks : outcome[r][u] # "running"
    /\ DependenciesDone(outcome[r], t)
    /\ Becomes(r, [outcome[r] EXCEPT ![t] = "running"])

Finish(r, t, o) ==
    /\ outcome[r][t] = "running"
    /\ Becomes(r, [outcome[r] EXCEPT ![t] = o])

\* The outcome of a completed task is taken back before anything builds on it.
Retract(r, t) ==
    /\ outcome[r][t] = "completed"
    /\ \A u \in Tasks : outcome[r][u] # "running"
    /\ \A u \in Tasks : t \in DependsOn[u] => outcome[r][u] = "waiting"
    /\ Becomes(r, [outcome[r] EXCEPT ![t] = "failed"])

\* Tasks are given up when each has a failed or blocked task before it.
Block(r, B) ==
    LET s == [t \in Tasks |-> IF t \in B THEN "blocked" ELSE outcome[r][t]] IN
    /\ \A t \in B : outcome[r][t] = "waiting"
    /\ \A t \in B : \E d \in DependsOn[t] : s[d] \in {"failed", "blocked"}
    /\ Becomes(r, s)

\* The build is refused before it begins.
Refuse(r) ==
    /\ \A t \in Tasks : outcome[r][t] = "waiting"
    /\ Becomes(r, [t \in Tasks |-> IF t \in Roots THEN "failed" ELSE "blocked"])

Decide(r) ==
    /\ verdict[r] = "none"
    /\ \A t \in Tasks : outcome[r][t] \in {"completed", "failed", "blocked"}
    /\ verdict' = [verdict EXCEPT ![r] =
          IF \A t \in Tasks : outcome[r][t] = "completed" THEN "completed" ELSE "failed"]
    /\ UNCHANGED outcome

Next ==
    \E r \in Runs :
        \/ \E t \in Tasks : Begin(r, t) \/ Finish(r, t, "completed") \/ Finish(r, t, "failed")
        \/ \E t \in Tasks : Retract(r, t)
        \/ \E B \in SUBSET Tasks : Block(r, B)
        \/ Refuse(r) \/ Decide(r)

Spec == Init /\ [][Next]_<<outcome, verdict>>
============================================================================
