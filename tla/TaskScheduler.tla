--------------------------- MODULE TaskScheduler ---------------------------
(***************************************************************************)
(* The scheduler of a prepared build (runtime/src/audisor/builder/         *)
(* scheduler.py): pure transitions of the statuses of the tasks of a plan. *)
(* A plan is a sequence of tasks in the topological order that             *)
(* dependencies.py gives it, so a task is its position and depends on      *)
(* earlier positions only.  A status map is a function on Tasks.           *)
(***************************************************************************)
EXTENDS Naturals, FiniteSets

CONSTANTS NumTasks,   \* the length of the prepared plan
          DependsOn   \* what each task of the plan depends on

Tasks == 1 .. NumTasks

ASSUME PlanIsOrdered ==
    /\ NumTasks \in Nat \ {0}
    /\ DependsOn \in [Tasks -> SUBSET Tasks]
    /\ \A t \in Tasks : \A d \in DependsOn[t] : d < t

Unfinished == {"pending", "ready", "running"}
TaskStatus == Unfinished \cup {"completed", "failed", "blocked", "interrupted"}

Roots == {t \in Tasks : DependsOn[t] = {}}

InitialTasks == [t \in Tasks |-> IF t \in Roots THEN "ready" ELSE "pending"]

ReadyTasks(s) == {t \in Tasks : s[t] = "ready"}

\* The first ready task in plan order.
NextReady(s) == CHOOSE t \in ReadyTasks(s) : \A u \in ReadyTasks(s) : t <= u

MarkRunning(s, t) == [s EXCEPT ![t] = "running"]

DependenciesDone(s, t) == \A d \in DependsOn[t] : s[d] = "completed"

\* A task completes, and what waited for it alone becomes ready.
MarkCompleted(s, t) ==
    LET done == [s EXCEPT ![t] = "completed"]
    IN  [u \in Tasks |-> IF done[u] = "pending" /\ DependenciesDone(done, u)
                         THEN "ready" ELSE done[u]]

\* The least set that holds t and every task that depends on one of its own.
Downstream(t) ==
    {u \in Tasks : \A B \in SUBSET Tasks :
        (t \in B /\ \A v \in Tasks : DependsOn[v] \cap B # {} => v \in B) => u \in B}

\* Mutant: a failure releases what waited for the task.
MarkFailedReleasing(s, t) ==
    [u \in Tasks |-> IF u = t THEN "failed"
                     ELSE IF t \in DependsOn[u] THEN "ready" ELSE s[u]]

\* A task fails; what lies downstream is blocked, other branches go on.
MarkFailed(s, t) ==
    [u \in Tasks |-> IF u = t THEN "failed"
                     ELSE IF u \in Downstream(t) /\ s[u] \in {"pending", "ready"}
                     THEN "blocked" ELSE s[u]]

\* The verdict of a map without unfinished tasks, or "none".
TerminalStatus(s) ==
    IF \E t \in Tasks : s[t] \in Unfinished THEN "none"
    ELSE IF \E t \in Tasks : s[t] = "failed" THEN "failed"
    ELSE IF \E t \in Tasks : s[t] = "interrupted" THEN "interrupted"
    ELSE IF \A t \in Tasks : s[t] = "completed" THEN "completed"
    ELSE "none"

\* What is left of a run whose process is gone.
InterruptRunning(s) ==
    [t \in Tasks |-> IF s[t] \in Unfinished THEN "interrupted" ELSE s[t]]

----------------------------------------------------------------------------
(* validate_state, on the statuses of the tasks *)

AtMostOneRuns(s) ==
    \A t, u \in Tasks : s[t] = "running" /\ s[u] = "running" => t = u

DependenciesRespected(s) ==
    \A t \in Tasks :
        s[t] \in {"ready", "running", "completed", "failed"} => DependenciesDone(s, t)

PendingWaits(s) == \A t \in Tasks : s[t] = "pending" => ~DependenciesDone(s, t)

BlockedHasCause(s) ==
    \A t \in Tasks :
        s[t] = "blocked" => \E d \in DependsOn[t] : s[d] \in {"failed", "blocked"}

ValidTasks(s) ==
    /\ s \in [Tasks -> TaskStatus]
    /\ AtMostOneRuns(s)
    /\ DependenciesRespected(s)
    /\ PendingWaits(s)
    /\ BlockedHasCause(s)

\* ... and on the status of the execution they belong to.
ValidState(status, s) ==
    /\ ValidTasks(s)
    /\ status \in {"completed", "failed", "interrupted"} => TerminalStatus(s) = status
============================================================================
