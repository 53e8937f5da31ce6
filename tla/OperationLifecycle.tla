-------------------------- MODULE OperationLifecycle --------------------------
(***************************************************************************)
(* What the clients of one operation are promised while its requests are   *)
(* served one after another.  Its history grows by transitions of the      *)
(* table.  A suspension has an id no suspension had before it and is left  *)
(* for good.  The calls a suspension awaits are those that need no         *)
(* approval or have one; one claimant runs them, while it is awaited; and  *)
(* its results are taken once, unless the process dies before it has left. *)
(* OperationController implements it.                                      *)
(***************************************************************************)
EXTENDS OperationStates

CONSTANTS Claimants, PlainCalls, ApprovalCalls

VARIABLES
  state,       \* "absent" before the operation is registered
  history,
  suspension,  \* the id of the last suspension, 0 before the first
  awaited,     \* the calls it awaits
  approved,    \* calls whose approval was announced
  executions,  \* claims that were granted
  delivered,   \* the suspensions whose results were taken, in order
  closing      \* the suspension is being left

offers   == << suspension, awaited >>
outcomes == << approved, executions, delivered >>

Init ==
  /\ state = "absent" /\ history = << >>
  /\ suspension = 0 /\ awaited = {}
  /\ approved = {} /\ executions = {} /\ delivered = << >>
  /\ closing = FALSE

Create ==
  /\ state = "absent"
  /\ state' = "received"
  /\ UNCHANGED << history, offers, outcomes, closing >>

Enter(s) ==
  /\ state # "absent" /\ s \in TRANSITIONS[state]
  /\ state' = s
  /\ history' = Append(history, [from |-> state, to |-> s])
  /\ closing' = FALSE

Proceed(s) ==
  /\ s \notin { "suspended_for_approval", "suspended_for_tool_result" }
  /\ Enter(s)
  /\ awaited' = {}
  /\ UNCHANGED << suspension, outcomes >>

AskApproval ==
  /\ Enter("suspended_for_approval")
  /\ suspension' > suspension
  /\ awaited' = {}
  /\ UNCHANGED outcomes

AskExecution ==
  /\ Enter("suspended_for_tool_result")
  /\ suspension' > suspension
  /\ awaited' \subseteq PlainCalls \cup approved
  /\ UNCHANGED outcomes

Approve(c) ==
  /\ state \in SUSPENDED_STATES
  /\ approved' = approved \cup { c }
  /\ UNCHANGED << state, history, offers, executions, delivered, closing >>

Open == state = "suspended_for_tool_result" /\ ~ closing

Execute(by, call) ==
  /\ Open
  /\ call \in awaited
  /\ \A e \in executions : e.sid = suspension => e.by = by
  /\ executions' = executions \cup { [by |-> by, call |-> call, sid |-> suspension] }
  /\ UNCHANGED << state, history, offers, approved, delivered, closing >>

(* A request to leave the suspension, with its results or without. *)
Leave(withResults) ==
  /\ Open
  /\ closing' = TRUE
  /\ delivered' = IF withResults THEN Append(delivered, suspension) ELSE delivered
  /\ UNCHANGED << state, history, offers, approved, executions >>

(* The process dies before the request is saved. *)
Forget ==
  /\ closing /\ closing' = FALSE
  /\ UNCHANGED << state, history, offers, outcomes >>

Next ==
  \/ Create
  \/ \E s \in OperationState : Proceed(s)
  \/ AskApproval \/ AskExecution
  \/ \E c \in ApprovalCalls : Approve(c)
  \/ \E by \in Claimants, call \in PlainCalls \cup ApprovalCalls : Execute(by, call)
  \/ \E withResults \in BOOLEAN : Leave(withResults)
  \/ Forget

vars == << state, history, offers, outcomes, closing >>

Spec == Init /\ [][Next]_vars
==============================================================================
