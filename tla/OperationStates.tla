--------------------------- MODULE OperationStates ---------------------------
(***************************************************************************)
(* The state table of an operation                                         *)
(* (operation_controller/states.py).  A constant module that the           *)
(* controller and its proofs extend.                                       *)
(***************************************************************************)
EXTENDS Naturals, Sequences

(* OperationState *)
OperationState ==
  { "received", "planning", "plan_ready", "reviewing", "fulfilling",
    "collecting_evidence", "awaiting_decision", "sandbox_ready",
    "sandbox_running", "verifying", "ready_to_apply", "completed",
    "cancelled_by_user", "superseded", "suspended_plan_revision",
    "suspended_provider_recovery", "suspended_evidence",
    "suspended_package_repair", "suspended_decision",
    "suspended_for_approval", "suspended_for_tool_result" }

TERMINAL_STATES == { "completed", "cancelled_by_user", "superseded" }

SUSPENDED_STATES ==
  { "suspended_plan_revision", "suspended_provider_recovery",
    "suspended_evidence", "suspended_package_repair", "suspended_decision",
    "suspended_for_approval", "suspended_for_tool_result" }

(* The valid transitions; a state with no entry in the code's table (the   *)
(* terminal ones) maps to the empty set, as TRANSITIONS.get(...) does.     *)
TRANSITIONS ==
  LET cancel == "cancelled_by_user"
      leave  == { cancel, "superseded" }
  IN [ s \in OperationState |->
       CASE s = "received" -> { "planning", "reviewing" }
         [] s = "planning" -> { "plan_ready", "suspended_plan_revision",
                "suspended_for_tool_result", "suspended_for_approval", cancel }
         [] s = "plan_ready" -> { "reviewing", cancel }
         [] s = "reviewing" -> { "fulfilling", "sandbox_ready",
                "suspended_evidence", "suspended_plan_revision",
                "suspended_provider_recovery", cancel }
         [] s = "fulfilling" -> { "collecting_evidence", "awaiting_decision",
                "reviewing", cancel }
         [] s = "collecting_evidence" ->
                { "reviewing", "suspended_evidence", cancel }
         [] s = "awaiting_decision" ->
                { "reviewing", "suspended_decision", cancel }
         [] s = "sandbox_ready" ->
                { "sandbox_running", "suspended_provider_recovery", cancel }
         [] s = "sandbox_running" -> { "verifying", "completed",
                "suspended_provider_recovery", "suspended_package_repair",
                "suspended_for_approval", "suspended_for_tool_result", cancel }
         [] s = "verifying" -> { "ready_to_apply", "sandbox_ready", cancel }
         [] s = "ready_to_apply" -> { "completed", cancel }
         [] s = "suspended_plan_revision" ->
                { "planning", "reviewing" } \cup leave
         [] s = "suspended_provider_recovery" ->
                { "reviewing", "sandbox_ready", "sandbox_running" } \cup leave
         [] s = "suspended_evidence" ->
                { "collecting_evidence", "reviewing" } \cup leave
         [] s = "suspended_package_repair" -> { "sandbox_ready" } \cup leave
         [] s = "suspended_decision" ->
                { "awaiting_decision", "reviewing" } \cup leave
         [] s = "suspended_for_approval" ->
                { "sandbox_running", "planning", "suspended_for_tool_result" }
                  \cup leave
         [] s = "suspended_for_tool_result" ->
                { "sandbox_running", "planning" } \cup leave
         [] OTHER -> {} ]

(* A history is a chain of allowed transitions that starts at received and *)
(* ends in state s.                                                        *)
IsPathTo(history, s) ==
  /\ history = << >> => s = "received"
  /\ history # << >> => /\ history[1].from = "received"
                        /\ history[Len(history)].to = s
  /\ \A i \in 1 .. Len(history) :
        /\ history[i].from \notin TERMINAL_STATES
        /\ history[i].to \in TRANSITIONS[history[i].from]
  /\ \A i \in 1 .. Len(history) - 1 : history[i + 1].from = history[i].to

==============================================================================
