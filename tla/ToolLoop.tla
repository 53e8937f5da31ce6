------------------------------- MODULE ToolLoop -------------------------------
(***************************************************************************)
(* The LLM tool-calling loop of one planning or execution phase            *)
(* (operation_controller/tool_loop.py), with the adapter that serializes   *)
(* and resumes it (adapters/planning.py, adapters/execution.py) and what   *)
(* the controller does to its continuation when a call is approved.        *)
(*                                                                         *)
(* Only the messages that hold tool calls or their answers are kept: they  *)
(* are what a provider needs to be well formed.                            *)
(***************************************************************************)
EXTENDS Naturals, Sequences, FiniteSets, SequencesExt

CONSTANTS
  BackendTools,   \* tools the backend executor runs
  FrontendTools,  \* tools a frontend runs: file_read, list_directory
  ApprovalTools,  \* tools that need the operator's approval: shell_exec
  BlockedTools,   \* tools the policy does not allow: file_write
  MaxIterations,  \* ToolLoopConfig.max_iterations
  MaxCalls,       \* bound: calls in one response
  MaxIds,         \* bound: ids of calls
  MaxLegs         \* bound: resumes

Tools == BackendTools \cup FrontendTools \cup ApprovalTools \cup BlockedTools

ASSUME ToolLoopAssumption ==
  /\ BlockedTools \cap (BackendTools \cup FrontendTools \cup ApprovalTools) = {}
  /\ BackendTools \cap FrontendTools = {}
  /\ MaxIterations \in Nat /\ MaxCalls \in Nat
  /\ MaxIds \in Nat /\ MaxLegs \in Nat

VARIABLES
  pc,        \* where the phase is
  msgs,      \* messages of the running leg
  iter,      \* loop_iteration of the running leg
  offered,   \* the provider is offered the tool schemas
  cont,      \* the persisted continuation
  asked,     \* calls a frontend or the operator was asked for
  toolOf,    \* the tool of each call made so far
  ran,       \* calls the backend executor ran
  approved,  \* calls the operator approved
  usage,     \* usage records of the running leg
  errors,    \* provider replies that report an error
  made,      \* provider calls of the whole phase
  stray,     \* ids a client sent results for without being asked
  legs       \* resumes so far

vars == << pc, msgs, iter, offered, cont, asked, toolOf, ran, approved, usage,
           errors, made, stray, legs >>

Ids == 1 .. MaxIds

Message == [role : { "assistant", "tool" }, calls : SUBSET Ids]

Continuation == [msgs : Seq(Message), pending : SUBSET Ids, iter : Nat]

NoContinuation == [msgs |-> << >>, pending |-> {}, iter |-> 0]

Request(calls) == [role |-> "assistant", calls |-> calls]

Answers(calls) ==
  [i \in 1 .. Cardinality(calls) |->
     [role |-> "tool", calls |-> { SetToSeq(calls)[i] }]]

End(state) == pc' = state

------------------------------------------------------------------------------
(* The loop *)

(* The head of the loop: cancelled, or past the deadline of this leg. *)
Expire ==
  /\ pc = "top"
  /\ iter < MaxIterations
  /\ End("failed")
  /\ UNCHANGED << msgs, iter, offered, cont, asked, toolOf, ran, approved,
                  usage, errors, made, stray, legs >>

LoopLimit ==
  /\ pc = "top"
  /\ iter >= MaxIterations
  /\ End("failed")
  /\ UNCHANGED << msgs, iter, offered, cont, asked, toolOf, ran, approved,
                  usage, errors, made, stray, legs >>

CallProvider ==
  /\ pc = "top"
  /\ iter < MaxIterations
  /\ pc' = "call"
  /\ iter' = iter + 1
  /\ made' = made + 1
  /\ UNCHANGED << msgs, offered, cont, asked, toolOf, ran, approved, usage,
                  errors, stray, legs >>

(* provider.call raises. *)
ProviderRaises ==
  /\ pc = "call"
  /\ End("failed")
  /\ UNCHANGED << msgs, iter, offered, cont, asked, toolOf, ran, approved,
                  usage, errors, made, stray, legs >>

(* A reply without tool calls is the final one.  The Ollama provider       *)
(* replies so, with no usage, to a timeout, a refused connection and any   *)
(* HTTP error.                                                             *)
FinalReply(error) ==
  /\ pc = "call"
  /\ errors' = errors + (IF error THEN 1 ELSE 0)
  /\ usage' = usage + (IF error THEN 0 ELSE 1)
  /\ End("completed")
  /\ UNCHANGED << msgs, iter, offered, cont, asked, toolOf, ran, approved,
                  made, stray, legs >>

(* _handle_tool_calls sorts the calls of a response; ids are fresh. *)
ResponseIds(n) == Len(toolOf) + 1 .. Len(toolOf) + n

(* Mutant: a tool is taken as allowed without a look at the policy. *)
AllowedUnchecked(tools) ==
  { i \in ResponseIds(Len(tools)) : tools[i - Len(toolOf)] \in Tools }

Allowed(tools) ==
  { i \in ResponseIds(Len(tools)) : tools[i - Len(toolOf)] \notin BlockedTools }

NeedApproval(tools) ==
  { i \in ResponseIds(Len(tools)) : tools[i - Len(toolOf)] \in ApprovalTools }

ForBackend(tools) ==
  { i \in Allowed(tools) \ NeedApproval(tools) :
      tools[i - Len(toolOf)] \in BackendTools }

ForFrontend(tools) ==
  Allowed(tools) \ (NeedApproval(tools) \cup ForBackend(tools))

(* _build_continuation keeps every raw call of the response. *)
Continue(tools) ==
  [msgs |-> msgs, pending |-> ResponseIds(Len(tools)), iter |-> iter]

Respond(tools) ==
  /\ pc = "call"
  /\ tools # << >>
  /\ Len(toolOf) + Len(tools) <= MaxIds
  /\ usage' = usage + 1
  /\ UNCHANGED << iter, offered, approved, errors, made, stray, legs >>

(* The first call that needs approval suspends the loop. *)
SuspendForApproval(tools) ==
  /\ Respond(tools)
  /\ toolOf' = toolOf \o tools
  /\ \E first \in NeedApproval(tools) :
       /\ \A i \in NeedApproval(tools) : first <= i
       /\ asked' = { first }
  /\ cont' = Continue(tools)
  /\ pc' = "suspended_for_approval"
  /\ UNCHANGED << msgs, ran >>

(* Backend calls run first; the adapters leave their results out of what   *)
(* they return.                                                            *)
SuspendForTool(tools) ==
  /\ Respond(tools)
  /\ NeedApproval(tools) = {} /\ ForFrontend(tools) # {}
  /\ toolOf' = toolOf \o tools
  /\ ran' = ran \cup ForBackend(tools)
  /\ asked' = ForFrontend(tools)
  /\ cont' = Continue(tools)
  /\ pc' = "suspended_for_tool_result"
  /\ UNCHANGED msgs

RunBackend(tools) ==
  /\ Respond(tools)
  /\ NeedApproval(tools) = {} /\ ForFrontend(tools) = {} /\ ForBackend(tools) # {}
  /\ toolOf' = toolOf \o tools
  /\ ran' = ran \cup ForBackend(tools)
  /\ msgs' = Append(msgs, Request(ForBackend(tools))) \o Answers(ForBackend(tools))
  /\ pc' = "top"
  /\ UNCHANGED << asked, cont >>

(* Every call is blocked: a text says so, and the ids are forgotten. *)
AllBlocked(tools) ==
  /\ Respond(tools)
  /\ Allowed(tools) = {}
  /\ pc' = "top"
  /\ UNCHANGED << msgs, asked, cont, toolOf, ran >>

------------------------------------------------------------------------------
(* Suspensions end *)

(* _handle_approval_decision: the call and a stand-in answer are put into  *)
(* the continuation, whose other calls are dropped.                        *)
Approve ==
  /\ pc = "suspended_for_approval"
  /\ approved' = approved \cup asked
  /\ cont' = [cont EXCEPT !.msgs = Append(@, Request(asked)) \o Answers(asked),
                          !.pending = {}]
  /\ pc' = "suspended_for_tool_result"
  /\ UNCHANGED << msgs, iter, offered, asked, toolOf, ran, usage, errors, made,
                  stray, legs >>

Deny ==
  /\ pc = "suspended_for_approval"
  /\ End("failed")
  /\ UNCHANGED << msgs, iter, offered, cont, asked, toolOf, ran, approved,
                  usage, errors, made, stray, legs >>

(* Mutant: the pending calls are not restored. *)
ResumeWithoutCalls(results) ==
  /\ pc = "suspended_for_tool_result"
  /\ legs < MaxLegs
  /\ legs' = legs + 1
  /\ msgs' = cont.msgs \o Answers(results)
  /\ iter' = cont.iter
  /\ offered' = FALSE
  /\ usage' = 0
  /\ stray' = stray \cup (results \ asked)
  /\ asked' = {}
  /\ pc' = "top"
  /\ UNCHANGED << cont, toolOf, ran, approved, errors, made >>

(* resume.  Nothing compares the results with the calls asked for: they    *)
(* may leave some out, and hold ids of other calls or of none.             *)
Resume(results) ==
  /\ pc = "suspended_for_tool_result"
  /\ legs < MaxLegs
  /\ legs' = legs + 1
  /\ msgs' = (IF cont.pending = {} THEN cont.msgs
              ELSE Append(cont.msgs, Request(cont.pending))) \o Answers(results)
  /\ iter' = cont.iter
  /\ offered' = FALSE
  /\ usage' = 0
  /\ stray' = stray \cup (results \ asked)
  /\ asked' = {}
  /\ pc' = "top"
  /\ UNCHANGED << cont, toolOf, ran, approved, errors, made >>

------------------------------------------------------------------------------
Init ==
  /\ pc = "top"
  /\ msgs = << >>
  /\ iter = 0
  /\ offered = TRUE
  /\ cont = NoContinuation
  /\ asked = {}
  /\ toolOf = << >>
  /\ ran = {}
  /\ approved = {}
  /\ usage = 0
  /\ errors = 0
  /\ made = 0
  /\ stray = {}
  /\ legs = 0

Responses == UNION { [1 .. n -> Tools] : n \in 1 .. MaxCalls }

ToolCalls ==
  \E tools \in Responses :
    \/ SuspendForApproval(tools)
    \/ SuspendForTool(tools)
    \/ RunBackend(tools)
    \/ AllBlocked(tools)

LoopStep ==
  \/ Expire
  \/ LoopLimit
  \/ CallProvider
  \/ ProviderRaises
  \/ \E error \in BOOLEAN : FinalReply(error)
  \/ ToolCalls

Answered ==
  \/ Approve
  \/ Deny
  \/ \E results \in SUBSET Ids : Resume(results)

Next == LoopStep \/ Answered

Spec == Init /\ [][Next]_vars

------------------------------------------------------------------------------
(* Properties *)

States == { "top", "call", "suspended_for_approval", "suspended_for_tool_result",
            "completed", "failed" }

(* The loop's state, messages and continuation have the code's shape.      *)
TypeOK ==
  /\ pc \in States
  /\ msgs \in Seq(Message)
  /\ iter \in Nat
  /\ offered \in BOOLEAN
  /\ cont \in Continuation
  /\ asked \subseteq Ids
  /\ toolOf \in Seq(Tools) /\ Len(toolOf) <= MaxIds
  /\ ran \subseteq Ids
  /\ approved \subseteq Ids
  /\ usage \in Nat /\ errors \in Nat /\ made \in Nat
  /\ stray \subseteq Ids
  /\ legs \in 0 .. MaxLegs

(* The provider is called at most max_iterations times in a phase, however *)
(* often the phase is suspended and resumed: a continuation keeps the      *)
(* count.                                                                  *)
IterationsBounded == made <= MaxIterations

(* What the policy blocks or leaves to the operator is neither run by the  *)
(* backend nor handed to a frontend: of the calls a suspension asks for,   *)
(* those that need approval have it.                                       *)
PolicyHolds ==
  /\ \A i \in ran \cup asked : toolOf[i] \notin BlockedTools
  /\ \A i \in ran : toolOf[i] \notin ApprovalTools
  /\ pc = "suspended_for_tool_result" =>
       \A i \in asked : toolOf[i] \in ApprovalTools => i \in approved

(* Every answer the provider is shown follows the call it answers, over    *)
(* approvals, partial results and resumes, whatever else clients send: the *)
(* only answers without a call are to ids no suspension asked for.         *)
AnswersFollowCalls ==
  \A n \in 1 .. Len(msgs) : msgs[n].role = "tool" =>
     \/ msgs[n].calls \subseteq stray
     \/ \E m \in 1 .. n - 1 : /\ msgs[m].role = "assistant"
                              /\ msgs[n].calls \subseteq msgs[m].calls

------------------------------------------------------------------------------
(* What the repository says and the code does not do *)

(* resume takes "Results for pending tool calls": no other is shown to the *)
(* provider.                                                               *)
OnlyAskedAnswers == stray = {}

(* "Execute backend tools and return results (for combining with           *)
(* frontend)" (_execute_backend_batch): what the backend ran is answered   *)
(* when the provider is called again.                                      *)
BackendResultsReturned ==
  pc = "call" =>
    \A i \in ran : \E n \in 1 .. Len(msgs) : msgs[n].role = "tool" /\ i \in msgs[n].calls

(* The tools of a resumed loop "Will be reconstructed from config          *)
(* snapshot" (resume).                                                     *)
ToolsOffered == pc = "call" => offered

(* "Loop failed (timeout, cancellation, or provider error)."               *)
(* (ToolLoopFailed): a phase whose provider failed does not complete.      *)
ProviderErrorFails == pc = "completed" => errors = 0

(* "Usage records from both segments are present in the final outcome."    *)
(* (test_tool_loop.py)                                                     *)
UsageOfEveryLeg == pc = "completed" /\ errors = 0 => usage = made
==============================================================================
