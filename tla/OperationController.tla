------------------------- MODULE OperationController -------------------------
(***************************************************************************)
(* The Operation Controller (operation_controller/controller.py) driving   *)
(* one operation.                                                          *)
(*                                                                         *)
(* The HTTP facade serves each request on a thread of its own, so several  *)
(* handlers may work on the operation at once.  A handler loads the        *)
(* record, decides on its private copy, and from then on only writes: each *)
(* save replaces the stored file whole, and nothing locks it or compares   *)
(* versions.  A handler is therefore cut at the points where others can    *)
(* see it or be seen by it: its load, each write and each replace of the   *)
(* store, each event, and each call of an adapter, whose result is any the *)
(* adapters in adapters/*.py and the controller's own tests return.        *)
(***************************************************************************)
EXTENDS OperationStates, FiniteSets

CONSTANTS
  Threads,        \* handler threads; one thread is requests served in turn
  Adapters,       \* the adapters the controller was built with
  Kinds,          \* the source kinds clients submit
  Claimants,      \* frontends (browser tabs) that claim tool executions
  PlainCalls,     \* tool calls that run without approval
  ApprovalCalls,  \* tool calls that need approval
  RetryKeys,      \* idempotency keys of retry_aflow
  None,           \* an absent record, event, claim, call or key
  MaxRequests,    \* bound: requests served
  MaxHistory,     \* bound: reviews find no gap once the history is this long
  MaxSid,         \* bound: suspension ids the adapters generate
  MaxCrashes      \* bound: restarts of the process

Calls == PlainCalls \cup ApprovalCalls

ASSUME ControllerAssumption ==
  /\ Adapters \subseteq { "planning", "review", "fulfilment", "execution", "chat" }
  /\ Kinds \subseteq { "task", "prepared_plan", "fix", "chat" }
  /\ PlainCalls \cap ApprovalCalls = {}
  /\ None \notin Claimants \cup Calls \cup RetryKeys
  /\ MaxRequests \in Nat /\ MaxHistory \in Nat
  /\ MaxSid \in Nat /\ MaxCrashes \in Nat

VARIABLES
  rec,        \* the stored record (<operation_id>.json), or None
  tmp,        \* the temporary file a save renames, shared by all threads
  th,         \* what each handler thread is doing
  nextSid,    \* the next fresh suspension id; 0 is the empty id
  events,     \* what the event store was told, as a set of facts
  served,     \* requests accepted so far
  crashes,    \* restarts so far
  \* What clients have seen, kept only to state properties:
  granted,    \* claims answered with "claimed": True
  delivered,  \* tool results accepted: the suspension named and the one left
  retryLog    \* retries accepted: key and operation version

seen == << granted, delivered, retryLog >>
vars == << rec, tmp, th, nextSid, events, served, crashes, seen >>

------------------------------------------------------------------------------
(* Data *)

Claim == [by : Claimants, call : Calls, sid : Nat]

(* OperationRecord with the slices and artifacts the control depends on.   *)
(* appCall stands for approval_tool_call and for argument_digest, which is *)
(* the digest of that call and is written together with it.                *)
OperationRecord ==
  [ state    : OperationState,
    kind     : { "task", "prepared_plan", "fix", "chat" },
    history  : Seq([from : OperationState, to : OperationState]),
    plan     : { "none", "plan", "failure" },   \* artifacts.candidate_plan
    sid      : Nat,                             \* suspension_id
    appSid   : Nat,                             \* approval_suspension_id
    appCall  : Calls \cup { None },             \* approval_tool_call
    decided  : { "undecided", "approved", "denied" },
    pending  : SUBSET Calls,                    \* pending_calls
    claim    : Claim \cup { None },             \* execution_claim
    consumed : BOOLEAN,                         \* suspension_consumed
    phase    : { "none", "planning", "execution" }, \* resume_phase
    retried  : SUBSET RetryKeys ]               \* artifacts aflow_retry:<key>

EventType ==
  { "operation_created", "state_transition", "aflow_review_completed",
    "aflow_issue_created", "tool_approval_requested", "tool_approval_resolved",
    "tool_approval_denied", "tool_execution_requested",
    "tool_execution_claimed", "operation_completed", "operation_failed" }

Event == [type : EventType, state : OperationState, sid : Nat,
          call : Calls \cup { None }]

ASSUME AbsenceAssumption == None \notin OperationRecord /\ None \notin Claim

AdapterPC == { "plan", "resume_plan", "review", "fulfil", "execute",
               "resume_execution" }

Thread ==
  [ pc  : { "idle", "write", "replace", "emit", "grant", "rekey" }
            \cup AdapterPC,
    r   : OperationRecord \cup { None },   \* the handler's private copy
    ev  : Event \cup { None },             \* what to emit after the save
    nxt : { "return", "grant", "auto_review", "auto_execute" } \cup AdapterPC,
    key : RetryKeys \cup { None },         \* the retry being served
    ctx : BOOLEAN ]                        \* the name `context` is bound

Idle == [pc |-> "idle", r |-> None, ev |-> None, nxt |-> "return",
         key |-> None, ctx |-> TRUE]

NewRecord(k) ==
  [ state |-> "received", kind |-> k, history |-> << >>, plan |-> "none",
    sid |-> 0, appSid |-> 0, appCall |-> None, decided |-> "undecided",
    pending |-> {}, claim |-> None, consumed |-> FALSE, phase |-> "none",
    retried |-> {} ]

Ev(type, r, call) == [type |-> type, state |-> r.state, sid |-> r.sid, call |-> call]

------------------------------------------------------------------------------
(* Steps of a handler on its private copy *)

(* Mutant of transition(): no history. *)
MoveUnlogged(r, s) == [r EXCEPT !.state = s]

(* OperationRecord.transition *)
CanMove(r, s) == r.state \notin TERMINAL_STATES /\ s \in TRANSITIONS[r.state]

Move(r, s) ==
  [r EXCEPT !.state = s, !.history = Append(@, [from |-> r.state, to |-> s])]

(* The handler x goes on to store.save(r), then emits ev, then does nxt. *)
Persist(x, r, ev, nxt) ==
  [x EXCEPT !.pc = "write", !.r = r, !.ev = ev, !.nxt = nxt]

(* transition(s), save, emit; a refused transition ends the handler, by an *)
(* exception or by an error reply, with nothing saved.                     *)
Advance(x, r, s, type, call, nxt) ==
  IF CanMove(r, s)
  THEN LET m == Move(r, s)
       IN Persist(x, m, IF type = "none" THEN None ELSE Ev(type, m, call), nxt)
  ELSE Idle

(* The handler returns; a retry still has its replay key to store. *)
Finish(x) == IF x.key = None THEN Idle ELSE [x EXCEPT !.pc = "rekey", !.ev = None]

(* What the handler does when the save and its events are done.  A phase   *)
(* whose adapter is missing returns and awaits it.                         *)
AdapterOf(pc) ==
  CASE pc \in { "plan", "resume_plan" }         -> "planning"
    [] pc = "review"                            -> "review"
    [] pc = "fulfil"                            -> "fulfilment"
    [] pc \in { "execute", "resume_execution" } -> "execution"

GoOn(x) ==
  CASE x.nxt = "return" -> Finish(x)
    [] x.nxt = "grant" -> [x EXCEPT !.pc = "grant", !.ev = None]
    [] x.nxt = "auto_review" ->
         Advance(x, x.r, "reviewing", "none", None,
                 IF x.ctx THEN "review" ELSE "return")
    [] x.nxt = "auto_execute" ->
         IF "execution" \in Adapters
         THEN Advance(x, x.r, "sandbox_running", "none", None, "execute")
         ELSE Finish(x)
    [] OTHER -> IF AdapterOf(x.nxt) \in Adapters
                THEN [x EXCEPT !.pc = x.nxt, !.ev = None]
                ELSE Finish(x)

Become(t, x) == th' = [th EXCEPT ![t] = x]

------------------------------------------------------------------------------
(* FileOperationStore.save and EventStore.append *)

(* tmp.write_text(...) *)
Write(t) ==
  /\ th[t].pc = "write"
  /\ tmp' = th[t].r
  /\ Become(t, [th[t] EXCEPT !.pc = "replace"])
  /\ UNCHANGED << rec, nextSid, events, served, crashes, seen >>

(* tmp.replace(path), which fails when another save has renamed the file. *)
Replace(t) ==
  /\ th[t].pc = "replace"
  /\ tmp' = None
  /\ rec' = IF tmp = None THEN rec ELSE tmp
  /\ Become(t, CASE tmp = None -> Idle
                 [] tmp # None /\ th[t].ev # None -> [th[t] EXCEPT !.pc = "emit"]
                 [] OTHER -> GoOn(th[t]))
  /\ UNCHANGED << nextSid, events, served, crashes, seen >>

(* _emit; the reply to a claim follows its event. *)
Emit(t) ==
  /\ th[t].pc = "emit"
  /\ events' = events \cup { th[t].ev }
  /\ granted' = IF th[t].ev.type = "tool_execution_claimed"
                THEN granted \cup { th[t].r.claim } ELSE granted
  /\ Become(t, GoOn(th[t]))
  /\ UNCHANGED << rec, tmp, nextSid, served, crashes, delivered, retryLog >>

------------------------------------------------------------------------------
(* Requests *)

(* A free thread takes a request and loads the record. *)
Load(t) == /\ th[t].pc = "idle"
           /\ rec # None
           /\ served < MaxRequests
           /\ served' = served + 1

MissingAdapters(kind) ==
  { a \in { "planning", "review", "execution", "chat" } \ Adapters :
      \/ a = "planning" /\ kind = "task"
      \/ a = "review" /\ kind \in { "task", "prepared_plan", "fix" }
      \/ a = "execution" /\ kind \in { "task", "prepared_plan" }
      \/ a = "chat" /\ kind = "chat" }

(* The id is fresh, so no other handler knows the operation yet. *)
Register(t, kind) ==
  /\ rec = None
  /\ \A u \in Threads : th[u] = Idle
  /\ MissingAdapters(kind) = {}
  /\ served' = 0
  /\ Become(t, Persist(Idle, NewRecord(kind),
                       Ev("operation_created", NewRecord(kind), None), "return"))
  /\ UNCHANGED << rec, tmp, nextSid, events, crashes, seen >>

(* A chat operation leaves received for sandbox_running, which the table   *)
(* refuses: its start raises before anything is saved.                     *)
Start(t, withPlan) ==
  /\ Load(t)
  /\ rec.state = "received"
  /\ \/ /\ rec.kind = "prepared_plan" /\ withPlan
        /\ Become(t, Advance(Idle, [rec EXCEPT !.plan = "plan"], "reviewing",
                             "none", None, "review"))
     \/ /\ rec.kind = "task"
        /\ Become(t, Advance(Idle, rec, "planning", "state_transition", None, "plan"))
     \/ /\ rec.kind = "fix"
        /\ Become(t, Advance(Idle, rec, "reviewing", "none", None,
                             IF withPlan THEN "review" ELSE "return"))
  /\ UNCHANGED << rec, tmp, nextSid, events, crashes, seen >>

Cancel(t) ==
  /\ Load(t)
  /\ CanMove(rec, "cancelled_by_user")
  /\ Become(t, Advance(Idle, rec, "cancelled_by_user", "none", None, "return"))
  /\ UNCHANGED << rec, tmp, nextSid, events, crashes, seen >>

(* Mutant: the call is not looked up. *)
ClaimMatchesAnyCall(sid, call, digestOf) ==
  /\ rec.state = "suspended_for_tool_result"
  /\ sid = rec.sid
  /\ rec.appCall # None => digestOf = rec.appCall

(* claim_tool_execution: digestOf is the call whose digest the client      *)
(* sends.                                                                  *)
ClaimMatches(sid, call, digestOf) ==
  /\ rec.state = "suspended_for_tool_result"
  /\ sid = rec.sid
  /\ call \in rec.pending
  /\ rec.appCall # None => digestOf = rec.appCall

CompetingClaim(claimant) == rec.claim # None /\ rec.claim.by # claimant

ClaimToolExecution(t, claimant, sid, call, digestOf) ==
  /\ Load(t)
  /\ ClaimMatches(sid, call, digestOf)
  /\ ~CompetingClaim(claimant)
  /\ LET claim == [by |-> claimant, call |-> call, sid |-> sid]
         r     == [rec EXCEPT !.claim = claim]
     IN \/ /\ rec.claim = None
           /\ Become(t, Persist(Idle, r, Ev("tool_execution_claimed", r, call), "return"))
           /\ UNCHANGED granted
        \/ /\ rec.claim # None
           /\ granted' = granted \cup { claim }
           /\ UNCHANGED th
  /\ UNCHANGED << rec, tmp, nextSid, events, crashes, delivered, retryLog >>

------------------------------------------------------------------------------
(* resume *)

ResumeTarget(r) ==
  CASE r.state \in { "suspended_for_tool_result", "suspended_for_approval" } ->
         (CASE r.phase = "execution" -> "sandbox_running"
            [] r.phase = "planning" -> "planning"
            [] OTHER -> IF r.state = "suspended_for_approval"
                        THEN "sandbox_running" ELSE "planning")
    [] r.state \in { "suspended_plan_revision", "suspended_evidence",
                     "suspended_decision" } -> "reviewing"
    [] OTHER -> "sandbox_ready"

AfterResume(target) ==
  CASE target = "planning"        -> "resume_plan"
    [] target = "sandbox_running" -> "resume_execution"
    [] OTHER                      -> "return"

(* resume with any other resume_type: `context` is not bound in it. *)
Resume(t) ==
  /\ Load(t)
  /\ rec.state \in SUSPENDED_STATES
  /\ LET target == ResumeTarget(rec)
     IN Become(t, Advance([Idle EXCEPT !.ctx = FALSE], rec, target, "none", None,
                          AfterResume(target)))
  /\ UNCHANGED << rec, tmp, nextSid, events, crashes, seen >>

(* _handle_tool_result; `named` is the suspension_id of the request, which *)
(* the code does not read.                                                 *)
ToolResult(t, named, calls) ==
  /\ Load(t)
  /\ rec.state \in SUSPENDED_STATES
  /\ rec.claim # None => ~rec.consumed /\ calls \subseteq { rec.claim.call }
  /\ LET target == ResumeTarget(rec)
         r == [rec EXCEPT !.consumed = @ \/ rec.claim # None]
     IN /\ CanMove(rec, target)
        /\ Become(t, Advance(Idle, r, target, "none", None, AfterResume(target)))
  /\ delivered' = IF rec.state = "suspended_for_tool_result"
                  THEN Append(delivered, [named |-> named, left |-> rec.sid])
                  ELSE delivered
  /\ UNCHANGED << rec, tmp, nextSid, events, crashes, granted, retryLog >>

(* _handle_approval_decision: a decision may name no suspension. *)
DecisionMatches(sid) ==
  sid # 0 /\ (rec.sid # 0 \/ rec.appSid # 0) => sid \in { rec.sid, rec.appSid }

(* Mutant: the resolution is not announced. *)
ApprovedMutant(r) ==
  [Idle EXCEPT !.pc = "grant",
     !.r = [r EXCEPT !.decided = "approved", !.appSid = r.sid]]

(* An approval is announced before anything of it is saved. *)
Approved(r) ==
  [Idle EXCEPT !.pc = "emit", !.nxt = "grant",
     !.r = [r EXCEPT !.decided = "approved", !.appSid = r.sid],
     !.ev = Ev("tool_approval_resolved", r, r.appCall)]

ApprovalDecision(t, approved, sid) ==
  /\ Load(t)
  /\ rec.state \in SUSPENDED_STATES
  /\ DecisionMatches(sid)
  /\ rec.decided = "undecided"
  /\ Become(t,
       IF approved
       THEN Approved(rec)
       ELSE Advance(Idle, [rec EXCEPT !.decided = "denied"], "cancelled_by_user",
                    "tool_approval_denied", rec.appCall, "return"))
  /\ UNCHANGED << rec, tmp, nextSid, events, crashes, seen >>

(* The second stage of an approval: a fresh suspension for the frontend.   *)
(* An id generated for a refused transition is discarded.                  *)
GrantApproval(t) ==
  /\ th[t].pc = "grant"
  /\ LET r == [th[t].r EXCEPT !.sid = nextSid, !.pending = { th[t].r.appCall } \ { None }]
     IN Become(t, Advance(th[t], r, "suspended_for_tool_result",
                          "tool_execution_requested", r.appCall, "return"))
  /\ nextSid' = IF CanMove(th[t].r, "suspended_for_tool_result")
                THEN nextSid + 1 ELSE nextSid
  /\ UNCHANGED << rec, tmp, events, served, crashes, seen >>

------------------------------------------------------------------------------
(* retry_aflow *)

RetryAflow(t, key, version) ==
  /\ Load(t)
  /\ key \notin rec.retried
  /\ rec.state = "suspended_provider_recovery"
  /\ version = Len(rec.history)
  /\ rec.plan # "none"
  /\ Become(t, Advance([Idle EXCEPT !.key = key], rec, "reviewing", "none", None, "review"))
  /\ retryLog' = Append(retryLog, [key |-> key, version |-> version])
  /\ UNCHANGED << rec, tmp, nextSid, events, crashes, granted, delivered >>

(* The review has returned: reload, and store the replay key. *)
RecordRetry(t) ==
  /\ th[t].pc = "rekey"
  /\ Become(t, Persist([th[t] EXCEPT !.key = None],
                       [rec EXCEPT !.retried = @ \cup { th[t].key }], None, "return"))
  /\ UNCHANGED << rec, tmp, nextSid, events, served, crashes, seen >>

------------------------------------------------------------------------------
(* Adapters return *)

(* _handle_approval_suspension *)
SuspendForApproval(t, phase) ==
  /\ nextSid <= MaxSid
  /\ \E c \in ApprovalCalls :
       Become(t, Advance(th[t], [th[t].r EXCEPT !.sid = nextSid, !.appCall = c,
                                                !.phase = phase],
                         "suspended_for_approval", "tool_approval_requested",
                         c, "return"))
  /\ nextSid' = nextSid + 1

(* _handle_tool_result_suspension *)
SuspendForToolResult(t, phase) ==
  /\ nextSid <= MaxSid
  /\ \E calls \in SUBSET PlainCalls \ { {} } :
       Become(t, Advance(th[t], [th[t].r EXCEPT !.sid = nextSid, !.pending = calls,
                                                !.phase = phase],
                         "suspended_for_tool_result", "tool_execution_requested",
                         None, "return"))
  /\ nextSid' = nextSid + 1

(* _do_planning and the planning part of a resume.  A result that is not a *)
(* suspension is taken for the plan, a failed one included.                *)
PlanningReturns(t) ==
  /\ th[t].pc \in { "plan", "resume_plan" }
  /\ \/ /\ \E plan \in { "plan", "failure" } :
             Become(t, Advance(th[t], [th[t].r EXCEPT !.plan = plan],
                               "plan_ready", "none", None, "auto_review"))
        /\ UNCHANGED nextSid
     \/ SuspendForApproval(t, "planning")
     \/ SuspendForToolResult(t, "planning")
  /\ UNCHANGED << rec, tmp, events, served, crashes, seen >>

(* _do_review; an improved plan replaces the candidate. *)
ReviewReturns(t) ==
  /\ th[t].pc = "review"
  /\ LET r == th[t].r
     IN \/ \E plan \in { r.plan, "plan" } :
             Become(t, Advance(th[t], [r EXCEPT !.plan = plan], "sandbox_ready",
                               "aflow_review_completed", None, "auto_execute"))
        \/ /\ Len(r.history) < MaxHistory
           /\ Become(t, Advance(th[t], r, "fulfilling", "none", None, "fulfil"))
        \/ Become(t, Advance(th[t], r, "suspended_provider_recovery",
                             "aflow_issue_created", None, "return"))
        \/ Become(t, Advance(th[t], r, "suspended_evidence", "none", None, "return"))
  /\ UNCHANGED << rec, tmp, nextSid, events, served, crashes, seen >>

(* _do_fulfilment *)
FulfilmentReturns(t) ==
  /\ th[t].pc = "fulfil"
  /\ \/ Become(t, Advance(th[t], th[t].r, "reviewing", "none", None, "review"))
     \/ \E s \in { "awaiting_decision", "collecting_evidence" } :
          Become(t, Advance(th[t], th[t].r, s, "none", None, "return"))
  /\ UNCHANGED << rec, tmp, nextSid, events, served, crashes, seen >>

(* _do_execution and _handle_adapter_result *)
ExecutionReturns(t) ==
  /\ th[t].pc \in { "execute", "resume_execution" }
  /\ \/ /\ Become(t, Advance(th[t], th[t].r, "completed", "operation_completed",
                             None, "return"))
        /\ UNCHANGED nextSid
     \/ /\ Become(t, Advance(th[t], th[t].r, "cancelled_by_user", "operation_failed",
                             None, "return"))
        /\ UNCHANGED nextSid
     \/ SuspendForApproval(t, "execution")
     \/ SuspendForToolResult(t, "execution")
  /\ UNCHANGED << rec, tmp, events, served, crashes, seen >>

------------------------------------------------------------------------------
(* The process dies: every handler is lost, the files stay. *)
Crash ==
  /\ crashes < MaxCrashes
  /\ \E t \in Threads : th[t].pc # "idle"
  /\ crashes' = crashes + 1
  /\ th' = [t \in Threads |-> Idle]
  /\ UNCHANGED << rec, tmp, nextSid, events, served, seen >>

Init ==
  /\ rec = None
  /\ tmp = None
  /\ th = [t \in Threads |-> Idle]
  /\ nextSid = 1
  /\ events = {}
  /\ served = 0
  /\ crashes = 0
  /\ granted = {}
  /\ delivered = << >>
  /\ retryLog = << >>

(* A client names a suspension that the event asking for it told it of. *)
Asked(type) == { e.sid : e \in { f \in events : f.type = type } }

Request(t) ==
  \/ \E kind \in Kinds : Register(t, kind)
  \/ \E withPlan \in BOOLEAN : Start(t, withPlan)
  \/ Cancel(t)
  \/ Resume(t)
  \/ \E sid \in Asked("tool_execution_requested"), c \in Claimants,
        call, digestOf \in Calls : ClaimToolExecution(t, c, sid, call, digestOf)
  \/ \E sid \in Asked("tool_execution_requested"), calls \in SUBSET Calls :
       ToolResult(t, sid, calls)
  \/ \E sid \in Asked("tool_approval_requested") \cup { 0 }, approved \in BOOLEAN :
       ApprovalDecision(t, approved, sid)
  \/ /\ rec # None
     /\ \E key \in RetryKeys, version \in 0 .. Len(rec.history) :
          RetryAflow(t, key, version)

HandlerStep(t) ==
  \/ Write(t)
  \/ Replace(t)
  \/ Emit(t)
  \/ GrantApproval(t)
  \/ RecordRetry(t)

AdapterReturns(t) ==
  \/ PlanningReturns(t)
  \/ ReviewReturns(t)
  \/ FulfilmentReturns(t)
  \/ ExecutionReturns(t)

Next ==
  \/ \E t \in Threads : Request(t) \/ HandlerStep(t) \/ AdapterReturns(t)
  \/ Crash

Spec == Init /\ [][Next]_vars

------------------------------------------------------------------------------
(* Properties *)

(* The stored record, the temporary file and the private copies are        *)
(* records of the shape controller.py and states.py give them.             *)
TypeOK ==
  /\ rec \in OperationRecord \cup { None }
  /\ tmp \in OperationRecord \cup { None }
  /\ th \in [Threads -> Thread]
  /\ nextSid \in Nat \ { 0 }
  /\ events \subseteq Event
  /\ served \in 0 .. MaxRequests
  /\ crashes \in 0 .. MaxCrashes
  /\ granted \subseteq Claim
  /\ delivered \in Seq([named : Nat, left : Nat])
  /\ retryLog \in Seq([key : RetryKeys, version : Nat])

(* Whatever handlers race, abort or die, the stored history is a chain of  *)
(* allowed transitions from received to the stored state: a save replaces  *)
(* the record whole and every transition() is validated on the copy saved. *)
StoredHistoryIsPath == rec # None => IsPathTo(rec.history, rec.state)

(* A claim answered "claimed" for the suspension the record is in names a  *)
(* call that suspension is waiting for, whatever copy the claim was        *)
(* decided on and whatever was saved since.                                *)
GrantIsPending ==
  rec # None => \A g \in granted : g.sid = rec.sid => g.call \in rec.pending

(* A call that needs approval is handed to a frontend only after the event *)
(* that resolves its approval.                                             *)
ApprovalBeforeExecution ==
  \A g \in granted : g.call \in ApprovalCalls =>
     \E e \in events : e.type = "tool_approval_resolved" /\ e.call = g.call

(* What the clients see of the operation. *)
StateSeen   == IF rec = None THEN "absent" ELSE rec.state
HistorySeen == IF rec = None THEN << >> ELSE rec.history
SidSeen     == IF rec = None THEN 0 ELSE rec.sid
AwaitedSeen == IF StateSeen = "suspended_for_tool_result" THEN rec.pending ELSE {}
ApprovedSeen ==
  { c \in ApprovalCalls :
      \E e \in events : e.type = "tool_approval_resolved" /\ e.call = c }

DeliveredSeen == [i \in DOMAIN delivered |-> delivered[i].left]

(* A handler is about to save that the suspension is left. *)
ClosingSeen ==
  /\ StateSeen = "suspended_for_tool_result"
  /\ \E t \in Threads : th[t].pc \in { "write", "replace" } /\ th[t].r.state # rec.state

Lifecycle == INSTANCE OperationLifecycle
  WITH state <- StateSeen, history <- HistorySeen, suspension <- SidSeen,
       awaited <- AwaitedSeen, approved <- ApprovedSeen, executions <- granted,
       delivered <- DeliveredSeen, closing <- ClosingSeen

(* A request is taken only when no other one is being served.  The server  *)
(* does not see to that; a client that waits for each answer does.         *)
InTurn ==
  \A t \in Threads : Request(t) => \A u \in Threads : th[u] = Idle

(* While requests are served in turn, the operation keeps the promises of  *)
(* OperationLifecycle to its clients: each save is one transition of the   *)
(* table, and what is asked, approved, claimed and delivered belongs to    *)
(* the suspension that is stored.                                          *)
ImplementsLifecycle == Lifecycle!Spec

------------------------------------------------------------------------------
(* What the repository says and the code does not do *)

(* The first four break when two handlers work on one operation at once.   *)

(* "Atomically claim a pending tool execution for a specific claimant"     *)
(* (claim_tool_execution): two frontends are never told that one           *)
(* suspension's execution is theirs.                                       *)
SingleClaimant == \A a, b \in granted : a.sid = b.sid => a.by = b.by

(* "Check for idempotent replay of already-consumed suspension"            *)
(* (_handle_tool_result): the work is resumed once from one continuation,  *)
(* within one life of the process.                                         *)
ResultsConsumedOnce ==
  crashes = 0 =>
    \A i, j \in 1 .. Len(delivered) : delivered[i].left = delivered[j].left => i = j

(* "States that are terminal (no transitions out)" (states.py).            *)
TerminalIsFinal ==
  [][rec # None /\ rec.state \in TERMINAL_STATES => rec'.state = rec.state]_vars

(* An idempotency key, "Idempotency guard" (docs/api-reference.md), buys   *)
(* one review.                                                             *)
RetryKeyRunsOnce ==
  \A i, j \in 1 .. Len(retryLog) : retryLog[i].key = retryLog[j].key => i = j

(* "This binds a tool-result suspension to a single claimant"              *)
(* (claim_tool_execution): a claim found on a suspended record was made    *)
(* for that suspension.                                                    *)
ClaimIsForThisSuspension ==
  rec # None /\ rec.state = "suspended_for_tool_result" /\ rec.claim # None
    => rec.claim.sid = rec.sid

(* The digest a claim must present is that of a call it can claim, as the  *)
(* API reference describes argument_digest.                                *)
DigestIsOfAPendingCall ==
  rec # None /\ rec.state = "suspended_for_tool_result" /\ rec.appCall # None
    => rec.appCall \in rec.pending

(* A resume acts on the suspension it names: "Suspension to resume from".  *)
ResultReachesItsSuspension ==
  \A i \in 1 .. Len(delivered) : delivered[i].named = delivered[i].left

(* An approval suspension starts undecided, so that its decision is not    *)
(* taken for a replay ("Check idempotency - already decided?").            *)
ApprovalSuspensionIsUndecided ==
  rec # None /\ rec.state = "suspended_for_approval" => rec.decided = "undecided"

(* A planning adapter that reports failure has produced no plan: nothing   *)
(* is reviewed for it.                                                     *)
FailedPlanIsNotReviewed ==
  rec # None /\ rec.state = "reviewing" => rec.plan # "failure"
==============================================================================
