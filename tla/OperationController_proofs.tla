--------------------- MODULE OperationController_proofs ---------------------
(***************************************************************************)
(* Proofs about the Operation Controller, for any number of handler        *)
(* threads, adapters, claimants, calls and restarts: what is stored is a   *)
(* record whose history is a path, what is granted is awaited and approved *)
(* and, while requests are served one after another, each suspension is    *)
(* claimed and consumed once, a terminal state is final, and the clients   *)
(* see a run of OperationLifecycle.                                        *)
(***************************************************************************)
EXTENDS OperationController, TLAPS

Entry == [from : OperationState, to : OperationState]

(* A record that may be stored. *)
Good(r) == r \in OperationRecord /\ IsPathTo(r.history, r.state)

(* What a handler carries between its steps. *)
Safe(x) ==
  /\ x \in Thread
  /\ x.pc # "idle" => Good(x.r)
  /\ x.pc = "emit" => /\ x.ev \in Event
                      /\ x.ev.type = "tool_execution_claimed" => x.r.claim \in Claim
  /\ x.pc = "rekey" => x.key \in RetryKeys
  /\ x.ev # None /\ x.ev.type = "tool_execution_claimed" => x.r.claim \in Claim

(* TypeOK and StoredHistoryIsPath are not inductive: a save publishes the  *)
(* private copy of a handler or the temporary file, so what holds of the   *)
(* record must hold of every copy, and a retry must find a record.         *)
IInv ==
  /\ TypeOK
  /\ rec # None => Good(rec)
  /\ tmp # None => Good(tmp)
  /\ \A t \in Threads : Safe(th[t])
  /\ \A t \in Threads : th[t].key # None => rec # None

------------------------------------------------------------------------------
(* Lemmas about the operators *)

(* A history stays a path when an allowed transition is appended. *)
LEMMA PathExtends ==
  ASSUME NEW h \in Seq(Entry), NEW s \in OperationState, NEW u \in OperationState,
         IsPathTo(h, s), s \notin TERMINAL_STATES, u \in TRANSITIONS[s]
  PROVE  IsPathTo(Append(h, [from |-> s, to |-> u]), u)
<1> DEFINE e == [from |-> s, to |-> u]
           g == Append(h, e)
<1>1. /\ Len(g) = Len(h) + 1
      /\ Len(h) \in Nat
      /\ g[Len(h) + 1] = e
      /\ \A i \in 1 .. Len(h) : g[i] = h[i]
  BY DEF Entry
<1>2. g # << >>
  BY <1>1
<1>3. g[1].from = "received"
  <2>1. CASE h = << >>
    BY <2>1, <1>1 DEF IsPathTo
  <2>2. CASE h # << >>
    <3>1. Len(h) \in Nat /\ Len(h) >= 1
      BY <2>2
    <3> QED
      BY <2>2, <1>1, <3>1 DEF IsPathTo
  <2> QED
    BY <2>1, <2>2
<1>4. g[Len(g)].to = u
  BY <1>1
<1>5. \A i \in 1 .. Len(g) : /\ g[i].from \notin TERMINAL_STATES
                             /\ g[i].to \in TRANSITIONS[g[i].from]
  <2> SUFFICES ASSUME NEW i \in 1 .. Len(g)
               PROVE  /\ g[i].from \notin TERMINAL_STATES
                      /\ g[i].to \in TRANSITIONS[g[i].from]
    OBVIOUS
  <2>1. CASE i = Len(h) + 1
    BY <2>1, <1>1
  <2>2. CASE i \in 1 .. Len(h)
    BY <2>2, <1>1 DEF IsPathTo
  <2> QED
    BY <2>1, <2>2, <1>1
<1>6. \A i \in 1 .. Len(g) - 1 : g[i + 1].from = g[i].to
  <2> SUFFICES ASSUME NEW i \in 1 .. Len(h)
               PROVE  g[i + 1].from = g[i].to
    BY <1>1
  <2>1. CASE i = Len(h)
    <3>1. h # << >>
      BY <2>1, <1>1
    <3>2. h[Len(h)].to = s
      BY <3>1 DEF IsPathTo
    <3> QED
      BY <2>1, <3>2, <1>1
  <2>2. CASE i \in 1 .. Len(h) - 1
    <3>1. h[i + 1].from = h[i].to
      BY <2>2 DEF IsPathTo
    <3>2. i + 1 \in 1 .. Len(h)
      BY <2>2, <1>1
    <3> QED
      BY <3>1, <3>2, <1>1
  <2> QED
    BY <2>1, <2>2, <1>1
<1> QED
  BY <1>2, <1>3, <1>4, <1>5, <1>6 DEF IsPathTo

(* transition() keeps a record storable. *)
LEMMA MoveGood ==
  ASSUME NEW r, Good(r), NEW s \in OperationState, CanMove(r, s)
  PROVE  /\ Good(Move(r, s))
         /\ Move(r, s).claim = r.claim
<1> DEFINE e == [from |-> r.state, to |-> s]
<1>1. /\ r \in OperationRecord
      /\ r.state \in OperationState
      /\ r.history \in Seq(Entry)
  BY DEF Good, OperationRecord, Entry
<1>2. Append(r.history, e) \in Seq(Entry)
  BY <1>1 DEF Entry
<1>3. IsPathTo(Append(r.history, e), s)
  BY <1>1, PathExtends DEF CanMove, Good
<1>4. /\ Move(r, s) \in OperationRecord
      /\ Move(r, s).history = Append(r.history, e)
      /\ Move(r, s).state = s
      /\ Move(r, s).claim = r.claim
  BY <1>1, <1>2 DEF Move, OperationRecord, Entry
<1> QED
  BY <1>3, <1>4 DEF Good

Goal == { "return", "grant", "auto_review", "auto_execute" } \cup AdapterPC

(* The events a transition may emit: any but the one that answers a claim. *)
QuietEvent == (EventType \cup { "none" }) \ { "tool_execution_claimed" }

(* An idle thread carries nothing. *)
LEMMA IdleSafe == Safe(Idle) /\ Idle.key = None
BY DEF Safe, Idle, Thread, AdapterPC

(* A handler that goes on to save a good record is safe. *)
LEMMA PersistSafe ==
  ASSUME NEW x, x \in Thread, NEW r, Good(r), NEW ev \in Event \cup { None },
         ev # None /\ ev.type = "tool_execution_claimed" => r.claim \in Claim,
         NEW nxt \in Goal
  PROVE  Safe(Persist(x, r, ev, nxt)) /\ Persist(x, r, ev, nxt).key = x.key
<1> DEFINE y == Persist(x, r, ev, nxt)
<1>1. /\ y \in Thread
      /\ y.pc = "write"
      /\ y.r = r
      /\ y.ev = ev
      /\ y.key = x.key
  BY DEF Persist, Thread, Good, Goal
<1> QED
  BY <1>1 DEF Safe

(* So is one that attempts a transition of a good record. *)
LEMMA AdvanceSafe ==
  ASSUME NEW x, x \in Thread, NEW r, Good(r), NEW s \in OperationState,
         NEW type \in QuietEvent,
         NEW call \in Calls \cup { None }, NEW nxt \in Goal
  PROVE  /\ Safe(Advance(x, r, s, type, call, nxt))
         /\ Advance(x, r, s, type, call, nxt).key \in { x.key, None }
<1> DEFINE m == Move(r, s)
           ev == IF type = "none" THEN None ELSE Ev(type, m, call)
<1>1. CASE CanMove(r, s)
  <2>1. Good(m)
    BY <1>1, MoveGood
  <2>2. m.state \in OperationState /\ m.sid \in Nat
    BY <2>1 DEF Good, OperationRecord
  <2>3. CASE type = "none"
    <3>1. Safe(Persist(x, m, None, nxt)) /\ Persist(x, m, None, nxt).key = x.key
      BY <2>1, PersistSafe
    <3>2. Advance(x, r, s, type, call, nxt) = Persist(x, m, None, nxt)
      BY <1>1, <2>3 DEF Advance
    <3> QED
      BY <3>1, <3>2
  <2>4. CASE type # "none"
    <3>1. /\ Ev(type, m, call) \in Event
          /\ Ev(type, m, call).type # "tool_execution_claimed"
      BY <2>2, <2>4 DEF Ev, Event, QuietEvent
    <3>2. /\ Safe(Persist(x, m, Ev(type, m, call), nxt))
          /\ Persist(x, m, Ev(type, m, call), nxt).key = x.key
      BY <2>1, <3>1, PersistSafe
    <3>3. Advance(x, r, s, type, call, nxt) = Persist(x, m, Ev(type, m, call), nxt)
      BY <1>1, <2>4 DEF Advance
    <3> QED
      BY <3>2, <3>3
  <2> QED
    BY <2>3, <2>4
<1>2. CASE ~CanMove(r, s)
  BY <1>2, IdleSafe DEF Advance
<1> QED
  BY <1>1, <1>2

(* And one that goes on after a save. *)
LEMMA GoOnSafe ==
  ASSUME NEW x, Safe(x), x.pc # "idle"
  PROVE  Safe(GoOn(x)) /\ GoOn(x).key \in { x.key, None }
<1>1. x \in Thread /\ Good(x.r) /\ x.nxt \in Goal
  BY DEF Safe, Thread, Goal
<1>2. Safe(Finish(x)) /\ Finish(x).key \in { x.key, None }
  <2>1. CASE x.key = None
    BY <2>1, IdleSafe DEF Finish
  <2>2. CASE x.key # None
    <3> DEFINE y == [x EXCEPT !.pc = "rekey", !.ev = None]
    <3>1. y \in Thread /\ y.pc = "rekey" /\ y.r = x.r /\ y.ev = None /\ y.key = x.key
      BY <1>1 DEF Thread
    <3>2. y.key \in RetryKeys
      BY <1>1, <2>2, <3>1 DEF Thread
    <3> QED
      BY <1>1, <2>2, <3>1, <3>2 DEF Finish, Safe
  <2> QED
    BY <2>1, <2>2
<1>3. ASSUME NEW pc \in { "grant" } \cup AdapterPC
      PROVE  /\ Safe([x EXCEPT !.pc = pc, !.ev = None])
             /\ [x EXCEPT !.pc = pc, !.ev = None].key = x.key
  <2> DEFINE y == [x EXCEPT !.pc = pc, !.ev = None]
  <2>1. y \in Thread /\ y.pc = pc /\ y.r = x.r /\ y.ev = None /\ y.key = x.key
    BY <1>1 DEF Thread
  <2>2. pc \notin { "emit", "rekey" }
    BY DEF AdapterPC
  <2> QED
    BY <1>1, <2>1, <2>2 DEF Safe
<1>4. CASE x.nxt = "return"
  BY <1>2, <1>4 DEF GoOn
<1>5. CASE x.nxt = "grant"
  BY <1>3, <1>5 DEF GoOn
<1>6. CASE x.nxt = "auto_review"
  <2> DEFINE n == IF x.ctx THEN "review" ELSE "return"
  <2>1. GoOn(x) = Advance(x, x.r, "reviewing", "none", None, n)
    BY <1>6 DEF GoOn
  <2>2. "reviewing" \in OperationState /\ n \in Goal /\ "none" \in QuietEvent
    BY DEF OperationState, Goal, AdapterPC, QuietEvent
  <2> HIDE DEF n
  <2> QED
    BY <1>1, <2>1, <2>2, AdvanceSafe
<1>7. CASE x.nxt = "auto_execute"
  <2>1. CASE "execution" \in Adapters
    <3>1. GoOn(x) = Advance(x, x.r, "sandbox_running", "none", None, "execute")
      BY <1>7, <2>1 DEF GoOn
    <3>2. "sandbox_running" \in OperationState /\ "execute" \in Goal /\ "none" \in QuietEvent
      BY DEF OperationState, Goal, AdapterPC, QuietEvent
    <3> QED
      BY <1>1, <3>1, <3>2, AdvanceSafe
  <2>2. CASE "execution" \notin Adapters
    BY <1>2, <1>7, <2>2 DEF GoOn
  <2> QED
    BY <2>1, <2>2
<1>8. CASE x.nxt \in AdapterPC
  <2>1. GoOn(x) = IF AdapterOf(x.nxt) \in Adapters
                  THEN [x EXCEPT !.pc = x.nxt, !.ev = None] ELSE Finish(x)
    BY <1>8 DEF GoOn, AdapterPC
  <2> QED
    BY <1>2, <1>3, <1>8, <2>1
<1> QED
  BY <1>1, <1>4, <1>5, <1>6, <1>7, <1>8 DEF Goal

------------------------------------------------------------------------------
(* The invariant *)

(* The observers and counters, which no handler's copy depends on. *)
CountersOK ==
  /\ nextSid \in Nat \ { 0 }
  /\ events \subseteq Event
  /\ served \in 0 .. MaxRequests
  /\ crashes \in 0 .. MaxCrashes
  /\ granted \subseteq Claim
  /\ delivered \in Seq([named : Nat, left : Nat])
  /\ retryLog \in Seq([key : RetryKeys, version : Nat])

(* A step that gives one handler a safe next state and saves nothing. *)
LEMMA LocalStep ==
  ASSUME IInv, NEW t \in Threads, NEW y, Safe(y), y.key # None => rec # None,
         Become(t, y), UNCHANGED << rec, tmp >>, CountersOK'
  PROVE  IInv'
<1>1. th' = [th EXCEPT ![t] = y] /\ th \in [Threads -> Thread] /\ y \in Thread
  BY DEF Become, IInv, TypeOK, Safe
<1>2. th' \in [Threads -> Thread] /\ \A u \in Threads : th'[u] = IF u = t THEN y ELSE th[u]
  BY <1>1
<1>3. TypeOK'
  BY <1>2 DEF IInv, TypeOK, CountersOK
<1>4. \A u \in Threads : Safe(th'[u])
  BY <1>2 DEF IInv
<1>5. \A u \in Threads : th'[u].key # None => rec' # None
  BY <1>2 DEF IInv
<1> QED
  BY <1>3, <1>4, <1>5 DEF IInv, Good, Safe, Thread, Event, EventType, IsPathTo

(* What a thread that takes a request finds: a good record. *)
LEMMA LoadFacts ==
  ASSUME IInv, NEW t \in Threads, Load(t)
  PROVE  /\ Good(rec) /\ rec # None
         /\ served' \in 0 .. MaxRequests
         /\ Idle \in Thread
  BY IdleSafe, ControllerAssumption DEF Load, IInv, TypeOK, Safe

(* Names of states and steps that the handlers use. *)
LEMMA Names ==
  /\ "received" \in OperationState /\ "planning" \in OperationState
  /\ "plan_ready" \in OperationState /\ "reviewing" \in OperationState
  /\ "fulfilling" \in OperationState
  /\ "collecting_evidence" \in OperationState
  /\ "awaiting_decision" \in OperationState
  /\ "sandbox_ready" \in OperationState
  /\ "sandbox_running" \in OperationState
  /\ "completed" \in OperationState
  /\ "cancelled_by_user" \in OperationState
  /\ "suspended_provider_recovery" \in OperationState
  /\ "suspended_evidence" \in OperationState
  /\ "suspended_for_approval" \in OperationState
  /\ "suspended_for_tool_result" \in OperationState
  /\ "return" \in Goal /\ "grant" \in Goal /\ "auto_review" \in Goal
  /\ "auto_execute" \in Goal /\ "plan" \in Goal /\ "resume_plan" \in Goal
  /\ "review" \in Goal /\ "fulfil" \in Goal /\ "execute" \in Goal
  /\ "resume_execution" \in Goal
  /\ "none" \in QuietEvent /\ "state_transition" \in QuietEvent
  /\ "aflow_review_completed" \in QuietEvent
  /\ "aflow_issue_created" \in QuietEvent
  /\ "tool_approval_requested" \in QuietEvent
  /\ "tool_approval_denied" \in QuietEvent
  /\ "tool_execution_requested" \in QuietEvent
  /\ "operation_completed" \in QuietEvent /\ "operation_failed" \in QuietEvent
BY DEF OperationState, Goal, AdapterPC, EventType, QuietEvent

(* A resume has a state to go to and a step to continue with. *)
LEMMA ResumeNames ==
  ASSUME NEW r
  PROVE  ResumeTarget(r) \in OperationState /\ AfterResume(ResumeTarget(r)) \in Goal
<1>1. ResumeTarget(r) \in { "sandbox_running", "planning", "reviewing", "sandbox_ready" }
  BY DEF ResumeTarget
<1>2. \A s : AfterResume(s) \in { "resume_plan", "resume_execution", "return" }
  BY DEF AfterResume
<1> QED
  BY <1>1, <1>2, Names

(* A handler that attempts a transition of a good record, and saves nothing *)
(* yet, keeps the invariant.                                                *)
LEMMA TransitionStep ==
  ASSUME IInv, NEW t \in Threads, NEW x, x \in Thread, x.key # None => rec # None,
         NEW r, Good(r), NEW s \in OperationState, NEW type \in QuietEvent,
         NEW call \in Calls \cup { None }, NEW nxt \in Goal,
         Become(t, Advance(x, r, s, type, call, nxt)),
         UNCHANGED << rec, tmp >>, CountersOK'
  PROVE  IInv'
<1> DEFINE y == Advance(x, r, s, type, call, nxt)
<1>1. Safe(y)
  BY AdvanceSafe
<1>2. y.key \in { x.key, None }
  BY AdvanceSafe
<1> HIDE DEF y
<1> QED
  BY <1>1, <1>2, LocalStep DEF y

(* What a thread in the middle of a request holds. *)
LEMMA HandlerFacts ==
  ASSUME IInv, NEW t \in Threads, th[t].pc # "idle"
  PROVE  /\ th[t] \in Thread /\ Safe(th[t]) /\ Good(th[t].r)
         /\ th[t].key # None => rec # None
BY DEF IInv, Safe

(* The counters do not change when the step names none of them. *)
LEMMA CountersKept ==
  ASSUME IInv, UNCHANGED << nextSid, events, served, crashes, seen >>
  PROVE  CountersOK'
BY DEF IInv, TypeOK, CountersOK, seen

LEMMA LoadCounters ==
  ASSUME IInv, NEW t \in Threads, Load(t),
         UNCHANGED << nextSid, events, crashes, seen >>
  PROVE  CountersOK'
BY LoadFacts DEF IInv, TypeOK, CountersOK, seen

------------------------------------------------------------------------------
(* Each action keeps the invariant: requests *)

LEMMA RegisterStep ==
  ASSUME IInv, NEW t \in Threads, NEW kind \in Kinds, Register(t, kind)
  PROVE  IInv'
<1> DEFINE r == NewRecord(kind)
           ev == Ev("operation_created", r, None)
           y == Persist(Idle, r, ev, "return")
<1>1. r \in OperationRecord
  BY ControllerAssumption DEF NewRecord, OperationRecord, OperationState
<1>2. IsPathTo(r.history, r.state)
  BY DEF IsPathTo, NewRecord
<1>3. ev \in Event /\ ev.type # "tool_execution_claimed"
  BY Names DEF Ev, Event, EventType, NewRecord
<1>4. Good(r) /\ Idle \in Thread /\ "return" \in Goal /\ Idle.key = None
  BY <1>1, <1>2, IdleSafe, Names DEF Good, Safe
<1>5. CountersOK'
  BY ControllerAssumption DEF Register, IInv, TypeOK, CountersOK, seen
<1>6. Become(t, y) /\ UNCHANGED << rec, tmp >>
  BY DEF Register
<1>7. ev \in Event \cup { None }
  BY <1>3
<1> HIDE DEF r, ev
<1>8. Safe(y)
  BY <1>3, <1>4, <1>7, PersistSafe
<1>9. y.key = None
  BY <1>3, <1>4, <1>7, PersistSafe
<1> HIDE DEF y
<1> QED
  BY <1>5, <1>6, <1>8, <1>9, LocalStep

LEMMA StartStep ==
  ASSUME IInv, NEW t \in Threads, NEW withPlan \in BOOLEAN, Start(t, withPlan)
  PROVE  IInv'
<1>1. Good(rec) /\ Idle \in Thread /\ Idle.key = None /\ None \in Calls \cup { None }
  BY LoadFacts, IdleSafe DEF Start
<1>2. CountersOK' /\ UNCHANGED << rec, tmp >>
  BY LoadCounters DEF Start
<1>3. Good([rec EXCEPT !.plan = "plan"])
  BY <1>1 DEF Good, OperationRecord
<1>4. /\ "reviewing" \in OperationState /\ "planning" \in OperationState
      /\ "none" \in QuietEvent /\ "state_transition" \in QuietEvent
      /\ "review" \in Goal /\ "plan" \in Goal /\ "return" \in Goal
  BY Names
<1>5. CASE Become(t, Advance(Idle, [rec EXCEPT !.plan = "plan"], "reviewing",
                             "none", None, "review"))
  BY <1>1, <1>2, <1>3, <1>4, <1>5, TransitionStep
<1>6. CASE Become(t, Advance(Idle, rec, "planning", "state_transition", None, "plan"))
  BY <1>1, <1>2, <1>4, <1>6, TransitionStep
<1>7. CASE Become(t, Advance(Idle, rec, "reviewing", "none", None,
                             IF withPlan THEN "review" ELSE "return"))
  BY <1>1, <1>2, <1>4, <1>7, TransitionStep
<1> QED
  BY <1>5, <1>6, <1>7 DEF Start

LEMMA CancelStep ==
  ASSUME IInv, NEW t \in Threads, Cancel(t)
  PROVE  IInv'
<1>1. Good(rec) /\ Idle \in Thread /\ Idle.key = None /\ None \in Calls \cup { None }
  BY LoadFacts, IdleSafe DEF Cancel
<1>2. CountersOK' /\ UNCHANGED << rec, tmp >>
  BY LoadCounters DEF Cancel
<1>3. "cancelled_by_user" \in OperationState /\ "none" \in QuietEvent /\ "return" \in Goal
  BY Names
<1>4. Become(t, Advance(Idle, rec, "cancelled_by_user", "none", None, "return"))
  BY DEF Cancel
<1> QED
  BY <1>1, <1>2, <1>3, <1>4, TransitionStep

LEMMA ResumeStep ==
  ASSUME IInv, NEW t \in Threads, Resume(t)
  PROVE  IInv'
<1> DEFINE x == [Idle EXCEPT !.ctx = FALSE]
           target == ResumeTarget(rec)
<1>1. Good(rec) /\ None \in Calls \cup { None }
  BY LoadFacts DEF Resume
<1>2. CountersOK' /\ UNCHANGED << rec, tmp >>
  BY LoadCounters DEF Resume
<1>3. x \in Thread /\ x.key = None
  BY IdleSafe DEF Safe, Thread, Idle
<1>4. target \in OperationState /\ AfterResume(target) \in Goal /\ "none" \in QuietEvent
  BY ResumeNames, Names
<1>5. Become(t, Advance(x, rec, target, "none", None, AfterResume(target)))
  BY DEF Resume
<1> HIDE DEF x, target
<1> QED
  BY <1>1, <1>2, <1>3, <1>4, <1>5, TransitionStep

LEMMA ToolResultStep ==
  ASSUME IInv, NEW t \in Threads, NEW named \in Nat, NEW calls \in SUBSET Calls,
         ToolResult(t, named, calls)
  PROVE  IInv'
<1> DEFINE r == [rec EXCEPT !.consumed = @ \/ rec.claim # None]
           target == ResumeTarget(rec)
<1>1. Good(rec) /\ Idle \in Thread /\ Idle.key = None /\ None \in Calls \cup { None }
  BY LoadFacts, IdleSafe DEF ToolResult
<1>2. rec.sid \in Nat /\ rec.consumed \in BOOLEAN
  BY <1>1 DEF Good, OperationRecord
<1>3. delivered' \in Seq([named : Nat, left : Nat])
  <2>1. delivered \in Seq([named : Nat, left : Nat])
    BY DEF IInv, TypeOK
  <2>2. [named |-> named, left |-> rec.sid] \in [named : Nat, left : Nat]
    BY <1>2
  <2>3. Append(delivered, [named |-> named, left |-> rec.sid])
          \in Seq([named : Nat, left : Nat])
    BY <2>1, <2>2
  <2> QED
    BY <2>1, <2>3 DEF ToolResult
<1>4. CountersOK' /\ UNCHANGED << rec, tmp >>
  BY <1>3, LoadFacts DEF ToolResult, IInv, TypeOK, CountersOK
<1>5. Good(r)
  BY <1>1, <1>2 DEF Good, OperationRecord
<1>6. target \in OperationState /\ AfterResume(target) \in Goal /\ "none" \in QuietEvent
  BY ResumeNames, Names
<1>7. Become(t, Advance(Idle, r, target, "none", None, AfterResume(target)))
  BY DEF ToolResult
<1> HIDE DEF r, target
<1> QED
  BY <1>1, <1>4, <1>5, <1>6, <1>7, TransitionStep

LEMMA ClaimStep ==
  ASSUME IInv, NEW t \in Threads, NEW claimant \in Claimants, NEW sid \in Nat,
         NEW call \in Calls, NEW digestOf \in Calls,
         ClaimToolExecution(t, claimant, sid, call, digestOf)
  PROVE  IInv'
<1> DEFINE claim == [by |-> claimant, call |-> call, sid |-> sid]
           r == [rec EXCEPT !.claim = claim]
           ev == Ev("tool_execution_claimed", r, call)
           y == Persist(Idle, r, ev, "return")
<1>1. Good(rec) /\ rec # None /\ Idle \in Thread /\ Idle.key = None
      /\ served' \in 0 .. MaxRequests
  BY LoadFacts, IdleSafe DEF ClaimToolExecution
<1>2. claim \in Claim
  BY DEF Claim
<1>3. r \in OperationRecord /\ r.claim = claim /\ r.state = rec.state
      /\ r.history = rec.history /\ r.sid \in Nat /\ r.state \in OperationState
  BY <1>1, <1>2 DEF Good, OperationRecord
<1>4. Good(r)
  BY <1>1, <1>3 DEF Good
<1>5. ev \in Event
  BY <1>3 DEF Ev, Event, EventType
<1>6. CountersOK' /\ UNCHANGED << rec, tmp >>
  BY <1>1, <1>2 DEF ClaimToolExecution, IInv, TypeOK, CountersOK
<1>7. CASE Become(t, y)
  <2>1. r.claim \in Claim /\ ev \in Event \cup { None } /\ "return" \in Goal
    BY <1>2, <1>3, <1>5, Names
  <2> HIDE DEF r, ev
  <2>2. Safe(y)
    BY <1>1, <1>4, <2>1, PersistSafe
  <2>3. y.key = None
    BY <1>1, <1>4, <2>1, PersistSafe
  <2> HIDE DEF y
  <2> QED
    BY <1>6, <1>7, <2>2, <2>3, LocalStep
<1>8. CASE UNCHANGED th
  BY <1>6, <1>8 DEF IInv, TypeOK, CountersOK, Good
<1> QED
  BY <1>7, <1>8 DEF ClaimToolExecution

LEMMA ApprovalDecisionStep ==
  ASSUME IInv, NEW t \in Threads, NEW approved \in BOOLEAN, NEW sid \in Nat,
         ApprovalDecision(t, approved, sid)
  PROVE  IInv'
<1>1. Good(rec) /\ Idle \in Thread /\ Idle.key = None
  BY LoadFacts, IdleSafe DEF ApprovalDecision
<1>2. CountersOK' /\ UNCHANGED << rec, tmp >>
  BY LoadCounters DEF ApprovalDecision
<1>3. rec.sid \in Nat /\ rec.state \in OperationState /\ rec.appCall \in Calls \cup { None }
  BY <1>1 DEF Good, OperationRecord
<1>4. CASE Become(t, Approved(rec))
  <2> DEFINE r == [rec EXCEPT !.decided = "approved", !.appSid = rec.sid]
             ev == Ev("tool_approval_resolved", rec, rec.appCall)
             y == Approved(rec)
  <2>1. Good(r)
    BY <1>1, <1>3 DEF Good, OperationRecord
  <2>2. ev \in Event /\ ev.type # "tool_execution_claimed"
    BY <1>3 DEF Ev, Event, EventType
  <2> HIDE DEF r, ev
  <2>3. y \in Thread /\ y.pc = "emit" /\ y.r = r /\ y.ev = ev /\ y.key = None
    BY <1>1, <2>1, <2>2 DEF Approved, Thread, Good, Idle, r, ev
  <2>4. Safe(y) /\ y.key = None
    BY <2>1, <2>2, <2>3 DEF Safe
  <2> HIDE DEF y
  <2> QED
    BY <1>2, <1>4, <2>4, LocalStep DEF y
<1>5. CASE Become(t, Advance(Idle, [rec EXCEPT !.decided = "denied"],
                             "cancelled_by_user", "tool_approval_denied",
                             rec.appCall, "return"))
  <2>1. Good([rec EXCEPT !.decided = "denied"])
    BY <1>1 DEF Good, OperationRecord
  <2>2. "cancelled_by_user" \in OperationState /\ "tool_approval_denied" \in QuietEvent
        /\ "return" \in Goal
    BY Names
  <2> QED
    BY <1>1, <1>2, <1>3, <1>5, <2>1, <2>2, TransitionStep
<1> QED
  BY <1>4, <1>5 DEF ApprovalDecision

LEMMA RetryStep ==
  ASSUME IInv, NEW t \in Threads, NEW key \in RetryKeys, NEW version \in Nat,
         RetryAflow(t, key, version)
  PROVE  IInv'
<1> DEFINE x == [Idle EXCEPT !.key = key]
<1>1. Good(rec) /\ rec # None /\ Idle \in Thread /\ None \in Calls \cup { None }
      /\ served' \in 0 .. MaxRequests
  BY LoadFacts DEF RetryAflow
<1>2. retryLog' \in Seq([key : RetryKeys, version : Nat])
  <2>1. retryLog \in Seq([key : RetryKeys, version : Nat])
    BY DEF IInv, TypeOK
  <2>2. [key |-> key, version |-> version] \in [key : RetryKeys, version : Nat]
    OBVIOUS
  <2> QED
    BY <2>1, <2>2 DEF RetryAflow
<1>3. CountersOK' /\ UNCHANGED << rec, tmp >>
  BY <1>1, <1>2 DEF RetryAflow, IInv, TypeOK, CountersOK
<1>4. x \in Thread
  BY <1>1 DEF Thread
<1>5. "reviewing" \in OperationState /\ "none" \in QuietEvent /\ "review" \in Goal
  BY Names
<1>6. Become(t, Advance(x, rec, "reviewing", "none", None, "review"))
  BY DEF RetryAflow
<1> HIDE DEF x
<1> QED
  BY <1>1, <1>3, <1>4, <1>5, <1>6, TransitionStep

------------------------------------------------------------------------------
(* Each action keeps the invariant: the steps of a handler *)

LEMMA WriteStep ==
  ASSUME IInv, NEW t \in Threads, Write(t)
  PROVE  IInv'
<1> DEFINE y == [th[t] EXCEPT !.pc = "replace"]
<1>1. /\ th[t] \in Thread /\ Safe(th[t]) /\ Good(th[t].r)
      /\ th[t].key # None => rec # None
  BY HandlerFacts DEF Write
<1>2. y \in Thread /\ y.pc = "replace" /\ y.r = th[t].r /\ y.ev = th[t].ev
      /\ y.key = th[t].key
  BY <1>1 DEF Thread
<1>3. Safe(y)
  BY <1>1, <1>2 DEF Safe
<1> HIDE DEF y
<1>4. th' = [th EXCEPT ![t] = y] /\ th \in [Threads -> Thread]
  BY DEF Write, Become, IInv, TypeOK, y
<1>5. th' \in [Threads -> Thread]
      /\ \A u \in Threads : th'[u] = IF u = t THEN y ELSE th[u]
  BY <1>2, <1>4
<1>6. tmp' = th[t].r /\ rec' = rec /\ tmp' \in OperationRecord /\ Good(tmp')
  BY <1>1 DEF Write, Good
<1>7. CountersOK'
  BY CountersKept DEF Write
<1>8. TypeOK'
  BY <1>5, <1>6, <1>7 DEF IInv, TypeOK, CountersOK
<1>9. \A u \in Threads : Safe(th'[u])
  BY <1>3, <1>5 DEF IInv
<1>10. \A u \in Threads : th'[u].key # None => rec' # None
  BY <1>1, <1>2, <1>5, <1>6 DEF IInv
<1>11. rec' # None => Good(rec')
  BY <1>6 DEF IInv
<1> QED
  BY <1>6, <1>8, <1>9, <1>10, <1>11 DEF IInv

LEMMA ReplaceStep ==
  ASSUME IInv, NEW t \in Threads, Replace(t)
  PROVE  IInv'
<1>1. /\ th[t] \in Thread /\ Safe(th[t]) /\ Good(th[t].r)
      /\ th[t].pc = "replace"
      /\ th[t].key # None => rec # None
  BY HandlerFacts DEF Replace
<1>2. PICK y : th' = [th EXCEPT ![t] = y] /\ Safe(y) /\ y.key \in { th[t].key, None }
  <2>1. CASE Become(t, Idle)
    BY <2>1, IdleSafe DEF Become
  <2>2. CASE th[t].ev # None /\ Become(t, [th[t] EXCEPT !.pc = "emit"])
    <3> DEFINE y == [th[t] EXCEPT !.pc = "emit"]
    <3>1. y \in Thread /\ y.pc = "emit" /\ y.r = th[t].r /\ y.ev = th[t].ev
          /\ y.key = th[t].key
      BY <1>1 DEF Thread
    <3>2. y.ev \in Event
      BY <2>2, <3>1 DEF Thread
    <3>3. Safe(y)
      BY <1>1, <2>2, <3>1, <3>2 DEF Safe
    <3> QED
      BY <2>2, <3>1, <3>3 DEF Become
  <2>3. CASE Become(t, GoOn(th[t]))
    BY <1>1, <2>3, GoOnSafe DEF Become
  <2> QED
    BY <2>1, <2>2, <2>3 DEF Replace
<1>3. th \in [Threads -> Thread] /\ y \in Thread
  BY <1>2 DEF IInv, TypeOK, Safe
<1>4. th' \in [Threads -> Thread]
      /\ \A u \in Threads : th'[u] = IF u = t THEN y ELSE th[u]
  BY <1>2, <1>3
<1>5. tmp' = None /\ rec' = IF tmp = None THEN rec ELSE tmp
  BY DEF Replace
<1>6. rec' \in OperationRecord \cup { None } /\ (rec' # None => Good(rec'))
      /\ (rec # None => rec' # None)
  BY <1>5 DEF IInv, TypeOK
<1>7. CountersOK'
  BY CountersKept DEF Replace
<1>8. TypeOK'
  BY <1>4, <1>5, <1>6, <1>7 DEF IInv, TypeOK, CountersOK
<1>9. \A u \in Threads : Safe(th'[u])
  BY <1>2, <1>4 DEF IInv
<1>10. \A u \in Threads : th'[u].key # None => rec' # None
  BY <1>1, <1>2, <1>4, <1>6 DEF IInv
<1> QED
  BY <1>5, <1>6, <1>8, <1>9, <1>10 DEF IInv

LEMMA EmitStep ==
  ASSUME IInv, NEW t \in Threads, Emit(t)
  PROVE  IInv'
<1>1. /\ th[t] \in Thread /\ Safe(th[t]) /\ Good(th[t].r)
      /\ th[t].pc = "emit"
      /\ th[t].key # None => rec # None
  BY HandlerFacts DEF Emit
<1>2. th[t].ev \in Event
  BY <1>1 DEF Safe
<1>3. events' \subseteq Event
  BY <1>2 DEF Emit, IInv, TypeOK
<1>4. granted' \subseteq Claim
  BY <1>1, <1>2 DEF Emit, IInv, TypeOK, Safe
<1>5. CountersOK'
  BY <1>3, <1>4 DEF Emit, IInv, TypeOK, CountersOK
<1>6. Safe(GoOn(th[t]))
  BY <1>1, GoOnSafe
<1>7. GoOn(th[t]).key # None => rec # None
  BY <1>1, GoOnSafe
<1>8. Become(t, GoOn(th[t])) /\ UNCHANGED << rec, tmp >>
  BY DEF Emit
<1> QED
  BY <1>5, <1>6, <1>7, <1>8, LocalStep

LEMMA GrantApprovalStep ==
  ASSUME IInv, NEW t \in Threads, GrantApproval(t)
  PROVE  IInv'
<1> DEFINE x == th[t]
           r == [x.r EXCEPT !.sid = nextSid, !.pending = { x.r.appCall } \ { None }]
<1>1. x \in Thread /\ Good(x.r) /\ (x.key # None => rec # None)
  BY HandlerFacts DEF GrantApproval
<1>2. nextSid \in Nat \ { 0 } /\ nextSid + 1 \in Nat \ { 0 }
  BY DEF IInv, TypeOK
<1>3. x.r.appCall \in Calls \cup { None }
  BY <1>1 DEF Good, OperationRecord
<1>4. r \in OperationRecord /\ r.appCall = x.r.appCall /\ r.state = x.r.state
      /\ r.history = x.r.history
  BY <1>1, <1>2, <1>3 DEF Good, OperationRecord
<1>5. Good(r) /\ r.appCall \in Calls \cup { None }
  BY <1>1, <1>3, <1>4 DEF Good
<1>6. CountersOK' /\ UNCHANGED << rec, tmp >>
  BY <1>2 DEF GrantApproval, IInv, TypeOK, CountersOK, seen
<1>7. "suspended_for_tool_result" \in OperationState
      /\ "tool_execution_requested" \in QuietEvent /\ "return" \in Goal
  BY Names
<1>8. Become(t, Advance(x, r, "suspended_for_tool_result",
                        "tool_execution_requested", r.appCall, "return"))
  BY DEF GrantApproval
<1> HIDE DEF x, r
<1> QED
  BY <1>1, <1>5, <1>6, <1>7, <1>8, TransitionStep

LEMMA RecordRetryStep ==
  ASSUME IInv, NEW t \in Threads, RecordRetry(t)
  PROVE  IInv'
<1> DEFINE x == [th[t] EXCEPT !.key = None]
           r == [rec EXCEPT !.retried = @ \cup { th[t].key }]
           y == Persist(x, r, None, "return")
<1>1. th[t] \in Thread /\ th[t].key \in RetryKeys
  BY HandlerFacts DEF RecordRetry, Safe
<1>2. rec # None
  BY <1>1, ControllerAssumption DEF IInv
<1>3. Good(rec)
  BY <1>2 DEF IInv
<1>4. Good(r)
  BY <1>1, <1>3 DEF Good, OperationRecord
<1>5. x \in Thread /\ x.key = None
  BY <1>1 DEF Thread
<1>6. CountersOK' /\ UNCHANGED << rec, tmp >>
  BY CountersKept DEF RecordRetry
<1>7. Become(t, y)
  BY DEF RecordRetry
<1>8. None \in Event \cup { None } /\ "return" \in Goal
  BY Names
<1> HIDE DEF x, r
<1>9. Safe(y)
  BY <1>4, <1>5, <1>8, PersistSafe
<1>10. y.key = None
  BY <1>4, <1>5, <1>8, PersistSafe
<1> HIDE DEF y
<1> QED
  BY <1>6, <1>7, <1>9, <1>10, LocalStep

------------------------------------------------------------------------------
(* Each action keeps the invariant: adapters return *)

(* A suspension is stored with a fresh id, on a record that stays good. *)
LEMMA SuspendStep ==
  ASSUME IInv, NEW t \in Threads, th[t].pc # "idle",
         NEW phase \in { "planning", "execution" },
         SuspendForApproval(t, phase) \/ SuspendForToolResult(t, phase),
         UNCHANGED << rec, tmp, events, served, crashes, seen >>
  PROVE  IInv'
<1> DEFINE x == th[t]
<1>1. x \in Thread /\ Good(x.r) /\ (x.key # None => rec # None)
  BY HandlerFacts
<1>2. nextSid \in Nat \ { 0 } /\ nextSid + 1 \in Nat \ { 0 }
  BY DEF IInv, TypeOK
<1>3. CountersOK'
  BY <1>2 DEF SuspendForApproval, SuspendForToolResult, IInv, TypeOK, CountersOK, seen
<1>4. /\ "suspended_for_tool_result" \in OperationState
      /\ "suspended_for_approval" \in OperationState
      /\ "tool_execution_requested" \in QuietEvent
      /\ "tool_approval_requested" \in QuietEvent
      /\ "return" \in Goal
  BY Names
<1>5. CASE SuspendForApproval(t, phase)
  <2>1. PICK c \in ApprovalCalls :
          Become(t, Advance(x, [x.r EXCEPT !.sid = nextSid, !.appCall = c,
                                           !.phase = phase],
                            "suspended_for_approval", "tool_approval_requested",
                            c, "return"))
    BY <1>5 DEF SuspendForApproval
  <2> DEFINE r == [x.r EXCEPT !.sid = nextSid, !.appCall = c, !.phase = phase]
  <2>2. Good(r) /\ c \in Calls \cup { None }
    BY <1>1, <1>2 DEF Good, OperationRecord, Calls
  <2> HIDE DEF r
  <2>3. Become(t, Advance(x, r, "suspended_for_approval", "tool_approval_requested",
                          c, "return"))
    BY <2>1 DEF r
  <2> HIDE DEF x
  <2> QED
    BY <1>1, <1>3, <1>4, <2>2, <2>3, TransitionStep
<1>6. CASE SuspendForToolResult(t, phase)
  <2>1. PICK calls \in SUBSET PlainCalls \ { {} } :
          Become(t, Advance(x, [x.r EXCEPT !.sid = nextSid, !.pending = calls,
                                           !.phase = phase],
                            "suspended_for_tool_result", "tool_execution_requested",
                            None, "return"))
    BY <1>6 DEF SuspendForToolResult
  <2> DEFINE r == [x.r EXCEPT !.sid = nextSid, !.pending = calls, !.phase = phase]
  <2>2. calls \in SUBSET Calls
    BY DEF Calls
  <2>3. Good(r) /\ None \in Calls \cup { None }
    BY <1>1, <1>2, <2>2 DEF Good, OperationRecord
  <2> HIDE DEF r
  <2>4. Become(t, Advance(x, r, "suspended_for_tool_result",
                          "tool_execution_requested", None, "return"))
    BY <2>1 DEF r
  <2> HIDE DEF x
  <2> QED
    BY <1>1, <1>3, <1>4, <2>3, <2>4, TransitionStep
<1> QED
  BY <1>5, <1>6

(* So is the outcome of an adapter call that changes at most the plan. *)
LEMMA OutcomeStep ==
  ASSUME IInv, NEW t \in Threads, th[t].pc # "idle",
         NEW plan \in { "none", "plan", "failure" }, NEW s \in OperationState,
         NEW type \in QuietEvent, NEW nxt \in Goal,
         Become(t, Advance(th[t], [th[t].r EXCEPT !.plan = plan], s, type, None, nxt)),
         UNCHANGED << rec, tmp, nextSid, events, served, crashes, seen >>
  PROVE  IInv'
<1> DEFINE x == th[t]
           r == [x.r EXCEPT !.plan = plan]
<1>1. x \in Thread /\ Good(x.r) /\ (x.key # None => rec # None)
  BY HandlerFacts
<1>2. Good(r) /\ None \in Calls \cup { None }
  BY <1>1 DEF Good, OperationRecord
<1>3. CountersOK'
  BY CountersKept
<1> HIDE DEF x, r
<1>4. Become(t, Advance(x, r, s, type, None, nxt))
  BY DEF x, r
<1> QED
  BY <1>1, <1>2, <1>3, <1>4, TransitionStep

(* Or nothing of the record but its state. *)
LEMMA PlainOutcomeStep ==
  ASSUME IInv, NEW t \in Threads, th[t].pc # "idle", NEW s \in OperationState,
         NEW type \in QuietEvent, NEW nxt \in Goal,
         Become(t, Advance(th[t], th[t].r, s, type, None, nxt)),
         UNCHANGED << rec, tmp, nextSid, events, served, crashes, seen >>
  PROVE  IInv'
<1> DEFINE x == th[t]
           r == x.r
<1>1. x \in Thread /\ Good(r) /\ (x.key # None => rec # None)
      /\ None \in Calls \cup { None }
  BY HandlerFacts
<1>2. CountersOK'
  BY CountersKept
<1> HIDE DEF x, r
<1>3. Become(t, Advance(x, r, s, type, None, nxt))
  BY DEF x, r
<1> QED
  BY <1>1, <1>2, <1>3, TransitionStep

LEMMA PlanningStep ==
  ASSUME IInv, NEW t \in Threads, PlanningReturns(t)
  PROVE  IInv'
<1>1. th[t].pc # "idle"
  BY DEF PlanningReturns
<1>2. CASE SuspendForApproval(t, "planning") \/ SuspendForToolResult(t, "planning")
  BY <1>1, <1>2, SuspendStep DEF PlanningReturns
<1>3. CASE /\ \E plan \in { "plan", "failure" } :
                Become(t, Advance(th[t], [th[t].r EXCEPT !.plan = plan],
                                  "plan_ready", "none", None, "auto_review"))
           /\ UNCHANGED nextSid
  <2>1. PICK plan \in { "plan", "failure" } :
          Become(t, Advance(th[t], [th[t].r EXCEPT !.plan = plan],
                            "plan_ready", "none", None, "auto_review"))
    BY <1>3
  <2>2. plan \in { "none", "plan", "failure" } /\ "plan_ready" \in OperationState
        /\ "none" \in QuietEvent /\ "auto_review" \in Goal
    BY Names
  <2>3. UNCHANGED << rec, tmp, nextSid, events, served, crashes, seen >>
    BY <1>3 DEF PlanningReturns
  <2> QED
    BY <1>1, <2>1, <2>2, <2>3, OutcomeStep
<1> QED
  BY <1>2, <1>3 DEF PlanningReturns

LEMMA ReviewStep ==
  ASSUME IInv, NEW t \in Threads, ReviewReturns(t)
  PROVE  IInv'
<1>1. th[t].pc # "idle"
  BY DEF ReviewReturns
<1>2. UNCHANGED << rec, tmp, nextSid, events, served, crashes, seen >>
  BY DEF ReviewReturns
<1>3. /\ "sandbox_ready" \in OperationState /\ "fulfilling" \in OperationState
      /\ "suspended_provider_recovery" \in OperationState
      /\ "suspended_evidence" \in OperationState
      /\ "none" \in QuietEvent /\ "aflow_review_completed" \in QuietEvent
      /\ "aflow_issue_created" \in QuietEvent
      /\ "return" \in Goal /\ "fulfil" \in Goal /\ "auto_execute" \in Goal
  BY Names
<1>4. CASE \E plan \in { th[t].r.plan, "plan" } :
             Become(t, Advance(th[t], [th[t].r EXCEPT !.plan = plan], "sandbox_ready",
                               "aflow_review_completed", None, "auto_execute"))
  <2>1. PICK plan \in { th[t].r.plan, "plan" } :
             Become(t, Advance(th[t], [th[t].r EXCEPT !.plan = plan], "sandbox_ready",
                               "aflow_review_completed", None, "auto_execute"))
    BY <1>4
  <2>2. plan \in { "none", "plan", "failure" }
    BY <1>1, HandlerFacts DEF Good, OperationRecord
  <2> QED
    BY <1>1, <1>2, <1>3, <2>1, <2>2, OutcomeStep
<1>5. CASE Become(t, Advance(th[t], th[t].r, "fulfilling", "none", None, "fulfil"))
  BY <1>1, <1>2, <1>3, <1>5, PlainOutcomeStep
<1>6. CASE Become(t, Advance(th[t], th[t].r, "suspended_provider_recovery",
                             "aflow_issue_created", None, "return"))
  BY <1>1, <1>2, <1>3, <1>6, PlainOutcomeStep
<1>7. CASE Become(t, Advance(th[t], th[t].r, "suspended_evidence", "none", None, "return"))
  BY <1>1, <1>2, <1>3, <1>7, PlainOutcomeStep
<1> QED
  BY <1>4, <1>5, <1>6, <1>7 DEF ReviewReturns

LEMMA FulfilmentStep ==
  ASSUME IInv, NEW t \in Threads, FulfilmentReturns(t)
  PROVE  IInv'
<1>1. th[t].pc # "idle"
  BY DEF FulfilmentReturns
<1>2. UNCHANGED << rec, tmp, nextSid, events, served, crashes, seen >>
  BY DEF FulfilmentReturns
<1>3. /\ "reviewing" \in OperationState /\ "awaiting_decision" \in OperationState
      /\ "collecting_evidence" \in OperationState
      /\ "none" \in QuietEvent /\ "review" \in Goal /\ "return" \in Goal
  BY Names
<1>4. CASE Become(t, Advance(th[t], th[t].r, "reviewing", "none", None, "review"))
  BY <1>1, <1>2, <1>3, <1>4, PlainOutcomeStep
<1>5. CASE \E s \in { "awaiting_decision", "collecting_evidence" } :
             Become(t, Advance(th[t], th[t].r, s, "none", None, "return"))
  <2>1. PICK s \in { "awaiting_decision", "collecting_evidence" } :
             Become(t, Advance(th[t], th[t].r, s, "none", None, "return"))
    BY <1>5
  <2>2. s \in OperationState
    BY <1>3
  <2> QED
    BY <1>1, <1>2, <1>3, <2>1, <2>2, PlainOutcomeStep
<1> QED
  BY <1>4, <1>5 DEF FulfilmentReturns

LEMMA ExecutionStep ==
  ASSUME IInv, NEW t \in Threads, ExecutionReturns(t)
  PROVE  IInv'
<1>1. th[t].pc # "idle"
  BY DEF ExecutionReturns
<1>2. "completed" \in OperationState /\ "cancelled_by_user" \in OperationState
      /\ "operation_completed" \in QuietEvent /\ "operation_failed" \in QuietEvent
      /\ "return" \in Goal
  BY Names
<1>3. CASE SuspendForApproval(t, "execution") \/ SuspendForToolResult(t, "execution")
  BY <1>1, <1>3, SuspendStep DEF ExecutionReturns
<1>4. CASE /\ Become(t, Advance(th[t], th[t].r, "completed", "operation_completed",
                                None, "return"))
           /\ UNCHANGED nextSid
  <2>1. UNCHANGED << rec, tmp, nextSid, events, served, crashes, seen >>
    BY <1>4 DEF ExecutionReturns
  <2> QED
    BY <1>1, <1>2, <1>4, <2>1, PlainOutcomeStep
<1>5. CASE /\ Become(t, Advance(th[t], th[t].r, "cancelled_by_user",
                                "operation_failed", None, "return"))
           /\ UNCHANGED nextSid
  <2>1. UNCHANGED << rec, tmp, nextSid, events, served, crashes, seen >>
    BY <1>5 DEF ExecutionReturns
  <2> QED
    BY <1>1, <1>2, <1>5, <2>1, PlainOutcomeStep
<1> QED
  BY <1>3, <1>4, <1>5 DEF ExecutionReturns

LEMMA CrashStep ==
  ASSUME IInv, Crash
  PROVE  IInv'
<1>1. Idle \in Thread
  BY IdleSafe DEF Safe
<1>2. th' \in [Threads -> Thread] /\ \A t \in Threads : th'[t] = Idle
  BY <1>1 DEF Crash
<1>3. CountersOK'
  BY ControllerAssumption DEF Crash, IInv, TypeOK, CountersOK, seen
<1>4. UNCHANGED << rec, tmp >>
  BY DEF Crash
<1>5. TypeOK'
  BY <1>2, <1>3, <1>4 DEF IInv, TypeOK, CountersOK
<1>6. \A t \in Threads : Safe(th'[t]) /\ th'[t].key = None
  BY <1>2, IdleSafe
<1> QED
  BY <1>4, <1>5, <1>6 DEF IInv

------------------------------------------------------------------------------
(* The invariant is inductive *)

LEMMA InitInv == ASSUME Init PROVE IInv
<1>1. Idle \in Thread
  BY IdleSafe DEF Safe
<1>2. th \in [Threads -> Thread] /\ \A t \in Threads : th[t] = Idle
  BY <1>1 DEF Init
<1>3. TypeOK
  BY <1>2, ControllerAssumption DEF Init, TypeOK
<1>4. \A t \in Threads : Safe(th[t]) /\ th[t].key = None
  BY <1>2, IdleSafe
<1> QED
  BY <1>3, <1>4 DEF Init, IInv

(* The suspension ids that events name are numbers. *)
LEMMA AskedNat == ASSUME IInv, NEW type PROVE Asked(type) \subseteq Nat
BY DEF IInv, TypeOK, Asked, Event

LEMMA RequestStep ==
  ASSUME IInv, NEW t \in Threads, Request(t)
  PROVE  IInv'
<1>1. CASE \E kind \in Kinds : Register(t, kind)
  BY <1>1, RegisterStep
<1>2. CASE \E withPlan \in BOOLEAN : Start(t, withPlan)
  BY <1>2, StartStep
<1>3. CASE Cancel(t)
  BY <1>3, CancelStep
<1>4. CASE Resume(t)
  BY <1>4, ResumeStep
<1>5. CASE \E sid \in Asked("tool_execution_requested"), c \in Claimants,
             call, digestOf \in Calls : ClaimToolExecution(t, c, sid, call, digestOf)
  BY <1>5, AskedNat, ClaimStep
<1>6. CASE \E sid \in Asked("tool_execution_requested"), calls \in SUBSET Calls :
             ToolResult(t, sid, calls)
  BY <1>6, AskedNat, ToolResultStep
<1>7. CASE \E sid \in Asked("tool_approval_requested") \cup { 0 },
             approved \in BOOLEAN : ApprovalDecision(t, approved, sid)
  BY <1>7, AskedNat, ApprovalDecisionStep
<1>8. CASE /\ rec # None
           /\ \E key \in RetryKeys, version \in 0 .. Len(rec.history) :
                RetryAflow(t, key, version)
  <2>1. PICK key \in RetryKeys, version \in 0 .. Len(rec.history) :
          RetryAflow(t, key, version)
    BY <1>8
  <2>2. rec.history \in Seq([from : OperationState, to : OperationState])
    BY <1>8 DEF IInv, Good, OperationRecord
  <2>3. version \in Nat
    BY <2>2
  <2> QED
    BY <2>1, <2>3, RetryStep
<1> QED
  BY <1>1, <1>2, <1>3, <1>4, <1>5, <1>6, <1>7, <1>8 DEF Request

LEMMA NextInv ==
  ASSUME IInv, [Next]_vars
  PROVE  IInv'
<1>1. CASE UNCHANGED vars
  BY <1>1 DEF vars, seen, IInv, TypeOK
<1>2. CASE Crash
  BY <1>2, CrashStep
<1>3. ASSUME NEW t \in Threads, HandlerStep(t)
      PROVE  IInv'
  BY <1>3, WriteStep, ReplaceStep, EmitStep, GrantApprovalStep, RecordRetryStep
     DEF HandlerStep
<1>4. ASSUME NEW t \in Threads, AdapterReturns(t)
      PROVE  IInv'
  BY <1>4, PlanningStep, ReviewStep, FulfilmentStep, ExecutionStep DEF AdapterReturns
<1> QED
  BY <1>1, <1>2, <1>3, <1>4, RequestStep DEF Next

(* In every reachable state the stored record, the temporary file and all  *)
(* the copies handlers carry have the shape controller.py gives them and   *)
(* are storable: it is the invariant the two theorems below rest on.       *)
THEOREM Invariance == Spec => []IInv
<1>1. Init => IInv
  BY InitInv
<1>2. IInv /\ [Next]_vars => IInv'
  BY NextInv
<1> QED
  BY <1>1, <1>2, PTL DEF Spec

(* Type correctness of the controller. *)
THEOREM TypeCorrect == Spec => []TypeOK
<1>1. IInv => TypeOK
  BY DEF IInv
<1> QED
  BY <1>1, Invariance, PTL

(* The stored history of an operation is always a chain of transitions the *)
(* table of states.py allows, from received to the stored state, however   *)
(* many handlers race, fail at a rename or die.                            *)
THEOREM HistoryIsPath == Spec => []StoredHistoryIsPath
<1>1. IInv => StoredHistoryIsPath
  BY DEF IInv, Good, StoredHistoryIsPath
<1> QED
  BY <1>1, Invariance, PTL

------------------------------------------------------------------------------
(* The claims that claim_tool_execution answers with yes. *)

(* The copies of the record that are about: the stored one, the one in the *)
(* temporary file and those of the handlers.                               *)
Held(r) ==
  \/ r # None /\ r \in { rec, tmp }
  \/ \E t \in Threads : th[t].pc # "idle" /\ r = th[t].r

Resolved(c, evs) == \E e \in evs : e.type = "tool_approval_resolved" /\ e.call = c

(* A copy's suspension has been named before, and awaits no call that      *)
(* needs an approval it has not got.                                       *)
CopyOK(r, next, evs) ==
  /\ r.sid < next
  /\ r.sid = 0 => r.pending = {}
  /\ \A c \in r.pending \cap ApprovalCalls : Resolved(c, evs)

(* What a handler carries: the claim it is about to grant is of a call its *)
(* copy awaits, and a grant follows the announcement of its approval.      *)
HandlerOK(x, evs) ==
  /\ x.nxt = "grant" => x.pc \in { "emit", "grant" }
  /\ x.nxt = "grant" /\ x.pc = "emit" =>
       x.ev.type = "tool_approval_resolved" /\ x.ev.call = x.r.appCall
  /\ x.nxt # "grant" /\ x.pc = "emit" => x.ev # None
  /\ x.pc = "grant" /\ x.r.appCall # None => Resolved(x.r.appCall, evs)
  /\ x.pc # "idle" /\ x.ev # None /\ x.ev.type = "tool_execution_claimed" =>
       x.r.claim.sid = x.r.sid /\ x.r.claim.call \in x.r.pending

(* A grant is for ever: whatever copy still names its suspension awaits    *)
(* its call.                                                               *)
GrantOK(g) ==
  /\ g.sid \in 1 .. nextSid - 1
  /\ \A r \in OperationRecord : Held(r) /\ r.sid = g.sid => g.call \in r.pending
  /\ g.call \in ApprovalCalls => Resolved(g.call, events)

(* GrantIsPending is about the stored record only.  It is not inductive: a *)
(* save may bring back any copy, so two copies that name one suspension    *)
(* must await the same calls.                                              *)
GInv ==
  /\ IInv
  /\ \A r \in OperationRecord : Held(r) => CopyOK(r, nextSid, events)
  /\ \A r, q \in OperationRecord : Held(r) /\ Held(q) /\ r.sid = q.sid => r.pending = q.pending
  /\ \A t \in Threads : HandlerOK(th[t], events)
  /\ \A g \in granted : GrantOK(g)

------------------------------------------------------------------------------
(* One step of one thread. *)

(* Where the suspension of a handler's next copy comes from: a copy that   *)
(* is about, a fresh id, or none yet.                                      *)
Origin(r) ==
  \/ \E q \in OperationRecord : Held(q) /\ q.sid = r.sid /\ q.pending = r.pending
  \/ r.sid = nextSid /\ nextSid < nextSid'
  \/ r.sid = 0 /\ r.pending = {}

(* A step of thread t to y that publishes nothing but copies that are      *)
(* about, and grants nothing but claims of a call that a copy awaits.      *)
LEMMA ThreadStep ==
  ASSUME GInv, IInv', NEW t \in Threads, NEW y, Become(t, y),
         y.pc # "idle" => y.r \in OperationRecord /\ Origin(y.r) /\ CopyOK(y.r, nextSid', events'),
         HandlerOK(y, events'),
         \A r \in OperationRecord : r # None /\ r \in { rec', tmp' } => Held(r),
         nextSid <= nextSid', events \subseteq events',
         \A g \in granted' : g \in granted \/
           \E q \in OperationRecord : /\ Held(q) /\ q.sid = g.sid /\ g.call \in q.pending
                                      /\ CopyOK(q, nextSid, events)
  PROVE  GInv'
<1> USE DEF GInv
<1>1. /\ nextSid \in Nat /\ nextSid' \in Nat
      /\ \A r \in OperationRecord : r.sid \in Nat
  BY DEF IInv, TypeOK, OperationRecord
<1>2. \A u \in Threads : th'[u] = IF u = t THEN y ELSE th[u]
  BY DEF Become, IInv, TypeOK
<1>3. \A r \in OperationRecord : Held(r)' => Held(r) \/ (y.pc # "idle" /\ r = y.r)
  BY <1>2 DEF Held
<1>4. \A c : Resolved(c, events) => Resolved(c, events')
  BY DEF Resolved
<1>5. \A r \in OperationRecord : Held(r)' => CopyOK(r, nextSid', events')
  <2> SUFFICES ASSUME NEW r \in OperationRecord, Held(r) PROVE CopyOK(r, nextSid', events')
    BY <1>3
  <2>1. CopyOK(r, nextSid, events)
    OBVIOUS
  <2> QED
    BY <1>1, <1>4, <2>1 DEF CopyOK
<1>6. \A r, q \in OperationRecord :
        Held(r)' /\ Held(q)' /\ r.sid = q.sid => r.pending = q.pending
  <2>1. ASSUME NEW q \in OperationRecord, Held(q), y.pc # "idle", q.sid = y.r.sid
        PROVE  q.pending = y.r.pending
    <3>1. CopyOK(q, nextSid, events)
      BY <2>1
    <3>2. CASE \E p \in OperationRecord : Held(p) /\ p.sid = y.r.sid /\ p.pending = y.r.pending
      BY <2>1, <3>2
    <3>3. CASE y.r.sid = nextSid
      BY <1>1, <2>1, <3>1, <3>3 DEF CopyOK
    <3>4. CASE y.r.sid = 0 /\ y.r.pending = {}
      BY <2>1, <3>1, <3>4 DEF CopyOK
    <3> QED
      BY <2>1, <3>2, <3>3, <3>4 DEF Origin
  <2> QED
    BY <1>3, <2>1
<1>7. \A u \in Threads : HandlerOK(th'[u], events')
  <2> TAKE u \in Threads
  <2>1. CASE u = t
    BY <1>2, <2>1
  <2>2. CASE u # t
    <3>1. th'[u] = th[u] /\ HandlerOK(th[u], events)
      BY <1>2, <2>2
    <3> QED
      BY <1>4, <3>1 DEF HandlerOK
  <2> QED
    BY <2>1, <2>2
<1>8. \A g \in granted' : GrantOK(g)'
  <2> TAKE g \in granted'
  <2>1. /\ g.sid \in 1 .. nextSid - 1
        /\ \A r \in OperationRecord : Held(r) /\ r.sid = g.sid => g.call \in r.pending
        /\ g.call \in ApprovalCalls => Resolved(g.call, events)
    <3>1. CASE g \in granted
      BY <3>1 DEF GrantOK
    <3>2. CASE \E q \in OperationRecord : /\ Held(q) /\ q.sid = g.sid /\ g.call \in q.pending
                                          /\ CopyOK(q, nextSid, events)
      <4>1. PICK q \in OperationRecord : /\ Held(q) /\ q.sid = g.sid /\ g.call \in q.pending
                                         /\ CopyOK(q, nextSid, events)
        BY <3>2
      <4>2. q.sid \in Nat /\ q.sid # 0 /\ q.sid < nextSid
        BY <1>1, <4>1 DEF CopyOK
      <4>3. g.call \in ApprovalCalls => Resolved(g.call, events)
        BY <4>1 DEF CopyOK
      <4>4. \A r \in OperationRecord : Held(r) /\ r.sid = g.sid => g.call \in r.pending
        BY <4>1
      <4> QED
        BY <1>1, <4>1, <4>2, <4>3, <4>4
    <3> QED
      BY <3>1, <3>2
  <2>2. \A r \in OperationRecord : Held(r)' /\ r.sid = g.sid => g.call \in r.pending
    <3> SUFFICES ASSUME y.pc # "idle", y.r \in OperationRecord, y.r.sid = g.sid
                 PROVE  g.call \in y.r.pending
      BY <1>3, <2>1
    <3>1. Origin(y.r)
      OBVIOUS
    <3> QED
      BY <1>1, <2>1, <3>1 DEF Origin
  <2>3. g.sid \in 1 .. nextSid' - 1
    BY <1>1, <2>1
  <2> QED
    BY <1>4, <2>1, <2>2, <2>3 DEF GrantOK
<1> QED
  BY <1>5, <1>6, <1>7, <1>8

(* A step of thread t that leaves the files, the events and the grants     *)
(* alone.                                                                  *)
LEMMA QuietStep ==
  ASSUME GInv, IInv', NEW t \in Threads, NEW y, Become(t, y),
         y.pc # "idle" => y.r \in OperationRecord /\ Origin(y.r) /\ CopyOK(y.r, nextSid', events),
         HandlerOK(y, events), nextSid <= nextSid',
         UNCHANGED << rec, tmp, events, granted >>
  PROVE  GInv'
<1>1. \A r \in OperationRecord : r # None /\ r \in { rec', tmp' } => Held(r)
  BY DEF Held
<1> QED
  BY <1>1, ThreadStep

------------------------------------------------------------------------------
(* What a transition leaves of a copy. *)

Same(r, q) ==
  r.sid = q.sid /\ r.pending = q.pending /\ r.claim = q.claim /\ r.appCall = q.appCall

(* A handler that carries the copy r on, and grants nothing.               *)
Carries(y, r) ==
  /\ y.pc # "idle" => y.r \in OperationRecord /\ Same(y.r, r)
  /\ y.pc \notin { "grant", "emit" } /\ y.nxt # "grant"
  /\ y.ev # None => y.ev.type # "tool_execution_claimed"

LEMMA IdleCarries == \A r : Carries(Idle, r)
BY DEF Carries, Idle

LEMMA AdvanceCarries ==
  ASSUME NEW x, x \in Thread, NEW r, Good(r), NEW s \in OperationState, NEW type \in QuietEvent,
         NEW call, NEW nxt \in Goal, nxt # "grant"
  PROVE  Carries(Advance(x, r, s, type, call, nxt), r)
<1>1. CASE ~CanMove(r, s)
  BY <1>1, IdleCarries DEF Advance
<1>2. CASE CanMove(r, s)
  <2> DEFINE m == Move(r, s)
             ev == IF type = "none" THEN None ELSE Ev(type, m, call)
             y == Persist(x, m, ev, nxt)
  <2>1. m \in OperationRecord
    BY <1>2, MoveGood DEF Good
  <2>2. Same(m, r)
    BY DEF Move, Same, Good, OperationRecord
  <2>3. ev # None => ev.type # "tool_execution_claimed"
    BY DEF Ev, QuietEvent
  <2>4. Advance(x, r, s, type, call, nxt) = y
    BY <1>2 DEF Advance
  <2> HIDE DEF m, ev
  <2>5. y.pc = "write" /\ y.r = m /\ y.ev = ev /\ y.nxt = nxt
    BY DEF Persist, Thread
  <2> HIDE DEF y
  <2> QED
    BY <2>1, <2>2, <2>3, <2>4, <2>5 DEF Carries
<1> QED
  BY <1>1, <1>2

LEMMA GoOnCarries ==
  ASSUME NEW x, Safe(x), x.pc # "idle", x.nxt # "grant"
  PROVE  Carries(GoOn(x), x.r)
<1>1. x \in Thread /\ Good(x.r) /\ x.nxt \in Goal /\ x.r \in OperationRecord
  BY DEF Safe, Thread, Goal, Good
<1>2. Same(x.r, x.r)
  BY DEF Same
<1>3. ASSUME NEW pc \in { "rekey" } \cup AdapterPC
      PROVE  Carries([x EXCEPT !.pc = pc, !.ev = None], x.r)
  <2> DEFINE y == [x EXCEPT !.pc = pc, !.ev = None]
  <2>1. y.pc = pc /\ y.r = x.r /\ y.ev = None /\ y.nxt = x.nxt
    BY <1>1 DEF Thread
  <2>2. pc \notin { "grant", "emit" }
    BY DEF AdapterPC
  <2> HIDE DEF y
  <2>3. Carries(y, x.r)
    BY <1>1, <1>2, <2>1, <2>2 DEF Carries
  <2> QED
    BY <2>3 DEF y
<1>4. Carries(Finish(x), x.r)
  BY <1>3, IdleCarries DEF Finish
<1>5. CASE x.nxt = "return"
  BY <1>4, <1>5 DEF GoOn
<1>6. CASE x.nxt = "auto_review"
  <2> DEFINE n == IF x.ctx THEN "review" ELSE "return"
  <2>1. GoOn(x) = Advance(x, x.r, "reviewing", "none", None, n)
    BY <1>6 DEF GoOn
  <2>2. n \in Goal /\ n # "grant"
    BY Names
  <2> HIDE DEF n
  <2> QED
    BY <1>1, <2>1, <2>2, Names, AdvanceCarries
<1>7. CASE x.nxt = "auto_execute"
  <2>1. CASE "execution" \in Adapters
    <3>1. GoOn(x) = Advance(x, x.r, "sandbox_running", "none", None, "execute")
      BY <1>7, <2>1 DEF GoOn
    <3> QED
      BY <1>1, <3>1, Names, AdvanceCarries
  <2>2. CASE "execution" \notin Adapters
    BY <1>4, <1>7, <2>2 DEF GoOn
  <2> QED
    BY <2>1, <2>2
<1>8. CASE x.nxt \in AdapterPC
  <2>1. GoOn(x) = IF AdapterOf(x.nxt) \in Adapters
                  THEN [x EXCEPT !.pc = x.nxt, !.ev = None] ELSE Finish(x)
    BY <1>8 DEF GoOn, AdapterPC
  <2> QED
    BY <1>3, <1>4, <1>8, <2>1
<1> QED
  BY <1>1, <1>5, <1>6, <1>7, <1>8 DEF Goal

(* Who carries a copy on, grants nothing.                                  *)
LEMMA CarriesOK ==
  ASSUME NEW y, NEW r, Carries(y, r), NEW evs
  PROVE  HandlerOK(y, evs)
BY DEF Carries, HandlerOK

(* A copy that differs from one that is about in nothing that matters here.*)
LEMMA HeldFacts ==
  ASSUME GInv, NEW q \in OperationRecord, Held(q), NEW r, r.sid = q.sid, r.pending = q.pending
  PROVE  Origin(r) /\ CopyOK(r, nextSid, events)
BY DEF GInv, Origin, CopyOK

(* What a handler and a request start from.                                *)
LEMMA StoredFacts ==
  ASSUME GInv, rec # None
  PROVE  Good(rec) /\ rec \in OperationRecord /\ Held(rec)
BY DEF GInv, IInv, Good, Held

LEMMA OwnFacts ==
  ASSUME GInv, NEW t \in Threads, th[t].pc # "idle"
  PROVE  /\ th[t] \in Thread /\ Safe(th[t]) /\ Good(th[t].r) /\ th[t].r \in OperationRecord
         /\ Held(th[t].r) /\ HandlerOK(th[t], events)
BY HandlerFacts DEF GInv, Good, Held

(* A transition of a copy that is about, or of one that differs from it in *)
(* nothing that matters here.                                              *)
LEMMA MoveStep ==
  ASSUME GInv, IInv', NEW t \in Threads, NEW x, x \in Thread, NEW q \in OperationRecord, Held(q),
         NEW r, Good(r), r.sid = q.sid, r.pending = q.pending,
         NEW s \in OperationState, NEW type \in QuietEvent, NEW call,
         NEW nxt \in Goal, nxt # "grant",
         Become(t, Advance(x, r, s, type, call, nxt)),
         nextSid <= nextSid', UNCHANGED << rec, tmp, events, granted >>
  PROVE  GInv'
<1> DEFINE y == Advance(x, r, s, type, call, nxt)
<1>1. Carries(y, r)
  BY AdvanceCarries
<1>2. Origin(r) /\ CopyOK(r, nextSid, events)
  BY HeldFacts
<1>3. nextSid \in Nat /\ nextSid' \in Nat /\ r.sid \in Nat
  BY DEF GInv, IInv, TypeOK, Good, OperationRecord
<1> HIDE DEF y
<1>4. y.pc # "idle" => y.r \in OperationRecord /\ Origin(y.r) /\ CopyOK(y.r, nextSid', events)
  BY <1>1, <1>2, <1>3 DEF Carries, Same, Origin, CopyOK
<1>5. HandlerOK(y, events)
  BY <1>1, CarriesOK
<1>6. Become(t, y)
  BY DEF y
<1> QED
  BY <1>4, <1>5, <1>6, QuietStep

(* A transition to a fresh suspension.                                     *)
LEMMA FreshStep ==
  ASSUME GInv, IInv', NEW t \in Threads, NEW x, x \in Thread,
         NEW r, Good(r), r.sid = nextSid, \A c \in r.pending \cap ApprovalCalls : Resolved(c, events),
         NEW s \in OperationState, NEW type \in QuietEvent, NEW call,
         NEW nxt \in Goal, nxt # "grant",
         Become(t, Advance(x, r, s, type, call, nxt)),
         nextSid' = nextSid + 1 \/ ~CanMove(r, s), nextSid <= nextSid',
         UNCHANGED << rec, tmp, events, granted >>
  PROVE  GInv'
<1> DEFINE y == Advance(x, r, s, type, call, nxt)
<1>1. Carries(y, r)
  BY AdvanceCarries
<1>2. nextSid \in Nat \ { 0 }
  BY DEF GInv, IInv, TypeOK
<1>3. CASE ~CanMove(r, s)
  <2>1. y.pc = "idle"
    BY <1>3 DEF Advance, Idle
  <2> HIDE DEF y
  <2>2. HandlerOK(y, events)
    BY <1>1, CarriesOK
  <2>3. Become(t, y)
    BY DEF y
  <2> QED
    BY <2>1, <2>2, <2>3, QuietStep
<1>4. CASE nextSid' = nextSid + 1
  <2> HIDE DEF y
  <2>1. Origin(r) /\ CopyOK(r, nextSid', events)
    BY <1>2, <1>4 DEF Origin, CopyOK
  <2>2. y.pc # "idle" => y.r \in OperationRecord /\ Origin(y.r) /\ CopyOK(y.r, nextSid', events)
    BY <1>1, <2>1 DEF Carries, Same, Origin, CopyOK
  <2>3. HandlerOK(y, events)
    BY <1>1, CarriesOK
  <2>4. Become(t, y)
    BY DEF y
  <2> QED
    BY <2>2, <2>3, <2>4, QuietStep
<1> QED
  BY <1>3, <1>4

------------------------------------------------------------------------------
(* The actions *)

LEMMA RegisterGrants ==
  ASSUME GInv, IInv', NEW t \in Threads, NEW kind \in Kinds, Register(t, kind)
  PROVE  GInv'
<1> DEFINE r == NewRecord(kind)
           ev == Ev("operation_created", r, None)
           y == Persist(Idle, r, ev, "return")
<1>1. r \in OperationRecord
  BY ControllerAssumption DEF NewRecord, OperationRecord, OperationState
<1>2. r.sid = 0 /\ r.pending = {}
  BY DEF NewRecord
<1>3. ev.type = "operation_created"
  BY DEF Ev
<1>4. Become(t, y) /\ UNCHANGED << rec, tmp, nextSid, events, granted >>
  BY DEF Register, seen
<1> HIDE DEF r, ev
<1>5. y.pc = "write" /\ y.r = r /\ y.ev = ev /\ y.nxt = "return"
  BY DEF Persist, Idle
<1> HIDE DEF y
<1>6. HandlerOK(y, events)
  BY <1>3, <1>5 DEF HandlerOK
<1>7. nextSid \in Nat \ { 0 }
  BY DEF GInv, IInv, TypeOK
<1>8. Origin(y.r) /\ CopyOK(y.r, nextSid', events)
  BY <1>2, <1>4, <1>5, <1>7 DEF Origin, CopyOK
<1> QED
  BY <1>1, <1>4, <1>5, <1>6, <1>7, <1>8, QuietStep

(* The requests that attempt a transition of the stored record.            *)
LEMMA RequestGrants ==
  ASSUME GInv, IInv', NEW t \in Threads,
         \/ \E withPlan \in BOOLEAN : Start(t, withPlan)
         \/ Cancel(t) \/ Resume(t)
         \/ \E named, calls : ToolResult(t, named, calls)
         \/ \E key \in RetryKeys : \E version : RetryAflow(t, key, version)
  PROVE  GInv'
<1>1. PICK x \in Thread, s \in OperationState, type \in QuietEvent, nxt \in Goal,
           r \in { rec, [rec EXCEPT !.plan = "plan"],
                   [rec EXCEPT !.consumed = @ \/ rec.claim # None] } :
        /\ Become(t, Advance(x, r, s, type, None, nxt))
        /\ nxt # "grant" /\ rec # None
  <2>1. CASE \E withPlan \in BOOLEAN : Start(t, withPlan)
    <3>1. rec # None /\ Idle \in Thread
      BY <2>1, IdleSafe DEF Start, Load, Safe
    <3>2. \/ Become(t, Advance(Idle, [rec EXCEPT !.plan = "plan"], "reviewing", "none", None,
                              "review"))
          \/ Become(t, Advance(Idle, rec, "planning", "state_transition", None, "plan"))
          \/ Become(t, Advance(Idle, rec, "reviewing", "none", None, "review"))
          \/ Become(t, Advance(Idle, rec, "reviewing", "none", None, "return"))
      BY <2>1 DEF Start
    <3> QED
      BY <3>1, <3>2, Names
  <2>2. CASE Cancel(t)
    <3>1. /\ rec # None /\ Idle \in Thread
          /\ Become(t, Advance(Idle, rec, "cancelled_by_user", "none", None, "return"))
      BY <2>2, IdleSafe DEF Cancel, Load, Safe
    <3> QED
      BY <3>1, Names
  <2>3. \A target : AfterResume(target) # "grant"
    BY DEF AfterResume
  <2>4. CASE Resume(t)
    <3> DEFINE x == [Idle EXCEPT !.ctx = FALSE]
               target == ResumeTarget(rec)
    <3>1. x \in Thread
      BY IdleSafe DEF Safe, Thread, Idle
    <3>2. /\ rec # None
          /\ Become(t, Advance(x, rec, target, "none", None, AfterResume(target)))
      BY <2>4 DEF Resume, Load
    <3>3. target \in OperationState /\ AfterResume(target) \in Goal
      BY ResumeNames
    <3> HIDE DEF x, target
    <3> QED
      BY <2>3, <3>1, <3>2, <3>3, Names
  <2>5. CASE \E named, calls : ToolResult(t, named, calls)
    <3> DEFINE r == [rec EXCEPT !.consumed = @ \/ rec.claim # None]
               target == ResumeTarget(rec)
    <3>1. /\ rec # None /\ Idle \in Thread
          /\ Become(t, Advance(Idle, r, target, "none", None, AfterResume(target)))
      BY <2>5, IdleSafe DEF ToolResult, Load, Safe
    <3>2. target \in OperationState /\ AfterResume(target) \in Goal
      BY ResumeNames
    <3> HIDE DEF target
    <3> QED
      BY <2>3, <3>1, <3>2, Names
  <2>6. CASE \E key \in RetryKeys : \E version : RetryAflow(t, key, version)
    <3>1. PICK key \in RetryKeys :
            /\ rec # None
            /\ Become(t, Advance([Idle EXCEPT !.key = key], rec, "reviewing", "none", None,
                                 "review"))
      BY <2>6 DEF RetryAflow, Load
    <3>2. [Idle EXCEPT !.key = key] \in Thread
      BY IdleSafe DEF Safe, Thread, Idle
    <3> QED
      BY <3>1, <3>2, Names
  <2> QED
    BY <2>1, <2>2, <2>4, <2>5, <2>6
<1>2. Good(rec) /\ rec \in OperationRecord /\ Held(rec)
  BY <1>1, StoredFacts
<1>3. Good(r) /\ r.sid = rec.sid /\ r.pending = rec.pending
  BY <1>1, <1>2 DEF Good, OperationRecord
<1>4. UNCHANGED << rec, tmp, events, granted, nextSid >> /\ nextSid \in Nat
  BY DEF Start, Cancel, Resume, ToolResult, RetryAflow, seen, GInv, IInv, TypeOK
<1> QED
  BY <1>1, <1>2, <1>3, <1>4, MoveStep

(* A claim is decided on the stored record: it is for the suspension that  *)
(* record is in, and of a call that record awaits.                         *)
LEMMA ClaimGrants ==
  ASSUME GInv, IInv', NEW t \in Threads, NEW claimant, NEW sid, NEW call, NEW digestOf,
         ClaimToolExecution(t, claimant, sid, call, digestOf)
  PROVE  GInv'
<1> DEFINE claim == [by |-> claimant, call |-> call, sid |-> sid]
           r == [rec EXCEPT !.claim = claim]
           ev == Ev("tool_execution_claimed", r, call)
           y == Persist(Idle, r, ev, "return")
<1>1. /\ rec # None /\ sid = rec.sid /\ call \in rec.pending
      /\ UNCHANGED << rec, tmp, events, nextSid >>
      /\ \/ Become(t, y) /\ UNCHANGED granted
         \/ granted' = granted \cup { claim } /\ UNCHANGED th
  BY DEF ClaimToolExecution, ClaimMatches, Load
<1>2. Good(rec) /\ rec \in OperationRecord /\ Held(rec) /\ CopyOK(rec, nextSid, events)
  BY <1>1, StoredFacts DEF GInv
<1>3. claim.sid = rec.sid /\ claim.call \in rec.pending
  BY <1>1
<1> HIDE DEF claim
<1>4. CASE Become(t, y) /\ UNCHANGED granted
  <2>1. r.sid = rec.sid /\ r.pending = rec.pending /\ r.claim = claim
    BY <1>2 DEF OperationRecord
  <2>2. y.pc = "write" /\ y.r = r /\ y.nxt = "return"
    BY DEF Persist, Idle
  <2> HIDE DEF r
  <2>3. HandlerOK(y, events)
    BY <1>3, <2>1, <2>2 DEF HandlerOK
  <2> HIDE DEF y
  <2>4. Origin(r) /\ CopyOK(r, nextSid', events)
    BY <1>1, <1>2, <2>1, HeldFacts
  <2>5. y.r \in OperationRecord
    <3>1. th'[t] = y
      BY <1>4 DEF Become, GInv, IInv, TypeOK
    <3>2. Safe(th'[t])
      BY DEF IInv
    <3> QED
      BY <2>2, <3>1, <3>2 DEF Safe, Good
  <2>6. nextSid \in Nat
    BY DEF GInv, IInv, TypeOK
  <2> QED
    BY <1>1, <1>4, <2>2, <2>3, <2>4, <2>5, <2>6, QuietStep
<1>5. CASE granted' = granted \cup { claim } /\ UNCHANGED th
  <2> DEFINE z == th[t]
  <2>1. Become(t, z) /\ HandlerOK(z, events)
    BY <1>5 DEF Become, GInv, IInv, TypeOK
  <2>2. z.pc # "idle" => z.r \in OperationRecord /\ Held(z.r)
    BY OwnFacts
  <2>3. z.pc # "idle" => z.r \in OperationRecord /\ Origin(z.r) /\ CopyOK(z.r, nextSid', events)
    BY <1>1, <2>2, HeldFacts
  <2>4. \A q \in OperationRecord : q # None /\ q \in { rec', tmp' } => Held(q)
    BY <1>1 DEF Held
  <2>5. nextSid \in Nat
    BY DEF GInv, IInv, TypeOK
  <2> HIDE DEF z
  <2> QED
    BY <1>1, <1>2, <1>3, <1>5, <2>1, <2>3, <2>4, <2>5, ThreadStep
<1> QED
  BY <1>1, <1>4, <1>5

(* An approval is announced first, and granted then.                       *)
LEMMA ApprovalDecisionGrants ==
  ASSUME GInv, IInv', NEW t \in Threads, NEW approved, NEW sid, ApprovalDecision(t, approved, sid)
  PROVE  GInv'
<1>1. rec # None /\ UNCHANGED << rec, tmp, nextSid, events, granted >>
  BY DEF ApprovalDecision, Load, seen
<1>2. Good(rec) /\ rec \in OperationRecord /\ Held(rec)
  BY <1>1, StoredFacts
<1>3. nextSid \in Nat
  BY DEF GInv, IInv, TypeOK
<1>4. CASE Become(t, Approved(rec))
  <2> DEFINE r == [rec EXCEPT !.decided = "approved", !.appSid = rec.sid]
             ev == Ev("tool_approval_resolved", rec, rec.appCall)
             y == Approved(rec)
  <2>1. r.sid = rec.sid /\ r.pending = rec.pending /\ r.appCall = rec.appCall
    BY <1>2 DEF OperationRecord
  <2>2. ev.type = "tool_approval_resolved" /\ ev.call = rec.appCall
    BY DEF Ev
  <2>3. /\ y.pc = "emit" /\ y.r = r /\ y.ev = ev /\ y.nxt = "grant"
    BY DEF Approved, Idle
  <2>4. y.r \in OperationRecord
    BY <1>2, <2>3 DEF OperationRecord
  <2> HIDE DEF r, ev, y
  <2>5. HandlerOK(y, events)
    BY <2>1, <2>2, <2>3 DEF HandlerOK
  <2>6. Origin(r) /\ CopyOK(r, nextSid', events)
    BY <1>1, <1>2, <2>1, HeldFacts
  <2>7. Become(t, y)
    BY <1>4 DEF y
  <2> QED
    BY <1>1, <1>3, <2>3, <2>4, <2>5, <2>6, <2>7, QuietStep
<1>5. CASE Become(t, Advance(Idle, [rec EXCEPT !.decided = "denied"], "cancelled_by_user",
                             "tool_approval_denied", rec.appCall, "return"))
  <2> DEFINE r == [rec EXCEPT !.decided = "denied"]
  <2>1. Good(r) /\ r.sid = rec.sid /\ r.pending = rec.pending
    BY <1>2 DEF Good, OperationRecord
  <2>2. Idle \in Thread
    BY IdleSafe DEF Safe
  <2> HIDE DEF r
  <2>3. Become(t, Advance(Idle, r, "cancelled_by_user", "tool_approval_denied", rec.appCall,
                          "return"))
    BY <1>5 DEF r
  <2> QED
    BY <1>1, <1>2, <1>3, <2>1, <2>2, <2>3, Names, MoveStep
<1> QED
  BY <1>4, <1>5 DEF ApprovalDecision

LEMMA WriteGrants ==
  ASSUME GInv, IInv', NEW t \in Threads, Write(t)
  PROVE  GInv'
<1> DEFINE y == [th[t] EXCEPT !.pc = "replace"]
<1>1. /\ th[t].pc = "write" /\ tmp' = th[t].r /\ Become(t, y)
      /\ UNCHANGED << rec, nextSid, events, granted >>
  BY DEF Write, seen
<1>2. /\ th[t] \in Thread /\ th[t].r \in OperationRecord /\ Held(th[t].r)
      /\ HandlerOK(th[t], events)
  BY <1>1, OwnFacts
<1>3. y.pc = "replace" /\ y.r = th[t].r /\ y.ev = th[t].ev /\ y.nxt = th[t].nxt
  BY <1>2 DEF Thread
<1> HIDE DEF y
<1>4. HandlerOK(y, events)
  BY <1>1, <1>2, <1>3 DEF HandlerOK
<1>5. Origin(y.r) /\ CopyOK(y.r, nextSid', events')
  BY <1>1, <1>2, <1>3, HeldFacts
<1>6. \A r \in OperationRecord : r # None /\ r \in { rec', tmp' } => Held(r)
  BY <1>1, <1>2 DEF Held
<1>7. nextSid \in Nat
  BY DEF GInv, IInv, TypeOK
<1> QED
  BY <1>1, <1>2, <1>3, <1>4, <1>5, <1>6, <1>7, ThreadStep

(* What a handler goes on to after a save or an event.                     *)
LEMMA GoOnGrants ==
  ASSUME GInv, NEW t \in Threads, th[t].pc \in { "replace", "emit" }, NEW evs,
         events \subseteq evs, th[t].pc = "emit" => th[t].ev \in evs,
         NEW y, y = GoOn(th[t])
  PROVE  /\ y.pc # "idle" => /\ y.r \in OperationRecord
                             /\ y.r.sid = th[t].r.sid /\ y.r.pending = th[t].r.pending
         /\ HandlerOK(y, evs)
<1> DEFINE x == th[t]
<1>1. x \in Thread /\ Safe(x) /\ x.r \in OperationRecord /\ HandlerOK(x, events)
  BY OwnFacts
<1>2. CASE x.nxt # "grant"
  <2>1. Carries(y, x.r)
    BY <1>1, <1>2, GoOnCarries
  <2>2. HandlerOK(y, evs)
    BY <2>1, CarriesOK
  <2> QED
    BY <2>1, <2>2 DEF Carries, Same
<1>3. CASE x.nxt = "grant"
  <2>1. y = [x EXCEPT !.pc = "grant", !.ev = None]
    BY <1>3 DEF GoOn
  <2>2. y.pc = "grant" /\ y.r = x.r /\ y.ev = None /\ y.nxt = "grant"
    BY <1>1, <1>3, <2>1 DEF Thread
  <2>3. Resolved(x.r.appCall, evs)
    BY <1>1, <1>3 DEF HandlerOK, Resolved
  <2>4. HandlerOK(y, evs)
    BY <2>2, <2>3 DEF HandlerOK
  <2> QED
    BY <1>1, <2>2, <2>4
<1> QED
  BY <1>2, <1>3

(* Whatever copy the temporary file holds becomes the stored record.       *)
LEMMA ReplaceGrants ==
  ASSUME GInv, IInv', NEW t \in Threads, Replace(t)
  PROVE  GInv'
<1>1. /\ th[t].pc = "replace" /\ tmp' = None /\ rec' = (IF tmp = None THEN rec ELSE tmp)
      /\ UNCHANGED << nextSid, events, granted >>
  BY DEF Replace, seen
<1>2. /\ th[t] \in Thread /\ th[t].r \in OperationRecord /\ Held(th[t].r)
      /\ HandlerOK(th[t], events)
  BY <1>1, OwnFacts
<1>3. PICK y : /\ Become(t, y)
               /\ \/ y = Idle
                  \/ y = [th[t] EXCEPT !.pc = "emit"] /\ th[t].ev # None
                  \/ y = GoOn(th[t])
  BY DEF Replace
<1>4. \A r \in OperationRecord : r # None /\ r \in { rec', tmp' } => Held(r)
  BY <1>1 DEF Held
<1>5. nextSid \in Nat
  BY DEF GInv, IInv, TypeOK
<1>6. /\ y.pc # "idle" => /\ y.r \in OperationRecord
                          /\ y.r.sid = th[t].r.sid /\ y.r.pending = th[t].r.pending
      /\ HandlerOK(y, events)
  <2>1. CASE y = Idle
    BY <2>1, IdleCarries, CarriesOK DEF Idle
  <2>2. CASE y = [th[t] EXCEPT !.pc = "emit"] /\ th[t].ev # None
    <3>1. y.pc = "emit" /\ y.r = th[t].r /\ y.ev = th[t].ev /\ y.nxt = th[t].nxt
      BY <1>2, <2>2 DEF Thread
    <3>2. th[t].nxt # "grant"
      BY <1>1, <1>2 DEF HandlerOK
    <3> QED
      BY <1>1, <1>2, <2>2, <3>1, <3>2 DEF HandlerOK
  <2>3. CASE y = GoOn(th[t])
    BY <1>1, <2>3, GoOnGrants
  <2> QED
    BY <1>3, <2>1, <2>2, <2>3
<1>7. y.pc # "idle" => Origin(y.r) /\ CopyOK(y.r, nextSid', events')
  BY <1>1, <1>2, <1>6, HeldFacts
<1> QED
  BY <1>1, <1>3, <1>4, <1>5, <1>6, <1>7, ThreadStep

(* The reply to a claim follows its event.                                 *)
LEMMA EmitGrants ==
  ASSUME GInv, IInv', NEW t \in Threads, Emit(t)
  PROVE  GInv'
<1> DEFINE x == th[t]
           y == GoOn(x)
<1>1. /\ x.pc = "emit" /\ events' = events \cup { x.ev } /\ Become(t, y)
      /\ granted' = IF x.ev.type = "tool_execution_claimed"
                    THEN granted \cup { x.r.claim } ELSE granted
      /\ UNCHANGED << rec, tmp, nextSid >>
  BY DEF Emit
<1>2. /\ x \in Thread /\ x.r \in OperationRecord /\ Held(x.r) /\ HandlerOK(x, events)
      /\ CopyOK(x.r, nextSid, events) /\ Safe(x)
  BY <1>1, OwnFacts DEF GInv
<1>3. /\ y.pc # "idle" => y.r \in OperationRecord /\ y.r.sid = x.r.sid /\ y.r.pending = x.r.pending
      /\ HandlerOK(y, events')
  BY <1>1, GoOnGrants
<1> HIDE DEF y
<1>4. y.pc # "idle" => Origin(y.r) /\ CopyOK(y.r, nextSid, events)
  BY <1>2, <1>3, HeldFacts
<1>5. \A c : Resolved(c, events) => Resolved(c, events')
  BY <1>1 DEF Resolved
<1>6. y.pc # "idle" => Origin(y.r) /\ CopyOK(y.r, nextSid', events')
  BY <1>1, <1>4, <1>5 DEF CopyOK
<1>7. x.ev.type = "tool_execution_claimed" =>
        x.r.claim.sid = x.r.sid /\ x.r.claim.call \in x.r.pending
  BY <1>1, <1>2 DEF HandlerOK
<1>8. \A g \in granted' : g \in granted \/
        \E q \in OperationRecord : /\ Held(q) /\ q.sid = g.sid /\ g.call \in q.pending
                                   /\ CopyOK(q, nextSid, events)
  BY <1>1, <1>2, <1>7
<1>9. \A r \in OperationRecord : r # None /\ r \in { rec', tmp' } => Held(r)
  BY <1>1 DEF Held
<1>10. nextSid \in Nat
  BY DEF GInv, IInv, TypeOK
<1> HIDE DEF x
<1> QED
  BY <1>1, <1>3, <1>6, <1>8, <1>9, <1>10, ThreadStep

(* The second stage of an approval names a fresh suspension that awaits    *)
(* the call that was approved.                                             *)
LEMMA GrantApprovalGrants ==
  ASSUME GInv, IInv', NEW t \in Threads, GrantApproval(t)
  PROVE  GInv'
<1> DEFINE x == th[t]
           r == [x.r EXCEPT !.sid = nextSid, !.pending = { x.r.appCall } \ { None }]
<1>1. /\ x \in Thread /\ Good(x.r) /\ x.pc = "grant" /\ HandlerOK(x, events)
  BY OwnFacts DEF GrantApproval
<1>2. nextSid \in Nat \ { 0 }
  BY DEF GInv, IInv, TypeOK
<1>3. /\ Good(r) /\ r.sid = nextSid /\ r.pending = { x.r.appCall } \ { None }
      /\ r.appCall = x.r.appCall /\ r.state = x.r.state
  BY <1>1, <1>2 DEF Good, OperationRecord
<1>4. \A c \in r.pending \cap ApprovalCalls : Resolved(c, events)
  BY <1>1, <1>3 DEF HandlerOK
<1>5. /\ Become(t, Advance(x, r, "suspended_for_tool_result", "tool_execution_requested",
                           r.appCall, "return"))
      /\ UNCHANGED << rec, tmp, events, granted >>
      /\ nextSid' = IF CanMove(x.r, "suspended_for_tool_result") THEN nextSid + 1 ELSE nextSid
  BY DEF GrantApproval, seen
<1>6. nextSid' = nextSid + 1 \/ ~CanMove(r, "suspended_for_tool_result")
  BY <1>3, <1>5 DEF CanMove
<1>7. nextSid <= nextSid'
  BY <1>2, <1>5
<1> HIDE DEF x, r
<1> QED
  BY <1>1, <1>3, <1>4, <1>5, <1>6, <1>7, Names, FreshStep

LEMMA RecordRetryGrants ==
  ASSUME GInv, IInv', NEW t \in Threads, RecordRetry(t)
  PROVE  GInv'
<1> DEFINE x == [th[t] EXCEPT !.key = None]
           r == [rec EXCEPT !.retried = @ \cup { th[t].key }]
           y == Persist(x, r, None, "return")
<1>1. /\ th[t] \in Thread /\ th[t].key \in RetryKeys
      /\ Become(t, y) /\ UNCHANGED << rec, tmp, events, granted, nextSid >>
  BY HandlerFacts DEF RecordRetry, Safe, GInv, seen
<1>2. rec # None
  BY <1>1, ControllerAssumption DEF GInv, IInv
<1>3. Good(rec) /\ rec \in OperationRecord /\ Held(rec)
  BY <1>2, StoredFacts
<1>4. r \in OperationRecord /\ r.sid = rec.sid /\ r.pending = rec.pending
  BY <1>1, <1>3 DEF OperationRecord
<1>5. x \in Thread
  BY <1>1 DEF Thread
<1> HIDE DEF x, r
<1>6. y.pc = "write" /\ y.r = r /\ y.ev = None /\ y.nxt = "return"
  BY <1>5 DEF Persist, Thread
<1> HIDE DEF y
<1>7. HandlerOK(y, events)
  BY <1>6 DEF HandlerOK
<1>8. Origin(y.r) /\ CopyOK(y.r, nextSid', events)
  BY <1>1, <1>3, <1>4, <1>6, HeldFacts
<1>9. nextSid \in Nat
  BY DEF GInv, IInv, TypeOK
<1> QED
  BY <1>1, <1>4, <1>6, <1>7, <1>8, <1>9, QuietStep

(* An adapter suspends the operation under a fresh id: for calls that need *)
(* no approval, or for an approval.                                        *)
LEMMA SuspendGrants ==
  ASSUME GInv, IInv', NEW t \in Threads, th[t].pc # "idle",
         NEW phase \in { "planning", "execution" },
         SuspendForApproval(t, phase) \/ SuspendForToolResult(t, phase),
         UNCHANGED << rec, tmp, events, granted >>
  PROVE  GInv'
<1>1. /\ th[t] \in Thread /\ Good(th[t].r) /\ th[t].r \in OperationRecord /\ Held(th[t].r)
      /\ CopyOK(th[t].r, nextSid, events)
  BY OwnFacts DEF GInv
<1>2. nextSid \in Nat \ { 0 } /\ nextSid' = nextSid + 1
  BY DEF GInv, IInv, TypeOK, SuspendForApproval, SuspendForToolResult
<1>3. CASE SuspendForApproval(t, phase)
  <2>1. PICK c \in ApprovalCalls :
          Become(t, Advance(th[t], [th[t].r EXCEPT !.sid = nextSid, !.appCall = c,
                                                   !.phase = phase],
                            "suspended_for_approval", "tool_approval_requested", c, "return"))
    BY <1>3 DEF SuspendForApproval
  <2> DEFINE x == th[t]
             r == [x.r EXCEPT !.sid = nextSid, !.appCall = c, !.phase = phase]
  <2>2. Good(r) /\ r.sid = nextSid /\ r.pending = x.r.pending
    BY <1>1, <1>2 DEF Good, OperationRecord, Calls
  <2>3. \A d \in r.pending \cap ApprovalCalls : Resolved(d, events)
    BY <1>1, <2>2 DEF CopyOK
  <2>4. Become(t, Advance(x, r, "suspended_for_approval", "tool_approval_requested", c, "return"))
    BY <2>1
  <2> HIDE DEF x, r
  <2>5. x \in Thread
    BY <1>1 DEF x
  <2> QED
    BY <1>2, <2>2, <2>3, <2>4, <2>5, Names, FreshStep
<1>4. CASE SuspendForToolResult(t, phase)
  <2>1. PICK calls \in SUBSET PlainCalls :
          Become(t, Advance(th[t], [th[t].r EXCEPT !.sid = nextSid, !.pending = calls,
                                                   !.phase = phase],
                            "suspended_for_tool_result", "tool_execution_requested", None,
                            "return"))
    BY <1>4 DEF SuspendForToolResult
  <2> DEFINE x == th[t]
             r == [x.r EXCEPT !.sid = nextSid, !.pending = calls, !.phase = phase]
  <2>2. Good(r) /\ r.sid = nextSid /\ r.pending = calls
    BY <1>1, <1>2 DEF Good, OperationRecord, Calls
  <2>3. \A d \in r.pending \cap ApprovalCalls : Resolved(d, events)
    BY <2>2, ControllerAssumption
  <2>4. Become(t, Advance(x, r, "suspended_for_tool_result", "tool_execution_requested", None,
                          "return"))
    BY <2>1
  <2> HIDE DEF x, r
  <2>5. x \in Thread
    BY <1>1 DEF x
  <2> QED
    BY <1>2, <2>2, <2>3, <2>4, <2>5, Names, FreshStep
<1> QED
  BY <1>3, <1>4

(* An adapter's other results change the plan or nothing but the state.    *)
LEMMA OutcomeGrants ==
  ASSUME GInv, IInv', NEW t \in Threads, th[t].pc # "idle",
         NEW plan \in { "none", "plan", "failure" }, NEW s \in OperationState,
         NEW type \in QuietEvent, NEW nxt \in Goal, nxt # "grant",
         \/ Become(t, Advance(th[t], [th[t].r EXCEPT !.plan = plan], s, type, None, nxt))
         \/ Become(t, Advance(th[t], th[t].r, s, type, None, nxt)),
         UNCHANGED << rec, tmp, nextSid, events, granted >>
  PROVE  GInv'
<1> DEFINE x == th[t]
<1>1. /\ x \in Thread /\ Good(x.r) /\ x.r \in OperationRecord /\ Held(x.r)
  BY OwnFacts
<1>2. nextSid \in Nat
  BY DEF GInv, IInv, TypeOK
<1>3. PICK r \in { x.r, [x.r EXCEPT !.plan = plan] } :
        Become(t, Advance(x, r, s, type, None, nxt))
  OBVIOUS
<1>4. Good(r) /\ r.sid = x.r.sid /\ r.pending = x.r.pending
  BY <1>1, <1>3 DEF Good, OperationRecord
<1> HIDE DEF x
<1> QED
  BY <1>1, <1>2, <1>3, <1>4, MoveStep

LEMMA PlanningGrants ==
  ASSUME GInv, IInv', NEW t \in Threads, PlanningReturns(t)
  PROVE  GInv'
<1>1. th[t].pc # "idle" /\ UNCHANGED << rec, tmp, events, granted >>
  BY DEF PlanningReturns, seen
<1>2. CASE SuspendForApproval(t, "planning") \/ SuspendForToolResult(t, "planning")
  BY <1>1, <1>2, SuspendGrants
<1>3. ASSUME NEW plan \in { "plan", "failure" },
             Become(t, Advance(th[t], [th[t].r EXCEPT !.plan = plan],
                               "plan_ready", "none", None, "auto_review")),
             UNCHANGED nextSid
      PROVE  GInv'
  <2>1. /\ plan \in { "none", "plan", "failure" } /\ "plan_ready" \in OperationState
        /\ "none" \in QuietEvent /\ "auto_review" \in Goal /\ "auto_review" # "grant"
    BY Names
  <2> QED
    BY <1>1, <1>3, <2>1, OutcomeGrants
<1> QED
  BY <1>2, <1>3 DEF PlanningReturns

LEMMA ReviewGrants ==
  ASSUME GInv, IInv', NEW t \in Threads, ReviewReturns(t)
  PROVE  GInv'
<1> DEFINE x == th[t]
<1>1. /\ x.pc # "idle" /\ UNCHANGED << rec, tmp, nextSid, events, granted >>
      /\ x.r.plan \in { "none", "plan", "failure" }
  BY OwnFacts DEF ReviewReturns, seen, OperationRecord
<1>2. ASSUME NEW plan \in { "none", "plan", "failure" }, NEW s \in OperationState,
             NEW type \in QuietEvent, NEW nxt \in Goal, nxt # "grant",
             \/ Become(t, Advance(x, [x.r EXCEPT !.plan = plan], s, type, None, nxt))
             \/ Become(t, Advance(x, x.r, s, type, None, nxt))
      PROVE  GInv'
  BY <1>1, <1>2, OutcomeGrants
<1>3. ASSUME NEW plan \in { x.r.plan, "plan" },
             Become(t, Advance(x, [x.r EXCEPT !.plan = plan], "sandbox_ready",
                               "aflow_review_completed", None, "auto_execute"))
      PROVE  GInv'
  <2>1. plan \in { "none", "plan", "failure" } /\ "auto_execute" # "grant"
    BY <1>1
  <2> HIDE DEF x
  <2> QED
    BY <1>2, <1>3, <2>1, Names
<1>4. CASE Become(t, Advance(x, x.r, "fulfilling", "none", None, "fulfil"))
  <2>1. "none" \in { "none", "plan", "failure" } /\ "fulfil" # "grant"
    OBVIOUS
  <2> HIDE DEF x
  <2> QED
    BY <1>2, <1>4, <2>1, Names
<1>5. CASE Become(t, Advance(x, x.r, "suspended_provider_recovery", "aflow_issue_created",
                             None, "return"))
  <2>1. "none" \in { "none", "plan", "failure" } /\ "return" # "grant"
    OBVIOUS
  <2> HIDE DEF x
  <2> QED
    BY <1>2, <1>5, <2>1, Names
<1>6. CASE Become(t, Advance(x, x.r, "suspended_evidence", "none", None, "return"))
  <2>1. "none" \in { "none", "plan", "failure" } /\ "return" # "grant"
    OBVIOUS
  <2> HIDE DEF x
  <2> QED
    BY <1>2, <1>6, <2>1, Names
<1> QED
  BY <1>3, <1>4, <1>5, <1>6 DEF ReviewReturns

LEMMA FulfilmentGrants ==
  ASSUME GInv, IInv', NEW t \in Threads, FulfilmentReturns(t)
  PROVE  GInv'
<1>1. PICK s \in OperationState, nxt \in Goal :
        /\ Become(t, Advance(th[t], th[t].r, s, "none", None, nxt)) /\ nxt # "grant"
  <2>1. CASE Become(t, Advance(th[t], th[t].r, "reviewing", "none", None, "review"))
    BY <2>1, Names
  <2>2. CASE \E s \in { "awaiting_decision", "collecting_evidence" } :
               Become(t, Advance(th[t], th[t].r, s, "none", None, "return"))
    BY <2>2, Names
  <2> QED
    BY <2>1, <2>2 DEF FulfilmentReturns
<1>2. th[t].pc # "idle" /\ UNCHANGED << rec, tmp, nextSid, events, granted >>
  BY DEF FulfilmentReturns, seen
<1>3. "none" \in { "none", "plan", "failure" } /\ "none" \in QuietEvent
  BY Names
<1> QED
  BY <1>1, <1>2, <1>3, OutcomeGrants

LEMMA ExecutionGrants ==
  ASSUME GInv, IInv', NEW t \in Threads, ExecutionReturns(t)
  PROVE  GInv'
<1>1. th[t].pc # "idle" /\ UNCHANGED << rec, tmp, events, granted >>
  BY DEF ExecutionReturns, seen
<1>2. CASE SuspendForApproval(t, "execution") \/ SuspendForToolResult(t, "execution")
  BY <1>1, <1>2, SuspendGrants
<1>3. ASSUME NEW s \in OperationState, NEW type \in QuietEvent,
             Become(t, Advance(th[t], th[t].r, s, type, None, "return")), UNCHANGED nextSid
      PROVE  GInv'
  <2>1. "none" \in { "none", "plan", "failure" } /\ "return" \in Goal /\ "return" # "grant"
    BY Names
  <2> QED
    BY <1>1, <1>3, <2>1, OutcomeGrants
<1>4. CASE /\ Become(t, Advance(th[t], th[t].r, "completed", "operation_completed", None,
                                "return"))
           /\ UNCHANGED nextSid
  BY <1>3, <1>4, Names
<1>5. CASE /\ Become(t, Advance(th[t], th[t].r, "cancelled_by_user", "operation_failed", None,
                                "return"))
           /\ UNCHANGED nextSid
  BY <1>3, <1>5, Names
<1> QED
  BY <1>2, <1>4, <1>5 DEF ExecutionReturns

(* A restart forgets the handlers' copies and nothing else.                *)
LEMMA CrashGrants ==
  ASSUME GInv, IInv', Crash
  PROVE  GInv'
<1>1. /\ th' = [t \in Threads |-> Idle]
      /\ UNCHANGED << rec, tmp, nextSid, events, granted >>
  BY DEF Crash, seen
<1>2. Idle.pc = "idle"
  BY DEF Idle
<1>3. \A r : Held(r)' => Held(r)
  BY <1>1, <1>2 DEF Held
<1>4. \A t \in Threads : HandlerOK(th'[t], events')
  BY <1>1, IdleCarries, CarriesOK
<1>5. \A g \in granted' : GrantOK(g)'
  BY <1>1, <1>3 DEF GInv, GrantOK
<1> QED
  BY <1>1, <1>3, <1>4, <1>5 DEF GInv

LEMMA InitGrants == ASSUME Init PROVE GInv
<1>1. \A r : ~Held(r)
  BY DEF Init, Held, Idle
<1>2. \A t \in Threads : HandlerOK(th[t], events)
  BY IdleCarries, CarriesOK DEF Init
<1>3. granted = {}
  BY DEF Init
<1> QED
  BY <1>1, <1>2, <1>3, InitInv DEF GInv

LEMMA NextGrants ==
  ASSUME GInv, [Next]_vars
  PROVE  GInv'
<1>1. IInv'
  BY NextInv DEF GInv
<1>2. CASE UNCHANGED vars
  <2>1. UNCHANGED << rec, tmp, th, nextSid, events, granted >>
    BY <1>2 DEF vars, seen
  <2>2. \A r : Held(r)' <=> Held(r)
    BY <2>1 DEF Held
  <2>3. \A g : GrantOK(g)' <=> GrantOK(g)
    BY <2>1, <2>2 DEF GrantOK
  <2> QED
    BY <1>1, <2>1, <2>2, <2>3 DEF GInv
<1>3. CASE Crash
  BY <1>1, <1>3, CrashGrants
<1>4. ASSUME NEW t \in Threads, Request(t)
      PROVE  GInv'
  BY <1>1, <1>4, RegisterGrants, RequestGrants, ClaimGrants, ApprovalDecisionGrants DEF Request
<1>5. ASSUME NEW t \in Threads, HandlerStep(t)
      PROVE  GInv'
  BY <1>1, <1>5, WriteGrants, ReplaceGrants, EmitGrants, GrantApprovalGrants, RecordRetryGrants
     DEF HandlerStep
<1>6. ASSUME NEW t \in Threads, AdapterReturns(t)
      PROVE  GInv'
  BY <1>1, <1>6, PlanningGrants, ReviewGrants, FulfilmentGrants, ExecutionGrants
     DEF AdapterReturns
<1> QED
  BY <1>2, <1>3, <1>4, <1>5, <1>6 DEF Next

(* Every copy of the record is what GInv says of it, and every grant is    *)
(* for good: it is the invariant the two theorems below rest on.           *)
THEOREM GrantInvariance == Spec => []GInv
<1>1. Init => GInv
  BY InitGrants
<1>2. GInv /\ [Next]_vars => GInv'
  BY NextGrants
<1> QED
  BY <1>1, <1>2, PTL DEF Spec

(* What a client was told it may run is what the suspension it was told it *)
(* for awaits, as long as the record is in that suspension, whatever       *)
(* handlers race, overwrite each other's saves or die.                     *)
THEOREM GrantedCallIsPending == Spec => []GrantIsPending
<1>1. GInv => GrantIsPending
  <2> SUFFICES ASSUME GInv, rec # None, NEW g \in granted, g.sid = rec.sid
               PROVE  g.call \in rec.pending
    BY DEF GrantIsPending
  <2>1. rec \in OperationRecord /\ Held(rec)
    BY StoredFacts
  <2> QED
    BY <2>1 DEF GInv, GrantOK
<1> QED
  BY <1>1, GrantInvariance, PTL

(* A call that needs an approval is handed to a client only after the      *)
(* event that resolves its approval.                                       *)
THEOREM ApprovedBeforeItRuns == Spec => []ApprovalBeforeExecution
<1>1. GInv => ApprovalBeforeExecution
  BY DEF GInv, GrantOK, Resolved, ApprovalBeforeExecution
<1> QED
  BY <1>1, GrantInvariance, PTL

------------------------------------------------------------------------------
(* Requests that are served in turn. *)

(* The handlers lock nothing, and two of them can both find a suspension   *)
(* unclaimed or unconsumed.  What follows holds of every behaviour in      *)
(* which no request is taken while another is served (InTurn), restarts at *)
(* any point included.                                                     *)
Alone(t) == \A u \in Threads : u # t => th[u] = Idle

OneBusy == \A t, u \in Threads : th[t] # Idle /\ th[u] # Idle => t = u

LEMMA BusyIsAlone ==
  ASSUME OneBusy, NEW t \in Threads, th[t].pc # "idle"
  PROVE  Alone(t)
<1>1. th[t] # Idle
  BY DEF Idle
<1> QED
  BY <1>1, Zenon DEF OneBusy, Alone

LEMMA RequestIsAlone ==
  ASSUME InTurn, NEW t \in Threads, Request(t)
  PROVE  Alone(t)
BY DEF InTurn, Alone

(* A step of t alone leaves every other thread idle. *)
LEMMA AloneStep ==
  ASSUME TypeOK, NEW t \in Threads, Alone(t), NEW y, Become(t, y)
  PROVE  /\ th'[t] = y
         /\ \A u \in Threads : u # t => th[u] = Idle /\ th'[u] = Idle
         /\ \A u \in Threads : th'[u] = y \/ th'[u] = Idle
         /\ OneBusy'
BY DEF Alone, OneBusy, Become, TypeOK

(* A handler works on the stored record: what it is about to save keeps    *)
(* the claim that is stored, and leaves a terminal state alone.            *)
Serves(x) ==
  /\ x.pc = "replace" => tmp = x.r
  /\ x.pc = "emit" /\ x.ev.type = "tool_execution_claimed" => rec # None /\ rec.claim # None
  /\ x.pc # "idle" /\ rec # None =>
       /\ rec.claim # None => x.r.claim # None /\ x.r.claim.by = rec.claim.by
       /\ rec.state \in TERMINAL_STATES => x.r.state = rec.state

(* The results of the suspension that r waits in have not been delivered.  *)
Unused(r, log) ==
  r.state = "suspended_for_tool_result" => \A i \in 1 .. Len(log) : log[i].left # r.sid

Saving(x) == x.pc \in { "write", "replace" }

(* Within one life of the process, a suspension that was left is left for  *)
(* good as soon as the handler that left it has saved.                     *)
OnceInv ==
  /\ \A i, j \in 1 .. Len(delivered) : delivered[i].left = delivered[j].left => i = j
  /\ \A i \in 1 .. Len(delivered) : delivered[i].left < nextSid
  /\ \A t \in Threads : th[t].pc # "idle" => Unused(th[t].r, delivered)
  /\ rec # None /\ (\A t \in Threads : ~Saving(th[t])) => Unused(rec, delivered)

(* SingleClaimant and ResultsConsumedOnce follow from what the stored      *)
(* record remembers, its claim and its state, and from its not being lost. *)
SInv ==
  /\ GInv
  /\ OneBusy
  /\ \A t \in Threads : Serves(th[t])
  /\ \A g \in granted : rec # None /\ rec.claim # None /\ g.by = rec.claim.by
  /\ crashes = 0 => OnceInv

LEMMA IdleServes == Idle.pc = "idle" /\ ~Saving(Idle) /\ Serves(Idle) /\ Serves(Idle)'
BY DEF Idle, Saving, Serves

(* What the next copy y.r keeps of the copy q that it was made of.         *)
Turns(y, q) ==
  y.pc # "idle" =>
    /\ q.claim # None => y.r.claim = q.claim
    /\ q.state \in TERMINAL_STATES => y.r.state = q.state
    /\ y.r.state = "suspended_for_tool_result" =>
         \/ q.state = y.r.state /\ q.sid = y.r.sid
         \/ y.r.sid = nextSid

LEMMA AdvanceTurns ==
  ASSUME NEW x, x \in Thread, NEW r, Good(r), NEW q, r.claim = q.claim, r.state = q.state,
         NEW s, s # "suspended_for_tool_result" \/ r.sid = nextSid,
         NEW type, NEW call, NEW nxt
  PROVE  /\ Turns(Advance(x, r, s, type, call, nxt), q)
         /\ Advance(x, r, s, type, call, nxt).pc \in { "idle", "write" }
<1> DEFINE y == Advance(x, r, s, type, call, nxt)
           m == Move(r, s)
<1>1. CASE ~CanMove(r, s)
  <2>1. y = Idle /\ Idle.pc = "idle"
    BY <1>1 DEF Advance, Idle
  <2> HIDE DEF y
  <2>2. y.pc = "idle"
    BY <2>1
  <2> QED
    BY <2>2 DEF Turns, y
<1>2. CASE CanMove(r, s)
  <2>1. m.state = s /\ m.sid = r.sid /\ m.claim = r.claim
    BY DEF Move, Good, OperationRecord
  <2>2. q.state \notin TERMINAL_STATES
    BY <1>2 DEF CanMove
  <2> HIDE DEF m
  <2>3. PICK ev : y = Persist(x, m, ev, nxt)
    BY <1>2 DEF Advance, m
  <2>4. y.pc = "write" /\ y.r = m
    BY <2>3 DEF Persist, Thread
  <2> HIDE DEF y
  <2>5. Turns(y, q)
    BY <2>1, <2>2, <2>4 DEF Turns
  <2> QED
    BY <2>4, <2>5 DEF y
<1> QED
  BY <1>1, <1>2

GoesOn(y, q) == Turns(y, q) /\ y.pc \notin { "replace", "emit" }

LEMMA GoOnTurns ==
  ASSUME NEW x, Safe(x), x.pc # "idle"
  PROVE  GoesOn(GoOn(x), x.r)
<1>1. x \in Thread /\ Good(x.r) /\ x.nxt \in Goal
  BY DEF Safe, Thread, Goal
<1>2. ASSUME NEW pc \in { "rekey", "grant" } \cup AdapterPC
      PROVE  GoesOn([x EXCEPT !.pc = pc, !.ev = None], x.r)
  <2> DEFINE y == [x EXCEPT !.pc = pc, !.ev = None]
  <2>1. y.pc = pc /\ y.r = x.r
    BY <1>1 DEF Thread
  <2> HIDE DEF y
  <2>2. GoesOn(y, x.r)
    BY <2>1 DEF GoesOn, Turns, AdapterPC
  <2> QED
    BY <2>2 DEF y
<1>3. GoesOn(Finish(x), x.r)
  <2>1. CASE x.key = None
    <3>1. Finish(x).pc = "idle"
      BY <2>1 DEF Finish, Idle
    <3> QED
      BY <3>1 DEF GoesOn, Turns
  <2>2. CASE x.key # None
    BY <1>2, <2>2 DEF Finish
  <2> QED
    BY <2>1, <2>2
<1>4. CASE x.nxt = "return"
  BY <1>3, <1>4 DEF GoOn
<1>5. CASE x.nxt = "grant"
  BY <1>2, <1>5 DEF GoOn
<1>6. CASE x.nxt = "auto_review"
  <2> DEFINE n == IF x.ctx THEN "review" ELSE "return"
  <2>1. GoOn(x) = Advance(x, x.r, "reviewing", "none", None, n)
    BY <1>6 DEF GoOn
  <2> HIDE DEF n
  <2>2. GoesOn(Advance(x, x.r, "reviewing", "none", None, n), x.r)
    BY <1>1, AdvanceTurns DEF GoesOn
  <2> QED
    BY <2>1, <2>2
<1>7. CASE x.nxt = "auto_execute"
  <2>1. CASE "execution" \in Adapters
    <3>1. GoOn(x) = Advance(x, x.r, "sandbox_running", "none", None, "execute")
      BY <1>7, <2>1 DEF GoOn
    <3>2. GoesOn(Advance(x, x.r, "sandbox_running", "none", None, "execute"), x.r)
      BY <1>1, AdvanceTurns DEF GoesOn
    <3> QED
      BY <3>1, <3>2
  <2>2. CASE "execution" \notin Adapters
    BY <1>3, <1>7, <2>2 DEF GoOn
  <2> QED
    BY <2>1, <2>2
<1>8. CASE x.nxt \in AdapterPC
  <2>1. GoOn(x) = IF AdapterOf(x.nxt) \in Adapters
                  THEN [x EXCEPT !.pc = x.nxt, !.ev = None] ELSE Finish(x)
    BY <1>8 DEF GoOn, AdapterPC
  <2> QED
    BY <1>2, <1>3, <1>8, <2>1
<1> QED
  BY <1>1, <1>4, <1>5, <1>6, <1>7, <1>8 DEF Goal

LEMMA EntryOfLog ==
  ASSUME NEW T, NEW s \in Seq(T), NEW i \in 1 .. Len(s)
  PROVE  s[i] \in T
OBVIOUS

LEMMA AppendFacts ==
  ASSUME NEW T, NEW s \in Seq(T), NEW e
  PROVE  /\ Len(s) \in Nat /\ Len(Append(s, e)) = Len(s) + 1
         /\ Append(s, e)[Len(s) + 1] = e
         /\ \A i \in 1 .. Len(s) : Append(s, e)[i] = s[i]
OBVIOUS

(* A copy made of one whose results are unused, or for a fresh suspension, *)
(* waits for results that are unused.                                      *)
LEMMA TurnsUnused ==
  ASSUME SInv, OnceInv, NEW q, Unused(q, delivered), NEW y, Turns(y, q), y.pc # "idle"
  PROVE  Unused(y.r, delivered)
BY DEF SInv, OnceInv, Unused, Turns, GInv, IInv, TypeOK

(* The handler goes on to y, with a copy made of the stored one (which *)
(* it has just loaded) or of its own, and saves nothing.                   *)
LEMMA TurnStep ==
  ASSUME SInv, GInv', NEW t \in Threads, Alone(t), NEW y, Become(t, y),
         NEW q \in OperationRecord, Turns(y, q),
         \/ q = rec /\ ~Saving(th[t])
         \/ q = th[t].r /\ th[t].pc # "idle",
         Saving(th[t]) => Saving(y),
         y.pc = "replace" => tmp' = y.r,
         y.pc = "emit" => y.ev.type # "tool_execution_claimed",
         \A g \in granted' : g \in granted \/ (rec # None /\ rec.claim # None /\ g.by = rec.claim.by),
         nextSid <= nextSid', UNCHANGED << rec, delivered, crashes >>
  PROVE  SInv'
<1> USE DEF SInv
<1>1. /\ th'[t] = y /\ OneBusy'
      /\ \A u \in Threads : u # t => th[u] = Idle /\ th'[u] = Idle
  BY AloneStep DEF GInv, IInv
<1>2. rec = q => rec # None
  BY AbsenceAssumption
<1>3. Serves(y)'
  <2>1. y.pc # "idle" /\ rec # None =>
          /\ rec.claim # None => y.r.claim # None /\ y.r.claim.by = rec.claim.by
          /\ rec.state \in TERMINAL_STATES => y.r.state = rec.state
    <3>1. CASE q = rec
      BY <3>1 DEF Turns
    <3>2. CASE q = th[t].r /\ th[t].pc # "idle"
      <4>1. Serves(th[t])
        OBVIOUS
      <4> QED
        BY <3>2, <4>1 DEF Serves, Turns
    <3> QED
      BY <3>1, <3>2
  <2> QED
    BY <2>1 DEF Serves
<1>4. \A g \in granted' : rec' # None /\ rec'.claim # None /\ g.by = rec'.claim.by
  OBVIOUS
<1>5. ASSUME crashes' = 0
      PROVE  OnceInv'
  <2>1. OnceInv
    BY <1>5
  <2>2. (\A u \in Threads : ~Saving(th[u])) <=> ~Saving(th[t])
    BY <1>1, IdleServes
  <2>3. Unused(q, delivered)
    BY <1>2, <2>1, <2>2 DEF OnceInv
  <2>4. y.pc # "idle" => Unused(y.r, delivered)
    BY <2>1, <2>3, TurnsUnused
  <2>5. rec # None /\ ~Saving(y) => Unused(rec, delivered)
    BY <2>1, <2>2 DEF OnceInv
  <2>6. nextSid \in Nat /\ nextSid' \in Nat /\ delivered \in Seq([named : Nat, left : Nat])
    BY DEF GInv, IInv, TypeOK
  <2>7. \A i \in 1 .. Len(delivered) : delivered[i].left < nextSid'
    <3> TAKE i \in 1 .. Len(delivered)
    <3>1. delivered[i] \in [named : Nat, left : Nat]
      BY <2>6, EntryOfLog
    <3>2. delivered[i].left < nextSid
      BY <2>1 DEF OnceInv
    <3>3. delivered[i].left \in Nat
      BY <3>1
    <3> QED
      BY <2>6, <3>2, <3>3
  <2> QED
    BY <1>1, <2>1, <2>4, <2>5, <2>7, IdleServes DEF OnceInv
<1>6. \A u \in Threads : Serves(th[u])'
  BY <1>1, <1>3, IdleServes
<1> QED
  BY <1>1, <1>4, <1>5, <1>6

(* It attempts a transition: of the record it has loaded, or of its own    *)
(* copy.                                                                   *)
LEMMA AdvanceStep ==
  ASSUME SInv, GInv', NEW t \in Threads, Alone(t), ~Saving(th[t]), NEW x, x \in Thread,
         NEW q \in OperationRecord, q = rec \/ (q = th[t].r /\ th[t].pc # "idle"),
         NEW r, Good(r), r.claim = q.claim, r.state = q.state,
         NEW s, s # "suspended_for_tool_result" \/ r.sid = nextSid,
         NEW type, NEW call, NEW nxt,
         Become(t, Advance(x, r, s, type, call, nxt)),
         nextSid <= nextSid', UNCHANGED << rec, granted, delivered, crashes >>
  PROVE  SInv'
<1> DEFINE y == Advance(x, r, s, type, call, nxt)
<1>1. Turns(y, q) /\ y.pc \in { "idle", "write" }
  BY AdvanceTurns
<1>2. Become(t, y)
  OBVIOUS
<1> HIDE DEF y
<1> QED
  BY <1>1, <1>2, TurnStep

LEMMA RegisterSerial ==
  ASSUME SInv, GInv', NEW t \in Threads, Alone(t), NEW kind, Register(t, kind)
  PROVE  SInv'
<1> DEFINE r == NewRecord(kind)
           ev == Ev("operation_created", r, None)
           y == Persist(Idle, r, ev, "return")
<1>1. /\ rec = None /\ Become(t, y)
      /\ UNCHANGED << rec, nextSid, granted, delivered, crashes >>
  BY DEF Register, seen
<1>2. y.pc = "write" /\ y.r = r /\ r.state = "received"
  BY DEF Persist, Idle, NewRecord
<1> HIDE DEF r, y
<1>3. /\ th'[t] = y /\ OneBusy'
      /\ \A u \in Threads : th'[u] = y \/ th'[u] = Idle
  BY <1>1, AloneStep DEF SInv, GInv, IInv
<1>4. \A u \in Threads : Serves(th[u])'
  <2>1. Serves(y)'
    BY <1>1, <1>2 DEF Serves
  <2> QED
    BY <1>3, <2>1, IdleServes
<1>5. \A g \in granted : rec # None
  BY DEF SInv
<1>6. crashes' = 0 => OnceInv'
  BY <1>1, <1>2, <1>3, IdleServes DEF SInv, OnceInv, Unused
<1> QED
  BY <1>1, <1>3, <1>4, <1>5, <1>6 DEF SInv

(* What a request that finds the handler free has before it.               *)
LEMMA FreeFacts ==
  ASSUME SInv, NEW t \in Threads, Alone(t), Load(t)
  PROVE  /\ rec # None /\ Good(rec) /\ rec \in OperationRecord
         /\ \A u \in Threads : ~Saving(th[u])
         /\ th[t].pc = "idle" /\ Idle \in Thread /\ nextSid \in Nat
<1>1. rec # None /\ th[t].pc = "idle"
  BY DEF Load
<1>2. Good(rec) /\ rec \in OperationRecord
  BY <1>1, StoredFacts DEF SInv
<1>3. Idle \in Thread
  BY IdleSafe DEF Safe
<1>4. \A u \in Threads : ~Saving(th[u])
  BY <1>1, IdleServes DEF Alone, Saving
<1> QED
  BY <1>1, <1>2, <1>3, <1>4 DEF SInv, GInv, IInv, TypeOK

(* The requests that attempt a transition of the stored record and         *)
(* consume nothing.                                                        *)
LEMMA RequestSerial ==
  ASSUME SInv, GInv', NEW t \in Threads, Alone(t),
         \/ \E withPlan \in BOOLEAN : Start(t, withPlan)
         \/ Cancel(t) \/ Resume(t)
         \/ \E key \in RetryKeys : \E version : RetryAflow(t, key, version)
  PROVE  SInv'
<1>1. Load(t)
  BY DEF Start, Cancel, Resume, RetryAflow
<1>2. /\ rec # None /\ Good(rec) /\ rec \in OperationRecord /\ ~Saving(th[t])
      /\ Idle \in Thread /\ nextSid \in Nat
  BY <1>1, FreeFacts
<1>3. \E x \in Thread, r \in { rec, [rec EXCEPT !.plan = "plan"] } : \E s, type, nxt :
        /\ Become(t, Advance(x, r, s, type, None, nxt))
        /\ s # "suspended_for_tool_result"
  <2>1. CASE \E withPlan \in BOOLEAN : Start(t, withPlan)
    <3>1. \/ Become(t, Advance(Idle, [rec EXCEPT !.plan = "plan"], "reviewing", "none", None,
                              "review"))
          \/ Become(t, Advance(Idle, rec, "planning", "state_transition", None, "plan"))
          \/ Become(t, Advance(Idle, rec, "reviewing", "none", None, "review"))
          \/ Become(t, Advance(Idle, rec, "reviewing", "none", None, "return"))
      BY <2>1 DEF Start
    <3> QED
      BY <1>2, <3>1
  <2>2. CASE Cancel(t)
    BY <1>2, <2>2 DEF Cancel
  <2>3. CASE Resume(t)
    <3> DEFINE x == [Idle EXCEPT !.ctx = FALSE]
    <3>1. x \in Thread
      BY <1>2 DEF Thread
    <3>2. ResumeTarget(rec) # "suspended_for_tool_result"
      BY DEF ResumeTarget
    <3>3. Become(t, Advance(x, rec, ResumeTarget(rec), "none", None,
                            AfterResume(ResumeTarget(rec))))
      BY <2>3 DEF Resume
    <3> HIDE DEF x
    <3> QED
      BY <3>1, <3>2, <3>3
  <2>4. CASE \E key \in RetryKeys : \E version : RetryAflow(t, key, version)
    <3>1. PICK key \in RetryKeys :
            Become(t, Advance([Idle EXCEPT !.key = key], rec, "reviewing", "none", None,
                              "review"))
      BY <2>4 DEF RetryAflow
    <3>2. [Idle EXCEPT !.key = key] \in Thread
      BY <1>2 DEF Thread
    <3> QED
      BY <3>1, <3>2
  <2> QED
    BY <2>1, <2>2, <2>3, <2>4
<1>4. PICK x \in Thread, r \in { rec, [rec EXCEPT !.plan = "plan"] } : \E s, type, nxt :
        /\ Become(t, Advance(x, r, s, type, None, nxt))
        /\ s # "suspended_for_tool_result"
  BY <1>3
<1>5. PICK s, type, nxt :
        /\ Become(t, Advance(x, r, s, type, None, nxt))
        /\ s # "suspended_for_tool_result"
  BY <1>4
<1>6. Good(r) /\ r.claim = rec.claim /\ r.state = rec.state
  BY <1>2, <1>4 DEF Good, OperationRecord
<1>7. UNCHANGED << rec, granted, delivered, crashes, nextSid >>
  BY DEF Start, Cancel, Resume, RetryAflow, seen
<1>8. nextSid <= nextSid'
  BY <1>2, <1>7
<1> QED
  BY <1>2, <1>4, <1>5, <1>6, <1>7, <1>8, AdvanceStep

(* The results of a suspension are taken from a record that waits for them *)
(* and leaves it with the save that follows.                               *)
LEMMA ToolResultSerial ==
  ASSUME SInv, GInv', NEW t \in Threads, Alone(t), NEW named, NEW calls,
         ToolResult(t, named, calls)
  PROVE  SInv'
<1> DEFINE target == ResumeTarget(rec)
           r == [rec EXCEPT !.consumed = @ \/ rec.claim # None]
           next == Advance(Idle, r, target, "none", None, AfterResume(target))
           log == Append(delivered, [named |-> named, left |-> rec.sid])
<1>1. /\ Load(t) /\ CanMove(rec, target) /\ Become(t, next)
      /\ delivered' = IF rec.state = "suspended_for_tool_result" THEN log ELSE delivered
      /\ UNCHANGED << rec, nextSid, crashes, granted >>
  BY DEF ToolResult
<1>2. /\ rec # None /\ Good(rec) /\ rec \in OperationRecord /\ Idle \in Thread
      /\ \A u \in Threads : ~Saving(th[u])
  BY <1>1, FreeFacts
<1>3. /\ Good(r) /\ r.claim = rec.claim /\ r.state = rec.state
  BY <1>2 DEF Good, OperationRecord
<1>4. target # "suspended_for_tool_result"
  BY DEF ResumeTarget
<1>5. rec.sid < nextSid /\ nextSid \in Nat /\ rec.sid \in Nat
  BY <1>2 DEF SInv, GInv, IInv, TypeOK, CopyOK, Held, OperationRecord
<1>6. Turns(next, rec) /\ next.pc = "write" /\ next.r.state = target
  <2>1. Turns(next, rec) /\ next.pc \in { "idle", "write" }
    BY <1>2, <1>3, <1>4, AdvanceTurns
  <2>2. CanMove(r, target)
    BY <1>1, <1>3 DEF CanMove
  <2> DEFINE m == Move(r, target)
  <2>3. m.state = target
    BY <1>3 DEF Move, Good, OperationRecord
  <2> HIDE DEF m, r, target
  <2>4. next = Persist(Idle, m, None, AfterResume(target))
    BY <2>2 DEF Advance, m
  <2>5. next.pc = "write" /\ next.r = m
    BY <2>4 DEF Persist, Idle
  <2> HIDE DEF next
  <2> QED
    BY <2>1, <2>3, <2>5
<1> HIDE DEF r, next, target
<1>7. PICK y : Become(t, y) /\ Turns(y, rec) /\ y.pc = "write" /\ y.r.state = target
  BY <1>1, <1>6
<1>8. /\ th'[t] = y /\ OneBusy'
      /\ \A u \in Threads : th'[u] = y \/ th'[u] = Idle
  BY <1>7, AloneStep DEF SInv, GInv, IInv
<1>9. \A u \in Threads : Serves(th[u])'
  <2>1. Serves(y)'
    BY <1>1, <1>7 DEF Serves, Turns
  <2> QED
    BY <1>8, <2>1, IdleServes
<1>10. ASSUME crashes' = 0
      PROVE  OnceInv'
  <2>1. OnceInv
    BY <1>1, <1>10 DEF SInv
  <2>2. Unused(rec, delivered)
    BY <1>2, <2>1 DEF OnceInv
  <2>3. /\ \A u \in Threads : th'[u].pc # "idle" => Unused(th'[u].r, delivered')
        /\ Saving(th'[t])
    BY <1>4, <1>8, <1>7, IdleServes DEF Unused, Saving
  <2>5. /\ \A i, j \in 1 .. Len(delivered') : delivered'[i].left = delivered'[j].left => i = j
        /\ \A i \in 1 .. Len(delivered') : delivered'[i].left < nextSid
    <3>1. CASE rec.state # "suspended_for_tool_result"
      BY <1>1, <2>1, <3>1 DEF OnceInv
    <3>2. CASE rec.state = "suspended_for_tool_result"
      <4>1. /\ Len(delivered) \in Nat /\ Len(log) = Len(delivered) + 1
            /\ log[Len(delivered) + 1] = [named |-> named, left |-> rec.sid]
            /\ \A i \in 1 .. Len(delivered) : log[i] = delivered[i]
        <5>1. delivered \in Seq([named : Nat, left : Nat])
          BY DEF SInv, GInv, IInv, TypeOK
        <5> QED
          BY <5>1, AppendFacts
      <4>2. delivered' = log
        BY <1>1, <3>2
      <4>3. \A i \in 1 .. Len(delivered) : delivered[i].left # rec.sid
        BY <2>2, <3>2 DEF Unused
      <4>4. log[Len(delivered) + 1].left = rec.sid
        BY <4>1
      <4> HIDE DEF log
      <4>5. \A i \in 1 .. Len(log) : i \in 1 .. Len(delivered) \/ i = Len(delivered) + 1
        BY <4>1
      <4>6. \A i \in 1 .. Len(log) : log[i].left < nextSid
        BY <1>5, <2>1, <4>1, <4>4, <4>5 DEF OnceInv
      <4>7. \A i, j \in 1 .. Len(log) : log[i].left = log[j].left => i = j
        BY <2>1, <4>1, <4>3, <4>4, <4>5 DEF OnceInv
      <4> QED
        BY <4>2, <4>6, <4>7
    <3> QED
      BY <3>1, <3>2
  <2> QED
    BY <1>1, <2>3, <2>5 DEF OnceInv
<1> QED
  BY <1>1, <1>8, <1>9, <1>10 DEF SInv

(* A claim is entered where there is none, or is its owner's.              *)
LEMMA ClaimSerial ==
  ASSUME SInv, GInv', NEW t \in Threads, Alone(t), NEW claimant, NEW sid, NEW call,
         NEW digestOf, ClaimToolExecution(t, claimant, sid, call, digestOf)
  PROVE  SInv'
<1> DEFINE claim == [by |-> claimant, call |-> call, sid |-> sid]
           r == [rec EXCEPT !.claim = claim]
           y == Persist(Idle, r, Ev("tool_execution_claimed", r, call), "return")
<1>1. /\ Load(t) /\ UNCHANGED << rec, nextSid, delivered, crashes >>
      /\ ~CompetingClaim(claimant)
      /\ \/ rec.claim = None /\ Become(t, y) /\ UNCHANGED granted
         \/ rec.claim # None /\ granted' = granted \cup { claim } /\ UNCHANGED th
  BY DEF ClaimToolExecution
<1>2. /\ rec # None /\ rec \in OperationRecord /\ ~Saving(th[t]) /\ nextSid \in Nat
      /\ th[t].pc = "idle"
  BY <1>1, FreeFacts
<1>3. nextSid <= nextSid'
  BY <1>1, <1>2
<1>4. CASE rec.claim = None /\ Become(t, y) /\ UNCHANGED granted
  <2>1. r.state = rec.state /\ r.sid = rec.sid
    BY <1>2 DEF OperationRecord
  <2>2. y.pc = "write" /\ y.r = r
    BY DEF Persist, Idle
  <2> HIDE DEF r, y
  <2>3. Turns(y, rec)
    BY <1>4, <2>1, <2>2 DEF Turns
  <2> QED
    BY <1>1, <1>2, <1>3, <1>4, <2>2, <2>3, TurnStep
<1>5. CASE rec.claim # None /\ granted' = granted \cup { claim } /\ UNCHANGED th
  <2> DEFINE z == th[t]
  <2>1. Become(t, z)
    BY <1>5 DEF Become, SInv, GInv, IInv, TypeOK
  <2>2. Turns(z, rec) /\ z.pc = "idle"
    BY <1>2 DEF Turns
  <2>3. claim.by = rec.claim.by
    BY <1>1, <1>5 DEF CompetingClaim
  <2> HIDE DEF claim, z
  <2>4. \A g \in granted' : g \in granted \/ (rec # None /\ rec.claim # None /\ g.by = rec.claim.by)
    BY <1>2, <1>5, <2>3
  <2> QED
    BY <1>1, <1>2, <1>3, <2>1, <2>2, <2>4, TurnStep
<1> QED
  BY <1>1, <1>4, <1>5

LEMMA ApprovalDecisionSerial ==
  ASSUME SInv, GInv', NEW t \in Threads, Alone(t), NEW approved, NEW sid,
         ApprovalDecision(t, approved, sid)
  PROVE  SInv'
<1>1. /\ Load(t) /\ UNCHANGED << rec, nextSid, granted, delivered, crashes >>
  BY DEF ApprovalDecision, seen
<1>2. /\ rec # None /\ Good(rec) /\ rec \in OperationRecord /\ ~Saving(th[t])
      /\ Idle \in Thread /\ nextSid \in Nat
  BY <1>1, FreeFacts
<1>3. nextSid <= nextSid'
  BY <1>1, <1>2
<1>4. CASE Become(t, Approved(rec))
  <2> DEFINE r == [rec EXCEPT !.decided = "approved", !.appSid = rec.sid]
             ev == Ev("tool_approval_resolved", rec, rec.appCall)
             y == Approved(rec)
  <2>1. r.sid = rec.sid /\ r.state = rec.state /\ r.claim = rec.claim
    BY <1>2 DEF OperationRecord
  <2>2. ev.type # "tool_execution_claimed"
    BY DEF Ev
  <2>3. y.pc = "emit" /\ y.r = r /\ y.ev = ev
    BY DEF Approved, Idle
  <2>4. Become(t, y)
    BY <1>4
  <2> HIDE DEF r, ev, y
  <2>5. Turns(y, rec)
    BY <2>1, <2>3 DEF Turns
  <2> QED
    BY <1>1, <1>2, <1>3, <2>2, <2>3, <2>4, <2>5, TurnStep
<1>5. CASE Become(t, Advance(Idle, [rec EXCEPT !.decided = "denied"], "cancelled_by_user",
                             "tool_approval_denied", rec.appCall, "return"))
  <2> DEFINE r == [rec EXCEPT !.decided = "denied"]
  <2>1. Good(r) /\ r.claim = rec.claim /\ r.state = rec.state
    BY <1>2 DEF Good, OperationRecord
  <2>2. Become(t, Advance(Idle, r, "cancelled_by_user", "tool_approval_denied", rec.appCall,
                          "return"))
    BY <1>5
  <2> HIDE DEF r
  <2> QED
    BY <1>1, <1>2, <1>3, <2>1, <2>2, AdvanceStep
<1> QED
  BY <1>4, <1>5 DEF ApprovalDecision

LEMMA WriteSerial ==
  ASSUME SInv, GInv', NEW t \in Threads, Alone(t), Write(t)
  PROVE  SInv'
<1> DEFINE y == [th[t] EXCEPT !.pc = "replace"]
<1>1. /\ th[t].pc = "write" /\ tmp' = th[t].r /\ Become(t, y)
      /\ UNCHANGED << rec, nextSid, granted, delivered, crashes >>
  BY DEF Write, seen
<1>2. th[t] \in Thread /\ th[t].r \in OperationRecord /\ nextSid \in Nat
  BY <1>1, OwnFacts DEF SInv, GInv, IInv, TypeOK
<1>3. y.pc = "replace" /\ y.r = th[t].r
  BY <1>2 DEF Thread
<1> HIDE DEF y
<1>4. Turns(y, th[t].r) /\ Saving(y)
  BY <1>3 DEF Turns, Saving
<1>5. nextSid <= nextSid'
  BY <1>1, <1>2
<1> QED
  BY <1>1, <1>2, <1>3, <1>4, <1>5, TurnStep

(* With one handler the temporary file is its own, so what it stores is    *)
(* its own copy.                                                           *)
LEMMA ReplaceSerial ==
  ASSUME SInv, GInv', NEW t \in Threads, Alone(t), Replace(t)
  PROVE  SInv' /\ (rec # None /\ rec.state \in TERMINAL_STATES => rec'.state = rec.state)
<1>1. th[t].pc = "replace" /\ UNCHANGED << nextSid, granted, delivered, crashes >>
  BY DEF Replace, seen
<1>2. PICK x : x = th[t]
  OBVIOUS
<1>3. /\ x \in Thread /\ x.r \in OperationRecord /\ Safe(x) /\ Serves(x)
      /\ x.pc = "replace"
  BY <1>1, <1>2, OwnFacts DEF SInv
<1>4. x.r # None /\ tmp = x.r
  BY <1>3, AbsenceAssumption DEF Serves
<1>5. rec' = x.r /\ rec' # None
  BY <1>4 DEF Replace
<1>6. PICK y : /\ Become(t, y)
               /\ \/ y = [x EXCEPT !.pc = "emit"] /\ x.ev # None
                  \/ y = GoOn(x)
  BY <1>2, <1>4 DEF Replace
<1>7. Turns(y, x.r) /\ y.pc # "replace" /\ (y.pc = "emit" => y.ev = x.ev /\ x.ev # None)
  <2>1. CASE y = [x EXCEPT !.pc = "emit"] /\ x.ev # None
    <3>1. y.pc = "emit" /\ y.r = x.r /\ y.ev = x.ev
      BY <1>3, <2>1 DEF Thread
    <3> QED
      BY <2>1, <3>1 DEF Turns
  <2>2. CASE y = GoOn(x)
    <3>1. GoesOn(GoOn(x), x.r)
      BY <1>3, GoOnTurns
    <3> QED
      BY <2>2, <3>1 DEF GoesOn
  <2> QED
    BY <1>6, <2>1, <2>2
<1>8. /\ th'[t] = y /\ OneBusy'
      /\ \A u \in Threads : th'[u] = y \/ th'[u] = Idle
  BY <1>2, <1>6, AloneStep DEF SInv, GInv, IInv
<1>9. \A u \in Threads : Serves(th[u])'
  <2>1. y.pc = "emit" /\ y.ev.type = "tool_execution_claimed" => x.r.claim # None
    BY <1>3, <1>7, AbsenceAssumption DEF Safe
  <2>2. Serves(y)'
    BY <1>5, <1>7, <2>1 DEF Serves, Turns
  <2> QED
    BY <1>8, <2>2, IdleServes
<1>10. \A g \in granted' : rec' # None /\ rec'.claim # None /\ g.by = rec'.claim.by
  BY <1>1, <1>3, <1>5 DEF SInv, Serves
<1>11. ASSUME crashes' = 0
       PROVE  OnceInv'
  <2>1. OnceInv
    BY <1>1, <1>11 DEF SInv
  <2>2. Unused(x.r, delivered)
    BY <1>2, <1>3, <2>1 DEF OnceInv
  <2>3. y.pc # "idle" => Unused(y.r, delivered)
    BY <1>7, <2>1, <2>2, TurnsUnused
  <2> QED
    BY <1>1, <1>5, <1>8, <2>1, <2>2, <2>3, IdleServes DEF OnceInv
<1>12. rec # None /\ rec.state \in TERMINAL_STATES => rec'.state = rec.state
  BY <1>3, <1>5 DEF Serves
<1> QED
  BY <1>8, <1>9, <1>10, <1>11, <1>12 DEF SInv

(* A claim is granted from the record that was just saved with it.         *)
LEMMA EmitSerial ==
  ASSUME SInv, GInv', NEW t \in Threads, Alone(t), Emit(t)
  PROVE  SInv'
<1> DEFINE y == GoOn(th[t])
<1>1. /\ th[t].pc = "emit" /\ Become(t, y)
      /\ UNCHANGED << rec, nextSid, delivered, crashes >>
      /\ granted' = IF th[t].ev.type = "tool_execution_claimed"
                    THEN granted \cup { th[t].r.claim } ELSE granted
  BY DEF Emit
<1>2. /\ th[t].r \in OperationRecord /\ Safe(th[t]) /\ Serves(th[t]) /\ nextSid \in Nat
  BY <1>1, OwnFacts DEF SInv, GInv, IInv, TypeOK
<1>3. Turns(y, th[t].r) /\ y.pc \notin { "replace", "emit" }
  BY <1>1, <1>2, GoOnTurns DEF GoesOn
<1> HIDE DEF y
<1>4. \A g \in granted' : g \in granted \/ (rec # None /\ rec.claim # None /\ g.by = rec.claim.by)
  BY <1>1, <1>2 DEF Serves
<1>5. nextSid <= nextSid' /\ ~Saving(th[t])
  BY <1>1, <1>2 DEF Saving
<1> QED
  BY <1>1, <1>2, <1>3, <1>4, <1>5, TurnStep

LEMMA GrantApprovalSerial ==
  ASSUME SInv, GInv', NEW t \in Threads, Alone(t), GrantApproval(t)
  PROVE  SInv'
<1> DEFINE x == th[t]
           r == [x.r EXCEPT !.sid = nextSid, !.pending = { x.r.appCall } \ { None }]
<1>1. /\ x \in Thread /\ Good(x.r) /\ x.r \in OperationRecord /\ x.pc = "grant"
  BY OwnFacts DEF GrantApproval, SInv
<1>2. nextSid \in Nat \ { 0 }
  BY DEF SInv, GInv, IInv, TypeOK
<1>3. Good(r) /\ r.sid = nextSid /\ r.state = x.r.state /\ r.claim = x.r.claim
  BY <1>1, <1>2 DEF Good, OperationRecord
<1>4. /\ Become(t, Advance(x, r, "suspended_for_tool_result", "tool_execution_requested",
                           r.appCall, "return"))
      /\ UNCHANGED << rec, granted, delivered, crashes >>
      /\ nextSid' = IF CanMove(x.r, "suspended_for_tool_result") THEN nextSid + 1 ELSE nextSid
  BY DEF GrantApproval, seen
<1>5. nextSid <= nextSid' /\ ~Saving(x)
  BY <1>1, <1>2, <1>4 DEF Saving
<1>6. x.r = th[t].r /\ x.pc = th[t].pc /\ x = th[t]
  OBVIOUS
<1> HIDE DEF x, r
<1> QED
  BY <1>1, <1>3, <1>4, <1>5, <1>6, AdvanceStep

LEMMA RecordRetrySerial ==
  ASSUME SInv, GInv', NEW t \in Threads, Alone(t), RecordRetry(t)
  PROVE  SInv'
<1> DEFINE x == [th[t] EXCEPT !.key = None]
           r == [rec EXCEPT !.retried = @ \cup { th[t].key }]
           y == Persist(x, r, None, "return")
<1>1. /\ th[t].pc = "rekey" /\ th[t] \in Thread /\ th[t].key \in RetryKeys
      /\ Become(t, y) /\ UNCHANGED << rec, nextSid, granted, delivered, crashes >>
  BY HandlerFacts DEF RecordRetry, Safe, SInv, GInv, seen
<1>2. rec # None
  BY <1>1, ControllerAssumption DEF SInv, GInv, IInv
<1>3. rec \in OperationRecord /\ nextSid \in Nat
  BY <1>2, StoredFacts DEF SInv, GInv, IInv, TypeOK
<1>4. r.state = rec.state /\ r.sid = rec.sid /\ r.claim = rec.claim
  BY <1>3 DEF OperationRecord
<1>5. x \in Thread
  BY <1>1 DEF Thread
<1> HIDE DEF x, r
<1>6. y.pc = "write" /\ y.r = r
  BY <1>5 DEF Persist, Thread
<1> HIDE DEF y
<1>7. Turns(y, rec)
  BY <1>4, <1>6 DEF Turns
<1>8. nextSid <= nextSid' /\ ~Saving(th[t])
  BY <1>1, <1>3 DEF Saving
<1> QED
  BY <1>1, <1>3, <1>6, <1>7, <1>8, TurnStep

(* An adapter's results: a suspension under a fresh id, or another state.  *)
LEMMA SuspendSerial ==
  ASSUME SInv, GInv', NEW t \in Threads, Alone(t), th[t].pc # "idle", ~Saving(th[t]),
         NEW phase \in { "planning", "execution" },
         SuspendForApproval(t, phase) \/ SuspendForToolResult(t, phase),
         UNCHANGED << rec, granted, delivered, crashes >>
  PROVE  SInv'
<1>1. /\ th[t] \in Thread /\ Good(th[t].r) /\ th[t].r \in OperationRecord
  BY OwnFacts DEF SInv
<1>2. nextSid \in Nat \ { 0 } /\ nextSid' = nextSid + 1
  BY DEF SInv, GInv, IInv, TypeOK, SuspendForApproval, SuspendForToolResult
<1>3. nextSid <= nextSid'
  BY <1>2
<1>4. PICK r, s, type, call :
        /\ Become(t, Advance(th[t], r, s, type, call, "return"))
        /\ Good(r) /\ r.sid = nextSid /\ r.state = th[t].r.state /\ r.claim = th[t].r.claim
  <2>1. CASE SuspendForApproval(t, phase)
    <3>1. PICK c \in ApprovalCalls :
            Become(t, Advance(th[t], [th[t].r EXCEPT !.sid = nextSid, !.appCall = c,
                                                     !.phase = phase],
                              "suspended_for_approval", "tool_approval_requested", c, "return"))
      BY <2>1 DEF SuspendForApproval
    <3> DEFINE r == [th[t].r EXCEPT !.sid = nextSid, !.appCall = c, !.phase = phase]
    <3>2. Good(r) /\ r.sid = nextSid /\ r.state = th[t].r.state /\ r.claim = th[t].r.claim
      BY <1>1, <1>2 DEF Good, OperationRecord, Calls
    <3>3. Become(t, Advance(th[t], r, "suspended_for_approval", "tool_approval_requested", c,
                            "return"))
      BY <3>1
    <3> HIDE DEF r
    <3> QED
      BY <3>2, <3>3
  <2>2. CASE SuspendForToolResult(t, phase)
    <3>1. PICK calls \in SUBSET PlainCalls :
            Become(t, Advance(th[t], [th[t].r EXCEPT !.sid = nextSid, !.pending = calls,
                                                     !.phase = phase],
                              "suspended_for_tool_result", "tool_execution_requested", None,
                              "return"))
      BY <2>2 DEF SuspendForToolResult
    <3> DEFINE r == [th[t].r EXCEPT !.sid = nextSid, !.pending = calls, !.phase = phase]
    <3>2. Good(r) /\ r.sid = nextSid /\ r.state = th[t].r.state /\ r.claim = th[t].r.claim
      BY <1>1, <1>2 DEF Good, OperationRecord, Calls
    <3>3. Become(t, Advance(th[t], r, "suspended_for_tool_result", "tool_execution_requested",
                            None, "return"))
      BY <3>1
    <3> HIDE DEF r
    <3> QED
      BY <3>2, <3>3
  <2> QED
    BY <2>1, <2>2
<1> QED
  BY <1>1, <1>3, <1>4, AdvanceStep

LEMMA AdapterSerial ==
  ASSUME SInv, GInv', NEW t \in Threads, Alone(t), AdapterReturns(t)
  PROVE  SInv'
<1>1. /\ th[t].pc \in AdapterPC /\ UNCHANGED << rec, granted, delivered, crashes >>
  BY DEF AdapterReturns, PlanningReturns, ReviewReturns, FulfilmentReturns, ExecutionReturns,
         seen, AdapterPC
<1>2. th[t].pc # "idle" /\ ~Saving(th[t])
  BY <1>1 DEF AdapterPC, Saving
<1>3. /\ th[t] \in Thread /\ Good(th[t].r) /\ th[t].r \in OperationRecord /\ nextSid \in Nat
      /\ th[t].r.plan \in { "none", "plan", "failure" }
  BY <1>2, OwnFacts DEF SInv, GInv, IInv, TypeOK, OperationRecord
<1>4. CASE \E phase \in { "planning", "execution" } :
             SuspendForApproval(t, phase) \/ SuspendForToolResult(t, phase)
  BY <1>1, <1>2, <1>4, SuspendSerial
<1>5. ASSUME NEW plan \in { "none", "plan", "failure" }, NEW r,
             r \in { th[t].r, [th[t].r EXCEPT !.plan = plan] },
             NEW s, s # "suspended_for_tool_result", NEW type, NEW nxt,
             Become(t, Advance(th[t], r, s, type, None, nxt)), UNCHANGED nextSid
      PROVE  SInv'
  <2>1. Good(r) /\ r.state = th[t].r.state /\ r.claim = th[t].r.claim
    BY <1>3, <1>5 DEF Good, OperationRecord
  <2>2. nextSid <= nextSid'
    BY <1>3, <1>5
  <2> QED
    BY <1>1, <1>2, <1>3, <1>5, <2>1, <2>2, AdvanceStep
<1>6. CASE PlanningReturns(t)
  <2>1. ASSUME NEW plan \in { "plan", "failure" }, UNCHANGED nextSid,
               Become(t, Advance(th[t], [th[t].r EXCEPT !.plan = plan], "plan_ready", "none",
                                 None, "auto_review"))
        PROVE  SInv'
    BY <1>5, <2>1
  <2> QED
    BY <1>4, <1>6, <2>1 DEF PlanningReturns
<1>7. CASE ReviewReturns(t)
  <2>1. UNCHANGED nextSid
    BY <1>7 DEF ReviewReturns
  <2>2. ASSUME NEW plan \in { th[t].r.plan, "plan" },
               Become(t, Advance(th[t], [th[t].r EXCEPT !.plan = plan], "sandbox_ready",
                                 "aflow_review_completed", None, "auto_execute"))
        PROVE  SInv'
    BY <1>3, <1>5, <2>1, <2>2
  <2>3. ASSUME NEW s, s # "suspended_for_tool_result", NEW type, NEW nxt,
               Become(t, Advance(th[t], th[t].r, s, type, None, nxt))
        PROVE  SInv'
    BY <1>3, <1>5, <2>1, <2>3
  <2> QED
    BY <1>7, <2>2, <2>3 DEF ReviewReturns
<1>8. CASE FulfilmentReturns(t)
  <2>1. PICK s, nxt : /\ Become(t, Advance(th[t], th[t].r, s, "none", None, nxt))
                      /\ s # "suspended_for_tool_result"
    BY <1>8 DEF FulfilmentReturns
  <2>2. UNCHANGED nextSid
    BY <1>8 DEF FulfilmentReturns
  <2> QED
    BY <1>3, <1>5, <2>1, <2>2
<1>9. CASE ExecutionReturns(t)
  <2>1. ASSUME NEW s, s # "suspended_for_tool_result", NEW type, UNCHANGED nextSid,
               Become(t, Advance(th[t], th[t].r, s, type, None, "return"))
        PROVE  SInv'
    BY <1>3, <1>5, <2>1
  <2> QED
    BY <1>4, <1>9, <2>1 DEF ExecutionReturns
<1> QED
  BY <1>6, <1>7, <1>8, <1>9 DEF AdapterReturns

LEMMA CrashSerial ==
  ASSUME SInv, GInv', Crash
  PROVE  SInv'
<1>1. /\ th' = [t \in Threads |-> Idle] /\ crashes' = crashes + 1
      /\ UNCHANGED << rec, granted >>
  BY DEF Crash, seen
<1>2. \A t \in Threads : th'[t] = Idle /\ Idle.pc = "idle"
  BY <1>1 DEF Idle
<1>3. \A t \in Threads : Serves(th[t])'
  BY <1>2 DEF Serves
<1>4. crashes' # 0
  BY <1>1 DEF SInv, GInv, IInv, TypeOK
<1>5. OneBusy'
  BY <1>2 DEF OneBusy
<1> QED
  BY <1>1, <1>3, <1>4, <1>5 DEF SInv

LEMMA InitSerial == ASSUME Init PROVE SInv
<1>1. GInv
  BY InitGrants
<1>2. /\ rec = None /\ granted = {} /\ delivered = << >>
      /\ \A t \in Threads : th[t] = Idle
  BY DEF Init
<1>3. \A t \in Threads : Serves(th[t])
  BY <1>2 DEF Serves, Idle
<1>4. OnceInv
  BY <1>2 DEF OnceInv, Idle
<1> QED
  BY <1>1, <1>2, <1>3, <1>4 DEF SInv, OneBusy

(* The steps of a handler and of its adapters are those of a busy thread. *)
LEMMA StepIsAlone ==
  ASSUME OneBusy, NEW t \in Threads, HandlerStep(t) \/ AdapterReturns(t)
  PROVE  Alone(t)
<1>1. th[t].pc # "idle"
  BY DEF HandlerStep, Write, Replace, Emit, GrantApproval, RecordRetry,
         AdapterReturns, PlanningReturns, ReviewReturns, FulfilmentReturns, ExecutionReturns
<1> QED
  BY <1>1, BusyIsAlone

LEMMA NextSerial ==
  ASSUME SInv, [Next]_vars, [InTurn]_vars
  PROVE  SInv'
<1>1. GInv'
  BY NextGrants DEF SInv
<1>2. CASE UNCHANGED vars
  <2>1. UNCHANGED << rec, tmp, th, nextSid, granted, delivered, crashes >>
    BY <1>2 DEF vars, seen
  <2> QED
    BY <1>1, <2>1 DEF SInv, OneBusy, Serves, OnceInv
<1>3. CASE Crash
  BY <1>1, <1>3, CrashSerial
<1>4. ASSUME NEW t \in Threads, Request(t), InTurn
      PROVE  SInv'
  <2>1. Alone(t)
    BY <1>4, RequestIsAlone
  <2> QED
    BY <1>1, <1>4, <2>1, RegisterSerial, RequestSerial, ToolResultSerial, ClaimSerial,
       ApprovalDecisionSerial DEF Request
<1>5. ASSUME NEW t \in Threads, HandlerStep(t)
      PROVE  SInv'
  <2>1. Alone(t)
    BY <1>5, StepIsAlone DEF SInv
  <2> QED
    BY <1>1, <1>5, <2>1, WriteSerial, ReplaceSerial, EmitSerial, GrantApprovalSerial,
       RecordRetrySerial DEF HandlerStep
<1>6. ASSUME NEW t \in Threads, AdapterReturns(t)
      PROVE  SInv'
  <2>1. Alone(t)
    BY <1>6, StepIsAlone DEF SInv
  <2> QED
    BY <1>1, <1>6, <2>1, AdapterSerial
<1> QED
  BY <1>2, <1>3, <1>4, <1>5, <1>6 DEF Next

------------------------------------------------------------------------------
(* What the clients see. *)

(* The states in which something is asked of a client, under a new id.     *)
Asking == { "suspended_for_approval", "suspended_for_tool_result" }

Level(r, q) == r.state = q.state /\ r.history = q.history /\ r.sid = q.sid

(* The copy r is one transition further than q.                            *)
Ahead(r, q) ==
  /\ CanMove(q, r.state)
  /\ r.history = Append(q.history, [from |-> q.state, to |-> r.state])
  /\ r.state \in Asking => r.sid > q.sid
  /\ r.state \notin Asking => r.sid = q.sid

(* What the handler is to emit, or emits, is an event of this type.        *)
Announces(x, type) == (x.ev # None \/ x.pc = "emit") /\ x.ev.type = type

(* A handler of the stored record q saves after every transition, and      *)
(* announces only what belongs to the state it is in.                      *)
Leads(x, q) ==
  x.pc # "idle" =>
    /\ q = None => Saving(x) /\ x.r.state = "received" /\ x.r.history = << >> /\ x.r.sid = 0
    /\ q # None => Level(x.r, q) \/ (Saving(x) /\ Ahead(x.r, q))
    /\ x.nxt = "auto_execute" => x.r.state # "suspended_for_tool_result"
    /\ Announces(x, "tool_approval_resolved") => x.pc = "emit" /\ x.r.state \in SUSPENDED_STATES
    /\ Announces(x, "tool_execution_claimed") => x.r.state = "suspended_for_tool_result"

(* A save is one step of the lifecycle only if the copy saved is at most   *)
(* one transition ahead of the record it replaces, which no invariant so   *)
(* far says.                                                               *)
LInv ==
  /\ SInv
  /\ \A t \in Threads : Leads(th[t], rec)

LEMMA IdleLeads == \A q : Leads(Idle, q) /\ ~Saving(Idle)
BY DEF Leads, Idle, Saving

LEMMA AdvanceLeads ==
  ASSUME NEW x, x \in Thread, NEW q \in OperationRecord,
         NEW r, Good(r), r.state = q.state, r.history = q.history, NEW s,
         s \in Asking => r.sid > q.sid, s \notin Asking => r.sid = q.sid,
         NEW type, type # "tool_approval_resolved", type # "tool_execution_claimed", NEW call,
         NEW nxt, nxt = "auto_execute" => s # "suspended_for_tool_result"
  PROVE  /\ Leads(Advance(x, r, s, type, call, nxt), q)
         /\ Advance(x, r, s, type, call, nxt).pc = IF CanMove(q, s) THEN "write" ELSE "idle"
<1> DEFINE m == Move(r, s)
           ev == IF type = "none" THEN None ELSE Ev(type, m, call)
           y == Advance(x, r, s, type, call, nxt)
<1>1. CanMove(r, s) <=> CanMove(q, s)
  BY DEF CanMove
<1>2. CASE ~CanMove(r, s)
  <2>1. y = Idle /\ Idle.pc = "idle"
    BY <1>2 DEF Advance, Idle
  <2> HIDE DEF y
  <2>2. Leads(y, q) /\ y.pc = "idle"
    BY <2>1, IdleLeads
  <2> QED
    BY <1>1, <1>2, <2>2 DEF y
<1>3. CASE CanMove(r, s)
  <2>1. /\ m.state = s /\ m.sid = r.sid
        /\ m.history = Append(q.history, [from |-> q.state, to |-> s])
    BY DEF Move, Good, OperationRecord
  <2>2. ev # None => ev.type = type
    BY DEF Ev
  <2>3. y = Persist(x, m, ev, nxt)
    BY <1>3 DEF Advance
  <2> HIDE DEF m, ev
  <2>4. y.pc = "write" /\ y.r = m /\ y.ev = ev /\ y.nxt = nxt
    BY <2>3 DEF Persist, Thread
  <2> HIDE DEF y
  <2>5. q # None
    BY AbsenceAssumption
  <2>6. Ahead(y.r, q)
    BY <1>1, <1>3, <2>1, <2>4 DEF Ahead
  <2>7. Leads(y, q)
    BY <2>1, <2>2, <2>4, <2>5, <2>6 DEF Leads, Saving, Announces
  <2> QED
    BY <1>1, <1>3, <2>4, <2>7 DEF y
<1> QED
  BY <1>2, <1>3

(* A handler that leads, and is not leaving the suspension it waits in.    *)
Rests(y, q) ==
  /\ Leads(y, q)
  /\ q.state = "suspended_for_tool_result" => ~Saving(y)

(* After a save the handler is level with what it saved.  It does not      *)
(* leave the suspension it has just saved: the client's answer does.       *)
LEMMA GoOnLeads ==
  ASSUME NEW x, Safe(x), x.pc # "idle", NEW q \in OperationRecord, Level(x.r, q),
         x.nxt = "auto_execute" => x.r.state # "suspended_for_tool_result"
  PROVE  Rests(GoOn(x), q)
<1>1. x \in Thread /\ Good(x.r) /\ x.nxt \in Goal /\ q # None
  BY AbsenceAssumption DEF Safe, Thread, Goal
<1>2. ASSUME NEW pc \in { "rekey", "grant" } \cup AdapterPC
      PROVE  Rests([x EXCEPT !.pc = pc, !.ev = None], q)
  <2> DEFINE y == [x EXCEPT !.pc = pc, !.ev = None]
  <2>1. y.pc = pc /\ y.r = x.r /\ y.ev = None /\ y.nxt = x.nxt
    BY <1>1 DEF Thread
  <2> HIDE DEF y
  <2>2. Leads(y, q)
    BY <1>1, <2>1 DEF Leads, Announces, AdapterPC
  <2>3. ~Saving(y)
    BY <2>1 DEF Saving, AdapterPC
  <2> QED
    BY <2>2, <2>3 DEF y, Rests
<1>3. Rests(Finish(x), q)
  BY <1>2, IdleLeads DEF Finish, Rests
<1>4. ASSUME NEW s, s \notin Asking, NEW nxt,
             q.state = "suspended_for_tool_result" => ~CanMove(q, s)
      PROVE  Rests(Advance(x, x.r, s, "none", None, nxt), q)
  <2> DEFINE y == Advance(x, x.r, s, "none", None, nxt)
  <2>1. Leads(y, q) /\ y.pc = IF CanMove(q, s) THEN "write" ELSE "idle"
    <3>1. x.r.state = q.state /\ x.r.history = q.history /\ x.r.sid = q.sid
      BY DEF Level
    <3>2. s # "suspended_for_tool_result"
      BY <1>4 DEF Asking
    <3> QED
      BY <1>1, <1>4, <3>1, <3>2, AdvanceLeads
  <2> HIDE DEF y
  <2>2. q.state = "suspended_for_tool_result" => ~Saving(y)
    BY <1>4, <2>1 DEF Saving
  <2> QED
    BY <2>1, <2>2 DEF y, Rests
<1>5. CASE x.nxt = "return"
  BY <1>3, <1>5 DEF GoOn
<1>6. CASE x.nxt = "grant"
  BY <1>2, <1>6 DEF GoOn
<1>7. CASE x.nxt = "auto_review"
  <2> DEFINE n == IF x.ctx THEN "review" ELSE "return"
  <2>1. GoOn(x) = Advance(x, x.r, "reviewing", "none", None, n)
    BY <1>7 DEF GoOn
  <2>2. q.state = "suspended_for_tool_result" => ~CanMove(q, "reviewing")
    BY DEF CanMove, TRANSITIONS, OperationState
  <2> HIDE DEF n
  <2> QED
    BY <1>4, <2>1, <2>2 DEF Asking
<1>8. CASE x.nxt = "auto_execute"
  <2>1. CASE "execution" \in Adapters
    <3>1. GoOn(x) = Advance(x, x.r, "sandbox_running", "none", None, "execute")
      BY <1>8, <2>1 DEF GoOn
    <3>2. q.state # "suspended_for_tool_result"
      BY <1>8 DEF Level
    <3> QED
      BY <1>4, <3>1, <3>2 DEF Asking
  <2>2. CASE "execution" \notin Adapters
    BY <1>3, <1>8, <2>2 DEF GoOn
  <2> QED
    BY <2>1, <2>2
<1>9. CASE x.nxt \in AdapterPC
  <2>1. GoOn(x) = IF AdapterOf(x.nxt) \in Adapters
                  THEN [x EXCEPT !.pc = x.nxt, !.ev = None] ELSE Finish(x)
    BY <1>9 DEF GoOn, AdapterPC
  <2> QED
    BY <1>2, <1>3, <1>9, <2>1
<1> QED
  BY <1>1, <1>5, <1>6, <1>7, <1>8, <1>9 DEF Goal

(* The handler goes on to y.                                               *)
LEMMA LeadStep ==
  ASSUME LInv, SInv', NEW t \in Threads, Alone(t), NEW y, Become(t, y), Leads(y, rec')
  PROVE  LInv'
<1>1. \A u \in Threads : th'[u] = y \/ th'[u] = Idle
  BY AloneStep DEF LInv, SInv, GInv, IInv
<1>2. \A u \in Threads : Leads(th'[u], rec')
  BY <1>1, IdleLeads
<1> QED
  BY <1>2 DEF LInv

(* A handler that saves nothing is level with the stored record.           *)
LEMMA LevelFacts ==
  ASSUME LInv, NEW t \in Threads, th[t].pc # "idle", ~Saving(th[t])
  PROVE  /\ rec # None /\ rec \in OperationRecord /\ Level(th[t].r, rec)
         /\ rec.sid < nextSid /\ rec.sid \in Nat /\ nextSid \in Nat
<1>1. rec # None /\ Level(th[t].r, rec)
  BY DEF LInv, Leads
<1>2. rec \in OperationRecord /\ Held(rec)
  BY <1>1, StoredFacts DEF LInv, SInv
<1>3. CopyOK(rec, nextSid, events)
  BY <1>2 DEF LInv, SInv, GInv
<1> QED
  BY <1>1, <1>2, <1>3 DEF CopyOK, LInv, SInv, GInv, IInv, TypeOK, OperationRecord

(* A transition that a request or a handler attempts on the stored record  *)
(* or on a copy that is level with it.                                     *)
LEMMA AttemptLeads ==
  ASSUME LInv, SInv', NEW t \in Threads, Alone(t), NEW x, x \in Thread,
         rec # None, rec \in OperationRecord, rec.sid < nextSid,
         NEW r, Good(r), r.state = rec.state, r.history = rec.history, NEW s,
         (s \in Asking /\ r.sid = nextSid) \/ (s \notin Asking /\ r.sid = rec.sid),
         NEW type, type # "tool_approval_resolved", type # "tool_execution_claimed", NEW call,
         NEW nxt, nxt = "auto_execute" => s # "suspended_for_tool_result",
         Become(t, Advance(x, r, s, type, call, nxt)), UNCHANGED rec
  PROVE  LInv'
<1> DEFINE y == Advance(x, r, s, type, call, nxt)
<1>1. rec.sid \in Nat /\ nextSid \in Nat
  BY DEF LInv, SInv, GInv, IInv, TypeOK, OperationRecord
<1>2. Leads(y, rec)
  <2>1. s \in Asking => r.sid > rec.sid
    BY <1>1
  <2> QED
    BY <2>1, AdvanceLeads
<1> HIDE DEF y
<1>3. Become(t, y) /\ rec' = rec
  BY DEF y
<1> QED
  BY <1>2, <1>3, LeadStep

LEMMA LoadedFacts ==
  ASSUME LInv, NEW t \in Threads, Alone(t), Load(t)
  PROVE  /\ rec # None /\ Good(rec) /\ rec \in OperationRecord /\ rec.sid < nextSid
         /\ th[t].pc = "idle" /\ ~ClosingSeen /\ Idle \in Thread
<1>1. /\ rec # None /\ Good(rec) /\ rec \in OperationRecord
      /\ \A u \in Threads : ~Saving(th[u])
      /\ th[t].pc = "idle" /\ Idle \in Thread
  BY FreeFacts DEF LInv
<1>2. rec.sid < nextSid
  BY <1>1, StoredFacts DEF LInv, SInv, GInv, CopyOK
<1> QED
  BY <1>1, <1>2 DEF ClosingSeen, Saving

LEMMA ResumeIsNoAsking ==
  ResumeTarget(rec) \notin Asking /\ ResumeTarget(rec) # "suspended_for_tool_result"
BY DEF ResumeTarget, Asking

LEMMA RequestLeads ==
  ASSUME LInv, SInv', NEW t \in Threads, Alone(t),
         \/ \E withPlan \in BOOLEAN : Start(t, withPlan)
         \/ Cancel(t) \/ Resume(t)
         \/ \E named, calls : ToolResult(t, named, calls)
         \/ \E key \in RetryKeys : \E version : RetryAflow(t, key, version)
  PROVE  LInv'
<1>1. Load(t) /\ UNCHANGED rec
  BY DEF Start, Cancel, Resume, ToolResult, RetryAflow
<1>2. /\ rec # None /\ Good(rec) /\ rec \in OperationRecord /\ rec.sid < nextSid
      /\ Idle \in Thread
  BY <1>1, LoadedFacts
<1>3. ASSUME NEW x \in Thread, NEW s, s \notin Asking,
             NEW r, Good(r), Level(r, rec),
             NEW type \in { "none", "state_transition" }, NEW nxt,
             Become(t, Advance(x, r, s, type, None, nxt))
      PROVE  LInv'
  <2>1. s # "suspended_for_tool_result"
    BY <1>3 DEF Asking
  <2>2. type # "tool_approval_resolved" /\ type # "tool_execution_claimed"
    OBVIOUS
  <2> QED
    BY <1>1, <1>2, <1>3, <2>1, <2>2, AttemptLeads DEF Level
<1>4. Level(rec, rec)
  BY DEF Level
<1>5. "reviewing" \notin Asking /\ "planning" \notin Asking /\ "cancelled_by_user" \notin Asking
  BY DEF Asking
<1>6. CASE \E withPlan \in BOOLEAN : Start(t, withPlan)
  <2>1. CASE Become(t, Advance(Idle, [rec EXCEPT !.plan = "plan"], "reviewing", "none", None,
                               "review"))
    <3> DEFINE r == [rec EXCEPT !.plan = "plan"]
    <3>1. Good(r) /\ Level(r, rec)
      BY <1>2 DEF Good, OperationRecord, Level
    <3>2. Become(t, Advance(Idle, r, "reviewing", "none", None, "review"))
      BY <2>1
    <3> HIDE DEF r
    <3> QED
      BY <1>2, <1>3, <1>5, <3>1, <3>2
  <2>2. CASE Become(t, Advance(Idle, rec, "planning", "state_transition", None, "plan"))
    BY <1>2, <1>3, <1>4, <1>5, <2>2
  <2>3. CASE \E nxt : Become(t, Advance(Idle, rec, "reviewing", "none", None, nxt))
    BY <1>2, <1>3, <1>4, <1>5, <2>3
  <2> QED
    BY <1>6, <2>1, <2>2, <2>3 DEF Start
<1>7. CASE Cancel(t)
  BY <1>2, <1>3, <1>4, <1>5, <1>7 DEF Cancel
<1>8. CASE Resume(t)
  <2> DEFINE x == [Idle EXCEPT !.ctx = FALSE]
  <2>1. x \in Thread
    BY <1>2 DEF Thread
  <2>2. Become(t, Advance(x, rec, ResumeTarget(rec), "none", None,
                          AfterResume(ResumeTarget(rec))))
    BY <1>8 DEF Resume
  <2> HIDE DEF x
  <2> QED
    BY <1>2, <1>3, <1>4, <2>1, <2>2, ResumeIsNoAsking
<1>9. CASE \E named, calls : ToolResult(t, named, calls)
  <2> DEFINE r == [rec EXCEPT !.consumed = @ \/ rec.claim # None]
  <2>1. Good(r) /\ Level(r, rec)
    BY <1>2 DEF Good, OperationRecord, Level
  <2>2. Become(t, Advance(Idle, r, ResumeTarget(rec), "none", None,
                          AfterResume(ResumeTarget(rec))))
    BY <1>9 DEF ToolResult
  <2> HIDE DEF r
  <2> QED
    BY <1>2, <1>3, <2>1, <2>2, ResumeIsNoAsking
<1>10. CASE \E key \in RetryKeys : \E version : RetryAflow(t, key, version)
  <2>1. PICK key \in RetryKeys :
          Become(t, Advance([Idle EXCEPT !.key = key], rec, "reviewing", "none", None, "review"))
    BY <1>10 DEF RetryAflow
  <2> DEFINE x == [Idle EXCEPT !.key = key]
  <2>2. x \in Thread
    BY <1>2 DEF Thread
  <2>3. Become(t, Advance(x, rec, "reviewing", "none", None, "review"))
    BY <2>1
  <2> HIDE DEF x
  <2> QED
    BY <1>2, <1>3, <1>4, <1>5, <2>2, <2>3
<1> QED
  BY <1>6, <1>7, <1>8, <1>9, <1>10

LEMMA RegisterLeads ==
  ASSUME LInv, SInv', NEW t \in Threads, Alone(t), NEW kind, Register(t, kind)
  PROVE  LInv'
<1> DEFINE r == NewRecord(kind)
           ev == Ev("operation_created", r, None)
           y == Persist(Idle, r, ev, "return")
<1>1. rec = None /\ rec' = rec /\ Become(t, y)
  BY DEF Register
<1>2. /\ y.pc = "write" /\ y.r = r /\ y.nxt = "return" /\ y.ev.type = "operation_created"
      /\ r.state = "received" /\ r.history = << >> /\ r.sid = 0
  BY DEF Persist, Idle, NewRecord, Ev
<1> HIDE DEF r, y
<1>3. Leads(y, rec')
  BY <1>1, <1>2 DEF Leads, Saving, Announces
<1> QED
  BY <1>1, <1>3, LeadStep

LEMMA ClaimLeads ==
  ASSUME LInv, SInv', NEW t \in Threads, Alone(t), NEW claimant, NEW sid, NEW call,
         NEW digestOf, ClaimToolExecution(t, claimant, sid, call, digestOf)
  PROVE  LInv'
<1> DEFINE claim == [by |-> claimant, call |-> call, sid |-> sid]
           r == [rec EXCEPT !.claim = claim]
           ev == Ev("tool_execution_claimed", r, call)
           y == Persist(Idle, r, ev, "return")
<1>1. /\ Load(t) /\ rec' = rec /\ rec.state = "suspended_for_tool_result"
      /\ Become(t, y) \/ UNCHANGED th
  BY DEF ClaimToolExecution, ClaimMatches
<1>2. rec # None /\ rec \in OperationRecord
  BY <1>1, LoadedFacts
<1>3. CASE Become(t, y)
  <2>1. Level(r, rec)
    BY <1>2 DEF OperationRecord, Level
  <2>2. y.pc = "write" /\ y.r = r /\ y.nxt = "return" /\ y.ev = ev
    BY DEF Persist, Idle
  <2>3. ev.type = "tool_execution_claimed"
    BY DEF Ev
  <2> HIDE DEF r, ev, y
  <2>4. Leads(y, rec')
    BY <1>1, <1>2, <2>1, <2>2, <2>3 DEF Leads, Level, Announces
  <2> QED
    BY <1>3, <2>4, LeadStep
<1>4. CASE UNCHANGED th
  BY <1>1, <1>4 DEF LInv
<1> QED
  BY <1>1, <1>3, <1>4

LEMMA ApprovalDecisionLeads ==
  ASSUME LInv, SInv', NEW t \in Threads, Alone(t), NEW approved, NEW sid,
         ApprovalDecision(t, approved, sid)
  PROVE  LInv'
<1>1. Load(t) /\ rec' = rec /\ rec.state \in SUSPENDED_STATES
  BY DEF ApprovalDecision
<1>2. /\ rec # None /\ Good(rec) /\ rec \in OperationRecord /\ rec.sid < nextSid
      /\ Idle \in Thread
  BY <1>1, LoadedFacts
<1>3. CASE Become(t, Approved(rec))
  <2> DEFINE r == [rec EXCEPT !.decided = "approved", !.appSid = rec.sid]
             y == Approved(rec)
  <2>1. Level(r, rec)
    BY <1>2 DEF OperationRecord, Level
  <2>2. /\ y.pc = "emit" /\ y.r = r /\ y.nxt = "grant"
        /\ y.ev.type = "tool_approval_resolved"
    BY DEF Approved, Idle, Ev
  <2> HIDE DEF r, y
  <2>3. Leads(y, rec')
    BY <1>1, <1>2, <2>1, <2>2 DEF Leads, Level, Announces
  <2>4. Become(t, y)
    BY <1>3 DEF y
  <2> QED
    BY <2>3, <2>4, LeadStep
<1>4. CASE Become(t, Advance(Idle, [rec EXCEPT !.decided = "denied"], "cancelled_by_user",
                             "tool_approval_denied", rec.appCall, "return"))
  <2> DEFINE r == [rec EXCEPT !.decided = "denied"]
  <2>1. Good(r) /\ Level(r, rec)
    BY <1>2 DEF Good, OperationRecord, Level
  <2>2. Become(t, Advance(Idle, r, "cancelled_by_user", "tool_approval_denied", rec.appCall,
                          "return"))
    BY <1>4
  <2>3. "cancelled_by_user" \notin Asking
    BY DEF Asking
  <2> HIDE DEF r
  <2> QED
    BY <1>1, <1>2, <2>1, <2>2, <2>3, AttemptLeads DEF Level
<1> QED
  BY <1>3, <1>4 DEF ApprovalDecision

LEMMA WriteLeads ==
  ASSUME LInv, SInv', NEW t \in Threads, Alone(t), Write(t)
  PROVE  LInv'
<1> DEFINE x == th[t]
           y == [x EXCEPT !.pc = "replace"]
<1>1. x.pc = "write" /\ rec' = rec /\ Become(t, y)
  BY DEF Write
<1>2. x \in Thread /\ Leads(x, rec)
  BY <1>1, OwnFacts DEF LInv, SInv
<1>3. y.pc = "replace" /\ y.r = x.r /\ y.ev = x.ev /\ y.nxt = x.nxt
  BY <1>2 DEF Thread
<1> HIDE DEF x, y
<1>4. Leads(y, rec')
  BY <1>1, <1>2, <1>3 DEF Leads, Saving, Announces
<1> QED
  BY <1>1, <1>4, LeadStep

(* What a save stores, and what the handler does next.                     *)
LEMMA ReplaceFacts ==
  ASSUME LInv, NEW t \in Threads, Alone(t), Replace(t)
  PROVE  /\ th[t].pc = "replace" /\ th[t].r \in OperationRecord /\ rec' = th[t].r
         /\ UNCHANGED << nextSid, events, granted, delivered >>
         /\ \E y : Become(t, y) /\ Rests(y, rec')
<1> DEFINE x == th[t]
<1>1. x.pc = "replace" /\ UNCHANGED << nextSid, events, granted, delivered >>
  BY DEF Replace, seen
<1>2. /\ x \in Thread /\ x.r \in OperationRecord /\ Safe(x) /\ Serves(x)
  BY <1>1, OwnFacts DEF LInv, SInv
<1>3. tmp # None /\ tmp = x.r
  BY <1>1, <1>2, AbsenceAssumption DEF Serves
<1>4. rec' = x.r /\ Level(x.r, x.r)
  BY <1>3 DEF Replace, Level
<1>5. Leads(x, rec)
  BY DEF LInv
<1>6. CASE x.ev # None
  <2> DEFINE y == [x EXCEPT !.pc = "emit"]
  <2>1. Become(t, y)
    BY <1>3, <1>6 DEF Replace
  <2>2. y.pc = "emit" /\ y.r = x.r /\ y.ev = x.ev /\ y.nxt = x.nxt
    BY <1>2 DEF Thread
  <2>3. x.r # None
    BY <1>3
  <2> HIDE DEF x, y
  <2>4. Rests(y, x.r)
    BY <1>1, <1>4, <1>5, <1>6, <2>2, <2>3 DEF Leads, Rests, Saving, Announces
  <2> QED
    BY <1>1, <1>2, <1>4, <2>1, <2>4 DEF x
<1>7. CASE x.ev = None
  <2>1. Become(t, GoOn(x))
    BY <1>3, <1>7 DEF Replace
  <2>2. x.nxt = "auto_execute" => x.r.state # "suspended_for_tool_result"
    BY <1>1, <1>5 DEF Leads
  <2>3. x.pc # "idle"
    BY <1>1
  <2> HIDE DEF x
  <2>4. Rests(GoOn(x), x.r)
    BY <1>2, <1>4, <2>2, <2>3, GoOnLeads
  <2> QED
    BY <1>1, <1>2, <1>4, <2>1, <2>4 DEF x
<1> QED
  BY <1>6, <1>7

LEMMA ReplaceLeads ==
  ASSUME LInv, SInv', NEW t \in Threads, Alone(t), Replace(t)
  PROVE  LInv'
BY ReplaceFacts, LeadStep DEF Rests

LEMMA EmitFacts ==
  ASSUME LInv, NEW t \in Threads, Emit(t)
  PROVE  /\ rec # None /\ rec \in OperationRecord /\ Level(th[t].r, rec)
         /\ th[t].pc = "emit" /\ ~Saving(th[t])
         /\ Become(t, GoOn(th[t])) /\ Rests(GoOn(th[t]), rec)
<1> DEFINE x == th[t]
<1>1. x.pc = "emit" /\ Become(t, GoOn(x))
  BY DEF Emit
<1>2. x.pc # "idle" /\ ~Saving(x)
  BY <1>1 DEF Saving
<1>3. rec # None /\ rec \in OperationRecord /\ Level(x.r, rec)
  BY <1>2, LevelFacts
<1>4. Safe(x) /\ (x.nxt = "auto_execute" => x.r.state # "suspended_for_tool_result")
  BY <1>2, OwnFacts DEF LInv, SInv, Leads
<1> HIDE DEF x
<1>5. Rests(GoOn(x), rec)
  BY <1>2, <1>3, <1>4, GoOnLeads
<1> QED
  BY <1>1, <1>2, <1>3, <1>5 DEF x

LEMMA EmitLeads ==
  ASSUME LInv, SInv', NEW t \in Threads, Alone(t), Emit(t)
  PROVE  LInv'
<1>1. rec' = rec
  BY DEF Emit
<1> QED
  BY <1>1, EmitFacts, LeadStep DEF Rests

LEMMA GrantApprovalLeads ==
  ASSUME LInv, SInv', NEW t \in Threads, Alone(t), GrantApproval(t)
  PROVE  LInv'
<1> DEFINE x == th[t]
           r == [x.r EXCEPT !.sid = nextSid, !.pending = { x.r.appCall } \ { None }]
<1>1. x.pc = "grant" /\ rec' = rec
  BY DEF GrantApproval
<1>2. x.pc # "idle" /\ ~Saving(x)
  BY <1>1 DEF Saving
<1>3. /\ rec # None /\ rec \in OperationRecord /\ Level(x.r, rec) /\ rec.sid < nextSid
      /\ nextSid \in Nat
  BY <1>2, LevelFacts
<1>4. x \in Thread /\ Good(x.r)
  BY <1>2, OwnFacts DEF LInv, SInv
<1>5. Good(r) /\ r.sid = nextSid /\ r.state = rec.state /\ r.history = rec.history
  BY <1>3, <1>4 DEF Good, OperationRecord, Level
<1>6. Become(t, Advance(x, r, "suspended_for_tool_result", "tool_execution_requested",
                        r.appCall, "return"))
  BY DEF GrantApproval
<1>7. "suspended_for_tool_result" \in Asking
  BY DEF Asking
<1> HIDE DEF x, r
<1> QED
  BY <1>1, <1>3, <1>4, <1>5, <1>6, <1>7, AttemptLeads

LEMMA RecordRetryLeads ==
  ASSUME LInv, SInv', NEW t \in Threads, Alone(t), RecordRetry(t)
  PROVE  LInv'
<1> DEFINE x == [th[t] EXCEPT !.key = None]
           r == [rec EXCEPT !.retried = @ \cup { th[t].key }]
           y == Persist(x, r, None, "return")
<1>1. th[t].pc = "rekey" /\ Become(t, y) /\ rec' = rec
  BY DEF RecordRetry
<1>2. th[t].pc # "idle" /\ ~Saving(th[t])
  BY <1>1 DEF Saving
<1>3. rec # None /\ rec \in OperationRecord /\ th[t] \in Thread
  BY <1>2, LevelFacts, OwnFacts DEF LInv, SInv
<1>4. Level(r, rec)
  BY <1>3 DEF OperationRecord, Level
<1>5. x \in Thread
  BY <1>3 DEF Thread
<1> HIDE DEF x, r
<1>6. y.pc = "write" /\ y.r = r /\ y.ev = None /\ y.nxt = "return"
  BY <1>5 DEF Persist, Thread
<1> HIDE DEF y
<1>7. Leads(y, rec')
  BY <1>1, <1>3, <1>4, <1>6 DEF Leads, Announces
<1> QED
  BY <1>1, <1>7, LeadStep

LEMMA AdapterLeads ==
  ASSUME LInv, SInv', NEW t \in Threads, Alone(t), AdapterReturns(t)
  PROVE  LInv'
<1>1. th[t].pc \in AdapterPC /\ rec' = rec
  BY DEF AdapterReturns, PlanningReturns, ReviewReturns, FulfilmentReturns, ExecutionReturns,
         AdapterPC
<1>2. th[t].pc # "idle" /\ ~Saving(th[t])
  BY <1>1 DEF AdapterPC, Saving
<1>3. /\ rec # None /\ rec \in OperationRecord /\ Level(th[t].r, rec) /\ rec.sid < nextSid
      /\ nextSid \in Nat
  BY <1>2, LevelFacts
<1>4. /\ th[t] \in Thread /\ Good(th[t].r)
      /\ th[t].r.plan \in { "none", "plan", "failure" }
  BY <1>2, OwnFacts DEF LInv, SInv, OperationRecord
<1>5. ASSUME NEW phase \in { "planning", "execution" }, SuspendForApproval(t, phase)
      PROVE  LInv'
  <2>1. PICK c \in ApprovalCalls :
          Become(t, Advance(th[t], [th[t].r EXCEPT !.sid = nextSid, !.appCall = c,
                                                   !.phase = phase],
                            "suspended_for_approval", "tool_approval_requested", c, "return"))
    BY <1>5 DEF SuspendForApproval
  <2> DEFINE r == [th[t].r EXCEPT !.sid = nextSid, !.appCall = c, !.phase = phase]
  <2>2. Good(r) /\ r.sid = nextSid /\ r.state = th[t].r.state /\ r.history = th[t].r.history
    BY <1>3, <1>4 DEF Good, OperationRecord, Calls
  <2>3. Become(t, Advance(th[t], r, "suspended_for_approval", "tool_approval_requested", c,
                          "return"))
    BY <2>1
  <2>4. "suspended_for_approval" \in Asking
    BY DEF Asking
  <2> HIDE DEF r
  <2> QED
    BY <1>1, <1>3, <1>4, <2>2, <2>3, <2>4, AttemptLeads DEF Level
<1>6. ASSUME NEW phase \in { "planning", "execution" }, SuspendForToolResult(t, phase)
      PROVE  LInv'
  <2>1. PICK calls \in SUBSET PlainCalls :
          Become(t, Advance(th[t], [th[t].r EXCEPT !.sid = nextSid, !.pending = calls,
                                                   !.phase = phase],
                            "suspended_for_tool_result", "tool_execution_requested", None,
                            "return"))
    BY <1>6 DEF SuspendForToolResult
  <2> DEFINE r == [th[t].r EXCEPT !.sid = nextSid, !.pending = calls, !.phase = phase]
  <2>2. Good(r) /\ r.sid = nextSid /\ r.state = th[t].r.state /\ r.history = th[t].r.history
    <3>1. /\ th[t].r \in OperationRecord /\ IsPathTo(th[t].r.history, th[t].r.state)
          /\ nextSid \in Nat
      BY <1>3, <1>4 DEF Good
    <3>2. /\ r \in OperationRecord /\ r.sid = nextSid
          /\ r.state = th[t].r.state /\ r.history = th[t].r.history
      BY <3>1 DEF OperationRecord, Calls
    <3> QED
      BY <3>1, <3>2 DEF Good
  <2>3. Become(t, Advance(th[t], r, "suspended_for_tool_result", "tool_execution_requested",
                          None, "return"))
    BY <2>1
  <2>4. "suspended_for_tool_result" \in Asking
    BY DEF Asking
  <2> HIDE DEF r
  <2> QED
    BY <1>1, <1>3, <1>4, <2>2, <2>3, <2>4, AttemptLeads DEF Level
<1>7. ASSUME NEW plan \in { "none", "plan", "failure" }, NEW s, s \notin Asking,
             NEW type \in { "none", "aflow_review_completed", "aflow_issue_created",
                            "operation_completed", "operation_failed" }, NEW nxt,
             \/ Become(t, Advance(th[t], th[t].r, s, type, None, nxt))
             \/ Become(t, Advance(th[t], [th[t].r EXCEPT !.plan = plan], s, type, None, nxt))
      PROVE  LInv'
  <2>1. PICK r : /\ r \in { th[t].r, [th[t].r EXCEPT !.plan = plan] }
                 /\ Become(t, Advance(th[t], r, s, type, None, nxt))
    BY <1>7
  <2>2. Good(r) /\ r.state = rec.state /\ r.history = rec.history /\ r.sid = rec.sid
    BY <1>3, <1>4, <2>1 DEF Good, OperationRecord, Level
  <2>3. s # "suspended_for_tool_result"
    BY <1>7 DEF Asking
  <2>4. type # "tool_approval_resolved" /\ type # "tool_execution_claimed"
    OBVIOUS
  <2> QED
    BY <1>1, <1>3, <1>4, <1>7, <2>1, <2>2, <2>3, <2>4, AttemptLeads
<1>8. /\ "plan_ready" \notin Asking /\ "sandbox_ready" \notin Asking
      /\ "fulfilling" \notin Asking /\ "suspended_provider_recovery" \notin Asking
      /\ "suspended_evidence" \notin Asking /\ "reviewing" \notin Asking
      /\ "awaiting_decision" \notin Asking /\ "collecting_evidence" \notin Asking
      /\ "completed" \notin Asking /\ "cancelled_by_user" \notin Asking
  BY DEF Asking
<1>9. CASE PlanningReturns(t)
  BY <1>5, <1>6, <1>7, <1>8, <1>9 DEF PlanningReturns
<1>10. CASE ReviewReturns(t)
  <2>1. \A plan \in { th[t].r.plan, "plan" } : plan \in { "none", "plan", "failure" }
    BY <1>4
  <2> QED
    BY <1>7, <1>8, <1>10, <2>1 DEF ReviewReturns
<1>11. CASE FulfilmentReturns(t)
  BY <1>7, <1>8, <1>11 DEF FulfilmentReturns
<1>12. CASE ExecutionReturns(t)
  BY <1>5, <1>6, <1>7, <1>8, <1>12 DEF ExecutionReturns
<1> QED
  BY <1>9, <1>10, <1>11, <1>12 DEF AdapterReturns

LEMMA InitLeads == ASSUME Init PROVE LInv
BY InitSerial, IdleLeads DEF Init, LInv

LEMMA NextLeads ==
  ASSUME LInv, [Next]_vars, [InTurn]_vars
  PROVE  LInv'
<1>1. SInv'
  BY NextSerial DEF LInv
<1>2. CASE UNCHANGED vars
  BY <1>1, <1>2 DEF vars, LInv
<1>3. CASE Crash
  BY <1>1, <1>3, IdleLeads DEF Crash, LInv
<1>4. ASSUME NEW t \in Threads, Request(t), InTurn
      PROVE  LInv'
  <2>1. Alone(t)
    BY <1>4, RequestIsAlone
  <2> QED
    BY <1>1, <1>4, <2>1, RegisterLeads, RequestLeads, ClaimLeads, ApprovalDecisionLeads
       DEF Request
<1>5. ASSUME NEW t \in Threads, HandlerStep(t)
      PROVE  LInv'
  <2>1. Alone(t)
    BY <1>5, StepIsAlone DEF LInv, SInv
  <2> QED
    BY <1>1, <1>5, <2>1, WriteLeads, ReplaceLeads, EmitLeads, GrantApprovalLeads,
       RecordRetryLeads DEF HandlerStep
<1>6. ASSUME NEW t \in Threads, AdapterReturns(t)
      PROVE  LInv'
  <2>1. Alone(t)
    BY <1>6, StepIsAlone DEF LInv, SInv
  <2> QED
    BY <1>1, <1>6, <2>1, AdapterLeads
<1> QED
  BY <1>2, <1>3, <1>4, <1>5, <1>6 DEF Next

------------------------------------------------------------------------------
(* Each step is a step of the lifecycle, or none. *)

LifecycleStep == Lifecycle!Next \/ UNCHANGED Lifecycle!vars

(* While t is alone, the suspension is left by t or by nobody. *)
LEMMA ClosingOfOne ==
  ASSUME NEW t \in Threads, Alone(t)
  PROVE  ClosingSeen <=> /\ StateSeen = "suspended_for_tool_result"
                         /\ Saving(th[t]) /\ th[t].r.state # rec.state
<1>1. \A u \in Threads : Saving(th[u]) => u = t
  BY IdleServes DEF Alone
<1> QED
  BY <1>1 DEF ClosingSeen, Saving

(* A step that shows the clients nothing, but may start to leave the       *)
(* suspension.                                                             *)
LEMMA LeavesOrNothing ==
  ASSUME ~ClosingSeen, UNCHANGED << rec, granted, delivered, ApprovedSeen >>
  PROVE  LifecycleStep
<1>1. UNCHANGED << StateSeen, HistorySeen, SidSeen, AwaitedSeen, DeliveredSeen >>
  BY DEF StateSeen, HistorySeen, SidSeen, AwaitedSeen, DeliveredSeen
<1>2. CASE ~ClosingSeen'
  <2>1. ClosingSeen' = ClosingSeen
    BY <1>2 DEF ClosingSeen
  <2> QED
    BY <1>1, <2>1 DEF LifecycleStep, Lifecycle!vars, Lifecycle!offers, Lifecycle!outcomes
<1>3. CASE ClosingSeen'
  <2>1. StateSeen = "suspended_for_tool_result"
    BY <1>1, <1>3 DEF ClosingSeen
  <2>2. ClosingSeen' = TRUE
    BY <1>3 DEF ClosingSeen
  <2>3. Lifecycle!Leave(FALSE)
    BY <1>1, <2>1, <2>2 DEF Lifecycle!Leave, Lifecycle!Open, Lifecycle!offers
  <2> QED
    BY <2>3 DEF LifecycleStep, Lifecycle!Next
<1> QED
  BY <1>2, <1>3

LEMMA QuietIsStep ==
  ASSUME LInv, NEW t \in Threads, Alone(t), ~Saving(th[t]),
         UNCHANGED << rec, events, granted, delivered >>
  PROVE  LifecycleStep
<1>1. ~ClosingSeen
  BY ClosingOfOne
<1>2. UNCHANGED ApprovedSeen
  BY DEF ApprovedSeen
<1> QED
  BY <1>1, <1>2, LeavesOrNothing

LEMMA WriteIsNothing ==
  ASSUME LInv, LInv', NEW t \in Threads, Alone(t), Write(t)
  PROVE  LifecycleStep
<1>1. /\ th[t].pc = "write" /\ Become(t, [th[t] EXCEPT !.pc = "replace"])
      /\ UNCHANGED << rec, events, granted, delivered >>
  BY DEF Write, seen
<1>2. th[t] \in Thread /\ th \in [Threads -> Thread]
  BY DEF LInv, SInv, GInv, IInv, TypeOK
<1>3. th'[t].pc = "replace" /\ th'[t].r = th[t].r
  BY <1>1, <1>2 DEF Become, Thread
<1>4. UNCHANGED << StateSeen, HistorySeen, SidSeen, AwaitedSeen, ApprovedSeen, DeliveredSeen >>
  BY <1>1 DEF StateSeen, HistorySeen, SidSeen, AwaitedSeen, ApprovedSeen, DeliveredSeen
<1>5. ClosingSeen' <=> ClosingSeen
  <2>1. ClosingSeen' <=> /\ StateSeen' = "suspended_for_tool_result"
                         /\ Saving(th'[t]) /\ th'[t].r.state # rec'.state
    <3>1. \A u \in Threads : Saving(th'[u]) => u = t
      BY <1>1, AloneStep, IdleServes DEF LInv, SInv, GInv, IInv
    <3> QED
      BY <3>1 DEF ClosingSeen, Saving
  <2> QED
    BY <1>1, <1>3, <1>4, <2>1, ClosingOfOne DEF Saving
<1>6. ClosingSeen' = ClosingSeen
  BY <1>5 DEF ClosingSeen
<1> QED
  BY <1>1, <1>4, <1>6 DEF LifecycleStep, Lifecycle!vars, Lifecycle!offers, Lifecycle!outcomes

LEMMA CrashIsForget ==
  ASSUME LInv, Crash
  PROVE  LifecycleStep
<1>1. /\ \A t \in Threads : th'[t] = Idle
      /\ UNCHANGED << rec, events, granted, delivered >>
  BY DEF Crash, seen
<1>2. UNCHANGED << StateSeen, HistorySeen, SidSeen, AwaitedSeen, ApprovedSeen, DeliveredSeen >>
  BY <1>1 DEF StateSeen, HistorySeen, SidSeen, AwaitedSeen, ApprovedSeen, DeliveredSeen
<1>3. ClosingSeen' = FALSE
  BY <1>1 DEF ClosingSeen, Idle
<1>4. CASE ClosingSeen
  <2>1. Lifecycle!Forget
    BY <1>1, <1>2, <1>3, <1>4 DEF Lifecycle!Forget, Lifecycle!offers, Lifecycle!outcomes
  <2> QED
    BY <2>1 DEF LifecycleStep, Lifecycle!Next
<1>5. CASE ~ClosingSeen
  <2>1. ClosingSeen' = ClosingSeen
    BY <1>3, <1>5 DEF ClosingSeen
  <2> QED
    BY <1>1, <1>2, <2>1 DEF LifecycleStep, Lifecycle!vars, Lifecycle!offers, Lifecycle!outcomes
<1> QED
  BY <1>4, <1>5

(* Both modules take the table from OperationStates. *)
LEMMA SameTable ==
  /\ Lifecycle!OperationState = OperationState
  /\ Lifecycle!SUSPENDED_STATES = SUSPENDED_STATES
  /\ Lifecycle!TRANSITIONS = TRANSITIONS
<1>1. Lifecycle!OperationState = OperationState
  BY DEF Lifecycle!OperationState, OperationState
<1> QED
  BY <1>1 DEF Lifecycle!SUSPENDED_STATES, SUSPENDED_STATES, Lifecycle!TRANSITIONS, TRANSITIONS

LEMMA ReplaceIsStep ==
  ASSUME LInv, LInv', NEW t \in Threads, Alone(t), Replace(t)
  PROVE  LifecycleStep
<1> DEFINE r == th[t].r
<1>1. /\ th[t].pc = "replace" /\ r \in OperationRecord /\ rec' = r
      /\ UNCHANGED << nextSid, events, granted, delivered >>
  BY ReplaceFacts
<1>2. PICK y : Become(t, y) /\ Rests(y, r)
  BY <1>1, ReplaceFacts
<1>3. rec' # None /\ r # None
  BY <1>1, AbsenceAssumption
<1>4. /\ StateSeen' = r.state /\ HistorySeen' = r.history /\ SidSeen' = r.sid
      /\ AwaitedSeen' = IF r.state = "suspended_for_tool_result" THEN r.pending ELSE {}
  BY <1>1, <1>3 DEF StateSeen, HistorySeen, SidSeen, AwaitedSeen
<1>5. UNCHANGED << ApprovedSeen, granted, DeliveredSeen >>
  BY <1>1 DEF ApprovedSeen, DeliveredSeen
<1>6. ClosingSeen' = FALSE
  <2>1. \A u \in Threads : th'[u] = y \/ th'[u] = Idle
    BY <1>2, AloneStep DEF LInv, SInv, GInv, IInv
  <2>2. ~ClosingSeen'
    BY <1>2, <1>4, <2>1, IdleServes DEF ClosingSeen, Rests, Saving
  <2> QED
    BY <2>2 DEF ClosingSeen
<1>7. /\ Leads(th[t], rec) /\ Held(r) /\ CopyOK(r, nextSid, events)
  BY <1>1, OwnFacts DEF LInv, SInv, GInv
<1>8. CASE rec = None
  <2>1. /\ StateSeen = "absent" /\ HistorySeen = << >> /\ SidSeen = 0 /\ AwaitedSeen = {}
    BY <1>8 DEF StateSeen, HistorySeen, SidSeen, AwaitedSeen
  <2>2. ClosingSeen = FALSE
    BY <2>1 DEF ClosingSeen
  <2>3. r.state = "received" /\ r.history = << >> /\ r.sid = 0
    BY <1>1, <1>7, <1>8 DEF Leads
  <2> HIDE DEF r
  <2>4. Lifecycle!Create
    BY <1>4, <1>5, <1>6, <2>1, <2>2, <2>3
       DEF Lifecycle!Create, Lifecycle!offers, Lifecycle!outcomes
  <2> QED
    BY <2>4 DEF LifecycleStep, Lifecycle!Next
<1>9. CASE rec # None /\ Level(r, rec)
  <2>1. rec \in OperationRecord /\ Held(rec)
    BY <1>9, StoredFacts DEF LInv, SInv
  <2>2. r.pending = rec.pending
    BY <1>1, <1>7, <1>9, <2>1 DEF LInv, SInv, GInv, Level
  <2> HIDE DEF r
  <2>3. /\ StateSeen = r.state /\ HistorySeen = r.history /\ SidSeen = r.sid
        /\ AwaitedSeen = IF r.state = "suspended_for_tool_result" THEN r.pending ELSE {}
    BY <1>9, <2>2 DEF Level, StateSeen, HistorySeen, SidSeen, AwaitedSeen
  <2>4. ClosingSeen = FALSE
    <3>1. ~ClosingSeen
      BY <1>9, ClosingOfOne DEF Level, r
    <3> QED
      BY <3>1 DEF ClosingSeen
  <2> QED
    BY <1>4, <1>5, <1>6, <2>3, <2>4
       DEF LifecycleStep, Lifecycle!vars, Lifecycle!offers, Lifecycle!outcomes
<1>10. CASE rec # None /\ Ahead(r, rec)
  <2>1. /\ rec.state \in OperationState /\ r.state \in OperationState
        /\ rec.state # "absent"
    <3>1. rec \in OperationRecord
      BY <1>10, StoredFacts DEF LInv, SInv
    <3> QED
      BY <1>1, <3>1 DEF OperationRecord, OperationState
  <2>2. StateSeen = rec.state /\ HistorySeen = rec.history /\ SidSeen = rec.sid
    BY <1>10 DEF StateSeen, HistorySeen, SidSeen
  <2> HIDE DEF r
  <2>3. Lifecycle!Enter(r.state)
    BY <1>4, <1>6, <1>10, <2>1, <2>2, SameTable DEF Ahead, CanMove, Lifecycle!Enter
  <2>4. CASE r.state \notin Asking
    <3>1. Lifecycle!Proceed(r.state)
      BY <1>4, <1>5, <1>10, <2>2, <2>3, <2>4
         DEF Ahead, Asking, Lifecycle!Proceed, Lifecycle!outcomes
    <3> QED
      BY <2>1, <3>1, SameTable DEF LifecycleStep, Lifecycle!Next
  <2>5. CASE r.state = "suspended_for_approval"
    <3>1. Lifecycle!AskApproval
      BY <1>4, <1>5, <1>10, <2>2, <2>3, <2>5
         DEF Ahead, Asking, Lifecycle!AskApproval, Lifecycle!outcomes
    <3> QED
      BY <3>1 DEF LifecycleStep, Lifecycle!Next
  <2>6. CASE r.state = "suspended_for_tool_result"
    <3>1. r.pending \subseteq PlainCalls \cup ApprovedSeen
      <4> SUFFICES ASSUME NEW c \in r.pending, c \notin PlainCalls
                   PROVE  c \in ApprovedSeen
        OBVIOUS
      <4>1. c \in ApprovalCalls
        BY <1>1 DEF OperationRecord, Calls
      <4> QED
        BY <1>7, <4>1 DEF CopyOK, Resolved, ApprovedSeen
    <3>2. Lifecycle!AskExecution
      BY <1>4, <1>5, <1>10, <2>2, <2>3, <2>6, <3>1
         DEF Ahead, Asking, Lifecycle!AskExecution, Lifecycle!outcomes
    <3> QED
      BY <3>2 DEF LifecycleStep, Lifecycle!Next
  <2> QED
    BY <2>4, <2>5, <2>6 DEF Asking
<1> QED
  BY <1>1, <1>7, <1>8, <1>9, <1>10 DEF Leads

(* A grant is of a call the stored suspension awaits, to its one claimant. *)
LEMMA GrantIsExecute ==
  ASSUME LInv, ~ClosingSeen, ClosingSeen' = FALSE, NEW claim \in Claim,
         rec # None, rec.state = "suspended_for_tool_result",
         claim.sid = rec.sid, claim.call \in rec.pending, claim.by = rec.claim.by,
         granted' = granted \cup { claim }, UNCHANGED << rec, delivered, ApprovedSeen >>
  PROVE  LifecycleStep
<1>1. UNCHANGED << StateSeen, HistorySeen, SidSeen, AwaitedSeen, DeliveredSeen >>
  BY DEF StateSeen, HistorySeen, SidSeen, AwaitedSeen, DeliveredSeen
<1>2. StateSeen = "suspended_for_tool_result" /\ SidSeen = rec.sid /\ AwaitedSeen = rec.pending
  BY DEF StateSeen, SidSeen, AwaitedSeen
<1>3. ClosingSeen = FALSE
  BY DEF ClosingSeen
<1>4. /\ claim.by \in Claimants /\ claim.call \in PlainCalls \cup ApprovalCalls
      /\ claim = [by |-> claim.by, call |-> claim.call, sid |-> SidSeen]
  BY <1>2 DEF Claim, Calls
<1>5. \A e \in granted : e.by = claim.by
  BY DEF LInv, SInv
<1>6. Lifecycle!Execute(claim.by, claim.call)
  BY <1>1, <1>2, <1>3, <1>4, <1>5 DEF Lifecycle!Execute, Lifecycle!Open, Lifecycle!offers
<1> QED
  BY <1>4, <1>6 DEF LifecycleStep, Lifecycle!Next

LEMMA FunctionIsSeq ==
  ASSUME NEW n \in Nat, NEW f \in [1 .. n -> Nat]
  PROVE  f \in Seq(Nat) /\ Len(f) = n
OBVIOUS

(* The suspensions left grow with the log. *)
LEMMA LeftOfAppend ==
  ASSUME NEW log \in Seq([named : Nat, left : Nat]), NEW e \in [named : Nat, left : Nat]
  PROVE  [i \in DOMAIN Append(log, e) |-> Append(log, e)[i].left]
           = Append([i \in DOMAIN log |-> log[i].left], e.left)
<1> DEFINE left == [i \in DOMAIN log |-> log[i].left]
           more == Append(log, e)
<1>1. /\ Len(log) \in Nat /\ DOMAIN log = 1 .. Len(log)
      /\ more \in Seq([named : Nat, left : Nat]) /\ Len(more) = Len(log) + 1
      /\ DOMAIN more = 1 .. Len(log) + 1
      /\ \A i \in 1 .. Len(log) : more[i] = log[i]
      /\ more[Len(log) + 1] = e
  OBVIOUS
<1>2. \A i \in 1 .. Len(log) : log[i].left \in Nat
  <2>1. \A i \in 1 .. Len(log) : log[i] \in [named : Nat, left : Nat]
    BY EntryOfLog
  <2> QED
    BY <2>1
<1>3. left \in [1 .. Len(log) -> Nat]
  BY <1>1, <1>2
<1>4. left \in Seq(Nat) /\ Len(left) = Len(log) /\ \A i \in 1 .. Len(log) : left[i] = log[i].left
  <2>1. \A i \in 1 .. Len(log) : left[i] = log[i].left
    BY <1>1
  <2> HIDE DEF left
  <2> QED
    BY <1>1, <1>3, <2>1, FunctionIsSeq
<1> HIDE DEF left, more
<1>5. /\ Append(left, e.left) \in Seq(Nat) /\ DOMAIN Append(left, e.left) = 1 .. Len(log) + 1
      /\ Append(left, e.left)[Len(log) + 1] = e.left
      /\ \A i \in 1 .. Len(log) : Append(left, e.left)[i] = left[i]
  BY <1>1, <1>4
<1>6. \A i \in DOMAIN more : more[i].left = Append(left, e.left)[i]
  <2> TAKE i \in DOMAIN more
  <2>1. i \in 1 .. Len(log) \/ i = Len(log) + 1
    BY <1>1
  <2>2. CASE i \in 1 .. Len(log)
    BY <1>1, <1>4, <1>5, <2>2
  <2>3. CASE i = Len(log) + 1
    BY <1>1, <1>5, <2>3
  <2> QED
    BY <2>1, <2>2, <2>3
<1>7. Append(left, e.left) = [i \in DOMAIN Append(left, e.left) |-> Append(left, e.left)[i]]
  BY <1>5
<1>8. [i \in DOMAIN more |-> more[i].left] = Append(left, e.left)
  BY <1>1, <1>5, <1>6, <1>7
<1> QED
  BY <1>8 DEF left, more

LEMMA EmitIsStep ==
  ASSUME LInv, LInv', NEW t \in Threads, Alone(t), Emit(t)
  PROVE  LifecycleStep
<1> DEFINE x == th[t]
<1>1. /\ rec # None /\ rec \in OperationRecord /\ Level(x.r, rec)
      /\ x.pc = "emit" /\ ~Saving(x)
      /\ Become(t, GoOn(x)) /\ Rests(GoOn(x), rec)
  BY EmitFacts
<1>2. /\ events' = events \cup { x.ev } /\ UNCHANGED << rec, delivered >>
      /\ granted' = IF x.ev.type = "tool_execution_claimed"
                    THEN granted \cup { x.r.claim } ELSE granted
  BY DEF Emit
<1>3. /\ x \in Thread /\ Safe(x) /\ Serves(x) /\ Leads(x, rec) /\ HandlerOK(x, events)
      /\ x.r \in OperationRecord /\ Held(x.r) /\ x.ev \in Event
  BY <1>1, OwnFacts DEF LInv, SInv, Safe
<1>4. ~ClosingSeen /\ ClosingSeen = FALSE
  <2>1. ~ClosingSeen
    BY <1>1, ClosingOfOne
  <2> QED
    BY <2>1 DEF ClosingSeen
<1>5. ClosingSeen' = FALSE
  <2> DEFINE y == GoOn(x)
  <2>1. \A u \in Threads : th'[u] = y \/ th'[u] = Idle
    BY <1>1, AloneStep DEF LInv, SInv, GInv, IInv
  <2>2. StateSeen' = rec.state
    BY <1>1, <1>2 DEF StateSeen
  <2>3. Rests(y, rec)
    BY <1>1
  <2> HIDE DEF x, y
  <2>4. ~ClosingSeen'
    BY <2>1, <2>2, <2>3, IdleServes DEF ClosingSeen, Rests, Saving
  <2> QED
    BY <2>4 DEF ClosingSeen
<1>6. UNCHANGED << StateSeen, HistorySeen, SidSeen, AwaitedSeen, DeliveredSeen >>
  BY <1>2 DEF StateSeen, HistorySeen, SidSeen, AwaitedSeen, DeliveredSeen
<1>7. \A type : x.ev.type = type => Announces(x, type)
  BY <1>1 DEF Announces
<1> HIDE DEF x
<1>8. CASE x.ev.type = "tool_approval_resolved"
  <2>1. UNCHANGED granted
    BY <1>2, <1>8
  <2>2. CASE x.ev.call \in ApprovalCalls
    <3>1. ApprovedSeen' = ApprovedSeen \cup { x.ev.call }
      BY <1>2, <1>8, <2>2 DEF ApprovedSeen
    <3>2. StateSeen \in SUSPENDED_STATES
      BY <1>1, <1>3, <1>7, <1>8 DEF Leads, Level, StateSeen
    <3>3. Lifecycle!Approve(x.ev.call)
      BY <1>4, <1>5, <1>6, <2>1, <3>1, <3>2, SameTable DEF Lifecycle!Approve, Lifecycle!offers
    <3> QED
      BY <2>2, <3>3 DEF LifecycleStep, Lifecycle!Next
  <2>3. CASE x.ev.call \notin ApprovalCalls
    <3>1. UNCHANGED ApprovedSeen
      BY <1>2, <2>3 DEF ApprovedSeen
    <3> QED
      BY <1>2, <1>4, <2>1, <3>1, LeavesOrNothing
  <2> QED
    BY <2>2, <2>3
<1>9. CASE x.ev.type # "tool_approval_resolved"
  <2>1. UNCHANGED ApprovedSeen
    BY <1>2, <1>9 DEF ApprovedSeen
  <2>2. CASE x.ev.type = "tool_execution_claimed"
    <3>1. /\ x.r.claim \in Claim /\ x.r.claim.sid = x.r.sid /\ x.r.claim.call \in x.r.pending
      BY <1>1, <1>3, <2>2 DEF Safe, HandlerOK
    <3>2. x.r.sid = rec.sid /\ x.r.pending = rec.pending
      <4>1. x.r.sid = rec.sid /\ Held(rec)
        BY <1>1, StoredFacts DEF Level, LInv, SInv
      <4> QED
        BY <1>1, <1>3, <4>1 DEF LInv, SInv, GInv
    <3>3. x.r.claim.by = rec.claim.by
      BY <1>1, <1>3, <2>2 DEF Serves
    <3>4. rec.state = "suspended_for_tool_result"
      BY <1>1, <1>3, <1>7, <2>2 DEF Leads, Level
    <3>5. granted' = granted \cup { x.r.claim }
      BY <1>2, <2>2
    <3> QED
      BY <1>1, <1>2, <1>4, <1>5, <2>1, <3>1, <3>2, <3>3, <3>4, <3>5, GrantIsExecute
  <2>3. CASE x.ev.type # "tool_execution_claimed"
    BY <1>2, <1>4, <2>1, <2>3, LeavesOrNothing
  <2> QED
    BY <2>2, <2>3
<1> QED
  BY <1>8, <1>9

LEMMA ClaimIsStep ==
  ASSUME LInv, LInv', NEW t \in Threads, Alone(t), NEW claimant \in Claimants, NEW sid,
         NEW call \in Calls, NEW digestOf, ClaimToolExecution(t, claimant, sid, call, digestOf)
  PROVE  LifecycleStep
<1> DEFINE claim == [by |-> claimant, call |-> call, sid |-> sid]
<1>1. /\ Load(t) /\ UNCHANGED << rec, events, delivered >>
      /\ rec.state = "suspended_for_tool_result" /\ sid = rec.sid /\ call \in rec.pending
      /\ ~CompetingClaim(claimant)
      /\ \/ rec.claim = None /\ UNCHANGED granted
         \/ rec.claim # None /\ granted' = granted \cup { claim } /\ UNCHANGED th
  BY DEF ClaimToolExecution, ClaimMatches
<1>2. rec # None /\ rec \in OperationRecord /\ ~ClosingSeen
  BY <1>1, LoadedFacts
<1>3. UNCHANGED ApprovedSeen
  BY <1>1 DEF ApprovedSeen
<1>4. CASE UNCHANGED granted
  BY <1>1, <1>2, <1>3, <1>4, LeavesOrNothing
<1>5. CASE rec.claim # None /\ granted' = granted \cup { claim } /\ UNCHANGED th
  <2>1. claim \in Claim /\ claim.sid = rec.sid /\ claim.call = call /\ claim.by = claimant
    BY <1>1, <1>2 DEF Claim, OperationRecord
  <2>2. claim.by = rec.claim.by
    BY <1>1, <1>5, <2>1 DEF CompetingClaim
  <2>3. ClosingSeen' = FALSE
    <3>1. ~ClosingSeen'
      BY <1>1, <1>2, <1>5 DEF ClosingSeen, StateSeen
    <3> QED
      BY <3>1 DEF ClosingSeen
  <2> HIDE DEF claim
  <2> QED
    BY <1>1, <1>2, <1>3, <1>5, <2>1, <2>2, <2>3, GrantIsExecute
<1> QED
  BY <1>1, <1>4, <1>5

(* The results of the suspension are taken as the request leaves it.       *)
LEMMA ToolResultIsLeave ==
  ASSUME LInv, LInv', NEW t \in Threads, Alone(t), NEW named \in Nat, NEW calls,
         ToolResult(t, named, calls)
  PROVE  LifecycleStep
<1> DEFINE target == ResumeTarget(rec)
           r == [rec EXCEPT !.consumed = @ \/ rec.claim # None]
           e == [named |-> named, left |-> rec.sid]
           y == Advance(Idle, r, target, "none", None, AfterResume(target))
<1>1. /\ Load(t) /\ CanMove(rec, target) /\ Become(t, y)
      /\ delivered' = IF rec.state = "suspended_for_tool_result"
                      THEN Append(delivered, e) ELSE delivered
      /\ UNCHANGED << rec, events, granted >>
  BY DEF ToolResult
<1>2. rec # None /\ Good(rec) /\ rec \in OperationRecord /\ ~ClosingSeen /\ Idle \in Thread
  BY <1>1, LoadedFacts
<1>3. UNCHANGED ApprovedSeen
  BY <1>1 DEF ApprovedSeen
<1>4. CASE rec.state # "suspended_for_tool_result"
  BY <1>1, <1>2, <1>3, <1>4, LeavesOrNothing
<1>5. CASE rec.state = "suspended_for_tool_result"
  <2>1. UNCHANGED << StateSeen, HistorySeen, SidSeen, AwaitedSeen >>
    BY <1>1 DEF StateSeen, HistorySeen, SidSeen, AwaitedSeen
  <2>2. StateSeen = "suspended_for_tool_result" /\ SidSeen = rec.sid
    BY <1>2, <1>5 DEF StateSeen, SidSeen
  <2>3. DeliveredSeen' = Append(DeliveredSeen, rec.sid)
    <3>1. delivered \in Seq([named : Nat, left : Nat]) /\ delivered' = Append(delivered, e)
      BY <1>1, <1>5 DEF LInv, SInv, GInv, IInv, TypeOK
    <3>2. e \in [named : Nat, left : Nat] /\ e.left = rec.sid
      BY <1>2 DEF OperationRecord
    <3> HIDE DEF e
    <3> QED
      BY <3>1, <3>2, LeftOfAppend DEF DeliveredSeen
  <2>4. y.pc = "write" /\ y.r.state = target
    <3>1. CanMove(r, target) /\ Good(r)
      BY <1>1, <1>2 DEF CanMove, OperationRecord, Good
    <3> DEFINE m == Move(r, target)
    <3>2. m.state = target
      BY <3>1 DEF Move, Good, OperationRecord
    <3>3. y = Persist(Idle, m, None, AfterResume(target))
      BY <3>1 DEF Advance
    <3> HIDE DEF m, r, y, target
    <3> QED
      BY <3>2, <3>3 DEF Persist, Idle
  <2>5. target # rec.state
    BY <1>5, ResumeIsNoAsking
  <2>6. ClosingSeen' = TRUE
    <3> HIDE DEF y, target
    <3>1. th'[t] = y
      BY <1>1 DEF Become, LInv, SInv, GInv, IInv, TypeOK
    <3>2. ClosingSeen'
      BY <1>1, <2>1, <2>2, <2>4, <2>5, <3>1 DEF ClosingSeen
    <3> QED
      BY <3>2 DEF ClosingSeen
  <2>7. Lifecycle!Leave(TRUE)
    BY <1>1, <1>2, <1>3, <2>1, <2>2, <2>3, <2>6
       DEF Lifecycle!Leave, Lifecycle!Open, Lifecycle!offers
  <2> QED
    BY <2>7 DEF LifecycleStep, Lifecycle!Next
<1> QED
  BY <1>4, <1>5

LEMMA NextIsStep ==
  ASSUME LInv, [Next]_vars, [InTurn]_vars
  PROVE  LifecycleStep
<1>1. LInv'
  BY NextLeads
<1>2. CASE UNCHANGED vars
  <2>1. UNCHANGED << StateSeen, HistorySeen, SidSeen, AwaitedSeen, ApprovedSeen, DeliveredSeen,
                     granted, ClosingSeen >>
    BY <1>2 DEF vars, seen, StateSeen, HistorySeen, SidSeen, AwaitedSeen, ApprovedSeen,
                DeliveredSeen, ClosingSeen
  <2> QED
    BY <2>1 DEF LifecycleStep, Lifecycle!vars, Lifecycle!offers, Lifecycle!outcomes
<1>3. CASE Crash
  BY <1>3, CrashIsForget
<1>4. ASSUME NEW t \in Threads, Request(t), InTurn
      PROVE  LifecycleStep
  <2>a. Alone(t)
    BY <1>4, RequestIsAlone
  <2>1. CASE \E kind \in Kinds : Register(t, kind)
    <3>1. ~Saving(th[t]) /\ UNCHANGED << rec, events, granted, delivered >>
      BY <2>1 DEF Register, Idle, Saving, seen
    <3> QED
      BY <2>a, <3>1, QuietIsStep
  <2>2. CASE \/ (\E withPlan \in BOOLEAN : Start(t, withPlan)) \/ Cancel(t) \/ Resume(t)
             \/ (\E sid \in Asked("tool_approval_requested") \cup { 0 }, approved \in BOOLEAN :
                   ApprovalDecision(t, approved, sid))
             \/ (\E key \in RetryKeys, version \in 0 .. Len(rec.history) :
                   RetryAflow(t, key, version))
    <3>1. ~Saving(th[t]) /\ UNCHANGED << rec, events, granted, delivered >>
      BY <2>2 DEF Start, Cancel, Resume, ApprovalDecision, RetryAflow, Load, Saving, seen
    <3> QED
      BY <2>a, <3>1, QuietIsStep
  <2>3. CASE \E sid \in Asked("tool_execution_requested"), c \in Claimants,
                call, digestOf \in Calls : ClaimToolExecution(t, c, sid, call, digestOf)
    BY <1>1, <2>a, <2>3, ClaimIsStep
  <2>4. CASE \E sid \in Asked("tool_execution_requested"), calls \in SUBSET Calls :
               ToolResult(t, sid, calls)
    <3>1. Asked("tool_execution_requested") \subseteq Nat
      BY AskedNat DEF LInv, SInv, GInv
    <3> QED
      BY <1>1, <2>a, <2>4, <3>1, ToolResultIsLeave
  <2> QED
    BY <1>4, <2>1, <2>2, <2>3, <2>4 DEF Request
<1>5. ASSUME NEW t \in Threads, HandlerStep(t)
      PROVE  LifecycleStep
  <2>a. Alone(t)
    BY <1>5, StepIsAlone DEF LInv, SInv
  <2>1. CASE GrantApproval(t) \/ RecordRetry(t)
    <3>1. ~Saving(th[t]) /\ UNCHANGED << rec, events, granted, delivered >>
      BY <2>1 DEF GrantApproval, RecordRetry, Saving, seen
    <3> QED
      BY <2>a, <3>1, QuietIsStep
  <2> QED
    BY <1>1, <1>5, <2>a, <2>1, WriteIsNothing, ReplaceIsStep, EmitIsStep DEF HandlerStep
<1>6. ASSUME NEW t \in Threads, AdapterReturns(t)
      PROVE  LifecycleStep
  <2>1. ~Saving(th[t]) /\ UNCHANGED << rec, events, granted, delivered >>
    BY <1>6 DEF AdapterReturns, PlanningReturns, ReviewReturns, FulfilmentReturns,
                ExecutionReturns, Saving, seen
  <2>2. Alone(t)
    BY <1>6, StepIsAlone DEF LInv, SInv
  <2> QED
    BY <2>1, <2>2, QuietIsStep
<1> QED
  BY <1>2, <1>3, <1>4, <1>5, <1>6 DEF Next

(* However many handlers there are, as long as none takes a request while  *)
(* another is serving one, whatever the adapters return and                *)
(* wherever the process dies, each save of the controller is one           *)
(* transition of the lifecycle, each claim it grants is of a call that the *)
(* stored suspension awaits and has approval for, and a suspension is left *)
(* by the request that takes its results (controller.py).                  *)
THEOREM HandlersKeepLifecycle == Spec /\ [][InTurn]_vars => ImplementsLifecycle
<1>1. Init => Lifecycle!Init
  <2> SUFFICES ASSUME Init PROVE Lifecycle!Init
    OBVIOUS
  <2>1. /\ StateSeen = "absent" /\ HistorySeen = << >> /\ SidSeen = 0 /\ AwaitedSeen = {}
        /\ ApprovedSeen = {} /\ granted = {}
    BY DEF Init, StateSeen, HistorySeen, SidSeen, AwaitedSeen, ApprovedSeen
  <2>2. DeliveredSeen = << >>
    BY DEF Init, DeliveredSeen
  <2>3. ClosingSeen = FALSE
    BY <2>1 DEF ClosingSeen
  <2> QED
    BY <2>1, <2>2, <2>3 DEF Lifecycle!Init
<1>2. LInv /\ [Next]_vars /\ [InTurn]_vars => [Lifecycle!Next]_(Lifecycle!vars)
  BY NextIsStep DEF LifecycleStep
<1>3. Init => LInv
  BY InitLeads
<1>4. LInv /\ [Next]_vars /\ [InTurn]_vars => LInv'
  BY NextLeads
<1> QED
  BY <1>1, <1>2, <1>3, <1>4, PTL DEF Spec, ImplementsLifecycle, Lifecycle!Spec
=============================================================================
