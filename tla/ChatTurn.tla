------------------------------ MODULE ChatTurn ------------------------------
(***************************************************************************)
(* Operator chat: a browser tab (taskStore.ts, BackendChatSource.ts,       *)
(* toolExecutor.ts) and the chat backend (chat_orchestrator.py, routes).   *)
(* The tab sends a message, the backend asks the model, and a reply with   *)
(* tool calls suspends the turn in the server's memory until the tab has   *)
(* run the tools, or the operator has decided, and continues it.           *)
(*                                                                         *)
(* A task is a message of the tab and the turn it starts.  Cancelling one  *)
(* does not stop the thread that serves it.  A tool call stands for its    *)
(* tool; a reply calls a tool at most once.                                *)
(***************************************************************************)
EXTENDS Naturals, FiniteSets

CONSTANTS
  Backend,   \* registered tools the server runs itself
  Frontend,  \* registered tools the tab runs unasked
  Guarded,   \* registered tools that require approval
  Replies,   \* of a message: the sets of names a reply of the model may call
  Null,
  MaxLoops,  \* MAX_TOOL_LOOPS
  MaxTasks   \* bound: messages sent

ASSUME ChatAssumption ==
  /\ \A t \in 1 .. MaxTasks : {} \notin Replies[t]
  /\ Null \notin Frontend \cup (1 .. MaxTasks) /\ MaxLoops \in Nat \ {0} /\ MaxTasks \in Nat

VARIABLES
  loading, turn,     \* taskStore: an agent works; whose turn it is
  current, aborted,  \* the task cancel() would stop; tasks whose signal is aborted
  pc,                \* of a task: its _dispatch
  left, results,     \* of a task: the calls to run, and those that have a result
  running,           \* of a task: the call that is awaited
  response,          \* of a task: the HTTP response on its way
  server,            \* of a task: the thread that serves its request
  doomed,            \* of a thread: the turns it found expired
  stored,            \* _turn_states: the reply each suspended turn waits for
  old,               \* turns past their time to live
  loops,             \* TurnState.loop_iteration
  exchange,          \* TurnState.messages since the last provider call: calls asked and answered
  provider,          \* the provider that is configured
  ends, late         \* history: tasks that ended; aborted tasks heard of since

tab     == << loading, turn, current, aborted, pc, left, results, running >>
memory  == << stored, old, loops, exchange >>
history == << provider, ends, late >>
chatVars == << tab, response, server, doomed, memory, history >>

Tasks == 1 .. MaxTasks
Tools == Backend \cup Frontend \cup Guarded

(* handleEvent: whatever its task, an event that is not terminal marks the *)
(* store as loading; a terminal one returns the turn to the user.          *)
Working == loading' = TRUE /\ turn' = turn
Ends(t) ==
  /\ loading' = FALSE /\ turn' = "user"
  /\ ends' = ends \cup { t }

Emitted(t) == late' = IF t \in aborted THEN late \cup { t } ELSE late

------------------------------------------------------------------------------
(* The tab *)

(* _dispatch emits the events of a task at work and posts the message. *)
PostMessage(t) ==
  /\ pc' = [pc EXCEPT ![t] = "posted"]
  /\ server' = [server EXCEPT ![t] = "start"]

(* start aborts the task before, should it still run. *)
Start(t) ==
  /\ aborted' = IF current = Null THEN aborted ELSE aborted \cup { current }
  /\ current' = t
  /\ PostMessage(t)

(* sendMessage: out of turn messages are ignored. *)
Send(t) ==
  /\ turn = "user" /\ ~ loading
  /\ pc[t] = "new" /\ \A u \in Tasks : u < t => pc[u] # "new"
  /\ loading' = TRUE /\ turn' = "agent"
  /\ Start(t)
  /\ UNCHANGED << left, results, running, response, doomed, memory, history >>

(* The cancel button, shown while a task runs. *)
Cancel ==
  /\ loading /\ current # Null
  /\ aborted' = aborted \cup { current }
  /\ current' = Null
  /\ Ends(current)
  /\ UNCHANGED << pc, left, results, running, response, server, doomed, memory, provider, late >>

(* A request aborted before its response, or while the body of a good one  *)
(* is read, is dropped without a word.                                     *)
DropRequest(t) ==
  /\ pc[t] = "posted" /\ t \in aborted
  /\ pc' = [pc EXCEPT ![t] = "ended"]
  /\ response' = [response EXCEPT ![t] = Null]
  /\ UNCHANGED << loading, turn, current, aborted, left, results, running, server, doomed, memory, history >>

ReceiveEnd(t) ==
  /\ pc[t] = "posted" /\ t \notin aborted
  /\ response[t] # Null /\ response[t].kind = "final"
  /\ pc' = [pc EXCEPT ![t] = "ended"]
  /\ response' = [response EXCEPT ![t] = Null]
  /\ Ends(t)
  /\ UNCHANGED << current, aborted, left, results, running, server, doomed, memory, provider, late >>

(* The status is known; the body of the error is awaited. *)
ReceiveError(t) ==
  /\ pc[t] = "posted" /\ t \notin aborted
  /\ response[t] # Null /\ response[t].kind = "error"
  /\ pc' = [pc EXCEPT ![t] = "reading"]
  /\ response' = [response EXCEPT ![t] = Null]
  /\ UNCHANGED << loading, turn, current, aborted, left, results, running, server, doomed, memory, history >>

(* Mutant: an error whose body cannot be read is not reported. *)
ReportReadable(t) ==
  /\ pc[t] = "reading"
  /\ pc' = [pc EXCEPT ![t] = "ended"]
  /\ \/ Ends(t)
     \/ UNCHANGED << loading, turn, ends >>
  /\ Emitted(t)
  /\ UNCHANGED << current, aborted, left, results, running, response, server, doomed, memory, provider >>

(* Read or not, aborted meanwhile or not, the error is reported. *)
ReportError(t) ==
  /\ pc[t] = "reading"
  /\ pc' = [pc EXCEPT ![t] = "ended"]
  /\ Ends(t) /\ Emitted(t)
  /\ UNCHANGED << current, aborted, left, results, running, response, server, doomed, memory, provider >>

(* Mutant: a request that fails is taken for one that was aborted. *)
NetworkFailsQuietly(t) ==
  /\ pc[t] = "posted"
  /\ pc' = [pc EXCEPT ![t] = "ended"]
  /\ response' = [response EXCEPT ![t] = Null]
  /\ UNCHANGED << loading, turn, current, aborted, left, results, running, server, doomed, memory, history >>

(* fetch or json() fails; what the server does goes on. *)
NetworkFails(t) ==
  /\ pc[t] = "posted" /\ t \notin aborted
  /\ pc' = [pc EXCEPT ![t] = "ended"]
  /\ response' = [response EXCEPT ![t] = Null]
  /\ Ends(t)
  /\ UNCHANGED << current, aborted, left, results, running, server, doomed, memory, provider, late >>

ReceivePending(t) ==
  /\ pc[t] = "posted" /\ t \notin aborted
  /\ response[t] # Null /\ response[t].kind = "pending"
  /\ pc' = [pc EXCEPT ![t] = "tools"]
  /\ left' = [left EXCEPT ![t] = response[t].calls]
  /\ results' = [results EXCEPT ![t] = {}]
  /\ response' = [response EXCEPT ![t] = Null]
  /\ Working
  /\ UNCHANGED << current, aborted, running, server, doomed, memory, history >>

ReceiveApproval(t) ==
  /\ pc[t] = "posted" /\ t \notin aborted
  /\ response[t] # Null /\ response[t].kind = "approval"
  /\ pc' = [pc EXCEPT ![t] = "asking"]
  /\ left' = [left EXCEPT ![t] = response[t].calls]
  /\ response' = [response EXCEPT ![t] = Null]
  /\ Working
  /\ UNCHANGED << current, aborted, results, running, server, doomed, memory, history >>

(* The next pending call is handed to the WebContainer. *)
StartTool(t, c) ==
  /\ pc[t] = "tools" /\ running[t] = Null /\ t \notin aborted
  /\ c \in left[t]
  /\ running' = [running EXCEPT ![t] = c]
  /\ left' = [left EXCEPT ![t] = @ \ { c }]
  /\ Working
  /\ UNCHANGED << current, aborted, pc, results, response, server, doomed, memory, history >>

(* It succeeds, fails, times out or is aborted: it has a result, and the   *)
(* event of the result is emitted without a look at the signal.            *)
EndTool(t) ==
  /\ pc[t] = "tools" /\ running[t] # Null
  /\ results' = [results EXCEPT ![t] = @ \cup { running[t] }]
  /\ running' = [running EXCEPT ![t] = Null]
  /\ Working /\ Emitted(t)
  /\ UNCHANGED << current, aborted, pc, left, response, server, doomed, memory, provider, ends >>

Post(t) ==
  /\ pc' = [pc EXCEPT ![t] = "posted"]
  /\ server' = [server EXCEPT ![t] = "resume"]

Continue(t) ==
  /\ pc[t] = "tools" /\ running[t] = Null
  /\ left[t] = {} /\ t \notin aborted
  /\ Post(t)
  /\ UNCHANGED << loading, turn, current, aborted, left, results, running, response, doomed, memory, history >>

StopTools(t) ==
  /\ pc[t] = "tools" /\ running[t] = Null /\ t \in aborted
  /\ pc' = [pc EXCEPT ![t] = "ended"]
  /\ left' = [left EXCEPT ![t] = {}] /\ results' = [results EXCEPT ![t] = {}]
  /\ UNCHANGED << loading, turn, current, aborted, running, response, server, doomed, memory, history >>

(* The operator decides; yes or no, the decision is the result of the      *)
(* call.  Without an approval handler it is a denial.                      *)
Decide(t) ==
  /\ pc[t] = "asking"
  /\ left' = [left EXCEPT ![t] = {}]
  /\ \/ /\ t \in aborted
        /\ pc' = [pc EXCEPT ![t] = "ended"]
        /\ UNCHANGED << results, server >>
     \/ /\ t \notin aborted
        /\ results' = [results EXCEPT ![t] = left[t]]
        /\ Post(t)
  /\ Working /\ Emitted(t)
  /\ UNCHANGED << current, aborted, running, response, doomed, memory, provider, ends >>

------------------------------------------------------------------------------
(* The server: one thread per request *)

(* The response is on its way, if the request was not aborted. *)
Reply(t, kind, cs) ==
  /\ server' = [server EXCEPT ![t] = "idle"]
  /\ response' = [response EXCEPT ![t] =
       IF pc[t] = "posted" THEN [kind |-> kind, calls |-> cs] ELSE Null]

(* Nothing refers to the turn's state any more. *)
Forget(t) ==
  /\ loops' = [loops EXCEPT ![t] = 0]
  /\ exchange' = [exchange EXCEPT ![t] = Null]
  /\ old' = old \ { t }

(* operator_chat, operator_chat_continue: a request for which no provider  *)
(* can be built is refused with 503; the stored turn stays.                *)
RefuseChat(t) ==
  /\ server[t] = "start"
  /\ Reply(t, "error", {})
  /\ UNCHANGED << tab, doomed, memory, history >>

RefuseContinue(t) ==
  /\ server[t] = "resume"
  /\ Reply(t, "error", {})
  /\ results' = [results EXCEPT ![t] = {}]
  /\ UNCHANGED << loading, turn, current, aborted, pc, left, running, doomed, memory, history >>

ExecuteTurn(t) ==
  /\ server[t] = "start"
  /\ server' = [server EXCEPT ![t] = "loop"]
  /\ UNCHANGED << tab, response, doomed, memory, history >>

(* _cleanup_expired: the expired turns are listed, then deleted; one that  *)
(* another thread has removed meanwhile is a KeyError, and the request's   *)
(* end.                                                                    *)
ListExpired(t) ==
  /\ server[t] = "resume"
  /\ server' = [server EXCEPT ![t] = "evict"]
  /\ doomed' = [doomed EXCEPT ![t] = { u \in old : stored[u] # Null }]
  /\ UNCHANGED << tab, response, memory, history >>

Evict(t, u) ==
  /\ server[t] = "evict" /\ u \in doomed[t]
  /\ \/ /\ stored[u] # Null
        /\ stored' = [stored EXCEPT ![u] = Null]
        /\ doomed' = [doomed EXCEPT ![t] = @ \ { u }]
        /\ Forget(u)
        /\ UNCHANGED << server, response, results >>
     \/ /\ stored[u] = Null
        /\ UNCHANGED memory
        /\ Reply(t, "error", {})
        /\ doomed' = [doomed EXCEPT ![t] = {}]
        /\ results' = [results EXCEPT ![t] = {}]
  /\ UNCHANGED << loading, turn, current, aborted, pc, left, running, history >>

(* Mutant: what the server had run itself is forgotten. *)
AnswersFromTab(t) == results[t]

(* The stored results of the server's own tools and the tab's. *)
AllResults(t) == stored[t].done \cup results[t]

(* continue_turn: the turn leaves the store; it is gone, too old, or goes  *)
(* on with the answers.                                                    *)
Resume(t) ==
  /\ server[t] = "evict" /\ doomed[t] = {}
  /\ stored' = [stored EXCEPT ![t] = Null]
  /\ results' = [results EXCEPT ![t] = {}]
  /\ \/ /\ stored[t] = Null
        /\ Reply(t, "final", {})
        /\ UNCHANGED << old, loops, exchange >>
     \/ /\ stored[t] # Null /\ t \in old
        /\ Reply(t, "final", {})
        /\ Forget(t)
     \/ /\ stored[t] # Null /\ t \notin old
        /\ exchange' = [exchange EXCEPT ![t] =
             [asked |-> stored[t].asked, answered |-> AllResults(t)]]
        /\ server' = [server EXCEPT ![t] = "loop"]
        /\ UNCHANGED << response, old, loops >>
  /\ UNCHANGED << loading, turn, current, aborted, pc, left, running, doomed, history >>

LoopsLeft(t) == loops[t] < MaxLoops

LoopLimit(t) ==
  /\ server[t] = "loop" /\ ~ LoopsLeft(t)
  /\ Reply(t, "final", {})
  /\ Forget(t)
  /\ UNCHANGED << tab, doomed, stored, history >>

(* No handler between the route and the provider: a ProviderError is a 500. *)
ProviderFails(t) ==
  /\ server[t] = "loop" /\ LoopsLeft(t)
  /\ Reply(t, "error", {})
  /\ Forget(t)
  /\ UNCHANGED << tab, doomed, stored, history >>

ProviderText(t) ==
  /\ server[t] = "loop" /\ LoopsLeft(t)
  /\ Reply(t, "final", {})
  /\ Forget(t)
  /\ UNCHANGED << tab, doomed, stored, history >>

Suspend(t, asked, done) ==
  /\ stored' = [stored EXCEPT ![t] = [asked |-> asked, done |-> done]]
  /\ exchange' = [exchange EXCEPT ![t] = Null]

(* Any guarded call suspends the turn for the first of them alone. *)
NeedsApproval(t, cs) ==
  /\ cs \cap Guarded # {}
  /\ Suspend(t, cs, {})
  /\ \E c \in cs \cap Guarded : Reply(t, "approval", { c })

(* _execute_backend_tool: a tool that raises or is not implemented has a   *)
(* result too.                                                             *)
RunByServer(cs) == cs \cap Backend

(* The server's tools are run; the tab's suspend the turn. *)
NeedsTab(t, cs) ==
  /\ cs \cap Guarded = {} /\ cs \cap Frontend # {}
  /\ Suspend(t, cs, RunByServer(cs))
  /\ Reply(t, "pending", cs \cap Frontend)

(* Nothing but the server's tools, and unknown ones, which are not answered. *)
NeedsNobody(t, cs) ==
  /\ cs \cap (Guarded \cup Frontend) = {}
  /\ exchange' = [exchange EXCEPT ![t] = [asked |-> cs, answered |-> RunByServer(cs)]]
  /\ UNCHANGED << stored, server, response >>

(* _call_provider_with_messages: only the local provider is offered tools; *)
(* for the others the exchange is flattened into one text.                 *)
OffersTools == provider = "local"

HandleToolCalls(t, cs) ==
  /\ server[t] = "loop" /\ LoopsLeft(t) /\ OffersTools
  /\ loops' = [loops EXCEPT ![t] = @ + 1]
  /\ NeedsApproval(t, cs) \/ NeedsTab(t, cs) \/ NeedsNobody(t, cs)
  /\ UNCHANGED << tab, doomed, old, history >>

(* The time to live counts from the start of the turn. *)
Age(t) ==
  /\ t \notin old
  /\ stored[t] # Null \/ server[t] = "loop"
  /\ old' = old \cup { t }
  /\ UNCHANGED << tab, response, server, doomed, stored, loops, exchange, history >>

------------------------------------------------------------------------------
ChatInit ==
  /\ loading = FALSE /\ turn = "user" /\ current = Null /\ aborted = {}
  /\ pc = [t \in Tasks |-> "new"] /\ running = [t \in Tasks |-> Null]
  /\ left = [t \in Tasks |-> {}] /\ results = [t \in Tasks |-> {}]
  /\ response = [t \in Tasks |-> Null] /\ server = [t \in Tasks |-> "idle"]
  /\ doomed = [t \in Tasks |-> {}] /\ stored = [t \in Tasks |-> Null] /\ old = {}
  /\ loops = [t \in Tasks |-> 0]
  /\ exchange = [t \in Tasks |-> Null]
  /\ provider \in { "local", "cloud" }
  /\ ends = {} /\ late = {}

Dispatch(t) ==
  \/ DropRequest(t) \/ ReceiveEnd(t) \/ ReceiveError(t) \/ ReportError(t)
  \/ ReceivePending(t) \/ ReceiveApproval(t)
  \/ (\E c \in left[t] : StartTool(t, c)) \/ EndTool(t) \/ Continue(t) \/ StopTools(t)

Serve(t) ==
  \/ RefuseChat(t) \/ RefuseContinue(t) \/ ExecuteTurn(t) \/ ListExpired(t) \/ (\E u \in doomed[t] : Evict(t, u))
  \/ Resume(t) \/ LoopLimit(t) \/ ProviderFails(t) \/ ProviderText(t)
  \/ \E cs \in Replies[t] : HandleToolCalls(t, cs)

ChatNext ==
  \/ Cancel
  \/ \E t \in Tasks :
       \/ Send(t) \/ Dispatch(t) \/ Serve(t)
       \/ NetworkFails(t) \/ Age(t) \/ Decide(t)

ChatSpec == ChatInit /\ [][ChatNext]_chatVars

(* The tab's promises are settled (tools and requests time out) and the    *)
(* server's threads go on; nobody has to cancel or decide.                 *)
FairChat == ChatSpec /\ \A t \in Tasks : WF_chatVars(Dispatch(t)) /\ WF_chatVars(Serve(t))

------------------------------------------------------------------------------
(* Properties *)

(* The model is asked again only after every call it made to a known tool, *)
(* in a reply that needed no approval, was answered: by the server, which  *)
(* keeps its answers while the turn waits, and by the tab.                 *)
CallsAreAnswered ==
  \A t \in Tasks : exchange[t] # Null =>
    LET m == exchange[t] IN
    /\ m.answered \subseteq m.asked
    /\ m.asked \cap Guarded = {} => m.asked \cap Tools \subseteq m.answered

(* A task that is sent ends with a terminal event, its cancellation's or   *)
(* its own, whatever fails, unless it waits for the operator.  Exception:  *)
(* an earlier task, cancelled while the body of an error response was      *)
(* read, is reported all the same (BackendChatSource.ts:197-213), and the  *)
(* store, which does not look whose end it is (taskStore.ts:473-480), lets *)
(* the user send a message that aborts this one.                           *)
TasksEnd ==
  \A t \in Tasks :
    pc[t] = "posted" ~>
      \/ t \in ends \/ pc[t] = "asking"
      \/ t \in aborted /\ \E u \in late : u < t

(* When no task is under way it is the user's turn, whatever was cancelled *)
(* or failed; and unless a task was heard of after it was cancelled, the   *)
(* tab is not loading, so that a message can be sent.                      *)
ControlReturns ==
  (\A t \in Tasks : pc[t] \in { "new", "ended" }) =>
    turn = "user" /\ (late = {} => ~ loading)

------------------------------------------------------------------------------
(* What the repository says and the code does not do *)

(* When no task is under way, the user may send a message.                 *)
UserMaySend ==
  (\A t \in Tasks : pc[t] \in { "new", "ended" }) => turn = "user" /\ ~ loading

(* Every call a reply made is answered before the model is asked again.    *)
EveryCallIsAnswered ==
  \A t \in Tasks : exchange[t] # Null => exchange[t].asked = exchange[t].answered
==============================================================================
