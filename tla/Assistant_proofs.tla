-------------------------- MODULE Assistant_proofs ---------------------------
(***************************************************************************)
(* The two conversations a user has with the assistants: the operator chat *)
(* (ChatTurn) and the requests of the writing assistant with their usage   *)
(* ledger (UsageAccounting), for any number of tasks and requests, any     *)
(* tools, replies, configurations and faults.  The two share nothing.      *)
(***************************************************************************)
EXTENDS ChatTurn, UsageAccounting, TLAPS

(* The operator chat. *)

Places  == { "new", "posted", "reading", "tools", "asking", "ended" }
Threads == { "idle", "start", "resume", "evict", "loop" }

(* Each task has its place and its thread, and all else it has.            *)
Kinded ==
  /\ pc \in [Tasks -> Places] /\ server \in [Tasks -> Threads]
  /\ left = [t \in Tasks |-> left[t]]
  /\ results = [t \in Tasks |-> results[t]]
  /\ running = [t \in Tasks |-> running[t]]
  /\ response = [t \in Tasks |-> response[t]]
  /\ stored = [t \in Tasks |-> stored[t]]
  /\ exchange = [t \in Tasks |-> exchange[t]]

(* The calls cs are the tab's share of a suspended reply that needs no     *)
(* approval, or some of one that does.  An evicted turn asks for nothing.  *)
Agrees(cs, s) == s # Null => s.asked \cap Guarded = {} /\ cs = s.asked \cap Frontend
Asks(cs, s)   == s # Null => s.asked \cap Guarded # {} /\ cs \subseteq s.asked

(* What a suspended turn keeps of the server's own answers. *)
Waits(t) ==
  stored[t] # Null =>
    /\ stored[t].done \subseteq stored[t].asked
    /\ stored[t].asked \cap Guarded = {} => stored[t].done = stored[t].asked \cap Backend

(* The calls the tab has: those to run, the one it runs, the ones it ran.  *)
Share(t) == left[t] \cup results[t] \cup ({ running[t] } \ { Null })

(* Wherever the calls of a turn are, the turn they belong to agrees.       *)
Handed(t) ==
  /\ response[t] # Null =>
       /\ pc[t] = "posted" /\ server[t] = "idle"
       /\ response[t].kind = "pending" =>
            response[t].calls \cap Guarded = {} /\ Agrees(response[t].calls, stored[t])
       /\ response[t].kind = "approval" => Asks(response[t].calls, stored[t])
  /\ pc[t] = "tools" =>
       server[t] = "idle" /\ Share(t) \cap Guarded = {} /\ Agrees(Share(t), stored[t])
  /\ pc[t] = "asking" => server[t] = "idle" /\ Asks(left[t], stored[t])
  /\ pc[t] # "tools" => running[t] = Null
  /\ pc[t] = "reading" => server[t] = "idle"
  /\ server[t] \in { "resume", "evict" } =>
       Agrees(results[t], stored[t]) \/ Asks(results[t], stored[t])
  /\ server[t] # "idle" => pc[t] \in { "posted", "ended" }
  /\ pc[t] = "new" \/ server[t] \in { "start", "loop" } => stored[t] = Null

(* What CallsAreAnswered says of one turn. *)
AnswersFit(t) ==
  exchange[t] # Null =>
    /\ exchange[t].answered \subseteq exchange[t].asked
    /\ exchange[t].asked \cap Guarded = {} =>
         exchange[t].asked \cap Tools \subseteq exchange[t].answered

TaskInv(t) == Waits(t) /\ Handed(t) /\ AnswersFit(t)

ChatInv == Kinded /\ \A t \in Tasks : TaskInv(t)

(* Nothing of a task changes, except that its turn may be evicted.         *)
Stays(s) ==
  /\ pc'[s] = pc[s] /\ server'[s] = server[s] /\ left'[s] = left[s]
  /\ results'[s] = results[s] /\ running'[s] = running[s] /\ response'[s] = response[s]
  /\ stored'[s] \in { stored[s], Null } /\ exchange'[s] \in { exchange[s], Null }

(* Losing its turn to an eviction does no harm to a task. *)
LEMMA StaysKeeps ==
  ASSUME NEW s, TaskInv(s), Stays(s)
  PROVE  TaskInv(s)'
<1>1. Waits(s)'
  BY DEF TaskInv, Waits, Stays
<1>2. AnswersFit(s)'
  BY DEF TaskInv, AnswersFit, Stays
<1>3. Share(s)' = Share(s)
  BY DEF Share, Stays
<1>4. Handed(s)'
  BY <1>3 DEF TaskInv, Handed, Agrees, Asks, Stays
<1> QED
  BY <1>1, <1>2, <1>4 DEF TaskInv

(* It is enough to look at the one task that moves. *)
LEMMA OneMoves ==
  ASSUME ChatInv, NEW t \in Tasks, Kinded', TaskInv(t)',
         \A s \in Tasks \ { t } : Stays(s)
  PROVE  ChatInv'
<1>1. \A s \in Tasks \ { t } : TaskInv(s)'
  BY StaysKeeps DEF ChatInv
<1> QED
  BY <1>1 DEF ChatInv

(* At first no task has a request, a call or a turn. *)
LEMMA InitChat == ChatInit => ChatInv
<1> SUFFICES ASSUME ChatInit PROVE ChatInv
  OBVIOUS
<1>1. Kinded
  BY DEF ChatInit, Kinded, Places, Threads
<1>2. \A t \in Tasks : TaskInv(t)
  BY DEF ChatInit, TaskInv, Waits, Handed, AnswersFit
<1> QED
  BY <1>1, <1>2 DEF ChatInv, ChatInit

(* The requests of a task: sent, dropped, answered or lost. *)
LEMMA RequestStep ==
  ASSUME ChatInv, NEW t \in Tasks,
         \/ Send(t) \/ DropRequest(t) \/ ReceiveEnd(t) \/ NetworkFails(t)
         \/ ReceiveError(t) \/ ReportError(t)
  PROVE  ChatInv'
<1>1. /\ \/ /\ pc[t] = "new" /\ pc' = [pc EXCEPT ![t] = "posted"]
            /\ server' = [server EXCEPT ![t] = "start"] /\ response' = response
         \/ /\ pc[t] = "posted" /\ pc' = [pc EXCEPT ![t] = "ended"]
            /\ server' = server /\ response' = [response EXCEPT ![t] = Null]
         \/ /\ pc[t] = "posted" /\ response[t] # Null /\ pc' = [pc EXCEPT ![t] = "reading"]
            /\ server' = server /\ response' = [response EXCEPT ![t] = Null]
         \/ /\ pc[t] = "reading" /\ pc' = [pc EXCEPT ![t] = "ended"]
            /\ server' = server /\ response' = response
      /\ UNCHANGED << left, results, running, stored, exchange >>
  <2>1. CASE Send(t)
    BY <2>1 DEF Send, Start, PostMessage, memory, history
  <2>2. CASE DropRequest(t)
    BY <2>2 DEF DropRequest, memory, history
  <2>3. CASE ReceiveEnd(t)
    BY <2>3 DEF ReceiveEnd, memory
  <2>4. CASE NetworkFails(t)
    BY <2>4 DEF NetworkFails, memory
  <2>5. CASE ReceiveError(t)
    BY <2>5 DEF ReceiveError, memory
  <2>6. CASE ReportError(t)
    BY <2>6 DEF ReportError, memory
  <2> QED
    BY <2>1, <2>2, <2>3, <2>4, <2>5, <2>6
<1>2. Kinded'
  BY <1>1 DEF ChatInv, Kinded, Places, Threads
<1>3. \A s \in Tasks \ { t } : Stays(s)
  BY <1>1 DEF ChatInv, Kinded, Stays
<1>4. Waits(t)' /\ AnswersFit(t)'
  BY <1>1 DEF ChatInv, TaskInv, Waits, AnswersFit
<1>5. Handed(t)'
  BY <1>1 DEF ChatInv, Kinded, TaskInv, Handed, Agrees, Asks, Share
<1> QED
  BY <1>2, <1>3, <1>4, <1>5, OneMoves DEF TaskInv

(* The calls of a task: received, run, answered, decided or given up. *)
LEMMA CallStep ==
  ASSUME ChatInv, NEW t \in Tasks, Null \notin Frontend,
         \/ ReceivePending(t) \/ ReceiveApproval(t)
         \/ (\E c \in left[t] : StartTool(t, c)) \/ EndTool(t)
         \/ Continue(t) \/ StopTools(t)
         \/ Decide(t)
  PROVE  ChatInv'
<1> USE DEF memory, history
<1>1. CASE ReceivePending(t)
  <2>2. Kinded'
    BY <1>1 DEF ReceivePending, ChatInv, Kinded, Places
  <2>3. \A s \in Tasks \ { t } : Stays(s)
    BY <1>1 DEF ReceivePending, ChatInv, Kinded, Stays
  <2>4. Waits(t)' /\ AnswersFit(t)'
    BY <1>1 DEF ReceivePending, ChatInv, TaskInv, Waits, AnswersFit
  <2>5. Share(t)' = response[t].calls
    BY <1>1 DEF ReceivePending, ChatInv, Kinded, TaskInv, Handed, Share
  <2>6. Handed(t)'
    BY <1>1, <2>5 DEF ReceivePending, ChatInv, Kinded, TaskInv, Handed, Agrees, Asks
  <2> QED
    BY <2>2, <2>3, <2>4, <2>6, OneMoves DEF TaskInv
<1>2. CASE ReceiveApproval(t)
  <2>2. Kinded'
    BY <1>2 DEF ReceiveApproval, ChatInv, Kinded, Places
  <2>3. \A s \in Tasks \ { t } : Stays(s)
    BY <1>2 DEF ReceiveApproval, ChatInv, Kinded, Stays
  <2>4. Waits(t)' /\ AnswersFit(t)'
    BY <1>2 DEF ReceiveApproval, ChatInv, TaskInv, Waits, AnswersFit
  <2>6. Handed(t)'
    BY <1>2 DEF ReceiveApproval, ChatInv, Kinded, TaskInv, Handed, Agrees, Asks
  <2> QED
    BY <2>2, <2>3, <2>4, <2>6, OneMoves DEF TaskInv
<1>3. ASSUME NEW c \in left[t], StartTool(t, c) PROVE ChatInv'
  <2>1. Share(t) \cap Guarded = {} /\ c \notin Guarded
    BY <1>3 DEF StartTool, ChatInv, TaskInv, Handed, Share
  <2>8. Kinded'
    BY <1>3 DEF StartTool, ChatInv, Kinded
  <2>3. \A s \in Tasks \ { t } : Stays(s)
    BY <1>3 DEF StartTool, ChatInv, Kinded, Stays
  <2>4. Waits(t)' /\ AnswersFit(t)'
    BY <1>3 DEF StartTool, ChatInv, TaskInv, Waits, AnswersFit
  <2>5. Share(t)' \subseteq Share(t) /\ (c # Null => Share(t)' = Share(t))
    BY <1>3 DEF StartTool, ChatInv, Kinded, Share
  <2>6. stored[t] # Null => Share(t)' = Share(t)
    <3>1. stored[t] # Null => c \in Frontend
      BY <1>3 DEF StartTool, ChatInv, TaskInv, Handed, Agrees, Share
    <3> QED
      BY <2>5, <3>1
  <2>7. Handed(t)'
    BY <1>3, <2>1, <2>5, <2>6 DEF StartTool, ChatInv, Kinded, TaskInv, Handed, Agrees, Asks
  <2> QED
    BY <2>3, <2>4, <2>7, <2>8, OneMoves DEF TaskInv, ChatInv
<1>4. CASE EndTool(t)
  <2>2. Kinded'
    BY <1>4 DEF EndTool, ChatInv, Kinded
  <2>3. \A s \in Tasks \ { t } : Stays(s)
    BY <1>4 DEF EndTool, ChatInv, Kinded, Stays
  <2>4. Waits(t)' /\ AnswersFit(t)'
    BY <1>4 DEF EndTool, ChatInv, TaskInv, Waits, AnswersFit
  <2>5. Share(t)' = Share(t)
    BY <1>4 DEF EndTool, ChatInv, Kinded, Share
  <2>6. Handed(t)'
    BY <1>4, <2>5 DEF EndTool, ChatInv, Kinded, TaskInv, Handed, Agrees, Asks
  <2> QED
    BY <2>2, <2>3, <2>4, <2>6, OneMoves DEF TaskInv
<1>5. CASE Continue(t)
  <2>2. Kinded'
    BY <1>5 DEF Continue, Post, ChatInv, Kinded, Places, Threads
  <2>3. \A s \in Tasks \ { t } : Stays(s)
    BY <1>5 DEF Continue, Post, ChatInv, Kinded, Stays
  <2>4. Waits(t)' /\ AnswersFit(t)'
    BY <1>5 DEF Continue, ChatInv, TaskInv, Waits, AnswersFit
  <2>5. Share(t) = results[t]
    BY <1>5 DEF Continue, Share
  <2>6. Handed(t)'
    BY <1>5, <2>5 DEF Continue, Post, ChatInv, Kinded, TaskInv, Handed, Agrees, Asks
  <2> QED
    BY <2>2, <2>3, <2>4, <2>6, OneMoves DEF TaskInv
<1>6. CASE StopTools(t)
  <2>2. Kinded'
    BY <1>6 DEF StopTools, ChatInv, Kinded, Places
  <2>3. \A s \in Tasks \ { t } : Stays(s)
    BY <1>6 DEF StopTools, ChatInv, Kinded, Stays
  <2>4. Waits(t)' /\ AnswersFit(t)'
    BY <1>6 DEF StopTools, ChatInv, TaskInv, Waits, AnswersFit
  <2>6. Handed(t)'
    BY <1>6 DEF StopTools, ChatInv, Kinded, TaskInv, Handed, Agrees, Asks
  <2> QED
    BY <2>2, <2>3, <2>4, <2>6, OneMoves DEF TaskInv
<1>7. CASE Decide(t)
  <2>1. /\ pc[t] = "asking" /\ left' = [left EXCEPT ![t] = {}]
        /\ \/ pc' = [pc EXCEPT ![t] = "ended"] /\ UNCHANGED << results, server >>
           \/ /\ results' = [results EXCEPT ![t] = left[t]]
              /\ pc' = [pc EXCEPT ![t] = "posted"]
              /\ server' = [server EXCEPT ![t] = "resume"]
        /\ UNCHANGED << running, response, stored, exchange >>
    BY <1>7 DEF Decide, Post
  <2>2. Kinded'
    BY <2>1 DEF ChatInv, Kinded, Places, Threads
  <2>3. \A s \in Tasks \ { t } : Stays(s)
    BY <2>1 DEF ChatInv, Kinded, Stays
  <2>4. Waits(t)' /\ AnswersFit(t)'
    BY <2>1 DEF ChatInv, TaskInv, Waits, AnswersFit
  <2>6. Handed(t)'
    BY <2>1 DEF ChatInv, Kinded, TaskInv, Handed, Agrees, Asks
  <2> QED
    BY <2>2, <2>3, <2>4, <2>6, OneMoves DEF TaskInv
<1> QED
  BY <1>1, <1>2, <1>3, <1>4, <1>5, <1>6, <1>7

(* The server's threads: whatever they answer, a tab that waits for it has *)
(* no calls, and a request that goes on has those of its turn.             *)
LEMMA AnswerStep ==
  ASSUME ChatInv, NEW t \in Tasks,
         \/ RefuseChat(t) \/ RefuseContinue(t) \/ LoopLimit(t)
         \/ ProviderFails(t) \/ ProviderText(t)
  PROVE  ChatInv'
<1>1. /\ server[t] # "idle" /\ \E kind \in { "final", "error" } : Reply(t, kind, {})
      /\ UNCHANGED << pc, left, running, stored >>
      /\ UNCHANGED results \/ results' = [results EXCEPT ![t] = {}]
      /\ UNCHANGED exchange \/ exchange' = [exchange EXCEPT ![t] = Null]
  <2> USE DEF tab, memory, history, Forget
  <2>1. CASE RefuseChat(t)
    BY <2>1 DEF RefuseChat
  <2>2. CASE RefuseContinue(t)
    BY <2>2 DEF RefuseContinue
  <2>3. CASE LoopLimit(t)
    BY <2>3 DEF LoopLimit
  <2>4. CASE ProviderFails(t)
    BY <2>4 DEF ProviderFails
  <2>5. CASE ProviderText(t)
    BY <2>5 DEF ProviderText
  <2> QED
    BY <2>1, <2>2, <2>3, <2>4, <2>5
<1>2. PICK kind \in { "final", "error" } : Reply(t, kind, {})
  BY <1>1
<1>3. Kinded'
  BY <1>1, <1>2 DEF Reply, ChatInv, Kinded, Threads
<1>4. \A s \in Tasks \ { t } : Stays(s)
  BY <1>1, <1>2 DEF Reply, ChatInv, Kinded, Stays
<1>5. Waits(t)' /\ AnswersFit(t)'
  BY <1>1 DEF ChatInv, Kinded, TaskInv, Waits, AnswersFit
<1>6. Handed(t)'
  BY <1>1, <1>2 DEF Reply, ChatInv, Kinded, TaskInv, Handed, Agrees, Asks
<1> QED
  BY <1>3, <1>4, <1>5, <1>6, OneMoves DEF TaskInv

(* A turn expires under whoever continues another, or its own task.        *)
LEMMA EvictStep ==
  ASSUME ChatInv, NEW t \in Tasks, NEW u \in doomed[t], Evict(t, u)
  PROVE  ChatInv'
<1>1. CASE /\ stored' = [stored EXCEPT ![u] = Null] /\ Forget(u)
           /\ UNCHANGED << server, response, results >>
  <2>1. UNCHANGED << pc, left, running >>
    BY DEF Evict, history
  <2>2. Kinded'
    BY <1>1, <2>1 DEF Forget, ChatInv, Kinded
  <2>3. \A s \in Tasks : Stays(s)
    BY <1>1, <2>1 DEF Forget, ChatInv, Kinded, Stays
  <2> QED
    BY <2>2, <2>3, StaysKeeps DEF ChatInv
<1>2. CASE /\ UNCHANGED memory /\ Reply(t, "error", {})
           /\ results' = [results EXCEPT ![t] = {}]
  <2>1. /\ server[t] = "evict"
        /\ UNCHANGED << pc, left, running, stored, exchange >>
    BY <1>2 DEF Evict, memory, history
  <2>2. Kinded'
    BY <1>2, <2>1 DEF Reply, ChatInv, Kinded, Threads
  <2>3. \A s \in Tasks \ { t } : Stays(s)
    BY <1>2, <2>1 DEF Reply, ChatInv, Kinded, Stays
  <2>4. Waits(t)' /\ AnswersFit(t)'
    BY <2>1 DEF ChatInv, TaskInv, Waits, AnswersFit
  <2>5. Handed(t)'
    BY <1>2, <2>1 DEF Reply, ChatInv, Kinded, TaskInv, Handed, Agrees, Asks
  <2> QED
    BY <2>2, <2>3, <2>4, <2>5, OneMoves DEF TaskInv
<1> QED
  BY <1>1, <1>2 DEF Evict

(* A continued turn has the server's answers and the tab's: all of them.   *)
LEMMA ResumeStep ==
  ASSUME ChatInv, NEW t \in Tasks, Resume(t)
  PROVE  ChatInv'
<1>1. /\ server[t] = "evict" /\ stored' = [stored EXCEPT ![t] = Null]
      /\ results' = [results EXCEPT ![t] = {}]
      /\ UNCHANGED << pc, left, running >>
  BY DEF Resume, history
<1>2. \A s \in Tasks \ { t } : s # t
  OBVIOUS
<1>3. Waits(t)'
  BY <1>1 DEF ChatInv, Kinded, Waits
<1>4. CASE Reply(t, "final", {}) /\ (UNCHANGED exchange \/ Forget(t))
  <2>1. Kinded'
    BY <1>1, <1>4 DEF Reply, Forget, ChatInv, Kinded, Threads
  <2>2. \A s \in Tasks \ { t } : Stays(s)
    BY <1>1, <1>4 DEF Reply, Forget, ChatInv, Kinded, Stays
  <2>3. AnswersFit(t)'
    BY <1>4 DEF Forget, ChatInv, Kinded, TaskInv, AnswersFit
  <2>4. Handed(t)'
    BY <1>1, <1>4 DEF Reply, ChatInv, Kinded, TaskInv, Handed, Agrees, Asks
  <2> QED
    BY <1>3, <2>1, <2>2, <2>3, <2>4, OneMoves DEF TaskInv
<1>5. CASE /\ stored[t] # Null
           /\ exchange' = [exchange EXCEPT ![t] =
                [asked |-> stored[t].asked, answered |-> AllResults(t)]]
           /\ server' = [server EXCEPT ![t] = "loop"] /\ response' = response
  <2>1. Kinded'
    BY <1>1, <1>5 DEF ChatInv, Kinded, Threads
  <2>2. \A s \in Tasks \ { t } : Stays(s)
    BY <1>1, <1>5 DEF ChatInv, Kinded, Stays
  <2>3. /\ exchange'[t] = [asked |-> stored[t].asked, answered |-> stored[t].done \cup results[t]]
        /\ Waits(t) /\ (Agrees(results[t], stored[t]) \/ Asks(results[t], stored[t]))
    BY <1>1, <1>5 DEF AllResults, ChatInv, Kinded, TaskInv, Handed
  <2>4. AnswersFit(t)'
    BY <1>5, <2>3 DEF AnswersFit, Waits, Agrees, Asks, Tools
  <2>5. Handed(t)'
    BY <1>1, <1>5 DEF ChatInv, Kinded, TaskInv, Handed, Agrees, Asks
  <2> QED
    BY <1>3, <2>1, <2>2, <2>4, <2>5, OneMoves DEF TaskInv
<1> QED
  BY <1>4, <1>5 DEF Resume

(* A reply of the model suspends the turn with what the server answered,   *)
(* or is answered by the server alone.                                     *)
LEMMA ToolCallsStep ==
  ASSUME ChatInv, NEW t \in Tasks, NEW cs, HandleToolCalls(t, cs)
  PROVE  ChatInv'
<1>1. /\ server[t] = "loop" /\ stored[t] = Null
      /\ UNCHANGED << pc, left, results, running >>
  BY DEF HandleToolCalls, tab, history, ChatInv, TaskInv, Handed
<1>2. ASSUME NEW done, NEW kind, NEW calls,
             Suspend(t, cs, done), Reply(t, kind, calls),
             \/ cs \cap Guarded # {} /\ done = {} /\ kind = "approval" /\ calls \subseteq cs
             \/ /\ cs \cap Guarded = {} /\ done = cs \cap Backend
                /\ kind = "pending" /\ calls = cs \cap Frontend
      PROVE  ChatInv'
  <2>1. Kinded'
    BY <1>1, <1>2 DEF Suspend, Reply, ChatInv, Kinded, Threads
  <2>2. \A s \in Tasks \ { t } : Stays(s)
    BY <1>1, <1>2 DEF Suspend, Reply, ChatInv, Kinded, Stays
  <2>3. stored'[t] = [asked |-> cs, done |-> done] /\ exchange'[t] = Null
    BY <1>2 DEF Suspend, ChatInv, Kinded
  <2>4. Waits(t)' /\ AnswersFit(t)'
    BY <1>2, <2>3 DEF Waits, AnswersFit
  <2>5. /\ server'[t] = "idle" /\ pc[t] \in { "posted", "ended" }
        /\ response'[t] = IF pc[t] = "posted" THEN [kind |-> kind, calls |-> calls] ELSE Null
    BY <1>1, <1>2 DEF Reply, ChatInv, Kinded, TaskInv, Handed
  <2>6. Handed(t)'
    BY <1>1, <1>2, <2>3, <2>5 DEF ChatInv, TaskInv, Handed, Agrees, Asks
  <2> QED
    BY <2>1, <2>2, <2>4, <2>6, OneMoves DEF TaskInv
<1>3. CASE NeedsApproval(t, cs)
  <2>1. PICK c \in cs \cap Guarded : Reply(t, "approval", { c })
    BY <1>3 DEF NeedsApproval
  <2> QED
    BY <1>2, <1>3, <2>1 DEF NeedsApproval
<1>4. CASE NeedsTab(t, cs)
  BY <1>2, <1>4 DEF NeedsTab, RunByServer
<1>5. CASE NeedsNobody(t, cs)
  <2>1. /\ cs \cap (Guarded \cup Frontend) = {} /\ UNCHANGED << stored, server, response >>
        /\ exchange' = [exchange EXCEPT ![t] = [asked |-> cs, answered |-> cs \cap Backend]]
    BY <1>5 DEF NeedsNobody, RunByServer
  <2>2. Kinded'
    BY <1>1, <2>1 DEF ChatInv, Kinded
  <2>3. \A s \in Tasks \ { t } : Stays(s)
    BY <1>1, <2>1 DEF ChatInv, Kinded, Stays
  <2>4. exchange'[t] = [asked |-> cs, answered |-> cs \cap Backend]
    BY <2>1 DEF ChatInv, Kinded
  <2>5. Waits(t)' /\ AnswersFit(t)'
    BY <1>1, <2>1, <2>4 DEF Waits, AnswersFit, Tools
  <2>6. Handed(t)'
    BY <1>1, <2>1 DEF ChatInv, TaskInv, Handed, Agrees, Asks, Share
  <2> QED
    BY <2>2, <2>3, <2>5, <2>6, OneMoves DEF TaskInv
<1> QED
  BY <1>3, <1>4, <1>5 DEF HandleToolCalls

(* A thread takes up a request, or looks for the turns that are too old.   *)
LEMMA ThreadStep ==
  ASSUME ChatInv, NEW t \in Tasks, ExecuteTurn(t) \/ ListExpired(t)
  PROVE  ChatInv'
<1>1. /\ \/ server[t] = "start" /\ server' = [server EXCEPT ![t] = "loop"]
         \/ server[t] = "resume" /\ server' = [server EXCEPT ![t] = "evict"]
      /\ UNCHANGED << pc, left, results, running, response, stored, exchange >>
  BY DEF ExecuteTurn, ListExpired, tab, memory, history
<1>2. Kinded'
  BY <1>1 DEF ChatInv, Kinded, Threads
<1>3. \A s \in Tasks \ { t } : Stays(s)
  BY <1>1 DEF ChatInv, Kinded, Stays
<1>4. Waits(t)' /\ AnswersFit(t)'
  BY <1>1 DEF ChatInv, TaskInv, Waits, AnswersFit
<1>5. Handed(t)'
  BY <1>1 DEF ChatInv, Kinded, TaskInv, Handed, Agrees, Asks, Share
<1> QED
  BY <1>2, <1>3, <1>4, <1>5, OneMoves DEF TaskInv

(* Nothing that the invariant is about changes. *)
LEMMA NothingMoves ==
  ASSUME ChatInv, UNCHANGED << pc, left, results, running, response, server, stored,
                               exchange >>
  PROVE  ChatInv'
<1>1. Kinded'
  BY DEF ChatInv, Kinded
<1>2. \A s \in Tasks : Stays(s)
  BY DEF Stays
<1> QED
  BY <1>1, <1>2, StaysKeeps DEF ChatInv

(* The tab, the server's threads, the user and the clock keep the invariant. *)
LEMMA NextChat ==
  ASSUME Null \notin Frontend, ChatInv, [ChatNext]_chatVars
  PROVE  ChatInv'
<1>1. CASE Cancel
  <2>1. UNCHANGED << pc, left, results, running, response, server, stored, exchange >>
    BY <1>1 DEF Cancel, memory
  <2> QED
    BY <2>1, NothingMoves
<1>2. ASSUME NEW t \in Tasks, Age(t) PROVE ChatInv'
  <2>1. UNCHANGED << pc, left, results, running, response, server, stored, exchange >>
    BY <1>2 DEF Age, tab, history
  <2> QED
    BY <2>1, NothingMoves
<1>3. CASE UNCHANGED chatVars
  <2>1. UNCHANGED << pc, left, results, running, response, server, stored, exchange >>
    BY <1>3 DEF chatVars, tab, memory, history
  <2> QED
    BY <2>1, NothingMoves
<1>4. ASSUME NEW t \in Tasks, Dispatch(t) PROVE ChatInv'
  BY <1>4, RequestStep, CallStep DEF Dispatch
<1>5. ASSUME NEW t \in Tasks, Serve(t) PROVE ChatInv'
  BY <1>5, AnswerStep, EvictStep, ResumeStep, ToolCallsStep, ThreadStep DEF Serve
<1>6. ASSUME NEW t \in Tasks,
             Send(t) \/ NetworkFails(t) \/ Decide(t)
      PROVE  ChatInv'
  BY <1>6, RequestStep, CallStep
<1> QED
  BY <1>1, <1>2, <1>3, <1>4, <1>5, <1>6 DEF ChatNext

(* In every reachable state the tab, the server and its store agree.       *)
THEOREM ChatInvariance == ChatSpec => []ChatInv
<1>1. ChatInv /\ [ChatNext]_chatVars => ChatInv'
  BY NextChat, ChatAssumption
<1> QED
  BY <1>1, InitChat, PTL DEF ChatSpec

(* The model is never asked again while a call of its last reply that needs *)
(* no approval is unanswered, and is shown no answer it did not ask for.    *)
THEOREM ModelIsAnswered == ChatSpec => []CallsAreAnswered
<1>1. ChatInv => CallsAreAnswered
  BY DEF ChatInv, TaskInv, AnswersFit, CallsAreAnswered
<1> QED
  BY <1>1, ChatInvariance, PTL

(* A task that is under way. *)
Active(t) == pc[t] \notin { "new", "ended" }

(* It is the agent's turn only while the current task is under way.  As    *)
(* long as no cancelled task was heard of, no other one goes on but        *)
(* cancelled ones, and the tab loads only in the agent's turn.             *)
TurnInv ==
  /\ pc = [t \in Tasks |-> pc[t]]
  /\ current \in Tasks \cup { Null } /\ current \notin aborted /\ aborted \subseteq Tasks
  /\ turn \in { "user", "agent" }
  /\ turn = "agent" => current \in Tasks /\ Active(current)
  /\ \A t \in Tasks : pc[t] = "new" => t \notin aborted /\ t # current
  /\ late = {} =>
       /\ \A t \in Tasks : Active(t) => t \in aborted \/ (t = current /\ turn = "agent")
       /\ loading => turn = "agent"

(* A task is sent: the one before is aborted. *)
LEMMA SendKeepsTurn ==
  ASSUME TurnInv, NEW t \in Tasks, Null \notin Tasks, Send(t)
  PROVE  TurnInv'
<1>1. /\ aborted' = IF current = Null THEN aborted ELSE aborted \cup { current }
      /\ current' = t /\ turn' = "agent" /\ late' = late
      /\ pc' = [pc EXCEPT ![t] = "posted"] /\ pc[t] = "new" /\ turn = "user"
  BY DEF Send, Start, PostMessage, history
<1>2. t \notin aborted'
  BY <1>1 DEF TurnInv
<1>3. \A u \in Tasks : u # t => (Active(u)' <=> Active(u))
  BY <1>1 DEF TurnInv, Active
<1>4. Active(t)' /\ pc' = [u \in Tasks |-> pc'[u]]
  BY <1>1 DEF TurnInv, Active
<1>5. aborted \subseteq aborted' /\ aborted' \subseteq Tasks
  BY <1>1 DEF TurnInv
<1>6. late = {} => \A u \in Tasks : Active(u) => u \in aborted'
  BY <1>1 DEF TurnInv
<1>7. \A u \in Tasks : pc'[u] = "new" => u # t /\ u \notin aborted'
  BY <1>1 DEF TurnInv
<1> QED
  BY <1>1, <1>2, <1>3, <1>4, <1>5, <1>6, <1>7 DEF TurnInv

(* The task that is cancelled is the current one. *)
LEMMA CancelKeepsTurn ==
  ASSUME TurnInv, Null \notin Tasks, Cancel
  PROVE  TurnInv'
<1>1. /\ current # Null /\ aborted' = aborted \cup { current }
      /\ current' = Null /\ turn' = "user" /\ loading' = FALSE
      /\ pc' = pc /\ late' = late
  BY DEF Cancel, Ends, memory
<1>2. late = {} => \A u \in Tasks : Active(u) => u \in aborted'
  BY <1>1 DEF TurnInv
<1>3. current \in Tasks /\ Null \notin aborted'
  BY <1>1 DEF TurnInv
<1>4. \A u \in Tasks : pc'[u] = "new" => u \notin aborted' /\ u # current'
  BY <1>1 DEF TurnInv
<1>5. \A u \in Tasks : Active(u)' <=> Active(u)
  BY <1>1 DEF Active
<1> QED
  BY <1>1, <1>2, <1>3, <1>4, <1>5 DEF TurnInv

(* A task goes on, and perhaps says so. *)
LEMMA WorkKeepsTurn ==
  ASSUME TurnInv, NEW t \in Tasks, Active(t),
         NEW place \in { "posted", "reading", "tools", "asking" },
         pc' = [pc EXCEPT ![t] = place],
         \/ (t \notin aborted \/ loading' = loading) /\ late' = late
         \/ Emitted(t),
         turn' = turn, loading' = loading \/ loading' = TRUE,
         UNCHANGED << current, aborted >>
  PROVE  TurnInv'
BY DEF TurnInv, Active, Emitted

(* A task that was aborted stops, without a word or with one too many. *)
LEMMA StopKeepsTurn ==
  ASSUME TurnInv, NEW t \in Tasks, t \in aborted,
         pc' = [pc EXCEPT ![t] = "ended"],
         turn' = turn, (late' = late /\ loading' = loading) \/ Emitted(t),
         UNCHANGED << current, aborted >>
  PROVE  TurnInv'
BY DEF TurnInv, Active, Emitted

(* A task ends with a terminal event. *)
LEMMA EndKeepsTurn ==
  ASSUME TurnInv, NEW t \in Tasks, Active(t),
         pc' = [pc EXCEPT ![t] = "ended"], Ends(t),
         (t \notin aborted /\ late' = late) \/ Emitted(t),
         UNCHANGED << current, aborted >>
  PROVE  TurnInv'
<1>1. turn' = "user" /\ loading' = FALSE
  BY DEF Ends
<1>2. late' = {} => late = {} /\ t \notin aborted
  BY DEF Emitted
<1>3. \A u \in Tasks : Active(u)' => Active(u) /\ u # t
  BY DEF TurnInv, Active
<1>4. late' = {} => \A u \in Tasks : Active(u)' => u \in aborted
  BY <1>2, <1>3 DEF TurnInv
<1>5. pc' = [u \in Tasks |-> pc'[u]] /\ \A u \in Tasks : pc'[u] = "new" => pc[u] = "new"
  BY DEF TurnInv
<1> QED
  BY <1>1, <1>4, <1>5 DEF TurnInv

(* What the server does is not seen by the tab until it responds. *)
LEMMA ServerKeepsTurn ==
  ASSUME TurnInv, UNCHANGED << loading, turn, current, aborted, pc, late >>
  PROVE  TurnInv'
BY DEF TurnInv, Active

(* The steps of a task in the tab. *)
LEMMA DispatchKeepsTurn ==
  ASSUME TurnInv, NEW t \in Tasks, Dispatch(t) \/ NetworkFails(t) \/ Decide(t)
  PROVE  TurnInv'
<1> USE DEF history
<1>1. pc = [pc EXCEPT ![t] = pc[t]]
  BY DEF TurnInv
<1>2. CASE DropRequest(t)
  BY <1>2, StopKeepsTurn DEF DropRequest
<1>3. CASE ReceiveEnd(t) \/ NetworkFails(t)
  BY <1>3, EndKeepsTurn DEF ReceiveEnd, NetworkFails, Active
<1>4. CASE ReceiveError(t)
  BY <1>4, WorkKeepsTurn DEF ReceiveError, Active
<1>5. CASE ReportError(t)
  BY <1>5, EndKeepsTurn DEF ReportError, Active
<1>6. CASE ReceivePending(t) \/ ReceiveApproval(t)
  BY <1>6, WorkKeepsTurn DEF ReceivePending, ReceiveApproval, Working, Active
<1>7. ASSUME NEW c \in left[t], StartTool(t, c) PROVE TurnInv'
  BY <1>1, <1>7, WorkKeepsTurn DEF StartTool, Working, Active
<1>8. CASE EndTool(t)
  BY <1>1, <1>8, WorkKeepsTurn DEF EndTool, Working, Active
<1>9. CASE Continue(t)
  BY <1>9, WorkKeepsTurn DEF Continue, Post, Active
<1>10. CASE StopTools(t)
  BY <1>10, StopKeepsTurn DEF StopTools
<1>11. CASE Decide(t)
  <2>1. CASE t \in aborted
    BY <1>11, <2>1, StopKeepsTurn DEF Decide, Working
  <2>2. CASE t \notin aborted
    BY <1>11, <2>2, WorkKeepsTurn DEF Decide, Working, Post, Active
  <2> QED
    BY <2>1, <2>2
<1> QED
  BY <1>2, <1>3, <1>4, <1>5, <1>6, <1>7, <1>8, <1>9, <1>10, <1>11 DEF Dispatch

(* The threads of the server, whose store the tab does not see. *)
LEMMA ServeKeepsTurn ==
  ASSUME TurnInv, NEW t \in Tasks, Serve(t)
  PROVE  TurnInv'
<1> USE DEF tab, history
<1>1. CASE RefuseChat(t) \/ RefuseContinue(t) \/ ExecuteTurn(t) \/ ListExpired(t)
  BY <1>1, ServerKeepsTurn DEF RefuseChat, RefuseContinue, ExecuteTurn, ListExpired
<1>2. ASSUME NEW u \in doomed[t], Evict(t, u) PROVE TurnInv'
  BY <1>2, ServerKeepsTurn DEF Evict
<1>3. CASE Resume(t) \/ LoopLimit(t) \/ ProviderFails(t) \/ ProviderText(t)
  BY <1>3, ServerKeepsTurn DEF Resume, LoopLimit, ProviderFails, ProviderText
<1>4. ASSUME NEW cs \in Replies[t], HandleToolCalls(t, cs) PROVE TurnInv'
  BY <1>4, ServerKeepsTurn DEF HandleToolCalls
<1> QED
  BY <1>1, <1>2, <1>3, <1>4 DEF Serve

(* When nothing is under way the turn is the user's, and the tab does not  *)
(* load unless a cancelled task was heard of: however sends, cancellations *)
(* and failures interleave, for any number of messages.                    *)
THEOREM ControlComesBack == ChatSpec => []ControlReturns
<1>1. ChatInit => TurnInv
  BY ChatAssumption DEF ChatInit, TurnInv, Active, Tasks
<1>2. TurnInv /\ [ChatNext]_chatVars => TurnInv'
  <2> SUFFICES ASSUME TurnInv, [ChatNext]_chatVars PROVE TurnInv'
    OBVIOUS
  <2>1. Null \notin Tasks
    BY ChatAssumption DEF Tasks
  <2>2. CASE Cancel
    BY <2>1, <2>2, CancelKeepsTurn
  <2>3. ASSUME NEW t \in Tasks, Send(t) PROVE TurnInv'
    BY <2>1, <2>3, SendKeepsTurn
  <2>4. ASSUME NEW t \in Tasks, Dispatch(t) \/ NetworkFails(t) \/ Decide(t) PROVE TurnInv'
    BY <2>4, DispatchKeepsTurn
  <2>5. ASSUME NEW t \in Tasks, Serve(t) PROVE TurnInv'
    BY <2>5, ServeKeepsTurn
  <2>6. ASSUME NEW t \in Tasks, Age(t) PROVE TurnInv'
    BY <2>6, ServerKeepsTurn DEF Age, tab, history
  <2>7. CASE UNCHANGED chatVars
    BY <2>7, ServerKeepsTurn DEF chatVars, tab, history
  <2> QED
    BY <2>2, <2>3, <2>4, <2>5, <2>6, <2>7 DEF ChatNext
<1>3. TurnInv => ControlReturns
  BY DEF TurnInv, Active, ControlReturns
<1> QED
  BY <1>1, <1>2, <1>3, PTL DEF ChatSpec

------------------------------------------------------------------------------
(* The requests of the writing assistant, their attempts and the ledger.   *)

(* Rounding to even is off by at most a half, a charge of tenths by five. *)
LEMMA HalfEvenIsClose ==
  ASSUME NEW n \in Int
  PROVE  HalfEven(n) \in Int /\ 10 * HalfEven(n) - n \in -5 .. 5
<1> DEFINE q == n \div 10
           t == n % 10
<1>1. q \in Int /\ t \in 0 .. 9 /\ n = 10 * q + t
  OBVIOUS
<1>2. CASE t > 5 \/ (t = 5 /\ q % 2 = 1)
  <2>1. HalfEven(n) = q + 1 /\ t \in 5 .. 9
    BY <1>1, <1>2 DEF HalfEven
  <2> HIDE DEF q, t
  <2> QED
    BY <1>1, <2>1
<1>3. CASE ~ (t > 5 \/ (t = 5 /\ q % 2 = 1))
  <2>1. HalfEven(n) = q /\ t \in 0 .. 5
    BY <1>1, <1>3 DEF HalfEven
  <2> HIDE DEF q, t
  <2> QED
    BY <1>1, <2>1
<1> QED
  BY <1>2, <1>3

(* A charge is the product of tokens and rate up to its rounding. *)
LEMMA ChargeIsClose ==
  ASSUME NEW n \in Int, NEW rate \in Int
  PROVE  Charge(n, rate) \in Int /\ 10 * Charge(n, rate) - n * rate \in -5 .. 5
<1> DEFINE m == n * rate
<1>1. m \in Int /\ (n = 0 => m = 0)
  OBVIOUS
<1>2. Charge(n, rate) = IF n = 0 THEN 0 ELSE HalfEven(m)
  BY DEF Charge
<1>3. HalfEven(m) \in Int /\ 10 * HalfEven(m) - m \in -5 .. 5
  BY <1>1, HalfEvenIsClose
<1>4. Charge(n, rate) \in Int /\ 10 * Charge(n, rate) - m \in -5 .. 5
  <2> HIDE DEF m
  <2> QED
    BY <1>1, <1>2, <1>3
<1> QED
  BY <1>4

(* What n tokens cost exactly, as the property counts them. *)
At(n, rate) == IF n = Unknown \/ rate = Unknown THEN 0 ELSE n * rate

(* A category that is billed is charged what its tokens cost, rounded. *)
LEMMA PartIsClose ==
  ASSUME NEW n \in Int, NEW rate \in Count, n >= 0, n = 0 \/ rate # Unknown
  PROVE  Charge(n, rate) \in Int /\ 10 * Charge(n, rate) - At(n, rate) \in -5 .. 5
<1>1. rate \in Int /\ n # Unknown
  BY DEF Count, Unknown
<1>2. CASE rate = Unknown
  BY <1>2 DEF Charge, At
<1>3. CASE rate # Unknown
  <2>1. At(n, rate) = n * rate
    BY <1>1, <1>3 DEF At
  <2> QED
    BY <1>1, <2>1, ChargeIsClose
<1> QED
  BY <1>2, <1>3

(* What the charge was computed from. *)
Counters(u) == { u.input, u.output, u.read, u.write, u.reasoning } \subseteq Count
Rates(p) == { p.uncached, p.read, p.write, p.output, p.reasoning } \subseteq Count

(* The five categories together are the exact cost, each token once. *)
LEMMA CostIsExact ==
  ASSUME NEW u, NEW p, Counters(u), Rates(p), Chargeable(u, p)
  PROVE  /\ 10 * CalculateActualCharge(u, p) - Exact(u, p) \in -25 .. 25
         /\ \A c \in Counts(u, p) : c[1] = Unknown => c[2] = Unknown
<1> DEFINE t == BilledTokens(u, p)
           read == KnownTokens(u.read, p.read)
           cached == IF p.input = "includes_cached_read" /\ u.read # Unknown THEN u.read ELSE 0
<1>1. /\ u.input \in Count /\ u.output \in Count /\ u.read \in Count
      /\ u.write \in Count /\ u.reasoning \in Count
      /\ p.uncached \in Count /\ p.read \in Count /\ p.write \in Count
      /\ p.output \in Count /\ p.reasoning \in Count
  BY DEF Counters, Rates
<1>2. /\ t.uncached = (IF p.input = "includes_cached_read" THEN u.input - read ELSE u.input)
      /\ t.read = read /\ t.write = KnownTokens(u.write, p.write) /\ t.output = u.output
      /\ t.reasoning = IF p.reasons = "separate"
                       THEN KnownTokens(u.reasoning, p.reasoning) ELSE 0
  BY DEF BilledTokens
<1>3. /\ read # Unknown /\ (p.input = "includes_cached_read" => read <= u.input)
      /\ t.uncached # Unknown /\ (t.uncached = 0 \/ p.uncached # Unknown)
      /\ t.read = 0 \/ p.read # Unknown
      /\ t.write # Unknown /\ (t.write = 0 \/ p.write # Unknown)
      /\ t.output # Unknown /\ (t.output = 0 \/ p.output # Unknown)
      /\ t.reasoning # Unknown /\ (t.reasoning = 0 \/ p.reasoning # Unknown)
  BY DEF Chargeable, Categories
<1> HIDE DEF t
<1>4. /\ t.uncached \in Int /\ t.uncached >= 0 /\ t.uncached = u.input - cached
  BY <1>1, <1>2, <1>3 DEF KnownTokens, Count, Unknown
<1>5. /\ t.read \in Int /\ t.read >= 0 /\ At(t.read, p.read) = At(u.read, p.read)
      /\ t.write \in Int /\ t.write >= 0 /\ At(t.write, p.write) = At(u.write, p.write)
      /\ t.output \in Int /\ t.output >= 0 /\ t.output = u.output
  BY <1>1, <1>2, <1>3 DEF KnownTokens, Count, Unknown, At
<1>6. /\ t.reasoning \in Int /\ t.reasoning >= 0
      /\ At(t.reasoning, p.reasoning)
           = IF p.reasons = "separate" THEN At(u.reasoning, p.reasoning) ELSE 0
  BY <1>1, <1>2, <1>3 DEF KnownTokens, Count, Unknown, At
<1>7. /\ Charge(t.uncached, p.uncached) \in Int
      /\ 10 * Charge(t.uncached, p.uncached) - At(t.uncached, p.uncached) \in -5 .. 5
      /\ Charge(t.read, p.read) \in Int
      /\ 10 * Charge(t.read, p.read) - At(t.read, p.read) \in -5 .. 5
      /\ Charge(t.write, p.write) \in Int
      /\ 10 * Charge(t.write, p.write) - At(t.write, p.write) \in -5 .. 5
      /\ Charge(t.output, p.output) \in Int
      /\ 10 * Charge(t.output, p.output) - At(t.output, p.output) \in -5 .. 5
      /\ Charge(t.reasoning, p.reasoning) \in Int
      /\ 10 * Charge(t.reasoning, p.reasoning) - At(t.reasoning, p.reasoning) \in -5 .. 5
  BY <1>1, <1>3, <1>4, <1>5, <1>6, PartIsClose
<1>8. \A n \in Int : \A rate \in Count : At(n, rate) \in Int
  BY DEF At, Count, Unknown
<1>9. Exact(u, p) = At(t.uncached, p.uncached) + At(t.read, p.read) + At(t.write, p.write)
                         + At(t.output, p.output) + At(t.reasoning, p.reasoning)
  BY <1>4, <1>5, <1>6 DEF Exact, At
<1>10. CalculateActualCharge(u, p) =
         Charge(t.uncached, p.uncached) + Charge(t.read, p.read)
           + Charge(t.write, p.write) + Charge(t.output, p.output)
           + Charge(t.reasoning, p.reasoning)
  BY DEF CalculateActualCharge, t
<1>11. /\ At(t.uncached, p.uncached) \in Int /\ At(t.read, p.read) \in Int
       /\ At(t.write, p.write) \in Int /\ At(t.output, p.output) \in Int
       /\ At(t.reasoning, p.reasoning) \in Int
  <2>1. /\ t.uncached \in Int /\ t.read \in Int /\ t.write \in Int
        /\ t.output \in Int /\ t.reasoning \in Int
    BY <1>4, <1>5, <1>6
  <2> HIDE DEF read, cached
  <2> QED
    BY <1>1, <1>8, <2>1
<1>12. 10 * CalculateActualCharge(u, p) - Exact(u, p) \in -25 .. 25
  BY <1>7, <1>9, <1>10, <1>11
<1>13. ASSUME NEW c \in Counts(u, p), c[1] = Unknown PROVE c[2] = Unknown
  <2>1. /\ u.input # Unknown /\ u.output # Unknown
        /\ u.read = Unknown => p.read = Unknown
        /\ u.write = Unknown => p.write = Unknown
        /\ p.reasons = "separate" /\ u.reasoning = Unknown => p.reasoning = Unknown
    BY <1>1, <1>2, <1>3 DEF KnownTokens, Count, Unknown
  <2>2. \/ c = << u.input, p.uncached >> \/ c = << u.read, p.read >>
        \/ c = << u.write, p.write >> \/ c = << u.output, p.output >>
        \/ p.reasons = "separate" /\ c = << u.reasoning, p.reasoning >>
    BY <1>13 DEF Counts
  <2> QED
    BY <1>13, <2>1, <2>2
<1> QED
  BY <1>12, <1>13

------------------------------------------------------------------------------
Fields == { "pc", "id", "kind", "size", "run", "pre", "attempt", "seen", "reply", "calls",
            "last", "answer", "evidence" }

(* The request has decided on its answer. *)
Decided(f) ==
  /\ f.answer = "completed" <=> f.last = "good"
  /\ f.answer \in { "failed", "http_500" } => f.last \notin { None, "good" }

Billable(u) == u.status = "complete" => Counters(u)

(* The cost that is reported is that of the usage that is reported. *)
Charged(f) ==
  f.evidence \notin { None, NotApplicable } /\ f.evidence.cost # Unknown =>
    /\ Billable(f.evidence.actual)
    /\ f.pre.pricing \in config.records
    /\ f.evidence.cost = CalculateActualCharge(f.evidence.actual, f.pre.pricing)

(* A reservation is made at a price on record, or at none. *)
Priced(f) == f.pre.pricing \in config.records \cup { None }

FrameOK(f) ==
  /\ f = [x \in Fields |-> f[x]]
  /\ f.run \in 0 .. 2 /\ f.kind \in Kinds \cup { None } /\ f.attempt \in BOOLEAN
  /\ f.id \in Ids \cup { None } /\ (f.pc = "idle" <=> f.id = None)
  /\ f.attempt \/ f.pc \in { "reserve", "reserving", "block", "blocking" } => Priced(f)
  /\ f.pc \in { "finalize", "finalizing", "done" } => Decided(f)
  /\ f.pc \in { "finalize", "finalizing" } => f.attempt /\ Billable(f.reply)
  /\ f.pc \notin { "done", "lost" } => f.evidence = None
  /\ f.pc = "done" => Charged(f)

Record(r, phase, actual, cost) ==
  [phase |-> phase, owner |-> r, actual |-> actual, cost |-> cost]

(* Evidence that shows usage is on the ledger. *)
Persisted(r, f, l) ==
  (/\ f.pc = "done" /\ Accounting = "ledger"
   /\ f.evidence \notin { None, NotApplicable } /\ f.evidence.actual # None)
  => l = Record(r, "finalized", f.evidence.actual, f.evidence.cost)

(* The ledger's record l of request r, in frame f, whose id nobody shares. *)
Own(r, f, l) ==
  /\ \/ l \in { None, Reserved(r), Record(r, "blocked", None, Unknown) }
     \/ \E a, c : l = Record(r, "finalized", a, c)
  /\ f.pc = "block" => l = Reserved(r)
  /\ f.pc \in { "blocking", "finalizing" } => f.seen = Reserved(r)
  /\ Persisted(r, f, l)

OwnRecord(r) ==
  req[r].pc # "idle" /\ Alone(r) => Own(r, req[r], ledger[req[r].id])

Unused == \A i \in Ids : (\A r \in Requests : req[r].id # i) => ledger[i] = None

UInv ==
  /\ config \in Configs
  /\ req = [r \in Requests |-> req[r]] /\ ledger = [i \in Ids |-> ledger[i]]
  /\ \A r \in Requests : FrameOK(req[r]) /\ OwnRecord(r)
  /\ Unused

(* It is enough to look at the one request that goes on. *)
LEMMA OneActs ==
  ASSUME None \notin Ids, UInv, NEW r \in Requests, NEW g,
         req' = [req EXCEPT ![r] = g], config' = config,
         ledger' = ledger \/ \E rec : ledger' = [ledger EXCEPT ![g.id] = rec],
         g.id \in Ids, req[r].id \in { None, g.id },
         FrameOK(g), Alone(r)' => Own(r, g, ledger'[g.id])
  PROVE  UInv'
<1>1. /\ req'[r] = g /\ \A s \in Requests \ { r } : req'[s] = req[s]
      /\ \A i \in Ids \ { g.id } : ledger'[i] = ledger[i]
      /\ req' = [s \in Requests |-> req'[s]] /\ ledger' = [i \in Ids |-> ledger'[i]]
  BY DEF UInv
<1>2. \A f : FrameOK(f)' = FrameOK(f)
  BY DEF FrameOK, Priced, Charged
<1>3. \A s \in Requests : FrameOK(req[s])'
  BY <1>1, <1>2 DEF UInv
<1>4. OwnRecord(r)'
  BY <1>1 DEF OwnRecord, Own, Persisted, Accounting, UsageConfigured, RegistryLoads
<1>5. ASSUME NEW s \in Requests \ { r } PROVE OwnRecord(s)'
  <2> SUFFICES ASSUME req[s].pc # "idle", Alone(s)'
               PROVE  Own(s, req[s], ledger[req[s].id])'
    BY <1>1, <1>5 DEF OwnRecord
  <2>1. req[s].id \in Ids /\ req[s].id # g.id
    BY <1>1 DEF Alone, UInv, FrameOK
  <2>2. Alone(s)
    BY <1>1, <2>1 DEF Alone
  <2>3. Own(s, req[s], ledger[req[s].id])
    BY <2>2 DEF UInv, OwnRecord
  <2> QED
    BY <1>1, <2>1, <2>3
       DEF Own, Persisted, Accounting, UsageConfigured, RegistryLoads
<1>6. Unused'
  BY <1>1 DEF UInv, Unused
<1> QED
  BY <1>1, <1>3, <1>4, <1>5, <1>6 DEF UInv

(* A request that goes on without the ledger. *)
LEMMA QuietActs ==
  ASSUME InputsAreRead, UInv, NEW r \in Requests, NEW g,
         req' = [req EXCEPT ![r] = g], UNCHANGED << config, ledger >>,
         req[r].pc # "idle", g.id = req[r].id, FrameOK(g),
         g.pc \notin { "idle", "block", "blocking", "finalizing" },
         g.pc = "done" => \/ g.evidence \in { None, NotApplicable } \/ g.evidence.actual = None
                          \/ Accounting # "ledger"
  PROVE  UInv'
<1>1. req[r].id \in Ids /\ None \notin Ids
  BY DEF UInv, FrameOK, InputsAreRead
<1>2. Alone(r)' => Alone(r)
  BY DEF Alone, UInv
<1>3. Alone(r)' => Own(r, g, ledger'[g.id])
  BY <1>2 DEF UInv, OwnRecord, Own, Persisted
<1> QED
  BY <1>1, <1>3, OneActs

(* Once begin_attempt has answered, the request has an attempt or none.    *)
LEMMA BegunIsOK ==
  ASSUME InputsAreRead, NEW f, FrameOK(f), NEW a \in BOOLEAN, a => Priced(f),
         f.pc \in { "begin", "reserve", "reserving", "block", "blocking" }
  PROVE  /\ FrameOK(Begun(f, a)) /\ Begun(f, a).id = f.id
         /\ Begun(f, a).pc \in { "call", "engine" }
<1> DEFINE g == Begun(f, a)
<1>1. /\ g = [x \in Fields |-> g[x]]
      /\ g.attempt = a /\ g.pc \in { "call", "engine" }
      /\ g.run = f.run /\ g.kind = f.kind /\ g.id = f.id /\ g.pre = f.pre
      /\ g.evidence = f.evidence
  BY DEF Begun, FrameOK, Fields
<1> HIDE DEF g
<1>2. FrameOK(g)
  BY <1>1 DEF FrameOK, Priced, InputsAreRead
<1> QED
  BY <1>1, <1>2 DEF g

(* An answer is decided on by what the last engine did. *)
LEMMA FinalizeIsOK ==
  ASSUME InputsAreRead, NEW f, FrameOK(f), f.pc \in { "engine", "call" },
         NEW spent, Billable(spent),
         NEW answer \in { "completed", "failed" }, answer = "completed" <=> f.last = "good",
         f.last # None
  PROVE  /\ FrameOK(Finalize(f, answer, spent)) /\ Finalize(f, answer, spent).id = f.id
         /\ Finalize(f, answer, spent).pc \in { "finalize", "done" }
         /\ Finalize(f, answer, spent).evidence = None
<1> DEFINE g == Finalize(f, answer, spent)
<1>1. /\ g = [x \in Fields |-> g[x]]
      /\ g.attempt = f.attempt /\ g.run = f.run /\ g.kind = f.kind /\ g.id = f.id
      /\ g.pre = f.pre /\ g.evidence = None /\ g.last = f.last /\ g.answer = answer
      /\ \/ g.pc = "finalize" /\ f.attempt /\ g.reply = spent
         \/ g.pc = "done"
  BY DEF Finalize, FrameOK, Fields
<1> HIDE DEF g
<1>2. FrameOK(g)
  BY <1>1 DEF FrameOK, Priced, Decided, Charged, InputsAreRead
<1> QED
  BY <1>1, <1>2 DEF g

LEMMA EngineFailedIsOK ==
  ASSUME InputsAreRead, NEW f, FrameOK(f), f.pc \in { "engine", "call" },
         NEW spent, Billable(spent), f.last \notin { None, "good" }
  PROVE  /\ FrameOK(EngineFailed(f, spent)) /\ EngineFailed(f, spent).id = f.id
         /\ EngineFailed(f, spent).pc \in { "begin", "finalize", "done" }
         /\ EngineFailed(f, spent).evidence = None
<1> DEFINE g == EngineFailed(f, spent)
<1>1. CASE g = Finalize(f, "failed", spent)
  BY <1>1, FinalizeIsOK
<1>2. CASE g = [f EXCEPT !.pc = "begin", !.run = 2]
  <2>1. /\ g = [x \in Fields |-> g[x]] /\ g.pc = "begin" /\ g.run = 2
        /\ g.attempt = f.attempt /\ g.kind = f.kind /\ g.id = f.id
        /\ g.pre = f.pre /\ g.evidence = None
    BY <1>2 DEF FrameOK, Fields
  <2> HIDE DEF g
  <2>2. FrameOK(g)
    BY <2>1 DEF FrameOK, Priced, InputsAreRead
  <2> QED
    BY <2>1, <2>2 DEF g
<1> QED
  BY <1>1, <1>2 DEF EngineFailed

(* What a provider makes of a response has an outcome and counters, or no  *)
(* complete usage.                                                         *)
LEMMA CompleteIsOK ==
  ASSUME InputsAreRead, NEW resp \in Responses
  PROVE  /\ Complete(resp).result \in { "good", "invalid", "error", "exception" }
         /\ Billable(Complete(resp).usage)
<1>1. Billable(NoUsage)
  BY DEF Billable, NoUsage
<1>2. resp.usage.kind # "nonfinite" => Billable(SelectReplyUsage(resp.usage))
  <2> SUFFICES ASSUME resp.usage.kind # "nonfinite" PROVE Billable(SelectReplyUsage(resp.usage))
    OBVIOUS
  <2> DEFINE raw == resp.usage
  <2>1. raw.kind \in { "absent", "malformed", "object" }
    BY DEF InputsAreRead
  <2>2. CASE raw.kind = "object"
    <3>1. /\ raw.input \in Count /\ raw.output \in Count /\ raw.read \in Count
          /\ raw.write \in Count /\ raw.reasoning \in Count /\ Unknown \in Count
      BY <2>2 DEF InputsAreRead, Count
    <3> HIDE DEF raw
    <3>2. Billable(NormalizeOpenAI(raw)) /\ Billable(NormalizeAnthropic(raw))
      BY <1>1, <3>1 DEF NormalizeOpenAI, NormalizeAnthropic, Billable, Counters
    <3> QED
      BY <1>1, <3>2 DEF SelectReplyUsage, raw
  <2>3. CASE raw.kind # "object"
    BY <1>1, <2>1, <2>3
       DEF SelectReplyUsage, SanitizeOpenAI, SanitizeAnthropic
  <2> QED
    BY <2>2, <2>3
<1> DEFINE OK(o) == o.result \in { "good", "invalid", "error", "exception" } /\ Billable(o.usage)
<1>3. OK(ProviderRaises) /\ OK(ReplyOf(resp))
      /\ OK([result |-> "exception", usage |-> NoUsage])
  BY <1>1, <1>2 DEF ProviderRaises, ReplyOf
<1> HIDE DEF OK
<1>4. OK(ParseMessages(resp))
  BY <1>3 DEF ParseMessages
<1>5. ~ Unanswered(resp) => OK(ParseChatCompletion(resp))
  BY <1>3 DEF ParseChatCompletion, Unanswered, InputsAreRead
<1>6. OK(CompleteLocal(resp)) /\ OK(CompleteCloud(resp)) /\ OK(CompleteAnthropic(resp))
  BY <1>3, <1>4, <1>5 DEF CompleteLocal, CompleteCloud, CompleteAnthropic
<1>7. OK(Complete(resp))
  BY <1>3, <1>6 DEF Complete, Provider
<1> QED
  BY <1>7 DEF OK

LEMMA InitUsage == InputsAreRead /\ Init => UInv
<1> SUFFICES ASSUME InputsAreRead, Init PROVE UInv
  OBVIOUS
<1>1. FrameOK(Idle)
  BY DEF FrameOK, Idle, Fields
<1>2. \A r \in Requests : req[r] = Idle /\ req[r].pc = "idle"
  BY DEF Init, Idle
<1>3. \A r \in Requests : FrameOK(req[r]) /\ OwnRecord(r)
  BY <1>1, <1>2 DEF OwnRecord
<1> QED
  BY <1>3 DEF UInv, Init, Unused

(* A request comes in, with an id that is free or was used before. *)
LEMMA HandleStep ==
  ASSUME InputsAreRead, UInv, NEW r \in Requests, Handle(r)
  PROVE  UInv'
<1>1. PICK id \in Ids, kind \in Kinds, size \in Sizes :
        LET f == [Idle EXCEPT !.id = id, !.kind = kind, !.size = size]
        IN  /\ req[r].pc = "idle" /\ UNCHANGED << config, ledger >>
            /\ Set(r, CASE kind = "unselected" -> [f EXCEPT !.pc = "done", !.answer = "uncertain"]
                           [] kind = "model" -> [f EXCEPT !.pc = "begin"]
                           [] kind = "fix" -> [f EXCEPT !.run = 1,
                                !.pc = IF config.engine = "model" THEN "begin" ELSE "engine"])
  BY DEF Handle
<1> DEFINE f == [Idle EXCEPT !.id = id, !.kind = kind, !.size = size]
           Comes(g) == /\ g = [x \in Fields |-> g[x]]
                       /\ g.id = id /\ g.kind = kind /\ g.run \in { 0, 1 } /\ g.attempt = FALSE
                       /\ g.evidence = None /\ g.last = None
                       /\ \/ g.pc \in { "begin", "engine" }
                          \/ g.pc = "done" /\ g.answer = "uncertain"
<1>2. \E g : req' = [req EXCEPT ![r] = g] /\ Comes(g)
  <2>1. /\ f = [x \in Fields |-> f[x]]
        /\ f.id = id /\ f.kind = kind /\ f.run = 0 /\ f.attempt = FALSE
        /\ f.evidence = None /\ f.last = None
    BY DEF Idle, Fields
  <2>2. CASE kind = "unselected"
    <3> DEFINE g == [f EXCEPT !.pc = "done", !.answer = "uncertain"]
    <3>1. req' = [req EXCEPT ![r] = g]
      BY <1>1, <2>2 DEF Set
    <3> HIDE DEF f
    <3>2. Comes(g)
      BY <2>1 DEF Fields
    <3> QED
      BY <3>1, <3>2
  <2>3. CASE kind = "model"
    <3> DEFINE g == [f EXCEPT !.pc = "begin"]
    <3>1. req' = [req EXCEPT ![r] = g]
      BY <1>1, <2>3 DEF Set
    <3> HIDE DEF f
    <3>2. Comes(g)
      BY <2>1 DEF Fields
    <3> QED
      BY <3>1, <3>2
  <2>4. CASE kind = "fix"
    <3> DEFINE place == IF config.engine = "model" THEN "begin" ELSE "engine"
               g == [f EXCEPT !.run = 1, !.pc = place]
    <3>1. req' = [req EXCEPT ![r] = g]
      BY <1>1, <2>4 DEF Set
    <3>2. place \in { "begin", "engine" }
      OBVIOUS
    <3> HIDE DEF f, place
    <3>3. Comes(g)
      BY <2>1, <3>2 DEF Fields
    <3> QED
      BY <3>1, <3>3
  <2> QED
    BY <2>2, <2>3, <2>4 DEF InputsAreRead
<1>3. PICK g : req' = [req EXCEPT ![r] = g] /\ Comes(g)
  BY <1>2
<1>4. /\ None \notin Ids /\ None # "good" /\ req[r].pc = "idle"
      /\ UNCHANGED << config, ledger >>
  BY <1>1 DEF InputsAreRead, Outcomes
<1>5. FrameOK(g)
  <2> HIDE DEF f
  <2>3. g.attempt \in BOOLEAN /\ ~ g.attempt
    BY <1>3
  <2>1. CASE g.pc \in { "begin", "engine" }
    BY <1>3, <1>4, <2>1, <2>3 DEF FrameOK
  <2>2. CASE g.pc = "done" /\ g.answer = "uncertain"
    <3>1. Decided(g) /\ Charged(g)
      BY <1>3, <1>4, <2>2 DEF Decided, Charged
    <3> QED
      BY <1>3, <1>4, <2>2, <2>3, <3>1 DEF FrameOK
  <2> QED
    BY <1>3, <2>1, <2>2
<1>6. req[r].id = None
  BY <1>4 DEF UInv, FrameOK
<1>7. ASSUME Alone(r)' PROVE Own(r, g, ledger'[g.id])
  <2>1. \A s \in Requests \ { r } : req[s].id # g.id
    BY <1>3, <1>7 DEF Alone, UInv
  <2>2. ledger'[g.id] = None
    BY <1>3, <1>4, <1>6, <2>1 DEF UInv, Unused
  <2> QED
    BY <1>3, <2>2 DEF Own, Persisted
<1> QED
  BY <1>3, <1>4, <1>5, <1>6, <1>7, OneActs

(* The pricing of an attempt is one record of the registry, or none.       *)
LEMMA ResolvedIsPriced ==
  ASSUME ~ PreflightRaises(Resolve)
  PROVE  Resolve \in config.records \cup { None }
<1> DEFINE matches == { p \in config.records : p.from <= config.now
                          /\ (p.until = Unknown \/ config.now < p.until) }
<1>1. matches \subseteq config.records
  OBVIOUS
<1>2. matches # {} => (CHOOSE p \in matches : TRUE) \in matches
  OBVIOUS
<1>3. Resolve \in { None, Resolve } \cap ({ None, Overlap } \cup { CHOOSE p \in matches : TRUE })
  BY DEF Resolve
<1>4. Resolve # Overlap
  BY DEF PreflightRaises
<1>5. Resolve # None => matches # {}
  BY DEF Resolve
<1> QED
  BY <1>1, <1>2, <1>3, <1>4, <1>5

(* An attempt begins at a price, or the request goes on without one.       *)
LEMMA BeginStep ==
  ASSUME InputsAreRead, UInv, NEW r \in Requests, Begin(r)
  PROVE  UInv'
<1> DEFINE f == req[r]
           h == [f EXCEPT !.pre = Preflight(f, Resolve)]
<1>1. f.pc = "begin" /\ FrameOK(f) /\ UNCHANGED << config, ledger >> /\ f.evidence = None
  BY DEF Begin, UInv, FrameOK
<1>2. \/ Set(r, Begun(f, FALSE))
      \/ /\ ~ PreflightRaises(Resolve)
         /\ Set(r, Begun(h, TRUE)) \/ Set(r, [h EXCEPT !.pc = "reserve"])
  BY DEF Begin
<1>3. CASE Set(r, Begun(f, FALSE))
  BY <1>1, <1>3, BegunIsOK, QuietActs DEF Set
<1>4. ASSUME ~ PreflightRaises(Resolve),
             Set(r, Begun(h, TRUE)) \/ Set(r, [h EXCEPT !.pc = "reserve"])
      PROVE  UInv'
  <2>1. /\ h = [x \in Fields |-> h[x]] /\ h.pre.pricing = Resolve
        /\ h.pc = "begin" /\ h.id = f.id /\ h.run = f.run /\ h.kind = f.kind
        /\ h.attempt = f.attempt /\ h.evidence = None
    BY <1>1 DEF FrameOK, Fields, Preflight
  <2>2. Priced(h)
    BY <1>4, <2>1, ResolvedIsPriced DEF Priced
  <2> HIDE DEF h
  <2>3. FrameOK(h)
    BY <1>1, <2>1, <2>2 DEF FrameOK
  <2>4. CASE Set(r, Begun(h, TRUE))
    BY <1>1, <2>1, <2>2, <2>3, <2>4, BegunIsOK, QuietActs DEF Set
  <2>5. CASE Set(r, [h EXCEPT !.pc = "reserve"])
    <3> DEFINE g == [h EXCEPT !.pc = "reserve"]
    <3>1. /\ g = [x \in Fields |-> g[x]] /\ g.pre = h.pre
          /\ g.pc = "reserve" /\ g.id = h.id /\ g.run = h.run /\ g.kind = h.kind
          /\ g.attempt = h.attempt /\ g.evidence = None
      BY <2>1 DEF Fields
    <3>2. req' = [req EXCEPT ![r] = g]
      BY <2>5 DEF Set
    <3> HIDE DEF g
    <3>3. FrameOK(g)
      BY <1>1, <2>1, <2>2, <3>1 DEF FrameOK, Priced
    <3> QED
      BY <1>1, <2>1, <3>1, <3>2, <3>3, QuietActs
  <2> QED
    BY <1>4, <2>4, <2>5
<1> QED
  BY <1>2, <1>3, <1>4

(* A frame that differs in its place and in what it saw of the ledger.     *)
SameButPlace(f, g) ==
  /\ g = [x \in Fields |-> g[x]]
  /\ g.pre = f.pre /\ g.id = f.id /\ g.run = f.run /\ g.kind = f.kind
  /\ g.attempt = f.attempt /\ g.evidence = f.evidence /\ g.last = f.last
  /\ g.answer = f.answer /\ g.reply = f.reply

LEMMA AtIsOK ==
  ASSUME InputsAreRead, NEW f, FrameOK(f), NEW g, SameButPlace(f, g),
         \/ /\ f.pc \in { "reserve", "reserving", "block", "blocking" }
            /\ g.pc \in { "reserving", "block", "blocking" }
         \/ f.pc = "finalize" /\ g.pc = "finalizing"
  PROVE  FrameOK(g)
  BY DEF SameButPlace, FrameOK, Priced, Decided, InputsAreRead

(* The request knows of the ledger what a request alone with its id put there. *)
LEMMA LedgerActs ==
  ASSUME InputsAreRead, UInv, NEW r \in Requests, NEW g,
         req' = [req EXCEPT ![r] = g], config' = config,
         ledger' = ledger \/ \E rec : ledger' = [ledger EXCEPT ![req[r].id] = rec],
         req[r].pc # "idle", g.id = req[r].id, FrameOK(g),
         Own(r, req[r], ledger[g.id]) => Own(r, g, ledger'[g.id])
  PROVE  UInv'
<1>1. req[r].id \in Ids /\ None \notin Ids
  BY DEF UInv, FrameOK, InputsAreRead
<1>2. Alone(r)' => Alone(r)
  BY DEF Alone, UInv
<1>3. Alone(r)' => Own(r, g, ledger'[g.id])
  BY <1>2 DEF UInv, OwnRecord
<1> QED
  BY <1>1, <1>3, OneActs

(* An id that is on the ledger conflicts, whoever put it there. *)
LEMMA ReserveReadStep ==
  ASSUME InputsAreRead, UInv, NEW r \in Requests, ReserveRead(r)
  PROVE  UInv'
<1> DEFINE f == req[r]
           g == [f EXCEPT !.pc = "reserving"]
<1>1. f.pc = "reserve" /\ FrameOK(f) /\ UNCHANGED << config, ledger >>
  BY DEF ReserveRead, UInv
<1>2. CASE req' = [req EXCEPT ![r] = Begun(f, FALSE)]
  BY <1>1, <1>2, BegunIsOK, QuietActs
<1>3. CASE req' = [req EXCEPT ![r] = g]
  <2>1. SameButPlace(f, g) /\ g.pc = "reserving"
    BY <1>1 DEF SameButPlace, FrameOK, Fields
  <2> HIDE DEF g
  <2>2. FrameOK(g) /\ g.id = f.id /\ g.pc = "reserving"
    BY <1>1, <2>1, AtIsOK DEF SameButPlace
  <2> QED
    BY <1>1, <1>3, <2>2, QuietActs
<1> QED
  BY <1>2, <1>3 DEF ReserveRead, Set

(* The record of a request alone with its id is then the reserved one. *)
LEMMA ReserveWriteStep ==
  ASSUME InputsAreRead, UInv, NEW r \in Requests, ReserveWrite(r)
  PROVE  UInv'
<1> DEFINE f == req[r]
           g == IF f.pre.permitted THEN Begun(f, TRUE) ELSE [f EXCEPT !.pc = "block"]
<1>1. /\ f.pc = "reserving" /\ FrameOK(f) /\ f.id \in Ids
      /\ UNCHANGED config /\ ledger' = [ledger EXCEPT ![f.id] = Reserved(r)]
      /\ req' = [req EXCEPT ![r] = g]
  BY DEF ReserveWrite, Set, UInv, FrameOK
<1>2. FrameOK(g) /\ g.id = f.id /\ g.pc \in { "block", "call", "engine" }
  <2>1. Priced(f)
    BY <1>1 DEF FrameOK
  <2>2. CASE f.pre.permitted
    BY <1>1, <2>1, <2>2, BegunIsOK
  <2>3. CASE ~ f.pre.permitted
    <3>1. SameButPlace(f, g) /\ g.pc = "block"
      BY <1>1, <2>3 DEF SameButPlace, FrameOK, Fields
    <3> HIDE DEF g
    <3> QED
      BY <1>1, <3>1, AtIsOK DEF SameButPlace
  <2> QED
    BY <2>2, <2>3
<1> HIDE DEF g
<1>3. ledger'[g.id] = Reserved(r)
  BY <1>1, <1>2 DEF UInv
<1>4. Own(r, g, ledger'[g.id])
  BY <1>2, <1>3 DEF Own, Persisted
<1> QED
  BY <1>1, <1>2, <1>4, LedgerActs

(* What the request saw of the ledger is its own reservation. *)
LEMMA BlockReadStep ==
  ASSUME InputsAreRead, UInv, NEW r \in Requests, BlockRead(r)
  PROVE  UInv'
<1> DEFINE f == req[r]
           g == [f EXCEPT !.pc = "blocking", !.seen = ledger[f.id]]
<1>1. f.pc = "block" /\ FrameOK(f) /\ UNCHANGED << config, ledger >>
  BY DEF BlockRead, UInv
<1>2. CASE req' = [req EXCEPT ![r] = Begun(f, FALSE)]
  BY <1>1, <1>2, BegunIsOK, QuietActs
<1>3. CASE req' = [req EXCEPT ![r] = g]
  <2>1. SameButPlace(f, g) /\ g.pc = "blocking" /\ g.seen = ledger[f.id]
    BY <1>1 DEF SameButPlace, FrameOK, Fields
  <2> HIDE DEF g
  <2>3. FrameOK(g) /\ g.id = f.id /\ g.pc = "blocking"
    BY <1>1, <2>1, AtIsOK DEF SameButPlace
  <2>2. Own(r, f, ledger[g.id]) => Own(r, g, ledger'[g.id])
    BY <1>1, <2>1, <2>3 DEF Own, Persisted
  <2> QED
    BY <1>1, <1>3, <2>2, <2>3, LedgerActs
<1> QED
  BY <1>2, <1>3 DEF BlockRead, Set

(* The record is blocked, and not another one that came in between. *)
LEMMA BlockWriteStep ==
  ASSUME InputsAreRead, UInv, NEW r \in Requests, BlockWrite(r)
  PROVE  UInv'
<1> DEFINE f == req[r]
           g == Begun(f, TRUE)
<1>1. /\ f.pc = "blocking" /\ FrameOK(f) /\ f.id \in Ids /\ UNCHANGED config
      /\ ledger' = [ledger EXCEPT ![f.id] = [f.seen EXCEPT !.phase = "blocked"]]
      /\ req' = [req EXCEPT ![r] = g]
  BY DEF BlockWrite, Set, UInv, FrameOK
<1>2. FrameOK(g) /\ g.id = f.id /\ g.pc \in { "call", "engine" }
  <2>1. Priced(f)
    BY <1>1 DEF FrameOK
  <2> QED
    BY <1>1, <2>1, BegunIsOK
<1> HIDE DEF g
<1>3. ledger'[g.id] = [f.seen EXCEPT !.phase = "blocked"]
  BY <1>1, <1>2 DEF UInv
<1>4. ASSUME Own(r, f, ledger[g.id]) PROVE Own(r, g, ledger'[g.id])
  <2>1. f.seen = Reserved(r)
    BY <1>1, <1>4 DEF Own
  <2>2. ledger'[g.id] = Record(r, "blocked", None, Unknown)
    BY <1>3, <2>1 DEF Reserved, Record
  <2> QED
    BY <1>2, <2>2 DEF Own, Persisted
<1> QED
  BY <1>1, <1>2, <1>4, LedgerActs

(* A record that could not be written leaves the request without attempt. *)
LEMMA BeginWriteFailsStep ==
  ASSUME InputsAreRead, UInv, NEW r \in Requests, BeginWriteFails(r)
  PROVE  UInv'
<1>1. /\ req[r].pc \in { "reserving", "blocking" } /\ FrameOK(req[r])
      /\ UNCHANGED << config, ledger >> /\ req' = [req EXCEPT ![r] = Begun(req[r], FALSE)]
  BY DEF BeginWriteFails, Set, UInv
<1> QED
  BY <1>1, BegunIsOK, QuietActs

(* A frame in which an engine's outcome is noted. *)
LEMMA NotedIsOK ==
  ASSUME InputsAreRead, NEW f, FrameOK(f), f.pc \in { "engine", "call" }, NEW o
  PROVE  /\ FrameOK([f EXCEPT !.last = o]) /\ [f EXCEPT !.last = o].id = f.id
         /\ [f EXCEPT !.last = o].pc = f.pc /\ [f EXCEPT !.last = o].last = o
<1> DEFINE g == [f EXCEPT !.last = o]
<1>1. /\ g = [x \in Fields |-> g[x]] /\ g.pc = f.pc /\ g.pre = f.pre
      /\ g.id = f.id /\ g.run = f.run /\ g.kind = f.kind /\ g.attempt = f.attempt
      /\ g.evidence = None /\ g.last = o
  BY DEF FrameOK, Fields
<1> HIDE DEF g
<1>2. FrameOK(g)
  BY <1>1 DEF FrameOK, Priced, InputsAreRead
<1> QED
  BY <1>1, <1>2 DEF g

(* The selector fails, answers by the grammar engine or asks the model. *)
LEMMA SelectorStep ==
  ASSUME InputsAreRead, UInv, NEW r \in Requests, RunSelector(r)
  PROVE  UInv'
<1> DEFINE f == req[r]
           refused == [f EXCEPT !.last = "refused"]
           asked_ == [f EXCEPT !.pc = "call"]
<1>1. f.pc = "engine" /\ FrameOK(f) /\ UNCHANGED << config, ledger >> /\ f.id \in Ids
  BY DEF RunSelector, UInv, FrameOK
<1>2. \/ req' = [req EXCEPT ![r] = EngineFailed(refused, NoUsage)]
      \/ req' = [req EXCEPT ![r] = asked_]
      \/ req' = [req EXCEPT ![r] = GrammarAnswers(f)]
  BY DEF RunSelector, Set, NoGrammar
<1>3. Billable(NoUsage) /\ None # "refused" /\ None # "good"
  BY DEF Billable, NoUsage, InputsAreRead, Outcomes
<1>4. CASE req' = [req EXCEPT ![r] = EngineFailed(refused, NoUsage)]
  <2>1. FrameOK(refused) /\ refused.id = f.id /\ refused.pc = "engine" /\ refused.last = "refused"
    BY <1>1, NotedIsOK
  <2> HIDE DEF refused
  <2>2. /\ FrameOK(EngineFailed(refused, NoUsage))
        /\ EngineFailed(refused, NoUsage).id = f.id
        /\ EngineFailed(refused, NoUsage).pc \in { "begin", "finalize", "done" }
        /\ EngineFailed(refused, NoUsage).evidence = None
    BY <1>3, <2>1, EngineFailedIsOK
  <2> QED
    BY <1>1, <1>4, <2>2, QuietActs
<1>5. CASE req' = [req EXCEPT ![r] = asked_]
  <2>1. /\ asked_ = [x \in Fields |-> asked_[x]] /\ asked_.pc = "call" /\ asked_.pre = f.pre
        /\ asked_.id = f.id /\ asked_.run = f.run /\ asked_.kind = f.kind
        /\ asked_.attempt = f.attempt /\ asked_.evidence = None
    BY <1>1 DEF FrameOK, Fields
  <2> HIDE DEF asked_
  <2>2. FrameOK(asked_)
    BY <1>1, <2>1 DEF FrameOK, Priced, InputsAreRead
  <2> QED
    BY <1>1, <1>5, <2>1, <2>2, QuietActs
<1>6. CASE req' = [req EXCEPT ![r] = GrammarAnswers(f)]
  <2> DEFINE g == GrammarAnswers(f)
  <2>1. /\ g = [x \in Fields |-> g[x]] /\ g.pc = "done" /\ g.pre = f.pre
        /\ g.id = f.id /\ g.run = f.run /\ g.kind = f.kind /\ g.attempt = f.attempt
        /\ g.last = "good" /\ g.answer = "completed" /\ g.evidence \in { None, NotApplicable }
    BY <1>1 DEF FrameOK, Fields, GrammarAnswers
  <2> HIDE DEF g
  <2>2. FrameOK(g)
    BY <1>1, <1>3, <2>1 DEF FrameOK, Priced, Decided, Charged, InputsAreRead
  <2> QED
    BY <1>1, <1>6, <2>1, <2>2, QuietActs DEF g
<1> QED
  BY <1>2, <1>4, <1>5, <1>6

(* Whatever the provider answers or raises, an outcome is noted. *)
LEMMA CallProviderStep ==
  ASSUME InputsAreRead, UInv, NEW r \in Requests, CallProvider(r)
  PROVE  UInv'
<1>1. PICK resp \in Responses :
        /\ req[r].pc = "call"
        /\ LET o == Complete(resp)
           IN  Set(r, AfterCall([req[r] EXCEPT !.calls = @ + 1, !.last = o.result],
                                      o.result, o.usage))
        /\ UNCHANGED << config, ledger, faults >>
  BY DEF CallProvider
<1> DEFINE o == Complete(resp)
           f == [req[r] EXCEPT !.calls = @ + 1, !.last = o.result]
           g == AfterCall(f, o.result, o.usage)
<1>2. o.result \in { "good", "invalid", "error", "exception" } /\ Billable(o.usage)
  BY CompleteIsOK
<1>3. FrameOK(req[r]) /\ req[r].id \in Ids
  BY <1>1 DEF UInv, FrameOK
<1>4. FrameOK(f) /\ f.id = req[r].id /\ f.pc = "call" /\ f.last = o.result
  <2> DEFINE was == req[r]
  <2>1. /\ f = [x \in Fields |-> f[x]] /\ f.pc = "call" /\ f.pre = was.pre /\ f.id = was.id
        /\ f.run = was.run /\ f.kind = was.kind /\ f.attempt = was.attempt
        /\ f.evidence = None /\ f.last = o.result
    <3> HIDE DEF o
    <3> QED
      BY <1>1, <1>3 DEF FrameOK, Fields
  <2> HIDE DEF f
  <2>2. FrameOK(f)
    BY <1>1, <1>3, <2>1 DEF FrameOK, Priced, InputsAreRead
  <2> QED
    BY <2>1, <2>2
<1>5. req' = [req EXCEPT ![r] = g]
  BY <1>1 DEF Set
<1>6. o.result # None /\ Billable(NoUsage)
  BY <1>2 DEF InputsAreRead, Outcomes, Billable, NoUsage
<1>7. f.run \in 0 .. 2 /\ f.evidence = None
  BY <1>4 DEF FrameOK
<1> HIDE DEF f, o
<1>8. \/ o.result = "good" /\ g = Finalize(f, "completed", o.usage)
      \/ o.result # "good" /\ g = Finalize(f, "failed", o.usage)
      \/ o.result # "good" /\ g = Finalize(f, "failed", NoUsage)
      \/ o.result # "good" /\ g = EngineFailed(f, o.usage)
      \/ o.result = "exception" /\ g = [f EXCEPT !.pc = "done", !.answer = "http_500"]
  <2>1. CASE o.result = "good"
    BY <2>1 DEF AfterCall
  <2>2. CASE f.run = 0 /\ o.result # "good"
    BY <2>2 DEF AfterCall
  <2>3. CASE f.run > 0 /\ o.result \in { "invalid", "error" }
    BY <2>3 DEF AfterCall
  <2>4. CASE f.run = 1 /\ o.result = "exception"
    BY <2>4 DEF AfterCall
  <2>5. CASE f.run = 2 /\ o.result = "exception"
    BY <2>5 DEF AfterCall
  <2> QED
    BY <1>2, <1>7, <2>1, <2>2, <2>3, <2>4, <2>5
<1>9. FrameOK(g) /\ g.id = f.id /\ g.pc \in { "begin", "finalize", "done" } /\ g.evidence = None
  <2>1. CASE o.result = "good" /\ g = Finalize(f, "completed", o.usage)
    BY <1>2, <1>4, <1>6, <2>1, FinalizeIsOK
  <2>2. CASE o.result # "good" /\ g = Finalize(f, "failed", o.usage)
    BY <1>2, <1>4, <1>6, <2>2, FinalizeIsOK
  <2>3. CASE o.result # "good" /\ g = Finalize(f, "failed", NoUsage)
    BY <1>2, <1>4, <1>6, <2>3, FinalizeIsOK
  <2>4. CASE o.result # "good" /\ g = EngineFailed(f, o.usage)
    BY <1>2, <1>4, <1>6, <2>4, EngineFailedIsOK
  <2>5. CASE o.result = "exception" /\ g = [f EXCEPT !.pc = "done", !.answer = "http_500"]
    <3>1. /\ g = [x \in Fields |-> g[x]] /\ g.pc = "done" /\ g.answer = "http_500"
          /\ g.pre = f.pre /\ g.id = f.id /\ g.run = f.run /\ g.kind = f.kind
          /\ g.attempt = f.attempt /\ g.evidence = None /\ g.last = "exception"
      BY <1>4, <1>7, <2>5 DEF FrameOK, Fields
    <3>2. None # "exception"
      BY DEF InputsAreRead, Outcomes
    <3> HIDE DEF g
    <3>3. Decided(g) /\ Charged(g)
      BY <3>1, <3>2 DEF Decided, Charged
    <3> QED
      BY <1>4, <3>1, <3>3 DEF FrameOK, Priced
  <2> QED
    BY <1>8, <2>1, <2>2, <2>3, <2>4, <2>5
<1> HIDE DEF g
<1> QED
  BY <1>1, <1>3, <1>4, <1>5, <1>9, QuietActs

(* What a finished request reports: usage with what it costs, or nothing.  *)
LEMMA DoneIsOK ==
  ASSUME InputsAreRead, NEW f, FrameOK(f), f.pc \in { "finalize", "finalizing" },
         NEW actual, NEW cost, cost # Unknown => actual = f.reply /\ cost = CostOf(f)
  PROVE  /\ FrameOK(Done(f, actual, cost)) /\ Done(f, actual, cost).id = f.id
         /\ Done(f, actual, cost).pc = "done"
         /\ Done(f, actual, cost).evidence = [actual |-> actual, cost |-> cost]
<1> DEFINE g == Done(f, actual, cost)
<1>1. /\ g = [x \in Fields |-> g[x]] /\ g.pc = "done"
      /\ g.pre = f.pre /\ g.id = f.id /\ g.run = f.run /\ g.kind = f.kind
      /\ g.attempt = f.attempt /\ g.last = f.last /\ g.answer = f.answer
      /\ g.evidence = [actual |-> actual, cost |-> cost]
  BY DEF FrameOK, Fields, Done
<1> HIDE DEF g
<1>2. Charged(g)
  <2>1. Billable(f.reply) /\ f.attempt /\ Priced(f)
    BY DEF FrameOK
  <2>2. cost # Unknown =>
          /\ actual = f.reply /\ f.pre.pricing # None
          /\ cost = CalculateActualCharge(f.reply, f.pre.pricing)
    BY DEF CostOf
  <2> QED
    BY <1>1, <2>1, <2>2 DEF Charged, Priced
<1>3. FrameOK(g)
  BY <1>1, <1>2 DEF FrameOK, Priced, Decided, InputsAreRead
<1> QED
  BY <1>1, <1>3 DEF g

(* A record that is reserved is the one that its request reserved. *)
LEMMA ReservedIsOwn ==
  ASSUME NEW r, NEW f, NEW l, Own(r, f, l), l # None, l.phase = "reserved"
  PROVE  l = Reserved(r)
<1>1. Record(r, "blocked", None, Unknown).phase # "reserved"
  BY DEF Record
<1>2. \A a, c : Record(r, "finalized", a, c).phase # "reserved"
  BY DEF Record
<1> QED
  BY <1>1, <1>2 DEF Own

(* What a request reports whose attempt could not be finalized. *)
LEMMA NothingIsReported ==
  ASSUME InputsAreRead, NEW f, FrameOK(f), f.pc \in { "finalize", "finalizing" }
  PROVE  /\ FrameOK(Done(f, None, Unknown)) /\ Done(f, None, Unknown).id = f.id
         /\ Done(f, None, Unknown).pc = "done"
         /\ Done(f, None, Unknown).evidence.actual = None
<1> DEFINE actual == None
           cost == Unknown
<1>1. cost # Unknown => actual = f.reply /\ cost = CostOf(f)
  OBVIOUS
<1> HIDE DEF actual, cost
<1>2. /\ FrameOK(Done(f, actual, cost)) /\ Done(f, actual, cost).id = f.id
      /\ Done(f, actual, cost).pc = "done"
      /\ Done(f, actual, cost).evidence = [actual |-> actual, cost |-> cost]
  BY <1>1, DoneIsOK
<1>3. Done(f, actual, cost).evidence.actual = actual
  BY <1>2
<1> QED
  BY <1>2, <1>3 DEF actual, cost

(* What a request reports whose attempt was finalized. *)
LEMMA UsageIsReported ==
  ASSUME InputsAreRead, NEW f, FrameOK(f), f.pc \in { "finalize", "finalizing" }
  PROVE  /\ FrameOK(Done(f, f.reply, CostOf(f)))
         /\ Done(f, f.reply, CostOf(f)).id = f.id
         /\ Done(f, f.reply, CostOf(f)).pc = "done"
         /\ Done(f, f.reply, CostOf(f)).evidence
              = [actual |-> f.reply, cost |-> CostOf(f)]
<1> DEFINE actual == f.reply
           cost == CostOf(f)
<1>1. cost # Unknown => actual = f.reply /\ cost = CostOf(f)
  OBVIOUS
<1> HIDE DEF actual, cost
<1>2. /\ FrameOK(Done(f, actual, cost)) /\ Done(f, actual, cost).id = f.id
      /\ Done(f, actual, cost).pc = "done"
      /\ Done(f, actual, cost).evidence = [actual |-> actual, cost |-> cost]
  BY <1>1, DoneIsOK
<1> QED
  BY <1>2 DEF actual, cost

(* A reservation is finalized, anything else is reported without usage. *)
LEMMA FinalizeReadStep ==
  ASSUME InputsAreRead, UInv, NEW r \in Requests, FinalizeRead(r)
  PROVE  UInv'
<1> DEFINE f == req[r]
           kept == ledger[f.id]
           g == [f EXCEPT !.pc = "finalizing", !.seen = kept]
<1>1. /\ f.pc = "finalize" /\ FrameOK(f) /\ UNCHANGED << config, ledger >>
      /\ \/ Accounting = "memory" /\ req' = [req EXCEPT ![r] = Done(f, f.reply, CostOf(f))]
         \/ req' = [req EXCEPT ![r] = Done(f, None, Unknown)]
         \/ kept.phase = "reserved" /\ req' = [req EXCEPT ![r] = g]
  BY DEF FinalizeRead, Set, UInv
<1>2. CASE Accounting = "memory" /\ req' = [req EXCEPT ![r] = Done(f, f.reply, CostOf(f))]
  <2> DEFINE d == Done(f, f.reply, CostOf(f))
  <2>1. FrameOK(d) /\ d.id = f.id /\ d.pc = "done"
    BY <1>1, UsageIsReported
  <2>2. Accounting # "ledger" /\ req' = [req EXCEPT ![r] = d]
    BY <1>2
  <2> HIDE DEF d
  <2> QED
    BY <1>1, <2>1, <2>2, QuietActs
<1>3. CASE req' = [req EXCEPT ![r] = Done(f, None, Unknown)]
  <2>1. /\ FrameOK(Done(f, None, Unknown)) /\ Done(f, None, Unknown).id = f.id
        /\ Done(f, None, Unknown).pc = "done"
        /\ Done(f, None, Unknown).evidence.actual = None
    BY <1>1, NothingIsReported
  <2> QED
    BY <1>1, <1>3, <2>1, QuietActs
<1>4. CASE kept.phase = "reserved" /\ kept # None /\ req' = [req EXCEPT ![r] = g]
  <2>1. SameButPlace(f, g) /\ g.pc = "finalizing" /\ g.seen = kept
    BY <1>1 DEF SameButPlace, FrameOK, Fields
  <2> HIDE DEF g
  <2>2. FrameOK(g) /\ g.id = f.id
    BY <1>1, <2>1, AtIsOK DEF SameButPlace
  <2>3. ASSUME Own(r, f, ledger[g.id]) PROVE Own(r, g, ledger'[g.id])
    <3>1. kept = Reserved(r)
      BY <1>4, <2>2, <2>3, ReservedIsOwn
    <3> QED
      BY <1>1, <2>1, <2>2, <2>3, <3>1 DEF Own, Persisted
  <2> QED
    BY <1>1, <1>4, <2>2, <2>3, LedgerActs
<1> QED
  BY <1>1, <1>2, <1>3, <1>4 DEF FinalizeRead, Set

(* What is written is the reservation with the usage that is reported. *)
LEMMA FinalizeWriteStep ==
  ASSUME InputsAreRead, UInv, NEW r \in Requests, FinalizeWrite(r)
  PROVE  UInv'
<1> DEFINE f == req[r]
           cost == CostOf(f)
           rec == [f.seen EXCEPT !.phase = "finalized", !.actual = f.reply, !.cost = cost]
           g == Done(f, f.reply, cost)
<1>1. /\ f.pc = "finalizing" /\ FrameOK(f) /\ f.id \in Ids /\ UNCHANGED config
      /\ ledger' = [ledger EXCEPT ![f.id] = rec] /\ req' = [req EXCEPT ![r] = g]
  BY DEF FinalizeWrite, Set, UInv, FrameOK
<1> HIDE DEF cost
<1>2. /\ FrameOK(g) /\ g.id = f.id /\ g.pc = "done"
      /\ g.evidence = [actual |-> f.reply, cost |-> cost]
  BY <1>1, UsageIsReported DEF cost
<1> HIDE DEF g
<1>3. ledger'[g.id] = rec
  BY <1>1, <1>2 DEF UInv
<1>4. ASSUME Own(r, f, ledger[g.id]) PROVE Own(r, g, ledger'[g.id])
  <2>1. f.seen = Reserved(r)
    BY <1>1, <1>4 DEF Own
  <2>2. ledger'[g.id] = Record(r, "finalized", f.reply, cost)
    <3> DEFINE s == f.seen   a == f.reply
    <3>1. /\ s = [x \in { "phase", "owner", "actual", "cost" } |-> s[x]]
          /\ s.owner = r
      BY <2>1 DEF Reserved
    <3> HIDE DEF s, a
    <3> DEFINE k == [s EXCEPT !.phase = "finalized", !.actual = a, !.cost = cost]
    <3>2. /\ k = [x \in { "phase", "owner", "actual", "cost" } |-> k[x]]
          /\ k.phase = "finalized" /\ k.owner = r /\ k.actual = a /\ k.cost = cost
      BY <3>1
    <3>3. ledger'[g.id] = k
      BY <1>3 DEF s, a
    <3> HIDE DEF k
    <3>4. k = Record(r, "finalized", a, cost)
      BY <3>2 DEF Record
    <3> QED
      BY <3>3, <3>4 DEF a
  <2> QED
    BY <1>2, <2>2 DEF Own, Persisted
<1> QED
  BY <1>1, <1>2, <1>4, LedgerActs

(* A record that could not be finalized is reported without usage. *)
LEMMA FinalizeFailsStep ==
  ASSUME InputsAreRead, UInv, NEW r \in Requests, FinalizeFails(r)
  PROVE  UInv'
<1> DEFINE f == req[r]
<1>1. /\ f.pc = "finalizing" /\ FrameOK(f) /\ UNCHANGED << config, ledger >>
      /\ req' = [req EXCEPT ![r] = Done(f, None, Unknown)]
  BY DEF FinalizeFails, Set, UInv
<1>2. /\ FrameOK(Done(f, None, Unknown)) /\ Done(f, None, Unknown).id = f.id
      /\ Done(f, None, Unknown).pc = "done"
      /\ Done(f, None, Unknown).evidence.actual = None
  BY <1>1, NothingIsReported
<1> QED
  BY <1>1, <1>2, QuietActs

(* Requests under way are lost; what they put into the ledger stays.       *)
LEMMA UsageCrashStep ==
  ASSUME InputsAreRead, UInv, Crash
  PROVE  UInv'
<1>1. /\ UNCHANGED << config, ledger >> /\ None \notin Ids
      /\ req' = [r \in Requests |-> IF req[r].pc \in { "idle", "done" } THEN req[r]
                                    ELSE [req[r] EXCEPT !.pc = "lost"]]
  BY DEF Crash, InputsAreRead
<1>2. \A f : FrameOK(f)' = FrameOK(f)
  BY <1>1 DEF FrameOK, Priced, Charged
<1>3. ASSUME NEW r \in Requests
      PROVE  /\ FrameOK(req'[r]) /\ req'[r].id = req[r].id
             /\ req'[r] = req[r] \/ (req[r].pc # "idle" /\ req'[r].pc = "lost")
  <2> DEFINE f == req[r]
             g == [f EXCEPT !.pc = "lost"]
  <2>1. FrameOK(f)
    BY DEF UInv
  <2>2. CASE req'[r] = f
    BY <2>1, <2>2
  <2>3. CASE f.pc # "idle" /\ req'[r] = g
    <3>1. SameButPlace(f, g) /\ g.pc = "lost"
      BY <2>1 DEF SameButPlace, FrameOK, Fields
    <3> HIDE DEF g
    <3>2. FrameOK(g)
      BY <2>1, <2>3, <3>1 DEF SameButPlace, FrameOK, Priced
    <3> QED
      BY <2>3, <3>1, <3>2 DEF SameButPlace
  <2> QED
    BY <1>1, <2>2, <2>3
<1>4. ASSUME NEW r \in Requests PROVE OwnRecord(r)'
  <2>1. Alone(r)' => Alone(r)
    BY <1>3 DEF Alone
  <2>2. ASSUME req[r].pc # "idle", Own(r, req[r], ledger[req[r].id])
        PROVE  Own(r, req[r], ledger[req[r].id])'
    BY <1>1, <1>3, <2>2
       DEF Own, Persisted, Accounting, UsageConfigured, RegistryLoads
  <2> QED
    BY <1>3, <2>1, <2>2 DEF OwnRecord, UInv
<1>5. Unused'
  BY <1>1, <1>3 DEF Unused, UInv
<1>6. req' = [r \in Requests |-> req'[r]] /\ ledger' = [i \in Ids |-> ledger'[i]]
  BY <1>1 DEF UInv
<1> QED
  BY <1>1, <1>2, <1>3, <1>4, <1>5, <1>6 DEF UInv

(* Every step of a request, and a crash of them all, keeps the invariant. *)
LEMMA NextUsage ==
  ASSUME InputsAreRead, UInv, [Next]_vars
  PROVE  UInv'
<1>1. CASE UNCHANGED vars
  <2>1. UNCHANGED << config, req, ledger >>
    BY <1>1 DEF vars
  <2> QED
    BY <2>1 DEF UInv, FrameOK, Priced, Charged, OwnRecord, Own, Persisted, Unused, Alone,
                Accounting, UsageConfigured, RegistryLoads
<1>2. ASSUME NEW r \in Requests, Work(r) PROVE UInv'
  BY <1>2, BeginStep, ReserveReadStep, ReserveWriteStep, BlockReadStep, BlockWriteStep,
     BeginWriteFailsStep, SelectorStep, CallProviderStep, FinalizeReadStep, FinalizeWriteStep,
     FinalizeFailsStep DEF Work
<1> QED
  BY <1>1, <1>2, HandleStep, UsageCrashStep DEF Next

(* In every reachable state the frames of the requests and the ledger fit. *)
THEOREM UsageInvariance == Spec => []UInv
<1>1. UInv /\ [Next]_vars => UInv'
  BY NextUsage, UsageAssumption
<1>2. Init => UInv
  BY InitUsage, UsageAssumption
<1> QED
  BY <1>1, <1>2, PTL DEF Spec

(* Only the engines decide what a request answers: whatever the ledger, the *)
(* registry or a conflicting id do, it completes on a good result, and it  *)
(* fails only on an engine that did not give one.                          *)
THEOREM EnginesDecide == Spec => []AccountingNeverBreaks
<1>1. UInv => AccountingNeverBreaks
  BY DEF UInv, FrameOK, Decided, AccountingNeverBreaks
<1> QED
  BY <1>1, UsageInvariance, PTL

(* Evidence of a request that shows usage shows what the ledger holds, when *)
(* no other request uses its id: a failed write or a crash between reading *)
(* and replacing a record never leaves a cost that is not on the ledger.   *)
THEOREM EvidenceIsOnLedger == Spec => []EvidenceIsPersisted
<1>1. UInv => EvidenceIsPersisted
  BY DEF UInv, OwnRecord, Own, Persisted, Record, EvidenceIsPersisted
<1> QED
  BY <1>1, UsageInvariance, PTL

(* For all counts and rates a cost that is reported is the exact charge up *)
(* to the rounding of its five categories, and no category that has a rate *)
(* was of unknown size.                                                    *)
THEOREM ChargesAreExact == Spec => []ChargeIsExact
<1>1. ASSUME UInv PROVE ChargeIsExact
  <2> SUFFICES ASSUME NEW r \in Requests, req[r].pc = "done",
                      req[r].evidence \notin { None, NotApplicable },
                      req[r].evidence.cost # Unknown
               PROVE  LET e == req[r].evidence
                          p == req[r].pre.pricing
                      IN  /\ 10 * e.cost - Exact(e.actual, p) \in -25 .. 25
                          /\ \A c \in Counts(e.actual, p) :
                               c[1] = Unknown => c[2] = Unknown
    BY DEF ChargeIsExact
  <2> DEFINE u == req[r].evidence.actual
             p == req[r].pre.pricing
  <2>1. /\ Billable(u) /\ p \in config.records
        /\ req[r].evidence.cost = CalculateActualCharge(u, p)
    BY <1>1 DEF UInv, FrameOK, Charged
  <2>2. Chargeable(u, p)
    BY <2>1 DEF CalculateActualCharge
  <2>3. Counters(u)
    BY <2>1, <2>2 DEF Chargeable, Billable
  <2>4. Rates(p)
    BY <1>1, <2>1, UsageAssumption DEF UInv, InputsAreRead, Rates
  <2> QED
    BY <2>1, <2>2, <2>3, <2>4, CostIsExact
<1> QED
  BY <1>1, UsageInvariance, PTL
==============================================================================
