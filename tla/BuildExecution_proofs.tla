----------------------- MODULE BuildExecution_proofs -----------------------
(***************************************************************************)
(* Proofs about BuildExecution, for every plan, every set of processes and *)
(* every set of requests.                                                  *)
(***************************************************************************)
EXTENDS BuildExecution, WellFoundedInduction, TLAPS

----------------------------------------------------------------------------
(* The scheduler keeps a status map valid *)

\* A map a process at work may have in memory: valid, and nothing interrupted.
Workable(s) == ValidTasks(s) /\ \A t \in Tasks : s[t] # "interrupted"

NothingRuns(s) == \A t \in Tasks : s[t] # "running"

(* The state a run starts from is valid (scheduler.py:24). *)
LEMMA InitialIsWorkable == Workable(InitialTasks) /\ NothingRuns(InitialTasks)
<1>1. InitialTasks \in [Tasks -> TaskStatus]
  BY DEF InitialTasks, TaskStatus, Unfinished
<1>2. /\ AtMostOneRuns(InitialTasks) /\ BlockedHasCause(InitialTasks)
      /\ NothingRuns(InitialTasks) /\ \A t \in Tasks : InitialTasks[t] # "interrupted"
  BY DEF InitialTasks, AtMostOneRuns, BlockedHasCause, NothingRuns
<1>3. DependenciesRespected(InitialTasks)
  BY DEF InitialTasks, Roots, DependenciesRespected, DependenciesDone
<1>4. PendingWaits(InitialTasks)
  <2> SUFFICES ASSUME NEW t \in Tasks, InitialTasks[t] = "pending"
               PROVE  \E d \in DependsOn[t] : InitialTasks[d] # "completed"
    BY DEF PendingWaits, DependenciesDone
  <2>1. PICK d \in DependsOn[t] : d \in Tasks
    BY PlanIsOrdered DEF InitialTasks, Roots
  <2> QED BY <2>1 DEF InitialTasks
<1> QED BY <1>1, <1>2, <1>3, <1>4 DEF Workable, ValidTasks

(* So is the one a refused build ends with (executor.py:166). *)
LEMMA RefusedIsWorkable ==
    LET s == [t \in Tasks |-> IF t \in Roots THEN "failed" ELSE "blocked"]
    IN  Workable(s) /\ NothingRuns(s)
<1> DEFINE s == [t \in Tasks |-> IF t \in Roots THEN "failed" ELSE "blocked"]
<1>1. s \in [Tasks -> TaskStatus] /\ AtMostOneRuns(s) /\ PendingWaits(s) /\ NothingRuns(s)
  BY DEF TaskStatus, Unfinished, AtMostOneRuns, PendingWaits, NothingRuns
<1>2. DependenciesRespected(s)
  BY DEF DependenciesRespected, DependenciesDone, Roots
<1>3. BlockedHasCause(s)
  <2> SUFFICES ASSUME NEW t \in Tasks, s[t] = "blocked"
               PROVE  \E d \in DependsOn[t] : s[d] \in {"failed", "blocked"}
    BY DEF BlockedHasCause
  <2>1. t \notin Roots
    OBVIOUS
  <2>2. PICK d \in DependsOn[t] : d \in Tasks
    BY <2>1, PlanIsOrdered DEF Roots
  <2> QED BY <2>2
<1> QED BY <1>1, <1>2, <1>3 DEF Workable, ValidTasks

(* Starting a ready task while nothing runs keeps the map valid. *)
LEMMA MarkRunningKeeps ==
    ASSUME NEW s, Workable(s), NothingRuns(s), NEW t \in Tasks, s[t] = "ready"
    PROVE  Workable(MarkRunning(s, t)) /\ MarkRunning(s, t)[t] = "running"
<1> DEFINE r == MarkRunning(s, t)
<1>1. /\ s \in [Tasks -> TaskStatus] /\ DependenciesRespected(s)
      /\ PendingWaits(s) /\ BlockedHasCause(s)
  BY DEF Workable, ValidTasks
<1>2. r \in [Tasks -> TaskStatus] /\ r[t] = "running" /\ \A u \in Tasks : u # t => r[u] = s[u]
  BY <1>1 DEF MarkRunning, TaskStatus, Unfinished
<1>3. \A u \in Tasks : DependenciesDone(r, u) <=> DependenciesDone(s, u)
  BY <1>1, <1>2, PlanIsOrdered DEF DependenciesDone
<1>4. AtMostOneRuns(r)
  BY <1>2 DEF AtMostOneRuns, NothingRuns
<1>5. DependenciesRespected(r) /\ PendingWaits(r)
  BY <1>1, <1>2, <1>3 DEF DependenciesRespected, PendingWaits
<1>6. BlockedHasCause(r)
  BY <1>1, <1>2, PlanIsOrdered DEF BlockedHasCause
<1> QED BY <1>2, <1>4, <1>5, <1>6 DEF Workable, ValidTasks

(* Completion releases exactly what may now run (scheduler.py:103). *)
LEMMA MarkCompletedKeeps ==
    ASSUME NEW s, Workable(s), NEW t \in Tasks, s[t] = "running"
    PROVE  Workable(MarkCompleted(s, t)) /\ NothingRuns(MarkCompleted(s, t))
<1> DEFINE done == [s EXCEPT ![t] = "completed"]
           r == MarkCompleted(s, t)
<1>1. /\ s \in [Tasks -> TaskStatus] /\ AtMostOneRuns(s) /\ DependenciesRespected(s)
      /\ PendingWaits(s) /\ BlockedHasCause(s)
  BY DEF Workable, ValidTasks
<1>2. done \in [Tasks -> TaskStatus] /\ done[t] = "completed" /\ \A u \in Tasks : u # t => done[u] = s[u]
  BY <1>1 DEF TaskStatus, Unfinished
<1>3. /\ r \in [Tasks -> TaskStatus]
      /\ \A u \in Tasks : r[u] = IF done[u] = "pending" /\ DependenciesDone(done, u)
                                 THEN "ready" ELSE done[u]
  BY <1>2 DEF MarkCompleted, TaskStatus, Unfinished
<1> HIDE DEF r, done
<1>4. \A u \in Tasks : r[u] = "completed" <=> done[u] = "completed"
  BY <1>3
<1>5. \A u \in Tasks : DependenciesDone(r, u) <=> DependenciesDone(done, u)
  BY <1>4, PlanIsOrdered DEF DependenciesDone
<1>6. \A u \in Tasks : DependenciesDone(s, u) => DependenciesDone(done, u)
  BY <1>2, PlanIsOrdered DEF DependenciesDone
<1>7. AtMostOneRuns(r) /\ NothingRuns(r)
  BY <1>1, <1>2, <1>3 DEF AtMostOneRuns, NothingRuns
<1>8. DependenciesRespected(r)
  BY <1>1, <1>2, <1>3, <1>5, <1>6 DEF DependenciesRespected
<1>9. PendingWaits(r)
  BY <1>3, <1>5 DEF PendingWaits
<1>10. BlockedHasCause(r)
  <2> SUFFICES ASSUME NEW u \in Tasks, r[u] = "blocked"
               PROVE  \E d \in DependsOn[u] : r[d] \in {"failed", "blocked"}
    BY DEF BlockedHasCause
  <2>1. s[u] = "blocked"
    BY <1>2, <1>3
  <2>2. PICK d \in DependsOn[u] : s[d] \in {"failed", "blocked"}
    BY <1>1, <2>1 DEF BlockedHasCause
  <2>3. d \in Tasks /\ d # t
    BY <2>2, PlanIsOrdered
  <2>4. r[d] = s[d]
    BY <1>2, <1>3, <2>2, <2>3
  <2> QED BY <2>2, <2>4
<1>11. \A u \in Tasks : r[u] # "interrupted"
  BY <1>2, <1>3 DEF Workable
<1> QED BY <1>3, <1>7, <1>8, <1>9, <1>10, <1>11 DEF Workable, ValidTasks, r

(* What lies downstream of a running task cannot have begun, and is there *)
(* because a dependency of it is. *)
LEMMA DownstreamWaits ==
    ASSUME NEW s, Workable(s), NEW t \in Tasks, s[t] = "running",
           NEW u \in Downstream(t), u # t
    PROVE  /\ u \in Tasks /\ s[u] \in {"pending", "blocked"}
           /\ \E d \in DependsOn[u] : d \in Downstream(t)
<1> DEFINE Closed(B) == t \in B /\ \A v \in Tasks : DependsOn[v] \cap B # {} => v \in B
<1>1. /\ s \in [Tasks -> TaskStatus] /\ AtMostOneRuns(s) /\ DependenciesRespected(s)
      /\ \A v \in Tasks : s[v] # "interrupted"
  BY DEF Workable, ValidTasks
<1>2. u \in Tasks /\ \A B \in SUBSET Tasks : Closed(B) => u \in B
  BY DEF Downstream
<1>3. s[u] \in {"pending", "blocked"}
  <2> DEFINE B == {v \in Tasks : s[v] \in {"pending", "blocked"} \/ v = t}
  <2>1. ASSUME NEW v \in Tasks, NEW d \in DependsOn[v], d \in B
        PROVE  v \in B
    <3>1. d \in Tasks /\ s[d] # "completed"
      BY <2>1
    <3>2. ~DependenciesDone(s, v)
      BY <2>1, <3>1 DEF DependenciesDone
    <3>3. s[v] \notin {"ready", "running", "completed", "failed"}
      BY <1>1, <3>2 DEF DependenciesRespected
    <3> QED BY <1>1, <3>3 DEF TaskStatus, Unfinished
  <2>2. B \in SUBSET Tasks /\ Closed(B)
    BY <2>1
  <2>3. u \in B
    BY <1>2, <2>2
  <2> QED BY <2>3
<1>4. \E d \in DependsOn[u] : d \in Downstream(t)
  <2> SUFFICES ASSUME \A d \in DependsOn[u] : d \notin Downstream(t)
               PROVE  FALSE
    OBVIOUS
  <2> DEFINE B == Downstream(t) \ {u}
  <2>1. B \in SUBSET Tasks /\ t \in B
    BY DEF Downstream
  <2>2. ASSUME NEW v \in Tasks, NEW d \in DependsOn[v], d \in B
        PROVE  v \in B
    <3>1. v # u
      BY <2>2
    <3>2. v \in Downstream(t)
      BY <2>2 DEF Downstream
    <3> QED BY <3>1, <3>2
  <2>3. Closed(B)
    BY <2>1, <2>2
  <2>4. u \in B
    BY <1>2, <2>1, <2>3
  <2> QED BY <2>4
<1> QED BY <1>2, <1>3, <1>4

(* A failure blocks exactly what can no longer run (scheduler.py:126). *)
LEMMA MarkFailedKeeps ==
    ASSUME NEW s, Workable(s), NEW t \in Tasks, s[t] = "running"
    PROVE  Workable(MarkFailed(s, t)) /\ NothingRuns(MarkFailed(s, t))
<1> DEFINE r == MarkFailed(s, t)
           D == Downstream(t)
<1>1. /\ s \in [Tasks -> TaskStatus] /\ AtMostOneRuns(s) /\ DependenciesRespected(s)
      /\ PendingWaits(s) /\ BlockedHasCause(s) /\ \A v \in Tasks : s[v] # "interrupted"
  BY DEF Workable, ValidTasks
<1>2. /\ r \in [Tasks -> TaskStatus] /\ r[t] = "failed"
      /\ \A u \in Tasks : u # t => r[u] = IF u \in D /\ s[u] \in {"pending", "ready"}
                                          THEN "blocked" ELSE s[u]
  BY <1>1 DEF MarkFailed, TaskStatus, Unfinished
<1>3. \A u \in D : u # t => /\ u \in Tasks /\ s[u] \in {"pending", "blocked"}
                             /\ \E d \in DependsOn[u] : d \in D
  BY DownstreamWaits
<1> HIDE DEF r, D
<1>4. \A u \in Tasks : r[u] = "completed" <=> s[u] = "completed"
  BY <1>2
<1>5. \A u \in Tasks : DependenciesDone(r, u) <=> DependenciesDone(s, u)
  BY <1>4, PlanIsOrdered DEF DependenciesDone
<1>6. \A u \in D : r[u] \in {"failed", "blocked"}
  BY <1>2, <1>3
<1>7. NothingRuns(r) /\ AtMostOneRuns(r)
  BY <1>1, <1>2 DEF NothingRuns, AtMostOneRuns
<1>8. DependenciesRespected(r)
  BY <1>1, <1>2, <1>5 DEF DependenciesRespected
<1>9. PendingWaits(r)
  BY <1>1, <1>2, <1>5 DEF PendingWaits
<1>10. BlockedHasCause(r)
  <2> SUFFICES ASSUME NEW u \in Tasks, r[u] = "blocked"
               PROVE  \E d \in DependsOn[u] : r[d] \in {"failed", "blocked"}
    BY DEF BlockedHasCause
  <2>1. u # t
    BY <1>2
  <2>2. CASE u \in D
    BY <1>3, <1>6, <2>1, <2>2
  <2>3. CASE u \notin D
    <3>1. s[u] = "blocked"
      BY <1>2, <2>1, <2>3
    <3>2. PICK d \in DependsOn[u] : s[d] \in {"failed", "blocked"}
      BY <1>1, <3>1 DEF BlockedHasCause
    <3>3. d \in Tasks
      BY <3>2, PlanIsOrdered
    <3> QED BY <1>2, <3>2, <3>3
  <2> QED BY <2>2, <2>3
<1>11. \A u \in Tasks : r[u] # "interrupted"
  BY <1>1, <1>2
<1> QED BY <1>2, <1>7, <1>8, <1>9, <1>10, <1>11 DEF Workable, ValidTasks, r

(* The first ready task is a ready task. *)
LEMMA NextReadyIsReady ==
    ASSUME NEW s, ReadyTasks(s) # {}
    PROVE  NextReady(s) \in Tasks /\ s[NextReady(s)] = "ready"
<1>1. ReadyTasks(s) \in SUBSET Nat
  BY PlanIsOrdered DEF ReadyTasks, Tasks
<1>2. PICK t \in ReadyTasks(s) : \A u \in ReadyTasks(s) : ~(<<u, t>> \in OpToRel(<, Nat))
  BY <1>1, WFMin, NatLessThanWellFounded, Zenon
<1>3. t \in Nat /\ \A u \in ReadyTasks(s) : u \in Nat
  BY <1>1
<1>4. \A u \in ReadyTasks(s) : ~(u < t)
  BY <1>2, <1>3, Zenon DEF OpToRel
<1>5. \A u \in ReadyTasks(s) : t <= u
  BY <1>3, <1>4
<1>6. NextReady(s) \in ReadyTasks(s)
  BY <1>2, <1>5 DEF NextReady
<1> QED BY <1>6 DEF ReadyTasks

----------------------------------------------------------------------------
(* The inductive invariant *)

Asking == {"lookup", "acquire", "scan", "check", "create"}
AtWork == {"work", "completed", "failed"}
Taken  == AtWork \cup {"analyse", "suspend", "loop", "anchor", "release", "unlink",
                       "answer", "relock"}

Seens  == UNION {[S -> Files \cup {None}] : S \in SUBSET Dirs}
Memory == [pc : Asking \cup Taken \cup {"idle", "bind", "resume"},
           req : Requests \cup {None}, dir : Dirs \cup {None}, claim : Nat,
           seen : Seens \cup {None}, new : BOOLEAN,
           tasks : [Tasks -> TaskStatus], task : Tasks \cup {0}]

\* The key of the execution is bound to the request the execution is for.
BoundTo(d) == disk[d] # None /\ bound[disk[d].req.key] = disk[d].req

GoodFiles(d) ==
    /\ Loadable(disk[d])
    /\ DirOf(disk[d].req) = d
    /\ disk[d].status = "suspended" => BoundTo(d)

\* What was read is of the request that is there still.
GoodSeen(seen) ==
    /\ seen \in Seens
    /\ \A d \in DOMAIN seen : seen[d] # None =>
          /\ disk[d] # None /\ disk[d].req = seen[d].req
          /\ seen[d].status = "suspended" => BoundTo(d)

\* What a process has in memory, and what it may count on.
GoodMemory(q) ==
    /\ q \in Memory
    /\ q.pc \in Asking \cup {"bind"} => q.req \in Requests /\ q.dir = DirOf(q.req)
    /\ q.pc = "check" => GoodSeen(q.seen)
    /\ q.pc = "bind" => disk[q.dir] # None /\ disk[q.dir].req = q.req
    /\ q.pc \in Taken => q.req \in Requests /\ q.dir \in Dirs /\ BoundTo(q.dir)
    /\ q.pc = "resume" => q.dir \in Dirs /\ disk[q.dir] # None
    /\ Workable(q.tasks)
    /\ q.pc \in AtWork => q.task \in Tasks /\ q.tasks[q.task] = "running"
    /\ q.pc \notin AtWork => NothingRuns(q.tasks)

IInv ==
    /\ TypeOK
    /\ \A d \in Dirs : disk[d] # None => GoodFiles(d)
    /\ DOMAIN proc = Procs /\ \A p \in Procs : GoodMemory(proc[p])
    /\ \A e \in Execs : envelope[e] # None => disk[envelope[e]] # None
    /\ \A d \in Dirs, t \in Tasks : dispatched[d][t] > 0 => BoundTo(d)

\* No execution disappears or changes its request, no key is bound anew.
Lasting ==
    /\ \A d \in Dirs : disk[d] # None => disk'[d] # None /\ disk'[d].req = disk[d].req
    /\ \A k \in Keys : bound[k] # None => bound'[k] = bound[k]

\* What each action shows of its step: all but the types, for p alone.
Moves(p) ==
    /\ Lasting
    /\ \A d \in Dirs : disk'[d] \in {disk[d], None} \/ GoodFiles(d)'
    /\ DOMAIN proc' = Procs /\ \A q \in Procs : q = p \/ proc'[q] = proc[q]
    /\ GoodMemory(proc[p])'
    /\ \A e \in Execs : envelope'[e] \in {envelope[e], None} \/ disk'[envelope'[e]] # None
    /\ \A d \in Dirs, t \in Tasks : dispatched'[d][t] = dispatched[d][t] \/ BoundTo(d)'

(* A binding outlasts the step. *)
LEMMA BoundLasts ==
    ASSUME TypeOK, Lasting, NEW d \in Dirs, BoundTo(d)
    PROVE  BoundTo(d)'
<1>1. disk[d] \in Files /\ disk[d].req \in Requests
  BY DEF TypeOK, BoundTo, Files
<1>2. disk[d].req.key \in Keys /\ disk[d].req # None
  BY <1>1, ConfigAssumption DEF Keys
<1> QED BY <1>1, <1>2 DEF Lasting, BoundTo

(* What a process may count on outlasts the steps of the others. *)
LEMMA MemoryLasts ==
    ASSUME TypeOK, Lasting, NEW p, GoodMemory(proc[p]), proc'[p] = proc[p]
    PROVE  GoodMemory(proc[p])'
<1>1. ASSUME proc[p].pc = "check"
      PROVE  GoodSeen(proc[p].seen)'
  <2>1. GoodSeen(proc[p].seen)
    BY <1>1 DEF GoodMemory
  <2>2. \A d \in DOMAIN proc[p].seen : d \in Dirs
    BY <2>1 DEF GoodSeen, Seens
  <2> QED BY <2>1, <2>2, BoundLasts DEF GoodSeen, Lasting
<1>2. ASSUME proc[p].pc = "bind"
      PROVE  disk'[proc[p].dir] # None /\ disk'[proc[p].dir].req = proc[p].req
  BY <1>2 DEF GoodMemory, Lasting, Dirs
<1>3. ASSUME proc[p].pc \in Taken
      PROVE  BoundTo(proc[p].dir)'
  BY <1>3, BoundLasts DEF GoodMemory
<1> QED BY <1>1, <1>2, <1>3 DEF GoodMemory, Lasting

(* A step that does what Moves says keeps the invariant. *)
LEMMA MovesKeep ==
    ASSUME IInv, TypeOK', NEW p \in Procs, Moves(p)
    PROVE  IInv'
<1>1. \A d \in Dirs : disk'[d] # None => GoodFiles(d)'
  BY BoundLasts DEF IInv, Moves, GoodFiles, Loadable
<1>2. \A q \in Procs : GoodMemory(proc[q])'
  BY MemoryLasts DEF IInv, Moves
<1>3. \A e \in Execs : envelope'[e] # None => disk'[envelope'[e]] # None
  BY DEF IInv, Moves, Lasting, TypeOK
<1>4. \A d \in Dirs, t \in Tasks : dispatched'[d][t] > 0 => BoundTo(d)'
  BY BoundLasts DEF IInv, Moves
<1> QED BY <1>1, <1>2, <1>3, <1>4 DEF IInv, Moves

(* A step within a process that leaves what the others look at alone. *)
LEMMA Within ==
    ASSUME IInv, NEW p \in Procs, UNCHANGED <<disk, bound, envelope, dispatched>>,
           DOMAIN proc' = Procs, \A q \in Procs : q = p \/ proc'[q] = proc[q],
           GoodMemory(proc'[p])
    PROVE  Moves(p)
<1>1. GoodMemory(proc[p])'
  BY DEF GoodMemory, GoodSeen, BoundTo
<1> QED BY <1>1 DEF Moves, Lasting, IInv

(* A process between two calls has nothing to count on. *)
LEMMA IdleIsGood == Idle \in Memory /\ GoodMemory(Idle)
<1>1. Workable(InitialTasks) /\ NothingRuns(InitialTasks)
  BY InitialIsWorkable
<1>2. Idle \in Memory
  BY <1>1 DEF Idle, Memory, Workable, ValidTasks
<1> QED BY <1>1, <1>2 DEF Idle, GoodMemory, Asking, Taken, AtWork

(* The end of a call frees locks and nothing else. *)
LEMMA EndsKeeps ==
    ASSUME IInv, NEW p \in Procs, Ends(p)
    PROVE  /\ execLock' \in [Dirs -> Procs \cup {None}]
           /\ claimsLock' \in [Builds -> Procs \cup {None}]
           /\ DOMAIN proc' = Procs /\ \A q \in Procs : q = p \/ proc'[q] = proc[q]
           /\ proc'[p] = Idle
<1>1. execLock' \in [Dirs -> Procs \cup {None}] /\ claimsLock' \in [Builds -> Procs \cup {None}]
  BY DEF IInv, TypeOK, Ends, Unlocked
<1> QED BY <1>1 DEF IInv, Ends

LEMMA LeavesKeeps ==
    ASSUME IInv, NEW p \in Procs, Leaves(p)
    PROVE  TypeOK' /\ Moves(p)
<1>1. Ends(p) /\ UNCHANGED <<disk, authority, bound, envelope, dispatched, calls, crashes>>
  BY DEF Leaves
<1>2. TypeOK'
  BY <1>1, EndsKeeps DEF IInv, TypeOK, authority
<1>3. GoodMemory(proc'[p])
  BY <1>1, EndsKeeps, IdleIsGood
<1>4. Moves(p)
  BY <1>1, <1>3, EndsKeeps, Within
<1> QED BY <1>2, <1>4

LEMMA ExecuteKeeps ==
    ASSUME IInv, NEW p \in Procs, NEW r \in Requests, Execute(p, r)
    PROVE  TypeOK' /\ Moves(p)
<1>1. TypeOK'
  BY ConfigAssumption DEF IInv, TypeOK, Execute, store, authority
<1>2. /\ UNCHANGED <<disk, bound, envelope, dispatched>> /\ DOMAIN proc' = Procs
      /\ \A q \in Procs : q = p \/ proc'[q] = proc[q]
      /\ proc'[p] = [Idle EXCEPT !.pc = "lookup", !.req = r, !.dir = DirOf(r)]
  BY DEF IInv, Execute, store
<1>3. GoodMemory(proc'[p])
  <2>1. Idle \in Memory /\ DirOf(r) \in Dirs /\ Idle.tasks = InitialTasks
    BY IdleIsGood DEF Idle, Dirs
  <2>2. proc'[p] \in Memory /\ proc'[p].tasks = InitialTasks /\ proc'[p].pc = "lookup"
    BY <1>2, <2>1 DEF Memory, Asking
  <2> QED BY <1>2, <2>1, <2>2, InitialIsWorkable DEF GoodMemory, Memory, Asking, Taken, AtWork
<1> QED BY <1>1, <1>2, <1>3, Within

LEMMA LookupKeeps ==
    ASSUME IInv, NEW p \in Procs, Lookup(p)
    PROVE  TypeOK' /\ Moves(p)
<1>1. CASE Leaves(p)
  BY <1>1, LeavesKeeps
<1>2. CASE ~Leaves(p)
  <2>1. TypeOK'
    BY <1>2 DEF IInv, TypeOK, Lookup, store, authority
  <2>2. /\ UNCHANGED <<disk, bound, envelope, dispatched>> /\ DOMAIN proc' = Procs
        /\ \A q \in Procs : q = p \/ proc'[q] = proc[q]
        /\ proc[p].pc = "lookup" /\ GoodMemory(proc[p])
        /\ proc'[p] = [proc[p] EXCEPT !.pc = "acquire"]
    BY <1>2 DEF IInv, Lookup, store, Go, At
  <2>3. GoodMemory(proc'[p])
    BY <2>2 DEF GoodMemory, Memory, Asking, Taken, AtWork
  <2> QED BY <2>1, <2>2, <2>3, Within
<1> QED BY <1>1, <1>2

LEMMA AcquireKeeps ==
    ASSUME IInv, NEW p \in Procs, Acquire(p)
    PROVE  TypeOK' /\ Moves(p)
<1>1. CASE Leaves(p)
  BY <1>1, LeavesKeeps
<1>2. CASE ~Leaves(p)
  <2>1. /\ UNCHANGED <<disk, bound, envelope, dispatched>> /\ DOMAIN proc' = Procs
        /\ \A q \in Procs : q = p \/ proc'[q] = proc[q]
        /\ proc[p].pc = "acquire" /\ GoodMemory(proc[p])
        /\ claims' \in Nat /\ UNCHANGED <<execLock, claimsLock, calls, crashes>>
        /\ proc'[p] = [proc[p] EXCEPT !.pc = "scan", !.claim = claims']
        /\ active' = [active EXCEPT ![proc[p].req.scope] = [id |-> claims', dir |-> proc[p].dir]]
    <3>1. /\ UNCHANGED <<store, bound, envelope, dispatched, calls, crashes>>
          /\ proc[p].pc = "acquire" /\ claims' = claims + 1
          /\ proc' = [proc EXCEPT ![p].pc = "scan", ![p].claim = claims']
          /\ active' = [active EXCEPT ![proc[p].req.scope] = [id |-> claims', dir |-> proc[p].dir]]
      BY <1>2, Zenon DEF Acquire, At
    <3>2. claims' \in Nat
      BY <3>1 DEF IInv, TypeOK
    <3> QED BY <3>1, <3>2 DEF IInv, store
  <2>2. proc[p].dir \in Dirs
    BY <2>1 DEF GoodMemory, Asking, Dirs
  <2>3. active' \in [Scopes -> Claims \cup {None}]
    BY <2>1, <2>2 DEF IInv, TypeOK, Claims
  <2>4. TypeOK'
    BY <2>1, <2>3 DEF IInv, TypeOK
  <2>5. GoodMemory(proc'[p])
    BY <2>1 DEF GoodMemory, Memory, Asking, Taken, AtWork
  <2> QED BY <2>1, <2>4, <2>5, Within
<1> QED BY <1>1, <1>2

LEMMA ScanKeeps ==
    ASSUME IInv, NEW p \in Procs, Scan(p)
    PROVE  TypeOK' /\ Moves(p)
<1>1. CASE Leaves(p)
  BY <1>1, LeavesKeeps
<1>2. CASE ~Leaves(p)
  <2> DEFINE b == proc[p].req.build
             mine == {e \in Dirs : e.build = b}
             read == [d \in mine |-> disk[d]]
  <2>1. /\ UNCHANGED <<disk, bound, envelope, dispatched>> /\ DOMAIN proc' = Procs
        /\ \A q \in Procs : q = p \/ proc'[q] = proc[q]
        /\ proc[p].pc = "scan" /\ GoodMemory(proc[p])
        /\ UNCHANGED <<execLock, authority, calls, crashes>>
        /\ claimsLock' = [claimsLock EXCEPT ![b] = p]
        /\ proc'[p] = [proc[p] EXCEPT !.pc = "check", !.seen = read]
    BY <1>2 DEF IInv, Scan, At
  <2>2. TypeOK'
    BY <2>1 DEF IInv, TypeOK, authority
  <2>3. read \in [mine -> Files \cup {None}] /\ mine \in SUBSET Dirs
    BY DEF IInv, TypeOK
  <2>4. read \in Seens
    BY <2>3 DEF Seens
  <2>5. GoodSeen(read)
    BY <2>3, <2>4 DEF GoodSeen, IInv, GoodFiles
  <2> HIDE DEF read
  <2>6. GoodMemory(proc'[p])
    BY <2>1, <2>4, <2>5 DEF GoodMemory, Memory, Asking, Taken, AtWork
  <2> QED BY <2>1, <2>2, <2>6, Within
<1> QED BY <1>1, <1>2

(* Steps that only move on. *)
LEMMA GoKeeps ==
    ASSUME IInv, NEW p \in Procs,
           \/ Admit(p) \/ Release(p) \/ Unlink(p) \/ Answer(p)
    PROVE  TypeOK' /\ Moves(p)
<1>1. CASE Answer(p)
  BY <1>1, LeavesKeeps DEF Answer
<1>2. CASE Admit(p) \/ Release(p) \/ Unlink(p)
  <2>1. /\ UNCHANGED <<disk, bound, envelope, dispatched, execLock, claimsLock, claims, calls, crashes>>
        /\ DOMAIN proc' = Procs /\ \A q \in Procs : q = p \/ proc'[q] = proc[q]
        /\ GoodMemory(proc[p]) /\ proc[p].pc \in {"analyse", "release", "unlink"}
        /\ \E pc \in {"loop", "unlink", "answer"} : proc'[p] = [proc[p] EXCEPT !.pc = pc]
    BY <1>2 DEF IInv, Admit, Release, Unlink, store, authority, At, Go
  <2>2. active' \in [Scopes -> Claims \cup {None}]
    BY <1>2 DEF IInv, TypeOK, Admit, Release, Unlink, authority
  <2>3. TypeOK'
    BY <2>1, <2>2 DEF IInv, TypeOK
  <2>4. GoodMemory(proc'[p])
    BY <2>1 DEF GoodMemory, Memory, Asking, Taken, AtWork
  <2> QED BY <2>1, <2>3, <2>4, Within
<1> QED BY <1>1, <1>2

LEMMA ResumeKeeps ==
    ASSUME IInv, NEW p \in Procs, NEW e \in Execs, Resume(p, e)
    PROVE  TypeOK' /\ Moves(p)
<1>1. /\ UNCHANGED <<disk, bound, envelope, dispatched>> /\ DOMAIN proc' = Procs
      /\ \A q \in Procs : q = p \/ proc'[q] = proc[q]
      /\ proc'[p] = [Idle EXCEPT !.pc = "resume", !.dir = envelope[e]]
      /\ envelope[e] \in Dirs /\ disk[envelope[e]] # None
  BY DEF IInv, TypeOK, Resume, store
<1>2. TypeOK'
  BY ConfigAssumption DEF IInv, TypeOK, Resume, store, authority
<1>3. proc'[p] \in Memory /\ proc'[p].tasks = InitialTasks /\ proc'[p].pc = "resume"
      /\ proc'[p].dir = envelope[e]
  <2>1. Idle \in Memory /\ Idle.tasks = InitialTasks
    BY IdleIsGood DEF Idle
  <2> QED BY <1>1, <2>1 DEF Memory
<1>4. GoodMemory(proc'[p])
  BY <1>1, <1>3, InitialIsWorkable DEF GoodMemory, Asking, Taken, AtWork
<1> QED BY <1>1, <1>2, <1>4, Within

LEMMA CrashKeeps ==
    ASSUME IInv, NEW p \in Procs, Crash(p)
    PROVE  TypeOK' /\ Moves(p)
<1>1. Ends(p) /\ UNCHANGED <<disk, authority, bound, envelope, dispatched, calls>>
  BY DEF Crash
<1>2. crashes' \in 0 .. MaxCrashes
  BY ConfigAssumption DEF Crash, IInv, TypeOK
<1>3. TypeOK'
  BY <1>1, <1>2, EndsKeeps DEF IInv, TypeOK, authority
<1>4. GoodMemory(proc'[p])
  BY <1>1, EndsKeeps, IdleIsGood
<1> QED BY <1>1, <1>3, <1>4, EndsKeeps, Within

(* The operator touches the registry alone. *)
LEMMA RecoverKeeps ==
    ASSUME IInv, NEW s \in Scopes, Recover(s)
    PROVE  IInv'
<1>1. /\ UNCHANGED <<disk, bound, envelope, proc, dispatched>>
      /\ UNCHANGED <<execLock, claimsLock, claims, calls, crashes>>
      /\ active' = [active EXCEPT ![s] = None]
  BY DEF Recover, store
<1>2. TypeOK'
  BY <1>1 DEF IInv, TypeOK
<1>3. \A p \in Procs : GoodMemory(proc[p])'
  BY <1>1 DEF IInv, GoodMemory, GoodSeen, BoundTo
<1> QED BY <1>1, <1>2, <1>3 DEF IInv, GoodFiles, BoundTo

(* A write to the files of one execution that keeps them loadable. *)
LEMMA Writes ==
    ASSUME IInv, NEW d \in Dirs, disk[d] # None, UNCHANGED bound,
           disk' = [disk EXCEPT ![d] = disk'[d]],
           disk'[d] \in Files, disk'[d].req = disk[d].req, Loadable(disk'[d]),
           disk'[d].status = "suspended" => BoundTo(d)
    PROVE  /\ disk' \in [Dirs -> Files \cup {None}] /\ Lasting
           /\ \A e \in Dirs : disk'[e] \in {disk[e], None} \/ GoodFiles(e)'
           /\ \A e \in Dirs : disk[e] # None => disk'[e] # None /\ (BoundTo(e) => BoundTo(e)')
<1>1. disk \in [Dirs -> Files \cup {None}] /\ TypeOK /\ disk'[d] # None
  BY ConfigAssumption DEF IInv, TypeOK
<1>2. disk' \in [Dirs -> Files \cup {None}] /\ \A e \in Dirs : e # d => disk'[e] = disk[e]
  BY <1>1
<1>3. Lasting
  BY <1>1, <1>2 DEF Lasting
<1>4. \A e \in Dirs : BoundTo(e) => BoundTo(e)'
  BY <1>1, <1>3, BoundLasts
<1>5. GoodFiles(d)
  BY DEF IInv
<1>6. GoodFiles(d)'
  BY <1>4, <1>5 DEF GoodFiles, Loadable
<1> QED BY <1>2, <1>3, <1>4, <1>6 DEF Lasting

\* A process that has execution d in hand.
Holding(q, d) ==
    /\ q \in Memory /\ q.pc \in Taken
    /\ q.dir = d /\ q.req \in Requests
    /\ Workable(q.tasks)
    /\ q.pc \in AtWork => q.task \in Tasks /\ q.tasks[q.task] = "running"
    /\ q.pc \notin AtWork => NothingRuns(q.tasks)

LEMMA TakenIsHeld ==
    ASSUME IInv, NEW p \in Procs, proc[p].pc \in Taken
    PROVE  \E d \in Dirs : /\ d = proc[p].dir /\ Holding(proc[p], d) /\ BoundTo(d)
                           /\ disk[d] \in Files /\ Loadable(disk[d])
<1>1. GoodMemory(proc[p]) /\ proc[p].dir \in Dirs /\ BoundTo(proc[p].dir)
  BY DEF IInv, GoodMemory
<1>2. disk[proc[p].dir] # None
  BY <1>1 DEF BoundTo
<1>3. disk[proc[p].dir] \in Files /\ Loadable(disk[proc[p].dir])
  BY <1>1, <1>2 DEF IInv, TypeOK, GoodFiles
<1>4. Holding(proc[p], proc[p].dir)
  BY <1>1 DEF GoodMemory, Holding
<1> QED BY <1>1, <1>3, <1>4

(* A step of a process that has an execution in hand, and writes its files. *)
LEMMA WriteMoves ==
    ASSUME IInv, NEW p \in Procs, NEW d \in Dirs, BoundTo(d),
           UNCHANGED <<bound, authority, envelope, calls, crashes>>,
           execLock' \in [Dirs -> Procs \cup {None}],
           claimsLock' \in [Builds -> Procs \cup {None}],
           dispatched' \in [Dirs -> [Tasks -> Nat]],
           \A e \in Dirs : e # d => dispatched'[e] = dispatched[e],
           disk' = [disk EXCEPT ![d] = disk'[d]],
           disk'[d] \in Files, disk'[d].req = disk[d].req, Loadable(disk'[d]),
           DOMAIN proc' = Procs, \A q \in Procs : q = p \/ proc'[q] = proc[q],
           proc'[p] = Idle \/ Holding(proc'[p], d)
    PROVE  TypeOK' /\ Moves(p)
<1>1. /\ disk' \in [Dirs -> Files \cup {None}] /\ Lasting
      /\ \A e \in Dirs : disk'[e] \in {disk[e], None} \/ GoodFiles(e)'
      /\ \A e \in Dirs : disk[e] # None => disk'[e] # None /\ (BoundTo(e) => BoundTo(e)')
  BY Writes DEF BoundTo
<1>2. TypeOK'
  BY <1>1 DEF IInv, TypeOK, authority
<1>3. BoundTo(d)'
  BY <1>1 DEF BoundTo
<1>4. GoodMemory(proc[p])'
  <2>1. CASE proc'[p] = Idle
    BY <2>1, IdleIsGood DEF GoodMemory, Idle, Asking, Taken, AtWork
  <2>2. CASE Holding(proc'[p], d)
    BY <2>2, <1>3 DEF Holding, GoodMemory, Asking, Taken, AtWork, BoundTo
  <2> QED BY <2>1, <2>2
<1> QED BY <1>1, <1>2, <1>3, <1>4 DEF Moves

LEMMA RefuseKeeps ==
    ASSUME IInv, NEW p \in Procs, Refuse(p)
    PROVE  TypeOK' /\ Moves(p)
<1> DEFINE refused == [t \in Tasks |-> IF t \in Roots THEN "failed" ELSE "blocked"]
<1>1. /\ UNCHANGED <<execLock, claimsLock, authority, bound, envelope, dispatched, calls, crashes>>
      /\ proc[p].pc = "analyse"
      /\ proc' = [proc EXCEPT ![p].pc = "anchor", ![p].tasks = refused]
      /\ disk' = [disk EXCEPT ![proc[p].dir].results = refused]
  BY DEF Refuse, At
<1>2. refused \in Results /\ Workable(refused) /\ NothingRuns(refused)
      /\ refused \in [Tasks -> TaskStatus]
  BY RefusedIsWorkable DEF Results, TaskStatus
<1> HIDE DEF refused
<1>3. PICK d \in Dirs : /\ d = proc[p].dir /\ Holding(proc[p], d) /\ BoundTo(d)
                        /\ disk[d] \in Files /\ Loadable(disk[d])
  BY <1>1, TakenIsHeld DEF Taken
<1>4. disk'[d] = [disk[d] EXCEPT !.results = refused] /\ disk' = [disk EXCEPT ![d] = disk'[d]]
  BY <1>1, <1>3 DEF IInv, TypeOK
<1>5. disk'[d] \in Files /\ disk'[d].req = disk[d].req /\ Loadable(disk'[d])
  BY <1>2, <1>3, <1>4 DEF Files, Loadable
<1>6. DOMAIN proc' = Procs /\ (\A q \in Procs : q = p \/ proc'[q] = proc[q])
      /\ proc'[p] = [proc[p] EXCEPT !.pc = "anchor", !.tasks = refused]
  BY <1>1 DEF IInv
<1>7. Holding(proc'[p], d)
  BY <1>2, <1>3, <1>6 DEF Holding, Memory, Taken, AtWork
<1> QED BY <1>1, <1>3, <1>4, <1>5, <1>6, <1>7, WriteMoves DEF IInv, TypeOK

LEMMA PersistSuspendedKeeps ==
    ASSUME IInv, NEW p \in Procs, PersistSuspended(p)
    PROVE  TypeOK' /\ Moves(p)
<1>1. /\ UNCHANGED <<authority, bound, envelope, dispatched, calls, crashes>>
      /\ proc[p].pc = "suspend" /\ Ends(p)
      /\ disk' = [disk EXCEPT ![proc[p].dir].status = "suspended"]
  BY DEF PersistSuspended, At
<1>2. PICK d \in Dirs : /\ d = proc[p].dir /\ Holding(proc[p], d) /\ BoundTo(d)
                        /\ disk[d] \in Files /\ Loadable(disk[d])
  BY <1>1, TakenIsHeld DEF Taken
<1>3. disk'[d] = [disk[d] EXCEPT !.status = "suspended"] /\ disk' = [disk EXCEPT ![d] = disk'[d]]
  BY <1>1, <1>2 DEF IInv, TypeOK
<1>4. disk'[d] \in Files /\ disk'[d].req = disk[d].req /\ Loadable(disk'[d])
  BY <1>2, <1>3 DEF Files, Status, Loadable, ValidState
<1> QED BY <1>1, <1>2, <1>3, <1>4, EndsKeeps, WriteMoves DEF IInv, TypeOK

(* A state written from a valid map in memory can be loaded. *)
LEMMA PersistWrites ==
    ASSUME IInv, NEW p \in Procs, NEW d \in Dirs, d = proc[p].dir, disk[d] \in Files,
           NEW s, Workable(s), Persist(p, s)
    PROVE  /\ disk' = [disk EXCEPT ![d] = disk'[d]]
           /\ disk'[d] \in Files /\ disk'[d].req = disk[d].req /\ Loadable(disk'[d])
<1>1. disk' = [disk EXCEPT ![d].status = "running", ![d].tasks = s, ![d].anchor = None]
  BY DEF Persist
<1>2. /\ disk' = [disk EXCEPT ![d] = disk'[d]]
      /\ disk'[d] = [disk[d] EXCEPT !.status = "running", !.tasks = s, !.anchor = None]
  BY <1>1 DEF IInv, TypeOK
<1>3. s \in [Tasks -> TaskStatus] /\ ValidTasks(s)
  BY DEF Workable, ValidTasks
<1> QED BY <1>2, <1>3 DEF Files, Status, Loadable, ValidState

LEMMA StartTaskKeeps ==
    ASSUME IInv, NEW p \in Procs, StartTask(p)
    PROVE  TypeOK' /\ Moves(p)
<1>1. PICK d \in Dirs : /\ d = proc[p].dir /\ Holding(proc[p], d) /\ BoundTo(d)
                        /\ disk[d] \in Files /\ Loadable(disk[d])
  BY TakenIsHeld DEF Taken, StartTask, At
<1>2. PICK t : t = NextReady(proc[p].tasks)
  OBVIOUS
<1>3. PICK s : s = MarkRunning(proc[p].tasks, t)
  OBVIOUS
<1>4. /\ proc[p].pc = "loop" /\ ReadyTasks(proc[p].tasks) # {}
      /\ proc' = [proc EXCEPT ![p].pc = "work", ![p].tasks = s, ![p].task = t]
      /\ dispatched' = [dispatched EXCEPT ![d][t] = @ + 1]
      /\ Persist(p, s)
      /\ UNCHANGED <<execLock, claimsLock, authority, bound, envelope, calls, crashes>>
  BY <1>1, <1>2, <1>3 DEF StartTask, At, Persist
<1>5. t \in Tasks /\ proc[p].tasks[t] = "ready"
  BY <1>2, <1>4, NextReadyIsReady
<1>6. Workable(s) /\ s[t] = "running" /\ s \in [Tasks -> TaskStatus]
  BY <1>1, <1>3, <1>4, <1>5, MarkRunningKeeps DEF Holding, AtWork, Workable, ValidTasks
<1>7. /\ disk' = [disk EXCEPT ![d] = disk'[d]]
      /\ disk'[d] \in Files /\ disk'[d].req = disk[d].req /\ Loadable(disk'[d])
  BY <1>1, <1>4, <1>6, PersistWrites
<1>8. /\ dispatched' \in [Dirs -> [Tasks -> Nat]]
      /\ \A e \in Dirs : e # d => dispatched'[e] = dispatched[e]
  BY <1>4, <1>5 DEF IInv, TypeOK
<1>9. DOMAIN proc' = Procs /\ (\A q \in Procs : q = p \/ proc'[q] = proc[q])
      /\ proc'[p] = [proc[p] EXCEPT !.pc = "work", !.tasks = s, !.task = t]
  BY <1>4 DEF IInv
<1>10. Holding(proc'[p], d)
  BY <1>1, <1>5, <1>6, <1>9 DEF Holding, Memory, Taken, AtWork
<1> QED BY <1>1, <1>4, <1>7, <1>8, <1>9, <1>10, WriteMoves DEF IInv, TypeOK

LEMMA FinishTaskKeeps ==
    ASSUME IInv, NEW p \in Procs, FinishTask(p)
    PROVE  TypeOK' /\ Moves(p)
<1>1. PICK d \in Dirs : /\ d = proc[p].dir /\ Holding(proc[p], d) /\ BoundTo(d)
                        /\ disk[d] \in Files /\ Loadable(disk[d])
  BY TakenIsHeld DEF Taken, AtWork, FinishTask, At
<1>2. PICK out \in {"completed", "failed"} :
        /\ disk' = [disk EXCEPT ![d].results[proc[p].task] = out]
        /\ proc' = [proc EXCEPT ![p].pc = out]
  BY <1>1 DEF FinishTask, WithResult, Go
<1>3. /\ UNCHANGED <<execLock, claimsLock, authority, bound, envelope, dispatched, calls, crashes>>
      /\ proc[p].pc = "work" /\ proc[p].task \in Tasks
  BY <1>1 DEF FinishTask, At, Holding, AtWork
<1>4. /\ disk' = [disk EXCEPT ![d] = disk'[d]]
      /\ disk'[d] = [disk[d] EXCEPT !.results[proc[p].task] = out]
  BY <1>1, <1>2 DEF IInv, TypeOK
<1>5. disk'[d] \in Files /\ disk'[d].req = disk[d].req /\ Loadable(disk'[d])
  <2>1. disk[d].results \in Results /\ disk[d] \in Files
    BY <1>1 DEF Files
  <2> DEFINE res == [disk[d].results EXCEPT ![proc[p].task] = out]
  <2>2. res \in Results
    BY <1>3, <2>1 DEF Results
  <2>3. disk'[d] = [disk[d] EXCEPT !.results = res]
    BY <1>4, <2>1 DEF Files
  <2> HIDE DEF res
  <2> QED
    BY <1>1, <2>1, <2>2, <2>3 DEF Files, Loadable
<1>6. DOMAIN proc' = Procs /\ (\A q \in Procs : q = p \/ proc'[q] = proc[q])
      /\ proc'[p] = [proc[p] EXCEPT !.pc = out]
  BY <1>2 DEF IInv
<1>7. Holding(proc'[p], d)
  BY <1>1, <1>3, <1>6 DEF Holding, Memory, Taken, AtWork
<1> QED BY <1>1, <1>3, <1>4, <1>5, <1>6, <1>7, WriteMoves DEF IInv, TypeOK

LEMMA ContradictKeeps ==
    ASSUME IInv, NEW p \in Procs, Contradict(p)
    PROVE  TypeOK' /\ Moves(p)
<1>1. PICK d \in Dirs : /\ d = proc[p].dir /\ Holding(proc[p], d) /\ BoundTo(d)
                        /\ disk[d] \in Files /\ Loadable(disk[d])
  BY TakenIsHeld DEF Taken, AtWork, Contradict, At
<1>2. /\ disk' = [disk EXCEPT ![d].results[proc[p].task] = "failed"] /\ Ends(p)
      /\ UNCHANGED <<authority, bound, envelope, dispatched, calls>>
      /\ crashes' \in 0 .. MaxCrashes
  BY <1>1, ConfigAssumption DEF Contradict, WithResult, IInv, TypeOK
<1>3. proc[p].task \in Tasks
  BY <1>1 DEF Contradict, At, Holding, AtWork
<1>4. /\ disk' = [disk EXCEPT ![d] = disk'[d]]
      /\ disk'[d] = [disk[d] EXCEPT !.results[proc[p].task] = "failed"]
  BY <1>1, <1>2 DEF IInv, TypeOK
<1>5. disk'[d] \in Files /\ disk'[d].req = disk[d].req /\ Loadable(disk'[d])
      /\ disk'[d].status = disk[d].status
  <2>1. disk[d].results \in Results /\ disk[d] \in Files
    BY <1>1 DEF Files
  <2> DEFINE res == [disk[d].results EXCEPT ![proc[p].task] = "failed"]
  <2>2. res \in Results
    BY <1>3, <2>1 DEF Results
  <2>3. disk'[d] = [disk[d] EXCEPT !.results = res]
    BY <1>4, <2>1 DEF Files
  <2> HIDE DEF res
  <2> QED
    BY <1>1, <2>1, <2>2, <2>3 DEF Files, Loadable
<1>6. /\ disk' \in [Dirs -> Files \cup {None}] /\ Lasting
      /\ \A e \in Dirs : disk'[e] \in {disk[e], None} \/ GoodFiles(e)'
      /\ \A e \in Dirs : disk[e] # None => disk'[e] # None /\ (BoundTo(e) => BoundTo(e)')
  BY <1>1, <1>2, <1>4, <1>5, Writes DEF BoundTo
<1>7. TypeOK'
  BY <1>2, <1>6, EndsKeeps DEF IInv, TypeOK, authority
<1>8. GoodMemory(proc[p])'
  BY <1>2, EndsKeeps, IdleIsGood DEF GoodMemory, Idle, Asking, Taken, AtWork
<1>9. Moves(p)
  BY <1>2, <1>6, <1>8, EndsKeeps DEF Moves, IInv
<1> QED BY <1>7, <1>9

LEMMA RecordTaskKeeps ==
    ASSUME IInv, NEW p \in Procs, RecordTask(p)
    PROVE  TypeOK' /\ Moves(p)
<1>1. PICK d \in Dirs : /\ d = proc[p].dir /\ Holding(proc[p], d) /\ BoundTo(d)
                        /\ disk[d] \in Files /\ Loadable(disk[d])
  BY TakenIsHeld DEF Taken, AtWork, RecordTask
<1>2. PICK s : /\ \/ s = MarkCompleted(proc[p].tasks, proc[p].task)
                  \/ s = MarkFailed(proc[p].tasks, proc[p].task)
               /\ proc' = [proc EXCEPT ![p].pc = "loop", ![p].tasks = s, ![p].task = 0]
               /\ Persist(p, s)
  BY DEF RecordTask
<1>3. Workable(s) /\ NothingRuns(s) /\ s \in [Tasks -> TaskStatus]
  <2>1. proc[p].task \in Tasks /\ Workable(proc[p].tasks)
        /\ proc[p].tasks[proc[p].task] = "running"
    BY <1>1 DEF RecordTask, Holding, AtWork
  <2> QED BY <1>2, <2>1, MarkCompletedKeeps, MarkFailedKeeps DEF Workable, ValidTasks
<1>4. UNCHANGED <<execLock, claimsLock, authority, bound, envelope, dispatched, calls, crashes>>
  BY <1>2 DEF Persist, RecordTask
<1>5. /\ disk' = [disk EXCEPT ![d] = disk'[d]]
      /\ disk'[d] \in Files /\ disk'[d].req = disk[d].req /\ Loadable(disk'[d])
  BY <1>1, <1>2, <1>3, PersistWrites
<1>6. DOMAIN proc' = Procs /\ (\A q \in Procs : q = p \/ proc'[q] = proc[q])
      /\ proc'[p] = [proc[p] EXCEPT !.pc = "loop", !.tasks = s, !.task = 0]
  BY <1>2 DEF IInv
<1>7. Holding(proc'[p], d)
  BY <1>1, <1>3, <1>6 DEF Holding, Memory, Taken, AtWork
<1> QED BY <1>1, <1>4, <1>5, <1>6, <1>7, WriteMoves DEF IInv, TypeOK

LEMMA SettleKeeps ==
    ASSUME IInv, NEW p \in Procs, Settle(p)
    PROVE  TypeOK' /\ Moves(p)
<1>1. PICK d \in Dirs : /\ d = proc[p].dir /\ Holding(proc[p], d) /\ BoundTo(d)
                        /\ disk[d] \in Files /\ Loadable(disk[d])
  BY TakenIsHeld DEF Taken, Settle, At
<1>2. PICK res : res = [t \in Tasks |->
                          IF disk[d].results[t] = "none" /\ proc[p].tasks[t] = "blocked"
                          THEN "blocked" ELSE disk[d].results[t]]
  OBVIOUS
<1>3. /\ disk' = [disk EXCEPT ![d].results = res]
      /\ proc[p].pc = "loop" /\ proc' = [proc EXCEPT ![p].pc = "anchor"]
      /\ UNCHANGED <<execLock, claimsLock, authority, bound, envelope, dispatched, calls, crashes>>
  BY <1>1, <1>2 DEF Settle, At, Go, IInv, TypeOK
<1>4. res \in Results
  BY <1>1, <1>2 DEF Files, Results
<1>5. /\ disk' = [disk EXCEPT ![d] = disk'[d]]
      /\ disk'[d] = [disk[d] EXCEPT !.results = res]
  BY <1>1, <1>3 DEF IInv, TypeOK
<1>6. disk'[d] \in Files /\ disk'[d].req = disk[d].req /\ Loadable(disk'[d])
  BY <1>1, <1>4, <1>5 DEF Files, Loadable
<1>7. DOMAIN proc' = Procs /\ (\A q \in Procs : q = p \/ proc'[q] = proc[q])
      /\ proc'[p] = [proc[p] EXCEPT !.pc = "anchor"]
  BY <1>3 DEF IInv
<1>8. Holding(proc'[p], d)
  BY <1>1, <1>3, <1>7 DEF Holding, Memory, Taken, AtWork
<1> QED BY <1>1, <1>3, <1>5, <1>6, <1>7, <1>8, WriteMoves DEF IInv, TypeOK

LEMMA PublishKeeps ==
    ASSUME IInv, NEW p \in Procs, Publish(p)
    PROVE  TypeOK' /\ Moves(p)
<1>1. CASE Leaves(p)
  BY <1>1, LeavesKeeps
<1>2. CASE ~Leaves(p)
  <2>1. PICK d \in Dirs : /\ d = proc[p].dir /\ Holding(proc[p], d) /\ BoundTo(d)
                          /\ disk[d] \in Files /\ Loadable(disk[d])
    BY TakenIsHeld DEF Taken, Publish, At
  <2>2. PICK m : m = Manifest(proc[p].claim, proc[p].tasks, disk[d].results)
    OBVIOUS
  <2>3. /\ proc[p].pc = "anchor" /\ Releasable(proc[p].tasks)
        /\ disk' = [disk EXCEPT ![d] = [disk[d] EXCEPT !.status = m.verdict,
                                          !.tasks = proc[p].tasks, !.file = m, !.anchor = m]]
        /\ proc' = [proc EXCEPT ![p].pc = "release"]
        /\ UNCHANGED <<execLock, claimsLock, authority, bound, envelope, dispatched, calls, crashes>>
    BY <1>2, <2>1, <2>2 DEF Publish, At, Go, IInv, TypeOK
  <2>4. /\ m \in Manifests /\ m.verdict = TerminalStatus(proc[p].tasks)
        /\ m.verdict \in {"completed", "failed"} /\ m # None
    BY <2>1, <2>2, <2>3, ConfigAssumption
       DEF Manifest, Manifests, Releasable, Holding, Memory, Files
  <2>5. /\ disk' = [disk EXCEPT ![d] = disk'[d]]
        /\ disk'[d] = [disk[d] EXCEPT !.status = m.verdict, !.tasks = proc[p].tasks,
                                      !.file = m, !.anchor = m]
    BY <2>1, <2>3 DEF IInv, TypeOK
  <2>6. ValidTasks(proc[p].tasks) /\ proc[p].tasks \in [Tasks -> TaskStatus]
    BY <2>1 DEF Holding, Workable, ValidTasks
  <2>7. disk'[d] \in Files /\ disk'[d].req = disk[d].req /\ Loadable(disk'[d])
    BY <2>1, <2>4, <2>5, <2>6 DEF Files, Status, Loadable, ValidState
  <2>8. DOMAIN proc' = Procs /\ (\A q \in Procs : q = p \/ proc'[q] = proc[q])
        /\ proc'[p] = [proc[p] EXCEPT !.pc = "release"]
    BY <2>3 DEF IInv
  <2>9. Holding(proc'[p], d)
    BY <2>1, <2>3, <2>8 DEF Holding, Memory, Taken, AtWork
  <2> QED BY <2>1, <2>3, <2>5, <2>7, <2>8, <2>9, WriteMoves DEF IInv, TypeOK
<1> QED BY <1>1, <1>2

LEMMA RelockKeeps ==
    ASSUME IInv, NEW p \in Procs, Relock(p)
    PROVE  TypeOK' /\ Moves(p)
<1>1. CASE Leaves(p)
  BY <1>1, LeavesKeeps
<1>2. CASE ~Leaves(p)
  <2>1. PICK d \in Dirs : /\ d = proc[p].dir /\ Holding(proc[p], d) /\ BoundTo(d)
                          /\ disk[d] \in Files /\ Loadable(disk[d])
    BY TakenIsHeld DEF Taken, Relock, At
  <2>2. /\ proc[p].pc = "relock" /\ execLock' = [execLock EXCEPT ![d] = p]
        /\ disk' = [disk EXCEPT ![d] = [disk[d] EXCEPT !.status = "running", !.anchor = None,
                                                       !.tasks = InitialTasks]]
        /\ proc' = [proc EXCEPT ![p].pc = "loop"]
        /\ UNCHANGED <<claimsLock, authority, bound, envelope, dispatched, calls, crashes>>
    BY <1>2, <2>1 DEF Relock, At, Go, IInv, TypeOK
  <2>3. execLock' \in [Dirs -> Procs \cup {None}]
    BY <2>2 DEF IInv, TypeOK
  <2>4. /\ disk' = [disk EXCEPT ![d] = disk'[d]]
        /\ disk'[d] = [disk[d] EXCEPT !.status = "running", !.anchor = None, !.tasks = InitialTasks]
    BY <2>1, <2>2 DEF IInv, TypeOK
  <2>5. ValidTasks(InitialTasks) /\ InitialTasks \in [Tasks -> TaskStatus]
    BY InitialIsWorkable DEF Workable, ValidTasks
  <2>6. disk'[d] \in Files /\ disk'[d].req = disk[d].req /\ Loadable(disk'[d])
    BY <2>1, <2>4, <2>5 DEF Files, Status, Loadable, ValidState
  <2>7. DOMAIN proc' = Procs /\ (\A q \in Procs : q = p \/ proc'[q] = proc[q])
        /\ proc'[p] = [proc[p] EXCEPT !.pc = "loop"]
    BY <2>2 DEF IInv
  <2>8. Holding(proc'[p], d)
    BY <2>1, <2>2, <2>7 DEF Holding, Memory, Taken, AtWork
  <2> QED BY <2>1, <2>2, <2>3, <2>4, <2>6, <2>7, <2>8, WriteMoves DEF IInv, TypeOK
<1> QED BY <1>1, <1>2

LEMMA SuspendKeeps ==
    ASSUME IInv, NEW p \in Procs, Suspend(p)
    PROVE  TypeOK' /\ Moves(p)
<1>1. PICK d \in Dirs : /\ d = proc[p].dir /\ Holding(proc[p], d) /\ BoundTo(d)
                        /\ disk[d] \in Files /\ Loadable(disk[d])
  BY TakenIsHeld DEF Taken, Suspend, At
<1>2. /\ proc[p].pc = "analyse" /\ envelope' = [envelope EXCEPT ![d.exec] = d]
      /\ proc' = [proc EXCEPT ![p].pc = "suspend"]
      /\ UNCHANGED <<store, authority, bound, dispatched, calls, crashes>>
  BY <1>1 DEF Suspend, At, Go
<1>3. TypeOK'
  BY <1>2 DEF IInv, TypeOK, store, authority
<1>4. DOMAIN proc' = Procs /\ (\A q \in Procs : q = p \/ proc'[q] = proc[q])
      /\ proc'[p] = [proc[p] EXCEPT !.pc = "suspend"]
  BY <1>2 DEF IInv
<1>5. Holding(proc'[p], d)
  BY <1>1, <1>2, <1>4 DEF Holding, Memory, Taken, AtWork
<1>6. GoodMemory(proc[p])'
  BY <1>1, <1>2, <1>5 DEF Holding, GoodMemory, Asking, Taken, AtWork, BoundTo, store
<1>7. \A e \in Execs : envelope'[e] \in {envelope[e], None} \/ disk'[envelope'[e]] # None
  BY <1>1, <1>2 DEF IInv, TypeOK, BoundTo, store
<1> QED BY <1>2, <1>3, <1>4, <1>6, <1>7 DEF Moves, Lasting, store

LEMMA BindKeeps ==
    ASSUME IInv, NEW p \in Procs, Bind(p)
    PROVE  TypeOK' /\ Moves(p)
<1>1. CASE Leaves(p)
  BY <1>1, LeavesKeeps
<1>2. CASE ~Leaves(p)
  <2>1. PICK r \in Requests : r = proc[p].req
    BY DEF Bind, At, IInv, GoodMemory
  <2>2. PICK d \in Dirs : d = proc[p].dir
    BY DEF Bind, At, IInv, GoodMemory, Dirs
  <2>3. GoodMemory(proc[p]) /\ proc[p].pc = "bind" /\ disk[d] # None /\ disk[d].req = r
    BY <2>1, <2>2 DEF Bind, At, IInv, GoodMemory
  <2>4. /\ bound[r.key] \in {None, r} /\ bound' = [bound EXCEPT ![r.key] = r]
        /\ UNCHANGED <<disk, authority, envelope, dispatched, calls, crashes>>
        /\ \/ proc' = [proc EXCEPT ![p].pc = "analyse"] /\ UNCHANGED <<execLock, claimsLock>>
           \/ Ends(p)
    BY <1>2, <2>1 DEF Bind, Go
  <2>5. TypeOK'
    BY <2>1, <2>4, EndsKeeps DEF IInv, TypeOK, authority
  <2>6. Lasting /\ r.key \in Keys
    BY <2>1, <2>4 DEF Lasting, IInv, TypeOK, Keys
  <2>7. BoundTo(d)'
    BY <2>3, <2>4, <2>6 DEF BoundTo, IInv, TypeOK
  <2>8. DOMAIN proc' = Procs /\ \A q \in Procs : q = p \/ proc'[q] = proc[q]
    BY <2>4, EndsKeeps DEF IInv
  <2>9. GoodMemory(proc[p])'
    <3>1. CASE proc' = [proc EXCEPT ![p].pc = "analyse"]
      <4>1. proc'[p] = [proc[p] EXCEPT !.pc = "analyse"]
        BY <3>1 DEF IInv
      <4>2. Holding(proc'[p], d)
        BY <2>1, <2>2, <2>3, <4>1 DEF GoodMemory, Holding, Memory, Taken, AtWork
      <4> QED BY <2>7, <4>2 DEF Holding, GoodMemory, Asking, Taken, AtWork, BoundTo
    <3>2. CASE Ends(p)
      BY <3>2, EndsKeeps, IdleIsGood DEF GoodMemory, Idle, Asking, Taken, AtWork
    <3> QED BY <2>4, <3>1, <3>2
  <2> QED BY <2>4, <2>5, <2>6, <2>8, <2>9 DEF Moves
<1> QED BY <1>1, <1>2

LEMMA TakeRecordKeeps ==
    ASSUME IInv, NEW p \in Procs, TakeRecord(p)
    PROVE  TypeOK' /\ Moves(p)
<1>1. PICK d \in Dirs : d = proc[p].dir /\ disk[d] # None /\ GoodMemory(proc[p])
                        /\ proc[p].pc = "resume" /\ disk[d] \in Files /\ GoodFiles(d)
  BY DEF TakeRecord, At, IInv, GoodMemory, TypeOK
<1>2. PICK r \in Requests : r = disk[d].req
  BY <1>1 DEF Files
<1>3. /\ envelope' = [envelope EXCEPT ![d.exec] = None]
      /\ UNCHANGED <<disk, authority, bound, dispatched, calls, crashes>>
  BY <1>1 DEF TakeRecord
<1>4. \/ /\ disk[d].status = "suspended" /\ active[r.scope] # None
         /\ proc' = [proc EXCEPT ![p].pc = "relock", ![p].req = r, ![p].claim = active[r.scope].id]
         /\ UNCHANGED <<execLock, claimsLock>>
      \/ Ends(p)
  BY <1>1, <1>2 DEF TakeRecord
<1>5. DOMAIN proc' = Procs /\ \A q \in Procs : q = p \/ proc'[q] = proc[q]
  BY <1>4, EndsKeeps DEF IInv
<1>6. TypeOK'
  BY <1>3, <1>4, EndsKeeps DEF IInv, TypeOK, authority
<1>7. GoodMemory(proc[p])'
  <2>1. CASE Ends(p)
    BY <2>1, EndsKeeps, IdleIsGood DEF GoodMemory, Idle, Asking, Taken, AtWork
  <2>2. CASE ~Ends(p)
    <3>1. active[r.scope].id \in Nat
      <4>1. r.scope \in Scopes /\ active[r.scope] # None
        BY <1>2, <1>4, <2>2 DEF Scopes
      <4>2. active[r.scope] \in Claims
        BY <4>1 DEF IInv, TypeOK
      <4> QED BY <4>2 DEF Claims
    <3>2. proc'[p] = [proc[p] EXCEPT !.pc = "relock", !.req = r, !.claim = active[r.scope].id]
      BY <1>4, <2>2 DEF IInv
    <3>3. Holding(proc'[p], d)
      BY <1>1, <1>2, <3>1, <3>2 DEF GoodMemory, Holding, Memory, Taken, AtWork
    <3>4. BoundTo(d)'
      BY <1>1, <1>3, <1>4, <2>2 DEF GoodFiles, BoundTo
    <3> QED BY <3>3, <3>4 DEF Holding, GoodMemory, Asking, Taken, AtWork, BoundTo
  <2> QED BY <2>1, <2>2
<1> QED BY <1>3, <1>5, <1>6, <1>7 DEF Moves, Lasting, IInv, TypeOK

LEMMA CreateKeeps ==
    ASSUME IInv, NEW p \in Procs, Create(p)
    PROVE  TypeOK' /\ Moves(p)
<1>1. CASE Leaves(p)
  BY <1>1, LeavesKeeps
<1>2. CASE ~Leaves(p)
  <2>1. PICK r \in Requests : r = proc[p].req
    BY DEF Create, At, IInv, GoodMemory, Asking
  <2>2. PICK d \in Dirs : d = proc[p].dir /\ d = DirOf(r)
    BY <2>1 DEF Create, At, IInv, GoodMemory, Asking, Dirs
  <2> DEFINE new == [req |-> r, status |-> "running", tasks |-> InitialTasks,
                     results |-> NoResults, file |-> None, anchor |-> None]
  <2>3. /\ proc[p].pc = "create" /\ disk[d] = None /\ disk' = [disk EXCEPT ![d] = new]
        /\ execLock' = [execLock EXCEPT ![d] = p] /\ claimsLock' = Unlocked(claimsLock, p)
        /\ proc' = [proc EXCEPT ![p].pc = "bind", ![p].new = TRUE]
        /\ UNCHANGED <<authority, bound, envelope, dispatched, calls, crashes>>
    BY <1>2, <2>1, <2>2 DEF Create, At
  <2>4. ValidTasks(InitialTasks) /\ InitialTasks \in [Tasks -> TaskStatus]
    BY InitialIsWorkable DEF Workable, ValidTasks
  <2>5. new \in Files /\ Loadable(new) /\ new.req = r /\ new.status = "running" /\ new # None
    BY <2>4, ConfigAssumption
       DEF Files, Status, Results, NoResults, Loadable, ValidState
  <2> HIDE DEF new
  <2>6. disk' \in [Dirs -> Files \cup {None}] /\ disk'[d] = new
        /\ \A e \in Dirs : e # d => disk'[e] = disk[e]
    BY <2>3, <2>5 DEF IInv, TypeOK
  <2>7. claimsLock' \in [Builds -> Procs \cup {None}] /\ execLock' \in [Dirs -> Procs \cup {None}]
    BY <2>3 DEF IInv, TypeOK, Unlocked
  <2>8. TypeOK'
    BY <2>3, <2>6, <2>7 DEF IInv, TypeOK, authority
  <2>9. Lasting
    BY <2>3, <2>6 DEF Lasting
  <2>10. GoodFiles(d)'
    BY <2>2, <2>5, <2>6 DEF GoodFiles, Loadable
  <2>11. DOMAIN proc' = Procs /\ (\A q \in Procs : q = p \/ proc'[q] = proc[q])
         /\ proc'[p] = [proc[p] EXCEPT !.pc = "bind", !.new = TRUE]
    BY <2>3 DEF IInv
  <2>12. GoodMemory(proc[p]) /\ proc[p].pc = "create"
    BY <2>3 DEF IInv
  <2>13. GoodMemory(proc[p])'
    <3>1. proc'[p] \in Memory /\ proc'[p].pc = "bind" /\ proc'[p].req = r /\ proc'[p].dir = d
          /\ proc'[p].tasks = proc[p].tasks
      BY <2>1, <2>2, <2>11, <2>12 DEF GoodMemory, Memory
    <3>2. disk'[d] # None /\ disk'[d].req = r
      BY <2>5, <2>6
    <3>3. Workable(proc[p].tasks) /\ NothingRuns(proc[p].tasks)
      BY <2>12 DEF GoodMemory, AtWork
    <3> QED BY <2>2, <3>1, <3>2, <3>3 DEF GoodMemory, Asking, Taken, AtWork
  <2>14. \A e \in Dirs : disk'[e] \in {disk[e], None} \/ GoodFiles(e)'
    BY <2>6, <2>10
  <2> QED BY <2>3, <2>8, <2>9, <2>11, <2>13, <2>14 DEF Moves
<1> QED BY <1>1, <1>2

LEMMA ReconciledKeeps ==
    ASSUME NEW x \in Files
    PROVE  /\ Reconciled(x) \in Files /\ Reconciled(x).req = x.req
           /\ Reconciled(x).status = "suspended" => x.status = "suspended"
<1>1. InterruptRunning(x.tasks) \in [Tasks -> TaskStatus]
  BY DEF InterruptRunning, Files, TaskStatus
<1> QED BY <1>1 DEF Reconciled, Files, Status

\* What Check writes: the records of ds, as they were read, reconciled.
Reconciles(seen, ds) ==
    /\ disk' = [d \in Dirs |-> IF d \in ds THEN Reconciled(seen[d]) ELSE disk[d]]
    /\ \A d \in ds : d \in DOMAIN seen /\ seen[d] # None /\ Loadable(Reconciled(seen[d]))

(* The ways in which Check can end. *)
LEMMA CheckCases ==
    ASSUME NEW p \in Procs, Check(p)
    PROVE  \E r, seen, ds :
             /\ r = proc[p].req /\ seen = proc[p].seen /\ Reconciles(seen, ds)
             /\ \/ /\ proc' = [proc EXCEPT ![p].pc = "create", ![p].seen = None]
                   /\ UNCHANGED <<execLock, claimsLock>>
                \/ /\ \E d \in DOMAIN seen :
                         /\ seen[d] # None /\ seen[d].req = r
                         /\ execLock' \in {execLock, [execLock EXCEPT ![d] = p]}
                   /\ claimsLock' = Unlocked(claimsLock, p)
                   /\ proc' = [proc EXCEPT ![p].pc = "bind", ![p].seen = None]
                \/ Ends(p)
<1> DEFINE r       == proc[p].req
           seen    == proc[p].seen
           recs    == {d \in DOMAIN seen : seen[d] # None}
           Rivals(d) == seen[d].status = "running" /\ seen[d].req.scope = r.scope
           Broken(d) == ~Loadable(Reconciled(seen[d]))
           Decides(d) == \/ seen[d].req.key = r.key
                         \/ d = proc[p].dir
                         \/ Rivals(d) /\ (execLock[d] # None \/ Broken(d))
           first   == {d \in recs : Decides(d) /\ \A e \in recs : Decides(e) => d.exec <= e.exec}
           stale   == {d \in recs : Rivals(d) /\ ~Decides(d) /\ \A e \in first : d.exec < e.exec}
           Leaving(ds) == [d \in Dirs |-> IF d \in ds THEN Reconciled(seen[d]) ELSE disk[d]]
           Same(d) == seen[d].req = r
           Held(d) == execLock[d] # None
<1>1. \A d \in stale : d \in DOMAIN seen /\ seen[d] # None /\ ~Broken(d)
  OBVIOUS
<1>2. \A d \in first : d \in DOMAIN seen /\ seen[d] # None
  OBVIOUS
<1>3. \/ /\ disk' = Leaving(stale)
         /\ proc' = [proc EXCEPT ![p].pc = "create", ![p].seen = None]
         /\ UNCHANGED <<execLock, claimsLock>>
      \/ \E d \in first :
            /\ Same(d) /\ (Held(d) \/ ~Broken(d))
            /\ disk' = Leaving(stale \cup (IF Held(d) THEN {} ELSE {d}))
            /\ execLock' = IF Held(d) THEN execLock ELSE [execLock EXCEPT ![d] = p]
            /\ claimsLock' = Unlocked(claimsLock, p)
            /\ proc' = [proc EXCEPT ![p].pc = "bind", ![p].seen = None]
      \/ disk' = Leaving(stale) /\ Ends(p)
  BY Zenon DEF Check
<1> HIDE DEF first, stale
<1>4. CASE /\ disk' = Leaving(stale)
           /\ proc' = [proc EXCEPT ![p].pc = "create", ![p].seen = None]
           /\ UNCHANGED <<execLock, claimsLock>>
  <2>1. Reconciles(seen, stale)
    BY <1>1, <1>4 DEF Reconciles
  <2> QED BY <1>4, <2>1
<1>5. CASE disk' = Leaving(stale) /\ Ends(p)
  <2>1. Reconciles(seen, stale)
    BY <1>1, <1>5 DEF Reconciles
  <2> QED BY <1>5, <2>1
<1>6. ASSUME NEW d \in first, Same(d), Held(d) \/ ~Broken(d),
             disk' = Leaving(stale \cup (IF Held(d) THEN {} ELSE {d})),
             execLock' = IF Held(d) THEN execLock ELSE [execLock EXCEPT ![d] = p],
             claimsLock' = Unlocked(claimsLock, p),
             proc' = [proc EXCEPT ![p].pc = "bind", ![p].seen = None]
      PROVE  \E rr, ss, ds :
               /\ rr = r /\ ss = seen /\ Reconciles(ss, ds)
               /\ \E e \in DOMAIN ss :
                      /\ ss[e] # None /\ ss[e].req = rr
                      /\ execLock' \in {execLock, [execLock EXCEPT ![e] = p]}
  <2> DEFINE ds == stale \cup (IF Held(d) THEN {} ELSE {d})
  <2>2. \A e \in ds : e \in DOMAIN seen /\ seen[e] # None /\ ~Broken(e)
    BY <1>1, <1>2, <1>6
  <2>3. disk' = Leaving(ds)
    BY <1>6
  <2> HIDE DEF ds
  <2>4. Reconciles(seen, ds)
    BY <2>2, <2>3 DEF Reconciles
  <2>5. execLock' \in {execLock, [execLock EXCEPT ![d] = p]}
    BY <1>6
  <2> QED BY <1>2, <1>6, <2>4, <2>5
<1>7. CASE \E d \in first :
            /\ Same(d) /\ (Held(d) \/ ~Broken(d))
            /\ disk' = Leaving(stale \cup (IF Held(d) THEN {} ELSE {d}))
            /\ execLock' = IF Held(d) THEN execLock ELSE [execLock EXCEPT ![d] = p]
            /\ claimsLock' = Unlocked(claimsLock, p)
            /\ proc' = [proc EXCEPT ![p].pc = "bind", ![p].seen = None]
  <2>1. PICK d \in first :
            /\ Same(d) /\ (Held(d) \/ ~Broken(d))
            /\ disk' = Leaving(stale \cup (IF Held(d) THEN {} ELSE {d}))
            /\ execLock' = IF Held(d) THEN execLock ELSE [execLock EXCEPT ![d] = p]
            /\ claimsLock' = Unlocked(claimsLock, p)
            /\ proc' = [proc EXCEPT ![p].pc = "bind", ![p].seen = None]
    BY <1>7, Zenon
  <2>2. PICK rr, ss, ds :
               /\ rr = r /\ ss = seen /\ Reconciles(ss, ds)
               /\ \E e \in DOMAIN ss :
                      /\ ss[e] # None /\ ss[e].req = rr
                      /\ execLock' \in {execLock, [execLock EXCEPT ![e] = p]}
    BY <1>6, <2>1
  <2> QED BY <2>1, <2>2, ZenonT(60)
<1> QED BY <1>3, <1>4, <1>5, <1>7, Zenon

LEMMA CheckKeeps ==
    ASSUME IInv, NEW p \in Procs, Check(p)
    PROVE  TypeOK' /\ Moves(p)
<1>1. GoodMemory(proc[p]) /\ proc[p].pc = "check" /\ GoodSeen(proc[p].seen)
      /\ proc[p].req \in Requests /\ proc[p].dir = DirOf(proc[p].req)
  BY DEF Check, At, IInv, GoodMemory, Asking
<1>2. UNCHANGED <<authority, bound, envelope, dispatched, calls, crashes>>
  BY DEF Check
<1>3. PICK r, seen, ds :
        /\ r = proc[p].req /\ seen = proc[p].seen /\ Reconciles(seen, ds)
        /\ \/ /\ proc' = [proc EXCEPT ![p].pc = "create", ![p].seen = None]
              /\ UNCHANGED <<execLock, claimsLock>>
           \/ /\ \E d \in DOMAIN seen :
                    /\ seen[d] # None /\ seen[d].req = r
                    /\ execLock' \in {execLock, [execLock EXCEPT ![d] = p]}
              /\ claimsLock' = Unlocked(claimsLock, p)
              /\ proc' = [proc EXCEPT ![p].pc = "bind", ![p].seen = None]
           \/ Ends(p)
  BY CheckCases
<1>4. \A d \in DOMAIN seen : d \in Dirs /\ (seen[d] # None => seen[d] \in Files /\ disk[d] # None
                             /\ disk[d].req = seen[d].req
                             /\ (seen[d].status = "suspended" => BoundTo(d)))
  BY <1>1, <1>3 DEF GoodSeen, Seens
<1>5. \A d \in ds : /\ d \in Dirs /\ disk[d] # None /\ disk'[d] = Reconciled(seen[d])
                    /\ disk'[d] \in Files /\ disk'[d].req = disk[d].req /\ Loadable(disk'[d])
                    /\ disk'[d].status = "suspended" => BoundTo(d)
  BY <1>3, <1>4, ReconciledKeeps DEF Reconciles
<1>6. /\ disk' \in [Dirs -> Files \cup {None}]
      /\ \A d \in Dirs : d \notin ds => disk'[d] = disk[d]
  BY <1>3, <1>5 DEF Reconciles, IInv, TypeOK
<1>7. Lasting
  BY <1>2, <1>5, <1>6, ConfigAssumption DEF Lasting
<1>8. \A d \in Dirs : disk'[d] \in {disk[d], None} \/ GoodFiles(d)'
  <2> SUFFICES ASSUME NEW d \in ds PROVE GoodFiles(d)'
    BY <1>6
  <2>1. GoodFiles(d) /\ TypeOK
    BY <1>5 DEF IInv
  <2> QED BY <1>5, <1>7, <2>1, BoundLasts DEF GoodFiles, Loadable
<1>9. execLock' \in [Dirs -> Procs \cup {None}] /\ claimsLock' \in [Builds -> Procs \cup {None}]
  BY SMTT(30), <1>3, EndsKeeps DEF IInv, TypeOK, Unlocked
<1>10. TypeOK'
  BY <1>2, <1>6, <1>9 DEF IInv, TypeOK, authority
<1>11. DOMAIN proc' = Procs /\ \A q \in Procs : q = p \/ proc'[q] = proc[q]
  BY <1>3, EndsKeeps DEF IInv
<1>12. GoodMemory(proc[p])'
  <2>1. CASE Ends(p)
    BY <2>1, EndsKeeps, IdleIsGood DEF GoodMemory, Idle, Asking, Taken, AtWork
  <2>2. CASE proc' = [proc EXCEPT ![p].pc = "create", ![p].seen = None]
    <3>1. proc'[p] = [proc[p] EXCEPT !.pc = "create", !.seen = None]
      BY <2>2 DEF IInv
    <3> QED BY <1>1, <3>1 DEF GoodMemory, Memory, Asking, Taken, AtWork
  <2>3. CASE /\ proc' = [proc EXCEPT ![p].pc = "bind", ![p].seen = None]
             /\ \E d \in DOMAIN seen : seen[d] # None /\ seen[d].req = r
    <3>1. proc'[p] = [proc[p] EXCEPT !.pc = "bind", !.seen = None]
      BY <2>3 DEF IInv
    <3>2. PICK d \in DOMAIN seen : seen[d] # None /\ seen[d].req = r
      BY <2>3
    <3>3. d \in Dirs /\ disk[d] # None /\ disk[d].req = r /\ DirOf(r) = d
      BY <1>4, <3>2 DEF IInv, GoodFiles
    <3>4. disk'[d] # None /\ disk'[d].req = r
      BY <1>7, <3>3 DEF Lasting
    <3>5. proc'[p] \in Memory /\ proc'[p].pc = "bind" /\ proc'[p].req = r /\ proc'[p].dir = d
          /\ proc'[p].tasks = proc[p].tasks
      BY <1>1, <1>3, <3>1, <3>3 DEF GoodMemory, Memory
    <3>6. Workable(proc[p].tasks) /\ NothingRuns(proc[p].tasks)
      BY <1>1 DEF GoodMemory, AtWork
    <3> QED BY <1>1, <1>3, <3>3, <3>4, <3>5, <3>6 DEF GoodMemory, Asking, Taken, AtWork
  <2> QED BY <1>3, <2>1, <2>2, <2>3
<1> QED BY <1>2, <1>7, <1>8, <1>10, <1>11, <1>12 DEF Moves

(* The invariant holds at the start. *)
LEMMA InitHolds == Init => IInv
<1> SUFFICES ASSUME Init PROVE IInv
  OBVIOUS
<1>1. TypeOK
  BY ConfigAssumption DEF Init, TypeOK
<1>2. DOMAIN proc = Procs /\ \A p \in Procs : GoodMemory(proc[p])
  BY IdleIsGood DEF Init
<1> QED BY <1>1, <1>2 DEF Init, IInv

(* It is kept by every step, one lemma an action. *)
LEMMA NextKeeps == IInv /\ [Next]_vars => IInv'
<1> SUFFICES ASSUME IInv, [Next]_vars PROVE IInv'
  OBVIOUS
<1>1. CASE UNCHANGED vars
  BY <1>1 DEF IInv, TypeOK, GoodFiles, GoodMemory, GoodSeen, BoundTo, vars, store, authority
<1>2. ASSUME NEW p \in Procs, Step(p) PROVE IInv'
  BY <1>2, MovesKeep, LookupKeeps, AcquireKeeps, ScanKeeps, CheckKeeps, CreateKeeps, BindKeeps,
     GoKeeps, RefuseKeeps, SuspendKeeps, PersistSuspendedKeeps, StartTaskKeeps, FinishTaskKeeps,
     RecordTaskKeeps, SettleKeeps, PublishKeeps, TakeRecordKeeps, RelockKeeps DEF Step
<1>3. ASSUME NEW p \in Procs, Contradict(p) \/ Crash(p) PROVE IInv'
  BY <1>3, MovesKeep, ContradictKeeps, CrashKeeps
<1>4. ASSUME NEW p \in Procs, NEW r \in Requests, Execute(p, r) PROVE IInv'
  BY <1>4, MovesKeep, ExecuteKeeps
<1>5. ASSUME NEW p \in Procs, NEW e \in Execs, Resume(p, e) PROVE IInv'
  BY <1>5, MovesKeep, ResumeKeeps
<1>6. ASSUME NEW s \in Scopes, Recover(s) PROVE IInv'
  BY <1>6, RecoverKeeps
<1> QED BY <1>1, <1>2, <1>3, <1>4, <1>5, <1>6 DEF Next

LEMMA InvHolds == Spec => []IInv
BY InitHolds, NextKeeps, PTL DEF Spec

----------------------------------------------------------------------------
(* Who is at work on what *)

\* Where a process relies on the authority claim of its scope.
Engaged == AtWork \cup {"scan", "check", "create", "bind", "analyse", "suspend", "loop",
                        "anchor", "release", "unlink", "relock"}

Among(p, s) == proc[p].pc \in Engaged /\ proc[p].req.scope = s

IsNew(q) == q.pc \in {"analyse", "suspend"} \/ (q.pc = "bind" /\ q.new)
HasLock(q) == IsNew(q) \/ q.pc \in AtWork \cup {"loop", "anchor", "release", "unlink"}

Suspended(d) == disk[d] # None /\ disk[d].status = "suspended"
Untouched(d) == disk[d].results = NoResults /\ \A t \in Tasks : dispatched[d][t] = 0

\* A suspended execution somebody resumes, or may.
Referred(d) == \/ envelope[d.exec] = d
               \/ \E p \in Procs : At(p, "resume") /\ proc[p].dir = d

Settled == {"completed", "failed"}

\* What memory says of a task is what the files and the workers show of it.
Mirrored(q, t) ==
    IF q.tasks[t] \in Settled
    THEN disk[q.dir].results[t] = q.tasks[t] /\ dispatched[q.dir][t] > 0
    ELSE disk[q.dir].results[t] = "none" /\ dispatched[q.dir][t] = 0

Mirrors(q) ==
    /\ disk[q.dir].status = "running"
    /\ q.pc = "anchor" => \A t \in Tasks :
          disk[q.dir].results[t] =
              IF q.tasks[t] \in Settled \cup {"blocked"} THEN q.tasks[t] ELSE "none"
    /\ q.pc # "anchor" => \A t \in Tasks : t # q.task => Mirrored(q, t)
    /\ q.pc \in AtWork => /\ dispatched[q.dir][q.task] > 0
                          /\ disk[q.dir].results[q.task] = IF q.pc = "work" THEN "none" ELSE q.pc
    /\ q.pc \notin AtWork => q.task = 0

\* What process p may count on.
Entitled(p) ==
    /\ proc[p].pc \in Engaged =>
          /\ proc[p].req \in Requests /\ proc[p].dir \in Dirs
          /\ active[proc[p].req.scope] = [id |-> proc[p].claim, dir |-> proc[p].dir]
    /\ proc[p].pc \in Engaged \ {"scan", "check", "create"} =>
          disk[proc[p].dir] # None /\ disk[proc[p].dir].req = proc[p].req
    /\ HasLock(proc[p]) => execLock[proc[p].dir] = p
    /\ IsNew(proc[p]) => Untouched(proc[p].dir) /\ disk[proc[p].dir].status = "running"
    /\ proc[p].pc = "relock" => Suspended(proc[p].dir)
    /\ proc[p].pc \in AtWork \cup {"loop", "anchor"} => Mirrors(proc[p])
    /\ proc[p].pc \notin AtWork \cup {"loop", "anchor", "release", "unlink", "answer"} =>
          proc[p].tasks = InitialTasks /\ proc[p].task = 0
    /\ proc[p].pc = "check" => \A d \in DOMAIN proc[p].seen :
          proc[p].seen[d] # None /\ proc[p].seen[d].req.scope = proc[p].req.scope
          => disk[d] = proc[p].seen[d]
    /\ proc[p].pc \in Asking => ~proc[p].new
    /\ proc[p].pc = "resume" => p \in Resumers

EarnedBy(status, res) ==
    /\ status = "completed" => \A t \in Tasks : res[t] = "completed"
    /\ status = "failed" =>
          /\ \E t \in Tasks : res[t] = "failed"
          /\ \A t \in Tasks : /\ res[t] # "none"
                              /\ res[t] = "blocked" <=> \E u \in DependsOn[t] : res[u] # "completed"

\* What the files of an execution show.
Kept(d) ==
    /\ execLock[d] # None => disk[d] # None
    /\ disk[d] = None => \A t \in Tasks : dispatched[d][t] = 0
    /\ Suspended(d) => Untouched(d)
    /\ disk[d] # None => EarnedBy(disk[d].status, disk[d].results)

\* A suspended execution that can be resumed keeps its scope to itself.
Reserved(d) ==
    Suspended(d) /\ Referred(d) =>
        /\ active[disk[d].req.scope] # None /\ active[disk[d].req.scope].dir = d
        /\ \A p \in Procs : ~Among(p, disk[d].req.scope)

Alone == \A p, q \in Procs, s \in Scopes : Among(p, s) /\ Among(q, s) => p = q
Filed == \A e \in Execs : envelope[e] # None => envelope[e].exec = e

XInv ==
    /\ \A p \in Procs : Entitled(p)
    /\ \A d \in Dirs : Kept(d) /\ Reserved(d)
    /\ Alone /\ Filed

\* All that a step of p may touch of what others rely on.
Footprint(p) ==
    /\ DOMAIN proc' = Procs /\ \A q \in Procs : q = p \/ proc'[q] = proc[q]
    /\ \A s \in Scopes : active'[s] = active[s] \/ \A q \in Procs : q = p \/ ~Among(q, s)
    /\ \A d \in Dirs : \/ disk'[d] = disk[d] \/ disk[d] = None
                       \/ proc[p].pc \in Engaged /\ disk[d].req.scope = proc[p].req.scope
    /\ \A d \in Dirs : execLock'[d] = execLock[d] \/ execLock[d] \in {None, p}
    /\ \A d \in Dirs : \/ dispatched'[d] = dispatched[d]
                       \/ proc[p].pc = "loop" /\ proc[p].dir = d

(* An execution on disk is for a request, and that for a scope.            *)
LEMMA FilesHaveScope ==
    ASSUME IInv, NEW d \in Dirs, disk[d] # None
    PROVE  disk[d] \in Files /\ disk[d].req \in Requests /\ disk[d].req.scope \in Scopes
<1>1. disk[d] \in Files
  BY DEF IInv, TypeOK
<1>2. disk[d].req \in Requests
  BY <1>1 DEF Files
<1> QED BY <1>1, <1>2 DEF Scopes

(* What the others count on stays. *)
LEMMA OthersKeep ==
    ASSUME IInv, XInv, NEW p \in Procs, Footprint(p), NEW q \in Procs, q # p
    PROVE  Entitled(q)'
<1> DEFINE d == proc[q].dir
<1>1. proc'[q] = proc[q] /\ Entitled(q)
  BY DEF Footprint, XInv
<1>2. CASE proc[q].pc \in Engaged
  <2>1. /\ proc[q].req \in Requests /\ d \in Dirs
        /\ proc[q].req.scope \in Scopes /\ Among(q, proc[q].req.scope)
    BY <1>1, <1>2 DEF Entitled, Among, Scopes
  <2>2. active'[proc[q].req.scope] = active[proc[q].req.scope]
    BY <2>1 DEF Footprint
  <2>3. ~Among(p, proc[q].req.scope)
    BY <2>1 DEF XInv, Alone
  <2>4. \A e \in Dirs : disk[e] # None /\ disk[e].req.scope = proc[q].req.scope => disk'[e] = disk[e]
    BY <2>3 DEF Footprint, Among
  <2>5. CASE proc[q].pc \in Engaged \ {"scan", "check", "create"}
    <3>1. disk[d] # None /\ disk[d].req = proc[q].req /\ disk'[d] = disk[d]
      BY <1>1, <2>1, <2>4, <2>5 DEF Entitled
    <3>2. dispatched'[d] = dispatched[d]
      <4> SUFFICES ASSUME proc[p].pc = "loop", proc[p].dir = d PROVE FALSE
        BY <2>1 DEF Footprint
      <4>1. disk[d].req = proc[p].req /\ proc[p].pc \in Engaged
        BY DEF XInv, Entitled, Engaged
      <4> QED BY <2>3, <3>1, <4>1 DEF Among
    <3>3. HasLock(proc[q]) => execLock'[d] = q
      BY <1>1, <2>1, ConfigAssumption DEF Footprint, Entitled
    <3>4. /\ IsNew(proc[q]) => Untouched(d)' /\ disk'[d].status = "running"
          /\ proc[q].pc = "relock" => Suspended(d)'
      BY <1>1, <3>1, <3>2 DEF Entitled, Untouched, Suspended
    <3>5. proc[q].pc \in AtWork \cup {"loop", "anchor"} => Mirrors(proc[q])'
      BY SMTT(60), <1>1, <3>1, <3>2 DEF Entitled, Mirrors, Mirrored
    <3>6. proc[q].pc \notin {"check", "resume"}
      BY <2>5 DEF Engaged, AtWork
    <3> HIDE DEF Engaged
    <3> QED BY <1>1, <2>1, <2>2, <2>5, <3>1, <3>3, <3>4, <3>5, <3>6 DEF Entitled
  <2>6. CASE proc[q].pc = "check"
    <3>1. \A e \in DOMAIN proc[q].seen : e \in Dirs /\ (proc[q].seen[e] # None =>
             disk[e] # None /\ disk[e].req = proc[q].seen[e].req)
      BY <2>6 DEF IInv, GoodMemory, GoodSeen, Seens
    <3> QED BY <1>1, <1>2, <2>1, <2>2, <2>4, <2>6, <3>1
            DEF Entitled, Engaged, AtWork, HasLock, IsNew, Asking
  <2>7. CASE proc[q].pc \in {"scan", "create"}
    BY <1>1, <2>1, <2>2, <2>7 DEF Entitled, Engaged, AtWork, HasLock, IsNew, Asking
  <2> QED BY <1>2, <2>5, <2>6, <2>7
<1>3. CASE proc[q].pc \notin Engaged
  BY <1>1, <1>3 DEF Entitled, Engaged, AtWork, HasLock, IsNew, Asking
<1> QED BY <1>2, <1>3

(* What a step of p has to show. *)
LEMMA StepKeeps ==
    ASSUME IInv, XInv, NEW p \in Procs, Footprint(p), Entitled(p)',
           proc'[p].pc \in Engaged =>
              \/ Among(p, proc'[p].req.scope)
              \/ \A q \in Procs : q = p \/ ~Among(q, proc'[p].req.scope),
           \A d \in Dirs : Kept(d)' /\ Reserved(d)',
           Filed'
    PROVE  XInv'
<1>1. \A q \in Procs : Entitled(q)'
  BY OthersKeep
<1>2. ASSUME NEW q \in Procs, NEW s \in Scopes, Among(p, s)', Among(q, s)'
      PROVE  q = p
  <2>1. proc'[p].pc \in Engaged /\ proc'[p].req.scope = s
    BY <1>2 DEF Among
  <2>2. ASSUME q # p PROVE Among(q, s)
    BY <1>2, <2>2 DEF Footprint, Among
  <2>3. Among(p, s) \/ \A r \in Procs : r = p \/ ~Among(r, s)
    BY <2>1
  <2> QED BY <2>2, <2>3 DEF XInv, Alone
<1>3. ASSUME NEW q \in Procs, NEW r \in Procs, NEW s \in Scopes,
             Among(q, s)', Among(r, s)', q # p, r # p
      PROVE  q = r
  <2>1. Among(q, s) /\ Among(r, s)
    BY <1>3 DEF Footprint, Among
  <2> QED BY <2>1 DEF XInv, Alone
<1>4. Alone'
  BY <1>2, <1>3 DEF Alone
<1> QED BY <1>1, <1>4 DEF XInv

(* A scope stays reserved while p does not come to it from outside. *)
LEMMA ReservedStays ==
    ASSUME IInv, XInv, NEW p \in Procs, Footprint(p), NEW d \in Dirs, disk'[d] = disk[d],
           Referred(d)' => Referred(d),
           \A s \in Scopes : active'[s] = active[s],
           proc'[p].pc \in Engaged => Among(p, proc'[p].req.scope)
    PROVE  Reserved(d)'
<1> SUFFICES ASSUME Suspended(d)', Referred(d)'
             PROVE  /\ active'[disk'[d].req.scope] # None /\ active'[disk'[d].req.scope].dir = d
                    /\ \A q \in Procs :
                          ~(proc'[q].pc \in Engaged /\ proc'[q].req.scope = disk'[d].req.scope)
  BY DEF Reserved, Among
<1>1. Suspended(d) /\ Referred(d) /\ disk[d] # None
  BY DEF Suspended
<1>2. disk[d].req.scope \in Scopes
  BY <1>1, FilesHaveScope
<1>3. /\ active[disk[d].req.scope] # None /\ active[disk[d].req.scope].dir = d
      /\ \A q \in Procs : ~Among(q, disk[d].req.scope)
  BY <1>1 DEF XInv, Reserved
<1>4. \A q \in Procs :
        ~(proc'[q].pc \in Engaged /\ proc'[q].req.scope = disk'[d].req.scope)
  BY <1>3 DEF Footprint, Among
<1> QED BY <1>2, <1>3, <1>4

LEMMA KeptStays ==
    ASSUME XInv, NEW d \in Dirs, disk'[d] = disk[d], dispatched'[d] = dispatched[d],
           execLock'[d] # None => execLock[d] # None \/ disk[d] # None
    PROVE  Kept(d)'
BY DEF XInv, Kept, Suspended, Untouched

(* A step that leaves the files and the registry alone and after which p   *)
(* relies on nothing.                                                      *)
LEMMA QuietKeeps ==
    ASSUME IInv, XInv, NEW p \in Procs, UNCHANGED <<disk, active, dispatched, envelope>>,
           DOMAIN proc' = Procs, \A q \in Procs : q = p \/ proc'[q] = proc[q],
           \A d \in Dirs : execLock'[d] = execLock[d] \/ (execLock[d] = p /\ execLock'[d] = None),
           proc'[p].pc \notin Engaged, Entitled(p)',
           proc'[p].pc = "resume" => \E e \in Execs : envelope[e] = proc'[p].dir
    PROVE  XInv'
<1>1. Footprint(p)
  BY DEF Footprint
<1>2. \A d \in Dirs : Referred(d)' => Referred(d)
  <2> SUFFICES ASSUME NEW d \in Dirs, Referred(d)', envelope[d.exec] # d
               PROVE  \E q \in Procs : At(q, "resume") /\ proc[q].dir = d
    BY DEF Referred
  <2>1. PICK q \in Procs : proc'[q].pc = "resume" /\ proc'[q].dir = d
    BY DEF Referred, At
  <2>2. q # p
    <3> SUFFICES ASSUME q = p PROVE FALSE
      OBVIOUS
    <3>1. PICK e \in Execs : envelope[e] = d
      BY <2>1
    <3>2. d.exec = e
      BY <3>1, ConfigAssumption DEF XInv, Filed
    <3> QED BY <3>1, <3>2
  <2> QED BY <2>1, <2>2 DEF At
<1>3. \A d \in Dirs : Kept(d)'
  BY KeptStays
<1>4. \A d \in Dirs : Reserved(d)'
  BY <1>1, <1>2, ReservedStays
<1>5. Filed'
  BY DEF XInv, Filed
<1> QED BY <1>1, <1>3, <1>4, <1>5, StepKeeps

LEMMA EndsQuietly ==
    ASSUME IInv, XInv, NEW p \in Procs, Ends(p), UNCHANGED <<disk, active, dispatched, envelope>>
    PROVE  XInv'
<1>1. \A d \in Dirs : execLock'[d] = execLock[d] \/ (execLock[d] = p /\ execLock'[d] = None)
  BY DEF Ends, Unlocked, IInv, TypeOK
<1>2. proc'[p] = Idle /\ DOMAIN proc' = Procs /\ \A q \in Procs : q = p \/ proc'[q] = proc[q]
  BY EndsKeeps
<1>3. proc'[p].pc \notin Engaged /\ proc'[p].pc # "resume"
  BY <1>2 DEF Idle, Engaged, AtWork
<1>4. Entitled(p)'
  BY <1>2, <1>3 DEF Entitled, Idle, HasLock, IsNew, Engaged, AtWork, Asking
<1> QED BY <1>1, <1>2, <1>3, <1>4, QuietKeeps

LEMMA LeavesQuietly ==
    ASSUME IInv, XInv, NEW p \in Procs, Leaves(p)
    PROVE  XInv'
BY EndsQuietly DEF Leaves, authority

LEMMA CallsQuietly ==
    ASSUME IInv, XInv, NEW p \in Procs,
           \/ Lookup(p) \/ Answer(p) \/ Crash(p)
           \/ (\E r \in Requests : Execute(p, r))
           \/ (\E e \in Execs : Resume(p, e))
    PROVE  XInv'
<1>1. CASE Crash(p)
  BY <1>1, EndsQuietly DEF Crash, authority
<1>2. CASE Answer(p)
  BY <1>2, LeavesQuietly DEF Answer
<1>3. CASE \E r \in Requests : Execute(p, r)
  <2>1. PICK r \in Requests : Execute(p, r)
    BY <1>3
  <2>2. /\ UNCHANGED <<disk, active, dispatched, envelope, execLock>>
        /\ proc'[p] = [Idle EXCEPT !.pc = "lookup", !.req = r, !.dir = DirOf(r)]
        /\ DOMAIN proc' = Procs /\ \A q \in Procs : q = p \/ proc'[q] = proc[q]
    BY <2>1 DEF Execute, store, authority, IInv
  <2>3. proc'[p].pc = "lookup" /\ proc'[p].tasks = InitialTasks /\ proc'[p].task = 0
        /\ proc'[p].new = FALSE
    BY <2>2 DEF Idle
  <2>4. Entitled(p)' /\ proc'[p].pc \notin Engaged
    BY <2>3 DEF Entitled, HasLock, IsNew, Engaged, AtWork, Asking
  <2> QED BY <2>2, <2>3, <2>4, QuietKeeps
<1>4. CASE \E e \in Execs : Resume(p, e)
  <2>1. PICK e \in Execs : Resume(p, e)
    BY <1>4
  <2>2. /\ UNCHANGED <<disk, active, dispatched, envelope, execLock>> /\ p \in Resumers
        /\ proc'[p] = [Idle EXCEPT !.pc = "resume", !.dir = envelope[e]]
        /\ DOMAIN proc' = Procs /\ \A q \in Procs : q = p \/ proc'[q] = proc[q]
    BY <2>1 DEF Resume, store, authority, IInv
  <2>3. proc'[p].pc = "resume" /\ proc'[p].tasks = InitialTasks /\ proc'[p].task = 0
        /\ proc'[p].dir = envelope[e]
    BY <2>2 DEF Idle
  <2>4. Entitled(p)' /\ proc'[p].pc \notin Engaged
    BY <2>2, <2>3 DEF Entitled, HasLock, IsNew, Engaged, AtWork, Asking
  <2> QED BY <2>2, <2>3, <2>4, QuietKeeps
<1>5. CASE Lookup(p) /\ ~Leaves(p)
  <2>1. /\ UNCHANGED <<disk, active, dispatched, envelope, execLock>> /\ proc[p].pc = "lookup"
        /\ proc'[p] = [proc[p] EXCEPT !.pc = "acquire"] /\ Entitled(p)
        /\ DOMAIN proc' = Procs /\ \A q \in Procs : q = p \/ proc'[q] = proc[q]
    BY <1>5 DEF Lookup, store, authority, IInv, XInv, At, Go
  <2>2. proc'[p].pc = "acquire" /\ proc'[p].tasks = proc[p].tasks /\ proc'[p].task = proc[p].task
        /\ proc'[p].new = proc[p].new
    BY <2>1 DEF IInv, GoodMemory, Memory
  <2>3. Entitled(p)' /\ proc'[p].pc \notin Engaged
    BY <2>1, <2>2 DEF Entitled, HasLock, IsNew, Engaged, AtWork, Asking
  <2> QED BY <2>1, <2>2, <2>3, QuietKeeps
<1>6. CASE Lookup(p) /\ Leaves(p)
  BY <1>6, LeavesQuietly
<1> QED BY <1>1, <1>2, <1>3, <1>4, <1>5, <1>6

(* Whoever relies on a scope finds its own claim there. *)
LEMMA AmongHasClaim ==
    ASSUME IInv, XInv, NEW p \in Procs, NEW s, Among(p, s)
    PROVE  /\ s \in Scopes /\ active[s] # None /\ active[s] \in Claims
           /\ active[s].id = proc[p].claim /\ active[s].dir = proc[p].dir
<1>1. /\ proc[p].req \in Requests /\ s = proc[p].req.scope
      /\ active[s] = [id |-> proc[p].claim, dir |-> proc[p].dir] /\ proc[p].dir \in Dirs
  BY DEF XInv, Entitled, Among
<1>2. proc[p].claim \in Nat
  BY DEF IInv, GoodMemory, Memory
<1>3. active[s] \in Claims
  BY <1>1, <1>2 DEF Claims
<1> QED BY <1>1, <1>3, ConfigAssumption DEF Scopes

LEMMA AcquireXKeeps ==
    ASSUME IInv, XInv, NEW p \in Procs, Acquire(p)
    PROVE  XInv'
<1>1. CASE Leaves(p)
  BY <1>1, LeavesQuietly
<1>2. CASE ~Leaves(p)
  <2>1. PICK r \in Requests : r = proc[p].req /\ proc[p].dir = DirOf(r) /\ proc[p].pc = "acquire"
    BY DEF Acquire, At, IInv, GoodMemory, Asking
  <2>2. /\ UNCHANGED <<disk, dispatched, envelope, execLock>>
        /\ DOMAIN proc' = Procs /\ \A q \in Procs : q = p \/ proc'[q] = proc[q]
        /\ active[r.scope] = None
        /\ active' = [active EXCEPT ![r.scope] = [id |-> claims', dir |-> proc[p].dir]]
        /\ proc'[p] = [proc[p] EXCEPT !.pc = "scan", !.claim = claims']
    BY <1>2, <2>1, Zenon DEF Acquire, store, IInv
  <2>3. r.scope \in Scopes /\ DirOf(r) \in Dirs
    BY DEF Scopes, Dirs
  <2>4. /\ active'[r.scope] = [id |-> claims', dir |-> proc[p].dir]
        /\ \A s \in Scopes : s # r.scope => active'[s] = active[s]
    BY <2>2, <2>3 DEF IInv, TypeOK
  <2>5. \A q \in Procs : ~Among(q, r.scope)
    BY <2>2, AmongHasClaim
  <2>6. Footprint(p)
    BY <2>2, <2>4, <2>5 DEF Footprint
  <2>7. /\ proc'[p].pc = "scan" /\ proc'[p].req = r /\ proc'[p].dir = proc[p].dir
        /\ proc'[p].claim = claims' /\ proc'[p].tasks = proc[p].tasks
        /\ proc'[p].task = proc[p].task /\ proc'[p].new = proc[p].new
    BY <2>1, <2>2 DEF IInv, GoodMemory, Memory
  <2>8. Entitled(p)'
    <3>1. Entitled(p)
      BY DEF XInv
    <3> QED BY <2>1, <2>3, <2>4, <2>7, <3>1 DEF Entitled, HasLock, IsNew, Engaged, AtWork, Asking
  <2>9. \A d \in Dirs : Kept(d)'
    BY <2>2, KeptStays
  <2>10. \A d \in Dirs : Reserved(d)'
    <3> SUFFICES ASSUME NEW d \in Dirs, Suspended(d)', Referred(d)'
                 PROVE  /\ active'[disk'[d].req.scope] # None
                        /\ active'[disk'[d].req.scope].dir = d
                        /\ \A q \in Procs :
                             ~(proc'[q].pc \in Engaged /\ proc'[q].req.scope = disk'[d].req.scope)
      BY DEF Reserved, Among
    <3>1. Suspended(d) /\ Referred(d)
      BY <2>2, <2>7 DEF Suspended, Referred, At
    <3>2. disk[d].req.scope \in Scopes
      BY <3>1, FilesHaveScope DEF Suspended
    <3>3. /\ active[disk[d].req.scope] # None /\ active[disk[d].req.scope].dir = d
          /\ \A q \in Procs : ~Among(q, disk[d].req.scope)
      BY <3>1 DEF XInv, Reserved
    <3>4. /\ disk'[d] = disk[d] /\ disk[d].req.scope # r.scope
          /\ active'[disk[d].req.scope] = active[disk[d].req.scope]
      BY <2>2, <2>4, <3>2, <3>3
    <3>5. ASSUME NEW q \in Procs
          PROVE  ~(proc'[q].pc \in Engaged /\ proc'[q].req.scope = disk[d].req.scope)
      BY <2>2, <2>7, <3>3, <3>4 DEF Among
    <3> QED BY <3>3, <3>4, <3>5
  <2>11. Filed'
    BY <2>2 DEF XInv, Filed
  <2> QED BY <2>5, <2>6, <2>7, <2>8, <2>9, <2>10, <2>11, StepKeeps
<1> QED BY <1>1, <1>2

(* A step by which p, engaged already, goes on within its memory.          *)
LEMMA GoesOn ==
    ASSUME IInv, XInv, NEW p \in Procs, UNCHANGED <<disk, active, dispatched, envelope>>,
           DOMAIN proc' = Procs, \A q \in Procs : q = p \/ proc'[q] = proc[q],
           \A d \in Dirs : \/ execLock'[d] = execLock[d]
                           \/ (execLock[d] = p /\ execLock'[d] = None)
                           \/ (execLock[d] = None /\ disk[d] # None),
           proc[p].pc \in Engaged, proc'[p].pc # "resume", proc'[p].req = proc[p].req,
           Entitled(p)'
    PROVE  XInv'
<1>1. Footprint(p)
  BY DEF Footprint
<1>2. \A d \in Dirs : Referred(d)' => Referred(d)
  BY DEF Referred, At
<1>3. \A d \in Dirs : Kept(d)'
  BY KeptStays
<1>4. Among(p, proc'[p].req.scope)
  BY DEF Among
<1>5. \A d \in Dirs : Reserved(d)'
  BY <1>1, <1>2, <1>4, ReservedStays
<1>6. Filed'
  BY DEF XInv, Filed
<1> QED BY <1>1, <1>3, <1>4, <1>5, <1>6, StepKeeps

LEMMA ScanXKeeps ==
    ASSUME IInv, XInv, NEW p \in Procs, Scan(p)
    PROVE  XInv'
<1>1. CASE Leaves(p)
  BY <1>1, LeavesQuietly
<1>2. CASE ~Leaves(p)
  <2>1. PICK mine \in SUBSET Dirs : proc'[p].seen = [d \in mine |-> disk[d]]
        /\ UNCHANGED <<disk, active, dispatched, envelope, execLock>>
        /\ DOMAIN proc' = Procs /\ (\A q \in Procs : q = p \/ proc'[q] = proc[q])
        /\ proc[p].pc = "scan" /\ GoodMemory(proc[p]) /\ Entitled(p)
        /\ proc'[p] = [proc[p] EXCEPT !.pc = "check", !.seen = proc'[p].seen]
    <3> DEFINE mine == {e \in Dirs : e.build = proc[p].req.build}
               read == [d \in mine |-> disk[d]]
    <3>1. /\ UNCHANGED <<disk, active, dispatched, envelope, execLock>>
          /\ DOMAIN proc' = Procs /\ \A q \in Procs : q = p \/ proc'[q] = proc[q]
          /\ proc[p].pc = "scan" /\ GoodMemory(proc[p]) /\ Entitled(p)
          /\ proc'[p] = [proc[p] EXCEPT !.pc = "check", !.seen = read]
      BY <1>2 DEF Scan, At, IInv, XInv, authority
    <3> HIDE DEF read
    <3>2. proc'[p].seen = read
      BY <3>1 DEF GoodMemory, Memory
    <3>3. mine \in SUBSET Dirs
      OBVIOUS
    <3> QED BY <3>1, <3>2, <3>3 DEF read
  <2>2. /\ proc'[p].pc = "check" /\ proc'[p].req = proc[p].req /\ proc'[p].dir = proc[p].dir
        /\ proc'[p].claim = proc[p].claim /\ proc'[p].tasks = proc[p].tasks
        /\ proc'[p].task = proc[p].task /\ proc'[p].new = proc[p].new
    BY <2>1 DEF GoodMemory, Memory
  <2>3. Entitled(p)'
    BY <2>1, <2>2 DEF Entitled, HasLock, IsNew, Engaged, AtWork, Asking
  <2> QED BY <2>1, <2>2, <2>3, GoesOn DEF Engaged
<1> QED BY <1>1, <1>2

LEMMA AdmitXKeeps ==
    ASSUME IInv, XInv, NEW p \in Procs, Admit(p)
    PROVE  XInv'
<1>1. /\ UNCHANGED <<disk, active, dispatched, envelope, execLock>>
      /\ DOMAIN proc' = Procs /\ \A q \in Procs : q = p \/ proc'[q] = proc[q]
      /\ proc[p].pc = "analyse" /\ GoodMemory(proc[p]) /\ Entitled(p)
      /\ proc'[p] = [proc[p] EXCEPT !.pc = "loop"]
  BY DEF Admit, Go, At, IInv, XInv, store, authority
<1>2. /\ proc'[p].pc = "loop" /\ proc'[p].req = proc[p].req /\ proc'[p].dir = proc[p].dir
      /\ proc'[p].claim = proc[p].claim /\ proc'[p].tasks = proc[p].tasks
      /\ proc'[p].task = proc[p].task
  BY <1>1 DEF GoodMemory, Memory
<1>3. /\ proc[p].tasks = InitialTasks /\ proc[p].task = 0
      /\ Untouched(proc[p].dir) /\ disk[proc[p].dir].status = "running"
      /\ HasLock(proc[p])
  BY <1>1 DEF Entitled, IsNew, HasLock, AtWork
<1>4. \A t \in Tasks : InitialTasks[t] \notin Settled
  BY DEF InitialTasks, Settled
<1>5. Mirrors(proc[p])'
  BY <1>1, <1>2, <1>3, <1>4 DEF Mirrors, Mirrored, Untouched, NoResults, AtWork
<1>6. Entitled(p)'
  BY <1>1, <1>2, <1>3, <1>5 DEF Entitled, HasLock, IsNew, Engaged, AtWork, Asking
<1> QED BY <1>1, <1>2, <1>6, GoesOn DEF Engaged

LEMMA ReleaseXKeeps ==
    ASSUME IInv, XInv, NEW p \in Procs, Release(p)
    PROVE  XInv'
<1>1. /\ UNCHANGED <<disk, active, dispatched, envelope, execLock>>
      /\ DOMAIN proc' = Procs /\ \A q \in Procs : q = p \/ proc'[q] = proc[q]
      /\ proc[p].pc = "release" /\ GoodMemory(proc[p]) /\ Entitled(p)
      /\ proc'[p] = [proc[p] EXCEPT !.pc = "unlink"]
  BY DEF Release, Go, At, IInv, XInv, store
<1>2. /\ proc'[p].pc = "unlink" /\ proc'[p].req = proc[p].req /\ proc'[p].dir = proc[p].dir
      /\ proc'[p].claim = proc[p].claim
  BY <1>1 DEF GoodMemory, Memory
<1>3. Entitled(p)'
  BY <1>1, <1>2 DEF Entitled, HasLock, IsNew, Engaged, AtWork, Asking
<1> QED BY <1>1, <1>2, <1>3, GoesOn DEF Engaged

(* A process that has an execution in hand writes the files of that one.   *)
LEMMA OwnWrite ==
    ASSUME IInv, XInv, NEW p \in Procs, NEW d \in Dirs, d = proc[p].dir,
           proc[p].pc \in Engaged \ {"scan", "check", "create"},
           UNCHANGED <<active, envelope>>,
           disk' = [disk EXCEPT ![d] = disk'[d]], disk'[d].req = disk[d].req,
           \A e \in Dirs : \/ dispatched'[e] = dispatched[e]
                           \/ proc[p].pc = "loop" /\ e = d,
           \A e \in Dirs : \/ execLock'[e] = execLock[e]
                           \/ (execLock[e] = p /\ execLock'[e] = None)
                           \/ (execLock[e] = None /\ disk[e] # None),
           DOMAIN proc' = Procs, \A q \in Procs : q = p \/ proc'[q] = proc[q],
           proc'[p].pc # "resume",
           proc'[p].pc \in Engaged => proc'[p].req = proc[p].req /\ ~Suspended(d)',
           Entitled(p)', Kept(d)'
    PROVE  XInv'
<1>1. /\ disk[d] # None /\ disk[d].req = proc[p].req /\ proc[p].req \in Requests
      /\ active[proc[p].req.scope] = [id |-> proc[p].claim, dir |-> d]
  BY DEF XInv, Entitled
<1>2. Among(p, proc[p].req.scope) /\ active[proc[p].req.scope] # None
      /\ active[proc[p].req.scope].dir = d
  <2>1. Among(p, proc[p].req.scope)
    BY DEF Among
  <2> QED BY <2>1, AmongHasClaim
<1>3. \A e \in Dirs : e # d => disk'[e] = disk[e]
  BY DEF IInv, TypeOK
<1>4. Footprint(p)
  BY <1>1, <1>3 DEF Footprint
<1>5. \A e \in Dirs : Referred(e)' => Referred(e)
  BY DEF Referred, At
<1>6. \A e \in Dirs : Kept(e)'
  BY <1>3, KeptStays
<1>7. proc'[p].pc \in Engaged => Among(p, proc'[p].req.scope)
  BY <1>2
<1>8. ASSUME NEW e \in Dirs PROVE Reserved(e)'
  <2>1. CASE e # d
    BY <1>3, <1>4, <1>5, <1>7, <2>1, ReservedStays
  <2>2. CASE e = d
    <3> SUFFICES ASSUME Suspended(d)'
                 PROVE  \A q \in Procs :
                           ~(proc'[q].pc \in Engaged /\ proc'[q].req.scope = proc[p].req.scope)
      BY <1>1, <1>2, <2>2 DEF Reserved, Among
    <3>1. \A q \in Procs : q # p => ~Among(q, proc[p].req.scope)
      BY <1>1, <1>2 DEF XInv, Alone, Scopes
    <3> QED BY <3>1 DEF Among
  <2> QED BY <2>1, <2>2
<1>9. Filed'
  BY DEF XInv, Filed
<1> QED BY <1>4, <1>6, <1>7, <1>8, <1>9, StepKeeps

(* What is left to show of a step within the task loop.                    *)
LEMMA StaysEntitled ==
    ASSUME NEW p \in Procs, Entitled(p), NEW d \in Dirs, d = proc[p].dir,
           proc[p].pc \in Engaged \ {"scan", "check", "create"},
           UNCHANGED active, disk'[d] # None, disk'[d].req = disk[d].req, execLock'[d] = p,
           proc'[p].req = proc[p].req, proc'[p].dir = d, proc'[p].claim = proc[p].claim,
           proc'[p].pc \in AtWork \cup {"loop", "anchor", "release"},
           proc'[p].pc # "release" => Mirrors(proc[p])'
    PROVE  Entitled(p)'
<1>1. /\ proc[p].req \in Requests /\ disk[d] # None /\ disk[d].req = proc[p].req
      /\ active[proc[p].req.scope] = [id |-> proc[p].claim, dir |-> d]
  BY DEF Entitled
<1>2. /\ proc'[p].pc \notin {"check", "relock", "resume"} /\ ~IsNew(proc'[p])
      /\ proc'[p].pc \notin Asking
      /\ proc'[p].pc \in AtWork \cup {"loop", "anchor"} => Mirrors(proc[p])'
  BY DEF IsNew, AtWork, Asking
<1> HIDE DEF Mirrors
<1> QED BY <1>1, <1>2 DEF Entitled, IsNew

LEMMA RefuseXKeeps ==
    ASSUME IInv, XInv, NEW p \in Procs, Refuse(p)
    PROVE  XInv'
<1> DEFINE refused == [t \in Tasks |-> IF t \in Roots THEN "failed" ELSE "blocked"]
<1>1. /\ UNCHANGED <<execLock, active, envelope, dispatched>>
      /\ proc[p].pc = "analyse"
      /\ proc' = [proc EXCEPT ![p].pc = "anchor", ![p].tasks = refused]
      /\ disk' = [disk EXCEPT ![proc[p].dir].results = refused]
  BY DEF Refuse, At, authority
<1>2. \A t \in Tasks : refused[t] \in Settled \cup {"blocked"}
  BY DEF Settled
<1> HIDE DEF refused
<1>3. PICK d \in Dirs : /\ d = proc[p].dir /\ Holding(proc[p], d) /\ BoundTo(d)
                        /\ disk[d] \in Files /\ Loadable(disk[d])
  BY <1>1, TakenIsHeld DEF Taken
<1>4. disk'[d] = [disk[d] EXCEPT !.results = refused] /\ disk' = [disk EXCEPT ![d] = disk'[d]]
  BY <1>1, <1>3 DEF IInv, TypeOK
<1>5. /\ disk'[d] # None /\ disk'[d].req = disk[d].req
      /\ disk'[d].status = disk[d].status /\ disk'[d].results = refused
  BY <1>3, <1>4, RefuseKeeps DEF Files, Moves, Lasting, BoundTo
<1>6. DOMAIN proc' = Procs /\ (\A q \in Procs : q = p \/ proc'[q] = proc[q])
      /\ proc'[p] = [proc[p] EXCEPT !.pc = "anchor", !.tasks = refused]
  BY <1>1 DEF IInv
<1>7. /\ proc'[p].pc = "anchor" /\ proc'[p].req = proc[p].req /\ proc'[p].dir = d
      /\ proc'[p].claim = proc[p].claim /\ proc'[p].tasks = refused
      /\ proc'[p].task = proc[p].task
  BY <1>3, <1>6 DEF Holding, Memory
<1>8. /\ Entitled(p) /\ proc[p].task = 0 /\ disk[d].status = "running"
      /\ execLock[d] = p
  BY <1>1, <1>3 DEF XInv, Entitled, IsNew, HasLock, AtWork
<1>9. Mirrors(proc[p])'
  BY <1>2, <1>5, <1>7, <1>8 DEF Mirrors, AtWork
<1>10. Entitled(p)'
  BY <1>1, <1>3, <1>5, <1>7, <1>8, <1>9, StaysEntitled DEF Engaged
<1>11. Kept(d)' /\ ~Suspended(d)'
  BY <1>1, <1>5, <1>8 DEF Kept, Suspended, EarnedBy
<1> QED BY <1>1, <1>3, <1>4, <1>5, <1>6, <1>7, <1>10, <1>11, OwnWrite DEF Engaged

LEMMA PersistSuspendedXKeeps ==
    ASSUME IInv, XInv, NEW p \in Procs, PersistSuspended(p)
    PROVE  XInv'
<1>1. /\ UNCHANGED <<active, envelope, dispatched>>
      /\ proc[p].pc = "suspend" /\ Ends(p)
      /\ disk' = [disk EXCEPT ![proc[p].dir].status = "suspended"]
  BY DEF PersistSuspended, At, authority
<1>2. PICK d \in Dirs : /\ d = proc[p].dir /\ Holding(proc[p], d) /\ BoundTo(d)
                        /\ disk[d] \in Files /\ Loadable(disk[d])
  BY <1>1, TakenIsHeld DEF Taken
<1>3. disk'[d] = [disk[d] EXCEPT !.status = "suspended"] /\ disk' = [disk EXCEPT ![d] = disk'[d]]
  BY <1>1, <1>2 DEF IInv, TypeOK
<1>4. /\ disk'[d] # None /\ disk'[d].req = disk[d].req
      /\ disk'[d].status = "suspended" /\ disk'[d].results = disk[d].results
  BY <1>2, <1>3, PersistSuspendedKeeps DEF Files, Moves, Lasting, BoundTo
<1>5. \A e \in Dirs : execLock'[e] = execLock[e] \/ (execLock[e] = p /\ execLock'[e] = None)
  BY <1>1 DEF Ends, Unlocked, IInv, TypeOK
<1>6. proc'[p] = Idle /\ DOMAIN proc' = Procs /\ \A q \in Procs : q = p \/ proc'[q] = proc[q]
  BY <1>1, EndsKeeps
<1>7. proc'[p].pc \notin Engaged /\ proc'[p].pc # "resume"
  BY <1>6 DEF Idle, Engaged, AtWork
<1>8. Entitled(p)'
  BY <1>6, <1>7 DEF Entitled, Idle, HasLock, IsNew, Engaged, AtWork, Asking
<1>9. Untouched(d)
  BY <1>1, <1>2 DEF XInv, Entitled, IsNew
<1>10. Kept(d)'
  BY <1>1, <1>4, <1>9 DEF Kept, Untouched, EarnedBy
<1> QED BY <1>1, <1>2, <1>3, <1>4, <1>5, <1>6, <1>7, <1>8, <1>10, OwnWrite DEF Engaged

(* A state written by a process at work shows no other results.            *)
LEMMA PersistShows ==
    ASSUME IInv, NEW p \in Procs, NEW d \in Dirs, d = proc[p].dir, disk[d] \in Files,
           NEW s, Workable(s), Persist(p, s)
    PROVE  /\ disk' = [disk EXCEPT ![d] = disk'[d]]
           /\ disk'[d] # None /\ disk'[d].req = disk[d].req
           /\ disk'[d].status = "running" /\ disk'[d].results = disk[d].results
<1>1. disk' = [disk EXCEPT ![d].status = "running", ![d].tasks = s, ![d].anchor = None]
  BY DEF Persist
<1>2. disk'[d] = [disk[d] EXCEPT !.status = "running", !.tasks = s, !.anchor = None]
  BY <1>1 DEF IInv, TypeOK
<1>3. disk' = [disk EXCEPT ![d] = disk'[d]] /\ disk'[d] \in Files
  BY PersistWrites
<1> QED BY <1>2, <1>3, ConfigAssumption DEF Files

(* A running execution that nobody left cannot show a wrong verdict.       *)
LEMMA RunningIsKept ==
    ASSUME NEW d \in Dirs, disk'[d] # None, disk'[d].status = "running"
    PROVE  Kept(d)' /\ ~Suspended(d)'
BY DEF Kept, Suspended, EarnedBy

LEMMA StartTaskXKeeps ==
    ASSUME IInv, XInv, NEW p \in Procs, StartTask(p)
    PROVE  XInv'
<1>1. PICK d \in Dirs : /\ d = proc[p].dir /\ Holding(proc[p], d) /\ BoundTo(d)
                        /\ disk[d] \in Files /\ Loadable(disk[d])
  BY TakenIsHeld DEF Taken, StartTask, At
<1>2. PICK t : t = NextReady(proc[p].tasks)
  OBVIOUS
<1>3. PICK s : s = MarkRunning(proc[p].tasks, t)
  OBVIOUS
<1>4. /\ proc[p].pc = "loop" /\ ReadyTasks(proc[p].tasks) # {}
      /\ proc' = [proc EXCEPT ![p].pc = "work", ![p].tasks = s, ![p].task = t]
      /\ dispatched' = [dispatched EXCEPT ![d][t] = @ + 1]
      /\ Persist(p, s)
      /\ UNCHANGED <<execLock, active, envelope>>
  BY <1>1, <1>2, <1>3 DEF StartTask, At, Persist, authority
<1>5. t \in Tasks /\ proc[p].tasks[t] = "ready" /\ proc[p].tasks \in [Tasks -> TaskStatus]
  BY <1>1, <1>2, <1>4, NextReadyIsReady DEF Holding, Workable, ValidTasks
<1>6. Workable(s) /\ \A u \in Tasks : u # t => s[u] = proc[p].tasks[u]
  BY <1>1, <1>3, <1>4, <1>5, MarkRunningKeeps DEF Holding, AtWork, MarkRunning
<1>7. /\ disk' = [disk EXCEPT ![d] = disk'[d]]
      /\ disk'[d] # None /\ disk'[d].req = disk[d].req
      /\ disk'[d].status = "running" /\ disk'[d].results = disk[d].results
  BY <1>1, <1>4, <1>6, PersistShows
<1>8. /\ \A e \in Dirs : e # d => dispatched'[e] = dispatched[e]
      /\ \A u \in Tasks : u # t => dispatched'[d][u] = dispatched[d][u]
      /\ dispatched'[d][t] = dispatched[d][t] + 1 /\ dispatched[d][t] \in Nat
  BY <1>4, <1>5 DEF IInv, TypeOK
<1>9. DOMAIN proc' = Procs /\ (\A q \in Procs : q = p \/ proc'[q] = proc[q])
      /\ proc'[p] = [proc[p] EXCEPT !.pc = "work", !.tasks = s, !.task = t]
  BY <1>4 DEF IInv
<1>10. /\ proc'[p].pc = "work" /\ proc'[p].req = proc[p].req /\ proc'[p].dir = d
       /\ proc'[p].claim = proc[p].claim /\ proc'[p].tasks = s /\ proc'[p].task = t
  BY <1>1, <1>9 DEF Holding, Memory
<1>11. Entitled(p) /\ Mirrors(proc[p]) /\ proc[p].task = 0 /\ execLock[d] = p
  BY <1>1, <1>4 DEF XInv, Entitled, HasLock, AtWork, Mirrors
<1>12. \A u \in Tasks : Mirrored(proc[p], u)
  BY <1>4, <1>11 DEF Mirrors, Tasks
<1>13. disk[d].results[t] = "none"
  BY <1>1, <1>5, <1>12 DEF Mirrored, Settled
<1>14. \A u \in Tasks : u # t => Mirrored(proc[p], u)'
  BY SMTT(30), <1>1, <1>6, <1>7, <1>8, <1>10, <1>12 DEF Mirrored
<1>15. Mirrors(proc[p])'
  BY <1>7, <1>8, <1>10, <1>13, <1>14 DEF Mirrors, AtWork
<1>16. Entitled(p)'
  BY <1>1, <1>4, <1>7, <1>10, <1>11, <1>15, StaysEntitled DEF Engaged, AtWork
<1>17. Kept(d)' /\ ~Suspended(d)' /\ proc[p].pc \in Engaged \ {"scan", "check", "create"}
  BY <1>4, <1>7, RunningIsKept DEF Engaged
<1>18. \A e \in Dirs : dispatched'[e] = dispatched[e] \/ (proc[p].pc = "loop" /\ e = d)
  BY <1>4, <1>8
<1> QED BY <1>1, <1>4, <1>7, <1>9, <1>10, <1>16, <1>17, <1>18, OwnWrite, SMTT(60)

LEMMA FinishTaskXKeeps ==
    ASSUME IInv, XInv, NEW p \in Procs, FinishTask(p)
    PROVE  XInv'
<1>1. PICK d \in Dirs : /\ d = proc[p].dir /\ Holding(proc[p], d) /\ BoundTo(d)
                        /\ disk[d] \in Files /\ Loadable(disk[d])
  BY TakenIsHeld DEF Taken, AtWork, FinishTask, At
<1>2. PICK t \in Tasks : t = proc[p].task
  BY <1>1 DEF FinishTask, At, Holding, AtWork
<1>3. PICK out \in {"completed", "failed"} :
        /\ disk' = [disk EXCEPT ![d].results[t] = out]
        /\ proc' = [proc EXCEPT ![p].pc = out]
  BY <1>1, <1>2 DEF FinishTask, WithResult, Go
<1>4. UNCHANGED <<execLock, active, envelope, dispatched>> /\ proc[p].pc = "work"
  BY DEF FinishTask, At, authority
<1>5. /\ disk' = [disk EXCEPT ![d] = disk'[d]]
      /\ disk'[d] = [disk[d] EXCEPT !.results[t] = out]
  BY <1>1, <1>3 DEF IInv, TypeOK
<1>6. Entitled(p) /\ Mirrors(proc[p]) /\ execLock[d] = p /\ disk[d].status = "running"
  BY <1>1, <1>4 DEF XInv, Entitled, HasLock, AtWork, Mirrors
<1>7. /\ disk'[d].req = disk[d].req /\ disk'[d].status = "running"
      /\ disk'[d].results = [disk[d].results EXCEPT ![t] = out]
  BY <1>1, <1>5, <1>6 DEF Files
<1>8. disk'[d] # None
  BY <1>1, FinishTaskKeeps DEF Moves, Lasting, BoundTo
<1>9. DOMAIN proc' = Procs /\ (\A q \in Procs : q = p \/ proc'[q] = proc[q])
      /\ proc'[p] = [proc[p] EXCEPT !.pc = out]
  BY <1>3 DEF IInv
<1>10. /\ proc'[p].pc = out /\ proc'[p].req = proc[p].req /\ proc'[p].dir = d
       /\ proc'[p].claim = proc[p].claim /\ proc'[p].tasks = proc[p].tasks
       /\ proc'[p].task = t
  BY <1>1, <1>2, <1>9 DEF Holding, Memory
<1>11. disk[d].results \in Results
  BY <1>1 DEF Files
<1>12. /\ disk'[d].results[t] = out
       /\ \A u \in Tasks : u # t => disk'[d].results[u] = disk[d].results[u]
  BY <1>7, <1>11 DEF Results
<1>13. \A u \in Tasks : u # t => Mirrored(proc[p], u)'
  BY <1>1, <1>2, <1>4, <1>6, <1>10, <1>12 DEF Mirrors, Mirrored
<1>14. Mirrors(proc[p])'
  BY <1>1, <1>2, <1>4, <1>6, <1>7, <1>10, <1>12, <1>13 DEF Mirrors, AtWork
<1>15. Entitled(p)'
  BY <1>1, <1>4, <1>6, <1>7, <1>8, <1>10, <1>14, StaysEntitled DEF Engaged, AtWork
<1> QED BY <1>1, <1>4, <1>5, <1>7, <1>8, <1>9, <1>10, <1>15, RunningIsKept, OwnWrite
        DEF Engaged, AtWork

LEMMA ContradictXKeeps ==
    ASSUME IInv, XInv, NEW p \in Procs, Contradict(p)
    PROVE  XInv'
<1>1. PICK d \in Dirs : /\ d = proc[p].dir /\ Holding(proc[p], d) /\ BoundTo(d)
                        /\ disk[d] \in Files /\ Loadable(disk[d])
  BY TakenIsHeld DEF Taken, AtWork, Contradict, At
<1>2. PICK t \in Tasks : t = proc[p].task
  BY <1>1 DEF Contradict, At, Holding, AtWork
<1>3. /\ disk' = [disk EXCEPT ![d].results[t] = "failed"] /\ Ends(p)
      /\ UNCHANGED <<active, envelope, dispatched>> /\ proc[p].pc = "completed"
  BY <1>1, <1>2 DEF Contradict, WithResult, At, authority
<1>4. /\ disk' = [disk EXCEPT ![d] = disk'[d]]
      /\ disk'[d] = [disk[d] EXCEPT !.results[t] = "failed"]
  BY <1>1, <1>3 DEF IInv, TypeOK
<1>5. disk[d].status = "running"
  BY <1>1, <1>3 DEF XInv, Entitled, AtWork, Mirrors
<1>6. disk'[d].req = disk[d].req /\ disk'[d].status = "running"
  BY <1>1, <1>4, <1>5 DEF Files
<1>7. disk'[d] # None
  BY <1>1, ContradictKeeps DEF Moves, Lasting, BoundTo
<1>8. \A e \in Dirs : execLock'[e] = execLock[e] \/ (execLock[e] = p /\ execLock'[e] = None)
  BY <1>3 DEF Ends, Unlocked, IInv, TypeOK
<1>9. proc'[p] = Idle /\ DOMAIN proc' = Procs /\ \A q \in Procs : q = p \/ proc'[q] = proc[q]
  BY <1>3, EndsKeeps
<1>10. proc'[p].pc \notin Engaged /\ proc'[p].pc # "resume"
  BY <1>9 DEF Idle, Engaged, AtWork
<1>11. Entitled(p)'
  BY <1>9, <1>10 DEF Entitled, Idle, HasLock, IsNew, Engaged, AtWork, Asking
<1>12. Kept(d)'
  BY <1>6, <1>7 DEF Kept, Suspended, EarnedBy
<1> QED BY <1>1, <1>3, <1>4, <1>6, <1>8, <1>9, <1>10, <1>11, <1>12, OwnWrite DEF Engaged, AtWork

(* Recording the end of a task settles no other.                           *)
LEMMA RecordSettlesOne ==
    ASSUME NEW s, Workable(s), NEW t \in Tasks, s[t] = "running", NEW r,
           r \in {MarkCompleted(s, t), MarkFailed(s, t)}
    PROVE  /\ r[t] = IF r = MarkCompleted(s, t) THEN "completed" ELSE "failed"
           /\ \A u \in Tasks : u # t =>
                 r[u] = s[u] \/ (r[u] \notin Settled /\ s[u] \notin Settled)
<1>1. s \in [Tasks -> TaskStatus]
  BY DEF Workable, ValidTasks
<1>2. CASE r = MarkCompleted(s, t)
  <2> DEFINE done == [s EXCEPT ![t] = "completed"]
  <2>1. r = [u \in Tasks |-> IF done[u] = "pending" /\ DependenciesDone(done, u)
                             THEN "ready" ELSE done[u]]
    BY <1>2, Zenon DEF MarkCompleted
  <2>2. done[t] = "completed" /\ \A u \in Tasks : u # t => done[u] = s[u]
    BY <1>1
  <2> HIDE DEF done
  <2> QED BY <1>2, <2>1, <2>2 DEF Settled
<1>3. CASE r = MarkFailed(s, t) /\ r # MarkCompleted(s, t)
  BY <1>3 DEF MarkFailed, Settled
<1> QED BY <1>2, <1>3

LEMMA RecordTaskXKeeps ==
    ASSUME IInv, XInv, NEW p \in Procs, RecordTask(p)
    PROVE  XInv'
<1>1. PICK d \in Dirs : /\ d = proc[p].dir /\ Holding(proc[p], d) /\ BoundTo(d)
                        /\ disk[d] \in Files /\ Loadable(disk[d])
  BY TakenIsHeld DEF Taken, AtWork, RecordTask
<1>2. PICK t \in Tasks : t = proc[p].task /\ Workable(proc[p].tasks)
                         /\ proc[p].tasks[t] = "running"
  BY <1>1 DEF RecordTask, Holding, AtWork
<1>3. PICK s : /\ s = IF proc[p].pc = "completed" THEN MarkCompleted(proc[p].tasks, t)
                      ELSE MarkFailed(proc[p].tasks, t)
               /\ proc' = [proc EXCEPT ![p].pc = "loop", ![p].tasks = s, ![p].task = 0]
               /\ Persist(p, s)
  BY <1>2 DEF RecordTask, At
<1>4. UNCHANGED <<execLock, active, envelope, dispatched>> /\ proc[p].pc \in {"completed", "failed"}
  BY <1>3 DEF Persist, RecordTask, authority
<1>5. Workable(s) /\ s[t] = proc[p].pc
      /\ \A u \in Tasks : u # t =>
             s[u] = proc[p].tasks[u] \/ (s[u] \notin Settled /\ proc[p].tasks[u] \notin Settled)
  <2>1. CASE proc[p].pc = "completed"
    BY <1>2, <1>3, <2>1, MarkCompletedKeeps, RecordSettlesOne
  <2>2. CASE proc[p].pc = "failed"
    <3>1. s = MarkFailed(proc[p].tasks, t) /\ s[t] = "failed"
      BY <1>2, <1>3, <2>2 DEF MarkFailed
    <3> QED BY <1>2, <2>2, <3>1, MarkFailedKeeps, RecordSettlesOne
  <2> QED BY <1>4, <2>1, <2>2
<1>6. /\ disk' = [disk EXCEPT ![d] = disk'[d]]
      /\ disk'[d] # None /\ disk'[d].req = disk[d].req
      /\ disk'[d].status = "running" /\ disk'[d].results = disk[d].results
  BY <1>1, <1>3, <1>5, PersistShows
<1>7. DOMAIN proc' = Procs /\ (\A q \in Procs : q = p \/ proc'[q] = proc[q])
      /\ proc'[p] = [proc[p] EXCEPT !.pc = "loop", !.tasks = s, !.task = 0]
  BY <1>3 DEF IInv
<1>8. /\ proc'[p].pc = "loop" /\ proc'[p].req = proc[p].req /\ proc'[p].dir = d
      /\ proc'[p].claim = proc[p].claim /\ proc'[p].tasks = s /\ proc'[p].task = 0
  BY <1>1, <1>7 DEF Holding, Memory
<1>9. Entitled(p) /\ Mirrors(proc[p]) /\ execLock[d] = p
  BY <1>1, <1>4 DEF XInv, Entitled, HasLock, AtWork
<1>10. /\ dispatched[d][t] > 0 /\ disk[d].results[t] = proc[p].pc
       /\ \A u \in Tasks : u # t => Mirrored(proc[p], u)
  BY <1>1, <1>2, <1>4, <1>9 DEF Mirrors, AtWork
<1>11. Mirrored(proc[p], t)'
  BY <1>4, <1>5, <1>6, <1>8, <1>10 DEF Mirrored, Settled
<1>12. \A u \in Tasks : u # t => Mirrored(proc[p], u)'
  BY <1>1, <1>4, <1>5, <1>6, <1>8, <1>10 DEF Mirrored
<1>13. Mirrors(proc[p])'
  BY <1>6, <1>8, <1>11, <1>12 DEF Mirrors, AtWork
<1>14. Entitled(p)'
  BY <1>1, <1>4, <1>6, <1>8, <1>9, <1>13, StaysEntitled DEF Engaged, AtWork
<1> QED BY <1>1, <1>4, <1>6, <1>7, <1>8, <1>14, RunningIsKept, OwnWrite DEF Engaged, AtWork

LEMMA SettleXKeeps ==
    ASSUME IInv, XInv, NEW p \in Procs, Settle(p)
    PROVE  XInv'
<1>1. PICK d \in Dirs : /\ d = proc[p].dir /\ Holding(proc[p], d) /\ BoundTo(d)
                        /\ disk[d] \in Files /\ Loadable(disk[d])
  BY TakenIsHeld DEF Taken, Settle, At
<1>2. PICK res : res = [t \in Tasks |->
                          IF disk[d].results[t] = "none" /\ proc[p].tasks[t] = "blocked"
                          THEN "blocked" ELSE disk[d].results[t]]
  OBVIOUS
<1>3. /\ disk' = [disk EXCEPT ![d].results = res]
      /\ proc[p].pc = "loop" /\ proc' = [proc EXCEPT ![p].pc = "anchor"]
      /\ UNCHANGED <<execLock, active, envelope, dispatched>>
  BY <1>1, <1>2 DEF Settle, At, Go, IInv, TypeOK, authority
<1>4. /\ disk' = [disk EXCEPT ![d] = disk'[d]]
      /\ disk'[d] = [disk[d] EXCEPT !.results = res]
  BY <1>1, <1>3 DEF IInv, TypeOK
<1>5. Entitled(p) /\ Mirrors(proc[p]) /\ execLock[d] = p /\ disk[d].status = "running"
      /\ proc[p].task = 0
  BY <1>1, <1>3 DEF XInv, Entitled, HasLock, AtWork, Mirrors
<1>6. /\ disk'[d].req = disk[d].req /\ disk'[d].status = "running" /\ disk'[d].results = res
  BY <1>1, <1>4, <1>5 DEF Files
<1>7. disk'[d] # None
  BY <1>1, SettleKeeps DEF Moves, Lasting, BoundTo
<1>8. DOMAIN proc' = Procs /\ (\A q \in Procs : q = p \/ proc'[q] = proc[q])
      /\ proc'[p] = [proc[p] EXCEPT !.pc = "anchor"]
  BY <1>3 DEF IInv
<1>9. /\ proc'[p].pc = "anchor" /\ proc'[p].req = proc[p].req /\ proc'[p].dir = d
      /\ proc'[p].claim = proc[p].claim /\ proc'[p].tasks = proc[p].tasks
      /\ proc'[p].task = 0
  BY <1>1, <1>5, <1>8 DEF Holding, Memory
<1>10. \A t \in Tasks : Mirrored(proc[p], t)
  BY <1>3, <1>5 DEF Mirrors, Tasks
<1>11. \A t \in Tasks :
         res[t] = IF proc[p].tasks[t] \in Settled \cup {"blocked"} THEN proc[p].tasks[t] ELSE "none"
  BY <1>1, <1>2, <1>10 DEF Mirrored, Settled
<1>12. Mirrors(proc[p])'
  BY <1>6, <1>9, <1>11 DEF Mirrors, AtWork
<1>13. Entitled(p)'
  BY <1>1, <1>3, <1>5, <1>6, <1>7, <1>9, <1>12, StaysEntitled DEF Engaged
<1> QED BY <1>1, <1>3, <1>4, <1>6, <1>7, <1>8, <1>9, <1>13, RunningIsKept, OwnWrite DEF Engaged

LEMMA RelockXKeeps ==
    ASSUME IInv, XInv, NEW p \in Procs, Relock(p)
    PROVE  XInv'
<1>1. CASE Leaves(p)
  BY <1>1, LeavesQuietly
<1>2. CASE ~Leaves(p)
  <2>1. PICK d \in Dirs : /\ d = proc[p].dir /\ Holding(proc[p], d) /\ BoundTo(d)
                          /\ disk[d] \in Files /\ Loadable(disk[d])
    BY TakenIsHeld DEF Taken, Relock, At
  <2>2. /\ proc[p].pc = "relock" /\ execLock' = [execLock EXCEPT ![d] = p] /\ execLock[d] = None
        /\ disk' = [disk EXCEPT ![d] = [disk[d] EXCEPT !.status = "running", !.anchor = None,
                                                       !.tasks = InitialTasks]]
        /\ proc' = [proc EXCEPT ![p].pc = "loop"]
        /\ UNCHANGED <<active, envelope, dispatched>>
    BY <1>2, <2>1 DEF Relock, At, Go, IInv, TypeOK, authority
  <2>3. /\ execLock'[d] = p /\ \A e \in Dirs : e # d => execLock'[e] = execLock[e]
    BY <2>2 DEF IInv, TypeOK
  <2>4. /\ disk' = [disk EXCEPT ![d] = disk'[d]]
        /\ disk'[d] = [disk[d] EXCEPT !.status = "running", !.anchor = None, !.tasks = InitialTasks]
    BY <2>1, <2>2 DEF IInv, TypeOK
  <2>5. disk[d] # None /\ disk'[d] # None
    BY <2>1, RelockKeeps DEF Moves, Lasting, BoundTo
  <2>6. /\ disk'[d].req = disk[d].req /\ disk'[d].status = "running"
        /\ disk'[d].results = disk[d].results
    BY <2>1, <2>4 DEF Files
  <2>7. DOMAIN proc' = Procs /\ (\A q \in Procs : q = p \/ proc'[q] = proc[q])
        /\ proc'[p] = [proc[p] EXCEPT !.pc = "loop"]
    BY <2>2 DEF IInv
  <2>8. /\ proc'[p].pc = "loop" /\ proc'[p].req = proc[p].req /\ proc'[p].dir = d
        /\ proc'[p].claim = proc[p].claim /\ proc'[p].tasks = proc[p].tasks
        /\ proc'[p].task = proc[p].task
    BY <2>1, <2>7 DEF Holding, Memory
  <2>9. Entitled(p) /\ Suspended(d) /\ proc[p].tasks = InitialTasks /\ proc[p].task = 0
    BY <2>1, <2>2 DEF XInv, Entitled, AtWork
  <2>10. Untouched(d)
    BY <2>9 DEF XInv, Kept
  <2>11. \A t \in Tasks : InitialTasks[t] \notin Settled
    BY DEF InitialTasks, Settled
  <2>12. Mirrors(proc[p])'
    BY <2>2, <2>6, <2>8, <2>9, <2>10, <2>11
       DEF Mirrors, Mirrored, Untouched, NoResults, AtWork
  <2>13. proc[p].pc \in Engaged \ {"scan", "check", "create"}
    BY <2>2 DEF Engaged
  <2>14. Entitled(p)'
    BY <2>1, <2>2, <2>3, <2>5, <2>6, <2>8, <2>9, <2>12, <2>13, StaysEntitled
  <2>15. Kept(d)' /\ ~Suspended(d)'
    BY <2>5, <2>6, RunningIsKept
  <2>16. \A e \in Dirs : \/ execLock'[e] = execLock[e]
                         \/ execLock[e] = None /\ disk[e] # None
    BY <2>2, <2>3, <2>5
  <2> QED BY <2>1, <2>2, <2>4, <2>6, <2>7, <2>8, <2>14, <2>15, <2>13, <2>16, OwnWrite
<1> QED BY <1>1, <1>2

(* The verdict of a map a process may have in memory is borne out by it.   *)
LEMMA VerdictFits ==
    ASSUME NEW s, Workable(s), Releasable(s)
    PROVE  /\ EarnedBy(TerminalStatus(s), s)
           /\ \A t \in Tasks : s[t] \in Settled \cup {"blocked"}
<1>1. \A t \in Tasks : s[t] \in Settled \cup {"blocked"}
  BY DEF Releasable, TerminalStatus, Workable, ValidTasks, TaskStatus, Unfinished, Settled
<1>2. \A t \in Tasks : s[t] = "blocked" => \E u \in DependsOn[t] : s[u] # "completed"
  BY DEF Workable, ValidTasks, BlockedHasCause
<1>3. \A t \in Tasks : s[t] # "blocked" => \A u \in DependsOn[t] : s[u] = "completed"
  BY <1>1 DEF Workable, ValidTasks, DependenciesRespected, DependenciesDone, Settled
<1>4. TerminalStatus(s) = "completed" => \A t \in Tasks : s[t] = "completed"
  BY <1>1 DEF TerminalStatus, Unfinished, Settled
<1>5. TerminalStatus(s) = "failed" => \E t \in Tasks : s[t] = "failed"
  BY DEF TerminalStatus
<1> QED BY <1>1, <1>2, <1>3, <1>4, <1>5 DEF EarnedBy, Settled

LEMMA PublishXKeeps ==
    ASSUME IInv, XInv, NEW p \in Procs, Publish(p)
    PROVE  XInv'
<1>1. CASE Leaves(p)
  BY <1>1, LeavesQuietly
<1>2. CASE ~Leaves(p)
  <2>1. PICK d \in Dirs : /\ d = proc[p].dir /\ Holding(proc[p], d) /\ BoundTo(d)
                          /\ disk[d] \in Files /\ Loadable(disk[d])
    BY TakenIsHeld DEF Taken, Publish, At
  <2>2. PICK m : m = Manifest(proc[p].claim, proc[p].tasks, disk[d].results)
    OBVIOUS
  <2>3. /\ proc[p].pc = "anchor" /\ Releasable(proc[p].tasks)
        /\ disk' = [disk EXCEPT ![d] = [disk[d] EXCEPT !.status = m.verdict,
                                          !.tasks = proc[p].tasks, !.file = m, !.anchor = m]]
        /\ proc' = [proc EXCEPT ![p].pc = "release"]
        /\ UNCHANGED <<execLock, active, envelope, dispatched>>
    BY <1>2, <2>1, <2>2 DEF Publish, At, Go, IInv, TypeOK, authority
  <2>4. /\ disk' = [disk EXCEPT ![d] = disk'[d]]
        /\ disk'[d] = [disk[d] EXCEPT !.status = m.verdict, !.tasks = proc[p].tasks,
                                      !.file = m, !.anchor = m]
    BY <2>1, <2>3 DEF IInv, TypeOK
  <2>5. m.verdict = TerminalStatus(proc[p].tasks) /\ m.verdict \in {"completed", "failed"}
    BY <2>2, <2>3 DEF Manifest, Releasable
  <2>6. disk[d] # None /\ disk'[d] # None
    BY <2>1, PublishKeeps DEF Moves, Lasting, BoundTo
  <2>7. /\ disk'[d].req = disk[d].req /\ disk'[d].results = disk[d].results
        /\ disk'[d].status = TerminalStatus(proc[p].tasks)
    BY <2>1, <2>4, <2>5 DEF Files
  <2>8. DOMAIN proc' = Procs /\ (\A q \in Procs : q = p \/ proc'[q] = proc[q])
        /\ proc'[p] = [proc[p] EXCEPT !.pc = "release"]
    BY <2>3 DEF IInv
  <2>9. /\ proc'[p].pc = "release" /\ proc'[p].req = proc[p].req /\ proc'[p].dir = d
        /\ proc'[p].claim = proc[p].claim
    BY <2>1, <2>8 DEF Holding, Memory
  <2>10. /\ Entitled(p) /\ Mirrors(proc[p]) /\ execLock[d] = p /\ proc[p].req \in Requests
         /\ disk[d].req = proc[p].req
         /\ active[proc[p].req.scope] = [id |-> proc[p].claim, dir |-> d]
    BY <2>1, <2>3 DEF XInv, Entitled, HasLock, AtWork, Engaged
  <2>11. disk[d].results = proc[p].tasks
    <3>1. /\ disk[d].results \in [Tasks -> {"none", "completed", "failed", "blocked"}]
          /\ proc[p].tasks \in [Tasks -> TaskStatus]
      BY <2>1 DEF Files, Results, Holding, Memory
    <3>2. \A t \in Tasks : disk[d].results[t] = proc[p].tasks[t]
      BY <2>1, <2>3, <2>10, VerdictFits DEF Mirrors, Holding
    <3> QED BY <3>1, <3>2
  <2>12. Entitled(p)'
    <3>1. proc[p].pc \in Engaged \ {"scan", "check", "create"}
      BY <2>3 DEF Engaged
    <3> QED BY <2>1, <2>3, <2>6, <2>7, <2>9, <2>10, <3>1, StaysEntitled
  <2>13. Kept(d)' /\ ~Suspended(d)'
    <3>1. EarnedBy(disk'[d].status, disk'[d].results)
      BY <2>1, <2>3, <2>7, <2>11, VerdictFits DEF Holding
    <3> QED BY <2>5, <2>6, <2>7, <3>1 DEF Kept, Suspended
  <2> QED BY <2>1, <2>3, <2>4, <2>6, <2>7, <2>8, <2>9, <2>12, <2>13, OwnWrite DEF Engaged
<1> QED BY <1>1, <1>2

LEMMA UnlinkXKeeps ==
    ASSUME IInv, XInv, NEW p \in Procs, Unlink(p)
    PROVE  XInv'
<1>1. /\ proc[p].pc = "unlink" /\ GoodMemory(proc[p]) /\ Entitled(p)
      /\ active' = [active EXCEPT ![proc[p].req.scope] = None]
      /\ UNCHANGED <<disk, execLock, envelope, dispatched>>
      /\ DOMAIN proc' = Procs /\ (\A q \in Procs : q = p \/ proc'[q] = proc[q])
      /\ proc'[p] = [proc[p] EXCEPT !.pc = "answer"]
  BY DEF Unlink, Go, At, IInv, XInv, store
<1>2. PICK s \in Scopes : s = proc[p].req.scope /\ Among(p, s)
  BY <1>1 DEF Entitled, Engaged, Among, Scopes
<1>3. proc'[p].pc = "answer"
  BY <1>1 DEF GoodMemory, Memory
<1>4. \A u \in Scopes : u # s => active'[u] = active[u]
  BY <1>1, <1>2 DEF IInv, TypeOK
<1>5. \A q \in Procs : q = p \/ ~Among(q, s)
  BY <1>2 DEF XInv, Alone
<1>6. Footprint(p)
  BY <1>1, <1>4, <1>5 DEF Footprint
<1>7. Entitled(p)' /\ proc'[p].pc \notin Engaged
  BY <1>3 DEF Entitled, HasLock, IsNew, Engaged, AtWork, Asking
<1>8. \A d \in Dirs : Kept(d)'
  BY <1>1, KeptStays
<1>9. ASSUME NEW d \in Dirs, Suspended(d)', Referred(d)'
      PROVE  /\ active'[disk'[d].req.scope] # None /\ active'[disk'[d].req.scope].dir = d
             /\ \A q \in Procs :
                   ~(proc'[q].pc \in Engaged /\ proc'[q].req.scope = disk'[d].req.scope)
  <2>1. Suspended(d) /\ Referred(d)
    BY <1>1, <1>3, <1>9 DEF Suspended, Referred, At
  <2>2. /\ active[disk[d].req.scope] # None /\ active[disk[d].req.scope].dir = d
        /\ \A q \in Procs : ~Among(q, disk[d].req.scope)
    BY <2>1 DEF XInv, Reserved
  <2>3. disk[d].req.scope \in Scopes /\ disk[d].req.scope # s
    BY <1>2, <2>1, <2>2, FilesHaveScope DEF Suspended
  <2>4. disk'[d] = disk[d] /\ active'[disk[d].req.scope] = active[disk[d].req.scope]
    BY <1>1, <1>4, <2>3
  <2>5. ASSUME NEW q \in Procs
        PROVE  ~(proc'[q].pc \in Engaged /\ proc'[q].req.scope = disk[d].req.scope)
    BY <1>1, <1>7, <2>2 DEF Among
  <2> QED BY <2>2, <2>4, <2>5
<1>10. \A d \in Dirs : Reserved(d)'
  BY <1>9 DEF Reserved, Among
<1>11. Filed'
  BY <1>1 DEF XInv, Filed
<1> QED BY <1>6, <1>7, <1>8, <1>10, <1>11, StepKeeps

LEMMA SuspendXKeeps ==
    ASSUME IInv, XInv, NEW p \in Procs, Suspend(p)
    PROVE  XInv'
<1>1. PICK d \in Dirs : /\ d = proc[p].dir /\ Holding(proc[p], d) /\ BoundTo(d)
                        /\ disk[d] \in Files /\ Loadable(disk[d])
  BY TakenIsHeld DEF Taken, Suspend, At
<1>2. /\ proc[p].pc = "analyse" /\ envelope' = [envelope EXCEPT ![d.exec] = d]
      /\ UNCHANGED <<disk, execLock, active, dispatched>>
      /\ DOMAIN proc' = Procs /\ (\A q \in Procs : q = p \/ proc'[q] = proc[q])
      /\ proc'[p] = [proc[p] EXCEPT !.pc = "suspend"]
  BY <1>1 DEF Suspend, At, Go, store, authority, IInv
<1>3. /\ proc'[p].pc = "suspend" /\ proc'[p].req = proc[p].req /\ proc'[p].dir = d
      /\ proc'[p].claim = proc[p].claim /\ proc'[p].tasks = proc[p].tasks
      /\ proc'[p].task = proc[p].task
  BY <1>1, <1>2 DEF Holding, Memory
<1>4. Entitled(p) /\ disk[d].status = "running"
  BY <1>1, <1>2 DEF XInv, Entitled, IsNew
<1>5. Entitled(p)'
  BY <1>1, <1>2, <1>3, <1>4 DEF Entitled, HasLock, IsNew, Untouched, Engaged, AtWork, Asking
<1>6. Footprint(p) /\ proc'[p].pc \in Engaged /\ Among(p, proc'[p].req.scope)
  BY <1>2, <1>3 DEF Footprint, Engaged, Among
<1>7. \A e \in Execs : envelope'[e] = IF e = d.exec THEN d ELSE envelope[e]
  BY <1>2 DEF IInv, TypeOK
<1>8. \A e \in Dirs : e.exec \in Execs
  BY DEF Dirs, DirOf, Execs
<1>9. ASSUME NEW e \in Dirs PROVE Reserved(e)'
  <2>1. CASE e = d
    BY <1>2, <1>4, <2>1 DEF Reserved, Suspended
  <2>2. CASE e # d
    <3>1. envelope'[e.exec] = e => envelope[e.exec] = e
      BY <1>7, <1>8, <2>2
    <3>2. ASSUME NEW q \in Procs, proc'[q].pc = "resume", proc'[q].dir = e
          PROVE  proc[q].pc = "resume" /\ proc[q].dir = e
      BY <1>2, <1>3, <3>2
    <3>3. Referred(e)' => Referred(e)
      BY <3>1, <3>2 DEF Referred, At
    <3> QED BY <1>2, <1>6, <3>3, ReservedStays
  <2> QED BY <2>1, <2>2
<1>10. \A e \in Dirs : Kept(e)'
  BY <1>2, KeptStays
<1>11. Filed'
  BY <1>7 DEF XInv, Filed
<1> QED BY <1>5, <1>6, <1>9, <1>10, <1>11, StepKeeps

LEMMA BindXKeeps ==
    ASSUME IInv, XInv, NEW p \in Procs, Bind(p)
    PROVE  XInv'
<1>1. CASE Leaves(p)
  BY <1>1, LeavesQuietly
<1>2. CASE ~Leaves(p) /\ ~proc[p].new
  <2>1. Ends(p) /\ UNCHANGED <<disk, active, dispatched, envelope>>
    BY <1>2 DEF Bind, authority
  <2> QED BY <2>1, EndsQuietly
<1>3. CASE ~Leaves(p) /\ proc[p].new
  <2>1. /\ UNCHANGED <<disk, active, dispatched, envelope, execLock>>
        /\ DOMAIN proc' = Procs /\ (\A q \in Procs : q = p \/ proc'[q] = proc[q])
        /\ proc[p].pc = "bind" /\ GoodMemory(proc[p]) /\ Entitled(p)
        /\ proc'[p] = [proc[p] EXCEPT !.pc = "analyse"]
    BY <1>3 DEF Bind, Go, At, IInv, XInv, authority
  <2>2. /\ proc'[p].pc = "analyse" /\ proc'[p].req = proc[p].req /\ proc'[p].dir = proc[p].dir
        /\ proc'[p].claim = proc[p].claim /\ proc'[p].tasks = proc[p].tasks
        /\ proc'[p].task = proc[p].task
    BY <2>1 DEF GoodMemory, Memory
  <2>3. Entitled(p)'
    BY <1>3, <2>1, <2>2 DEF Entitled, HasLock, IsNew, Untouched, Engaged, AtWork, Asking
  <2> QED BY <2>1, <2>2, <2>3, GoesOn DEF Engaged
<1> QED BY <1>1, <1>2, <1>3

LEMMA RecoverXKeeps ==
    ASSUME IInv, XInv, NEW s \in Scopes, Recover(s)
    PROVE  XInv'
<1>1. /\ UNCHANGED <<disk, execLock, envelope, proc, dispatched>> /\ active[s] # None
      /\ \A p \in Procs : proc[p].claim # active[s].id
      /\ disk[active[s].dir] # None => disk[active[s].dir].status # "suspended"
      /\ active' = [active EXCEPT ![s] = None]
  BY DEF Recover, store
<1>2. \A u \in Scopes : u # s => active'[u] = active[u]
  BY <1>1 DEF IInv, TypeOK
<1>3. \A p \in Procs : ~Among(p, s)
  BY <1>1, AmongHasClaim
<1>4. ASSUME NEW p \in Procs PROVE Entitled(p)'
  <2>1. Entitled(p)
    BY DEF XInv
  <2>2. proc[p].pc \in Engaged =>
           proc[p].req.scope \in Scopes /\ active'[proc[p].req.scope] = active[proc[p].req.scope]
    BY <1>2, <1>3, <2>1 DEF Entitled, Among, Scopes
  <2>3. Mirrors(proc[p])' <=> Mirrors(proc[p])
    BY <1>1 DEF Mirrors, Mirrored
  <2>4. \A d : (Untouched(d)' <=> Untouched(d)) /\ (Suspended(d)' <=> Suspended(d))
    BY <1>1 DEF Untouched, Suspended
  <2> QED BY SMTT(30), <1>1, <2>1, <2>2, <2>3, <2>4 DEF Entitled
<1>5. ASSUME NEW d \in Dirs PROVE Kept(d)'
  BY <1>1 DEF XInv, Kept, Suspended, Untouched
<1>6. ASSUME NEW d \in Dirs PROVE Reserved(d)'
  <2> SUFFICES ASSUME Suspended(d)', Referred(d)'
               PROVE  /\ active'[disk'[d].req.scope] # None
                      /\ active'[disk'[d].req.scope].dir = d
                      /\ \A q \in Procs :
                           ~(proc'[q].pc \in Engaged /\ proc'[q].req.scope = disk'[d].req.scope)
    BY DEF Reserved, Among
  <2>1. Suspended(d) /\ Referred(d)
    BY <1>1 DEF Suspended, Referred, At
  <2>2. /\ active[disk[d].req.scope] # None /\ active[disk[d].req.scope].dir = d
        /\ \A q \in Procs : ~Among(q, disk[d].req.scope)
    BY <2>1 DEF XInv, Reserved
  <2>3. disk[d].req.scope \in Scopes /\ disk[d].req.scope # s
    BY <1>1, <2>1, <2>2, FilesHaveScope DEF Suspended
  <2> QED BY <1>1, <1>2, <2>2, <2>3 DEF Among
<1>7. Alone' /\ Filed'
  BY <1>1 DEF XInv, Alone, Filed, Among
<1> QED BY <1>4, <1>5, <1>6, <1>7 DEF XInv

LEMMA CreateXKeeps ==
    ASSUME IInv, XInv, NEW p \in Procs, Create(p)
    PROVE  XInv'
<1>1. CASE Leaves(p)
  BY <1>1, LeavesQuietly
<1>2. CASE ~Leaves(p)
  <2>1. PICK r \in Requests : r = proc[p].req
    BY DEF Create, At, IInv, GoodMemory, Asking
  <2>2. PICK d \in Dirs : d = proc[p].dir
    BY <2>1 DEF Create, At, IInv, GoodMemory, Asking, Dirs
  <2> DEFINE new == [req |-> r, status |-> "running", tasks |-> InitialTasks,
                     results |-> NoResults, file |-> None, anchor |-> None]
  <2>3. /\ proc[p].pc = "create" /\ disk[d] = None /\ disk' = [disk EXCEPT ![d] = new]
        /\ execLock' = [execLock EXCEPT ![d] = p]
        /\ UNCHANGED <<active, envelope, dispatched>>
        /\ DOMAIN proc' = Procs /\ (\A q \in Procs : q = p \/ proc'[q] = proc[q])
        /\ proc'[p] = [proc[p] EXCEPT !.pc = "bind", !.new = TRUE]
    BY <1>2, <2>1, <2>2 DEF Create, At, IInv, authority
  <2>4. new.req = r /\ new.status = "running" /\ new.results = NoResults
    OBVIOUS
  <2> HIDE DEF new
  <2>5. disk'[d] = new /\ \A e \in Dirs : e # d => disk'[e] = disk[e]
    BY <2>3 DEF IInv, TypeOK
  <2>6. disk'[d] # None
    <3>1. GoodMemory(proc[p])' /\ proc'[p].pc = "bind"
      BY <2>3, CreateKeeps DEF Moves, IInv, GoodMemory, Memory
    <3>2. proc'[p].dir = d
      BY <2>2, <2>3 DEF IInv, GoodMemory, Memory
    <3> QED BY <3>1, <3>2 DEF GoodMemory
  <2>7. /\ proc'[p].pc = "bind" /\ proc'[p].req = r /\ proc'[p].dir = d /\ proc'[p].new
        /\ proc'[p].claim = proc[p].claim /\ proc'[p].tasks = proc[p].tasks
        /\ proc'[p].task = proc[p].task
    BY <2>1, <2>2, <2>3 DEF IInv, GoodMemory, Memory
  <2>8. /\ active[r.scope] = [id |-> proc[p].claim, dir |-> d]
        /\ proc[p].tasks = InitialTasks /\ proc[p].task = 0
    BY <2>1, <2>2, <2>3 DEF XInv, Entitled, Engaged, AtWork
  <2>9. execLock[d] = None /\ \A t \in Tasks : dispatched[d][t] = 0
    BY <2>3 DEF XInv, Kept
  <2>10. execLock'[d] = p /\ \A e \in Dirs : e # d => execLock'[e] = execLock[e]
    BY <2>3 DEF IInv, TypeOK
  <2>11. Footprint(p) /\ Among(p, proc'[p].req.scope)
    BY <2>1, <2>3, <2>5, <2>7, <2>9, <2>10 DEF Footprint, Among, Engaged
  <2>12. Entitled(p)'
    BY <2>3, <2>4, <2>5, <2>6, <2>7, <2>8, <2>9, <2>10
       DEF Entitled, HasLock, IsNew, Untouched, Engaged, AtWork, Asking
  <2>13. ASSUME NEW e \in Dirs PROVE Kept(e)' /\ Reserved(e)'
    <3>1. CASE e = d
      BY <2>4, <2>5, <2>6, <3>1, RunningIsKept DEF Reserved
    <3>2. CASE e # d
      <4>1. Referred(e)' => Referred(e)
        BY <2>3, <2>7 DEF Referred, At
      <4> QED BY <2>3, <2>5, <2>10, <2>11, <3>2, <4>1, KeptStays, ReservedStays
    <3> QED BY <3>1, <3>2
  <2>14. Filed'
    BY <2>3 DEF XInv, Filed
  <2> QED BY <2>11, <2>12, <2>13, <2>14, StepKeeps
<1> QED BY <1>1, <1>2

(* What Check writes to one execution, and whose lock it takes.            *)
LEMMA CheckTouches ==
    ASSUME IInv, NEW p \in Procs, Check(p), NEW d \in Dirs
    PROVE  LET seen == proc[p].seen IN
           /\ \/ disk'[d] = disk[d]
              \/ /\ d \in DOMAIN seen /\ seen[d] # None
                 /\ seen[d].req.scope = proc[p].req.scope
                 /\ disk'[d] = Reconciled(seen[d])
           /\ \/ execLock'[d] = execLock[d]
              \/ execLock[d] = p /\ execLock'[d] = None
              \/ execLock[d] = None /\ d \in DOMAIN seen /\ seen[d] # None
<1> DEFINE r       == proc[p].req
           seen    == proc[p].seen
           recs    == {e \in DOMAIN seen : seen[e] # None}
           Rivals(e) == seen[e].status = "running" /\ seen[e].req.scope = r.scope
           Broken(e) == ~Loadable(Reconciled(seen[e]))
           Decides(e) == \/ seen[e].req.key = r.key
                         \/ e = proc[p].dir
                         \/ Rivals(e) /\ (execLock[e] # None \/ Broken(e))
           first   == {f \in recs : Decides(f) /\ \A e \in recs : Decides(e) => f.exec <= e.exec}
           stale   == {f \in recs : Rivals(f) /\ ~Decides(f) /\ \A e \in first : f.exec < e.exec}
           Leaving(ds) == [e \in Dirs |-> IF e \in ds THEN Reconciled(seen[e]) ELSE disk[e]]
           Same(e) == seen[e].req = r
           Held(e) == execLock[e] # None
           Written(ds) == \A e \in ds : /\ e \in DOMAIN seen /\ seen[e] # None
                                        /\ seen[e].req.scope = r.scope
<1>1. Written(stale)
  OBVIOUS
<1>2. \A e \in first : e \in DOMAIN seen /\ seen[e] # None
  OBVIOUS
<1>3. \/ disk' = Leaving(stale) /\ UNCHANGED execLock
      \/ \E e \in first :
            /\ Same(e)
            /\ disk' = Leaving(stale \cup (IF Held(e) THEN {} ELSE {e}))
            /\ execLock' = IF Held(e) THEN execLock ELSE [execLock EXCEPT ![e] = p]
      \/ disk' = Leaving(stale) /\ Ends(p)
  BY Zenon DEF Check
<1> HIDE DEF first, stale
<1>4. CASE disk' = Leaving(stale) /\ (UNCHANGED execLock \/ Ends(p))
  <2>1. execLock'[d] = execLock[d] \/ (execLock[d] = p /\ execLock'[d] = None)
    BY <1>4 DEF Ends, Unlocked, IInv, TypeOK
  <2> QED BY <1>1, <1>4, <2>1
<1>5. ASSUME NEW f \in first, Same(f),
             disk' = Leaving(stale \cup (IF Held(f) THEN {} ELSE {f})),
             execLock' = IF Held(f) THEN execLock ELSE [execLock EXCEPT ![f] = p]
      PROVE  /\ \/ disk'[d] = disk[d]
                \/ /\ d \in DOMAIN seen /\ seen[d] # None
                   /\ seen[d].req.scope = r.scope
                   /\ disk'[d] = Reconciled(seen[d])
             /\ \/ execLock'[d] = execLock[d]
                \/ execLock[d] = None /\ d \in DOMAIN seen /\ seen[d] # None
  <2> DEFINE ds == stale \cup (IF Held(f) THEN {} ELSE {f})
  <2>1. Written(ds)
    BY <1>1, <1>2, <1>5
  <2>2. disk' = Leaving(ds)
    BY <1>5
  <2>3. execLock'[d] = execLock[d] \/ (d = f /\ execLock[d] = None)
    BY <1>5 DEF IInv, TypeOK
  <2> HIDE DEF ds
  <2> QED BY <1>2, <2>1, <2>2, <2>3
<1> QED BY <1>3, <1>4, <1>5, Zenon

(* A reconciled record shows nothing new, except that it was interrupted.  *)
LEMMA ReconciledShows ==
    ASSUME NEW x \in Files
    PROVE  /\ Reconciled(x).req = x.req /\ Reconciled(x).results = x.results
           /\ Reconciled(x) = x \/ Reconciled(x).status = "interrupted"
BY DEF Reconciled, Files

LEMMA CheckXKeeps ==
    ASSUME IInv, XInv, NEW p \in Procs, Check(p)
    PROVE  XInv'
<1> DEFINE seen == proc[p].seen
<1>1. /\ GoodMemory(proc[p]) /\ Entitled(p) /\ proc[p].pc = "check" /\ GoodSeen(seen)
      /\ proc[p].req \in Requests /\ proc[p].dir = DirOf(proc[p].req)
      /\ UNCHANGED <<active, envelope, dispatched>>
  BY DEF Check, At, IInv, XInv, GoodMemory, Asking, authority
<1>2. \A d \in DOMAIN seen : seen[d] # None =>
         d \in Dirs /\ disk[d] # None /\ disk[d] \in Files /\ disk[d].req = seen[d].req
  BY <1>1 DEF GoodSeen, Seens, IInv, TypeOK
<1>3. \A d \in Dirs :
         \/ disk'[d] = disk[d]
         \/ /\ disk[d] \in Files /\ disk[d] # None /\ disk[d].req.scope = proc[p].req.scope
            /\ disk'[d] = Reconciled(disk[d])
  BY <1>1, <1>2, CheckTouches DEF Entitled
<1>4. \A d \in Dirs : \/ execLock'[d] = execLock[d]
                      \/ execLock[d] = p /\ execLock'[d] = None
                      \/ execLock[d] = None /\ disk[d] # None
  BY <1>2, CheckTouches
<1>5. DOMAIN proc' = Procs /\ (\A q \in Procs : q = p \/ proc'[q] = proc[q]) /\ Lasting
  BY CheckKeeps DEF Moves
<1>6. \/ proc'[p] = [proc[p] EXCEPT !.pc = "create", !.seen = None]
      \/ /\ proc'[p] = [proc[p] EXCEPT !.pc = "bind", !.seen = None]
         /\ \E d \in DOMAIN seen : seen[d] # None /\ seen[d].req = proc[p].req
      \/ proc'[p] = Idle
  <2>1. PICK r, read : /\ r = proc[p].req /\ read = proc[p].seen
                       /\ \/ proc' = [proc EXCEPT ![p].pc = "create", ![p].seen = None]
                          \/ /\ \E d \in DOMAIN read : read[d] # None /\ read[d].req = r
                             /\ proc' = [proc EXCEPT ![p].pc = "bind", ![p].seen = None]
                          \/ Ends(p)
    BY CheckCases
  <2>2. CASE proc' = [proc EXCEPT ![p].pc = "create", ![p].seen = None]
    BY <2>2 DEF IInv
  <2>3. CASE /\ \E d \in DOMAIN read : read[d] # None /\ read[d].req = r
             /\ proc' = [proc EXCEPT ![p].pc = "bind", ![p].seen = None]
    BY <2>1, <2>3 DEF IInv
  <2>4. CASE Ends(p)
    BY <2>4, EndsKeeps
  <2> QED BY <2>1, <2>2, <2>3, <2>4
<1> HIDE DEF seen
<1>7. \/ proc'[p] = Idle
      \/ /\ proc'[p].pc \in {"create", "bind"} /\ proc'[p].req = proc[p].req
         /\ proc'[p].dir = proc[p].dir /\ proc'[p].claim = proc[p].claim
         /\ proc'[p].tasks = proc[p].tasks /\ proc'[p].task = proc[p].task
         /\ proc'[p].new = proc[p].new
         /\ proc'[p].pc = "bind" =>
               \E d \in DOMAIN seen : seen[d] # None /\ seen[d].req = proc[p].req
  <2>1. proc[p] \in Memory
    BY <1>1 DEF GoodMemory
  <2>2. CASE proc'[p] = [proc[p] EXCEPT !.pc = "create", !.seen = None]
    BY <2>1, <2>2 DEF Memory
  <2>3. CASE /\ proc'[p] = [proc[p] EXCEPT !.pc = "bind", !.seen = None]
             /\ \E d \in DOMAIN seen : seen[d] # None /\ seen[d].req = proc[p].req
    BY <2>1, <2>3 DEF Memory
  <2> QED BY <1>6, <2>2, <2>3
<1>8. Footprint(p) /\ Among(p, proc[p].req.scope)
  BY <1>1, <1>3, <1>4, <1>5 DEF Footprint, Among, Engaged
<1>9. Entitled(p)'
  <2>1. CASE proc'[p] = Idle
    BY <2>1 DEF Entitled, Idle, HasLock, IsNew, Engaged, AtWork, Asking
  <2>2. CASE proc'[p].pc = "create"
    BY <1>1, <1>7, <2>2 DEF Entitled, Idle, HasLock, IsNew, Engaged, AtWork, Asking
  <2>3. CASE proc'[p].pc = "bind"
    <3>1. PICK d \in Dirs : disk[d] # None /\ disk[d].req = proc[p].req
      BY <1>2, <1>7, <2>3 DEF Idle
    <3>2. d = proc[p].dir
      BY <1>1, <3>1 DEF IInv, GoodFiles
    <3>3. disk'[proc[p].dir] # None /\ disk'[proc[p].dir].req = proc[p].req
      BY <1>5, <3>1, <3>2 DEF Lasting
    <3> QED BY <1>1, <1>7, <2>3, <3>3 DEF Entitled, Idle, HasLock, IsNew, Engaged, AtWork, Asking
  <2> QED BY <1>7, <2>1, <2>2, <2>3
<1>10. proc'[p].pc # "resume" /\ (proc'[p].pc \in Engaged => Among(p, proc'[p].req.scope))
  BY <1>7, <1>8 DEF Idle, Engaged, AtWork
<1>11. \A d \in Dirs : Referred(d)' => Referred(d)
  BY <1>1, <1>5, <1>10 DEF Referred, At
<1>12. ASSUME NEW d \in Dirs PROVE Kept(d)' /\ Reserved(d)'
  <2>1. CASE disk'[d] = disk[d]
    BY <1>1, <1>4, <1>8, <1>10, <1>11, <2>1, KeptStays, ReservedStays
  <2>2. CASE disk'[d] # disk[d]
    <3>1. disk'[d].status = "interrupted" /\ disk[d] # None
      BY <1>3, <2>2, ReconciledShows
    <3>2. disk'[d] # None
      BY <1>5, <3>1 DEF Lasting
    <3> QED BY <3>1, <3>2 DEF Kept, Reserved, Suspended, EarnedBy
  <2> QED BY <2>1, <2>2
<1>13. Filed'
  BY <1>1 DEF XInv, Filed
<1> QED BY <1>8, <1>9, <1>10, <1>12, <1>13, StepKeeps

LEMMA TakeRecordXKeeps ==
    ASSUME IInv, XInv, ResumesApart, NEW p \in Procs, TakeRecord(p)
    PROVE  XInv'
<1>1. PICK d \in Dirs : d = proc[p].dir /\ disk[d] # None /\ GoodMemory(proc[p])
                        /\ proc[p].pc = "resume" /\ disk[d] \in Files /\ Entitled(p)
  <2>1. GoodMemory(proc[p]) /\ proc[p].pc = "resume" /\ Entitled(p)
    BY DEF TakeRecord, At, IInv, XInv
  <2>2. proc[p].dir \in Dirs /\ disk[proc[p].dir] # None
    BY <2>1 DEF GoodMemory
  <2> QED BY <2>1, <2>2, FilesHaveScope
<1>2. PICK r \in Requests : r = disk[d].req
  BY <1>1 DEF Files
<1>3. /\ envelope' = [envelope EXCEPT ![d.exec] = None] /\ d.exec \in Execs
      /\ UNCHANGED <<disk, active, dispatched>>
  <2>1. d.exec \in Execs
    BY DEF Dirs, DirOf, Execs
  <2>2. UNCHANGED <<disk, active, dispatched>>
    BY DEF TakeRecord, authority
  <2> QED BY <1>1, <2>1, <2>2 DEF TakeRecord
<1>4. /\ envelope'[d.exec] = None
      /\ \A e \in Execs : e # d.exec => envelope'[e] = envelope[e]
  BY <1>3 DEF IInv, TypeOK
<1>5. \A e \in Dirs : e.exec \in Execs /\ e # None
  BY ConfigAssumption DEF Dirs, DirOf, Execs
<1>6. Filed'
  BY <1>4 DEF XInv, Filed
<1>7. CASE Ends(p)
  <2>1. \A e \in Dirs : execLock'[e] = execLock[e] \/ (execLock[e] = p /\ execLock'[e] = None)
    BY <1>7 DEF Ends, Unlocked, IInv, TypeOK
  <2>2. proc'[p] = Idle /\ DOMAIN proc' = Procs /\ \A q \in Procs : q = p \/ proc'[q] = proc[q]
    BY <1>7, EndsKeeps
  <2>3. proc'[p].pc \notin Engaged /\ proc'[p].pc # "resume"
    BY <2>2 DEF Idle, Engaged, AtWork
  <2>4. Entitled(p)'
    BY <2>2, <2>3 DEF Entitled, Idle, HasLock, IsNew, Engaged, AtWork, Asking
  <2>5. Footprint(p)
    BY <1>3, <2>1, <2>2 DEF Footprint
  <2>6. ASSUME NEW e \in Dirs PROVE Kept(e)' /\ Reserved(e)'
    <3>1. Referred(e)' => Referred(e)
      BY <1>4, <1>5, <2>2, <2>3 DEF Referred, At
    <3> QED BY <1>3, <2>1, <2>3, <2>5, <3>1, KeptStays, ReservedStays
  <2> QED BY <1>6, <2>3, <2>4, <2>5, <2>6, StepKeeps
<1>8. CASE ~Ends(p)
  <2>1. /\ Suspended(d) /\ active[r.scope] # None
        /\ proc' = [proc EXCEPT ![p].pc = "relock", ![p].req = r, ![p].claim = active[r.scope].id]
        /\ UNCHANGED execLock
    BY <1>1, <1>2, <1>8 DEF TakeRecord, Suspended
  <2>2. /\ DOMAIN proc' = Procs /\ \A q \in Procs : q = p \/ proc'[q] = proc[q]
        /\ proc'[p] = [proc[p] EXCEPT !.pc = "relock", !.req = r, !.claim = active[r.scope].id]
    BY <2>1 DEF IInv
  <2>3. Referred(d)
    BY <1>1 DEF Referred, At
  <2>4. active[r.scope].dir = d /\ \A q \in Procs : ~Among(q, r.scope)
    BY <1>2, <2>1, <2>3 DEF XInv, Reserved
  <2>5. active[r.scope] = [id |-> active[r.scope].id, dir |-> d] /\ r.scope \in Scopes
    <3>1. r.scope \in Scopes
      BY DEF Scopes
    <3>2. active[r.scope] \in Claims
      BY <2>1, <3>1 DEF IInv, TypeOK
    <3> QED BY <2>4, <3>1, <3>2 DEF Claims
  <2>6. /\ proc'[p].pc = "relock" /\ proc'[p].req = r /\ proc'[p].dir = d
        /\ proc'[p].claim = active[r.scope].id
        /\ proc'[p].tasks = proc[p].tasks /\ proc'[p].task = proc[p].task
    BY <1>1, <2>2 DEF GoodMemory, Memory
  <2>7. /\ proc[p].tasks = InitialTasks /\ proc[p].task = 0 /\ p \in Resumers
    BY <1>1 DEF Entitled, AtWork
  <2>8. Entitled(p)'
    BY <1>1, <1>2, <1>3, <2>1, <2>5, <2>6, <2>7
       DEF Entitled, HasLock, IsNew, Suspended, Engaged, AtWork, Asking
  <2>9. Footprint(p)
    BY <1>3, <2>1, <2>2 DEF Footprint
  <2>10. ~Referred(d)'
    <3> SUFFICES ASSUME NEW q \in Procs, proc'[q].pc = "resume", proc'[q].dir = d PROVE FALSE
      BY <1>4, <1>5 DEF Referred, At
    <3>1. q # p /\ proc[q].pc = "resume" /\ proc[q].dir = d
      BY <2>2, <2>6
    <3> QED BY <1>1, <3>1 DEF ResumesApart, At
  <2>11. ASSUME NEW e \in Dirs PROVE Kept(e)' /\ Reserved(e)'
    <3>1. Kept(e)'
      BY <1>3, <2>1, KeptStays
    <3> SUFFICES ASSUME Suspended(e)', Referred(e)'
                 PROVE  /\ active'[disk'[e].req.scope] # None
                        /\ active'[disk'[e].req.scope].dir = e
                        /\ \A q \in Procs :
                             ~(proc'[q].pc \in Engaged /\ proc'[q].req.scope = disk'[e].req.scope)
      BY <3>1 DEF Reserved, Among
    <3>2. Suspended(e) /\ Referred(e) /\ e # d
      <4>1. e # d /\ Suspended(e)
        BY <1>3, <2>10 DEF Suspended
      <4>2. envelope'[e.exec] = e => envelope[e.exec] = e
        BY <1>4, <1>5
      <4>3. \A q \in Procs : proc'[q].pc = "resume" => proc'[q] = proc[q]
        BY <2>2, <2>6
      <4>4. (\E q \in Procs : proc'[q].pc = "resume" /\ proc'[q].dir = e)
            => \E q \in Procs : proc[q].pc = "resume" /\ proc[q].dir = e
        BY <4>3
      <4> QED BY <4>1, <4>2, <4>4 DEF Referred, At
    <3>3. /\ active[disk[e].req.scope] # None /\ active[disk[e].req.scope].dir = e
          /\ \A q \in Procs : ~Among(q, disk[e].req.scope)
      BY <3>2 DEF XInv, Reserved
    <3>4. disk[e].req.scope # r.scope
      BY <2>4, <3>2, <3>3
    <3>5. ASSUME NEW q \in Procs
          PROVE  ~(proc'[q].pc \in Engaged /\ proc'[q].req.scope = disk[e].req.scope)
      BY <2>2, <2>6, <3>3, <3>4 DEF Among
    <3> QED BY <1>3, <3>3, <3>5
  <2> QED BY <1>6, <2>4, <2>6, <2>8, <2>9, <2>11, StepKeeps
<1> QED BY <1>7, <1>8

LEMMA InitXHolds == Init => XInv
<1> SUFFICES ASSUME Init PROVE XInv
  OBVIOUS
<1>1. \A p \in Procs : proc[p] = Idle
  BY DEF Init
<1>2. \A p \in Procs : Entitled(p)
  BY <1>1 DEF Entitled, Idle, HasLock, IsNew, Engaged, AtWork, Asking
<1>3. \A d \in Dirs : Kept(d) /\ Reserved(d)
  BY DEF Init, Kept, Reserved, Suspended
<1>4. Alone
  BY <1>1 DEF Alone, Among, Idle, Engaged, AtWork
<1>5. Filed
  BY DEF Init, Filed
<1> QED BY <1>2, <1>3, <1>4, <1>5 DEF XInv

LEMMA NextXKeeps == IInv /\ XInv /\ ResumesApart /\ [Next]_vars => XInv'
<1> SUFFICES ASSUME IInv, XInv, ResumesApart, [Next]_vars PROVE XInv'
  OBVIOUS
<1>1. CASE UNCHANGED vars
  <2>1. UNCHANGED <<disk, execLock, active, envelope, proc, dispatched>>
    BY <1>1 DEF vars, store, authority
  <2>2. ASSUME NEW d \in Dirs PROVE Kept(d)' /\ Reserved(d)'
    <3>1. Kept(d)'
      BY <2>1, KeptStays
    <3>2. /\ Suspended(d)' <=> Suspended(d)
          /\ Referred(d)' <=> Referred(d)
          /\ \A p \in Procs, s \in Scopes : Among(p, s)' <=> Among(p, s)
      BY <2>1 DEF Suspended, Referred, Among, At
    <3>3. Reserved(d) /\ (Suspended(d) => disk[d].req.scope \in Scopes)
      BY FilesHaveScope DEF XInv, Suspended
    <3>4. Reserved(d)'
      BY <2>1, <3>2, <3>3 DEF Reserved, Among
    <3> QED BY <3>1, <3>4
  <2>3. ASSUME NEW p \in Procs PROVE Entitled(p)'
    <3>1. Mirrors(proc[p])' <=> Mirrors(proc[p])
      BY <2>1 DEF Mirrors, Mirrored
    <3>2. \A d : (Untouched(d)' <=> Untouched(d)) /\ (Suspended(d)' <=> Suspended(d))
      BY <2>1 DEF Untouched, Suspended
    <3> QED BY <2>1, <3>1, <3>2, SMTT(30) DEF XInv, Entitled
  <2> QED BY <2>1, <2>2, <2>3 DEF XInv, Alone, Filed, Among
<1>2. ASSUME NEW p \in Procs, Step(p) PROVE XInv'
  BY <1>2, CallsQuietly, AcquireXKeeps, ScanXKeeps, CheckXKeeps, CreateXKeeps, BindXKeeps,
     AdmitXKeeps, RefuseXKeeps, SuspendXKeeps, PersistSuspendedXKeeps, StartTaskXKeeps,
     FinishTaskXKeeps, RecordTaskXKeeps, SettleXKeeps, PublishXKeeps, ReleaseXKeeps,
     UnlinkXKeeps, TakeRecordXKeeps, RelockXKeeps DEF Step
<1>3. ASSUME NEW p \in Procs, Contradict(p) \/ Crash(p) PROVE XInv'
  BY <1>3, ContradictXKeeps, CallsQuietly
<1>4. ASSUME NEW p \in Procs, NEW r \in Requests, Execute(p, r) PROVE XInv'
  BY <1>4, CallsQuietly
<1>5. ASSUME NEW p \in Procs, NEW e \in Execs, Resume(p, e) PROVE XInv'
  BY <1>5, CallsQuietly
<1>6. ASSUME NEW s \in Scopes, Recover(s) PROVE XInv'
  BY <1>6, RecoverXKeeps
<1> QED BY <1>1, <1>2, <1>3, <1>4, <1>5, <1>6 DEF Next

LEMMA XInvHolds == Spec /\ []ResumesApart => [](IInv /\ XInv)
<1>1. Init => IInv /\ XInv
  BY InitHolds, InitXHolds
<1>2. IInv /\ XInv /\ ResumesApart /\ [Next]_vars => (IInv /\ XInv)'
  BY NextKeeps, NextXKeeps
<1> QED BY <1>1, <1>2, PTL DEF Spec

----------------------------------------------------------------------------
(* What follows *)

(* Every variable keeps its type. *)
THEOREM TypeCorrect == Spec => []TypeOK
<1>1. IInv => TypeOK
  BY DEF IInv
<1> QED BY <1>1, InvHolds, PTL

(* Whatever number of processes execute, resume, crash and reconcile each    *)
(* other's executions, and whatever the plan, state.json is at all times one *)
(* that load_state and validate_state accept: no crash, and no write of a    *)
(* state read earlier, leaves an execution that cannot be looked at again.   *)
THEOREM StateOnDiskIsValid == Spec => []DiskStateValid
<1>1. IInv => DiskStateValid
  BY DEF IInv, GoodFiles, DiskStateValid
<1> QED BY <1>1, InvHolds, PTL

(* Tasks are given to workers for at most one execution of a key, although   *)
(* lookup and bind are two steps, executions of one key can be created side  *)
(* by side, and any number of processes retry, crash and resume.             *)
THEOREM KeyIsExecutedOnce == Spec => []KeyRunsOnce
<1>1. IInv => KeyRunsOnce
  <2> SUFFICES ASSUME IInv, NEW d \in Dirs, NEW e \in Dirs,
                      \E t \in Tasks : dispatched[d][t] > 0,
                      \E t \in Tasks : dispatched[e][t] > 0,
                      disk[d].req.key = disk[e].req.key
               PROVE  d = e
    BY DEF KeyRunsOnce
  <2>1. BoundTo(d) /\ BoundTo(e)
    BY DEF IInv
  <2>2. disk[d].req = disk[e].req
    BY <2>1 DEF BoundTo
  <2> QED BY <2>1, <2>2 DEF BoundTo, IInv, GoodFiles
<1> QED BY <1>1, InvHolds, PTL

(* Whoever runs an execution holds its lock and its scope, alone, however   *)
(* processes execute, crash, suspend and recover: no two are at work under  *)
(* one authority (executor.py:394).  Any number of processes may resume, as  *)
(* long as no two of them have read one suspension record (executor.py:267). *)
THEOREM RunsAreExclusive == Spec /\ []ResumesApart => []ScopeIsExclusive
<1>1. ASSUME IInv, XInv PROVE ScopeIsExclusive
  <2>1. ASSUME NEW p \in Procs, Running(p)
        PROVE  Among(p, proc[p].req.scope) /\ execLock[proc[p].dir] = p /\ OwnsClaim(p)
    <3>1. Among(p, proc[p].req.scope) /\ HasLock(proc[p])
      BY <1>1, <2>1 DEF Running, Among, Engaged, HasLock, IsNew, AtWork
    <3>2. execLock[proc[p].dir] = p
      BY <1>1, <3>1 DEF XInv, Entitled
    <3> QED BY <1>1, <3>1, <3>2, AmongHasClaim DEF OwnsClaim
  <2>2. ASSUME NEW p \in Procs, NEW q \in Procs, Running(p), Running(q),
               proc[p].req.scope = proc[q].req.scope
        PROVE  p = q
    <3>1. Among(p, proc[p].req.scope) /\ Among(q, proc[p].req.scope)
      BY <2>1, <2>2
    <3>2. proc[p].req.scope \in Scopes
      BY <1>1, <3>1, AmongHasClaim
    <3> QED BY <1>1, <3>1, <3>2 DEF XInv, Alone
  <2> QED BY <2>1, <2>2 DEF ScopeIsExclusive
<1> QED BY <1>1, XInvHolds, PTL

(* What final_state answers is borne out by the results on disk, as long as  *)
(* no two calls of resume_execution have read one suspension record.         *)
THEOREM VerdictsAreEarned == Spec /\ []ResumesApart => []VerdictIsEarned
<1>1. ASSUME IInv, XInv PROVE VerdictIsEarned
  <2> SUFFICES ASSUME NEW d \in Dirs, disk[d] # None
               PROVE  EarnedBy(FinalState(d), disk[d].results)
    BY DEF VerdictIsEarned, EarnedBy
  <2>1. FinalState(d) = disk[d].status \/ FinalState(d) = "not_valid"
    BY DEF FinalState
  <2>2. EarnedBy(disk[d].status, disk[d].results)
    BY <1>1 DEF XInv, Kept
  <2> QED BY <2>1, <2>2 DEF EarnedBy
<1> QED BY <1>1, XInvHolds, PTL

----------------------------------------------------------------------------
(* Every execution is a run of its plan *)

Outcomes == [d \in Dirs |-> OutcomeOf(d)]
Verdicts == [d \in Dirs |-> VerdictOf(d)]

LEMMA SameTasks == Run!Tasks = Tasks /\ Run!Roots = Roots
BY DEF Run!Tasks, Tasks, Run!Roots, Roots

\* What shows of an execution is what showed of it before.
ShowsTheSame(d) == OutcomeOf(d)' = OutcomeOf(d) /\ VerdictOf(d)' = VerdictOf(d)

LEMMA NothingShows ==
    ASSUME \A d \in Dirs : ShowsTheSame(d)
    PROVE  UNCHANGED <<Outcomes, Verdicts>>
BY DEF Outcomes, Verdicts, ShowsTheSame

LEMMA UntouchedShowsTheSame ==
    ASSUME NEW d \in Dirs, disk'[d] = disk[d], dispatched'[d] = dispatched[d]
    PROVE  ShowsTheSame(d)
BY DEF ShowsTheSame, OutcomeOf, VerdictOf

LEMMA WrittenShowsTheSame ==
    ASSUME NEW d \in Dirs, disk[d] # None, disk'[d] # None, dispatched'[d] = dispatched[d],
           disk'[d].results = disk[d].results,
           disk[d].status \notin Settled, disk'[d].status \notin Settled
    PROVE  ShowsTheSame(d)
BY DEF ShowsTheSame, OutcomeOf, VerdictOf, Settled

(* A step that changes what one running execution has come to.              *)
LEMMA OneShows ==
    ASSUME NEW d \in Dirs, NEW s, OutcomeOf(d)' = s,
           \A e \in Dirs : e # d => ShowsTheSame(e),
           VerdictOf(d) = "none", VerdictOf(d)' = "none"
    PROVE  /\ Outcomes[d] = OutcomeOf(d) /\ Verdicts[d] = "none"
           /\ Outcomes' = [Outcomes EXCEPT ![d] = s]
           /\ UNCHANGED Verdicts
BY DEF Outcomes, Verdicts, ShowsTheSame

\* In a process at work, the outcomes of its tasks.
LEMMA MirrorShows ==
    ASSUME NEW d \in Dirs, disk[d] # None, NEW q, q.dir = d, NEW t \in Tasks, Mirrored(q, t)
    PROVE  OutcomeOf(d)[t] = IF q.tasks[t] \in Settled THEN q.tasks[t] ELSE "waiting"
BY DEF Mirrored, OutcomeOf, Settled

LEMMA StartTaskIsBegin ==
    ASSUME IInv, XInv, NEW p \in Procs, StartTask(p)
    PROVE  Run!Next
<1>1. PICK d \in Dirs : /\ d = proc[p].dir /\ Holding(proc[p], d) /\ BoundTo(d)
                        /\ disk[d] \in Files /\ Loadable(disk[d])
  BY TakenIsHeld DEF Taken, StartTask, At
<1>2. PICK t : t = NextReady(proc[p].tasks)
  OBVIOUS
<1>3. PICK s : s = MarkRunning(proc[p].tasks, t)
  OBVIOUS
<1>4. /\ proc[p].pc = "loop" /\ ReadyTasks(proc[p].tasks) # {}
      /\ dispatched' = [dispatched EXCEPT ![d][t] = @ + 1]
      /\ Persist(p, s)
  BY <1>1, <1>2, <1>3 DEF StartTask, At
<1>5. t \in Tasks /\ proc[p].tasks[t] = "ready" /\ Workable(proc[p].tasks) /\ disk[d] # None
  BY <1>1, <1>2, <1>4, NextReadyIsReady DEF Holding, BoundTo
<1>6. Workable(s)
  BY <1>1, <1>3, <1>4, <1>5, MarkRunningKeeps DEF Holding, AtWork
<1>7. /\ disk' = [disk EXCEPT ![d] = disk'[d]]
      /\ disk'[d] # None
      /\ disk'[d].status = "running" /\ disk'[d].results = disk[d].results
  BY <1>1, <1>4, <1>6, PersistShows
<1>8. /\ \A e \in Dirs : e # d => dispatched'[e] = dispatched[e] /\ disk'[e] = disk[e]
      /\ \A u \in Tasks : u # t => dispatched'[d][u] = dispatched[d][u]
      /\ dispatched'[d][t] = dispatched[d][t] + 1 /\ dispatched[d][t] \in Nat
  BY <1>4, <1>5, <1>7 DEF IInv, TypeOK
<1>9. \A u \in Tasks : Mirrored(proc[p], u)
  <2>1. Mirrors(proc[p])
    BY <1>4 DEF XInv, Entitled
  <2> QED BY <1>4, <2>1 DEF Mirrors, Tasks, AtWork
<1>10. disk[d].status = "running"
  BY <1>1, <1>4 DEF XInv, Entitled, Mirrors
<1>11. \A u \in Tasks :
          OutcomeOf(d)[u] = IF proc[p].tasks[u] \in Settled THEN proc[p].tasks[u] ELSE "waiting"
  BY <1>1, <1>5, <1>9, MirrorShows
<1>12. disk[d].results[t] = "none"
  BY <1>1, <1>5, <1>9 DEF Mirrored, Settled
<1>13. OutcomeOf(d)' = [OutcomeOf(d) EXCEPT ![t] = "running"]
  <2>1. \A u \in Tasks :
           OutcomeOf(d)[u]' = IF u = t THEN "running" ELSE OutcomeOf(d)[u]
    BY <1>5, <1>7, <1>8, <1>12 DEF OutcomeOf
  <2> QED BY <2>1 DEF OutcomeOf
<1>14. VerdictOf(d) = "none" /\ VerdictOf(d)' = "none"
  BY <1>7, <1>10 DEF VerdictOf
<1>15. \A e \in Dirs : e # d => ShowsTheSame(e)
  BY <1>8, UntouchedShowsTheSame
<1>16. /\ Outcomes[d] = OutcomeOf(d) /\ Verdicts[d] = "none"
       /\ Outcomes' = [Outcomes EXCEPT ![d] = [Outcomes[d] EXCEPT ![t] = "running"]]
       /\ UNCHANGED Verdicts
  <2> DEFINE s2 == [OutcomeOf(d) EXCEPT ![t] = "running"]
  <2>1. OutcomeOf(d)' = s2
    BY <1>13
  <2> HIDE DEF s2
  <2>2. /\ Outcomes[d] = OutcomeOf(d) /\ Verdicts[d] = "none"
        /\ Outcomes' = [Outcomes EXCEPT ![d] = s2] /\ UNCHANGED Verdicts
    BY <1>14, <1>15, <2>1, OneShows
  <2> QED BY <2>2 DEF s2
<1>17. /\ Outcomes[d][t] = "waiting"
       /\ \A u \in Tasks : Outcomes[d][u] # "running"
       /\ \A u \in DependsOn[t] : Outcomes[d][u] = "completed"
  <2>1. \A u \in DependsOn[t] : u \in Tasks /\ proc[p].tasks[u] = "completed"
    BY <1>5, PlanIsOrdered DEF Workable, ValidTasks, DependenciesRespected, DependenciesDone
  <2> QED BY <1>5, <1>11, <1>16, <2>1 DEF Settled
<1>18. Run!Begin(d, t)
  BY <1>16, <1>17, SameTasks DEF Run!Begin, Run!Becomes, Run!DependenciesDone, Outcomes, Verdicts
<1> QED BY <1>5, <1>18, SameTasks DEF Run!Next

LEMMA FinishTaskIsFinish ==
    ASSUME IInv, XInv, NEW p \in Procs, FinishTask(p)
    PROVE  Run!Next
<1>1. PICK d \in Dirs : /\ d = proc[p].dir /\ Holding(proc[p], d) /\ BoundTo(d)
                        /\ disk[d] \in Files /\ Loadable(disk[d])
  BY TakenIsHeld DEF Taken, AtWork, FinishTask, At
<1>2. PICK t \in Tasks : t = proc[p].task
  BY <1>1 DEF FinishTask, At, Holding, AtWork
<1>3. PICK out \in {"completed", "failed"} : disk' = [disk EXCEPT ![d].results[t] = out]
  BY <1>1, <1>2 DEF FinishTask, WithResult
<1>4. UNCHANGED dispatched /\ proc[p].pc = "work" /\ disk[d] # None
  BY <1>1 DEF FinishTask, At, BoundTo
<1>5. /\ disk'[d] = [disk[d] EXCEPT !.results[t] = out]
      /\ \A e \in Dirs : e # d => disk'[e] = disk[e]
  BY <1>1, <1>3 DEF IInv, TypeOK
<1>6. Mirrors(proc[p]) /\ disk[d].status = "running"
  BY <1>1, <1>4 DEF XInv, Entitled, AtWork, Mirrors
<1>7. /\ disk'[d].status = "running"
      /\ disk'[d].results = [disk[d].results EXCEPT ![t] = out]
  BY <1>1, <1>5, <1>6 DEF Files
<1>8. disk'[d] # None
  BY <1>1, FinishTaskKeeps DEF Moves, Lasting, BoundTo
<1>9. disk[d].results \in Results
  BY <1>1 DEF Files
<1>10. /\ disk'[d].results[t] = out
       /\ \A u \in Tasks : u # t => disk'[d].results[u] = disk[d].results[u]
  BY <1>7, <1>9 DEF Results
<1>11. dispatched[d][t] > 0 /\ disk[d].results[t] = "none"
  BY <1>1, <1>2, <1>4, <1>6 DEF Mirrors, AtWork
<1>12. OutcomeOf(d)[t] = "running"
  BY <1>4, <1>11 DEF OutcomeOf
<1>13. OutcomeOf(d)' = [OutcomeOf(d) EXCEPT ![t] = out]
  BY <1>4, <1>8, <1>10 DEF OutcomeOf
<1>14. VerdictOf(d) = "none" /\ VerdictOf(d)' = "none"
  BY <1>6, <1>7 DEF VerdictOf
<1>15. \A e \in Dirs : e # d => ShowsTheSame(e)
  BY <1>4, <1>5, UntouchedShowsTheSame
<1>16. /\ Outcomes[d][t] = "running" /\ Verdicts[d] = "none"
       /\ Outcomes' = [Outcomes EXCEPT ![d] = [Outcomes[d] EXCEPT ![t] = out]]
       /\ UNCHANGED Verdicts
  BY <1>12, <1>13, <1>14, <1>15, OneShows
<1>17. Run!Finish(d, t, out)
  BY <1>16 DEF Run!Finish, Run!Becomes, Outcomes, Verdicts
<1> QED BY <1>17, SameTasks DEF Run!Next

LEMMA ContradictIsRetract ==
    ASSUME IInv, XInv, NEW p \in Procs, Contradict(p)
    PROVE  Run!Next
<1>1. PICK d \in Dirs : /\ d = proc[p].dir /\ Holding(proc[p], d) /\ BoundTo(d)
                        /\ disk[d] \in Files /\ Loadable(disk[d])
  BY TakenIsHeld DEF Taken, AtWork, Contradict, At
<1>2. PICK t \in Tasks : t = proc[p].task /\ proc[p].tasks[t] = "running"
  BY <1>1 DEF Contradict, At, Holding, AtWork
<1>3. disk' = [disk EXCEPT ![d].results[t] = "failed"]
  BY <1>1, <1>2 DEF Contradict, WithResult
<1>4. UNCHANGED dispatched /\ proc[p].pc = "completed" /\ disk[d] # None
  BY <1>1 DEF Contradict, At, BoundTo
<1>5. /\ disk'[d] = [disk[d] EXCEPT !.results[t] = "failed"]
      /\ \A e \in Dirs : e # d => disk'[e] = disk[e]
  BY <1>1, <1>3 DEF IInv, TypeOK
<1>6. Mirrors(proc[p]) /\ disk[d].status = "running"
  BY <1>1, <1>4 DEF XInv, Entitled, AtWork, Mirrors
<1>7. /\ disk'[d].status = "running"
      /\ disk'[d].results = [disk[d].results EXCEPT ![t] = "failed"]
  BY <1>1, <1>5, <1>6 DEF Files
<1>8. disk'[d] # None
  BY <1>1, ContradictKeeps DEF Moves, Lasting, BoundTo
<1>9. disk[d].results \in Results
  BY <1>1 DEF Files
<1>10. /\ disk'[d].results[t] = "failed"
       /\ \A u \in Tasks : u # t => disk'[d].results[u] = disk[d].results[u]
  BY <1>7, <1>9 DEF Results
<1>11. disk[d].results[t] = "completed"
  BY <1>1, <1>2, <1>4, <1>6 DEF Mirrors, AtWork
<1>12. OutcomeOf(d)[t] = "completed"
  BY <1>4, <1>11 DEF OutcomeOf
<1>13. OutcomeOf(d)' = [OutcomeOf(d) EXCEPT ![t] = "failed"]
  BY <1>4, <1>8, <1>10 DEF OutcomeOf
<1>14. VerdictOf(d) = "none" /\ VerdictOf(d)' = "none"
  BY <1>6, <1>7 DEF VerdictOf
<1>15. \A e \in Dirs : e # d => ShowsTheSame(e)
  BY <1>4, <1>5, UntouchedShowsTheSame
<1>16. \A u \in Tasks : u # t => OutcomeOf(d)[u] =
          IF proc[p].tasks[u] \in Settled THEN proc[p].tasks[u] ELSE "waiting"
  BY <1>1, <1>2, <1>4, <1>6, MirrorShows DEF Mirrors, AtWork
<1>17. ASSUME NEW u \in Tasks, t \in DependsOn[u] PROVE OutcomeOf(d)[u] = "waiting"
  <2>1. u # t
    BY <1>17, PlanIsOrdered DEF Tasks
  <2>2. ~DependenciesDone(proc[p].tasks, u)
    BY <1>2, <1>17 DEF DependenciesDone
  <2>3. DependenciesRespected(proc[p].tasks)
    BY <1>1 DEF Holding, Workable, ValidTasks
  <2>4. proc[p].tasks[u] \notin Settled
    BY <2>2, <2>3 DEF DependenciesRespected, Settled
  <2> QED BY <1>16, <2>1, <2>4
<1>18. \A u \in Tasks : OutcomeOf(d)[u] # "running"
  BY <1>12, <1>16 DEF Settled
<1>19. /\ Outcomes[d] = OutcomeOf(d) /\ Verdicts[d] = "none"
       /\ Outcomes' = [Outcomes EXCEPT ![d] = [Outcomes[d] EXCEPT ![t] = "failed"]]
       /\ UNCHANGED Verdicts
  <2> DEFINE s2 == [OutcomeOf(d) EXCEPT ![t] = "failed"]
  <2>1. OutcomeOf(d)' = s2
    BY <1>13
  <2> HIDE DEF s2
  <2>2. /\ Outcomes[d] = OutcomeOf(d) /\ Verdicts[d] = "none"
        /\ Outcomes' = [Outcomes EXCEPT ![d] = s2] /\ UNCHANGED Verdicts
    BY <1>14, <1>15, <2>1, OneShows
  <2> QED BY <2>2 DEF s2
<1>20. Run!Retract(d, t)
  BY <1>12, <1>17, <1>18, <1>19, SameTasks DEF Run!Retract, Run!Becomes, Outcomes, Verdicts
<1> QED BY <1>20, SameTasks DEF Run!Next

LEMMA RefuseIsRefuse ==
    ASSUME IInv, XInv, NEW p \in Procs, Refuse(p)
    PROVE  Run!Next
<1> DEFINE refused == [t \in Tasks |-> IF t \in Roots THEN "failed" ELSE "blocked"]
<1>1. UNCHANGED dispatched /\ proc[p].pc = "analyse"
      /\ disk' = [disk EXCEPT ![proc[p].dir].results = refused]
  BY DEF Refuse, At
<1>2. \A t \in Tasks : refused[t] # "none"
  OBVIOUS
<1>3. PICK d \in Dirs : /\ d = proc[p].dir /\ Holding(proc[p], d) /\ BoundTo(d)
                        /\ disk[d] \in Files /\ Loadable(disk[d])
  BY <1>1, TakenIsHeld DEF Taken
<1>4. /\ disk'[d] = [disk[d] EXCEPT !.results = refused]
      /\ \A e \in Dirs : e # d => disk'[e] = disk[e]
  BY <1>1, <1>3 DEF IInv, TypeOK
<1>5. Untouched(d) /\ disk[d].status = "running" /\ disk[d] # None
  BY <1>1, <1>3 DEF XInv, Entitled, IsNew, BoundTo
<1>6. disk'[d].status = "running" /\ disk'[d].results = refused
  BY <1>3, <1>4, <1>5 DEF Files
<1>7. disk'[d] # None
  BY <1>3, RefuseKeeps DEF Moves, Lasting, BoundTo
<1>8. OutcomeOf(d)' = refused
  BY <1>2, <1>6, <1>7 DEF OutcomeOf
<1>9. \A t \in Tasks : OutcomeOf(d)[t] = "waiting"
  BY <1>5 DEF OutcomeOf, Untouched, NoResults
<1>10. VerdictOf(d) = "none" /\ VerdictOf(d)' = "none"
  BY <1>5, <1>6 DEF VerdictOf
<1>11. \A e \in Dirs : e # d => ShowsTheSame(e)
  BY <1>1, <1>4, UntouchedShowsTheSame
<1>12. /\ \A t \in Tasks : Outcomes[d][t] = "waiting"
       /\ Verdicts[d] = "none" /\ UNCHANGED Verdicts
       /\ Outcomes' = [Outcomes EXCEPT ![d] = refused]
  BY <1>8, <1>9, <1>10, <1>11, OneShows
<1>13. Run!Refuse(d)
  BY <1>12, SameTasks DEF Run!Refuse, Run!Becomes, Outcomes, Verdicts
<1> QED BY <1>13 DEF Run!Next

LEMMA SettleIsBlock ==
    ASSUME IInv, XInv, NEW p \in Procs, Settle(p)
    PROVE  Run!Next
<1>1. PICK d \in Dirs : /\ d = proc[p].dir /\ Holding(proc[p], d) /\ BoundTo(d)
                        /\ disk[d] \in Files /\ Loadable(disk[d])
  BY TakenIsHeld DEF Taken, Settle, At
<1> DEFINE res == [t \in Tasks |->
                     IF disk[d].results[t] = "none" /\ proc[p].tasks[t] = "blocked"
                     THEN "blocked" ELSE disk[d].results[t]]
           B   == {t \in Tasks : disk[d].results[t] = "none" /\ proc[p].tasks[t] = "blocked"}
           s   == [t \in Tasks |-> IF t \in B THEN "blocked" ELSE OutcomeOf(d)[t]]
<1>2. /\ disk' = [disk EXCEPT ![d].results = res]
      /\ proc[p].pc = "loop" /\ UNCHANGED dispatched /\ disk[d] # None
      /\ Workable(proc[p].tasks)
  BY <1>1 DEF Settle, At, IInv, TypeOK, BoundTo, Holding
<1>3. \A t \in Tasks : res[t] = IF t \in B THEN "blocked" ELSE disk[d].results[t]
  OBVIOUS
<1> HIDE DEF res
<1>4. /\ disk'[d] = [disk[d] EXCEPT !.results = res]
      /\ \A e \in Dirs : e # d => disk'[e] = disk[e]
  BY <1>1, <1>2 DEF IInv, TypeOK
<1>5. Mirrors(proc[p])
  BY <1>2 DEF XInv, Entitled
<1>6. \A t \in Tasks : Mirrored(proc[p], t)
  BY <1>2, <1>5 DEF Mirrors, Tasks, AtWork
<1>7. disk[d].status = "running" /\ disk'[d].status = "running" /\ disk'[d].results = res
  BY <1>1, <1>4, <1>5 DEF Mirrors, Files
<1>8. disk'[d] # None
  BY <1>1, SettleKeeps DEF Moves, Lasting, BoundTo
<1>9. OutcomeOf(d)' = s
  <2>1. \A t \in Tasks : OutcomeOf(d)[t]' = IF t \in B THEN "blocked" ELSE OutcomeOf(d)[t]
    BY <1>2, <1>3, <1>7, <1>8 DEF OutcomeOf
  <2> HIDE DEF B
  <2> QED BY <2>1 DEF OutcomeOf
<1>10. VerdictOf(d) = "none" /\ VerdictOf(d)' = "none"
  BY <1>7 DEF VerdictOf
<1>11. \A e \in Dirs : e # d => ShowsTheSame(e)
  BY <1>2, <1>4, UntouchedShowsTheSame
<1>12. \A t \in Tasks : OutcomeOf(d)[t] =
           IF proc[p].tasks[t] \in Settled THEN proc[p].tasks[t] ELSE "waiting"
  BY <1>1, <1>2, <1>6, MirrorShows
<1>13. \A t \in B : t \in Tasks /\ OutcomeOf(d)[t] = "waiting" /\ proc[p].tasks[t] = "blocked"
  BY <1>12 DEF Settled
<1>14. \A t \in Tasks : proc[p].tasks[t] = "blocked" => t \in B
  BY <1>1, <1>6 DEF Mirrored, Settled
<1>15. \A t \in B : \E u \in DependsOn[t] : s[u] \in {"failed", "blocked"}
  <2> SUFFICES ASSUME NEW t \in B PROVE \E u \in DependsOn[t] : s[u] \in {"failed", "blocked"}
    OBVIOUS
  <2>1. PICK u \in DependsOn[t] : u \in Tasks /\ proc[p].tasks[u] \in {"failed", "blocked"}
    BY <1>2, <1>13, PlanIsOrdered DEF Workable, ValidTasks, BlockedHasCause
  <2>2. CASE proc[p].tasks[u] = "blocked"
    BY <1>14, <2>1, <2>2
  <2>3. CASE proc[p].tasks[u] = "failed"
    BY <1>12, <1>13, <2>1, <2>3 DEF Settled
  <2> QED BY <2>1, <2>2, <2>3
<1>16. B \subseteq Tasks
  OBVIOUS
<1> HIDE DEF B
<1>17. /\ Outcomes[d] = OutcomeOf(d) /\ Verdicts[d] = "none"
       /\ Outcomes' = [Outcomes EXCEPT ![d] = s] /\ UNCHANGED Verdicts
  <2> HIDE DEF s
  <2> QED BY <1>9, <1>10, <1>11, OneShows
<1>18. s = [t \in Run!Tasks |-> IF t \in B THEN "blocked" ELSE Outcomes[d][t]]
  BY <1>17, SameTasks
<1>19. \A t \in B : Outcomes[d][t] = "waiting"
  BY <1>13, <1>17
<1> HIDE DEF s
<1>20. Run!Block(d, B)
  BY <1>15, <1>17, <1>18, <1>19 DEF Run!Block, Run!Becomes, Outcomes, Verdicts
<1> QED BY <1>16, <1>20, SameTasks DEF Run!Next

LEMMA PublishIsDecide ==
    ASSUME IInv, XInv, NEW p \in Procs, Publish(p), ~Leaves(p)
    PROVE  Run!Next
<1>1. PICK d \in Dirs : /\ d = proc[p].dir /\ Holding(proc[p], d) /\ BoundTo(d)
                        /\ disk[d] \in Files /\ Loadable(disk[d])
  BY TakenIsHeld DEF Taken, Publish, At
<1>2. PICK m : m = Manifest(proc[p].claim, proc[p].tasks, disk[d].results)
  OBVIOUS
<1>3. /\ proc[p].pc = "anchor" /\ Releasable(proc[p].tasks) /\ UNCHANGED dispatched
      /\ disk' = [disk EXCEPT ![d] = [disk[d] EXCEPT !.status = m.verdict,
                                        !.tasks = proc[p].tasks, !.file = m, !.anchor = m]]
  BY <1>1, <1>2 DEF Publish, At, IInv, TypeOK
<1>4. /\ disk'[d] = [disk[d] EXCEPT !.status = m.verdict, !.tasks = proc[p].tasks,
                                    !.file = m, !.anchor = m]
      /\ \A e \in Dirs : e # d => disk'[e] = disk[e]
  BY <1>1, <1>3 DEF IInv, TypeOK
<1>5. m.verdict = TerminalStatus(proc[p].tasks) /\ m.verdict \in {"completed", "failed"}
  BY <1>2, <1>3 DEF Manifest, Releasable
<1>6. disk[d] # None /\ disk'[d] # None
  BY <1>1, PublishKeeps DEF Moves, Lasting, BoundTo
<1>7. /\ disk'[d].results = disk[d].results
      /\ disk'[d].status = TerminalStatus(proc[p].tasks)
  BY <1>1, <1>4, <1>5 DEF Files
<1>8. Mirrors(proc[p])
  BY <1>3 DEF XInv, Entitled
<1>9. /\ EarnedBy(TerminalStatus(proc[p].tasks), proc[p].tasks)
      /\ \A t \in Tasks : proc[p].tasks[t] \in Settled \cup {"blocked"}
  BY <1>1, <1>3, VerdictFits DEF Holding
<1>10. \A t \in Tasks : disk[d].results[t] = proc[p].tasks[t]
  BY <1>1, <1>3, <1>8, <1>9 DEF Mirrors
<1>11. \A t \in Tasks : OutcomeOf(d)[t] = proc[p].tasks[t]
  BY <1>6, <1>9, <1>10 DEF OutcomeOf, Settled
<1>12. OutcomeOf(d)' = OutcomeOf(d)
  BY <1>3, <1>6, <1>7 DEF OutcomeOf
<1>13. VerdictOf(d) = "none" /\ VerdictOf(d)' = TerminalStatus(proc[p].tasks)
  BY <1>5, <1>6, <1>7, <1>8, <1>1 DEF VerdictOf, Mirrors
<1>14. \A e \in Dirs : e # d => ShowsTheSame(e)
  BY <1>3, <1>4, UntouchedShowsTheSame
<1>15. /\ Outcomes[d] = OutcomeOf(d) /\ Verdicts[d] = "none" /\ UNCHANGED Outcomes
       /\ Verdicts' = [Verdicts EXCEPT ![d] = TerminalStatus(proc[p].tasks)]
  BY <1>12, <1>13, <1>14 DEF Outcomes, Verdicts, ShowsTheSame
<1>16. TerminalStatus(proc[p].tasks) = IF \A t \in Tasks : Outcomes[d][t] = "completed"
                                       THEN "completed" ELSE "failed"
  BY <1>5, <1>9, <1>11, <1>15 DEF EarnedBy
<1>17. \A t \in Tasks : Outcomes[d][t] \in {"completed", "failed", "blocked"}
  BY <1>9, <1>11, <1>15 DEF Settled
<1>18. Run!Decide(d)
  BY <1>15, <1>16, <1>17, SameTasks DEF Run!Decide, Outcomes, Verdicts
<1> QED BY <1>18 DEF Run!Next

\* What changes nothing in the files and gives no task to a worker.
LEMMA FilesStay ==
    ASSUME UNCHANGED <<disk, dispatched>>
    PROVE  UNCHANGED <<Outcomes, Verdicts>>
BY UntouchedShowsTheSame, NothingShows

LEMMA CheckShowsNothing ==
    ASSUME IInv, XInv, NEW p \in Procs, Check(p)
    PROVE  UNCHANGED <<Outcomes, Verdicts>>
<1> DEFINE seen == proc[p].seen
<1>1. /\ Entitled(p) /\ proc[p].pc = "check" /\ GoodSeen(seen) /\ UNCHANGED dispatched
  BY DEF Check, At, IInv, XInv, GoodMemory
<1>2. \A d \in DOMAIN seen : seen[d] # None =>
         d \in Dirs /\ disk[d] # None /\ disk[d] \in Files /\ disk[d].req = seen[d].req
  BY <1>1 DEF GoodSeen, Seens, IInv, TypeOK
<1>3. \A d \in Dirs :
         \/ disk'[d] = disk[d]
         \/ disk[d] \in Files /\ disk[d] # None /\ disk'[d] = Reconciled(disk[d])
  BY <1>1, <1>2, CheckTouches DEF Entitled
<1>4. ASSUME NEW d \in Dirs PROVE ShowsTheSame(d)
  <2>1. CASE disk'[d] = disk[d]
    BY <1>1, <2>1, UntouchedShowsTheSame
  <2>2. CASE disk'[d] # disk[d]
    <3>1. /\ disk[d] \in Files /\ disk[d] # None /\ disk'[d] = Reconciled(disk[d])
          /\ disk'[d].status = "interrupted" /\ disk'[d].results = disk[d].results
      BY <1>3, <2>2, ReconciledShows
    <3>2. disk'[d] # None
      BY <3>1, CheckKeeps DEF Moves, Lasting
    <3>3. disk[d].status \notin Settled
      <4>1. ValidState(disk[d].status, disk[d].tasks)
        BY <3>1 DEF IInv, GoodFiles, Loadable
      <4>2. disk[d].status = "running" \/ \E t \in Tasks : disk[d].tasks[t] = "running"
        BY <2>2, <3>1 DEF Reconciled
      <4> QED BY <4>1, <4>2 DEF ValidState, TerminalStatus, Unfinished, Settled
    <3> QED BY <1>1, <3>1, <3>2, <3>3, WrittenShowsTheSame DEF Settled
  <2> QED BY <2>1, <2>2
<1> QED BY <1>4, NothingShows

LEMMA CreateShowsNothing ==
    ASSUME IInv, XInv, NEW p \in Procs, Create(p)
    PROVE  UNCHANGED <<Outcomes, Verdicts>>
<1>1. CASE Leaves(p)
  BY <1>1, FilesStay DEF Leaves
<1>2. CASE ~Leaves(p)
  <2>1. PICK d \in Dirs : d = proc[p].dir
    BY DEF Create, At, IInv, GoodMemory, Asking, Dirs
  <2> DEFINE new == [req |-> proc[p].req, status |-> "running", tasks |-> InitialTasks,
                     results |-> NoResults, file |-> None, anchor |-> None]
  <2>2. disk[d] = None /\ disk' = [disk EXCEPT ![d] = new] /\ UNCHANGED dispatched
    BY <1>2, <2>1 DEF Create
  <2>3. new.status = "running" /\ new.results = NoResults
    OBVIOUS
  <2> HIDE DEF new
  <2>4. disk'[d] = new /\ \A e \in Dirs : e # d => disk'[e] = disk[e]
    BY <2>2 DEF IInv, TypeOK
  <2>5. \A t \in Tasks : dispatched[d][t] = 0
    BY <2>2 DEF XInv, Kept
  <2>6. ShowsTheSame(d)
    BY <2>2, <2>3, <2>4, <2>5 DEF ShowsTheSame, OutcomeOf, VerdictOf, NoResults
  <2>7. \A e \in Dirs : ShowsTheSame(e)
    BY <2>2, <2>4, <2>6, UntouchedShowsTheSame
  <2> QED BY <2>7, NothingShows
<1> QED BY <1>1, <1>2

LEMMA StateWritesShowNothing ==
    ASSUME IInv, XInv, NEW p \in Procs,
           PersistSuspended(p) \/ RecordTask(p) \/ Relock(p)
    PROVE  UNCHANGED <<Outcomes, Verdicts>>
<1>1. PICK d \in Dirs : /\ d = proc[p].dir /\ Holding(proc[p], d) /\ BoundTo(d)
                        /\ disk[d] \in Files /\ disk[d] # None
  BY TakenIsHeld DEF Taken, AtWork, PersistSuspended, RecordTask, Relock, At, BoundTo
<1>2. disk'[d] # None
  BY <1>1, PersistSuspendedKeeps, RecordTaskKeeps, RelockKeeps DEF Moves, Lasting
<1>3. Entitled(p)
  BY DEF XInv
<1>4. CASE Leaves(p)
  BY <1>4, FilesStay DEF Leaves
<1>5. CASE ~Leaves(p)
  <2>1. UNCHANGED dispatched
    BY <1>5 DEF PersistSuspended, RecordTask, Relock
  <2>2. /\ \A e \in Dirs : e # d => disk'[e] = disk[e]
        /\ disk'[d].results = disk[d].results
        /\ disk'[d].status \in {"running", "suspended"}
        /\ disk[d].status \in {"running", "suspended"}
    <3>1. CASE PersistSuspended(p)
      <4>1. /\ disk' = [disk EXCEPT ![d].status = "suspended"] /\ proc[p].pc = "suspend"
        BY <1>1, <3>1 DEF PersistSuspended, At
      <4> QED BY <1>1, <1>3, <4>1 DEF Files, IInv, TypeOK, Entitled, IsNew
    <3>2. CASE RecordTask(p)
      <4>1. PICK s : /\ disk' = [disk EXCEPT ![d].status = "running", ![d].tasks = s,
                                             ![d].anchor = None]
                     /\ proc[p].pc \in AtWork
        BY <1>1, <3>2 DEF RecordTask, Persist, AtWork
      <4>2. disk[d].status = "running"
        BY <1>1, <1>3, <4>1 DEF Entitled, Mirrors
      <4>3. /\ \A e \in Dirs : e # d => disk'[e] = disk[e]
            /\ disk'[d] = [disk[d] EXCEPT !.status = "running", !.tasks = s, !.anchor = None]
        BY <4>1 DEF IInv, TypeOK
      <4> QED BY <1>1, <4>2, <4>3 DEF Files
    <3>3. CASE Relock(p)
      <4>1. /\ disk' = [disk EXCEPT ![d] = [disk[d] EXCEPT !.status = "running", !.anchor = None,
                                                           !.tasks = InitialTasks]]
            /\ proc[p].pc = "relock"
        BY <1>1, <1>5, <3>3 DEF Relock, At, IInv, TypeOK
      <4>2. disk[d].status = "suspended"
        BY <1>1, <1>3, <4>1 DEF Entitled, Suspended
      <4>3. /\ \A e \in Dirs : e # d => disk'[e] = disk[e]
            /\ disk'[d] = [disk[d] EXCEPT !.status = "running", !.anchor = None,
                                          !.tasks = InitialTasks]
        BY <4>1 DEF IInv, TypeOK
      <4> QED BY <1>1, <4>2, <4>3 DEF Files
    <3> QED BY <3>1, <3>2, <3>3
  <2>3. ShowsTheSame(d)
    BY <1>1, <1>2, <2>1, <2>2, WrittenShowsTheSame DEF Settled
  <2>4. \A e \in Dirs : ShowsTheSame(e)
    BY <2>1, <2>2, <2>3, UntouchedShowsTheSame
  <2> QED BY <2>4, NothingShows
<1> QED BY <1>4, <1>5

(* Each step of the processes is a step of a run of the plan, or none.     *)
LEMMA NextIsRunStep ==
    ASSUME IInv, XInv, [Next]_vars
    PROVE  Run!Next \/ UNCHANGED <<Outcomes, Verdicts>>
<1>1. CASE UNCHANGED vars
  BY <1>1, FilesStay DEF vars, store
<1>2. ASSUME NEW p \in Procs, Step(p)
      PROVE  Run!Next \/ UNCHANGED <<Outcomes, Verdicts>>
  <2>1. CASE StartTask(p) \/ FinishTask(p) \/ Refuse(p) \/ Settle(p)
    BY <2>1, StartTaskIsBegin, FinishTaskIsFinish, RefuseIsRefuse, SettleIsBlock
  <2>2. CASE Publish(p)
    BY <2>2, PublishIsDecide, FilesStay DEF Leaves
  <2>3. CASE Check(p) \/ Create(p) \/ PersistSuspended(p) \/ RecordTask(p) \/ Relock(p)
    BY <2>3, CheckShowsNothing, CreateShowsNothing, StateWritesShowNothing
  <2>4. CASE \/ Lookup(p) \/ Acquire(p) \/ Scan(p) \/ Bind(p) \/ Admit(p) \/ Suspend(p)
             \/ Release(p) \/ Unlink(p) \/ Answer(p) \/ TakeRecord(p)
    BY <2>4, FilesStay
       DEF Lookup, Acquire, Scan, Bind, Admit, Suspend, Release, Unlink, Answer, TakeRecord,
           Leaves, store
  <2> QED BY <1>2, <2>1, <2>2, <2>3, <2>4 DEF Step
<1>3. ASSUME NEW p \in Procs, Crash(p) \/ (\E r \in Requests : Execute(p, r))
                                       \/ (\E e \in Execs : Resume(p, e))
      PROVE  UNCHANGED <<Outcomes, Verdicts>>
  BY <1>3, FilesStay DEF Crash, Execute, Resume, store
<1>4. ASSUME NEW s \in Scopes, Recover(s)
      PROVE  UNCHANGED <<Outcomes, Verdicts>>
  BY <1>4, FilesStay DEF Recover, store
<1>5. ASSUME NEW p \in Procs, Contradict(p) PROVE Run!Next
  BY <1>5, ContradictIsRetract
<1> QED BY <1>1, <1>2, <1>3, <1>4, <1>5 DEF Next

(* Whatever happens between the processes, every execution on disk is a run *)
(* of its plan: no task is begun twice or before its dependencies are done, *)
(* none after a failure it depends on, and the verdict is final             *)
(* (executor.py:624); no two resumes are to read one suspension record.     *)
THEOREM ExecutionsAreRuns == Spec /\ []ResumesApart => ImplementsBuildRun
<1>1. Init => Run!Init
  <2> SUFFICES ASSUME Init PROVE Run!Init
    OBVIOUS
  <2>1. \A d \in Dirs : OutcomeOf(d) = [t \in Tasks |-> "waiting"] /\ VerdictOf(d) = "none"
    BY DEF Init, OutcomeOf, VerdictOf
  <2> QED BY <2>1, SameTasks DEF Run!Init
<1>2. IInv /\ XInv /\ [Next]_vars => [Run!Next]_<<Outcomes, Verdicts>>
  BY NextIsRunStep
<1>3. Spec /\ []ResumesApart => [](IInv /\ XInv)
  BY XInvHolds
<1> QED BY <1>1, <1>2, <1>3, PTL DEF Spec, ImplementsBuildRun, Run!Spec, Outcomes, Verdicts

============================================================================
