--------------------------- MODULE BuildExecution ---------------------------
(***************************************************************************)
(* BuildExecutor, ExecutionStore, GlobalAuthorityRegistry, IdempotencyIndex*)
(* and OperationEnvelope (runtime/src/audisor/builder): processes that     *)
(* execute prepared builds, and what they leave on disk.                   *)
(*                                                                         *)
(* A process holds at most one file lock of each kind; the system frees    *)
(* them when it dies.  An exception that leaves execute does no more than  *)
(* that either: everything durable stays, the global claim included.       *)
(***************************************************************************)
EXTENDS TaskScheduler

CONSTANTS Procs,        \* processes that call execute
          Resumers,     \* those of them that also call resume_execution
          Requests,     \* requests: records [key, build, exec, scope]
          None,
          MaxCalls,     \* bound: calls of execute and resume_execution
          MaxCrashes    \* bound: crashes, or exceptions that leave a call

\* The directory of an execution: builds/<build>/executions/<exec>.
DirOf(r) == [build |-> r.build, exec |-> r.exec]
Dirs   == {DirOf(r) : r \in Requests}
Keys   == {r.key : r \in Requests}
Builds == {r.build : r \in Requests}
Execs  == {r.exec : r \in Requests}
Scopes == {r.scope : r \in Requests}

Results   == [Tasks -> {"none", "completed", "failed", "blocked"}]
Manifests == [claim : Nat, verdict : {"completed", "failed"}, results : Results]
Claims    == [id : Nat, dir : Dirs]
Status == {"running", "suspended", "completed", "failed", "interrupted"}
Files  == [req : Requests, status : Status, tasks : [Tasks -> TaskStatus], results : Results,
           file : Manifests \cup {None}, anchor : Manifests \cup {None}]

ASSUME ConfigAssumption ==
    /\ Resumers \subseteq Procs /\ Execs \subseteq Nat
    /\ None \notin Procs \cup Dirs \cup Requests \cup Manifests \cup Claims \cup Files
    /\ MaxCalls \in Nat /\ MaxCrashes \in Nat

VARIABLES
    disk,        \* Dirs -> the files of an execution, or None
    execLock,    \* Dirs -> the process that holds its .execution.lock, or None
    claimsLock,  \* Builds -> the process that holds its .claims.lock, or None
    active,      \* Scopes -> the active authority claim, or None
    history,     \* the outcomes of the claims that are no longer active
    bound,       \* Keys -> the request the idempotency key is bound to, or None
    envelope,    \* Execs -> the directory of the suspended operation, or None
    proc,        \* the processes: where each is, and what it has in memory
    dispatched,  \* Dirs -> Tasks -> how often a worker was given the task
    claims, calls, crashes   \* counters

store == <<disk, execLock, claimsLock>>
authority == <<active, history, claims>>
vars == <<store, authority, bound, envelope, proc, dispatched, calls, crashes>>

Idle == [pc |-> "idle", req |-> None, dir |-> None, claim |-> 0,
         seen |-> None, new |-> FALSE, tasks |-> InitialTasks, task |-> 0]

NoResults == [t \in Tasks |-> "none"]

\* What the terminal manifest anchors: the claim, the verdict, the results.
Manifest(c, s, res) == [claim |-> c, verdict |-> TerminalStatus(s), results |-> res]

\* A record load_state and validate_state accept.
Loadable(x) ==
    /\ ValidState(x.status, x.tasks)
    /\ x.status \in {"completed", "failed"} => x.anchor # None
    /\ x.status = "running" => x.anchor = None

\* The record _reconcile_stale leaves of a state whose process is gone.
Reconciled(x) ==
    IF x.status = "running" \/ \E t \in Tasks : x.tasks[t] = "running"
    THEN [x EXCEPT !.status = "interrupted", !.tasks = InterruptRunning(x.tasks)]
    ELSE x

Released(c, m) == [claim |-> c, outcome |-> "released", manifest |-> m]

\* The manifest is the one the state names, and every artifact it lists is
\* there with the digest it had.
ManifestVerified(x) == x.file = x.anchor /\ x.file.results = x.results

\* The claim and the release the manifest lists agree with the history of the
\* authority.
AuthorityReleased(x) == Released(x.file.claim, x.file) \in history

\* final_state: a terminal status is believed only when the manifest and the
\* released authority claim bear it out.
FinalState(d) ==
    LET x == disk[d] IN
    IF ~Loadable(x) THEN "not_valid"
    ELSE IF x.status \notin {"completed", "failed"} THEN x.status
    ELSE IF ManifestVerified(x) /\ AuthorityReleased(x)
    THEN x.status ELSE "not_valid"

Init ==
    /\ disk = [d \in Dirs |-> None]
    /\ execLock = [d \in Dirs |-> None]
    /\ claimsLock = [b \in Builds |-> None]
    /\ active = [s \in Scopes |-> None]
    /\ history = {}
    /\ bound = [k \in Keys |-> None]
    /\ envelope = [e \in Execs |-> None]
    /\ proc = [p \in Procs |-> Idle]
    /\ dispatched = [d \in Dirs |-> [t \in Tasks |-> 0]]
    /\ claims = 0 /\ calls = 0 /\ crashes = 0

At(p, pc) == proc[p].pc = pc
Go(p, pc) == proc' = [proc EXCEPT ![p].pc = pc]

Unlocked(lock, p) == [l \in DOMAIN lock |-> IF lock[l] = p THEN None ELSE lock[l]]

\* The call of p is over, normally or by an exception.
Ends(p) ==
    /\ proc' = [proc EXCEPT ![p] = Idle]
    /\ execLock' = Unlocked(execLock, p)
    /\ claimsLock' = Unlocked(claimsLock, p)

Leaves(p) ==
    /\ Ends(p)
    /\ UNCHANGED <<disk, authority, bound, envelope, dispatched, calls, crashes>>

----------------------------------------------------------------------------
(* execute, up to the execution's own directory and lock *)

Execute(p, r) ==
    /\ At(p, "idle") /\ calls < MaxCalls
    /\ proc' = [proc EXCEPT ![p] = [Idle EXCEPT !.pc = "lookup", !.req = r, !.dir = DirOf(r)]]
    /\ calls' = calls + 1
    /\ UNCHANGED <<store, authority, bound, envelope, dispatched, crashes>>

\* A key that is bound is answered with the durable state, or is a conflict.
Lookup(p) ==
    /\ At(p, "lookup")
    /\ \/ bound[proc[p].req.key] # None /\ Leaves(p)
       \/ /\ bound[proc[p].req.key] = None
          /\ Go(p, "acquire")
          /\ UNCHANGED <<store, authority, bound, envelope, dispatched, calls, crashes>>

\* The mutex of a scope is held from the history's publication to the unlink.
MutexHeld(s) == \E q \in Procs : At(q, "unlink") /\ proc[q].req.scope = s

\* Mutant: a claim that is active is replaced.
AcquireAnyway(p) ==
    LET s == proc[p].req.scope IN
    /\ At(p, "acquire") /\ ~MutexHeld(s)
    /\ claims' = claims + 1
    /\ active' = [active EXCEPT ![s] = [id |-> claims', dir |-> proc[p].dir]]
    /\ proc' = [proc EXCEPT ![p].pc = "scan", ![p].claim = claims']
    /\ UNCHANGED <<store, history, bound, envelope, dispatched, calls, crashes>>

\* Mutant: the caller waits for the claim of another.
AcquireWaits(p) ==
    /\ At(p, "acquire") /\ active[proc[p].req.scope] = None
    /\ AcquireAnyway(p)

\* A claim that is active is a conflict; a new one is published otherwise.
Acquire(p) ==
    LET s == proc[p].req.scope IN
    /\ At(p, "acquire") /\ ~MutexHeld(s)
    /\ \/ active[s] # None /\ Leaves(p)
       \/ /\ active[s] = None
          /\ claims' = claims + 1
          /\ active' = [active EXCEPT ![s] = [id |-> claims', dir |-> proc[p].dir]]
          /\ proc' = [proc EXCEPT ![p].pc = "scan", ![p].claim = claims']
          /\ UNCHANGED <<store, history, bound, envelope, dispatched, calls, crashes>>

\* claim(): every record of the build is read under the claims lock; the wait
\* for that lock ends after ten seconds.
Scan(p) ==
    LET b == proc[p].req.build IN
    /\ At(p, "scan")
    /\ \/ claimsLock[b] # None /\ Leaves(p)
       \/ /\ claimsLock[b] = None
          /\ claimsLock' = [claimsLock EXCEPT ![b] = p]
          /\ proc' = [proc EXCEPT ![p].pc = "check",
                                  ![p].seen = [d \in {e \in Dirs : e.build = b} |-> disk[d]]]
          /\ UNCHANGED <<disk, execLock, authority, bound, envelope, dispatched, calls, crashes>>

\* The records are gone through in order of their names, as they were read:
\* one of the request's key or execution id decides, and so does one that runs
\* under its authority; one whose process is gone is interrupted on the way.
\* That each of them passes validate_state first is DiskStateValid, below.
Check(p) ==
    LET r       == proc[p].req
        seen    == proc[p].seen
        recs    == {d \in DOMAIN seen : seen[d] # None}
        Rivals(d) == seen[d].status = "running" /\ seen[d].req.scope = r.scope
        Broken(d) == ~Loadable(Reconciled(seen[d]))
        Decides(d) == \/ seen[d].req.key = r.key
                      \/ d = proc[p].dir
                      \/ Rivals(d) /\ (execLock[d] # None \/ Broken(d))
        first   == {d \in recs : Decides(d) /\ \A e \in recs : Decides(e) => d.exec <= e.exec}
        stale   == {d \in recs : Rivals(d) /\ ~Decides(d) /\ \A e \in first : d.exec < e.exec}
        Leaving(ds) == [d \in Dirs |-> IF d \in ds THEN Reconciled(seen[d]) ELSE disk[d]]
        Same(d) == seen[d].req = r
        Held(d) == execLock[d] # None
    IN
    /\ At(p, "check")
    /\ \/ /\ first = {}
          /\ disk' = Leaving(stale)
          /\ proc' = [proc EXCEPT ![p].pc = "create", ![p].seen = None]
          /\ UNCHANGED <<execLock, claimsLock>>
       \/ \E d \in first :
             /\ Same(d) /\ (Held(d) \/ ~Broken(d))
             /\ disk' = Leaving(stale \cup (IF Held(d) THEN {} ELSE {d}))
             /\ execLock' = IF Held(d) THEN execLock ELSE [execLock EXCEPT ![d] = p]
             /\ claimsLock' = Unlocked(claimsLock, p)
             /\ proc' = [proc EXCEPT ![p].pc = "bind", ![p].seen = None]
       \/ \E d \in first :
             /\ ~(Same(d) /\ (Held(d) \/ ~Broken(d)))
             /\ disk' = Leaving(stale)
             /\ Ends(p)
    /\ UNCHANGED <<authority, bound, envelope, dispatched, calls, crashes>>

\* The files are staged and renamed into place, then the execution is locked;
\* every other taker of that lock holds the claims lock or finds it suspended.
\* When the name is taken or the workspace cannot be copied nothing is left.
Create(p) ==
    LET d == proc[p].dir IN
    /\ At(p, "create")
    /\ \/ Leaves(p)
       \/ /\ disk[d] = None
          /\ disk' = [disk EXCEPT ![d] =
                 [req |-> proc[p].req, status |-> "running", tasks |-> InitialTasks,
                  results |-> NoResults, file |-> None, anchor |-> None]]
          /\ execLock' = [execLock EXCEPT ![d] = p]
          /\ claimsLock' = Unlocked(claimsLock, p)
          /\ proc' = [proc EXCEPT ![p].pc = "bind", ![p].new = TRUE]
          /\ UNCHANGED <<authority, bound, envelope, dispatched, calls, crashes>>

\* Mutant: the key is bound again.
BindAnyway(p) ==
    LET r == proc[p].req IN
    /\ At(p, "bind")
    /\ bound' = [bound EXCEPT ![r.key] = r]
    /\ IF proc[p].new
       THEN Go(p, "analyse") /\ UNCHANGED <<execLock, claimsLock>>
       ELSE Ends(p)
    /\ UNCHANGED <<disk, authority, envelope, dispatched, calls, crashes>>

\* A key is bound once and for all.  An execution that was there before is
\* never taken up again: its authority has to be recovered.
Bind(p) ==
    LET r == proc[p].req IN
    /\ At(p, "bind")
    /\ \/ bound[r.key] \notin {None, r} /\ Leaves(p)
       \/ /\ bound[r.key] \in {None, r}
          /\ bound' = [bound EXCEPT ![r.key] = r]
          /\ IF proc[p].new
             THEN Go(p, "analyse") /\ UNCHANGED <<execLock, claimsLock>>
             ELSE Ends(p)
          /\ UNCHANGED <<disk, authority, envelope, dispatched, calls, crashes>>

----------------------------------------------------------------------------
(* the A-Flow analysis, which lets the build run, fails it or suspends it *)

Admit(p) ==
    /\ At(p, "analyse") /\ Go(p, "loop")
    /\ UNCHANGED <<store, authority, bound, envelope, dispatched, calls, crashes>>

\* _finalize_audisor_failure: every task gets a result, none is dispatched.
Refuse(p) ==
    LET refused == [t \in Tasks |-> IF t \in Roots THEN "failed" ELSE "blocked"] IN
    /\ At(p, "analyse")
    /\ disk' = [disk EXCEPT ![proc[p].dir].results = refused]
    /\ proc' = [proc EXCEPT ![p].pc = "anchor", ![p].tasks = refused]
    /\ UNCHANGED <<execLock, claimsLock, authority, bound, envelope, dispatched, calls, crashes>>

\* _suspend_for_routing, when the routing flag is set: the suspension record
\* first, the state of the execution after it.
Suspend(p) ==
    /\ At(p, "analyse")
    /\ envelope' = [envelope EXCEPT ![proc[p].dir.exec] = proc[p].dir]
    /\ Go(p, "suspend")
    /\ UNCHANGED <<store, authority, bound, dispatched, calls, crashes>>

PersistSuspended(p) ==
    /\ At(p, "suspend")
    /\ disk' = [disk EXCEPT ![proc[p].dir].status = "suspended"]
    /\ Ends(p)
    /\ UNCHANGED <<authority, bound, envelope, dispatched, calls, crashes>>

----------------------------------------------------------------------------
(* the task loop *)

\* A process writes state.json from its own copy of the state.
Persist(p, s) ==
    /\ disk' = [disk EXCEPT ![proc[p].dir].status = "running",
                            ![proc[p].dir].tasks = s,
                            ![proc[p].dir].anchor = None]
    /\ UNCHANGED <<execLock, claimsLock, authority, bound, envelope, calls, crashes>>

\* The task is running on disk before the worker is given it.
StartTask(p) ==
    LET t == NextReady(proc[p].tasks)
        s == MarkRunning(proc[p].tasks, t)
    IN
    /\ At(p, "loop") /\ ReadyTasks(proc[p].tasks) # {}
    /\ proc' = [proc EXCEPT ![p].pc = "work", ![p].tasks = s, ![p].task = t]
    /\ dispatched' = [dispatched EXCEPT ![proc[p].dir][t] = @ + 1]
    /\ Persist(p, s)

\* The evidence of a task, and its result after it.
WithResult(d, t, outcome) == [disk EXCEPT ![d].results[t] = outcome]

\* The worker's plan is carried out in the workspace, or something in it
\* fails; the result is on disk before the state that counts it.
FinishTask(p) ==
    /\ At(p, "work")
    /\ \E outcome \in {"completed", "failed"} :
          /\ disk' = WithResult(proc[p].dir, proc[p].task, outcome)
          /\ Go(p, outcome)
    /\ UNCHANGED <<execLock, claimsLock, authority, bound, envelope, dispatched, calls, crashes>>

RecordTask(p) ==
    LET s == IF At(p, "completed")
             THEN MarkCompleted(proc[p].tasks, proc[p].task)
             ELSE MarkFailed(proc[p].tasks, proc[p].task)
    IN
    /\ proc[p].pc \in {"completed", "failed"}
    /\ proc' = [proc EXCEPT ![p].pc = "loop", ![p].tasks = s, ![p].task = 0]
    /\ Persist(p, s)
    /\ UNCHANGED dispatched

\* The state that counts a completed task is not written.  The handler of the
\* exception puts a failed result in the place of the completed one, and then
\* mark_failed raises: in memory the task is completed.
Contradict(p) ==
    /\ At(p, "completed") /\ crashes < MaxCrashes
    /\ crashes' = crashes + 1
    /\ disk' = WithResult(proc[p].dir, proc[p].task, "failed")
    /\ Ends(p)
    /\ UNCHANGED <<authority, bound, envelope, dispatched, calls>>

\* Mutant: blocked tasks are left without a result.
SettleSilently(p) ==
    /\ At(p, "loop") /\ ReadyTasks(proc[p].tasks) = {}
    /\ Go(p, "anchor")
    /\ UNCHANGED <<store, authority, bound, envelope, dispatched, calls, crashes>>

\* Nothing is ready: the blocked tasks get the result that says so.
Settle(p) ==
    /\ At(p, "loop") /\ ReadyTasks(proc[p].tasks) = {}
    /\ disk' = [disk EXCEPT ![proc[p].dir].results =
          [t \in Tasks |-> IF @[t] = "none" /\ proc[p].tasks[t] = "blocked"
                           THEN "blocked" ELSE @[t]]]
    /\ Go(p, "anchor")
    /\ UNCHANGED <<execLock, claimsLock, authority, bound, envelope, dispatched, calls, crashes>>

----------------------------------------------------------------------------
(* finalize_terminal, release, final_state *)

OwnsClaim(p) ==
    LET a == active[proc[p].req.scope] IN a # None /\ a.id = proc[p].claim

Releasable(s) == TerminalStatus(s) \in {"completed", "failed"}

\* With the claim still active its release evidence is published and copied,
\* then the manifest is written, and last the state that names its digest.
Publish(p) ==
    LET d == proc[p].dir
        m == Manifest(proc[p].claim, proc[p].tasks, disk[d].results)
    IN
    /\ At(p, "anchor")
    /\ \/ /\ Releasable(proc[p].tasks) /\ OwnsClaim(p)
          /\ disk' = [disk EXCEPT ![d] = [@ EXCEPT !.status = m.verdict, !.tasks = proc[p].tasks,
                                                   !.file = m, !.anchor = m]]
          /\ Go(p, "release")
          /\ UNCHANGED <<execLock, claimsLock, authority, bound, envelope, dispatched, calls, crashes>>
       \/ ~(Releasable(proc[p].tasks) /\ OwnsClaim(p)) /\ Leaves(p)

\* The history of the claim first, then the claim itself goes.
Release(p) ==
    /\ At(p, "release") /\ OwnsClaim(p)
    /\ history' = history \cup {Released(proc[p].claim, disk[proc[p].dir].anchor)}
    /\ Go(p, "unlink")
    /\ UNCHANGED <<store, active, claims, bound, envelope, dispatched, calls, crashes>>

Unlink(p) ==
    /\ At(p, "unlink")
    /\ active' = [active EXCEPT ![proc[p].req.scope] = None]
    /\ Go(p, "answer")
    /\ UNCHANGED <<store, history, claims, bound, envelope, dispatched, calls, crashes>>

Answer(p) == At(p, "answer") /\ Leaves(p)

----------------------------------------------------------------------------
(* resume_execution: only a suspended execution whose claim is still active *)

\* The record is read and the input checked against its schema.  An operation
\* without a record, or an input that does not fit, changes nothing.
Resume(p, e) ==
    /\ p \in Resumers /\ At(p, "idle") /\ calls < MaxCalls
    /\ envelope[e] # None
    /\ proc' = [proc EXCEPT ![p] = [Idle EXCEPT !.pc = "resume", !.dir = envelope[e]]]
    /\ calls' = calls + 1
    /\ UNCHANGED <<store, authority, bound, envelope, dispatched, crashes>>

\* The record goes first; what it stood for is looked at afterwards.
TakeRecord(p) ==
    LET d == proc[p].dir  a == active[disk[d].req.scope]
        fits == disk[d].status = "suspended" /\ a # None /\ a.dir.exec = d.exec
    IN
    /\ At(p, "resume")
    /\ envelope' = [envelope EXCEPT ![d.exec] = None]
    /\ \/ /\ fits
          /\ proc' = [proc EXCEPT ![p].pc = "relock", ![p].req = disk[d].req, ![p].claim = a.id]
          /\ UNCHANGED <<execLock, claimsLock>>
       \/ ~fits /\ Ends(p)
    /\ UNCHANGED <<disk, authority, bound, dispatched, calls, crashes>>

\* Every suspension comes before the first dispatch, so the run starts anew.
Relock(p) ==
    LET d == proc[p].dir IN
    /\ At(p, "relock")
    /\ \/ execLock[d] # None /\ Leaves(p)
       \/ /\ execLock[d] = None
          /\ execLock' = [execLock EXCEPT ![d] = p]
          /\ disk' = [disk EXCEPT ![d] = [@ EXCEPT !.status = "running", !.anchor = None,
                                                   !.tasks = InitialTasks]]
          /\ Go(p, "loop")
          /\ UNCHANGED <<claimsLock, authority, bound, envelope, dispatched, calls, crashes>>

----------------------------------------------------------------------------
(* the operator and the system *)

\* recover: an operator gives up the claim of an interrupted execution, one
\* that no process is at work on and that is not suspended, which is what
\* safe_to_release is to establish.
Recover(s) ==
    LET d == active[s].dir IN
    /\ active[s] # None
    /\ \A p \in Procs : proc[p].claim # active[s].id
    /\ disk[d] # None => disk[d].status # "suspended"
    /\ history' = history \cup {[claim |-> active[s].id, outcome |-> "recovered", manifest |-> None]}
    /\ active' = [active EXCEPT ![s] = None]
    /\ UNCHANGED <<store, claims, bound, envelope, proc, dispatched, calls, crashes>>

\* The process dies, or an error nothing handles leaves the call.
Crash(p) ==
    /\ ~At(p, "idle") /\ crashes < MaxCrashes
    /\ crashes' = crashes + 1
    /\ Ends(p)
    /\ UNCHANGED <<disk, authority, bound, envelope, dispatched, calls>>

Step(p) ==
    \/ Lookup(p) \/ Acquire(p) \/ Scan(p) \/ Check(p) \/ Create(p) \/ Bind(p)
    \/ Admit(p) \/ Refuse(p) \/ Suspend(p) \/ PersistSuspended(p)
    \/ StartTask(p) \/ FinishTask(p) \/ RecordTask(p) \/ Settle(p)
    \/ Publish(p) \/ Release(p) \/ Unlink(p) \/ Answer(p)
    \/ TakeRecord(p) \/ Relock(p)

Next ==
    \/ \E p \in Procs : Step(p) \/ Contradict(p) \/ Crash(p)
    \/ \E p \in Procs, r \in Requests : Execute(p, r)
    \/ \E p \in Procs, e \in Execs : Resume(p, e)
    \/ \E s \in Scopes : Recover(s)

Spec == Init /\ [][Next]_vars
FairSpec == Spec /\ \A p \in Procs : WF_vars(Step(p))

----------------------------------------------------------------------------
(* properties *)

\* The shape of the state: what is on disk, who may hold what, the counters.
TypeOK ==
    /\ disk \in [Dirs -> Files \cup {None}]
    /\ execLock \in [Dirs -> Procs \cup {None}]
    /\ claimsLock \in [Builds -> Procs \cup {None}]
    /\ active \in [Scopes -> Claims \cup {None}]
    /\ bound \in [Keys -> Requests \cup {None}]
    /\ envelope \in [Execs -> Dirs \cup {None}]
    /\ dispatched \in [Dirs -> [Tasks -> Nat]]
    /\ claims \in Nat /\ calls \in 0 .. MaxCalls /\ crashes \in 0 .. MaxCrashes

\* Whatever is interrupted when, the state on disk is one that load_state and
\* validate_state accept (execution_store.py:175, scheduler.py:42).
DiskStateValid == \A d \in Dirs : disk[d] # None => Loadable(disk[d])

\* The tasks a key asks for are given to workers in one execution only
\* (idempotency.py:185: "Immutable key-to-execution references").
KeyRunsOnce ==
    \A d, e \in Dirs :
        /\ \E t \in Tasks : dispatched[d][t] > 0
        /\ \E t \in Tasks : dispatched[e][t] > 0
        /\ disk[d].req.key = disk[e].req.key
        => d = e

Running(p) == proc[p].pc \in {"analyse", "loop", "work", "completed", "failed",
                              "anchor", "release", "unlink"}

\* Whoever runs an execution holds its lock and the active claim of its scope,
\* so no two processes are at work under one authority (executor.py:394).
ScopeIsExclusive ==
    /\ \A p \in Procs : Running(p) => execLock[proc[p].dir] = p /\ OwnsClaim(p)
    /\ \A p, q \in Procs :
          Running(p) /\ Running(q) /\ proc[p].req.scope = proc[q].req.scope => p = q

\* resume_execution reads the suspension record, and removes it, without a lock:
\* no two calls have read the same one.
ResumesApart ==
    \A p, q \in Procs :
        At(p, "resume") /\ At(q, "resume") /\ proc[p].dir = proc[q].dir => p = q

\* A status that final_state believes is borne out by the results: completed
\* means every task completed, failed means a task failed and that no task
\* was left without a result (execution_store.py:638).
VerdictIsEarned ==
    \A d \in Dirs : disk[d] # None =>
        LET res == disk[d].results IN
        /\ FinalState(d) = "completed" => \A t \in Tasks : res[t] = "completed"
        /\ FinalState(d) = "failed" =>
              /\ \E t \in Tasks : res[t] = "failed"
              /\ \A t \in Tasks : /\ res[t] # "none"
                                  /\ res[t] = "blocked" <=>
                                        \E u \in DependsOn[t] : res[u] # "completed"

\* What an execution has come to, as its directory and the workers show it.
OutcomeOf(d) ==
    [t \in Tasks |->
        IF disk[d] # None /\ disk[d].results[t] # "none" THEN disk[d].results[t]
        ELSE IF dispatched[d][t] > 0 THEN "running" ELSE "waiting"]
VerdictOf(d) ==
    IF disk[d] # None /\ disk[d].status \in {"completed", "failed"}
    THEN disk[d].status ELSE "none"

Run == INSTANCE BuildRun WITH Runs <- Dirs,
                              outcome <- [d \in Dirs |-> OutcomeOf(d)],
                              verdict <- [d \in Dirs |-> VerdictOf(d)]

\* Whatever happens between the processes, every execution on disk is a run
\* of its plan: no task twice, none before its dependencies, none after a
\* failure it depends on, a verdict that is final (executor.py:624), and no
\* result replaced but that of the last task, before anything builds on it.
ImplementsBuildRun == Run!Spec

\* Every call of execute or resume_execution ends.
CallsEnd == \A p \in Procs : ~At(p, "idle") ~> At(p, "idle")

----------------------------------------------------------------------------
(* what the repository says and the code does not do *)

Abandoned(d) == disk[d] # None /\ disk[d].status = "running" /\ execLock[d] = None

\* "test_unlocked_stale_running_state_becomes_interrupted"
\* (runtime/tests/test_execution_store.py:277): what an abandoned execution
\* would be reconciled to can be stored.
StaleIsInterruptible == \A d \in Dirs : Abandoned(d) => Loadable(Reconciled(disk[d]))

\* "The operation can be resumed via resume_execution() with appropriate
\* resume input" (executor.py:234): a suspended execution that nobody is
\* resuming, and that kept its claim, has its suspension record.
SuspendedCanBeResumed ==
    \A d \in Dirs :
        /\ disk[d] # None /\ disk[d].status = "suspended"
        /\ active[disk[d].req.scope] # None
        /\ \A p \in Procs : proc[p].dir # d
        => envelope[d.exec] = d

\* "Only a suspended execution can be resumed" (executor.py:273): no task is
\* given to a worker twice.
TaskRunsOnce == \A d \in Dirs, t \in Tasks : dispatched[d][t] <= 1
============================================================================
