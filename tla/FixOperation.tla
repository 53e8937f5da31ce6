----------------------------- MODULE FixOperation -----------------------------
(***************************************************************************)
(* One operation of the runtime: AudisorOperationExecutor.execute          *)
(* (runtime/operations/executor.py) with its operation store and its       *)
(* idempotency store, around AcceptedFixDispatcher.dispatch                *)
(* (audisor_backend/controllers/fix_host.py) with the Fix record and the   *)
(* qualified handoff.  Callers are threads; each lives in a process.  The  *)
(* files are shared by all processes, the rest is lost with its process.   *)
(*                                                                         *)
(* A request is its content, which is of a Fix, of a build or of a review  *)
(* that only reads, and the time stamp its authority is given when the     *)
(* request is translated.  Files are replaced as a whole.                  *)
(***************************************************************************)
EXTENDS Naturals, FiniteSets

CONSTANTS
  Callers, Processes,
  Home,         \* the process of each caller
  Contents,     \* contents of requests
  Mode,         \* the mode of each content: "fix", "build" or "analyze"
  Stamps,       \* time stamps
  None,
  MaxSubmits,   \* bound: requests submitted
  MaxCrashes    \* bound: crashes of processes

ASSUME FixOperationAssumption ==
  /\ Home \in [Callers -> Processes]
  /\ Mode \in [Contents -> { "fix", "build", "analyze" }]
  /\ None \notin Callers
  /\ MaxSubmits \in Nat /\ MaxCrashes \in Nat

VARIABLES
  pc,         \* where each caller is in execute
  req,        \* its request
  out,        \* the status of the result it is about to return
  known,      \* per process: keys in the in-memory idempotency store
  mem,        \* per process: the operation in AudisorOperationStore._operations
  file,       \* the operation's file
  lock,       \* per process: holder of the operation's dispatch lock
  fix,        \* status of the Fix record's file
  handoff,    \* qualified-fix-handoff.json exists
  artifacts,  \* files of the operation in the artifact store
  runs,       \* executions begun
  ignitions,  \* evaluations by the model
  launches,   \* launches of Codex
  answers,    \* results returned
  submits, crashes

vars == << pc, req, out, known, mem, file, lock, fix, handoff, artifacts, runs,
           ignitions, launches, answers, submits, crashes >>

store == << known, mem, file >>
host  == << lock, fix, handoff, artifacts, ignitions >>
count == << submits, crashes >>

Request == [content : Contents, stamp : Stamps]

NoOperation == [status |-> "absent", request |-> None]

Finished == { "completed", "failed", "blocked" }

(* AudisorOperationStore._persist of a state by caller c. *)
Persist(c, status, request) ==
  /\ mem' = [mem EXCEPT ![Home[c]] = [status |-> status, request |-> request]]
  /\ file' = [status |-> status, request |-> request]

Mark(c, status) == Persist(c, status, mem[Home[c]].request)

Step(c, from, to) == pc[c] = from /\ pc' = [pc EXCEPT ![c] = to]

Answer(c, kind, status) ==
  answers' = answers \cup
    { [kind |-> kind, content |-> req[c].content, status |-> status] }

------------------------------------------------------------------------------
(* The executor, up to the dispatch *)

Submit(c, r) ==
  /\ submits < MaxSubmits
  /\ submits' = submits + 1
  /\ Step(c, "idle", "check")
  /\ req' = [req EXCEPT ![c] = r]
  /\ UNCHANGED << out, store, host, runs, launches, answers, crashes >>

(* The operation's context cannot be built: nothing is stored. *)
Reject(c) ==
  /\ Step(c, "check", "idle")
  /\ Answer(c, "rejected", "blocked")
  /\ UNCHANGED << req, out, store, host, runs, launches, count >>

(* The key is generated from the content: a replay is a known key. *)
Replayed(c) ==
  LET op == mem[Home[c]] IN
  \/ req[c].content \in known[Home[c]] /\ op.status \in Finished
  \/ op.request = req[c]

(* _to_operation_response knows no pending or running operation. *)
Reported(status) == IF status \in { "pending", "running" } THEN "completed" ELSE status

(* create: IdempotencyStore.check and the look at _operations. *)
CreateNew(c) ==
  /\ mem[Home[c]] = NoOperation
  /\ Step(c, "check", "create")
  /\ known' = [known EXCEPT ![Home[c]] = @ \cup { req[c].content }]
  /\ UNCHANGED << req, out, mem, file, host, runs, launches, answers, count >>

CreateExisting(c) ==
  /\ mem[Home[c]] # NoOperation
  /\ Step(c, "check", "idle")
  /\ known' = [known EXCEPT ![Home[c]] = @ \cup { req[c].content }]
  /\ IF Replayed(c)
     THEN Answer(c, "replay", Reported(mem[Home[c]].status))
     ELSE Answer(c, "conflict", "blocked")
  /\ UNCHANGED << req, out, mem, file, host, runs, launches, count >>

(* The file is written before _operations is. *)
Create(c) ==
  /\ Step(c, "create", "start")
  /\ Persist(c, "pending", req[c])
  /\ runs' = runs + 1
  /\ UNCHANGED << req, out, known, host, launches, answers, count >>

Start(c) ==
  /\ Step(c, "start", "authorize")
  /\ Mark(c, "running")
  /\ UNCHANGED << req, out, known, host, runs, launches, answers, count >>

Blocked(c, from) ==
  /\ Step(c, from, "idle")
  /\ Mark(c, "blocked")
  /\ Answer(c, "run", "blocked")
  /\ UNCHANGED << req, out, known, host, runs, launches, count >>

(* The authority does not allow the paths. *)
Block(c) == Blocked(c, "authorize")

ModeOf(c) == Mode[req[c].content]

(* The authority allows the paths; the receipt it gives names them. *)
Authorize(c) ==
  /\ Step(c, "authorize", IF ModeOf(c) = "fix" THEN "package" ELSE "worker")
  /\ UNCHANGED << req, out, store, host, runs, launches, answers, count >>

------------------------------------------------------------------------------
(* A build or a review: one answer of the model, persisted as an artifact *)

WorkerAnswers(c) ==
  /\ Step(c, "worker", "artifact")
  /\ UNCHANGED << req, out, store, host, runs, launches, answers, count >>

(* The provider fails, or its answer cannot be written. *)
WorkerFails(c) ==
  /\ pc[c] \in { "worker", "artifact" }
  /\ pc' = [pc EXCEPT ![c] = "fail"]
  /\ UNCHANGED << req, out, store, host, runs, launches, answers, count >>

ArtifactOf(mode) == IF mode = "build" THEN "execution-result" ELSE "analysis-result"

PersistArtifact(c) ==
  /\ Step(c, "artifact", "complete")
  /\ artifacts' = artifacts \cup { ArtifactOf(ModeOf(c)) }
  /\ out' = [out EXCEPT ![c] = "completed"]
  /\ UNCHANGED << req, store, lock, fix, handoff, ignitions, runs, launches, answers, count >>

------------------------------------------------------------------------------
(* The Fix dispatcher, single flight in each process *)

(* The payload is no typed Fix, or there is no route or engine for it. *)
BlockUntyped(c) == Blocked(c, "package")

ReconstructFix(c) ==
  /\ Step(c, "package", "waiting")
  /\ UNCHANGED << req, out, store, host, runs, launches, answers, count >>

(* Mutant: no single flight. *)
AcquireNothing(c) ==
  /\ Step(c, "waiting", "dispatch")
  /\ UNCHANGED << req, out, store, host, runs, launches, answers, count >>

Acquire(c) ==
  /\ lock[Home[c]] = None
  /\ Step(c, "waiting", "dispatch")
  /\ lock' = [lock EXCEPT ![Home[c]] = c]
  /\ UNCHANGED << req, out, store, fix, handoff, artifacts, runs, ignitions, launches, answers, count >>

Release(c) == lock' = [lock EXCEPT ![Home[c]] = None]

(* A record exists: it is returned and neither callback is called, which   *)
(* the executor takes for an unresolved Fix.                               *)
LoadExisting(c) ==
  /\ fix # "absent"
  /\ Step(c, "dispatch", "complete")
  /\ out' = [out EXCEPT ![c] = "blocked"]
  /\ Release(c)
  /\ UNCHANGED << req, store, fix, handoff, artifacts, runs, ignitions, launches, answers, count >>

(* Fields of what continue_implementation is given: the ignition result,   *)
(* or the artifact of a disabled policy.                                   *)
IgnitionFields == { "candidate_plan", "execution_contract", "implementation_eligible",
                    "success_definition", "verification_grounding" }
ArtifactFields == { "operation_id", "status", "implementation_eligible" }

(* _fix_continue launches Codex when the result names a handoff. *)
Continue(c, fields) ==
  /\ out' = [out EXCEPT ![c] = "accepted"]
  /\ launches' = launches + (IF "handoff_path" \in fields THEN 1 ELSE 0)

Finalize(c) ==
  /\ out' = [out EXCEPT ![c] = "blocked"]
  /\ UNCHANGED launches

(* The snapshot, the plan, the package or the authority decision fails. *)
Refuse(c, status) ==
  /\ fix = "absent"
  /\ Step(c, "dispatch", "complete")
  /\ fix' = status
  /\ Finalize(c)
  /\ Release(c)
  /\ UNCHANGED << req, store, handoff, artifacts, runs, ignitions, answers, count >>

(* The policy is disabled. *)
Skip(c) ==
  /\ fix = "absent"
  /\ Step(c, "dispatch", "complete")
  /\ fix' = "skipped_disabled"
  /\ Continue(c, ArtifactFields)
  /\ Release(c)
  /\ UNCHANGED << req, store, handoff, artifacts, runs, ignitions, answers, count >>

InDispatch(c) == pc[c] \in { "dispatch", "model", "record" }

(* Mutant: the lock is kept when dispatch raises. *)
RaiseHolding(c) ==
  /\ InDispatch(c)
  /\ pc' = [pc EXCEPT ![c] = "fail"]
  /\ UNCHANGED << req, out, store, host, runs, launches, answers, count >>

(* Reading the policy, the repository or the record, or writing a file     *)
(* raises.                                                                 *)
Raise(c) ==
  /\ InDispatch(c)
  /\ pc' = [pc EXCEPT ![c] = "fail"]
  /\ Release(c)
  /\ UNCHANGED << req, out, store, fix, handoff, artifacts, runs, ignitions, launches, answers, count >>

Ignite(c) ==
  /\ fix = "absent"
  /\ Step(c, "dispatch", "model")
  /\ ignitions' = ignitions + 1
  /\ UNCHANGED << req, out, store, lock, fix, handoff, artifacts, runs, launches, answers, count >>

(* The model fails or rejects, or an information gap is left. *)
ModelRefuses(c, status) ==
  /\ Step(c, "model", "complete")
  /\ fix' = status
  /\ Finalize(c)
  /\ Release(c)
  /\ UNCHANGED << req, store, handoff, artifacts, runs, ignitions, answers, count >>

(* Mutant: the record is written first. *)
RecordThenHandoff(c) ==
  /\ Step(c, "model", "record")
  /\ fix' = "accepted"
  /\ UNCHANGED << req, out, store, lock, handoff, artifacts, runs, ignitions, launches, answers, count >>

(* persist_handoff, then persist of the record. *)
PersistHandoff(c) ==
  /\ Step(c, "model", "record")
  /\ handoff' = TRUE
  /\ UNCHANGED << req, out, store, lock, fix, artifacts, runs, ignitions, launches, answers, count >>

Accept(c) ==
  /\ Step(c, "record", "complete")
  /\ fix' = "accepted"
  /\ Continue(c, IgnitionFields)
  /\ Release(c)
  /\ UNCHANGED << req, store, handoff, artifacts, runs, ignitions, answers, count >>

------------------------------------------------------------------------------
(* The executor, after the dispatch *)

(* Any result that was not raised completes the stored operation. *)
Complete(c) ==
  /\ Step(c, "complete", "idle")
  /\ Mark(c, "completed")
  /\ Answer(c, "run", out[c])
  /\ UNCHANGED << req, out, known, host, runs, launches, count >>

(* Mutant: a failed execution is forgotten. *)
Forget(c) ==
  /\ Step(c, "fail", "idle")
  /\ mem' = [mem EXCEPT ![Home[c]] = NoOperation]
  /\ file' = NoOperation
  /\ Answer(c, "run", "failed")
  /\ UNCHANGED << req, out, known, host, runs, launches, count >>

Fail(c) ==
  /\ Step(c, "fail", "idle")
  /\ Mark(c, "failed")
  /\ Answer(c, "run", "failed")
  /\ UNCHANGED << req, out, known, host, runs, launches, count >>

(* A process dies and is started again: its store loads the files. *)
Crash(p) ==
  /\ crashes < MaxCrashes
  /\ crashes' = crashes + 1
  /\ pc' = [c \in Callers |-> IF Home[c] = p THEN "idle" ELSE pc[c]]
  /\ lock' = [lock EXCEPT ![p] = None]
  /\ known' = [known EXCEPT ![p] = {}]
  /\ mem' = [mem EXCEPT ![p] = file]
  /\ UNCHANGED << req, out, file, fix, handoff, artifacts, runs, ignitions, launches, answers, submits >>

------------------------------------------------------------------------------
Init ==
  /\ pc = [c \in Callers |-> "idle"]
  /\ req = [c \in Callers |-> None]
  /\ out = [c \in Callers |-> "blocked"]
  /\ known = [p \in Processes |-> {}]
  /\ mem = [p \in Processes |-> NoOperation]
  /\ file = NoOperation
  /\ lock = [p \in Processes |-> None]
  /\ fix = "absent"
  /\ handoff = FALSE /\ artifacts = {}
  /\ runs = 0 /\ ignitions = 0 /\ launches = 0
  /\ answers = {}
  /\ submits = 0 /\ crashes = 0

Refusals      == { "validation_failed", "blocked" }
ModelRefusals == { "provider_failed", "blocked", "rejected" }

Dispatch(c) ==
  \/ LoadExisting(c)
  \/ \E s \in Refusals : Refuse(c, s)
  \/ Skip(c) \/ Raise(c) \/ Ignite(c)
  \/ \E s \in ModelRefusals : ModelRefuses(c, s)
  \/ PersistHandoff(c) \/ Accept(c)

Execute(c) ==
  \/ Reject(c) \/ CreateNew(c) \/ CreateExisting(c) \/ Create(c)
  \/ Start(c) \/ Block(c) \/ Authorize(c)
  \/ WorkerAnswers(c) \/ WorkerFails(c) \/ PersistArtifact(c)
  \/ BlockUntyped(c) \/ ReconstructFix(c) \/ Acquire(c)
  \/ Dispatch(c)
  \/ Complete(c) \/ Fail(c)

Next ==
  \/ \E c \in Callers : Execute(c)
  \/ \E c \in Callers, r \in Request : Submit(c, r)
  \/ \E p \in Processes : Crash(p)

Spec == Init /\ [][Next]_vars

(* Threads are scheduled and the model call has a timeout.  Nothing is     *)
(* assumed of the order in which waiting threads get a lock.               *)
FairSpec == Spec /\ \A c \in Callers : WF_vars(Execute(c))

------------------------------------------------------------------------------
(* Properties *)

Places == { "idle", "check", "create", "start", "authorize", "worker", "artifact", "package",
            "waiting", "dispatch", "model", "record", "complete", "fail" }

Operation == [status : { "absent", "pending", "running" } \cup Finished,
              request : Request \cup { None }]

(* The store, the Fix record and the threads have the code's shape.        *)
TypeOK ==
  /\ pc \in [Callers -> Places]
  /\ req \in [Callers -> Request \cup { None }]
  /\ out \in [Callers -> { "accepted", "blocked", "completed" }]
  /\ known \in [Processes -> SUBSET Contents]
  /\ mem \in [Processes -> Operation] /\ file \in Operation
  /\ lock \in [Processes -> Callers \cup { None }]
  /\ fix \in { "absent", "accepted", "skipped_disabled" } \cup Refusals \cup ModelRefusals
  /\ handoff \in BOOLEAN
  /\ artifacts \subseteq { "execution-result", "analysis-result" }
  /\ runs \in Nat /\ ignitions \in Nat /\ launches \in Nat
  /\ answers \subseteq [kind : { "run", "replay", "conflict", "rejected" }, content : Contents,
                        status : Finished \cup { "accepted" }]
  /\ submits \in 0 .. MaxSubmits /\ crashes \in 0 .. MaxCrashes

(* Threads of one process never evaluate or record one Fix operation at    *)
(* the same time, whatever raised in between.                              *)
SingleFlight ==
  \A c, d \in Callers :
    Home[c] = Home[d] /\ InDispatch(c) /\ InDispatch(d) => c = d

(* What the dispatcher decided is never decided again: duplicates and      *)
(* restarts find the record.                                               *)
DecisionStays == [][fix # "absent" => fix' = fix]_fix

(* An accepted record is only found with its handoff on disk, also after a *)
(* crash between the two writes.                                           *)
AcceptedHasHandoff == fix = "accepted" => handoff

(* The operation is executed once: duplicates, restarts and failures find  *)
(* it in the store.                                                        *)
RunsOnce == runs <= 1

(* Whoever is told of an accepted Fix is told of a recorded decision to    *)
(* continue.                                                               *)
AcceptedIsRecorded ==
  \A c \in Callers : pc[c] = "complete" /\ out[c] = "accepted"
                        => fix \in { "accepted", "skipped_disabled" }

(* Every request is answered, unless its process dies.                     *)
RequestsAreAnswered == \A c \in Callers : pc[c] = "check" ~> pc[c] = "idle"

------------------------------------------------------------------------------
(* What the repository says and the code does not do *)

(* "replaying a request with the same key within the retention window      *)
(* produces the same result without side effects" (schemas/idempotency.py: *)
(* the second half is RunsOnce).                                           *)
ReplaySameResult ==
  \A a \in answers : a.kind = "replay" =>
    \E b \in answers : b.kind = "run" /\ b.content = a.content /\ b.status = a.status

(* "Operation conflicts with an existing operation with different          *)
(* parameters" (executor.py).                                              *)
ConflictMeansDifferent ==
  \A a \in answers : a.kind = "conflict" =>
    file.request = None \/ file.request.content # a.content

(* "translate this into their host-specific response format without loss   *)
(* of semantic information" (result.py): what is reported as completed has *)
(* finished.                                                               *)
CompletedHasFinished ==
  (\E a \in answers : a.kind = "replay" /\ a.status = "completed")
    => file.status \in Finished

(* "Accepted Fix automatically launches Codex once."                       *)
(* (tests/codex/test_fix_continuation.py)                                  *)
AcceptedLaunchesCodex ==
  (\E a \in answers : a.status = "accepted") /\ fix = "accepted" => launches = 1
==============================================================================
