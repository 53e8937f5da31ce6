# Verification of the Audisor backends

TLA+ models of the stateful parts of this repository: the Operation Controller
with its event store and tool loop, the Fix operation with its dispatcher and
the verification of what Codex made of it, the build executor and the launch of
Codex for a Build, the A-Flow review of an artifact, the gate that decides who
may change the repository, the chat turn with the browser's side of it, and the
accounting of provider usage. TLC checks them on small instances; TLAPS proves
the main safety results for every value of the constants.

`PROJECT.json` holds the machine-readable side: the components, the runs, the
source lines every definition stands for (`map`), a mutation of the model that
breaks each checked property (`mutants`), the hazards of the code, and the
theorems.

Paths below are abbreviated: `OC/` is
`src/openai_project/operation_controller/src/operation_controller/`, `RT/` is
`src/openai_project/runtime/src/audisor/`, `BK/` is `src/audisor_backend/`,
`AS/` is `src/openai_project/assistant_backend/src/audisor_assistant/`, `WEB/`
is `src/web/src/`.

## 1. The system and its parts

| Part | Source | State | Operations | Modelled by |
|---|---|---|---|---|
| Operation controller | `OC/controller.py`, `states.py` | one JSON record per operation: state, history, slices, artifacts | register, start, resume, cancel, claim_tool_execution, tool result, approval decision, retry_aflow | `OperationController` on `OperationStates`, which implements `OperationLifecycle` |
| Event store | `OC/event_store.py` | one JSONL file per operation, an in-memory counter, a lock | append, read_after | `EventStore` |
| Tool loop | `OC/tool_loop.py`, `tool_contracts.py`, `adapters/execution.py` | messages, iteration count, continuation | run, resume, suspend for approval or tool result, cancel | `ToolLoop` |
| Planning and review adapters | `OC/adapters/` | none | create and revise a plan, review | their outcomes, in `OperationController` |
| Shared executor and store | `RT/operations/` | operation files, `_operations`, idempotency keys in memory | create, mark running, complete, fail, replay; accept, bind, persist_response, claim_continuation | `FixOperation`, `CodexLaunch` |
| Fix dispatcher | `BK/controllers/fix_host.py` | Fix record, qualified handoff, a lock per operation | dispatch | `FixOperation` |
| Fix grounding, continuation, verification | `BK/policies/fix/validation_grounding.py`, `BK/adapters/aflow_fix.py`, `RT/codex/fix_continuation.py`, `fix_verification.py` | handoff, Codex result, verdict | ground an answer, validate a handoff, launch, rescan, evaluate checks and validations | `FixVerification` |
| Codex launch of a Build | `RT/codex/adapter.py`, `handoff.py`, `launcher.py` | the operation's file, contract, handoff, result | accept, claim, hand off, launch, record | `CodexLaunch` |
| Build execution | `RT/builder/` | execution directory, execution and claims locks, authority registry, idempotency index, suspension records | execute, resume_execution, recover, crash | `BuildExecution`, which implements `BuildRun` |
| Build scheduler | `RT/builder/scheduler.py` | status map of the tasks | mark running, completed, failed; interrupt; validate | `TaskScheduler` |
| A-Flow review lifecycle | `RT/audisor_lifecycle/` | results, `.running` marker, root-cause issues, stage threads | submit, replay, admit, mark, run stages, repair, finish | `ReviewLifecycle` |
| Mutation gate | `RT/audisor_lifecycle/review_contract.py`, `active_state.py`, `hook.py`, `RT/execution_launcher.py` | operation store, active state file and its temporary file, contract and lock artifacts | review_and_lock, clear, hook evaluation, launch and judge | `MutationGate` |
| Chat backend and tab | `AS/application/chat_orchestrator.py`, `WEB/store/taskStore.ts`, `WEB/agent/` | suspended turns in memory; tasks, turn and pending calls of a tab | send, continue, cancel, run tools, approve, expire | `ChatTurn` |
| Usage accounting | `AS/application/usage_integration.py`, `service.py`, `fix_engines.py`, `AS/usage/`, `AS/providers/` | attempt records of the ledger | reserve, block, call, normalize, charge, finalize | `UsageAccounting` |
| A-Flow library | `src/openai_project/aflow/` | contracts, fulfilment records, closures | evaluate, fulfil, close | no: pure functions of documents; their decisions are inputs of `MutationGate` |

HTTP routes without state, request policies, schemas, sandboxing, packaging and
scripts are listed in `PROJECT.json` with the reason they are left out: they
validate or format one value, or do I/O whose outcome is an input here.

### How the parts interact

- The HTTP facade runs each request on a thread of its own and calls the
  controller. The controller calls the adapters synchronously and writes the
  record and the events between the calls. Frontends poll the events, claim a
  pending tool call, run it and submit its result.
- The planning and execution adapters run the tool loop. When a tool has to be
  run by a frontend or approved by the operator, the loop is serialized into a
  continuation, which the controller stores in the record and gives back on
  resume.
- The Fix path goes through the runtime's executor, which stores the operation
  under an idempotency key and calls the dispatcher; an accepted Fix leaves a
  handoff. The continuation reads that handoff, launches Codex in the
  repository, and the verifier scans the repository again.
- A build is executed by any process that has the data root: processes meet
  only in files and file locks. A routed build is suspended and later resumed,
  perhaps by another process. An accepted Build is handed to Codex once: the
  continuation is claimed in the operation's file.
- A review of an artifact is run by threads of MCP servers and of the chat
  backend, which share the state directory. A review that locks a plan writes
  the active state file; the hook, a process per tool call of the agent, and
  the launcher, a process per execution, act on it and on the artifacts.
- The chat keeps suspended turns in the server's memory; the tab runs the tools
  and posts the results. The writing assistant reserves, calls and finalizes
  around each provider invocation, in request threads that share the ledger.

### Which behaviours are hard

1. *Lost updates.* The operation record and the ledger are read and replaced
   whole, with no lock and no version check.
2. *Stale slices.* A second suspension inherits what the first left.
3. *Torn and shared files.* Events and saves are cut by crashes and read while
   written; every review writes the active state through one temporary file;
   an operation's file is truncated before it is written.
4. *Serialized loops.* A limit, a policy or a result must survive a
   suspension, or a turn's stay in memory.
5. *Check, then act, over files.* Idempotency lookup and bind, authority
   acquire and unlink, the active-run guard and its marker, the check of the
   active state and its replacement are separate steps of processes that may
   die between any two of them.
6. *Retries.* One request twice, at once or after a restart, with Codex or a
   provider on the other side.
7. *Work that outlives its owner.* A stage thread after its timeout, a chat
   request after the tab cancelled it, a handler whose operation has ended.
8. *Evidence.* A verdict, a lock, a charge or a claim of completion must follow
   from what was really done, over several steps and several actors.

## 2. Modules

| Module | Contents |
|---|---|
| `OperationStates` | the state table of `states.py`, `IsPathTo` |
| `OperationController` | one operation, its handlers as threads, restarts |
| `OperationLifecycle` | abstract: what an operation promises its clients |
| `EventStore` | the log of one operation, its writers and polling readers |
| `ToolLoop` | one phase of the tool loop with its resumes |
| `FixOperation` | one operation, of any mode: executor, stores, Fix dispatcher, crashes |
| `FixVerification` | an accepted Fix: grounding, handoff, Codex, rescan, verdict |
| `TaskScheduler` | the transitions of a plan's status map, validity of a map |
| `BuildRun` | abstract: what an execution of a build promises |
| `BuildExecution` | the builder's processes, files and locks |
| `CodexLaunch` | an accepted Build handed to Codex |
| `ReviewLifecycle` | the A-Flow review of one artifact |
| `MutationGate` | reviews that lock plans, the hook, the launcher |
| `ChatTurn` | a tab and the chat backend |
| `UsageAccounting` | requests of the writing assistant and their ledger |
| `MC*` | constants of the instances TLC checks |
| `*_proofs` | theorems and proofs about the modules they extend: `EventsAndTools_proofs` about `EventStore` and `ToolLoop`, `Assistant_proofs` about `ChatTurn` and `UsageAccounting`, `Review_proofs` about `MutationGate` and `ReviewLifecycle`, the others about the one they are named for |

Definitions named after a fault (`ClaimMatchesAnyCall`, `ApprovedMutant`,
`HostStatusLoose`, ...) are the mutated forms `PROJECT.json` lists; no behaviour
uses them. Variables that record what clients were told or what was done
(`granted`, `delivered`, `launches`, `claims`, `answers`, `trace`, `ran`, ...)
appear in no guard unless the code keeps the same fact.

### OperationController

`rec` is the stored file, `tmp` the temporary file that `save` renames (its
name depends on the operation alone, so all threads share it), `th[t]` what
handler thread `t` is doing with its private copy `r`. A handler is cut where
others can see it or be seen by it: the load, each write and each rename of the
store, each event, each call of an adapter.

| Action | Code |
|---|---|
| `Register`, `Start`, `Cancel` | `register`, `start`, `cancel` |
| `ClaimToolExecution` | `claim_tool_execution`, with `ClaimMatches` and `CompetingClaim` as its guards |
| `Resume`, `ResumeTarget`, `AfterResume` | the generic resume and the state it returns to |
| `ToolResult`, `ApprovalDecision`, `GrantApproval` | `_handle_tool_result`, `_handle_approval_decision` |
| `RetryAflow`, `RecordRetry` | `retry_aflow` before and after its review |
| `PlanningReturns`, `ReviewReturns`, `FulfilmentReturns`, `ExecutionReturns` | each outcome an adapter may return and what the controller does with it |
| `Write`, `Replace`, `Emit` | `save` in its two steps, `append` of an event |
| `Crash` | the process restarts: the threads are gone, the files stay |

One operation is modelled because records share nothing. The adapters' results
are all that the adapters and the controller's tests return. A suspension id is
a number, and 0 is the empty id; `appCall` stands both for `approval_tool_call`
and for `argument_digest`, which is computed from it and written with it.

`OperationLifecycle` is the abstract specification: one operation without
copies, files or handlers, whose history grows by the table, whose suspensions
have new ids, are claimed by one frontend while they last, await only what needs
no approval or has one, and are left once. `ImplementsLifecycle` is
`INSTANCE OperationLifecycle` with the state, the history and the suspension
read from `rec`, the awaited calls from `pending` while a tool result is waited
for, the approvals from `events`, and `closing`, which says that a request has
taken the results but not yet saved, from the handler that is about to
(`ClosingSeen`). A restart in between is `Forget`: the suspension is as it was,
and its results may be taken again.

### EventStore

A line is written in two pieces (`WritePart`, `WriteRest`), with or without the
whole of its JSON in the first, and cut between two characters or inside one; a
failed write or a crash leaves it torn, and what is appended to a torn line
becomes part of it (`Arrive`). A file with a cut character cannot be decoded
(`Decodable`): a poll of it raises, and so does an append that has to look up
the last number first (`CanNumber`, `BeginFails`). Of a file that can be decoded
`IsValid` is what `_read_raw` keeps, and an event is named by its line
(`Events`). `Poll` is one request of a client, with its page limit and cursor;
it takes no lock. A payload may hold a character that `splitlines` takes for the
end of a line.

### ToolLoop

`Expire`, `LoopLimit`, `CallProvider`, `ProviderRaises`, `FinalReply` and the
four cases of a response with tool calls (`SuspendForApproval`,
`SuspendForTool`, `RunBackend`, `AllBlocked`) are the loop; `Approve`, `Deny`
and `Resume` are what the controller and the adapter do to a continuation. Of
the messages only those with tool calls or their answers are kept. Deadlines
and cancellation are one nondeterministic choice at the head of the loop, where
the code looks at them. A client may send results for any ids, as nothing
compares them with the calls that were asked for; `stray` collects the others.

### FixOperation

Callers are threads, each in a process (`Home`). The files (`file`, `fix`,
`handoff`, `artifacts`) are shared; keys, `_operations` and locks are lost with
their process. `Submit` .. `Authorize` and `Complete`, `Forget`, `Fail` are
`AudisorOperationExecutor.execute`; `Acquire` .. `Accept` are
`AcceptedFixDispatcher.dispatch`. A build or an analysis asks the worker and
persists its answer instead (`WorkerAnswers`, `WorkerFails`, `PersistArtifact`).
A request is a content, whose `Mode` is that of the operation, and the time stamp
its authority was given, because the request hash covers both.

### FixVerification

A finding is its identifier: kind, file and position. A workspace is the set of
its defects, of the paths whose assertions hold and of the commands that exit
with 0. `Scan` is the deterministic scanner, with what hides a defect
(`Masked`: an unreadable file hides all of it, a syntax error what is parsed),
and `MinimalScan` the fallback of a verifier that cannot import the scanner,
whose findings have ids of their own. Each `Rescan` may be either.
`GroundFindingCheck` and `GroundValidation` are the resolver of validation
sources; `Ignite` is the acceptance of the model's one answer.
`Valid` and its three parts are the checks of a handoff; `Run`,
`PersistEnvelope`, `StartCodex`, `PersistResult` the continuation; `LoadExisting`,
`Rescan`, `Evaluate`, `PersistVerdict` the verifier. `CodexEdits` is the
environment: Codex may leave any workspace. Two runners share the files, and
each may crash or raise at any step.

### TaskScheduler, BuildRun and BuildExecution

A plan is a sequence in the topological order `dependencies.py` computes, so a
task is its position (`PlanIsOrdered`). `TaskScheduler` has one operator per
transition, and `ValidState` for `validate_state`.

`BuildExecution` has one step per durable effect. `Execute`, `Lookup`,
`Acquire`, `Scan`, `Check`, `Create`, `Bind` are the way of a call up to its
bound execution; `Admit`, `Refuse`, `Suspend` the outcomes of the A-Flow
analysis; `StartTask`, `FinishTask`, `RecordTask`, `Settle` the task loop;
`Publish`, `Release`, `Unlink`, `Answer` the terminal manifest and the return
of the authority; `Resume`, `TakeRecord`, `Relock` are `resume_execution`;
`Recover` is the operator's recovery of an interrupted execution; `Crash` is
the death of a process, or an exception that leaves the call, at any step. File
locks are freed by the system; everything durable stays. `Contradict` is a write
of the state that fails after the completed result of a task was stored: the
exception path puts a failed result in its place and the call ends
(`RT/builder/executor.py:727-762`).

`BuildRun` is the abstract specification: in each execution a task is begun at
most once, after all it depends on and while nothing else runs, what is
downstream of a failure never runs, the outcome of a completed task may be taken
back before anything builds on it (`Retract`), and the verdict comes when all
tasks have their outcome and is final. `ImplementsBuildRun` is
`INSTANCE BuildRun WITH Runs <- Dirs`, with the outcome of a task read from the
files and from how often a worker was given it, and the verdict from
`final_state`. It is checked with one process that resumes: with two, a task can
be run again (`TaskRunsOnce`, section 5), and that is no step of `BuildRun`.

### CodexLaunch

Callers of `CodexBuildAdapter.run` that name one operation. The record's file
is opened, which truncates it (`Garbled`), and written in a second step;
`claim_continuation` is the only one to take the store's lock, a lock of one
process. `LoadExisting` .. `RespWrite` are `AcceptedOperationService.accept`
with `bind` and `persist_response`; `ClaimRead` .. `ClaimWrite`, `PersistHandoff`,
`Launch`, `LaunchFails` and `CodexEnds` the continuation. The build executor is
seen as its callers see it: one execution and what it left on disk. It returns
completed, failed, suspended or not valid (`Ends`), or raises and leaves a build
that says it runs (`BuildRaises`); `HostStatus` takes the last two of the four
for completed, as `_host_status` does. `Returned`
is how many values the launcher returns: `adapter.py` unpacks four, the default
launcher returns six.

### ReviewLifecycle

Runs are the calls of `run_artifact_lifecycle`, in threads of any process;
`results`, `marker` and `issues` are the state directory. `SubmitDraft`,
`Submit`, `ResolveCorrupt`, `Replay` and `ResolveNew` are the submission with
its replay and its revision; `NotAdmitted`, `LiveCheck`, `RunProbe` the
admission; `GuardActive`, `GuardFree`, `Mark`, `Unmark` the active-run guard.
A stage runs in a thread of its own (`CallEnds`, `ProgressWrite`), which outlives
the wait for it after `StageTimeout`; its progress rewrites the marker from a
copy read earlier. `After` is the order of the stages, with one repair.
`Expire` is a marker growing stale, `PowerLoss` the loss of a result that was
not flushed, `Crash` the death of a run.

### MutationGate

`Plans` are review requests with the contents `Content` gives them: decision,
targets, roots, requirements and what covers them. `OpenOperation` ..
`CompleteOperation` are `review_and_lock`; `CheckActive`, `OpenTemp`,
`FillTemp`, `ReplaceActive` are `write_active_state`, in the steps of a
temporary file that all reviews share: a review that opens it truncates what
another one has open, and a handle follows the file through a rename.
`EvaluateHook` is the hook, with `VerifyActiveState` and `TargetsAuthorized`, or
with `CheckSliceAuthority` for a state file of version 2 (`SliceFiles`), which
nothing in the repository writes. A call has a list of targets, or a patch whose
headers name some, or a text with words in it, and `RequestedTargets` is what
the hook's regular expressions find: no target of a move, and of a command only
what is under `openai_project/`. `HostEdits` is the edit of an agent that was
allowed. `Admit`, `ReadPrimary`, `CreateWorkspace`, `RunWorker`, `Validate` and
`Judge` are the launcher, which reads the tree of the primary repository twice
(`primary_before`, `primary_after`) while hosts and workers change it; each of
its two readings is one step. `Changes` compares the trees of the workspace
before and after the worker, renames included. A digest is the
content it is taken of, so a check of a digest is a comparison of contents.

### ChatTurn

A task is a message of the tab and the turn it starts. `Send` .. `Decide` are
the tab: the store's alternation of turns, the dispatch of a task, its tool
calls one after the other, and the approval dialog. `ExecuteTurn`, `Resume`,
`HandleToolCalls`, `Suspend` and `Evict` are the server's threads over
`_turn_states`; a reply names a set of tools, which the server runs, leaves to
the tab or holds for approval. `Cancel` aborts the tab's side and stops nothing
on the server. The body of an error response is read in a step of its own
(`ReceiveError`, `ReportError`), and what is emitted of a task after it was
aborted is in `late`. `Age` takes a turn past its time to live.

### UsageAccounting

A request is a frame that goes through `begin` (preflight, reserve), the engine
or the provider, and `finalize`; `ReserveRead`/`ReserveWrite`,
`BlockRead`/`BlockWrite` and `FinalizeRead`/`FinalizeWrite` are the ledger's
read and replacement of a record. `CompleteLocal`, `CompleteCloud` and
`CompleteAnthropic` are what the three providers make of an endpoint's
behaviour, `SanitizeOpenAI` .. `NormalizeAnthropic` the two families of usage
blocks, `CalculateActualCharge` and `EstimatedCharge` the pricing, with rates
that leave a remainder so that rounding is seen (`HalfEven`). `config` is the
environment of the server, chosen once from `Configs`. A counter that is NaN or
infinite makes both providers raise what nobody expects (`ReplyOf`).

## 3. Runs

All constants and bounds are in the `.cfg` files. Bounds are named `Max...` and
appear only in the guards of the environment (requests, restarts, ids, faults);
none of them cuts a handler short. `CHECK_DEADLOCK FALSE` is set because the
environment may fall silent: once the bounded requests are served, every
process is idle for good. That nobody waits for ever is what the liveness
properties say. There is one run per module, of a size TLC finishes within a
few minutes, and each of its properties is broken by a mutant of the model.

| Run | Instance | What it shows |
|---|---|---|
| `OCSerial` | 1 handler thread, two tabs, 5 requests, 3 suspension ids, 1 restart | requests served one at a time: the clients see a run of `OperationLifecycle`, and a claim is granted only for a pending call and after the approval it needs |
| `ESRuns` | 2 threads, 1 reader, pages of 2, 4 events, 1 failed write, 2 restarts, separator payloads, lines cut inside a character | plain events that were acknowledged are readable as long as nothing failed, none is skipped by a polling reader, what is read is in order, and polling delivers what is readable unless a character stays cut |
| `TLLoop` | a tool of each class, 2 calls a response, 3 iterations, 2 resumes with any results | the policy holds across suspensions, and an answer follows its call unless nobody asked for it |
| `FORuns` | 2 callers of one process, a Fix and a build, 2 stamps, 3 submissions, 1 crash | an accepted record has its handoff, a recorded decision stays, whoever is told "accepted" finds the record, every request is answered |
| `BERuns` | 2 processes, one of which resumes, 3 tasks in a chain, 3 requests, 3 calls, 2 crashes or failed writes | a key is executed once, a scope has one execution at work, a verdict is backed by task results, every execution implements `BuildRun`, every call ends |
| `FVRuns` | 2 runners, 2 runs, 1 crash, 4 operations, the answers of `SmallAnswers` | a claim of completion by a process that has the scanner means the findings are gone from the scan, what the resolver grounded the continuation accepts, a completed answer has its claim on disk, every run returns unless it waits for Codex |
| `CLRuns` | 2 callers of one process, 2 contents, 4 calls, 2 crashes | Codex is launched with contract and handoff and, without overlap, once and never for a build that failed, still runs or was interrupted; a launch is on record; every call ends |
| `CLLauncher` | 2 callers, 2 calls | the violation of section 5 |
| `RLRuns` | 2 runs of one artifact or its draft, 1 fault | "improved" is earned by all stages in their order, every error has an issue, no marker is left behind, every submission is answered |
| `CTRuns` | 3 tasks, a tool of each class, 2 loops, local or cloud provider | known calls are answered before the model is asked again, with nothing under way it is the user's turn, every task ends |
| `USRuns` | 2 requests with 2 ids, 7 configurations, 14 responses, 1 fault | accounting never breaks a request, evidence agrees with the ledger, a charge is exact |
| `MGRuns` | 2 reviews, 1 hook, 1 launch, 3 plans, 2 operations, a file of version 2, 6 tool calls, 2 trees, 1 upset | a whole active state holds an earned lock, of the targets it reads the hook allows only what a review or a locked slice approved, a launch is proven only for the files the plan names and with the primary tree it began with |

Why the bounds are enough for the questions asked:

- `OCSerial` asks about one request after the other, so five requests bring an
  operation through two suspensions with an approval and a claim each; three
  ids let a stale one meet a fresh one. What holds under races is proved for
  any number of threads (section 4).
- A torn line matters to the event after it and to the counter after the next
  restart: 2 restarts, 4 events. A page of 2 makes the reader page.
- Suspending and resuming twice lets a limit be escaped twice.
- A check and act pair of the builder needs two processes; three calls put a
  third party between their steps. `MCRequests` holds the collisions that
  matter: one key for two builds, one execution id in two builds, two
  executions of one build under one authority. `MCChain` has tasks at distance
  two, which tells blocking downstream from blocking dependents. The second
  crash may be a write that fails after the first has been recovered from.
- `CLRuns` lets a retry follow a crash at each step twice, with a second
  content that conflicts. In `FVRuns` a second runner finds each file the first
  one left. `SmallOperations` and `SmallAnswers` have a finding with and
  without reproduction, command and plan acceptance, and an answer for each way
  a source is grounded or refused.
- Two runs meet in every way at one marker; a second content is needed only for
  `RevisionsAdvance` (section 5). Three tasks of a tab are a cancelled one whose
  error is still read, the one that error ends, and the one the user may then
  send; the third loop of a turn is the one `MaxLoops` refuses. `FewReplies`
  gives the first message the replies that call tools, the second the guarded
  one, and the third none.
- In `MGRuns` two reviews race on the temporary file, the third plan is the one
  that targets what it prohibits, the two trees let an edit of the primary
  repository be made and taken back, `FewCalls` has a patch that moves a file
  and a command that names one the hook does not look for, and `TreesAfter` has a modified, a renamed and
  a mode-changed file. `FewConfigs` has each provider, each engine selection,
  accounting off, in memory and on disk, prices that overlap or lack a rate, and
  a charge that needs rounding.

`OCSerial` uses symmetry of the tabs and `MGRuns` of the trees, of which nothing
but equality is asked; both check safety only.

### Fairness

Weak fairness of the steps of running code, and nothing else: of a thread inside
`append` and a polling reader (`EventsAreDelivered` only means something to a
client that goes on polling), of a caller inside `execute`, of a process inside
a build call, of a caller of `CodexBuildAdapter.run` up to and after Codex, of
a runner of the Fix continuation, of the main thread of a review, of the tab's
dispatch and the server's thread in the chat. Nothing is assumed of clients'
requests, operators, crashes, timeouts, Codex (nobody bounds it, so `CallsEnd`
and `RunsReturn` except the wait for it), the provider's thread behind a review
stage (the stage's timeout is a step of the main thread), or the order in which
a lock is given to those who wait: a waiting thread gets the lock only because
the others run out of bounded work. `OCSerial`, `TLLoop`, `USRuns` and `MGRuns`
check safety and assume no fairness.

## 4. Proofs

All theorems hold for any values of the constants that satisfy the modules'
named assumptions: `ControllerAssumption`, `ToolLoopAssumption`,
`AbsenceAssumption`, `EventStoreAssumption`,
`FixOperationAssumption`, `FixVerificationAssumption`, `PlanIsOrdered`, `ConfigAssumption`,
`CodexLaunchAssumption`, `GateAssumption`, `ReviewAssumption`, `ChatAssumption`
and `UsageAssumption`. They say that
absent values are not values, that tool classes are disjoint where the policy
makes them so, that plans are in order or stay in their manifest, that a model's
answer holds lists, that paths are sequences of names, and that counters and
rates are absent or not negative. Three proof modules are about two components that share
nothing; one of each two has names of its own for its specification
(`StoreSpec`, `LifecycleSpec`, `ChatSpec`).

| Module | Theorem | States |
|---|---|---|
| `OperationController_proofs` | `TypeCorrect` | `Spec => []TypeOK` |
| | `HistoryIsPath` | `Spec => []StoredHistoryIsPath` |
| | `GrantedCallIsPending` | `Spec => []GrantIsPending` |
| | `ApprovedBeforeItRuns` | `Spec => []ApprovalBeforeExecution` |
| | `HandlersKeepLifecycle` | `Spec /\ [][InTurn]_vars => ImplementsLifecycle` |
| `EventsAndTools_proofs` | `EventsInOrder` | `StoreSpec => []SequencesIncrease` |
| | `AcknowledgedIsRead` | `StoreSpec => []AcknowledgedIsReadable` |
| | `ReadersMissNothing` | `StoreSpec => []ReaderMissesNothing` |
| | `IterationLimit` | `Spec => []IterationsBounded` |
| | `PolicyIsKept` | `Spec => []PolicyHolds` |
| | `LoopIsTyped` | `Spec => []TypeOK` |
| | `AnswersFollow` | `Spec => []AnswersFollowCalls` |
| `Assistant_proofs` | `ModelIsAnswered` | `ChatSpec => []CallsAreAnswered` |
| | `ControlComesBack` | `ChatSpec => []ControlReturns` |
| | `EnginesDecide` | `Spec => []AccountingNeverBreaks` |
| | `EvidenceIsOnLedger` | `Spec => []EvidenceIsPersisted` |
| | `ChargesAreExact` | `Spec => []ChargeIsExact` |
| `FixOperation_proofs` | `DispatchIsSingleFlight` | `Spec => []SingleFlight` |
| | `HandoffBeforeRecord` | `Spec => []AcceptedHasHandoff` |
| | `RecordedDecisionStays` | `Spec => DecisionStays`, when all threads are in one process |
| | `AcceptanceIsRecorded` | `Spec => []AcceptedIsRecorded`, when all threads are in one process |
| `FixVerification_proofs` | `ClaimsAreClear` | `Spec => []ClaimIsClear` |
| | `CompletionIsOnDisk` | `Spec => []CompletedIsOnDisk` |
| | `GroundedIsLaunched` | `Spec => []GroundedIsAccepted` |
| `BuildExecution_proofs` | `TypeCorrect` | `Spec => []TypeOK` |
| | `StateOnDiskIsValid` | `Spec => []DiskStateValid` |
| | `KeyIsExecutedOnce` | `Spec => []KeyRunsOnce` |
| | `RunsAreExclusive` | `Spec /\ []ResumesApart => []ScopeIsExclusive` |
| | `VerdictsAreEarned` | `Spec /\ []ResumesApart => []VerdictIsEarned` |
| | `ExecutionsAreRuns` | `Spec /\ []ResumesApart => ImplementsBuildRun` |
| `CodexLaunch_proofs` | `TypeCorrect` | `Spec => []TypeOK` |
| | `LaunchHasBacking` | `Spec => []LaunchIsBacked` |
| | `LaunchHasRecord` | `Spec => []LaunchIsRecorded` |
| `Review_proofs` | `TypeCorrect` | `Spec => []TypeOK` |
| | `ActiveLockIsEarned` | `Spec => []LockIsEarned` |
| | `HookAllowsReviewed` | `Spec => []AllowedIsReviewed` |
| | `LaunchProvenIsEarned` | `Spec => []ProvenIsEarned` |
| | `LifecycleIsTyped` | `LifecycleSpec => []ShapeOK` |
| | `ImprovementIsEarned` | `LifecycleSpec => []ImprovedIsEarned` |
| | `ErrorsHaveIssues` | `LifecycleSpec => []ErrorHasIssue` |
| | `MarkersAreCleared` | `LifecycleSpec => []MarkerIsCleared` |

**OperationController.** What is stored comes from a private copy or from the
shared temporary file, so what is claimed of the record must hold of all of
them: `IInv` says that the record, the temporary file and every copy are `Good`
(of the right shape, with a history that is a path to its state), that threads
are `Safe` at each point, and that a retry is under way only where there is a
record. `PathExtends` is the one fact about histories; each action has a lemma.

`GrantIsPending` is about the stored record only, and a save may bring back any
copy. `GInv` therefore speaks of every copy that is about (`Held`): two copies
that name one suspension await the same calls, none awaits a call that needs an
approval which was not announced (`CopyOK`), and a grant names a call that every
copy of its suspension awaits (`GrantOK`). What a handler is about to grant is
`HandlerOK`. `ThreadStep` reduces each action to where the suspension of the new
copy comes from (`Origin`): a copy that is about, or a fresh id.

`ImplementsLifecycle` is promised to clients that wait: `InTurn` says of a
step that takes a request that no other request is being served. The server
does not see to that, and two handlers that read the record before either
saves it break the promise, which section 5 reports; so the theorem is about
the behaviours, of any number of threads and with restarts anywhere, in which
requests come in turn. Then one thread at a time is at work (`OneBusy`), and
the stored record is what it last saved: `SInv` says that the copy of the
handler keeps the claim and a terminal state of the record it was read from
(`Serves`, `Turns`), that whoever was granted an execution is the claimant on
record, and, in one life of the process, that a suspension which was left has
a number below the next one and is not entered again (`OnceInv`, `Unused`). A
restart between a save and its answer is covered.

One thing more is needed, which none of these says: that a
save takes the stored record one transition further and not two. `LInv` adds
`Leads`: the copy of the handler is level with the record, or one transition
ahead of it (`Ahead`) and about to be saved, with a new id just when the
transition asks something of a client; and an announcement belongs to the state
the copy is in. Then a save is `Create`, one of the `Enter`s or a stutter
(`ReplaceIsStep`), an event is `Approve`, `Execute` or a stutter (`EmitIsStep`),
a request that takes results is `Leave` (`ToolResultIsLeave`), and whatever else
a handler does shows the clients nothing but that the suspension is about to be
left (`QuietIsStep`). That `Execute` is allowed, because the call is awaited,
approved and the one claimant's, is what `GInv` and `SInv` are for. With two
handlers at once the controller does not implement it: two claims are granted,
and terminal states are left.

**EventStore.** `IInv` adds to the types that whoever writes has the lock
(`LockIsHeld`), that the number of an append is on no line before its first byte
and on the last line from then on (`Numbered`), and that the counter is ahead of
whatever can be read (`CounterIsAhead`). The last part must also hold of what a
torn line swallows, because a line that can be read has the bytes of one event
only. `LinesAreWhole` says that without faults only an append under way leaves a
line torn or a character cut. `CursorsFollow` says that in the first life of the process no cursor
is ahead of the counter, nor of the append under the lock unless its reader has
that very event: it takes no lock and may find a line whole before its newline.

**ToolLoop.** `Counted` moves the count of provider calls from the loop to the
continuation and back, which is why suspending does not reset it. `Kept` says
of the calls in flight what the policy says of the ones that ran. `MInv` speaks
of the conversation and of the one a suspension keeps (`Follows`), and says that
a phase which waits for results finds the calls they answer (`Answerable`): as
pending calls, which `Resume` puts back, or in the kept messages. What `Resume`
adds for ids that nobody asked for is in `stray`, and only that is excepted.

**FixOperation.** `HoldsLock`: who is inside the dispatcher has the lock of its
process. `HandoffFirst`: the handoff exists from the step before the record.
`RecordedDecisionStays` adds `Undecided`: a thread past the check of the record
finds it absent, which holds only if nobody outside its lock, that is no other
process, writes it. With it a thread that comes to complete an accepted Fix has
the record it wrote in the same step, and that record stays (`Recorded`).

**FixVerification.** `VInv` says that nobody runs
before the handoff, which an answer of the model to the operation grounds
(`Accepted`), and what a runner knows at each point: past the exit code it is 0,
what it holds of the scan is what the scanner finds in the repository it looked
at, and the result it is about to persist is `Clear` (`Verified`). A verdict on
disk is one of the claims, so the runner that finds the verdict of another is no
exception. `GroundedIsLaunched` is about the two readings of one answer, by the
resolver and by the continuation: what `GroundFindingCheck` and
`GroundValidation` ground has tokens just when its source is a command, and only
paths of the scope (`Sound`).

**BuildExecution.** `IInv` is `TypeOK`; every execution on disk loads, lies in
the directory of its request, and is bound to its key if it is suspended; what
a process has in memory fits where it is (a status map at work is valid, a
claim and a directory belong to its request); suspension records name existing
executions; and a task was dispatched only for an execution bound to its key.
`Lasting` is what makes the last part survive other processes: no execution
disappears or changes its request and no key is bound anew, so `MovesKeep` lets
each action be argued for the process that moves. The scheduler lemmas
(`MarkRunningKeeps`, `MarkCompletedKeeps`, `MarkFailedKeeps` with
`DownstreamWaits`, `NextReadyIsReady`) say that every transition keeps a status
map valid for every plan.

The last three theorems have a hypothesis, `[]ResumesApart`: no two calls are at
work in `resume_execution` with the same suspension record. The code reads that
record and removes it without a lock (`RT/builder/executor.py:267-271`, the
lock is taken at `:337`), so nothing enforces it, and `TaskRunsOnce` in section 5
is what happens otherwise; the hypothesis says exactly what an operator has to
see to. It excludes nothing else: any number of processes may resume any
executions, each may crash at any step, and another may resume after it.

**CodexLaunch.** The properties say nothing before the launch; what makes them
true then is what each step of a call may rely on. `Shape` holds however calls
overlap (a bound record is never gone, a copy is a record, a continuation has a
contract). `Serial` holds in the states that no two calls have overlapped to
reach: `Alone` says of the one call at work that what it has seen is what is
there, and after a launch that the record has it.

**MutationGate.** A lock reaches the active file from a review through a
temporary file that other reviews truncate, so `IInv` says that every whole
envelope in either file is that of an accepted plan whose review has written it
(`LockEarned`), that a call the hook is about to allow is approved (`HookOK`), and
that a launch works on an accepted contract and has noted the edits that came
before it (`LaunchOK`). `AllowedIsTouchable` ties the path checks to
`Touchable`, which is stated by prefixes; `Changes` and `Violations` tie the
trees to it. A launch whose two readings of the primary repository were
equal has, at the second, the tree of the first (`edited`).

**ReviewLifecycle.** `RunInv` follows each run through its pipeline: the trace of
a run that waits is the one path of answers that leads to its stage (`UpTo`),
and the trace of a run that closes as improved is `Complete`. A result or an
answer that says improved names a run whose trace is settled (`Improved`), and
no later step changes the trace of a settled run (`Moves`, `ImprovedStays`).
`IssueInv` says that an error about to be persisted or answered has its issue.
`MarkerInv` says, of states without faults and timeouts, that a thread works
only for a run that waits for it and that a marker has a run that will remove it.

**ChatTurn.** A call
of the model is, at any time, in a suspended turn, a response on its way, the
tab's list, the tool it runs, its results or a request to continue. `Handed`
says that wherever the calls are they are the tab's share of the turn they
belong to (`Agrees`), or come from a reply that needs an approval (`Asks`), and
`Waits` that the turn holds the server's share; both together are all answers
when the turn goes on (`ResumeStep`). A turn may be evicted at any moment, so
both speak only of a turn that is there (`Stays`). `ControlComesBack` rests on
what the store says while a task is under way: whose turn it is, which task can
be cancelled, and that only a task heard of after its end leaves it loading
(`TurnInv`).

**UsageAccounting.** The arithmetic comes first, for all
counts and rates: `HalfEvenIsClose`, `ChargeIsClose`, `PartIsClose`,
`CostIsExact`. `UInv` says of each request that an answer that is decided on is
the one its last engine calls for (`Decided`), that a cost is computed from the
usage and the price it is reported with (`Charged`), and of a request whose id
nobody shares that the ledger has nothing but what that request put there, and
that what it read for a replacement is its own reservation (`Own`). An id that
nobody has used is not on the ledger (`Unused`), which is where a fresh request
begins; one that shares its id is excepted, and `TerminalStays` in section 5
shows why.

TLC checked each of these invariants on an instance of its run first.

Only model-checked: everything under fairness (`EventsAreDelivered`,
`RequestsAreAnswered`, `CallsEnd`, `RunsReturn`, `SubmissionsAreAnswered`,
`TasksEnd`), which the prover does not reach. Every invariant and every action
property of the passing runs is a theorem, under the restriction the table
gives.

## 5. Divergences between the code and what it says of itself

One is a run of its own; TLC prints the trace:

- **`CLLauncher`, `EndedIsRecorded`.** `run` unpacks four values from its
  launcher (codex/adapter.py:186) while launch_codex, its default, returns six
  (codex/launcher.py:43, 62), so that the ValueError comes after Codex has ended
  and neither codex-result.json nor a result is left of the run; adapter.py:49
  declares "launcher: Callable[..., tuple[int | None, int, str, tuple[str,
  ...]]] = launch_codex".

### Further divergences

The following properties are defined in their modules and are violated; each is
what a comment, a docstring or a document says. To see the trace, put the
property alone into the `.cfg` of the module's run, with the constants named
here. *Serial* is `OCSerial.cfg` with `Kinds = {"task"}`; *race* is that with
`Threads = {h1, h2}`, 3 requests, 2 suspension ids, no restart and no symmetry.
Where no instance is named, the run's own constants do.

- **`OperationController`, `SingleClaimant`** (race): `claim_tool_execution`
  loads, checks and saves the record with no lock and no version check
  (controller.py:472-550), so two concurrent claims both find no claim and are
  both answered "claimed": True; controller.py:466 says "Atomically claim a
  pending tool execution for a specific claimant" and docs/api-reference.md:101
  "First valid claim wins; ... claims from different claimants are rejected".
- **`OperationController`, `TerminalIsFinal`** (race): `save` replaces the whole
  record without comparing versions (controller.py:107-113), so a handler that
  loaded it before another one completed or cancelled the operation takes it out
  of the terminal state again; states.py:59 says "States that are terminal (no
  transitions out)".
- **`OperationController`, `ClaimIsForThisSuspension`** (serial):
  `execution_claim` is written once (controller.py:544) and never cleared by the
  next suspension (controller.py:1222-1242), so the next tool-result suspension
  is already claimed, by the previous claimant and for the previous call;
  controller.py:468 says of a claim "This binds a tool-result suspension to a
  single claimant".
- **`OperationController`, `DigestIsOfAPendingCall`** (serial):
  `_handle_tool_result_suspension` leaves argument_digest of an earlier approval
  in the slices (controller.py:1233-1242), and claim_tool_execution compares the
  claim's digest with it (controller.py:507-508); docs/api-reference.md:118 says
  argument_digest is the "SHA-256 of `call_id + tool_name + canonical JSON
  arguments`" of the call that is claimed, so a claim that follows the document
  is refused.
- **`OperationController`, `ResultReachesItsSuspension`** (serial):
  `_handle_tool_result` reads neither suspension_id nor operation_version
  (controller.py:997-1053): results of an earlier suspension resume the current
  one; docs/api-reference.md:89 says of suspension_id in a resume "Suspension to
  resume from".
- **`OperationController`, `ApprovalSuspensionIsUndecided`** (serial):
  `approval_decided` is set by the first decision (controller.py:915) and never
  reset by _handle_approval_suspension (controller.py:1186-1198), so the next
  approval request is found already decided and can be answered only as a replay
  or a conflict; controller.py:854 says "Check idempotency - already decided?"
  of the decision at hand.
- **`OperationController`, `FailedPlanIsNotReviewed`** (serial): `_do_planning`
  and the resumes take any result that is not suspended for the plan
  (controller.py:586-600, 1057-1067), so a failure report becomes candidate_plan
  and is reviewed; adapters/planning.py:71 says create_plan returns {"status":
  "failed", "error": "..."} on failure.
- **`OperationController`, `ResultsConsumedOnce`** (race): `suspension_consumed`
  is read from the loaded copy and saved later without a lock
  (controller.py:1005-1053), so two concurrent submissions both resume the
  operation from one continuation; controller.py:1011 says "Check for idempotent
  replay of already-consumed suspension".
- **`OperationController`, `RetryKeyRunsOnce`** (race): The replay key is looked
  up before the review and stored after it (controller.py:713-719, 747-751), so
  two concurrent retries with the same key both run a review;
  docs/api-reference.md:392 calls idempotency_key an "Idempotency guard".
- **`EventStore`, `AcknowledgedIsReadable`** (without its condition): `append`
  opens the file in mode "a" and never ends a torn line (event_store.py:97-98),
  so the first event after a crash becomes part of that line and is skipped on
  every read although append returned it; event_store.py:8 says "Recoverable on
  partial writes (trailing incomplete lines are skipped on read)".
- **`EventStore`, `AcknowledgedIsReadable`** (without its condition): Lines are
  written with ensure_ascii=False (event_store.py:96) and read back with
  str.splitlines (event_store.py:139), which also ends a line at U+0085, U+2028
  and U+2029, characters JSON does not escape: such an event is never read;
  event_store.py:82 says "Append a new event for the given operation. Returns
  the persisted event."
- **`EventStore`, `SequenceNeverReused`**: After a restart the counter is
  reloaded from the last line that can be read (event_store.py:64-68), so the
  sequence of an event lost to a torn line is given again to another one;
  event_store.py:6 says events are "Monotonically sequenced per operation".
- **`EventStore`, `AcknowledgedIsReadable`** (without its condition): A crash
  that tears a line inside a character of several bytes (ensure_ascii=False,
  event_store.py:96) leaves a file that read_text cannot decode;
  event_store.py:139 is outside the try, so every read raises UnicodeDecodeError
  and, after a restart, so does every append (event_store.py:64);
  event_store.py:8 says "Recoverable on partial writes (trailing incomplete
  lines are skipped on read)".
- **`ToolLoop`, `BackendResultsReturned`**: The loop runs the backend calls
  before it suspends for the frontend ones (tool_loop.py:510-521), and the
  adapters' _interpret_outcome leaves suspended.backend_results out of the
  outcome they return (adapters/execution.py:139-155,
  adapters/planning.py:137-153), so after the resume no message answers the
  calls the backend ran; tool_loop.py:548 says "Execute backend tools and return
  results (for combining with frontend)".
- **`ToolLoop`, `ToolsOffered`**: `resume` starts from an empty tool list and
  nothing fills it, so a resumed loop calls the provider without any tool
  schema; tool_loop.py:312 says of it "Will be reconstructed from config
  snapshot".
- **`ToolLoop`, `ProviderErrorFails`**: The Ollama provider answers a timeout, a
  refused connection or an HTTP error with a text and finish_reason "error"
  (providers/ollama.py:69-93), and the loop takes any response without tool
  calls for the final reply (tool_loop.py:411-418), so the phase completes with
  the error text as its result; tool_loop.py:137 says ToolLoopFailed is for
  "Loop failed (timeout, cancellation, or provider error)."
- **`ToolLoop`, `UsageOfEveryLeg`**: `resume` starts with an empty list of usage
  records (tool_loop.py:360) and a suspension's records are not in the
  continuation (tool_loop.py:641-676), so the final outcome holds only the last
  leg's; the docstring of tests/test_tool_loop.py:404 says "Usage records from
  both segments are present in the final outcome."
- **`ToolLoop`, `OnlyAskedAnswers`**: `resume` appends whatever call_id the
  client names (tool_loop.py:329-335), and the controller checks the ids only
  against a claim, if there is one (controller.py:1028-1036), so the provider is
  given answers to calls it never made; tool_loop.py:306 describes the argument
  as "Results for pending tool calls."
- **`FixOperation`, `ReplaySameResult`**: `execute` completes the stored
  operation whatever the status of the result (executor.py:227-234), and a
  replay answers the stored status alone (executor.py:817-825), so an accepted,
  blocked or failed Fix is replayed as completed; schemas/idempotency.py:3 says
  "The core guarantees that replaying a request with the same key within the
  retention window produces the same result without side effects."
- **`FixOperation`, `RunsOnce`**: `create` checks the idempotency store and
  _operations without a lock and enters the operation only after its file was
  written (store.py:130-153), so two threads with one key are both told "new"
  and both execute; schemas/idempotency.py:3 says "The core guarantees that
  replaying a request with the same key within the retention window produces the
  same result without side effects."
- **`FixOperation`, `ConflictMeansDifferent`**: The request hash is taken over
  the whole context (executor.py:149-153), which holds the time stamp the
  authority was given when the request was translated (service.py:178-184,
  schemas/authority.py:24), and the keys are in memory only, so after a restart
  the same request is a conflict; executor.py:162 says "Operation conflicts with
  an existing operation with different parameters".
- **`FixOperation`, `CompletedHasFinished`**: `_to_operation_response` reports
  every status it does not know as completed and permits continuation
  (service.py:298-302), and create returns a pending or running operation of the
  same request as existing (store.py:142-147), so an operation that runs, or
  died while it ran, is reported as completed; operations/result.py:19 says "All
  host adapters must translate this into their host-specific response format
  without loss of semantic information."
- **`FixOperation`, `AcceptedLaunchesCodex`**: The dispatcher passes the
  ignition result, which names no handoff (adapters/aflow_fix.py:22-31), to
  continue_implementation and keeps handoff_path in the artifact
  (fix_host.py:509-515), so _fix_continue finds no handoff_path
  (executor.py:433-437) and never launches Codex;
  runtime/tests/codex/test_fix_continuation.py:4 says "1. Accepted Fix
  automatically launches Codex once."
- **`BuildExecution`, `StaleIsInterruptible`**: `interrupt_running` gives the
  abandoned execution the status interrupted (scheduler.py:165-180), but
  terminal_status puts failed first (scheduler.py:156-159), so _scheduler_for
  refuses the reconciled state and claim raises "Execution initialization
  failed" (execution_store.py:245-247, 433-434): the execution stays running for
  good, and so does every later claim of that build under its authority fail;
  runtime/tests/test_execution_store.py:277 says
  "test_unlocked_stale_running_state_becomes_interrupted".
- **`BuildExecution`, `SuspendedCanBeResumed`**: `_suspend_for_routing`
  publishes the record before it persists the suspended state
  (executor.py:237-248) and resume deletes the record before resume_execution
  looks at the state (operation_envelope.py:191, executor.py:267-273): a resume
  in between is refused and leaves a suspended execution that nothing can
  resume; executor.py:234 says "The operation can be resumed via
  resume_execution() with appropriate resume input".
- **`BuildExecution`, `TaskRunsOnce`** (two resumers; so is
  `ImplementsBuildRun`): `resume_execution` checks the status before it takes
  the execution lock (executor.py:271, 337) and starts from a fresh state
  afterwards, so a second resume that read the record in time runs every task
  again, over the terminal state of the first; executor.py:273 says "Only a
  suspended execution can be resumed".
- **The builder, a retry after a crash.** When a process dies after it acquired
  the authority and before it bound the key, an identical request is refused by
  the abandoned claim until an operator recovers it; the repository's
  `openai_project/README.md:163-164` says "identical idempotent requests
  returned the existing durable state". `KeyRunsOnce` shows that the retry at
  least runs nothing.
- **`FixVerification`, `TestsAreRerun`** (an operation whose finding is a failed
  test, `[kind |-> "regression", file |-> "pytest", line |-> 0]`).
  `RT/codex/fix_verification.py:179-181` says "The verifier injects a
  deterministic test runner owned by the verifier itself". The rescan is built
  without one (`fix_verification.py:402-405`), so no scan of the verifier ever
  finds a failed test, whatever Codex left.
- **`FixVerification`, `MinimalScanSuffices`** (an operation whose finding is
  `Syntax`, with the answers for it). `RT/codex/fix_verification.py:594-596`
  says of the rescan by a process that cannot import the scanner that it is
  "sufficient for scanner_clear evaluation when the original findings are
  syntax/JSON errors". Its findings have identifiers of their own
  (`rescan-...`), and a check passes when the identifier of the original is not
  among them, so every syntax error that is still there counts as gone.
- **`FixVerification`, `VerdictEndsLaunches`**.
  `RT/codex/fix_verification.py:38-40` says that when the verdict's file exists
  "the persisted result is returned without relaunching Codex". The continuation
  launches Codex before the verifier looks for a verdict, so a second call
  launches again.
- **`CodexLaunch`, `LaunchedOnce`**. `RT/codex/adapter.py:40` says "Project one
  persisted prepared Build into exactly one Codex launch". `claim_continuation`
  holds the store's lock, but `bind` and `persist_response` write the same file
  without it (`RT/operations/store.py:319`), so a call that began before another
  claimed puts the record back to unclaimed and launches too. `LaunchIsBacked`
  and `LaunchIsRecorded` say what holds of calls that do not overlap.
- **`CodexLaunch`, `LaunchIsOfCompleted`**. `RT/builder/executor.py:231-235`
  says that a suspended execution "can be resumed via resume_execution()".
  `_host_status` (`RT/operations/service.py:22-28`) takes a status it does not
  know for completed, so the adapter launches Codex for a Build that is
  suspended, or whose end has no evidence.
- **`ReviewLifecycle`, `RevisionsAdvance`** (`Submissions = {a, b}`, `Drafts =
  {}`). `RT/audisor_lifecycle/artifact_flow.py:134-135` says "unchanged
  canonical content keeps its revision; changed content advances it". The
  revision is read from the newest result when a run starts and written when it
  ends, so two runs of different contents get the same one.
- **`ReviewLifecycle`, `IdenticalRunsOnce`**.
  `RT/audisor_lifecycle/active_runs.py:28-31` says that "an identical submission
  while a prior run is still active returns that run's identity instead of
  starting another". The look for a marker and its writing are separate steps,
  and two submissions pass between them.
- **`ReviewLifecycle`, `MarkerStaysGone`**. The comment at
  `RT/audisor_lifecycle/management.py:1118-1119` says that a missing marker is
  not recreated, because that "would resurrect it". A progress report of a stage
  that was timed out reads the marker before it is removed and writes it after.
- **`ChatTurn`, `UserMaySend`**. `WEB/store/taskStore.ts:55-56` says of a
  cancelled or failed turn "then control returns to the user". Every event that
  ends nothing sets `loading` (`taskStore.ts:476-479`), and the chat source
  emits events after it was aborted (`WEB/agent/BackendChatSource.ts:358-376`,
  `:436`), so the tab loads for ever.
- **`ChatTurn`, `EveryCallIsAnswered`** (a message with the reply `{read,
  typo}`). A provider's reply with several calls needs a result for each. A call
  of an unknown tool next to a known one, and every guarded call but the first,
  never get one.
- **`UsageAccounting`, `InvocationsAreAccounted`** (the automatic engine with a
  model to fall back to, grammar ready, a ledger, no prices).
  `AS/application/usage_integration.py:3-5` says "One provider invocation
  reserves exactly one usage attempt and always finalizes it". When the grammar
  checker fails, the selector itself falls back to the model
  (`AS/application/fix_engines.py:325`), although no attempt was begun for that
  engine (`AS/application/service.py:321-325`): the call is in no record. If it
  fails too, an attempt is begun and the model is called a second time.
- **`UsageAccounting`, `TerminalStays`**. `AS/usage/ledger.py:1` says "Atomic,
  idempotent persistence for sanitized usage evidence". Reserve and finalize
  read a record and replace it whole, so a late request with the same id
  replaces one that has ended.
- **`MutationGate`, `EveryTargetIsReviewed`**. `RT/audisor_lifecycle/hook.py`
  gives as the reason of a permission that "requested targets are authorized"
  (`hook.py:242`). Of a call without a list of targets it reads the headers of a
  patch, but not the `*** Move to:` of a move, and otherwise only paths under
  `openai_project/` (`hook.py:122-139`), so a call with one authorized target
  may name others. A state file with slices is judged by its slices alone
  (`hook.py:281-288`).
- **`MutationGate`, `ReplayIsFaithful`**.
  `RT/audisor_lifecycle/review_contract.py:163` says "Idempotent replay: return
  cached outcome". A replay gives as `contract_sha256` the operation's result
  hash (`review_contract.py:172`), which is a hash over that digest (`:286`), so
  the two answers to one request name different contracts.
- **`MutationGate`, `ActiveIsNotStolen`**.
  `RT/audisor_lifecycle/active_state.py:16-17` says "malformed or conflicting
  state is never silently overwritten". The check of the active state and its
  replacement are separate steps, and another review's lock may arrive between
  them.

### Weaknesses no document speaks against

Controller, builder, Fix dispatcher:

- A generic resume to planning dies with `NameError` (`OC/controller.py:391`)
  after the record was saved in `reviewing`. The model has it: the handler
  ends, and only a cancellation leaves that state.
- After a restart an operation in an active state stays there: the controller
  has no recovery.
- `claim` or `bind` that raises leaves the authority claim to the operator
  (`RT/builder/executor.py:394`).
- The locks of the Fix dispatcher are of one process; with two, a decision may
  be replaced.

Fix verification:

- A finding's id is a hash that includes its line, so a defect that moved is a
  new finding, and the old one counts as gone. A file that no longer parses has
  one finding and hides its others; `ClaimIsClear` therefore excepts `Masked`.
- A finding whose evidence has an empty command is grounded as a recorded test
  (`BK/policies/fix/validation_grounding.py:132-138`), and the verifier then
  refuses it for want of tokens, after Codex has worked.
- When anything raises after Codex ended, the answer says `codex_launched` is
  false. Nothing bounds the time Codex takes.

Review lifecycle and mutation gate:

- The generation check of `_save_probe` (`RT/audisor_lifecycle/management.py:248-263`)
  never refuses, because no probe carries a generation: a probe that began
  before an invalidation is saved over it as ready.
- A replay looks only at the newest result of the artifact; an issue about the
  state directory is filed under the run "unknown".
- A stage lowers `provider.timeout_seconds` to what is left of its budget
  (`RT/audisor_lifecycle/stage_worker.py:166-167`) and never raises it again.
- The hook's branch for slices looks at no lock and no contract; no code of the
  repository writes a state file that would take it. The hook that starts a
  review after planning never writes a lock. The launcher reads the artifacts of an
  operation and not the active envelope, so a cleared lock still launches.
- A change of mode hides a change of content of the same file in the launcher's
  list; what validation commands write is not checked; the worker's exit code
  does not enter the verdict.
- An exception while a contract is put together leaves the operation "running".

Chat:

- The limit of the tool loop (`AS/application/chat_orchestrator.py:335`) counts
  from the start of each request, while a turn's time to live counts from its
  creation. `_cleanup_expired` (`:131-135`) deletes from a dictionary that other
  threads delete from.
- The handler that would ask the user for an approval is never set
  (`setApprovalHandler` has no caller), so that a guarded call is always denied.
  If it were approved, the approval would be posted as the tool's result
  (`BackendChatSource.ts:456-463`), and neither the tab nor the server would run
  the tool.
- A task that was cancelled while the body of an error response was read is
  reported as failed all the same (`BackendChatSource.ts:197-213`), and the store
  does not look whose event it is (`taskStore.ts:473-480`): it ends the task that
  was sent meanwhile, which the next message then aborts. `TasksEnd` excepts it.
- Tools are offered to local providers only. A `ProviderError` that nobody
  catches is a status 500; a turn that was lost reports zero usage.
- The tab's shell reads a timeout as the end of the stream
  (`WEB/agent/toolExecutor.ts:227-241`). In the chat flow no pending call is
  ever claimed, although `_tryClaim` exists.

Usage accounting:

- A policy in enforce mode records what it would refuse and refuses nothing (its
  document says so). A limit of context of a model is not known to preflight.
- A record that was blocked refuses the final write, so its actual usage is
  lost; an exception that becomes a status 500 leaves the record reserved.

## 6. What is not modelled

- *Controller:* `list_suspended` and `get_status`, which only read; the chat
  adapter, which no code constructs; the companion `state_transition` event of
  each event; the torn content of a temporary file; several operations at once.
- *Tool loop:* the text of messages, argument validation, and the call ids of
  the text fallback (`OC/providers/ollama.py:188`), which repeat within one
  conversation.
- *Fix:* the policies that only check the form of a provider's answer (an
  outcome in `FixOperation`); two writers of one operation's temporary file
  (`RT/operations/store.py:101`). The dispatcher's own call never reaches the
  continuation, so `FixVerification` begins with an accepted handoff.
- *Fix verification:* what Codex does (any set of defects may be left), the
  sandbox of the validation commands (a command passes, fails or times out), and
  the wording of prompts and reports.
- *Builder:* `load_and_reconcile`, which only tests call; the expiry of a
  suspension's hold; revised plans with other tasks; preparation, sandboxing
  and path checks (they decide whether `Create` and `FinishTask` succeed);
  scopes that overlap without being equal, which have different authority keys
  (`global_authority.py:80`); an operator who recovers a suspended execution
  (`global_authority.py:625`).
- *Codex launch:* what the build executor does inside (`BuildExecution` has
  it; here a build ends in one of its statuses).
- *Review lifecycle:* the queries and the resolution of issues, the contents of
  a readiness report, the installation and the MCP protocol.
- *Mutation gate:* what a shell command really writes, beyond the paths its text
  names; a reading of a tree while it is being changed.
- *Chat:* several tabs, prompts, the WebContainer's files, the settings.
- *Usage:* the optional reconciliation with an openai sidecar, the JSON schemas.
- *Whole components:* the A-Flow library (pure functions of documents; their
  decisions are inputs), the provider of the tool loop, the A-Flow HTTP route,
  runtime adapters, routing, policies and schemas, the preparation of builds,
  the frontend's views, packaging, scripts and documents. `PROJECT.json` gives
  the reason for each.

## 7. Plan

Done, in this order: the controller, the event store, the tool loop, the Fix
operation, the builder with its abstract specification; the Fix verification,
the Codex launch, the review lifecycle, the chat turn, the usage accounting, the
mutation gate; and the proofs of section 4.

Next, the most important first:

1. `Frontends`: two clients that poll, claim, run and submit, composed with
   `OperationController` and `EventStore`. It answers whether a tool runs twice
   when a claim is refused or lost (`WEB/agent/BackendChatSource.ts:530`) and
   whether a client that stops at a terminal status has seen the last event
   (`operations_routes.py:181`).
2. `Fulfilment`: fulfilment, drift and closure of the A-Flow library, in place
   of the decisions `MutationGate` now takes as input.

Worth proving next: that the actions of `TaskScheduler` and the write sequences
of the stores keep what other modules now take as their inputs, and which of the
promises of `OperationLifecycle` any number of handlers keeps.
