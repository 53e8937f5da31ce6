---------------------------- MODULE MutationGate ----------------------------
(***************************************************************************)
(* Who may change the repository.  A review (review_contract.py) turns an  *)
(* analysed plan into a locked execution contract and writes it to the     *)
(* active state file (active_state.py) and the artifact store; the         *)
(* PreToolUse hook (hook.py) answers each tool call of the agent from that *)
(* file; the launcher (execution_launcher.py) runs a worker on a copy of   *)
(* the repository from the artifacts and judges what it did.               *)
(*                                                                         *)
(* Reviews, hooks and launches are processes that share only files.  A     *)
(* file is replaced atomically, but every review writes the active state   *)
(* through the same temporary file: a review that opens it while another   *)
(* one has it open truncates it, and a handle follows the file when the    *)
(* other review renames it.                                                *)
(*                                                                         *)
(* A path is the sequence of its names, << >> is the root ".".  A digest   *)
(* is the content it is taken of.                                          *)
(***************************************************************************)
EXTENDS Integers, SequencesExt

CONSTANTS
  Reviews, Hooks, Launches,   \* callers of review_and_lock, of the hook, of the launcher
  Ops,                        \* operation ids
  Plans,                      \* requests for a review
  Content,                    \* what each of them says
  Calls,                      \* tool calls: [tool, listed, headers, words]
  SliceFiles,                 \* active state files of version 2, which nothing in src/ writes
  Trees,                      \* states of the primary repository
  Files,                      \* paths of the worker's copy
  Before, Afters,             \* its tree before the worker ran, and after
  Absent, None, Torn, Bad,
  MaxUpsets                   \* bound: clear_active_state calls, failed audits, crashes

Path == Seq(STRING)

ASSUME GateAssumption ==
  /\ \A plan \in Plans : /\ Content[plan].targets \subseteq Path
                          /\ Content[plan].allowed \subseteq Path
                          /\ Content[plan].prohibited \subseteq Path
  /\ \A call \in Calls : call.listed \cup call.headers \cup call.words \subseteq Path \cup { Bad }
  /\ \A file \in SliceFiles : \A i \in DOMAIN file.slices : file.slices[i].allowed \subseteq Path
  /\ Files \subseteq Path
  /\ None \notin { "allow", "blocked", "conflict", "proven" }
  /\ MaxUpsets \in Nat

VARIABLES
  store,    \* the operation store, by operation id
  active,   \* active-lock.json: None, Torn or an envelope
  temp,     \* active-lock.json.tmp
  artifacts,\* the contract and lock files, by operation id
  review, hook, launch,       \* frames of the processes
  primary,  \* the tree of the primary repository
  upsets

vars == << store, active, temp, artifacts, review, hook, launch, primary, upsets >>

NoReview == [pc |-> "idle", op |-> None, plan |-> None, handle |-> None, sha |-> None,
             answer |-> None, replay |-> FALSE]
NoHook   == [pc |-> "idle", call |-> None, decision |-> None, reason |-> None, answer |-> None]
NoLaunch == [pc |-> "idle", op |-> None, contract |-> None, base |-> None,
             primary_before |-> None, primary_after |-> None, after |-> None,
             worker |-> None, checks |-> None, verdict |-> None, edited |-> FALSE]

------------------------------------------------------------------------------
(* Paths and contracts. *)

Inside(path, root) == IsPrefix(root, path)

InsideAny(path, roots) == \E root \in roots : Inside(path, root)

(* validate_relative_path and canonicalize_path: relative, without         *)
(* traversal or reserved names, and not led outside by a link.             *)
Canonicalizes(path) == path # Bad

(* check_paths_allowed: every path canonicalizes, is under an allowed root *)
(* and under no prohibited one.                                            *)
CheckPathsAllowed(paths, allowed, prohibited) ==
  \A path \in paths :
    Canonicalizes(path) /\ InsideAny(path, allowed) /\ ~InsideAny(path, prohibited)

(* Mutation: an action may target what the authority prohibits. *)
ValidateAllowed(plan) ==
  /\ plan.allowed # {} /\ plan.targets # {}
  /\ \A path \in plan.targets : InsideAny(path, plan.allowed)

(* _validate_authority *)
ValidateAuthority(plan) ==
  /\ plan.allowed # {} /\ plan.targets # {}
  /\ \A path \in plan.targets :
       InsideAny(path, plan.allowed) /\ ~InsideAny(path, plan.prohibited)

(* _validate_traceability: every requirement is covered by an action, a    *)
(* validation, evidence and an acceptance rule, every action is staged.    *)
ValidateTraceability(plan) ==
  /\ plan.requirements # {}
  /\ \A section \in DOMAIN plan.covers : plan.covers[section] = plan.requirements
  /\ plan.staged = plan.targets

(* map_decision_to_frozen and normalize_frozen_readiness: findings stay    *)
(* unresolved unless the decision is clean.                                *)
Readiness(plan) ==
  [decision |-> plan.decision,
   unresolved |-> IF plan.decision = "no_material_gap" THEN {} ELSE plan.findings]

(* assemble_contract, from content that passed _validate. *)
Assembles(plan) == ValidateAuthority(plan) /\ ValidateTraceability(plan)

Contract(plan) ==
  LET body == [plan |-> plan, readiness |-> Readiness(Content[plan])]
  IN  [body |-> body, sha |-> body]

PlanOf(contract) == Content[contract.body.plan]

VerifyContract(contract) == contract.sha = contract.body

ReadyContract(contract) ==
  /\ VerifyContract(contract)
  /\ contract.body.readiness = [decision |-> "no_material_gap", unresolved |-> {}]

(* accept_for_primary: the lock's payload names the contract's digest. *)
AcceptForPrimary(sha) == [payload |-> sha, hash |-> sha]

VerifyLock(lock) == lock.hash = lock.payload

Envelope(op, plan) ==
  [op |-> op, lock |-> AcceptForPrimary(Contract(plan).sha), contract |-> Contract(plan)]

------------------------------------------------------------------------------
(* review_and_lock *)

SetReview(r, frame) == review' = [review EXCEPT ![r] = frame]

Answer(frame, answer, sha) ==
  [frame EXCEPT !.pc = "done", !.answer = answer, !.sha = sha, !.handle = None]

(* The store is read anew by every call.  A known operation is replayed    *)
(* from its status; its contract_sha256 is the digest of the stored result.*)
OpenOperation(r) == \E op \in Ops, plan \in Plans :
  LET frame == [NoReview EXCEPT !.op = op, !.plan = plan]   old == store[op]
  IN  /\ review[r].pc = "idle"
      /\ SetReview(r,
           IF old = None THEN [frame EXCEPT !.pc = "create"]
           ELSE IF old.plan # plan THEN Answer(frame, "conflict", None)
           ELSE [Answer(frame, IF old.status = "completed" THEN "ok" ELSE "blocked", old.result)
                   EXCEPT !.replay = TRUE])
      /\ UNCHANGED << store, active, temp, artifacts, hook, launch, primary, upsets >>

CreateOperation(r) ==
  /\ review[r].pc = "create"
  /\ store' = [store EXCEPT ![review[r].op] =
                 [status |-> "pending", plan |-> review[r].plan, result |-> None]]
  /\ SetReview(r, [review[r] EXCEPT !.pc = "start"])
  /\ UNCHANGED << active, temp, artifacts, hook, launch, primary, upsets >>

Store(r, status, result) ==
  store' = [store EXCEPT ![review[r].op] =
              [status |-> status, plan |-> review[r].plan, result |-> result]]

StartOperation(r) ==
  /\ review[r].pc = "start"
  /\ Store(r, "running", None)
  /\ SetReview(r, [review[r] EXCEPT !.pc = "analyzed"])
  /\ UNCHANGED << active, temp, artifacts, hook, launch, primary, upsets >>

(* A plan with a gap is blocked and creates no state. *)
Blocked(plan) == plan.blocking \/ plan.decision # "no_material_gap"

BlockOperation(r) ==
  /\ review[r].pc = "analyzed" /\ Blocked(Content[review[r].plan])
  /\ Store(r, "blocked", None)
  /\ SetReview(r, Answer(review[r], "blocked", None))
  /\ UNCHANGED << active, temp, artifacts, hook, launch, primary, upsets >>

(* The contract is assembled and write_active_state looks at the file:     *)
(* content that fails validation, a malformed file or one of another       *)
(* operation raises, and the operation stays running.                      *)
CheckActive(r) ==
  LET plan == Content[review[r].plan]
      refused == \/ ~Assembles(plan) \/ active = Torn
                 \/ active # None /\ active # Torn /\ active.op \notin { None, review[r].op }
  IN  /\ review[r].pc = "analyzed" /\ ~Blocked(plan)
      /\ SetReview(r, IF refused THEN Answer(review[r], "raised", None)
                      ELSE [review[r] EXCEPT !.pc = "open"])
      /\ UNCHANGED << store, active, temp, artifacts, hook, launch, primary, upsets >>

(* The temporary file is opened for writing, which truncates it. *)
OpenTemp(r) ==
  /\ review[r].pc = "open"
  /\ temp' = Torn
  /\ SetReview(r, [review[r] EXCEPT !.pc = "fill", !.handle = "temp"])
  /\ UNCHANGED << store, active, artifacts, hook, launch, primary, upsets >>

(* The envelope goes where the handle's file is by now. *)
FillTemp(r) ==
  LET envelope == Envelope(review[r].op, review[r].plan)
  IN  /\ review[r].pc = "fill"
      /\ temp' = IF review[r].handle = "temp" THEN envelope ELSE temp
      /\ active' = IF review[r].handle = "active" THEN envelope ELSE active
      /\ SetReview(r, [review[r] EXCEPT !.pc = "replace", !.handle = None])
      /\ UNCHANGED << store, artifacts, hook, launch, primary, upsets >>

(* os.replace: open handles of the temporary file follow it, those of the  *)
(* file it replaces are left with a file that has no name.                 *)
ReplaceActive(r) ==
  LET follows(handle) == CASE handle = "temp" -> "active"
                           [] handle = "active" -> None
                           [] OTHER -> handle
  IN  /\ review[r].pc = "replace"
      /\ \/ /\ temp # None
            /\ active' = temp /\ temp' = None
            /\ review' = [s \in Reviews |->
                 IF s = r THEN [review[r] EXCEPT !.pc = "contract"]
                 ELSE [review[s] EXCEPT !.handle = follows(@)]]
         \/ /\ temp = None      \* another review has renamed it
            /\ SetReview(r, Answer(review[r], "raised", None))
            /\ UNCHANGED << active, temp >>
      /\ UNCHANGED << store, artifacts, hook, launch, primary, upsets >>

PersistContract(r) ==
  /\ review[r].pc = "contract"
  /\ artifacts' = [artifacts EXCEPT ![review[r].op].contract = Contract(review[r].plan)]
  /\ SetReview(r, [review[r] EXCEPT !.pc = "lock"])
  /\ UNCHANGED << store, active, temp, hook, launch, primary, upsets >>

PersistLock(r) ==
  /\ review[r].pc = "lock"
  /\ artifacts' = [artifacts EXCEPT ![review[r].op].lock =
                     AcceptForPrimary(Contract(review[r].plan).sha)]
  /\ SetReview(r, [review[r] EXCEPT !.pc = "complete"])
  /\ UNCHANGED << store, active, temp, hook, launch, primary, upsets >>

(* complete stores the digest of the result, which holds the contract's. *)
CompleteOperation(r) ==
  LET sha == Contract(review[r].plan).sha
  IN  /\ review[r].pc = "complete"
      /\ Store(r, "completed", [contract_sha256 |-> sha])
      /\ SetReview(r, Answer(review[r], "ok", sha))
      /\ UNCHANGED << active, temp, artifacts, hook, launch, primary, upsets >>

(* clear_active_state, which only its owner calls. *)
ClearActive ==
  /\ upsets < MaxUpsets /\ upsets' = upsets + 1
  /\ active # None /\ active' = None
  /\ review' = [r \in Reviews |->
       [review[r] EXCEPT !.handle = IF @ = "active" THEN None ELSE @]]
  /\ UNCHANGED << store, temp, artifacts, hook, launch, primary >>

(* A review's process dies; its files stay as they are. *)
CrashReview(r) ==
  /\ upsets < MaxUpsets /\ upsets' = upsets + 1
  /\ review[r].pc \notin { "idle", "done" }
  /\ SetReview(r, [review[r] EXCEPT !.pc = "done", !.answer = "dead", !.handle = None])
  /\ UNCHANGED << store, active, temp, artifacts, hook, launch, primary >>

------------------------------------------------------------------------------
(* The PreToolUse hook *)

SetHook(h, frame) == hook' = [hook EXCEPT ![h] = frame]

(* is_mutation_attempt: known mutating tools, shell commands that match a  *)
(* mutating pattern, and every unknown tool.                               *)
IsMutationAttempt(tool) == tool \in { "edit", "shell_write", "unknown" }

(* requested_targets: the list that the call gives; without one, what the  *)
(* headers of its patch name (not "*** Move to:"); without those, what its *)
(* text names under openai_project/.  No target if one does not normalize. *)
RequestedTargets(call) ==
  LET words == { path \in call.words : path = Bad \/ Inside(path, << "openai_project" >>) }
      found == CASE call.listed # {} -> call.listed
                 [] call.listed = {} /\ call.headers # {} -> call.headers
                 [] OTHER -> words
  IN  IF Bad \in found THEN {} ELSE found

(* _check_slice_authority: the first slice that a target falls into is     *)
(* locked.                                                                 *)
CheckSliceAuthority(slices, targets) ==
  \A target \in targets : \E i \in DOMAIN slices :
    /\ InsideAny(target, slices[i].allowed) /\ slices[i].locked
    /\ \A j \in 1 .. i - 1 : ~InsideAny(target, slices[j].allowed)

(* verify_active_state *)
VerifyActiveState(state) ==
  /\ VerifyLock(state.lock) /\ ReadyContract(state.contract)
  /\ state.lock.payload = state.contract.sha

(* Mutation: what the plan's actions target is not looked at. *)
TargetsAllowed(targets, plan) == CheckPathsAllowed(targets, plan.allowed, plan.prohibited)

(* _targets_authorized *)
TargetsAuthorized(targets, plan) ==
  /\ CheckPathsAllowed(targets, plan.allowed, plan.prohibited)
  /\ \A target \in targets : InsideAny(target, plan.targets)

(* What the state file says of the targets: its slices, if it has any,     *)
(* instead of its lock and contract.                                       *)
Reason == IF active \in SliceFiles THEN "slices" ELSE "contract"

Authorized(targets) ==
  \/ active \in SliceFiles /\ CheckSliceAuthority(active.slices, targets)
  \/ /\ active \notin SliceFiles /\ VerifyActiveState(active)
     /\ TargetsAuthorized(targets, PlanOf(active.contract))

(* evaluate_hook_payload; a file that does not parse is an error. *)
Evaluate(call) ==
  LET targets == RequestedTargets(call)
  IN  CASE ~IsMutationAttempt(call.tool) -> "allow"
        [] IsMutationAttempt(call.tool) /\ active = Torn -> "error"
        [] OTHER -> IF targets # {} /\ active # None /\ Authorized(targets)
                    THEN "allow" ELSE "deny"

(* main: a payload that does not parse is denied without a record. *)
ReadPayload(h) == \E call \in Calls :
  /\ hook[h].pc = "idle"
  /\ SetHook(h, IF call.tool = "malformed"
                THEN [NoHook EXCEPT !.pc = "done", !.answer = "deny"]
                ELSE [NoHook EXCEPT !.pc = "evaluate", !.call = call])
  /\ UNCHANGED << store, active, temp, artifacts, review, launch, primary, upsets >>

EvaluateHook(h) ==
  /\ hook[h].pc = "evaluate"
  /\ SetHook(h, [hook[h] EXCEPT !.pc = "audit", !.decision = Evaluate(hook[h].call),
                                !.reason = Reason])
  /\ UNCHANGED << store, active, temp, artifacts, review, launch, primary, upsets >>

(* The record is written before the decision is given: exit 0 without      *)
(* output allows, anything else denies.                                    *)
AuditAndEmit(h) ==
  /\ hook[h].pc = "audit"
  /\ SetHook(h, IF hook[h].decision = "allow"
                THEN [hook[h] EXCEPT !.pc = "done", !.answer = "allow"]
                ELSE [NoHook EXCEPT !.pc = "done", !.answer = "deny"])
  /\ UNCHANGED << store, active, temp, artifacts, review, launch, primary, upsets >>

(* HookAuditError: exit 2, which denies. *)
AuditFails(h) ==
  /\ hook[h].pc = "audit"
  /\ upsets < MaxUpsets /\ upsets' = upsets + 1
  /\ SetHook(h, [NoHook EXCEPT !.pc = "done", !.answer = "deny"])
  /\ UNCHANGED << store, active, temp, artifacts, review, launch, primary >>

(* An edit of the primary repository.  A launch that reads its tree a      *)
(* second time remembers whether the first reading has been overtaken.     *)
Reading == { "based", "worker", "validate" }

Edited(frame, tree) ==
  [frame EXCEPT !.edited = IF frame.pc \in Reading THEN tree # frame.primary_before ELSE @]

(* The agent's host makes the edit that was allowed, or takes one back.    *)
HostEdits(h) == \E tree \in Trees :
  /\ hook[h].pc = "done" /\ hook[h].answer = "allow" /\ IsMutationAttempt(hook[h].call.tool)
  /\ primary' = tree
  /\ launch' = [l \in Launches |-> Edited(launch[l], tree)]
  /\ SetHook(h, [hook[h] EXCEPT !.pc = "edited"])
  /\ UNCHANGED << store, active, temp, artifacts, review, upsets >>

------------------------------------------------------------------------------
(* launch_execution *)

SetLaunch(l, frame) == launch' = [launch EXCEPT ![l] = frame]

(* What led to another verdict than "proven" is forgotten. *)
Judged(frame, verdict) ==
  [(IF verdict = "proven" THEN frame ELSE NoLaunch) EXCEPT !.pc = "done", !.verdict = verdict]

(* _admission: the contract and lock files verify, are ready and bound,    *)
(* and the request names the accepted baseline.  A missing file raises.    *)
Admissible(files, same) ==
  /\ VerifyContract(files.contract) /\ VerifyLock(files.lock) /\ ReadyContract(files.contract)
  /\ files.lock.payload = files.contract.sha
  /\ same

Admit(l) == \E op \in Ops, same \in BOOLEAN :
  LET files == artifacts[op]   frame == [NoLaunch EXCEPT !.op = op]
  IN  /\ launch[l].pc = "idle" /\ files.contract # None
      /\ SetLaunch(l, IF files.lock = None THEN Judged(frame, "raised")
                      ELSE IF Admissible(files, same)
                      THEN [frame EXCEPT !.pc = "admitted", !.contract = files.contract]
                      ELSE Judged(frame, "not_admitted"))
      /\ UNCHANGED << store, active, temp, artifacts, review, hook, primary, upsets >>

(* primary_before *)
ReadPrimary(l) ==
  /\ launch[l].pc = "admitted"
  /\ SetLaunch(l, [launch[l] EXCEPT !.pc = "based", !.primary_before = primary])
  /\ UNCHANGED << store, active, temp, artifacts, review, hook, primary, upsets >>

(* The contract and lock files are taken down, then the workspace is made  *)
(* from the accepted baseline, or is not.                                  *)
CreateWorkspace(l) == \E made \in BOOLEAN :
  /\ launch[l].pc = "based"
  /\ SetLaunch(l, IF made
                  THEN [launch[l] EXCEPT !.pc = "worker", !.base = artifacts[launch[l].op]]
                  ELSE Judged(launch[l], "launch_failed"))
  /\ UNCHANGED << store, active, temp, artifacts, review, hook, primary, upsets >>

(* The worker's command changes the workspace, or does not start in time.  *)
(* Nothing keeps it, or anybody else, from editing the primary repository. *)
RunWorker(l) == \E after \in Afters, outcome \in { "ends", "error" }, tree \in Trees :
  /\ launch[l].pc = "worker"
  /\ primary' = tree
  /\ launch' = [k \in Launches |->
       IF k = l THEN [Edited(launch[l], tree) EXCEPT !.pc = "validate", !.after = after,
                                                     !.worker = outcome]
       ELSE Edited(launch[k], tree)]
  /\ UNCHANGED << store, active, temp, artifacts, review, hook, upsets >>

(* _validations: "missing" when a validation has no permitted executable   *)
(* definition or leaves no evidence output.                                *)
Validations(plan) == IF plan.runnable THEN SUBSET { "missing", "failed" } ELSE { { "missing" } }

(* The validations, then primary_after. *)
Validate(l) ==
  /\ launch[l].pc = "validate"
  /\ \E checks \in Validations(PlanOf(launch[l].contract)) :
       SetLaunch(l, [launch[l] EXCEPT !.pc = "judge", !.checks = checks,
                                      !.primary_after = primary])
  /\ UNCHANGED << store, active, temp, artifacts, review, hook, primary, upsets >>

(* _changes: a removed and a created file of the same content are a        *)
(* rename, as many as pair up; a new mode hides a new content.             *)
Renames(after) ==
  LET removed == { f \in Files : Before[f] # Absent /\ after[f] = Absent }
      created == { f \in Files : Before[f] = Absent /\ after[f] # Absent }
      pairs   == { p \in removed \X created : Before[p[1]].content = after[p[2]].content }
      Matching(m) == \A p, q \in m : p # q => p[1] # q[1] /\ p[2] # q[2]
  IN  CHOOSE m \in SUBSET pairs :
        Matching(m) /\ \A n \in SUBSET pairs : (m \subseteq n /\ Matching(n)) => n = m

Kind(after, f) ==
  LET moved == UNION { { p[1], p[2] } : p \in Renames(after) }
  IN  CASE f \in moved -> "renamed"
        [] f \notin moved /\ Before[f] = Absent -> "created"
        [] f \notin moved /\ after[f] = Absent -> "deleted"
        [] OTHER -> IF Before[f].mode # after[f].mode THEN "mode" ELSE "modified"

Changes(after) ==
  { [path |-> f, kind |-> Kind(after, f)] : f \in { g \in Files : Before[g] # after[g] } }

(* _authorized *)
Violations(changes, plan) ==
  { c \in changes :
      \/ ~CheckPathsAllowed({ c.path }, plan.allowed, plan.prohibited)
      \/ ~InsideAny(c.path, plan.targets)
      \/ c.kind \notin plan.kinds }

Verdict(f, contradicted) ==
  CASE f.worker = "error" -> "launch_failed"
    [] OTHER -> IF contradicted THEN "contradicted"
                ELSE IF f.checks # {} THEN "unproven" ELSE "proven"

(* Mutation: the two readings of the primary repository are not compared. *)
JudgeWorkspace(l) ==
  LET f == launch[l]
  IN  /\ f.pc = "judge"
      /\ SetLaunch(l, Judged(f, Verdict(f,
           \/ Violations(Changes(f.after), PlanOf(f.contract)) # {}
           \/ f.base # artifacts[f.op]
           \/ "failed" \in f.checks)))
      /\ UNCHANGED << store, active, temp, artifacts, review, hook, primary, upsets >>

(* The files are read again; what the primary repository has become since  *)
(* primary_after is not looked at.                                         *)
Judge(l) ==
  LET f == launch[l]
  IN  /\ f.pc = "judge"
      /\ SetLaunch(l, Judged(f, Verdict(f,
           \/ Violations(Changes(f.after), PlanOf(f.contract)) # {}
           \/ f.base # artifacts[f.op]
           \/ f.primary_before # f.primary_after
           \/ "failed" \in f.checks)))
      /\ UNCHANGED << store, active, temp, artifacts, review, hook, primary, upsets >>

------------------------------------------------------------------------------
Init ==
  /\ store = [op \in Ops |-> None]
  /\ active \in { None } \cup SliceFiles /\ temp = None
  /\ artifacts = [op \in Ops |-> [contract |-> None, lock |-> None]]
  /\ review = [r \in Reviews |-> NoReview]
  /\ hook = [h \in Hooks |-> NoHook]
  /\ launch = [l \in Launches |-> NoLaunch]
  /\ primary \in Trees /\ upsets = 0

ReviewStep(r) ==
  \/ CreateOperation(r) \/ StartOperation(r) \/ BlockOperation(r) \/ CheckActive(r)
  \/ OpenTemp(r) \/ FillTemp(r) \/ ReplaceActive(r)
  \/ PersistContract(r) \/ PersistLock(r) \/ CompleteOperation(r)

HookStep(h) == EvaluateHook(h) \/ AuditAndEmit(h) \/ AuditFails(h)

LaunchStep(l) == ReadPrimary(l) \/ CreateWorkspace(l) \/ RunWorker(l) \/ Validate(l) \/ Judge(l)

Next ==
  \/ \E r \in Reviews : OpenOperation(r) \/ ReviewStep(r) \/ CrashReview(r)
  \/ \E h \in Hooks : ReadPayload(h) \/ HookStep(h) \/ HostEdits(h)
  \/ \E l \in Launches : Admit(l) \/ LaunchStep(l)
  \/ ClearActive

Spec == Init /\ [][Next]_vars

------------------------------------------------------------------------------
Contracts == { Contract(plan) : plan \in Plans }
Digests   == { contract.sha : contract \in Contracts }
Locks     == { AcceptForPrimary(sha) : sha \in Digests }
Results   == [contract_sha256 : Digests]
Envelopes == { Envelope(op, plan) : op \in Ops, plan \in Plans }
FilesOfAnOperation == [contract : Contracts \cup { None }, lock : Locks \cup { None }]

Records == [status : { "pending", "running", "blocked", "completed" }, plan : Plans,
            result : Results \cup { None }]

ReviewFrames ==
  [pc : { "idle", "create", "start", "analyzed", "open", "fill", "replace", "contract",
          "lock", "complete", "done" },
   op : Ops \cup { None }, plan : Plans \cup { None }, handle : { "temp", "active", None },
   sha : Digests \cup Results \cup { None },
   answer : { "ok", "blocked", "conflict", "raised", "dead", None }, replay : BOOLEAN]

HookFrames ==
  [pc : { "idle", "evaluate", "audit", "done", "edited" }, call : Calls \cup { None },
   decision : { "allow", "deny", "error", None }, reason : { "slices", "contract", None },
   answer : { "allow", "deny", None }]

LaunchFrames ==
  [pc : { "idle", "admitted", "based", "worker", "validate", "judge", "done" },
   op : Ops \cup { None },
   contract : Contracts \cup { None }, base : FilesOfAnOperation \cup { None },
   primary_before : Trees \cup { None }, primary_after : Trees \cup { None },
   after : Afters \cup { None }, worker : { "ends", "error", None },
   checks : (SUBSET { "missing", "failed" }) \cup { None },
   verdict : { "raised", "not_admitted", "launch_failed", "contradicted", "unproven",
               "proven", None },
   edited : BOOLEAN]

(* Every file holds a whole value or, the active state and its temporary   *)
(* file only, is torn; every frame is that of a process.                   *)
TypeOK ==
  /\ store \in [Ops -> Records \cup { None }]
  /\ active \in { None, Torn } \cup SliceFiles \cup Envelopes
  /\ temp \in { None, Torn } \cup Envelopes
  /\ artifacts \in [Ops -> FilesOfAnOperation]
  /\ review \in [Reviews -> ReviewFrames]
  /\ hook \in [Hooks -> HookFrames]
  /\ launch \in [Launches -> LaunchFrames]
  /\ primary \in Trees /\ upsets \in 0 .. MaxUpsets

(* What a plan must be for anybody to act on it. *)
Sound(plan) ==
  /\ plan.decision = "no_material_gap" /\ ~plan.blocking
  /\ \A path \in plan.targets : ~InsideAny(path, plan.prohibited)

(* The paths a plan lets its executor touch: every prefix of such a path   *)
(* is looked at, by name.                                                  *)
Touchable(plan, path) ==
  LET under == { SubSeq(path, 1, n) : n \in 0 .. Len(path) }
  IN  /\ under \cap plan.allowed # {} /\ under \cap plan.targets # {}
      /\ under \cap plan.prohibited = {}

(* However reviews, clears and crashes interleave, a whole active state    *)
(* file that a review left holds the lock of a plan that the analysis      *)
(* found without a gap and that targets nothing prohibited, bound to that  *)
(* plan's contract.                                                        *)
LockIsEarned ==
  active \notin { None, Torn } \cup SliceFiles =>
    /\ Sound(PlanOf(active.contract))
    /\ active.lock.payload = active.contract.body

(* A mutation the hook allowed names a target, and every target that the   *)
(* hook reads from the call was approved: a locked slice of a version 2    *)
(* file allows it, or some review wrote a lock for a sound plan that lets  *)
(* its executor touch all of them.                                         *)
AllowedIsReviewed ==
  \A h \in Hooks :
    LET targets == RequestedTargets(hook[h].call)
        slices(file) == { file.slices[i] : i \in DOMAIN file.slices }
    IN  (hook[h].answer = "allow" /\ IsMutationAttempt(hook[h].call.tool)) =>
          /\ targets # {}
          /\ hook[h].reason = "slices" => \E file \in SliceFiles : \A path \in targets :
               \E slice \in slices(file) : slice.locked /\ InsideAny(path, slice.allowed)
          /\ hook[h].reason # "slices" => \E r \in Reviews :
               /\ review[r].pc \notin { "idle", "create", "start", "analyzed", "open", "fill" }
               /\ review[r].answer \notin { "blocked", "conflict" }
               /\ Sound(Content[review[r].plan])
               /\ \A path \in targets : Touchable(Content[review[r].plan], path)

(* A launch is proven only if the plan is sound, every file the worker     *)
(* left different is one it may touch, and whatever the agent, the worker  *)
(* or another launch's worker did to the primary repository between its    *)
(* two readings was taken back before the second one.                      *)
ProvenIsEarned ==
  \A l \in Launches : launch[l].verdict = "proven" =>
    /\ Sound(PlanOf(launch[l].contract))
    /\ \A f \in Files : launch[l].after[f] # Before[f] =>
          Touchable(PlanOf(launch[l].contract), f)
    /\ ~launch[l].edited
    /\ launch[l].checks = {}

(* "Idempotent replay: return cached outcome" (review_contract.py): a      *)
(* replay gives the contract digest that the first answer gave.            *)
ReplayIsFaithful ==
  \A r, s \in Reviews :
    (/\ review[r].pc = "done" /\ review[s].pc = "done" /\ review[r].replay
     /\ review[r].op = review[s].op /\ review[r].plan = review[s].plan
     /\ review[r].answer = "ok" /\ review[s].answer = "ok")
    => review[r].sha = review[s].sha

(* "malformed or conflicting state is never silently overwritten.  Cleanup *)
(* requires an explicit call" (active_state.py).                           *)
ActiveIsNotStolen ==
  [][active # None => \/ active' = active \/ active' = None
                      \/ active # Torn /\ active' # Torn /\ active'.op = active.op]_vars

(* "_targets_authorized" (hook.py): "requested targets are authorized".    *)
(* What a call changes is more than what the hook reads of it: the second  *)
(* path of a move, a path outside openai_project/ in a command.            *)
EveryTargetIsReviewed ==
  \A h \in Hooks :
    (hook[h].answer = "allow" /\ IsMutationAttempt(hook[h].call.tool)) =>
      hook[h].call.listed \cup hook[h].call.headers \cup hook[h].call.words
        \subseteq RequestedTargets(hook[h].call)

==============================================================================
