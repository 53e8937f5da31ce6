--------------------------- MODULE FixVerification ---------------------------
(***************************************************************************)
(* What happens to an accepted Fix: the one answer of the local model      *)
(* (audisor_backend/adapters/aflow_fix.py) is grounded in the catalog of   *)
(* validation sources (policies/fix/validation_grounding.py) and put into  *)
(* the handoff; CodexFixContinuation.run (runtime/codex/fix_continuation)  *)
(* validates the handoff, launches Codex in the repository and, when Codex *)
(* exits with 0, FixPostExecutionVerifier.verify (fix_verification.py)     *)
(* scans the repository again and decides whether completion is claimed.   *)
(*                                                                         *)
(* A finding is what its identifier is a hash of: kind, file and position. *)
(* A workspace is the set of its defects, of the paths whose assertions    *)
(* hold and of the commands that exit with 0.  Files are replaced whole.   *)
(***************************************************************************)
EXTENDS Naturals, Sequences, FiniteSets

CONSTANTS
  Runners,      \* processes that run the continuation of the operation
  Paths,        \* scanned files of the repository
  Defects,      \* defects a workspace can have
  Commands,     \* commands with recorded or configured tokens
  Configured,   \* the configured test commands, in order
  Operations,   \* accepted Fix operations
  ModelAnswers, \* what the model may answer
  None,
  MaxRuns,      \* bound: calls of run
  MaxCrashes    \* bound: crashes of a runner

Elements(s) == { s[i] : i \in DOMAIN s }

(* An operation whose plan leaves its manifest is refused before the model *)
(* is asked (ImplementationPlan.validate); plans and answers hold lists.   *)
InputsAreParsed ==
  /\ \A o \in Operations : /\ o.steps \in Seq(Elements(o.steps))
                           /\ \A s \in Elements(o.steps) : s.target \in o.files
  /\ \A a \in ModelAnswers : /\ a.checks \in Seq(Elements(a.checks))
                             /\ a.vals \in Seq(Elements(a.vals))
  /\ None \notin Elements(Configured)

ASSUME FixVerificationAssumption == InputsAreParsed

VARIABLES
  op,        \* the accepted operation
  handoff,   \* qualified-fix-handoff.json, or None
  ws,        \* the repository
  envelope,  \* codex-fix-envelope.json exists
  launch,    \* codex-result.json: exit code, or None
  verdict,   \* fix-verification-result.json, or None
  pc, exit, scan, result,   \* of each runner
  launches,  \* runs in which Codex was started
  claims,    \* verdicts persisted so far
  answers,   \* results of the runs
  runs, crashes

vars == << op, handoff, ws, envelope, launch, verdict, pc, exit, scan, result, launches,
           claims, answers, runs, crashes >>

files == << envelope, launch, verdict >>
local == << exit, scan, result >>
count == << runs, crashes >>

------------------------------------------------------------------------------
(* DeterministicScanner *)

ParsedKinds == { "unsafe_command", "duplicate_symbol", "unresolved_import" }

Masked(f, defects) ==
  \/ /\ f.kind # "unreadable"
     /\ \E d \in defects : d.kind = "unreadable" /\ d.file = f.file
  \/ /\ f.kind \in ParsedKinds
     /\ \E d \in defects : d.kind = "syntax_error" /\ d.file = f.file

(* A test that fails is a finding only when the caller gave a test runner. *)
TestFinding(c) == [kind |-> "regression", file |-> c, line |-> 0]

Scan(w, runner) ==
  { f \in w.defects : ~ Masked(f, w.defects) }
    \cup (IF runner = None THEN {} ELSE { TestFinding(c) : c \in Commands \ w.green })

(* _minimal_rescan, for a process that cannot import audisor_backend: it   *)
(* parses the files, and gives what it finds identifiers of its own.       *)
MinimalScan(w) ==
  { [kind |-> "rescan", file |-> d.file, line |-> 0] :
      d \in { f \in w.defects : f.kind = "syntax_error" /\ ~ Masked(f, w.defects) } }

------------------------------------------------------------------------------
(* Grounding of the model's answer *)

FindingIds(o) == { f.id : f \in o.findings }
RecordedCommands(o, id) == { f.command : f \in { g \in o.findings : g.id = id } } \ { None }
AllowedPaths(o) == o.files \cup o.closure

(* A finding with a reproduction is a scanner source, one with a command a *)
(* recorded test; both kinds of commands are looked up by their source ID. *)
ScannerChecks(o) == { f.id : f \in { g \in o.findings : g.repro } }

CommandSource(o, text) ==
  IF text[1] = "configured" /\ text[2] \in DOMAIN Configured
  THEN [type |-> "configured_test", finding |-> None, tokens |-> Configured[text[2]]]
  ELSE IF text[1] = "recorded" /\ RecordedCommands(o, text[2]) # {}
  THEN [type |-> "recorded_test", finding |-> text[2],
        tokens |-> CHOOSE c \in RecordedCommands(o, text[2]) : TRUE]
  ELSE None

(* Acceptance criteria of the plan as it was before the model's corrections. *)
PlanAcceptances(o, id) ==
  { i \in DOMAIN o.steps : o.steps[i].finding = id /\ o.steps[i].criterion }

First(indices) == CHOOSE i \in indices : \A j \in indices : i <= j

(* to_mapping turns an empty list of tokens into null. *)
Grounding(type, tokens, paths) ==
  [type |-> type, tokens |-> (IF tokens = "empty" THEN None ELSE tokens), paths |-> paths]

(* Mutant: the path of an assertion is not checked against the scope. *)
GroundUnscoped(o, check) ==
  IF check.text[1] = "file"
  THEN Grounding("deterministic_assertion", None, { check.text[2] })
  ELSE Grounding("scanner_check", None, { check.finding.file })

GroundFindingCheck(o, check) ==
  LET id == check.finding
      text == check.text
      source == CommandSource(o, text)
  IN IF id \notin FindingIds(o) THEN None
     ELSE IF id \in ScannerChecks(o)
     THEN Grounding("scanner_check", None, { id.file })
     ELSE IF PlanAcceptances(o, id) # {}
     THEN Grounding("plan_acceptance", None, { o.steps[First(PlanAcceptances(o, id))].target })
     ELSE IF text[1] = "scanner_clear"
     THEN IF text[2] = id
          THEN Grounding("deterministic_assertion", None, { id.file })
          ELSE None
     ELSE IF text[1] = "file"
     THEN IF text[2] \in AllowedPaths(o)
          THEN Grounding("deterministic_assertion", None, { text[2] })
          ELSE None
     ELSE IF source # None /\ source.type = "recorded_test" /\ source.finding = id
     THEN Grounding("recorded_test", source.tokens, { id.file })
     ELSE None

GroundValidation(o, val) ==
  LET source == CommandSource(o, val.text)
  IN IF val.text[1] = "scanner_clear" THEN None
     ELSE IF val.text[1] = "file"
     THEN IF val.text[2] \in AllowedPaths(o)
          THEN Grounding("deterministic_assertion", None, { val.text[2] })
          ELSE None
     ELSE IF source # None
     THEN Grounding(source.type, source.tokens, {})
     ELSE None

Rule == "all_finding_checks_and_validations_pass"

Unique(vals) == \A i, j \in DOMAIN vals : vals[i].id = vals[j].id => i = j

(* The model's plan and success definition are checked before grounding. *)
PlanAccepted(o, a) ==
  /\ a.steps # << >>
  /\ \A s \in Elements(a.steps) : s.finding \in FindingIds(o) /\ s.target \in o.files

DefinitionAccepted(o, a) ==
  /\ a.checks # << >>
  /\ { c.finding : c \in Elements(a.checks) } = FindingIds(o)
  /\ Unique(a.vals)

Resolved(o, a) ==
  /\ a.rule = Rule
  /\ \A c \in Elements(a.checks) : GroundFindingCheck(o, c) # None
  /\ \A v \in Elements(a.vals) : GroundValidation(o, v) # None

InvokeLocalFix(o, a) ==
  IF ~ (PlanAccepted(o, a) /\ DefinitionAccepted(o, a) /\ Resolved(o, a) /\ a.accepted)
  THEN None
  ELSE [findings |-> o.findings, files |-> o.files, closure |-> o.closure,
        targets |-> { s.target : s \in Elements(a.steps) }, allowed |-> o.allowed,
        checks |-> a.checks, vals |-> a.vals, rule |-> a.rule,
        checkGrounds |-> [i \in DOMAIN a.checks |-> GroundFindingCheck(o, a.checks[i])],
        valGrounds |-> [i \in DOMAIN a.vals |-> GroundValidation(o, a.vals[i])]]

------------------------------------------------------------------------------
(* The continuation's validation of the handoff *)

ValidContract(h) ==
  LET ids == { f.id : f \in h.findings } IN
  /\ \A c \in Elements(h.checks) : c.finding \in ids
  /\ h.checks # << >> => ids \subseteq { c.finding : c \in Elements(h.checks) }
  /\ Unique(h.vals)
  /\ h.rule # ""

CommandSources == { "recorded_test", "configured_test" }

ValidGrounding(h) ==
  LET grounds == Elements(h.checkGrounds) \cup Elements(h.valGrounds) IN
  /\ Len(h.checkGrounds) = Len(h.checks)
  /\ Len(h.valGrounds) = Len(h.vals)
  /\ \A g \in grounds : /\ (g.type \in CommandSources) = (g.tokens # None)
                        /\ g.paths \subseteq h.files \cup h.closure

(* The root exists and is the workspace's; no path leaves it. *)
ValidRoot(w) == w.root

ValidTargets(h) == h.targets \subseteq h.allowed /\ h.targets \subseteq h.files

Valid(h, w) == ValidContract(h) /\ ValidGrounding(h) /\ ValidRoot(w) /\ ValidTargets(h)

------------------------------------------------------------------------------
(* The verifier's evaluation *)

(* Groundings are looked up by finding: the last one of a finding wins. *)
GroundOf(h, id) ==
  LET at == { i \in DOMAIN h.checks : h.checks[i].finding = id }
  IN h.checkGrounds[CHOOSE i \in at : \A j \in at : j <= i]

AssertionHolds(text, g, w) ==
  text[1] = "file" /\ text[2] \in g.paths /\ text[2] \in w.holds

(* A command passes when it ran within the timeout and exited with 0. *)
CommandPasses(tokens, expected, w, ran) ==
  /\ tokens # None /\ tokens \in ran /\ tokens \in w.green
  /\ expected = "exit code 0"

(* Mutant: a finding that is still there is taken for an accepted plan. *)
CheckPassesByPlan(h, c, found, w, ran) ==
  LET g == GroundOf(h, c.finding) IN
  \/ g.type = "plan_acceptance"
  \/ g.type = "scanner_check" /\ c.finding \notin found

CheckPasses(h, c, found, w, ran) ==
  LET g == GroundOf(h, c.finding) IN
  \/ /\ g.type \in { "scanner_check", "plan_acceptance" }
     /\ c.finding \notin found
  \/ /\ g.type = "deterministic_assertion"
     /\ \/ c.text[1] = "scanner_clear" /\ c.finding \notin found
        \/ AssertionHolds(c.text, g, w)
  \/ /\ g.type = "recorded_test"
     /\ CommandPasses(g.tokens, c.expected, w, ran)

ValidationPasses(h, i, w, ran) ==
  LET g == h.valGrounds[i]
      v == h.vals[i]
  IN \/ g.type = "deterministic_assertion" /\ AssertionHolds(v.text, g, w)
     \/ g.type \in CommandSources /\ CommandPasses(g.tokens, v.expected, w, ran)

(* Findings that are left are recorded and not looked at. *)
Passed(h, found, w, ran) ==
  /\ h.rule = Rule
  /\ \A c \in Elements(h.checks) : CheckPasses(h, c, found, w, ran)
  /\ \A i \in DOMAIN h.vals : ValidationPasses(h, i, w, ran)

------------------------------------------------------------------------------
(* The continuation *)

Step(r, from, to) == pc[r] = from /\ pc' = [pc EXCEPT ![r] = to]

(* A run is over: what it held in memory is gone. *)
Leave(r, from) ==
  /\ Step(r, from, "idle")
  /\ exit' = [exit EXCEPT ![r] = None]
  /\ scan' = [scan EXCEPT ![r] = None]
  /\ result' = [result EXCEPT ![r] = None]

Answer(r, status, launched) ==
  answers' = answers \cup { [status |-> status, launched |-> launched, exit |-> exit[r]] }

Ignite(a) ==
  /\ handoff = None
  /\ handoff' = InvokeLocalFix(op, a)
  /\ handoff' # None
  /\ UNCHANGED << op, ws, files, pc, local, launches, claims, answers, count >>

(* run is called with the handoff's path; an invalid handoff raises. *)
Run(r) ==
  /\ handoff # None
  /\ runs < MaxRuns
  /\ runs' = runs + 1
  /\ IF Valid(handoff, ws)
     THEN Step(r, "idle", "envelope") /\ UNCHANGED answers
     ELSE /\ pc[r] = "idle"
          /\ answers' = answers \cup { [status |-> "failed", launched |-> FALSE, exit |-> None] }
          /\ UNCHANGED pc
  /\ UNCHANGED << op, handoff, ws, files, local, launches, claims, crashes >>

PersistEnvelope(r) ==
  /\ Step(r, "envelope", "launch")
  /\ envelope' = TRUE
  /\ UNCHANGED << op, handoff, ws, launch, verdict, local, launches, claims, answers, count >>

StartCodex(r) ==
  /\ Step(r, "launch", "codex")
  /\ launches' = launches + 1
  /\ UNCHANGED << op, handoff, ws, files, local, claims, answers, count >>

(* Codex is not found, of another version, or cannot be started. *)
LaunchFails(r) ==
  /\ Leave(r, "launch")
  /\ launch' = "not started"
  /\ Answer(r, "failed", FALSE)
  /\ UNCHANGED << op, handoff, ws, envelope, verdict, launches, claims, count >>

Workspaces == [defects : SUBSET Defects, holds : SUBSET Paths, green : SUBSET Commands,
               root : { TRUE }]

(* Codex edits the repository and ends. *)
CodexEdits(r, w) ==
  /\ pc[r] = "codex"
  /\ ws' = w
  /\ UNCHANGED << op, handoff, files, pc, local, launches, claims, answers, count >>

CodexEnds(r, code) ==
  /\ Step(r, "codex", "result")
  /\ exit' = [exit EXCEPT ![r] = code]
  /\ UNCHANGED << op, handoff, ws, files, scan, result, launches, claims, answers, count >>

PersistResult(r) ==
  /\ launch' = exit[r]
  /\ IF exit[r] = "0"
     THEN Step(r, "result", "verify") /\ UNCHANGED << local, answers >>
     ELSE Leave(r, "result") /\ Answer(r, "failed", TRUE)
  /\ UNCHANGED << op, handoff, ws, envelope, verdict, launches, claims, count >>

Status(v) == IF v.claimed THEN "completed" ELSE "failed"

(* A verdict that was persisted before is returned as it is. *)
LoadExisting(r) ==
  /\ verdict # None
  /\ Leave(r, "verify")
  /\ Answer(r, Status(verdict), TRUE)
  /\ UNCHANGED << op, handoff, ws, files, launches, claims, count >>

(* The scan's configuration is restored from the handoff except for the    *)
(* test runner, which verify does not pass.                                *)
ReconstructScanConfig == [runner |-> None]

Rescan(r, full) ==
  /\ verdict = None
  /\ Step(r, "verify", "evaluate")
  /\ scan' = [scan EXCEPT ![r] =
       [found |-> IF full THEN Scan(ws, ReconstructScanConfig.runner) ELSE MinimalScan(ws),
        of |-> [defects |-> ws.defects, green |-> ws.green, full |-> full]]]
  /\ UNCHANGED << op, handoff, ws, files, exit, result, launches, claims, answers, count >>

(* Mutant: a verification that fails is tried again. *)
EvaluateAgain(r, ran) ==
  /\ pc[r] = "evaluate"
  /\ IF Passed(handoff, scan[r].found, ws, ran)
     THEN Step(r, "evaluate", "persist")
     ELSE Step(r, "evaluate", "verify")
  /\ result' = [result EXCEPT ![r] = [claimed |-> TRUE, of |-> scan[r].of]]
  /\ UNCHANGED << op, handoff, ws, files, exit, scan, launches, claims, answers, count >>

Evaluate(r, ran) ==
  /\ Step(r, "evaluate", "persist")
  /\ result' = [result EXCEPT ![r] =
                  [claimed |-> Passed(handoff, scan[r].found, ws, ran),
                   of |-> scan[r].of]]
  /\ UNCHANGED << op, handoff, ws, files, exit, scan, launches, claims, answers, count >>

(* Mutant: the result is returned without being written. *)
ReturnVerdict(r) ==
  /\ Leave(r, "persist")
  /\ Answer(r, Status(result[r]), TRUE)
  /\ UNCHANGED << op, handoff, ws, files, launches, claims, count >>

PersistVerdict(r) ==
  /\ Leave(r, "persist")
  /\ verdict' = result[r]
  /\ claims' = claims \cup { result[r] }
  /\ Answer(r, Status(result[r]), TRUE)
  /\ UNCHANGED << op, handoff, ws, envelope, launch, launches, count >>

(* A file cannot be written, a path leads out of the repository: the       *)
(* executor answers that the launch failed.                                *)
Raise(r) ==
  /\ pc[r] \in { "envelope", "result", "verify", "evaluate", "persist" }
  /\ Leave(r, pc[r])
  /\ Answer(r, "failed", FALSE)
  /\ UNCHANGED << op, handoff, ws, files, launches, claims, count >>

Crash(r) ==
  /\ crashes < MaxCrashes
  /\ pc[r] # "idle"
  /\ crashes' = crashes + 1
  /\ Leave(r, pc[r])
  /\ UNCHANGED << op, handoff, ws, files, launches, claims, answers, runs >>

------------------------------------------------------------------------------
Init ==
  /\ op \in Operations
  /\ handoff = None
  /\ ws = [defects |-> { f.id : f \in { g \in op.findings : g.id.kind # "regression" } },
           holds |-> {}, green |-> {}, root |-> TRUE]
  /\ envelope = FALSE /\ launch = None /\ verdict = None
  /\ pc = [r \in Runners |-> "idle"]
  /\ exit = [r \in Runners |-> None]
  /\ scan = [r \in Runners |-> None]
  /\ result = [r \in Runners |-> None]
  /\ launches = 0 /\ claims = {} /\ answers = {}
  /\ runs = 0 /\ crashes = 0

(* Every other exit code, that of a cancelled Codex too, is treated as 1. *)
ExitCodes == { "0", "1" }

Work(r) ==
  \/ PersistEnvelope(r) \/ StartCodex(r) \/ LaunchFails(r)
  \/ PersistResult(r) \/ LoadExisting(r)
  \/ \E full \in BOOLEAN : Rescan(r, full)
  \/ \E ran \in SUBSET Commands : Evaluate(r, ran)
  \/ PersistVerdict(r) \/ Raise(r)

Codex(r) ==
  \/ \E w \in Workspaces : CodexEdits(r, w)
  \/ \E code \in ExitCodes : CodexEnds(r, code)

Next ==
  \/ \E a \in ModelAnswers : Ignite(a)
  \/ \E r \in Runners : Run(r) \/ Work(r) \/ Codex(r) \/ Crash(r)

Spec == Init /\ [][Next]_vars

(* Commands have a timeout; the launcher waits for Codex without one, so   *)
(* nothing is assumed of Codex.                                            *)
FairSpec == Spec /\ \A r \in Runners : WF_vars(Work(r))

------------------------------------------------------------------------------
(* Properties *)

(* A claim of completion by a process that has the scanner means that each *)
(* finding a check asks it about was gone from the repository when it was  *)
(* scanned, unless another defect of its file hid it or it is a test       *)
(* failure, which a scan without a test runner never reports               *)
(* (_evaluate_finding_checks).                                             *)
ClaimIsClear ==
  \A v \in claims : v.claimed /\ v.of.full =>
    \A c \in Elements(handoff.checks) :
      GroundOf(handoff, c.finding).type \in { "scanner_check", "plan_acceptance" } =>
        \/ c.finding \notin v.of.defects
        \/ Masked(c.finding, v.of.defects)

(* What the resolver grounded, the continuation launches: the handoff of   *)
(* an accepted Fix is valid, provided that commands are not empty and the  *)
(* receipt names the files of the manifest.                                *)
GroundedIsAccepted ==
  /\ handoff # None /\ handoff.files \subseteq handoff.allowed
  /\ "empty" \notin Elements(Configured)
  /\ \A f \in handoff.findings : f.command # "empty" /\ f.id.file \in AllowedPaths(handoff)
  => ValidContract(handoff) /\ ValidGrounding(handoff) /\ ValidTargets(handoff)

(* A run that is answered as completed has run Codex to exit code 0 and a  *)
(* claim to that effect has been on disk, whichever runner wrote it.       *)
CompletedIsOnDisk ==
  \A a \in answers : a.status = "completed" =>
    a.exit = "0" /\ \E v \in claims : v.claimed

(* A call of run returns unless it waits for Codex: the verifier does not  *)
(* go round in circles and no command holds it up for ever.                *)
RunsReturn ==
  \A r \in Runners : pc[r] \notin { "idle", "codex" } ~> pc[r] \in { "idle", "codex" }

------------------------------------------------------------------------------
(* What the repository says and the code does not do *)

(* The verifier injects a test runner: completion is not claimed while a   *)
(* test that is one of the findings fails.                                 *)
TestsAreRerun ==
  \A v \in claims : v.claimed =>
    \A f \in handoff.findings : f.id.kind = "regression" => f.id.file \in v.of.green

(* An operation with a persisted verdict does not launch Codex again       *)
(* (fix_verification.py, Idempotency).                                     *)
VerdictEndsLaunches == [][verdict # None => launches' = launches]_vars

(* The fallback is "sufficient for scanner_clear evaluation when the       *)
(* original findings are syntax/JSON errors" (fix_verification.py:594-596).*)
MinimalScanSuffices ==
  \A v \in claims : v.claimed =>
    \A c \in Elements(handoff.checks) :
      /\ GroundOf(handoff, c.finding).type = "scanner_check"
      /\ c.finding.kind = "syntax_error"
      => c.finding \notin v.of.defects \/ Masked(c.finding, v.of.defects)
==============================================================================
