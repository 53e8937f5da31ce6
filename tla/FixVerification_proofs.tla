------------------------ MODULE FixVerification_proofs ------------------------
(***************************************************************************)
(* What follows an accepted Fix, its handoff, Codex and the verification,  *)
(* for any number of runners and crashes, and whatever the operations, the *)
(* answers of the model and the defects are.                               *)
(***************************************************************************)
EXTENDS FixVerification, SequenceTheorems, FiniteSetTheorems, TLAPS

Points == { "idle", "envelope", "launch", "codex", "result", "verify", "evaluate", "persist" }

(* What ClaimIsClear says of one verdict. *)
Clear(v) ==
  v.claimed /\ v.of.full =>
    \A c \in Elements(handoff.checks) :
      GroundOf(handoff, c.finding).type \in { "scanner_check", "plan_acceptance" } =>
        c.finding \notin v.of.defects \/ Masked(c.finding, v.of.defects)

(* A scan by a process that has the scanner found all that is not hidden. *)
Scanned(x) == x.of.full => x.found = { f \in x.of.defects : ~ Masked(f, x.of.defects) }

(* Where the runners are.  What they scanned and decided has no type here. *)
Located ==
  /\ pc \in [Runners -> Points]
  /\ exit \in [Runners -> { None, "0", "1" }]
  /\ scan = [r \in Runners |-> scan[r]]
  /\ result = [r \in Runners |-> result[r]]

(* Nobody runs before the handoff is there, which is an answer's that was  *)
(* accepted for the operation.                                             *)
Accepted ==
  /\ op \in Operations
  /\ handoff = None => claims = {} /\ \A r \in Runners : pc[r] = "idle"
  /\ handoff # None => \E a \in ModelAnswers : handoff = InvokeLocalFix(op, a)

(* What a runner knows at each point, and what it leaves on disk. *)
Verified ==
  /\ \A r \in Runners :
       /\ pc[r] \in { "verify", "evaluate", "persist" } => exit[r] = "0"
       /\ pc[r] = "evaluate" =>
            Scanned(scan[r])
       /\ pc[r] = "persist" => Clear(result[r])
  /\ verdict # None => verdict \in claims
  /\ \A v \in claims : Clear(v)
  /\ CompletedIsOnDisk

VInv == Located /\ Accepted /\ Verified

(* The invariant holds before the model has answered. *)
LEMMA InitVerification == Init => VInv
<1> SUFFICES ASSUME Init PROVE VInv
  OBVIOUS
<1>1. Located
  BY DEF Init, Located, Points
<1>2. Accepted
  BY DEF Init, Accepted
<1>3. Verified
  BY DEF Init, Verified, CompletedIsOnDisk
<1> QED
  BY <1>1, <1>2, <1>3 DEF VInv

Leaves(r) ==
  /\ pc[r] # "idle"
  /\ pc' = [pc EXCEPT ![r] = "idle"]
  /\ exit' = [exit EXCEPT ![r] = None]
  /\ scan' = [scan EXCEPT ![r] = None]
  /\ result' = [result EXCEPT ![r] = None]

(* A runner that leaves knows nothing any more. *)
LEMMA LeaveStep ==
  ASSUME VInv, NEW r \in Runners, Leaves(r),
         UNCHANGED << op, handoff >>,
         \/ verdict' = verdict /\ claims' = claims
         \/ Clear(result[r]) /\ verdict' = result[r] /\ claims' = claims \cup { result[r] },
         \/ answers' = answers
         \/ \E a : /\ answers' = answers \cup { a }
                   /\ a.status = "completed" => a.exit = "0" /\ \E v \in claims' : v.claimed
  PROVE  VInv'
<1>1. /\ pc[r] # "idle" /\ pc' = [pc EXCEPT ![r] = "idle"]
      /\ exit' = [exit EXCEPT ![r] = None]
      /\ scan' = [scan EXCEPT ![r] = None]
      /\ result' = [result EXCEPT ![r] = None]
  BY DEF Leaves
<1>2. handoff # None
  BY <1>1 DEF VInv, Accepted
<1>3. Located'
  BY <1>1 DEF VInv, Located, Points
<1>4. Accepted'
  BY <1>2 DEF VInv, Accepted
<1>5. \A s \in Runners : pc'[s] # "idle" =>
        pc'[s] = pc[s] /\ exit'[s] = exit[s] /\ scan'[s] = scan[s] /\ result'[s] = result[s]
  BY <1>1 DEF VInv, Located
<1>6. \A v : Clear(v)' = Clear(v)
  BY DEF Clear
<1>7. \A s \in Runners :
        /\ pc'[s] \in { "verify", "evaluate", "persist" } => exit'[s] = "0"
        /\ pc'[s] = "evaluate" =>
             Scanned(scan'[s])
        /\ pc'[s] = "persist" => Clear(result[s]) /\ result'[s] = result[s]
  BY <1>5 DEF VInv, Verified
<1>8. (verdict' # None => verdict' \in claims') /\ \A v \in claims' : Clear(v)
  BY DEF VInv, Verified
<1>9. CompletedIsOnDisk'
  BY DEF VInv, Verified, CompletedIsOnDisk
<1> QED
  BY <1>3, <1>4, <1>6, <1>7, <1>8, <1>9 DEF VInv, Verified, Clear

(* A runner that goes on learns what it knows at its new point; nothing is *)
(* claimed and nothing is answered as completed.                           *)
LEMMA MoveStep ==
  ASSUME VInv, NEW r \in Runners, NEW to \in Points,
         handoff # None, pc' = [pc EXCEPT ![r] = to],
         UNCHANGED << op, handoff, verdict, claims >>,
         exit' = exit \/ \E code \in { "0", "1" } : exit' = [exit EXCEPT ![r] = code],
         UNCHANGED scan \/ \E y : scan' = [scan EXCEPT ![r] = y],
         UNCHANGED result \/ \E y : result' = [result EXCEPT ![r] = y],
         UNCHANGED answers
            \/ \E a : a.status = "failed" /\ answers' = answers \cup { a },
         to \in { "verify", "evaluate", "persist" } => exit'[r] = "0",
         to = "evaluate" =>
            Scanned(scan'[r]),
         to = "persist" => Clear(result'[r])
  PROVE  VInv'
<1>1. Located'
  BY DEF VInv, Located
<1>2. Accepted'
  BY DEF VInv, Accepted
<1>3. \A s \in Runners \ { r } :
        pc'[s] = pc[s] /\ exit'[s] = exit[s] /\ scan'[s] = scan[s] /\ result'[s] = result[s]
  BY DEF VInv, Located
<1>4. pc'[r] = to
  BY DEF VInv, Located
<1>5. \A v : Clear(v)' = Clear(v)
  BY DEF Clear
<1>6. \A s \in Runners :
        /\ pc'[s] \in { "verify", "evaluate", "persist" } => exit'[s] = "0"
        /\ pc'[s] = "evaluate" =>
             Scanned(scan'[s])
        /\ pc'[s] = "persist" => Clear(result'[s])
  BY <1>3, <1>4 DEF VInv, Verified
<1>7. CompletedIsOnDisk'
  BY DEF VInv, Verified, CompletedIsOnDisk
<1> QED
  BY <1>1, <1>2, <1>5, <1>6, <1>7 DEF VInv, Verified, Clear

(* A call of run goes into an envelope or is refused: it decides nothing.  *)
LEMMA RunStep ==
  ASSUME VInv, NEW r \in Runners, Run(r)
  PROVE  VInv'
<1>1. /\ handoff # None
      /\ UNCHANGED << op, handoff, verdict, claims, exit, scan, result >>
  BY DEF Run, files, local
<1>2. CASE pc' = [pc EXCEPT ![r] = "envelope"] /\ UNCHANGED answers
  BY <1>1, <1>2, MoveStep DEF Points
<1>3. CASE UNCHANGED pc /\ \E a : a.status = "failed" /\ answers' = answers \cup { a }
  <2>1. pc' = [pc EXCEPT ![r] = pc[r]] /\ pc[r] \in Points
    BY <1>3 DEF VInv, Located
  <2>2. /\ pc[r] \in { "verify", "evaluate", "persist" } => exit'[r] = "0"
        /\ pc[r] = "evaluate" =>
             Scanned(scan'[r])
        /\ pc[r] = "persist" => Clear(result'[r])
    BY <1>1 DEF VInv, Verified
  <2> QED
    BY <1>1, <1>3, <2>1, <2>2, MoveStep
<1> QED
  BY <1>2, <1>3 DEF Run, Step

(* Codex changes the repository and its exit code, and nothing a verdict   *)
(* that is already on disk says.                                           *)
LEMMA CodexStep ==
  ASSUME VInv, NEW r \in Runners, Codex(r)
  PROVE  VInv'
<1>1. /\ pc[r] = "codex" /\ handoff # None
      /\ UNCHANGED << op, handoff, verdict, claims, scan, result, answers >>
  BY DEF Codex, CodexEdits, CodexEnds, Step, files, local, VInv, Accepted
<1>2. CASE UNCHANGED << pc, exit >>
  <2>1. pc' = [pc EXCEPT ![r] = pc[r]]
    BY <1>2 DEF VInv, Located
  <2> QED
    BY <1>1, <1>2, <2>1, MoveStep DEF VInv, Located, Verified
<1>3. CASE /\ pc' = [pc EXCEPT ![r] = "result"]
           /\ \E code \in { "0", "1" } : exit' = [exit EXCEPT ![r] = code]
  BY <1>1, <1>3, MoveStep DEF Points
<1> QED
  BY <1>2, <1>3 DEF Codex, CodexEdits, CodexEnds, Step, local, ExitCodes

(* What passed is clear: the scan, if it was one, did not find it. *)
LEMMA PassedIsClear ==
  ASSUME NEW of, NEW found, of.full => found = { f \in of.defects : ~ Masked(f, of.defects) },
         NEW w, NEW ran
  PROVE  Clear([claimed |-> Passed(handoff, found, w, ran), of |-> of])
<1> DEFINE v == [claimed |-> Passed(handoff, found, w, ran), of |-> of]
<1> SUFFICES ASSUME v.claimed, of.full, NEW c \in Elements(handoff.checks),
                    GroundOf(handoff, c.finding).type \in { "scanner_check", "plan_acceptance" }
             PROVE  c.finding \notin v.of.defects \/ Masked(c.finding, v.of.defects)
  BY DEF Clear
<1>1. CheckPasses(handoff, c, found, w, ran)
  BY DEF Passed
<1>2. c.finding \notin found
  BY <1>1 DEF CheckPasses
<1> QED
  BY <1>2

(* Each step of a runner between its envelope and its answer. *)
LEMMA WorkStep ==
  ASSUME VInv, NEW r \in Runners, Work(r)
  PROVE  VInv'
<1>1. CASE PersistEnvelope(r) \/ StartCodex(r)
  <2>1. /\ pc[r] # "idle"
        /\ pc' = [pc EXCEPT ![r] = "launch"] \/ pc' = [pc EXCEPT ![r] = "codex"]
        /\ UNCHANGED << op, handoff, verdict, claims, exit, scan, result, answers >>
    BY <1>1 DEF PersistEnvelope, StartCodex, Step, files, local
  <2> QED
    BY <2>1, MoveStep DEF Points, VInv, Accepted
<1>2. CASE LaunchFails(r)
  <2> DEFINE a == [status |-> "failed", launched |-> FALSE, exit |-> exit[r]]
  <2>1. /\ Leaves(r)
        /\ UNCHANGED << op, handoff >> /\ verdict' = verdict /\ claims' = claims
        /\ answers' = answers \cup { a }
    BY <1>2 DEF LaunchFails, Answer, Leave, Step, Leaves
  <2>2. a.status # "completed"
    OBVIOUS
  <2> HIDE DEF a
  <2> QED
    BY <2>1, <2>2, LeaveStep
<1>3. CASE PersistResult(r)
  <2>1. CASE exit[r] = "0"
    <3>1. /\ pc[r] # "idle" /\ pc' = [pc EXCEPT ![r] = "verify"]
          /\ UNCHANGED << op, handoff, verdict, claims, exit, scan, result, answers >>
      BY <1>3, <2>1 DEF PersistResult, Step, local
    <3> QED
      BY <2>1, <3>1, MoveStep DEF Points, VInv, Accepted
  <2>2. CASE exit[r] # "0"
    <3> DEFINE a == [status |-> "failed", launched |-> TRUE, exit |-> exit[r]]
    <3>1. /\ Leaves(r)
          /\ UNCHANGED << op, handoff >> /\ verdict' = verdict /\ claims' = claims
          /\ answers' = answers \cup { a }
      BY <1>3, <2>2 DEF PersistResult, Answer, Leave, Step, Leaves
    <3>2. a.status # "completed"
      OBVIOUS
    <3> HIDE DEF a
    <3> QED
      BY <3>1, <3>2, LeaveStep
  <2> QED
    BY <2>1, <2>2
<1>4. CASE LoadExisting(r)
  <2>1. /\ pc[r] = "verify" /\ exit[r] = "0"
        /\ Status(verdict) = "completed" => verdict.claimed
    BY <1>4 DEF LoadExisting, Leave, Step, Status, VInv, Verified
  <2>2. verdict \in claims
    BY <1>4 DEF LoadExisting, VInv, Verified
  <2> DEFINE a == [status |-> Status(verdict), launched |-> TRUE, exit |-> exit[r]]
  <2>3. /\ Leaves(r)
        /\ UNCHANGED << op, handoff >> /\ verdict' = verdict /\ claims' = claims
        /\ answers' = answers \cup { a }
    BY <1>4 DEF LoadExisting, files, Answer, Leave, Step, Leaves
  <2>4. a.status = "completed" => a.exit = "0" /\ \E v \in claims' : v.claimed
    BY <2>1, <2>2, <2>3
  <2> HIDE DEF a
  <2> QED
    BY <2>3, <2>4, LeaveStep
<1>5. ASSUME NEW full \in BOOLEAN, Rescan(r, full)
      PROVE  VInv'
  <2> DEFINE of == [defects |-> ws.defects, green |-> ws.green, full |-> full]
             y == [found |-> IF full THEN Scan(ws, None) ELSE MinimalScan(ws), of |-> of]
  <2>1. /\ pc[r] = "verify" /\ pc' = [pc EXCEPT ![r] = "evaluate"]
        /\ scan' = [scan EXCEPT ![r] = y]
        /\ UNCHANGED << op, handoff, verdict, claims, exit, result, answers >>
    BY <1>5 DEF Rescan, Step, files, ReconstructScanConfig
  <2>2. Scanned(y)
    BY DEF Scan, Scanned
  <2>3. scan'[r] = y
    BY <2>1 DEF VInv, Located
  <2>4. handoff # None /\ exit[r] = "0"
    BY <2>1 DEF VInv, Accepted, Verified
  <2> HIDE DEF y
  <2> QED
    BY <2>1, <2>2, <2>3, <2>4, MoveStep DEF Points
<1>6. ASSUME NEW ran \in SUBSET Commands, Evaluate(r, ran)
      PROVE  VInv'
  <2> DEFINE y == [claimed |-> Passed(handoff, scan[r].found, ws, ran), of |-> scan[r].of]
  <2>1. /\ pc[r] = "evaluate" /\ pc' = [pc EXCEPT ![r] = "persist"]
        /\ result' = [result EXCEPT ![r] = y]
        /\ UNCHANGED << op, handoff, verdict, claims, exit, scan, answers >>
    BY <1>6 DEF Evaluate, Step, files
  <2>2. Clear(y)
    BY <2>1, PassedIsClear DEF VInv, Verified, Scanned
  <2>3. result'[r] = y
    BY <2>1 DEF VInv, Located
  <2>4. handoff # None /\ exit[r] = "0"
    BY <2>1 DEF VInv, Accepted, Verified
  <2> HIDE DEF y
  <2> QED
    BY <2>1, <2>2, <2>3, <2>4, MoveStep DEF Points
<1>7. CASE PersistVerdict(r)
  <2>1. /\ pc[r] = "persist" /\ exit[r] = "0" /\ Clear(result[r])
        /\ Status(result[r]) = "completed" => result[r].claimed
    BY <1>7 DEF PersistVerdict, Leave, Step, Status, VInv, Verified
  <2>2. result[r] \in claims'
    BY <1>7 DEF PersistVerdict
  <2> DEFINE a == [status |-> Status(result[r]), launched |-> TRUE, exit |-> exit[r]]
  <2>3. /\ Leaves(r)
        /\ UNCHANGED << op, handoff >>
        /\ verdict' = result[r] /\ claims' = claims \cup { result[r] }
        /\ answers' = answers \cup { a }
    BY <1>7 DEF PersistVerdict, Answer, Leave, Step, Leaves
  <2>4. a.status = "completed" => a.exit = "0" /\ \E v \in claims' : v.claimed
    BY <2>1, <2>2
  <2> HIDE DEF a
  <2> QED
    BY <2>1, <2>3, <2>4, LeaveStep
<1>8. CASE Raise(r)
  <2> DEFINE a == [status |-> "failed", launched |-> FALSE, exit |-> exit[r]]
  <2>2. /\ Leaves(r)
        /\ UNCHANGED << op, handoff >> /\ verdict' = verdict /\ claims' = claims
        /\ answers' = answers \cup { a }
    BY <1>8 DEF Raise, Leave, Step, files, Answer, Leaves
  <2>3. a.status # "completed"
    OBVIOUS
  <2> HIDE DEF a
  <2> QED
    BY <2>2, <2>3, LeaveStep
<1> QED
  BY <1>1, <1>2, <1>3, <1>4, <1>5, <1>6, <1>7, <1>8 DEF Work

(* Every step keeps the invariant: the model's answer, a runner, a crash.  *)
LEMMA NextVerification == VInv /\ [Next]_vars => VInv'
<1> SUFFICES ASSUME VInv, [Next]_vars PROVE VInv'
  OBVIOUS
<1>1. ASSUME NEW a \in ModelAnswers, Ignite(a)
      PROVE  VInv'
  <2>1. /\ handoff = None /\ handoff' # None /\ handoff' = InvokeLocalFix(op, a)
        /\ UNCHANGED << op, pc, exit, scan, result, verdict, claims, answers >>
    BY <1>1 DEF Ignite, files, local
  <2>2. Located'
    BY <2>1 DEF VInv, Located
  <2>3. Accepted'
    BY <2>1 DEF VInv, Accepted
  <2>4. claims = {} /\ \A r \in Runners : pc[r] = "idle"
    BY <2>1 DEF VInv, Accepted
  <2>5. CompletedIsOnDisk'
    BY <2>1 DEF VInv, Verified, CompletedIsOnDisk
  <2> QED
    BY <2>1, <2>2, <2>3, <2>4, <2>5 DEF VInv, Verified
<1>2. ASSUME NEW r \in Runners, Crash(r)
      PROVE  VInv'
  <2>2. /\ Leaves(r)
        /\ UNCHANGED << op, handoff >> /\ verdict' = verdict /\ claims' = claims
        /\ UNCHANGED answers
    BY <1>2 DEF Crash, Leave, Step, files, Leaves
  <2> QED
    BY <2>2, LeaveStep
<1>3. CASE UNCHANGED vars
  <2>1. UNCHANGED << op, handoff, pc, exit, scan, result, verdict, claims, answers >>
    BY <1>3 DEF vars
  <2>2. Located' /\ Accepted'
    BY <2>1 DEF VInv, Located, Accepted
  <2>3. Verified'
    BY <2>1 DEF VInv, Verified, CompletedIsOnDisk, Clear
  <2> QED
    BY <2>2, <2>3 DEF VInv
<1> QED
  BY <1>1, <1>2, <1>3, RunStep, WorkStep, CodexStep DEF Next

(* In every reachable state the runners, the handoff and the files fit.    *)
THEOREM VerificationInvariance == Spec => []VInv
  BY InitVerification, NextVerification, PTL DEF Spec

(* A process that has the scanner claims completion only of a repository   *)
(* in which no finding that has a scanner's or the plan's criterion is     *)
(* left, unless its file cannot be parsed (FixPostExecutionVerifier.verify), *)
(* however its runs, Codex, crashes and processes without the scanner      *)
(* interleave between the scan, the verdict and its file.                  *)
THEOREM ClaimsAreClear == Spec => []ClaimIsClear
<1>1. VInv => ClaimIsClear
  BY DEF VInv, Verified, Clear, ClaimIsClear
<1> QED
  BY <1>1, VerificationInvariance, PTL

(* A run that answers completed left a verdict on disk that claims it and  *)
(* saw Codex exit with 0 (CodexFixContinuation.run), also when the verdict *)
(* is one that an earlier run persisted before it crashed.                 *)
THEOREM CompletionIsOnDisk == Spec => []CompletedIsOnDisk
<1>1. VInv => CompletedIsOnDisk
  BY DEF VInv, Verified
<1> QED
  BY <1>1, VerificationInvariance, PTL

(* A command source names its kind and has tokens that can be run. *)
LEMMA SourceHasTokens ==
  ASSUME InputsAreParsed, NEW o, NEW text,
         "empty" \notin Elements(Configured),
         \A f \in o.findings : f.command # "empty",
         CommandSource(o, text) # None
  PROVE  /\ CommandSource(o, text).type \in CommandSources
         /\ CommandSource(o, text).tokens \notin { None, "empty" }
<1>1. CASE text[1] = "configured" /\ text[2] \in DOMAIN Configured
  <2>1. Configured[text[2]] \in Elements(Configured)
    BY <1>1 DEF Elements
  <2> QED
    BY <1>1, <2>1 DEF CommandSource, CommandSources, InputsAreParsed
<1>2. CASE /\ ~ (text[1] = "configured" /\ text[2] \in DOMAIN Configured)
           /\ text[1] = "recorded" /\ RecordedCommands(o, text[2]) # {}
  <2> DEFINE c == CHOOSE x \in RecordedCommands(o, text[2]) : TRUE
  <2>1. c \in RecordedCommands(o, text[2])
    BY <1>2
  <2>2. c \notin { None, "empty" }
    BY <2>1 DEF RecordedCommands
  <2>3. CommandSource(o, text) = [type |-> "recorded_test", finding |-> text[2], tokens |-> c]
    BY <1>2 DEF CommandSource
  <2> QED
    BY <2>2, <2>3 DEF CommandSources
<1> QED
  BY <1>1, <1>2 DEF CommandSource

(* The first of some positions is one of them. *)
LEMMA FirstIsOne ==
  ASSUME NEW S \in SUBSET Nat, S # {}
  PROVE  First(S) \in S
<1>1. PICK k \in S : \A y \in S : ~ (<< y, k >> \in OpToRel(<, Nat))
  BY WFMin, NatLessThanWellFounded, Zenon
<1>2. \A y \in S : ~ (y < k)
  BY <1>1, Zenon DEF OpToRel
<1>3. \A y \in S : k <= y
  BY <1>2
<1> QED
  BY <1>3 DEF First

(* What the continuation asks of one grounding. *)
Sound(g, o) ==
  /\ (g.type \in CommandSources) = (g.tokens # None)
  /\ g.paths \subseteq o.files \cup o.closure

(* A grounded finding check has tokens just when its source is a command,  *)
(* and only paths of the operation's scope.                                *)
LEMMA CheckIsSound ==
  ASSUME InputsAreParsed, NEW o \in Operations, NEW check,
         "empty" \notin Elements(Configured),
         \A f \in o.findings : f.command # "empty" /\ f.id.file \in AllowedPaths(o),
         GroundFindingCheck(o, check) # None
  PROVE  Sound(GroundFindingCheck(o, check), o)
<1> DEFINE id == check.finding
           text == check.text
           source == CommandSource(o, text)
           S == PlanAcceptances(o, id)
           g == GroundFindingCheck(o, check)
<1>1. id.file \in o.files \cup o.closure
  BY DEF GroundFindingCheck, FindingIds, AllowedPaths
<1>2. S # {} => o.steps[First(S)].target \in o.files
  <2> SUFFICES ASSUME S # {} PROVE o.steps[First(S)].target \in o.files
    OBVIOUS
  <2>1. S \in SUBSET Nat /\ S \subseteq DOMAIN o.steps
    BY LenProperties DEF PlanAcceptances, InputsAreParsed
  <2>2. o.steps[First(S)] \in Elements(o.steps)
    BY <2>1, FirstIsOne DEF Elements
  <2> QED
    BY <2>2 DEF InputsAreParsed
<1>3. source # None /\ source.type = "recorded_test" =>
        source.tokens \notin { None, "empty" }
  BY SourceHasTokens
<1>4. \/ g = Grounding("scanner_check", None, { id.file })
      \/ S # {} /\ g = Grounding("plan_acceptance", None, { o.steps[First(S)].target })
      \/ g = Grounding("deterministic_assertion", None, { id.file })
      \/ /\ text[2] \in AllowedPaths(o)
         /\ g = Grounding("deterministic_assertion", None, { text[2] })
      \/ /\ source # None /\ source.type = "recorded_test"
         /\ g = Grounding("recorded_test", source.tokens, { id.file })
  BY DEF GroundFindingCheck
<1>5. /\ "scanner_check" \notin CommandSources /\ "plan_acceptance" \notin CommandSources
      /\ "deterministic_assertion" \notin CommandSources
      /\ "recorded_test" \in CommandSources
  BY DEF CommandSources
<1> HIDE DEF id, text, source, S, g
<1>6. Sound(g, o)
  BY <1>1, <1>2, <1>3, <1>4, <1>5 DEF Sound, Grounding, AllowedPaths
<1> QED
  BY <1>6 DEF g

(* The same for a grounded validation. *)
LEMMA ValidationIsSound ==
  ASSUME InputsAreParsed, NEW o \in Operations, NEW val,
         "empty" \notin Elements(Configured),
         \A f \in o.findings : f.command # "empty" /\ f.id.file \in AllowedPaths(o),
         GroundValidation(o, val) # None
  PROVE  Sound(GroundValidation(o, val), o)
<1> DEFINE source == CommandSource(o, val.text)
           g == GroundValidation(o, val)
<1>1. source # None =>
        source.type \in CommandSources /\ source.tokens \notin { None, "empty" }
  BY SourceHasTokens
<1>2. \/ /\ val.text[2] \in AllowedPaths(o)
         /\ g = Grounding("deterministic_assertion", None, { val.text[2] })
      \/ source # None /\ g = Grounding(source.type, source.tokens, {})
  BY DEF GroundValidation
<1>3. "deterministic_assertion" \notin CommandSources
  BY DEF CommandSources
<1> HIDE DEF source, g
<1>4. Sound(g, o)
  BY <1>1, <1>2, <1>3 DEF Sound, Grounding, AllowedPaths
<1> QED
  BY <1>4 DEF g

(* A function over the positions of a list has the list's length. *)
LEMMA SameLength ==
  ASSUME NEW S, NEW s \in Seq(S), NEW t, t = [i \in DOMAIN s |-> t[i]]
  PROVE  Len(t) = Len(s)
<1>1. Len(s) \in Nat /\ DOMAIN s = 1 .. Len(s)
  BY LenProperties
<1>2. t \in Seq({ t[i] : i \in DOMAIN s })
  BY <1>1, SeqDef
<1>3. Len(t) \in Nat /\ DOMAIN t = 1 .. Len(t)
  BY <1>2, LenProperties
<1>4. 1 .. Len(t) = 1 .. Len(s)
  BY <1>1, <1>3
<1> QED
  BY <1>1, <1>3, <1>4

(* The handoff of an accepted answer passes the continuation's checks. *)
LEMMA AcceptedIsValid ==
  ASSUME InputsAreParsed, NEW o \in Operations, NEW a \in ModelAnswers, NEW h,
         h = InvokeLocalFix(o, a), h # None, h.files \subseteq h.allowed,
         "empty" \notin Elements(Configured),
         \A f \in h.findings : f.command # "empty" /\ f.id.file \in AllowedPaths(h)
  PROVE  ValidContract(h) /\ ValidGrounding(h) /\ ValidTargets(h)
<1>1. /\ PlanAccepted(o, a) /\ DefinitionAccepted(o, a) /\ Resolved(o, a)
      /\ h.findings = o.findings /\ h.files = o.files /\ h.closure = o.closure
      /\ h.targets = { s.target : s \in Elements(a.steps) }
      /\ h.checks = a.checks /\ h.vals = a.vals /\ h.rule = a.rule
      /\ h.checkGrounds = [i \in DOMAIN a.checks |-> GroundFindingCheck(o, a.checks[i])]
      /\ h.valGrounds = [i \in DOMAIN a.vals |-> GroundValidation(o, a.vals[i])]
  BY DEF InvokeLocalFix
<1>2. ValidContract(h)
  <2>1. { c.finding : c \in Elements(h.checks) } = { f.id : f \in h.findings }
    BY <1>1 DEF DefinitionAccepted, FindingIds
  <2>2. h.rule # "" /\ Unique(h.vals)
    BY <1>1 DEF Resolved, Rule, DefinitionAccepted
  <2> QED
    BY <2>1, <2>2 DEF ValidContract
<1>3. ValidTargets(h)
  BY <1>1 DEF ValidTargets, PlanAccepted
<1>4. ValidGrounding(h)
  <2>1. AllowedPaths(h) = AllowedPaths(o)
    BY <1>1 DEF AllowedPaths
  <2>2. \A i \in DOMAIN a.checks : Sound(h.checkGrounds[i], h)
    <3> SUFFICES ASSUME NEW i \in DOMAIN a.checks PROVE Sound(h.checkGrounds[i], h)
      OBVIOUS
    <3>1. GroundFindingCheck(o, a.checks[i]) # None
      BY <1>1 DEF Resolved, Elements
    <3>2. Sound(GroundFindingCheck(o, a.checks[i]), o)
      BY <1>1, <2>1, <3>1, CheckIsSound
    <3> QED
      BY <1>1, <3>2 DEF Sound
  <2>3. \A i \in DOMAIN a.vals : Sound(h.valGrounds[i], h)
    <3> SUFFICES ASSUME NEW i \in DOMAIN a.vals PROVE Sound(h.valGrounds[i], h)
      OBVIOUS
    <3>1. GroundValidation(o, a.vals[i]) # None
      BY <1>1 DEF Resolved, Elements
    <3>2. Sound(GroundValidation(o, a.vals[i]), o)
      BY <1>1, <2>1, <3>1, ValidationIsSound
    <3> QED
      BY <1>1, <3>2 DEF Sound
  <2>4. Len(h.checkGrounds) = Len(h.checks) /\ Len(h.valGrounds) = Len(h.vals)
    BY <1>1, SameLength DEF InputsAreParsed
  <2>5. \A g \in Elements(h.checkGrounds) \cup Elements(h.valGrounds) : Sound(g, h)
    BY <1>1, <2>2, <2>3 DEF Elements
  <2> QED
    BY <2>4, <2>5 DEF ValidGrounding, Sound
<1> QED
  BY <1>2, <1>3, <1>4

(* What the grounding accepts the continuation can launch: the handoff of  *)
(* an accepted answer within the approved scope passes every validation of *)
(* CodexFixContinuation.run, whatever the findings, the plan and the model *)
(* answer, unless a command of the operation or the configuration is empty.*)
THEOREM GroundedIsLaunched == Spec => []GroundedIsAccepted
<1>1. VInv => GroundedIsAccepted
  BY AcceptedIsValid, FixVerificationAssumption DEF VInv, Accepted, GroundedIsAccepted
<1> QED
  BY <1>1, VerificationInvariance, PTL
==============================================================================
