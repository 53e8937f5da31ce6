--------------------------- MODULE ReviewLifecycle ---------------------------
(***************************************************************************)
(* run_artifact_lifecycle (runtime/audisor_lifecycle): the A-Flow review   *)
(* of one artifact.  Runs are the calls that threads of MCP servers and of *)
(* the chat backend make; they share the state directory and nothing else. *)
(* A stage is run by a thread of its own, which outlives the wait for it   *)
(* when the stage times out.                                               *)
(*                                                                         *)
(* A submission stands for its digest (content, type, intent, context).    *)
(* What a model answers is cut down to what the pipeline asks of it.       *)
(***************************************************************************)
EXTENDS Naturals, Sequences, FiniteSets

CONSTANTS
  Submissions,
  Drafts,      \* submissions that are not draft_complete, or empty
  ContentOf,   \* the content of a submission
  Null,
  MaxRuns,     \* bound: submissions
  MaxFaults    \* bound: crashes and power losses

ASSUME ReviewAssumption ==
  /\ Drafts \subseteq Submissions /\ Submissions \subseteq DOMAIN ContentOf
  /\ MaxRuns \in Nat /\ MaxFaults \in Nat
  /\ Null \notin Nat

VARIABLES
  results,    \* artifacts/<id>-<stamp>.json, oldest first
  marker,     \* artifacts/<id>.running
  issues,     \* runs that a root-cause issue names
  pc, sub, revision, stage, cycle, out,  \* of each run; cycle is Null before the marker
  thread,     \* of each run: the thread of its stage
  trace,      \* of each run that may hand off: the answers taken
  answers,    \* what the callers were answered
  timedOut,   \* some stage has timed out
  runs, faults

disk    == << results, marker, issues >>
session == << sub, revision, stage, cycle, out >>
history == << trace, answers, timedOut, runs, faults >>
lifecycleVars == << disk, pc, session, thread, history >>

Runs == 1 .. MaxRuns
Step(r, from, to) == pc[r] = from /\ pc' = [pc EXCEPT ![r] = to]

(* The caller is answered with the result of a run; the locals are gone. *)
Reply(r, from, of, status) ==
  /\ Step(r, from, "ended")
  /\ revision' = [revision EXCEPT ![r] = Null] /\ stage' = [stage EXCEPT ![r] = "gap_finding"]
  /\ cycle' = [cycle EXCEPT ![r] = Null] /\ out' = [out EXCEPT ![r] = Null]
  /\ answers' = answers \cup { [sub |-> sub[r], run |-> of, status |-> status] }

(* The run is over with a status that finish will record. *)
Outcome(r, from, status) ==
  /\ Step(r, from, "finish")
  /\ out' = [out EXCEPT ![r] = status]

------------------------------------------------------------------------------
(* Submission, replay and revision *)

(* A draft is skipped, and the skip is persisted as any other result. *)
SubmitDraft(r, s) ==
  /\ s \in Drafts /\ r = runs + 1
  /\ Step(r, "new", "ended")
  /\ runs' = r
  /\ sub' = [sub EXCEPT ![r] = s]
  /\ results' = Append(results, [run |-> r, sub |-> s, status |-> "skip", revision |-> Null])
  /\ UNCHANGED << marker, issues, revision, stage, cycle, out, thread, trace,
                  answers, timedOut, faults >>

Submit(r, s) ==
  /\ s \notin Drafts /\ r = runs + 1
  /\ Step(r, "new", "resolve")
  /\ runs' = r
  /\ sub' = [sub EXCEPT ![r] = s]
  /\ UNCHANGED << disk, revision, stage, cycle, out, thread, trace, answers, timedOut, faults >>

Newest == IF results = << >> THEN Null ELSE results[Len(results)]

(* A damaged newest result is reported and never replaced. *)
ResolveCorrupt(r) ==
  /\ Newest # Null /\ Newest.status = "corrupt"
  /\ Reply(r, "resolve", Null, "error")
  /\ issues' = issues \cup { Null }
  /\ UNCHANGED << results, marker, sub, thread, trace, timedOut, runs, faults >>

Replayable(s) ==
  /\ Newest # Null
  /\ Newest.sub = s /\ Newest.status \in { "improved", "unresolved_gap" }

Replay(r) ==
  /\ Replayable(sub[r])
  /\ Reply(r, "resolve", Newest.run, Newest.status)
  /\ UNCHANGED << disk, sub, thread, trace, timedOut, runs, faults >>

(* The revision of the newest result, one more when the content changed. *)
NextRevision(s) ==
  IF Newest = Null \/ Newest.revision = Null THEN 1
  ELSE IF ContentOf[Newest.sub] = ContentOf[s] THEN Newest.revision ELSE Newest.revision + 1

ResolveNew(r) ==
  /\ ~ Replayable(sub[r])
  /\ Newest # Null => Newest.status # "corrupt"
  /\ Step(r, "resolve", "authorize")
  /\ revision' = [revision EXCEPT ![r] = NextRevision(sub[r])]
  /\ UNCHANGED << disk, sub, stage, cycle, out, thread, history >>

------------------------------------------------------------------------------
(* Admission: providers, readiness, snapshot, active run *)

NotAdmitted(r) ==
  /\ Outcome(r, "authorize", "error")
  /\ UNCHANGED << disk, sub, revision, stage, cycle, thread, history >>

(* A-Flow is disabled, no provider can be made of the settings, or the one *)
(* that is made cannot be stopped.                                         *)
NoWorker(r) == NotAdmitted(r)

(* The stored record is ready and current, and the live check passes ...   *)
LiveCheck(r) ==
  /\ Step(r, "authorize", "snapshot")
  /\ UNCHANGED << disk, session, thread, history >>

(* ... or fails. *)
LiveCheckFails(r) == NotAdmitted(r)

(* There is no such record: the provider is probed and found ready, or the *)
(* run ends.  Records come, expire and are invalidated at any time.        *)
RunProbe(r) ==
  /\ Step(r, "authorize", "snapshot") \/ Outcome(r, "authorize", "error")
  /\ UNCHANGED << disk, sub, revision, stage, cycle, thread, history >>
  /\ pc'[r] = "snapshot" => UNCHANGED out

(* The submission's immutable snapshot is persisted, or the run ends.      *)
PersistSnapshot(r) ==
  /\ Step(r, "snapshot", "guard") \/ Outcome(r, "snapshot", "error")
  /\ UNCHANGED << disk, sub, revision, stage, cycle, thread, history >>
  /\ pc'[r] = "guard" => UNCHANGED out

Active(s) == marker # Null /\ marker.fresh /\ marker.sub = s

(* An identical run is active: its identity is returned, nothing persisted *)
(* but an issue that names it.                                             *)
GuardActive(r) ==
  /\ Active(sub[r])
  /\ Reply(r, "guard", marker.run, "error")
  /\ issues' = issues \cup { marker.run }
  /\ UNCHANGED << results, marker, sub, thread, trace, timedOut, runs, faults >>

GuardFree(r) ==
  /\ ~ Active(sub[r])
  /\ Step(r, "guard", "mark")
  /\ UNCHANGED << disk, session, thread, history >>

NoThread == [at |-> "none", attempt |-> 0, copy |-> Null]

(* The thread of a stage starts; its attempt refreshes the marker. *)
Started == [at |-> "call", attempt |-> 1, copy |-> Null]

Mark(r) ==
  /\ Step(r, "mark", "wait")
  /\ marker' = [run |-> r, sub |-> sub[r], fresh |-> TRUE]
  /\ thread' = [thread EXCEPT ![r] = Started]
  /\ cycle' = [cycle EXCEPT ![r] = 0]
  /\ UNCHANGED << results, issues, sub, revision, stage, out, history >>

(* No progress was written for the time to live of a marker. *)
Expire ==
  /\ marker # Null /\ marker.fresh
  /\ \A r \in Runs : pc[r] \in { "new", "resolve", "authorize", "snapshot", "guard", "ended", "dead" }
  /\ \A r \in Runs : thread[r].at = "none"
  /\ marker' = [marker EXCEPT !.fresh = FALSE]
  /\ UNCHANGED << results, issues, pc, session, thread, history >>

------------------------------------------------------------------------------
(* A stage: _execute_stage, _call_with_timeout, ManagedStageWorker *)

(* The answers a stage's schema lets through; "failure" stands for an      *)
(* error of the provider and for an answer that violates the schema.       *)
AnswersOf(s, k) ==
  CASE s = "gap_fixing" -> { "fixed", "unresolved", "failure" } \cup (IF k = 1 THEN { "same" } ELSE {})
    [] s = "evaluation" -> { "passed", "failed", "failure" }
    [] OTHER            -> { "ok", "failure" }

(* An attempt is the last one, or it failed for a while and the fallback,  *)
(* if one was ready when the run began, has the rest of the stage's time.  *)
EndAttempt(r) ==
  \/ thread' = [thread EXCEPT ![r] = IF pc[r] = "wait" THEN [NoThread EXCEPT !.at = "done"] ELSE NoThread]
  \/ /\ thread[r].attempt = 1 /\ pc[r] = "wait"
     /\ thread' = [thread EXCEPT ![r] = [Started EXCEPT !.attempt = 2]]

(* update_active_progress: a marker that is gone is not made again ...     *)
CallEndsUnmarked(r) ==
  /\ thread[r].at = "call" /\ marker = Null
  /\ EndAttempt(r)
  /\ UNCHANGED << results, marker, issues, pc, session, history >>

CallEnds(r) ==
  /\ thread[r].at = "call" /\ marker # Null
  /\ thread' = [thread EXCEPT ![r].at = "write", ![r].copy = marker]
  /\ UNCHANGED << disk, pc, session, history >>

(* ... but the marker that was read is written whatever happened since.    *)
ProgressWrite(r) ==
  /\ thread[r].at = "write"
  /\ marker' = [thread[r].copy EXCEPT !.fresh = TRUE]
  /\ EndAttempt(r)
  /\ UNCHANGED << results, issues, pc, session, history >>

(* Mutant: what is left unresolved does not stop the pipeline. *)
UnresolvedUnchanged(a) == a = "same"

(* The barrier: an unresolved gap, or a repair that changed nothing. *)
Unresolved(a) == a # "fixed"

(* _run_stage_pipeline: the stage after an answer, or the run's status.  A *)
(* failed evaluation sends the artifact back to gap_fixing once.           *)
After(s, k, a) ==
  CASE a = "failure"                        -> "error"
    [] a # "failure" /\ s = "gap_fixing"    -> IF Unresolved(a) THEN "unresolved_gap" ELSE "evaluation"
    [] a = "passed"                         -> "success_criteria"
    [] a = "failed"                         -> IF k = 0 THEN "gap_fixing" ELSE "unresolved_gap"
    [] a = "ok" /\ s = "gap_finding"        -> "gap_fixing"
    [] a = "ok" /\ s = "success_criteria"   -> "fixture_design"
    [] a = "ok" /\ s = "fixture_design"     -> "improved"

TakeAnswer(r, a) ==
  LET next == After(stage[r], cycle[r], a) IN
  /\ pc[r] = "wait" /\ thread[r].at = "done"
  /\ \/ /\ next \in { "improved", "unresolved_gap", "error" }
        /\ Outcome(r, "wait", next)
        /\ thread' = [thread EXCEPT ![r] = NoThread]
        /\ UNCHANGED << stage, cycle >>
     \/ /\ next \notin { "improved", "unresolved_gap", "error" }
        /\ stage' = [stage EXCEPT ![r] = next]
        /\ cycle' = [cycle EXCEPT ![r] = IF a = "failed" THEN 1 ELSE @]
        /\ thread' = [thread EXCEPT ![r] = Started]
        /\ UNCHANGED << pc, out >>
  /\ trace' = [trace EXCEPT ![r] =
                 IF next \in { "error", "unresolved_gap" } THEN << >> ELSE Append(@, << stage[r], a >>)]
  /\ UNCHANGED << disk, sub, revision, answers, timedOut, runs, faults >>

(* Mutant: the wait ends only with the call. *)
StageWaits(r) ==
  /\ pc[r] = "wait" /\ thread[r].at = "write"
  /\ Outcome(r, "wait", "error")
  /\ timedOut' = TRUE
  /\ trace' = [trace EXCEPT ![r] = << >>]
  /\ UNCHANGED << disk, sub, revision, stage, cycle, thread, answers, runs, faults >>

(* The wait for the stage ends; its thread goes on. *)
StageTimeout(r) ==
  /\ pc[r] = "wait" /\ thread[r].at # "done"
  /\ Outcome(r, "wait", "error")
  /\ timedOut' = TRUE
  /\ trace' = [trace EXCEPT ![r] = << >>]
  /\ UNCHANGED << disk, sub, revision, stage, cycle, thread, answers, runs, faults >>

------------------------------------------------------------------------------
(* finish *)

(* Mutant: an error of a stage gets no issue. *)
RecordIssueEarly(r) ==
  /\ Step(r, "finish", "persist")
  /\ issues' = IF out[r] = "error" /\ cycle[r] = Null THEN issues \cup { r } ELSE issues
  /\ UNCHANGED << results, marker, session, thread, history >>

(* An error gets an issue (and older issues of the artifact take this run  *)
(* for a retry, which nothing reads).                                      *)
RecordIssue(r) ==
  /\ Step(r, "finish", "persist")
  /\ issues' = IF out[r] = "error" THEN issues \cup { r } ELSE issues
  /\ UNCHANGED << results, marker, session, thread, history >>

PersistResult(r) ==
  /\ Step(r, "persist", "unmark")
  /\ results' = Append(results, [run |-> r, sub |-> sub[r], status |-> out[r],
                                 revision |-> revision[r]])
  /\ UNCHANGED << marker, issues, session, thread, history >>

(* Mutant: only the run's own marker is removed. *)
UnmarkOwn(r) ==
  /\ Reply(r, "unmark", r, out[r])
  /\ marker' = IF marker # Null /\ marker.run = r THEN Null ELSE marker
  /\ UNCHANGED << results, issues, sub, thread, trace, timedOut, runs, faults >>

(* A run that was admitted has written a marker and removes the artifact's. *)
Unmark(r) ==
  /\ Reply(r, "unmark", r, out[r])
  /\ marker' = IF cycle[r] = Null THEN marker ELSE Null
  /\ UNCHANGED << results, issues, sub, thread, trace, timedOut, runs, faults >>

------------------------------------------------------------------------------
(* Faults *)

Die(dead) ==
  /\ faults < MaxFaults
  /\ faults' = faults + 1
  /\ pc' = [r \in Runs |-> IF r \in dead THEN "dead" ELSE pc[r]]
  /\ thread' = [r \in Runs |-> IF r \in dead THEN NoThread ELSE thread[r]]
  /\ UNCHANGED << marker, session, trace, answers, timedOut, runs >>

(* The process of a run dies; initialize_management_state of the next one  *)
(* gives errors of earlier sessions their issue.                           *)
Crash(r) ==
  /\ pc[r] \notin { "new", "dead" }
  /\ pc[r] # "ended" \/ thread[r].at # "none"
  /\ Die({ r })
  /\ issues' = issues \cup { results[i].run : i \in { j \in DOMAIN results : results[j].status = "error" } }
  /\ UNCHANGED results

(* The newest result was renamed into place but not flushed. *)
PowerLoss ==
  /\ results # << >>
  /\ Die({ r \in Runs : pc[r] # "new" })
  /\ results' = [results EXCEPT ![Len(results)].status = "corrupt"]
  /\ UNCHANGED issues

------------------------------------------------------------------------------
LifecycleInit ==
  /\ results = << >> /\ marker = Null /\ issues = {}
  /\ pc = [r \in Runs |-> "new"] /\ sub = [r \in Runs |-> Null]
  /\ revision = [r \in Runs |-> Null] /\ stage = [r \in Runs |-> "gap_finding"]
  /\ cycle = [r \in Runs |-> Null] /\ out = [r \in Runs |-> Null]
  /\ thread = [r \in Runs |-> NoThread] /\ trace = [r \in Runs |-> << >>]
  /\ answers = {} /\ timedOut = FALSE /\ runs = 0 /\ faults = 0

Main(r) ==
  \/ ResolveCorrupt(r) \/ Replay(r) \/ ResolveNew(r)
  \/ NoWorker(r) \/ LiveCheck(r) \/ LiveCheckFails(r) \/ RunProbe(r) \/ PersistSnapshot(r)
  \/ GuardActive(r) \/ GuardFree(r) \/ Mark(r)
  \/ (\E a \in AnswersOf(stage[r], cycle[r]) : TakeAnswer(r, a)) \/ StageTimeout(r)
  \/ RecordIssue(r) \/ PersistResult(r) \/ Unmark(r)

StageThread(r) == CallEnds(r) \/ CallEndsUnmarked(r) \/ ProgressWrite(r)

LifecycleNext ==
  \/ \E r \in Runs, s \in Submissions : SubmitDraft(r, s) \/ Submit(r, s)
  \/ \E r \in Runs : Main(r) \/ StageThread(r) \/ Crash(r)
  \/ Expire \/ PowerLoss

LifecycleSpec == LifecycleInit /\ [][LifecycleNext]_lifecycleVars

(* A run goes on and its waits time out; nothing is assumed of a provider, *)
(* whose call may never end.                                               *)
FairLifecycle == LifecycleSpec /\ \A r \in Runs : WF_lifecycleVars(Main(r))

------------------------------------------------------------------------------
(* Properties *)

AnswersIn(r, s) == { i \in DOMAIN trace[r] : trace[r][i][1] = s }

(* An artifact is handed off as improved only by a run of the very same    *)
(* submission in which every stage was answered in time, no gap was left   *)
(* unresolved, the last evaluation passed after the last fix, and it was   *)
(* repaired at most once -- whether the answer is new or replayed, and     *)
(* however other runs interleave.                                          *)
Earned(r) ==
  /\ \A s \in { "gap_finding", "success_criteria", "fixture_design" } : AnswersIn(r, s) # {}
  /\ \A i \in AnswersIn(r, "gap_fixing") : trace[r][i][2] = "fixed"
  /\ Cardinality(AnswersIn(r, "gap_fixing")) \in { 1, 2 }
  /\ \E i \in AnswersIn(r, "evaluation") :
       trace[r][i][2] = "passed" /\ \A j \in AnswersIn(r, "gap_fixing") : j < i

ImprovedIsEarned ==
  \A a \in answers : a.status = "improved" => Earned(a.run) /\ sub[a.run] = a.sub

(* Every error a caller was answered, and every error that was persisted,  *)
(* has a root-cause issue that names its run, across crashes.              *)
ErrorHasIssue ==
  /\ \A a \in answers : a.status = "error" => a.run \in issues
  /\ \A i \in DOMAIN results : results[i].status = "error" => results[i].run \in issues

Quiet == \A r \in Runs : pc[r] \in { "new", "ended" } /\ thread[r].at = "none"

(* When all runs have ended, no marker is left behind that would turn the  *)
(* next submission away, whoever overwrote whose marker meanwhile; only a  *)
(* crash or a thread that outlived its stage may leave one.                *)
MarkerIsCleared == Quiet /\ faults = 0 /\ ~ timedOut => marker = Null

(* No marker is left behind even when stages time out.                     *)
MarkerStaysGone == Quiet /\ faults = 0 => marker = Null

(* An identical submission never runs beside one that is active.           *)
IdenticalRunsOnce ==
  \A q, r \in Runs : q # r /\ pc[q] = "wait" /\ pc[r] = "wait" => sub[q] # sub[r]

(* Unchanged content keeps its revision and changed content advances it.   *)
RevisionsAdvance ==
  LET reviewed == { i \in DOMAIN results : results[i].status \notin { "skip", "corrupt" } } IN
  \A i, j \in reviewed :
    i < j /\ (\A k \in reviewed : k <= i \/ j <= k) =>
      results[j].revision =
        IF ContentOf[results[i].sub] = ContentOf[results[j].sub]
        THEN results[i].revision ELSE results[i].revision + 1

(* Every submission is answered, although a provider may never answer: a   *)
(* stage that does not end is left behind.                                 *)
SubmissionsAreAnswered ==
  \A r \in Runs : pc[r] \notin { "new", "ended", "dead" } ~> pc[r] \in { "ended", "dead" }
==============================================================================
