----------------------------- MODULE CodexLaunch -----------------------------
(***************************************************************************)
(* CodexBuildAdapter.run (runtime/codex/adapter.py): a prepared Build is   *)
(* accepted by AcceptedOperationService (operations/service.py), which     *)
(* binds it in SharedOperationStore (operations/store.py) and executes it, *)
(* and its continuation is claimed and handed to Codex.                    *)
(*                                                                         *)
(* All callers name one operation.  The record's file is opened (and       *)
(* truncated) and written in two steps; only claim_continuation takes the  *)
(* store's lock, which is a lock of one process.  The build executor is    *)
(* seen as its callers see it: one execution, and what it left on disk.    *)
(***************************************************************************)
EXTENDS Naturals, FiniteSets

CONSTANTS
  Callers, Processes,
  Home,        \* the process of each caller
  Contents,    \* requests, by their canonical hash
  Returned,    \* how many values the launcher returns
  None, Garbled,
  MaxRuns,     \* bound: calls of run
  MaxCrashes   \* bound: crashes of a process

VARIABLES
  record,    \* the operation's file: None, Garbled or a record
  build,     \* the execution of the build: status
  contract,  \* an execution contract or A-Flow result was left on disk
  handoff,   \* qualified-codex-handoff.json and codex-stdin.txt exist
  outcome,   \* codex-result.json, or None
  lock,      \* per process: holder of SharedOperationStore._lock
  pc, req, copy, resp,   \* of each caller; resp is the build's status, then the response
  launches,  \* launches of Codex
  overlap,   \* two calls of run have overlapped
  runs, crashes

vars == << record, build, contract, handoff, outcome, lock, pc, req, copy, resp, launches,
           overlap, runs, crashes >>

disk   == << build, contract, handoff, outcome >>
local  == << req, copy, resp >>
count  == << overlap, runs, crashes >>

Step(c, from, to) == pc[c] = from /\ pc' = [pc EXCEPT ![c] = to]

(* What execute returns: a build that is done, one that is suspended for   *)
(* routing, or one whose evidence final_state does not believe.            *)
Ends == { "completed", "failed", "suspended", "not_valid" }

Statuses == { "none", "running", "interrupted" } \cup Ends

Responses == { "accepted", "completed", "failed" }

Record == [hash : Contents, response : Responses \cup { None }, consumed : BOOLEAN]

ASSUME CodexLaunchAssumption ==
  /\ Home \in [Callers -> Processes]
  /\ None \notin Callers /\ None # Garbled
  /\ None \notin Record /\ Garbled \notin Record
  /\ Returned \in Nat /\ MaxRuns \in Nat /\ MaxCrashes \in Nat

(* run returns a response or raises; either way nothing is left behind. *)
Return(c, from) ==
  /\ Step(c, from, "idle")
  /\ req' = [req EXCEPT ![c] = None]
  /\ copy' = [copy EXCEPT ![c] = None]
  /\ resp' = [resp EXCEPT ![c] = None]

Readable == record \notin { None, Garbled }

------------------------------------------------------------------------------
(* AcceptedOperationService.accept *)

(* _prepared: the build is loaded, its repository found and not changed. *)
Run(c, h) ==
  /\ runs < MaxRuns
  /\ runs' = runs + 1
  /\ overlap' = (overlap \/ \E d \in Callers \ { c } : pc[d] # "idle")
  /\ Step(c, "idle", "load")
  /\ req' = [req EXCEPT ![c] = h]
  /\ UNCHANGED << record, disk, lock, copy, resp, launches, crashes >>

NotPrepared(c) ==
  /\ runs < MaxRuns
  /\ runs' = runs + 1
  /\ pc[c] = "idle"
  /\ UNCHANGED << record, disk, lock, pc, local, launches, overlap, crashes >>

(* A file that cannot be parsed, another hash or no response raise; a      *)
(* stored response is returned as existing and is never continued.         *)
LoadExisting(c) ==
  /\ record # None
  /\ Return(c, "load")
  /\ UNCHANGED << record, disk, lock, launches, count >>

LoadNothing(c) ==
  /\ record = None
  /\ Step(c, "load", "bind")
  /\ UNCHANGED << record, disk, lock, local, launches, count >>

Bound(c) == [hash |-> req[c], response |-> None, consumed |-> FALSE]

(* bind looks whether the file exists, then opens it, then writes it. *)
BindExisting(c) ==
  /\ record # None
  /\ Return(c, "bind")
  /\ UNCHANGED << record, disk, lock, launches, count >>

BindLook(c) ==
  /\ record = None
  /\ Step(c, "bind", "bindOpen")
  /\ UNCHANGED << record, disk, lock, local, launches, count >>

BindOpen(c) ==
  /\ Step(c, "bindOpen", "bindWrite")
  /\ record' = Garbled
  /\ UNCHANGED << disk, lock, local, launches, count >>

BindWrite(c) ==
  /\ Step(c, "bindWrite", "execute")
  /\ record' = Bound(c)
  /\ UNCHANGED << disk, lock, local, launches, count >>

(* The builder runs an execution once.  Its A-Flow result, which adapter   *)
(* and normalisation take for the contract, is written while it runs.      *)
ExecuteNew(c) ==
  /\ build = "none"
  /\ Step(c, "execute", "building")
  /\ build' = "running"
  /\ UNCHANGED << record, contract, handoff, outcome, lock, local, launches, count >>

WriteContract(c) ==
  /\ pc[c] = "building" /\ ~ contract
  /\ contract' = TRUE
  /\ UNCHANGED << record, build, handoff, outcome, lock, pc, local, launches, count >>

BuildEnds(c, status) ==
  /\ Step(c, "building", "normalize")
  /\ build' = status
  /\ resp' = [resp EXCEPT ![c] = status]
  /\ UNCHANGED << record, contract, handoff, outcome, lock, req, copy, launches, count >>

(* An exception leaves execute; what it left on disk says that it runs. *)
BuildRaises(c) ==
  /\ Step(c, "building", "normalize")
  /\ resp' = [resp EXCEPT ![c] = "failed"]
  /\ UNCHANGED << record, disk, lock, req, copy, launches, count >>

(* A caller that comes before the execution is bound meets a conflict, one *)
(* that comes later gets the state on disk, were it running or interrupted.*)
ExecuteConflict(c) ==
  /\ build = "running"
  /\ Step(c, "execute", "normalize")
  /\ resp' = [resp EXCEPT ![c] = "failed"]
  /\ UNCHANGED << record, disk, lock, req, copy, launches, count >>

ExecuteAgain(c) ==
  /\ build # "none"
  /\ Step(c, "execute", "normalize")
  /\ resp' = [resp EXCEPT ![c] = build]
  /\ UNCHANGED << record, disk, lock, req, copy, launches, count >>

(* Mutant: a failed execution is taken for a completed one. *)
HostStatusLoose(status) == "completed"

(* _host_status passes on what it knows and takes the rest for completed,  *)
(* a suspended build and one that is not valid included.                   *)
HostStatus(status) == IF status \in { "completed", "failed" } THEN status ELSE "completed"

(* A completed build with a contract is accepted and may be continued. *)
Normalized(status, written) ==
  IF HostStatus(status) = "completed" /\ written THEN "accepted" ELSE HostStatus(status)

Normalize(c) ==
  /\ Step(c, "normalize", "respRead")
  /\ resp' = [resp EXCEPT ![c] = Normalized(resp[c], contract)]
  /\ UNCHANGED << record, disk, lock, req, copy, launches, count >>

(* persist_response reads, opens and writes, without the lock. *)
RespRead(c) ==
  /\ record # Garbled
  /\ Step(c, "respRead", "respOpen")
  /\ copy' = [copy EXCEPT ![c] = record]
  /\ UNCHANGED << record, disk, lock, req, resp, launches, count >>

RespOpen(c) ==
  /\ Step(c, "respOpen", "respWrite")
  /\ record' = Garbled
  /\ UNCHANGED << disk, lock, local, launches, count >>

RespWrite(c) ==
  /\ Step(c, "respWrite", "continue")
  /\ record' = [copy[c] EXCEPT !.response = resp[c]]
  /\ UNCHANGED << disk, lock, local, launches, count >>

(* A read of a file that another caller is writing raises. *)
ReadFails(c) ==
  /\ record = Garbled
  /\ Return(c, "respRead")
  /\ UNCHANGED << record, disk, lock, launches, count >>

------------------------------------------------------------------------------
(* The adapter, after accept *)

(* The response is returned, or no contract or no limit is known. *)
NotPermitted(c) ==
  /\ resp[c] # "accepted" \/ ~ contract
  /\ Return(c, "continue")
  /\ UNCHANGED << record, disk, lock, launches, count >>

Permitted(c) ==
  /\ resp[c] = "accepted" /\ contract
  /\ Step(c, "continue", "claim")
  /\ UNCHANGED << record, disk, lock, local, launches, count >>

Claimable(c) == Readable /\ record.hash = req[c] /\ ~ record.consumed

ClaimRead(c) ==
  /\ lock[Home[c]] = None
  /\ Claimable(c)
  /\ Step(c, "claim", "claimOpen")
  /\ lock' = [lock EXCEPT ![Home[c]] = c]
  /\ copy' = [copy EXCEPT ![c] = record]
  /\ UNCHANGED << record, disk, req, resp, launches, count >>

ClaimRefused(c) ==
  /\ lock[Home[c]] = None
  /\ ~ Claimable(c)
  /\ Return(c, "claim")
  /\ UNCHANGED << record, disk, lock, launches, count >>

ClaimOpen(c) ==
  /\ Step(c, "claimOpen", "claimWrite")
  /\ record' = Garbled
  /\ UNCHANGED << disk, lock, local, launches, count >>

(* Mutant: the claim is not written. *)
ClaimForgotten(c) ==
  /\ Step(c, "claimWrite", "handoff")
  /\ record' = copy[c]
  /\ lock' = [lock EXCEPT ![Home[c]] = None]
  /\ UNCHANGED << disk, local, launches, count >>

(* Mutant: the lock is kept. *)
ClaimKeepsLock(c) ==
  /\ Step(c, "claimWrite", "handoff")
  /\ record' = [copy[c] EXCEPT !.consumed = TRUE]
  /\ UNCHANGED << disk, lock, local, launches, count >>

ClaimWrite(c) ==
  /\ Step(c, "claimWrite", "handoff")
  /\ record' = [copy[c] EXCEPT !.consumed = TRUE]
  /\ lock' = [lock EXCEPT ![Home[c]] = None]
  /\ UNCHANGED << disk, local, launches, count >>

PersistHandoff(c) ==
  /\ Step(c, "handoff", "launch")
  /\ handoff' = TRUE
  /\ UNCHANGED << record, build, contract, outcome, lock, local, launches, count >>

Launch(c) ==
  /\ Step(c, "launch", "codex")
  /\ launches' = launches + 1
  /\ UNCHANGED << record, disk, lock, local, count >>

LaunchFails(c) ==
  /\ Return(c, "launch")
  /\ outcome' = "codex_failed"
  /\ UNCHANGED << record, build, contract, handoff, lock, launches, count >>

(* run unpacks four values; with any other number it raises. *)
CodexEnds(c, o) ==
  /\ Return(c, "codex")
  /\ outcome' = IF Returned = 4 THEN o ELSE outcome
  /\ UNCHANGED << record, build, contract, handoff, lock, launches, count >>

(* A process dies: the build it ran is left running, is interrupted by the *)
(* builder's recovery, or ends without the evidence of its end.            *)
Crash(p) ==
  /\ crashes < MaxCrashes
  /\ crashes' = crashes + 1
  /\ LET dead == { c \in Callers : Home[c] = p } IN
       /\ \E c \in dead : pc[c] # "idle"
       /\ pc' = [c \in Callers |-> IF c \in dead THEN "idle" ELSE pc[c]]
       /\ req' = [c \in Callers |-> IF c \in dead THEN None ELSE req[c]]
       /\ copy' = [c \in Callers |-> IF c \in dead THEN None ELSE copy[c]]
       /\ resp' = [c \in Callers |-> IF c \in dead THEN None ELSE resp[c]]
       /\ build' \in IF \E c \in dead : pc[c] = "building"
                      THEN { "running", "interrupted", "not_valid" } ELSE { build }
  /\ lock' = [lock EXCEPT ![p] = None]
  /\ UNCHANGED << record, contract, handoff, outcome, launches, overlap, runs >>

------------------------------------------------------------------------------
Init ==
  /\ record = None /\ build = "none" /\ contract = FALSE /\ handoff = FALSE /\ outcome = None
  /\ lock = [p \in Processes |-> None]
  /\ pc = [c \in Callers |-> "idle"]
  /\ req = [c \in Callers |-> None]
  /\ copy = [c \in Callers |-> None]
  /\ resp = [c \in Callers |-> None]
  /\ launches = 0 /\ overlap = FALSE /\ runs = 0 /\ crashes = 0

Accept(c) ==
  \/ LoadExisting(c) \/ LoadNothing(c)
  \/ BindExisting(c) \/ BindLook(c) \/ BindOpen(c) \/ BindWrite(c)
  \/ ExecuteNew(c) \/ ExecuteConflict(c) \/ ExecuteAgain(c)
  \/ WriteContract(c) \/ (\E s \in Ends : BuildEnds(c, s)) \/ BuildRaises(c)
  \/ Normalize(c) \/ RespRead(c) \/ RespOpen(c) \/ RespWrite(c) \/ ReadFails(c)

Continue(c) ==
  \/ NotPermitted(c) \/ Permitted(c)
  \/ ClaimRead(c) \/ ClaimRefused(c) \/ ClaimOpen(c) \/ ClaimWrite(c)
  \/ PersistHandoff(c) \/ Launch(c) \/ LaunchFails(c)

Next ==
  \/ \E c \in Callers, h \in Contents : Run(c, h)
  \/ \E c \in Callers : NotPrepared(c) \/ Accept(c) \/ Continue(c)
  \/ \E c \in Callers, o \in { "codex_completed", "codex_failed", "codex_cancelled" } : CodexEnds(c, o)
  \/ \E p \in Processes : Crash(p)

Spec == Init /\ [][Next]_vars

(* Threads are scheduled and tasks of a build have timeouts; nothing is    *)
(* assumed of Codex.                                                       *)
FairSpec == Spec /\ \A c \in Callers : WF_vars(Accept(c)) /\ WF_vars(Continue(c))

------------------------------------------------------------------------------
(* Properties *)

(* The files and the frames of the callers have the shape the code gives them. *)
TypeOK ==
  /\ record \in Record \cup { None, Garbled }
  /\ build \in Statuses
  /\ contract \in BOOLEAN /\ handoff \in BOOLEAN
  /\ outcome \in { None, "codex_completed", "codex_failed", "codex_cancelled" }
  /\ lock \in [Processes -> Callers \cup { None }]
  /\ pc \in [Callers -> { "idle", "load", "bind", "bindOpen", "bindWrite", "execute",
                         "building", "normalize", "respRead", "respOpen", "respWrite",
                         "continue", "claim", "claimOpen", "claimWrite", "handoff",
                         "launch", "codex" }]
  /\ req \in [Callers -> Contents \cup { None }]
  /\ copy \in [Callers -> Record \cup { None }]
  /\ resp \in [Callers -> Statuses \cup Responses \cup { None }]
  /\ launches \in Nat /\ overlap \in BOOLEAN
  /\ runs \in 0 .. MaxRuns /\ crashes \in 0 .. MaxCrashes

(* Codex is launched only with a contract and the handoff on disk; and, as *)
(* long as no two calls overlap, once over all retries and restarts and    *)
(* never for a build that failed, still runs or was interrupted.  One that *)
(* was suspended, or is not valid, passes for completed (_host_status).    *)
LaunchIsBacked ==
  launches > 0 =>
    /\ contract /\ handoff
    /\ ~ overlap => launches = 1 /\ build \in { "completed", "suspended", "not_valid" }

(* After a launch the record, whatever crashes and retries follow, says    *)
(* that the operation was accepted and its continuation consumed, so that  *)
(* no later call can take it for one that is still to be launched.         *)
LaunchIsRecorded ==
  launches > 0 /\ ~ overlap => Readable /\ record.consumed /\ record.response = "accepted"

(* A call of run ends unless it waits for Codex: the lock is released and  *)
(* no check of the record is repeated for ever.                            *)
CallsEnd ==
  \A c \in Callers : pc[c] \notin { "idle", "codex" } ~> pc[c] \in { "idle", "codex" }

------------------------------------------------------------------------------
(* What the repository says and the code does not do *)

(* One prepared Build is projected into exactly one launch of Codex,       *)
(* whatever the callers do.                                                *)
LaunchedOnce == launches <= 1

(* A suspended Build "can be resumed via resume_execution()"               *)
(* (executor.py:234): Codex is launched for one that is completed.         *)
LaunchIsOfCompleted == launches > 0 => build = "completed"

(* A launch whose Codex ended is recorded in codex-result.json.            *)
EndedIsRecorded ==
  [][ \A c \in Callers : pc[c] = "codex" /\ pc'[c] = "idle" /\ crashes' = crashes =>
        outcome' # None ]_vars
==============================================================================
