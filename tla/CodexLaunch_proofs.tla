------------------------- MODULE CodexLaunch_proofs -------------------------
(***************************************************************************)
(* Proofs about the launch of Codex for a prepared Build, for any number   *)
(* of callers, processes, contents, calls and crashes.                     *)
(***************************************************************************)
EXTENDS CodexLaunch, TLAPS

(* Where a caller has bound the record, and where it holds a copy of it. *)
HasBound == { "execute", "building", "normalize", "respRead", "respOpen", "respWrite",
              "continue", "claim", "claimOpen", "claimWrite", "handoff", "launch", "codex" }

HoldsCopy == { "respOpen", "respWrite", "claimOpen", "claimWrite" }

(* Whatever the callers do: the record is never gone once it was bound, a  *)
(* copy of it is a record, and a continuation has a contract.              *)
Shape(c) ==
  /\ pc[c] # "idle" => req[c] \in Contents
  /\ pc[c] \in HasBound => record # None
  /\ pc[c] \in HoldsCopy => copy[c] \in Record
  /\ pc[c] = "normalize" => resp[c] \in Statuses
  /\ pc[c] \in { "respRead", "respOpen", "respWrite", "continue" } => resp[c] \in Responses
  /\ pc[c] \in { "claim", "claimOpen", "claimWrite", "handoff", "launch" } => contract
  /\ pc[c] = "launch" => handoff

Backed == build \in { "completed", "suspended", "not_valid" } /\ contract

Recorded == record \in Record /\ record.consumed /\ record.response = "accepted"

(* While no two calls overlap: what the caller has seen is what is there.  *)
Alone(c) ==
  /\ pc[c] \in { "bind", "bindOpen", "bindWrite", "execute" } => build = "none"
  /\ pc[c] = "building" => build = "running"
  /\ pc[c] = "normalize" => resp[c] = "failed" \/ (resp[c] = build /\ build \in Ends)
  /\ pc[c] \in { "respRead", "respOpen", "respWrite", "continue" } /\ resp[c] = "accepted"
       => Backed
  /\ pc[c] = "continue" => record \in Record /\ record.response = resp[c]
  /\ pc[c] = "claim" => Backed /\ record \in Record /\ record.response = "accepted"
  /\ pc[c] \in { "claimOpen", "claimWrite" } => Backed /\ copy[c].response = "accepted"
  /\ pc[c] \in { "handoff", "launch" } => Backed /\ Recorded
  /\ launches > 0 => pc[c] \in { "idle", "load", "codex" }

(* What holds in every state that no two calls have overlapped to reach.   *)
Serial ==
  /\ \A c, d \in Callers : pc[c] # "idle" /\ pc[d] # "idle" => c = d
  /\ \A c \in Callers : Alone(c)
  /\ record = None => build = "none"
  /\ launches > 0 => launches = 1 /\ Backed /\ Recorded

(* The inductive invariant.  LaunchIsBacked and LaunchIsRecorded say       *)
(* nothing before the launch; what makes them true there is what each step *)
(* of the one call that runs may rely on.                                  *)
IInv ==
  /\ TypeOK
  /\ \A c \in Callers : Shape(c)
  /\ launches > 0 => contract /\ handoff
  /\ ~ overlap => Serial

------------------------------------------------------------------------------
(* Every step keeps the invariant.                                         *)

(* A call of run begins. *)
LEMMA RunStep ==
  ASSUME IInv, NEW c \in Callers, NEW h \in Contents, Run(c, h)
  PROVE  IInv'
<1> USE CodexLaunchAssumption
    DEF Run, Step, disk, local, count, IInv, Shape, Record, Responses, Statuses, Ends
<1>1. TypeOK'
  BY DEF TypeOK
<1>2. \A e \in Callers : Shape(e)'
  BY DEF TypeOK, HasBound, HoldsCopy
<1>3. launches' > 0 => contract' /\ handoff'
  BY DEF TypeOK
<1>4. (~ overlap => Serial)'
  BY ZenonT(60) DEF TypeOK, HasBound, HoldsCopy, Serial, Alone, Backed, Recorded
<1> QED
  BY <1>1, <1>2, <1>3, <1>4

(* A call ends before it has loaded a record. *)
LEMMA NotPreparedStep ==
  ASSUME IInv, NEW c \in Callers, NotPrepared(c)
  PROVE  IInv'
<1> USE CodexLaunchAssumption
    DEF NotPrepared, Step, disk, local, count, IInv, Shape, Record, Responses, Statuses, Ends
<1>1. TypeOK'
  BY DEF TypeOK
<1>2. \A e \in Callers : Shape(e)'
  BY DEF TypeOK, HasBound, HoldsCopy
<1>3. launches' > 0 => contract' /\ handoff'
  BY DEF TypeOK
<1>4. (~ overlap => Serial)'
  BY DEF TypeOK, HasBound, HoldsCopy, Serial, Alone, Backed, Recorded
<1> QED
  BY <1>1, <1>2, <1>3, <1>4

(* accept finds a record and raises or returns it. *)
LEMMA LoadExistingStep ==
  ASSUME IInv, NEW c \in Callers, LoadExisting(c)
  PROVE  IInv'
<1> USE CodexLaunchAssumption
    DEF LoadExisting, Return, Step, disk, local, count, IInv, Shape, Record, Responses, Statuses, Ends
<1>1. TypeOK'
  BY DEF TypeOK
<1>2. \A e \in Callers : Shape(e)'
  BY DEF TypeOK, HasBound, HoldsCopy
<1>3. launches' > 0 => contract' /\ handoff'
  BY DEF TypeOK
<1>4. (~ overlap => Serial)'
  BY DEF TypeOK, HasBound, HoldsCopy, Serial, Alone, Backed, Recorded
<1> QED
  BY <1>1, <1>2, <1>3, <1>4

(* accept finds no record. *)
LEMMA LoadNothingStep ==
  ASSUME IInv, NEW c \in Callers, LoadNothing(c)
  PROVE  IInv'
<1> USE CodexLaunchAssumption
    DEF LoadNothing, Step, disk, local, count, IInv, Shape, Record, Responses, Statuses, Ends
<1>1. TypeOK'
  BY DEF TypeOK
<1>2. \A e \in Callers : Shape(e)'
  BY DEF TypeOK, HasBound, HoldsCopy
<1>3. launches' > 0 => contract' /\ handoff'
  BY DEF TypeOK
<1>4. (~ overlap => Serial)'
  BY DEF TypeOK, HasBound, HoldsCopy, Serial, Alone, Backed, Recorded
<1> QED
  BY <1>1, <1>2, <1>3, <1>4

(* bind finds that another caller was faster. *)
LEMMA BindExistingStep ==
  ASSUME IInv, NEW c \in Callers, BindExisting(c)
  PROVE  IInv'
<1> USE CodexLaunchAssumption
    DEF BindExisting, Return, Step, disk, local, count, IInv, Shape, Record, Responses, Statuses, Ends
<1>1. TypeOK'
  BY DEF TypeOK
<1>2. \A e \in Callers : Shape(e)'
  BY DEF TypeOK, HasBound, HoldsCopy
<1>3. launches' > 0 => contract' /\ handoff'
  BY DEF TypeOK
<1>4. (~ overlap => Serial)'
  BY DEF TypeOK, HasBound, HoldsCopy, Serial, Alone, Backed, Recorded
<1> QED
  BY <1>1, <1>2, <1>3, <1>4

(* bind finds no file. *)
LEMMA BindLookStep ==
  ASSUME IInv, NEW c \in Callers, BindLook(c)
  PROVE  IInv'
<1> USE CodexLaunchAssumption
    DEF BindLook, Step, disk, local, count, IInv, Shape, Record, Responses, Statuses, Ends
<1>1. TypeOK'
  BY DEF TypeOK
<1>2. \A e \in Callers : Shape(e)'
  BY DEF TypeOK, HasBound, HoldsCopy
<1>3. launches' > 0 => contract' /\ handoff'
  BY DEF TypeOK
<1>4. (~ overlap => Serial)'
  BY DEF TypeOK, HasBound, HoldsCopy, Serial, Alone, Backed, Recorded
<1> QED
  BY <1>1, <1>2, <1>3, <1>4

(* bind truncates the file. *)
LEMMA BindOpenStep ==
  ASSUME IInv, NEW c \in Callers, BindOpen(c)
  PROVE  IInv'
<1> USE CodexLaunchAssumption
    DEF BindOpen, Step, disk, local, count, IInv, Shape, Record, Responses, Statuses, Ends
<1>1. TypeOK'
  BY DEF TypeOK
<1>2. \A e \in Callers : Shape(e)'
  BY DEF TypeOK, HasBound, HoldsCopy
<1>3. launches' > 0 => contract' /\ handoff'
  BY DEF TypeOK
<1>4. (~ overlap => Serial)'
  BY DEF TypeOK, HasBound, HoldsCopy, Serial, Alone, Backed, Recorded
<1> QED
  BY <1>1, <1>2, <1>3, <1>4

(* bind writes the request. *)
LEMMA BindWriteStep ==
  ASSUME IInv, NEW c \in Callers, BindWrite(c)
  PROVE  IInv'
<1> USE CodexLaunchAssumption
    DEF BindWrite, Bound, Step, disk, local, count, IInv, Shape, Record, Responses, Statuses, Ends
<1>a. req[c] \in Contents
  BY DEF TypeOK
<1>b. Bound(c) \in Record
  BY <1>a
<1>0. Bound(c) \in Record /\ Bound(c) # None
  BY <1>b
<1>1. TypeOK'
  BY <1>0 DEF TypeOK, HoldsCopy
<1>2. \A e \in Callers : Shape(e)'
  BY <1>0 DEF TypeOK, HasBound, HoldsCopy
<1>3. launches' > 0 => contract' /\ handoff'
  BY DEF TypeOK
<1>4. (~ overlap => Serial)'
  BY <1>0 DEF TypeOK, HasBound, HoldsCopy, Serial, Alone, Backed, Recorded
<1> QED
  BY <1>1, <1>2, <1>3, <1>4

(* The builder starts the execution. *)
LEMMA ExecuteNewStep ==
  ASSUME IInv, NEW c \in Callers, ExecuteNew(c)
  PROVE  IInv'
<1> USE CodexLaunchAssumption
    DEF ExecuteNew, Step, disk, local, count, IInv, Shape, Record, Responses, Statuses, Ends
<1>1. TypeOK'
  BY DEF TypeOK
<1>2. \A e \in Callers : Shape(e)'
  BY DEF TypeOK, HasBound, HoldsCopy
<1>3. launches' > 0 => contract' /\ handoff'
  BY DEF TypeOK
<1>4. (~ overlap => Serial)'
  BY DEF TypeOK, HasBound, HoldsCopy, Serial, Alone, Backed, Recorded
<1> QED
  BY <1>1, <1>2, <1>3, <1>4

(* The builder refuses a caller while it runs. *)
LEMMA ExecuteConflictStep ==
  ASSUME IInv, NEW c \in Callers, ExecuteConflict(c)
  PROVE  IInv'
<1> USE CodexLaunchAssumption
    DEF ExecuteConflict, Step, disk, local, count, IInv, Shape, Record, Responses, Statuses, Ends
<1>1. TypeOK'
  BY DEF TypeOK
<1>2. \A e \in Callers : Shape(e)'
  BY DEF TypeOK, HasBound, HoldsCopy
<1>3. launches' > 0 => contract' /\ handoff'
  BY DEF TypeOK
<1>4. (~ overlap => Serial)'
  BY DEF TypeOK, HasBound, HoldsCopy, Serial, Alone, Backed, Recorded
<1> QED
  BY <1>1, <1>2, <1>3, <1>4

(* The builder answers with the state on disk. *)
LEMMA ExecuteAgainStep ==
  ASSUME IInv, NEW c \in Callers, ExecuteAgain(c)
  PROVE  IInv'
<1> USE CodexLaunchAssumption
    DEF ExecuteAgain, Step, disk, local, count, IInv, Shape, Record, Responses, Statuses, Ends
<1>1. TypeOK'
  BY DEF TypeOK
<1>2. \A e \in Callers : Shape(e)'
  BY DEF TypeOK, HasBound, HoldsCopy
<1>3. launches' > 0 => contract' /\ handoff'
  BY DEF TypeOK
<1>4. (~ overlap => Serial)'
  BY DEF TypeOK, HasBound, HoldsCopy, Serial, Alone, Backed, Recorded
<1> QED
  BY <1>1, <1>2, <1>3, <1>4

(* The contract reaches the disk. *)
LEMMA WriteContractStep ==
  ASSUME IInv, NEW c \in Callers, WriteContract(c)
  PROVE  IInv'
<1> USE CodexLaunchAssumption
    DEF WriteContract, Step, disk, local, count, IInv, Shape, Record, Responses, Statuses, Ends
<1>1. TypeOK'
  BY DEF TypeOK
<1>2. \A e \in Callers : Shape(e)'
  BY DEF TypeOK, HasBound, HoldsCopy
<1>3. launches' > 0 => contract' /\ handoff'
  BY DEF TypeOK
<1>4. (~ overlap => Serial)'
  BY DEF TypeOK, HasBound, HoldsCopy, Serial, Alone, Backed, Recorded
<1> QED
  BY <1>1, <1>2, <1>3, <1>4

(* The build ends. *)
LEMMA BuildEndsStep ==
  ASSUME IInv, NEW c \in Callers, NEW s \in Ends, BuildEnds(c, s)
  PROVE  IInv'
<1> USE CodexLaunchAssumption
    DEF BuildEnds, Step, disk, local, count, IInv, Shape, Record, Responses, Statuses, Ends
<1>1. TypeOK'
  BY DEF TypeOK
<1>2. \A e \in Callers : Shape(e)'
  BY DEF TypeOK, HasBound, HoldsCopy
<1>3. launches' > 0 => contract' /\ handoff'
  BY DEF TypeOK
<1>4. (~ overlap => Serial)'
  BY DEF TypeOK, HasBound, HoldsCopy, Serial, Alone, Backed, Recorded
<1> QED
  BY <1>1, <1>2, <1>3, <1>4

(* The build raises and leaves its state behind. *)
LEMMA BuildRaisesStep ==
  ASSUME IInv, NEW c \in Callers, BuildRaises(c)
  PROVE  IInv'
<1> USE CodexLaunchAssumption
    DEF BuildRaises, Step, disk, local, count, IInv, Shape, Record, Responses, Statuses, Ends
<1>1. TypeOK'
  BY DEF TypeOK
<1>2. \A e \in Callers : Shape(e)'
  BY DEF TypeOK, HasBound, HoldsCopy
<1>3. launches' > 0 => contract' /\ handoff'
  BY DEF TypeOK
<1>4. (~ overlap => Serial)'
  BY DEF TypeOK, HasBound, HoldsCopy, Serial, Alone, Backed, Recorded
<1> QED
  BY <1>1, <1>2, <1>3, <1>4

(* The status of the build becomes a response. *)
LEMMA NormalizeStep ==
  ASSUME IInv, NEW c \in Callers, Normalize(c)
  PROVE  IInv'
<1> USE CodexLaunchAssumption
    DEF Normalize, Normalized, HostStatus, Step, disk, local, count, IInv, Shape, Record, Responses, Statuses, Ends
<1>1. TypeOK'
  BY DEF TypeOK
<1>2. \A e \in Callers : Shape(e)'
  BY DEF TypeOK, HasBound, HoldsCopy
<1>3. launches' > 0 => contract' /\ handoff'
  BY DEF TypeOK
<1>4. (~ overlap => Serial)'
  BY DEF TypeOK, HasBound, HoldsCopy, Serial, Alone, Backed, Recorded
<1> QED
  BY <1>1, <1>2, <1>3, <1>4

(* persist_response copies the record. *)
LEMMA RespReadStep ==
  ASSUME IInv, NEW c \in Callers, RespRead(c)
  PROVE  IInv'
<1> USE CodexLaunchAssumption
    DEF RespRead, Step, disk, local, count, IInv, Shape, Record, Responses, Statuses, Ends
<1>1. TypeOK'
  BY DEF TypeOK
<1>2. \A e \in Callers : Shape(e)'
  BY DEF TypeOK, HasBound, HoldsCopy
<1>3. launches' > 0 => contract' /\ handoff'
  BY DEF TypeOK
<1>4. (~ overlap => Serial)'
  BY DEF TypeOK, HasBound, HoldsCopy, Serial, Alone, Backed, Recorded
<1> QED
  BY <1>1, <1>2, <1>3, <1>4

(* persist_response truncates the file. *)
LEMMA RespOpenStep ==
  ASSUME IInv, NEW c \in Callers, RespOpen(c)
  PROVE  IInv'
<1> USE CodexLaunchAssumption
    DEF RespOpen, Step, disk, local, count, IInv, Shape, Record, Responses, Statuses, Ends
<1>1. TypeOK'
  BY DEF TypeOK
<1>2. \A e \in Callers : Shape(e)'
  BY DEF TypeOK, HasBound, HoldsCopy
<1>3. launches' > 0 => contract' /\ handoff'
  BY DEF TypeOK
<1>4. (~ overlap => Serial)'
  BY DEF TypeOK, HasBound, HoldsCopy, Serial, Alone, Backed, Recorded
<1> QED
  BY <1>1, <1>2, <1>3, <1>4

(* persist_response writes the copy. *)
LEMMA RespWriteStep ==
  ASSUME IInv, NEW c \in Callers, RespWrite(c)
  PROVE  IInv'
<1> USE CodexLaunchAssumption
    DEF RespWrite, Step, disk, local, count, IInv, Shape, Record, Responses, Statuses, Ends
<1>1. TypeOK'
  BY DEF TypeOK, HoldsCopy
<1>2. \A e \in Callers : Shape(e)'
  BY DEF TypeOK, HasBound, HoldsCopy
<1>3. launches' > 0 => contract' /\ handoff'
  BY DEF TypeOK
<1>4. (~ overlap => Serial)'
  BY DEF TypeOK, HasBound, HoldsCopy, Serial, Alone, Backed, Recorded
<1> QED
  BY <1>1, <1>2, <1>3, <1>4

(* persist_response meets a torn file. *)
LEMMA ReadFailsStep ==
  ASSUME IInv, NEW c \in Callers, ReadFails(c)
  PROVE  IInv'
<1> USE CodexLaunchAssumption
    DEF ReadFails, Return, Step, disk, local, count, IInv, Shape, Record, Responses, Statuses, Ends
<1>1. TypeOK'
  BY DEF TypeOK
<1>2. \A e \in Callers : Shape(e)'
  BY DEF TypeOK, HasBound, HoldsCopy
<1>3. launches' > 0 => contract' /\ handoff'
  BY DEF TypeOK
<1>4. (~ overlap => Serial)'
  BY DEF TypeOK, HasBound, HoldsCopy, Serial, Alone, Backed, Recorded
<1> QED
  BY <1>1, <1>2, <1>3, <1>4

(* The response permits no continuation. *)
LEMMA NotPermittedStep ==
  ASSUME IInv, NEW c \in Callers, NotPermitted(c)
  PROVE  IInv'
<1> USE CodexLaunchAssumption
    DEF NotPermitted, Return, Step, disk, local, count, IInv, Shape, Record, Responses, Statuses, Ends
<1>1. TypeOK'
  BY DEF TypeOK
<1>2. \A e \in Callers : Shape(e)'
  BY DEF TypeOK, HasBound, HoldsCopy
<1>3. launches' > 0 => contract' /\ handoff'
  BY DEF TypeOK
<1>4. (~ overlap => Serial)'
  BY DEF TypeOK, HasBound, HoldsCopy, Serial, Alone, Backed, Recorded
<1> QED
  BY <1>1, <1>2, <1>3, <1>4

(* The response permits a continuation. *)
LEMMA PermittedStep ==
  ASSUME IInv, NEW c \in Callers, Permitted(c)
  PROVE  IInv'
<1> USE CodexLaunchAssumption
    DEF Permitted, Step, disk, local, count, IInv, Shape, Record, Responses, Statuses, Ends
<1>1. TypeOK'
  BY DEF TypeOK
<1>2. \A e \in Callers : Shape(e)'
  BY DEF TypeOK, HasBound, HoldsCopy
<1>3. launches' > 0 => contract' /\ handoff'
  BY DEF TypeOK
<1>4. (~ overlap => Serial)'
  BY DEF TypeOK, HasBound, HoldsCopy, Serial, Alone, Backed, Recorded
<1> QED
  BY <1>1, <1>2, <1>3, <1>4

(* claim_continuation copies the record, under the lock. *)
LEMMA ClaimReadStep ==
  ASSUME IInv, NEW c \in Callers, ClaimRead(c)
  PROVE  IInv'
<1> USE CodexLaunchAssumption
    DEF ClaimRead, Claimable, Readable, Step, disk, local, count, IInv, Shape, Record, Responses, Statuses, Ends
<1>1. TypeOK'
  BY DEF TypeOK
<1>2. \A e \in Callers : Shape(e)'
  BY DEF TypeOK, HasBound, HoldsCopy
<1>3. launches' > 0 => contract' /\ handoff'
  BY DEF TypeOK
<1>4. (~ overlap => Serial)'
  BY DEF TypeOK, HasBound, HoldsCopy, Serial, Alone, Backed, Recorded
<1> QED
  BY <1>1, <1>2, <1>3, <1>4

(* claim_continuation finds it consumed, changed or torn. *)
LEMMA ClaimRefusedStep ==
  ASSUME IInv, NEW c \in Callers, ClaimRefused(c)
  PROVE  IInv'
<1> USE CodexLaunchAssumption
    DEF ClaimRefused, Return, Step, disk, local, count, IInv, Shape, Record, Responses, Statuses, Ends
<1>1. TypeOK'
  BY DEF TypeOK
<1>2. \A e \in Callers : Shape(e)'
  BY DEF TypeOK, HasBound, HoldsCopy
<1>3. launches' > 0 => contract' /\ handoff'
  BY DEF TypeOK
<1>4. (~ overlap => Serial)'
  BY DEF TypeOK, HasBound, HoldsCopy, Serial, Alone, Backed, Recorded
<1> QED
  BY <1>1, <1>2, <1>3, <1>4

(* claim_continuation truncates the file. *)
LEMMA ClaimOpenStep ==
  ASSUME IInv, NEW c \in Callers, ClaimOpen(c)
  PROVE  IInv'
<1> USE CodexLaunchAssumption
    DEF ClaimOpen, Step, disk, local, count, IInv, Shape, Record, Responses, Statuses, Ends
<1>1. TypeOK'
  BY DEF TypeOK
<1>2. \A e \in Callers : Shape(e)'
  BY DEF TypeOK, HasBound, HoldsCopy
<1>3. launches' > 0 => contract' /\ handoff'
  BY DEF TypeOK
<1>4. (~ overlap => Serial)'
  BY DEF TypeOK, HasBound, HoldsCopy, Serial, Alone, Backed, Recorded
<1> QED
  BY <1>1, <1>2, <1>3, <1>4

(* claim_continuation writes the consumed record. *)
LEMMA ClaimWriteStep ==
  ASSUME IInv, NEW c \in Callers, ClaimWrite(c)
  PROVE  IInv'
<1> USE CodexLaunchAssumption
    DEF ClaimWrite, Step, disk, local, count, IInv, Shape, Record, Responses, Statuses, Ends
<1>0. /\ record' \in Record /\ record' # None
      /\ record'.consumed /\ record'.response = copy[c].response
  BY DEF HoldsCopy
<1>1. TypeOK'
  BY <1>0 DEF TypeOK, HoldsCopy
<1>2. \A e \in Callers : Shape(e)'
  BY <1>0 DEF TypeOK, HasBound, HoldsCopy
<1>3. launches' > 0 => contract' /\ handoff'
  BY DEF TypeOK
<1>4. (~ overlap => Serial)'
  BY <1>0 DEF TypeOK, HasBound, HoldsCopy, Serial, Alone, Backed, Recorded
<1> QED
  BY <1>1, <1>2, <1>3, <1>4

(* The handoff is written. *)
LEMMA PersistHandoffStep ==
  ASSUME IInv, NEW c \in Callers, PersistHandoff(c)
  PROVE  IInv'
<1> USE CodexLaunchAssumption
    DEF PersistHandoff, Step, disk, local, count, IInv, Shape, Record, Responses, Statuses, Ends
<1>1. TypeOK'
  BY DEF TypeOK
<1>2. \A e \in Callers : Shape(e)'
  BY DEF TypeOK, HasBound, HoldsCopy
<1>3. launches' > 0 => contract' /\ handoff'
  BY DEF TypeOK
<1>4. (~ overlap => Serial)'
  BY DEF TypeOK, HasBound, HoldsCopy, Serial, Alone, Backed, Recorded
<1> QED
  BY <1>1, <1>2, <1>3, <1>4

(* Codex is launched. *)
LEMMA LaunchStep ==
  ASSUME IInv, NEW c \in Callers, Launch(c)
  PROVE  IInv'
<1> USE CodexLaunchAssumption
    DEF Launch, Step, disk, local, count, IInv, Shape, Record, Responses, Statuses, Ends
<1>1. TypeOK'
  BY DEF TypeOK
<1>2. \A e \in Callers : Shape(e)'
  BY DEF TypeOK, HasBound, HoldsCopy
<1>3. launches' > 0 => contract' /\ handoff'
  BY DEF TypeOK
<1>4. (~ overlap => Serial)'
  BY DEF TypeOK, HasBound, HoldsCopy, Serial, Alone, Backed, Recorded
<1> QED
  BY <1>1, <1>2, <1>3, <1>4

(* The launch fails. *)
LEMMA LaunchFailsStep ==
  ASSUME IInv, NEW c \in Callers, LaunchFails(c)
  PROVE  IInv'
<1> USE CodexLaunchAssumption
    DEF LaunchFails, Return, Step, disk, local, count, IInv, Shape, Record, Responses, Statuses, Ends
<1>1. TypeOK'
  BY DEF TypeOK
<1>2. \A e \in Callers : Shape(e)'
  BY DEF TypeOK, HasBound, HoldsCopy
<1>3. launches' > 0 => contract' /\ handoff'
  BY DEF TypeOK
<1>4. (~ overlap => Serial)'
  BY DEF TypeOK, HasBound, HoldsCopy, Serial, Alone, Backed, Recorded
<1> QED
  BY <1>1, <1>2, <1>3, <1>4

(* Codex ends. *)
LEMMA CodexEndsStep ==
  ASSUME IInv, NEW c \in Callers, NEW o \in { "codex_completed", "codex_failed", "codex_cancelled" }, CodexEnds(c, o)
  PROVE  IInv'
<1> USE CodexLaunchAssumption
    DEF CodexEnds, Return, Step, disk, local, count, IInv, Shape, Record, Responses, Statuses, Ends
<1>1. TypeOK'
  BY DEF TypeOK
<1>2. \A e \in Callers : Shape(e)'
  BY DEF TypeOK, HasBound, HoldsCopy
<1>3. launches' > 0 => contract' /\ handoff'
  BY DEF TypeOK
<1>4. (~ overlap => Serial)'
  BY DEF TypeOK, HasBound, HoldsCopy, Serial, Alone, Backed, Recorded
<1> QED
  BY <1>1, <1>2, <1>3, <1>4

(* A process dies. *)
LEMMA CrashStep ==
  ASSUME IInv, NEW p \in Processes, Crash(p)
  PROVE  IInv'
<1> USE CodexLaunchAssumption
    DEF Crash, Step, disk, local, count, IInv, Shape, Record, Responses, Statuses, Ends
<1>1. TypeOK'
  BY DEF TypeOK
<1>2. \A e \in Callers : Shape(e)'
  BY DEF TypeOK, HasBound, HoldsCopy
<1>3. launches' > 0 => contract' /\ handoff'
  BY DEF TypeOK
<1>4. (~ overlap => Serial)'
  BY DEF TypeOK, HasBound, HoldsCopy, Serial, Alone, Backed, Recorded
<1> QED
  BY <1>1, <1>2, <1>3, <1>4

(* The initial state has it. *)
LEMMA InitInv == ASSUME Init PROVE IInv
<1> USE CodexLaunchAssumption DEF Init
<1>a. /\ lock \in [Processes -> Callers \cup { None }]
      /\ req \in [Callers -> Contents \cup { None }]
      /\ copy \in [Callers -> Record \cup { None }]
      /\ resp \in [Callers -> Statuses \cup Responses \cup { None }]
  OBVIOUS
<1>b. launches \in Nat /\ runs \in 0 .. MaxRuns /\ crashes \in 0 .. MaxCrashes
  OBVIOUS
<1>1. TypeOK
  BY <1>a, <1>b DEF TypeOK, Statuses
<1>2. \A c \in Callers : Shape(c)
  BY DEF Shape, HasBound, HoldsCopy
<1>3. Serial
  BY DEF Serial, Alone
<1> QED
  BY <1>1, <1>2, <1>3 DEF IInv

(* The steps of accept, and those of the adapter after it. *)
LEMMA CallerStep ==
  ASSUME IInv, NEW c \in Callers, Accept(c) \/ Continue(c)
  PROVE  IInv'
BY LoadExistingStep, LoadNothingStep, BindExistingStep, BindLookStep, BindOpenStep,
   BindWriteStep, ExecuteNewStep, ExecuteConflictStep, ExecuteAgainStep,
   WriteContractStep, BuildEndsStep, BuildRaisesStep, NormalizeStep, RespReadStep, RespOpenStep,
   RespWriteStep, ReadFailsStep, NotPermittedStep, PermittedStep, ClaimReadStep,
   ClaimRefusedStep, ClaimOpenStep, ClaimWriteStep, PersistHandoffStep, LaunchStep,
   LaunchFailsStep
   DEF Accept, Continue

(* A step that changes nothing keeps it. *)
LEMMA StutterStep == ASSUME IInv, UNCHANGED vars PROVE IInv'
BY DEF vars, IInv, TypeOK, Shape, Serial, Alone, Backed, Recorded

(* The invariant is inductive. *)
LEMMA NextInv == ASSUME IInv, [Next]_vars PROVE IInv'
<1>1. CASE \E c \in Callers, h \in Contents : Run(c, h)
  BY <1>1, RunStep
<1>2. CASE \E c \in Callers : NotPrepared(c) \/ Accept(c) \/ Continue(c)
  BY <1>2, NotPreparedStep, CallerStep
<1>3. CASE \E c \in Callers, o \in { "codex_completed", "codex_failed", "codex_cancelled" } :
             CodexEnds(c, o)
  BY <1>3, CodexEndsStep
<1>4. CASE \E p \in Processes : Crash(p)
  BY <1>4, CrashStep
<1>5. CASE UNCHANGED vars
  BY <1>5, StutterStep
<1> QED
  BY <1>1, <1>2, <1>3, <1>4, <1>5 DEF Next

------------------------------------------------------------------------------
(* The theorems *)

(* The invariant holds in every reachable state (codex/adapter.py, run).   *)
THEOREM Invariance == Spec => []IInv
<1>1. Init => IInv
  BY InitInv
<1>2. IInv /\ [Next]_vars => IInv'
  BY NextInv
<1> QED
  BY <1>1, <1>2, PTL DEF Spec

(* The record, the files and the frames of the callers keep their shape.   *)
THEOREM TypeCorrect == Spec => []TypeOK
<1>1. IInv => TypeOK
  BY DEF IInv
<1> QED
  BY <1>1, Invariance, PTL

(* Codex is never launched without a contract and a handoff, and, as long  *)
(* as calls do not overlap, once and for a build that did not fail, however*)
(* often the call is retried and wherever a process dies.                  *)
THEOREM LaunchHasBacking == Spec => []LaunchIsBacked
<1>1. IInv => LaunchIsBacked
  BY DEF IInv, Serial, Backed, LaunchIsBacked
<1> QED
  BY <1>1, Invariance, PTL

(* A launch is on record as accepted and consumed, as long as calls do not *)
(* overlap, so that no later call repeats it.                              *)
THEOREM LaunchHasRecord == Spec => []LaunchIsRecorded
<1>1. IInv => LaunchIsRecorded
  BY CodexLaunchAssumption DEF IInv, Serial, Recorded, LaunchIsRecorded, Readable
<1> QED
  BY <1>1, Invariance, PTL
==============================================================================
