---------------------------- MODULE Review_proofs ----------------------------
(***************************************************************************)
(* A-Flow: the mutation gate (MutationGate), for any number of reviews,    *)
(* hooks, launches, plans, paths, clears, failed audits and crashes, and   *)
(* the lifecycle of a review (ReviewLifecycle), for any number of runs,    *)
(* submissions and faults.  RunInv follows each run through its      *)
(* pipeline: the trace of a run that waits is the one path of answers that *)
(* leads to its stage, and what is persisted or answered as improved names *)
(* a run whose trace is closed.                                            *)
(***************************************************************************)
EXTENDS MutationGate, ReviewLifecycle, FiniteSetTheorems, TLAPS

(* The mutation gate. *)
(* A plan for which a review goes on to write a lock, and a review that    *)
(* has written its envelope, whatever became of it since.                  *)
Accepted(plan) == ~Blocked(Content[plan]) /\ Assembles(Content[plan])

PastFill(frame) ==
  /\ frame.pc \notin { "idle", "create", "start", "analyzed", "open", "fill" }
  /\ frame.answer \notin { "blocked", "conflict" }

Reviewed(plan) == \E r \in Reviews : PastFill(review[r]) /\ review[r].plan = plan

Writing == { "open", "fill", "replace", "contract", "lock", "complete" }

FrameOK(frame) ==
  /\ frame.pc # "idle" => frame.plan \in Plans /\ frame.op \in Ops
  /\ frame.pc # "done" => frame.answer = None
  /\ frame.pc \in Writing => Accepted(frame.plan)

LockEarned(state) ==
  state \notin { None, Torn } \cup SliceFiles =>
    \E op \in Ops, plan \in Plans :
      Accepted(plan) /\ Reviewed(plan) /\ state = Envelope(op, plan)

(* What stands behind a call that the hook allows. *)
SlicesOf(file) == { file.slices[i] : i \in DOMAIN file.slices }

Sliced(targets) ==
  \E file \in SliceFiles : \A path \in targets :
    \E slice \in SlicesOf(file) : slice.locked /\ InsideAny(path, slice.allowed)

Approved(frame) ==
  LET targets == RequestedTargets(frame.call)
  IN  /\ targets # {}
      /\ frame.reason = "slices" => Sliced(targets)
      /\ frame.reason # "slices" => \E plan \in Plans :
           /\ Accepted(plan) /\ Reviewed(plan)
           /\ \A path \in targets : Touchable(Content[plan], path)

HookOK(h) ==
  /\ hook[h].pc \in { "idle", "evaluate", "audit" } => hook[h].answer = None
  /\ hook[h].pc \in { "evaluate", "audit" } => hook[h].call \in Calls
  /\ /\ \/ hook[h].pc = "audit" /\ hook[h].decision = "allow"
        \/ hook[h].answer = "allow"
     /\ IsMutationAttempt(hook[h].call.tool)
     => Approved(hook[h])

AcceptedContract(contract) ==
  \E plan \in Plans : Accepted(plan) /\ contract = Contract(plan)

Proven(frame) ==
  /\ Sound(PlanOf(frame.contract))
  /\ \A f \in Files : frame.after[f] # Before[f] => Touchable(PlanOf(frame.contract), f)
  /\ ~frame.edited
  /\ frame.checks = {}

Admitted == Reading \cup { "admitted", "judge" }

FrameOfLaunchOK(frame, tree) ==
  /\ frame.pc \in Admitted => frame.op \in Ops /\ AcceptedContract(frame.contract)
  /\ frame.pc \in { "idle", "admitted" } => ~frame.edited
  /\ frame.pc \in Reading /\ frame.edited => tree # frame.primary_before
  /\ frame.pc = "judge" /\ frame.edited => frame.primary_after # frame.primary_before
  /\ frame.pc # "done" => frame.verdict = None
  /\ frame.verdict = "proven" => frame.pc = "done" /\ Proven(frame)

LaunchOK(l) == FrameOfLaunchOK(launch[l], primary)

(* The inductive invariant.  LockIsEarned alone is not inductive: an       *)
(* envelope reaches the file through the temporary file, from a review     *)
(* that has accepted its plan.                                             *)
IInv ==
  /\ TypeOK
  /\ \A r \in Reviews : FrameOK(review[r])
  /\ LockEarned(active) /\ LockEarned(temp)
  /\ \A h \in Hooks : HookOK(h)
  /\ \A op \in Ops : artifacts[op].contract # None => AcceptedContract(artifacts[op].contract)
  /\ \A l \in Launches : LaunchOK(l)

------------------------------------------------------------------------------
(* Paths and plans. *)

(* A path is inside a root exactly if the root is one of its prefixes.     *)
LEMMA InsideIsPrefix ==
  ASSUME NEW path \in Path, NEW root \in Path
  PROVE  Inside(path, root) <=> root \in { SubSeq(path, 1, n) : n \in 0 .. Len(path) }
<1>1. SubSeq(root, 1, Len(root)) = root
  BY DEF Path
<1>2. Inside(path, root) <=> Len(root) <= Len(path) /\ root = SubSeq(path, 1, Len(root))
  BY <1>1 DEF Inside, IsPrefix
<1>3. \A n \in 0 .. Len(path) : Len(SubSeq(path, 1, n)) = n
  BY DEF Path
<1>4. Len(root) \in Nat /\ Len(path) \in Nat
  BY DEF Path
<1> QED
  BY <1>2, <1>3, <1>4

(* A path that is under a target, under an allowed root and under no       *)
(* prohibited one may be touched.                                          *)
LEMMA AllowedIsTouchable ==
  ASSUME NEW plan \in Plans, NEW path \in Path,
         InsideAny(path, Content[plan].allowed), InsideAny(path, Content[plan].targets),
         ~InsideAny(path, Content[plan].prohibited)
  PROVE  Touchable(Content[plan], path)
<1> USE GateAssumption
<1>1. \A root \in Content[plan].allowed \cup Content[plan].targets \cup Content[plan].prohibited :
        Inside(path, root) <=> root \in { SubSeq(path, 1, n) : n \in 0 .. Len(path) }
  BY InsideIsPrefix
<1> QED
  BY <1>1 DEF Touchable, InsideAny

(* An accepted plan is sound. *)
LEMMA AcceptedIsSound ==
  ASSUME NEW plan \in Plans, Accepted(plan)
  PROVE  Sound(Content[plan])
BY DEF Accepted, Blocked, Assembles, ValidateAuthority, Sound

(* Reviews only go forward: what has been reviewed stays reviewed.         *)
Forward ==
  \A r \in Reviews : PastFill(review[r]) =>
    PastFill(review'[r]) /\ review'[r].plan = review[r].plan

LEMMA ReviewedStays ==
  ASSUME Forward, NEW plan, Reviewed(plan)
  PROVE  Reviewed(plan)'
BY DEF Forward, Reviewed, PastFill

(* A hook that does not move keeps what stands behind it.                  *)
LEMMA HookStays ==
  ASSUME Forward, NEW h \in Hooks, HookOK(h), hook' = hook
  PROVE  HookOK(h)'
BY ReviewedStays DEF HookOK, Approved

LEMMA LaunchStays ==
  ASSUME NEW l \in Launches, LaunchOK(l), launch' = launch, primary' = primary
  PROVE  LaunchOK(l)'
BY DEF LaunchOK

------------------------------------------------------------------------------
(* The steps of a review. *)

(* What every step of a review that moves only its own frame keeps.        *)
LEMMA ReviewMoves ==
  ASSUME IInv, NEW r \in Reviews, NEW frame \in ReviewFrames, SetReview(r, frame),
         FrameOK(frame),
         PastFill(review[r]) => PastFill(frame) /\ frame.plan = review[r].plan,
         hook' = hook, launch' = launch, primary' = primary
  PROVE  /\ review' \in [Reviews -> ReviewFrames]
         /\ Forward
         /\ \A s \in Reviews : FrameOK(review[s])'
         /\ \A h \in Hooks : HookOK(h)'
         /\ \A l \in Launches : LaunchOK(l)'
<1>1. /\ review' \in [Reviews -> ReviewFrames]
      /\ \A s \in Reviews : review'[s] = IF s = r THEN frame ELSE review[s]
  BY DEF IInv, TypeOK, SetReview
<1>2. Forward
  BY <1>1 DEF Forward
<1>3. \A s \in Reviews : FrameOK(review[s])'
  BY <1>1 DEF IInv, FrameOK, Accepted, Blocked
<1>4. \A h \in Hooks : HookOK(h)'
  BY <1>2, HookStays DEF IInv
<1>5. \A l \in Launches : LaunchOK(l)'
  BY LaunchStays DEF IInv
<1> QED
  BY <1>1, <1>2, <1>3, <1>4, <1>5

(* A step of a review that leaves the active state and its temporary file  *)
(* as they are.                                                            *)
LEMMA ReviewKeeps ==
  ASSUME IInv, NEW r \in Reviews, NEW frame \in ReviewFrames, SetReview(r, frame),
         FrameOK(frame),
         PastFill(review[r]) => PastFill(frame) /\ frame.plan = review[r].plan,
         UNCHANGED << active, temp, hook, launch, primary >>,
         store' \in [Ops -> Records \cup { None }],
         artifacts' \in [Ops -> FilesOfAnOperation],
         \A op \in Ops :
           artifacts'[op].contract # None => AcceptedContract(artifacts'[op].contract),
         upsets' \in 0 .. MaxUpsets
  PROVE  IInv'
<1>1. /\ review' \in [Reviews -> ReviewFrames]
      /\ Forward
      /\ \A s \in Reviews : FrameOK(review[s])'
      /\ \A h \in Hooks : HookOK(h)'
      /\ \A l \in Launches : LaunchOK(l)'
  BY ReviewMoves
<1>2. LockEarned(active)' /\ LockEarned(temp)'
  <2>1. \A plan : Reviewed(plan) => Reviewed(plan)'
    BY <1>1, ReviewedStays
  <2> QED
    BY <2>1 DEF IInv, LockEarned
<1>3. TypeOK'
  BY <1>1 DEF IInv, TypeOK
<1>4. \A op \in Ops : (artifacts[op].contract # None => AcceptedContract(artifacts[op].contract))'
  BY DEF AcceptedContract
<1> QED
  BY <1>1, <1>2, <1>3, <1>4 DEF IInv

(* A known operation is answered from the store. *)
LEMMA OpenOperationStep ==
  ASSUME IInv, NEW r \in Reviews, OpenOperation(r)
  PROVE  IInv'
<1> USE DEF IInv, TypeOK, ReviewFrames, Records
<1>1. PICK op \in Ops, plan \in Plans :
        LET frame == [NoReview EXCEPT !.op = op, !.plan = plan]   old == store[op]
        IN  /\ review[r].pc = "idle"
            /\ SetReview(r,
                 IF old = None THEN [frame EXCEPT !.pc = "create"]
                 ELSE IF old.plan # plan THEN Answer(frame, "conflict", None)
                 ELSE [Answer(frame, IF old.status = "completed" THEN "ok" ELSE "blocked",
                              old.result) EXCEPT !.replay = TRUE])
  BY DEF OpenOperation
<1> DEFINE opened == [NoReview EXCEPT !.op = op, !.plan = plan]
           frame == IF store[op] = None THEN [opened EXCEPT !.pc = "create"]
                    ELSE IF store[op].plan # plan THEN Answer(opened, "conflict", None)
                    ELSE [Answer(opened, IF store[op].status = "completed" THEN "ok"
                                         ELSE "blocked", store[op].result)
                            EXCEPT !.replay = TRUE]
<1>2. frame \in ReviewFrames /\ FrameOK(frame)
  BY DEF Answer, NoReview, FrameOK, Writing
<1>3. SetReview(r, frame) /\ ~PastFill(review[r])
  BY <1>1 DEF PastFill
<1> HIDE DEF frame
<1> QED
  BY <1>2, <1>3, ReviewKeeps DEF OpenOperation

LEMMA CreateOperationStep ==
  ASSUME IInv, NEW r \in Reviews, CreateOperation(r)
  PROVE  IInv'
<1> DEFINE frame == [review[r] EXCEPT !.pc = "start"]
<1> USE DEF CreateOperation
<1>1. frame \in ReviewFrames /\ FrameOK(frame) /\ ~PastFill(review[r])
  BY DEF IInv, TypeOK, ReviewFrames, FrameOK, PastFill, Writing
<1>2. store' \in [Ops -> Records \cup { None }]
  BY DEF IInv, TypeOK, Records, FrameOK
<1> QED
  BY <1>1, <1>2, ReviewKeeps DEF IInv, TypeOK

LEMMA StartOperationStep ==
  ASSUME IInv, NEW r \in Reviews, StartOperation(r)
  PROVE  IInv'
<1> DEFINE frame == [review[r] EXCEPT !.pc = "analyzed"]
<1> USE DEF StartOperation
<1>1. frame \in ReviewFrames /\ FrameOK(frame) /\ ~PastFill(review[r])
  BY DEF IInv, TypeOK, ReviewFrames, FrameOK, PastFill, Writing
<1>2. store' \in [Ops -> Records \cup { None }]
  BY DEF IInv, TypeOK, Records, FrameOK, Store
<1> QED
  BY <1>1, <1>2, ReviewKeeps DEF IInv, TypeOK

LEMMA BlockOperationStep ==
  ASSUME IInv, NEW r \in Reviews, BlockOperation(r)
  PROVE  IInv'
<1> DEFINE frame == Answer(review[r], "blocked", None)
<1> USE DEF BlockOperation
<1>1. frame \in ReviewFrames /\ FrameOK(frame) /\ ~PastFill(review[r])
  BY ZenonT(60) DEF IInv, TypeOK, ReviewFrames, FrameOK, PastFill, Writing, Answer
<1>2. store' \in [Ops -> Records \cup { None }]
  BY DEF IInv, TypeOK, Records, FrameOK, Store
<1> QED
  BY <1>1, <1>2, ReviewKeeps DEF IInv, TypeOK

(* Only an accepted plan goes on to the active state file. *)
LEMMA CheckActiveStep ==
  ASSUME IInv, NEW r \in Reviews, CheckActive(r)
  PROVE  IInv'
<1>1. PICK frame \in { Answer(review[r], "raised", None), [review[r] EXCEPT !.pc = "open"] } :
        /\ SetReview(r, frame)
        /\ frame.pc = "open" => Accepted(review[r].plan)
  BY DEF CheckActive, Answer, Accepted
<1>2. review[r].pc = "analyzed"
  BY DEF CheckActive
<1>3. frame \in ReviewFrames /\ FrameOK(frame) /\ ~PastFill(review[r])
  BY <1>1, <1>2 DEF IInv, TypeOK, ReviewFrames, FrameOK, PastFill, Writing, Answer
<1> QED
  BY <1>1, <1>3, ReviewKeeps DEF CheckActive, IInv, TypeOK

(* A contract is persisted only for an accepted plan. *)
LEMMA PersistContractStep ==
  ASSUME IInv, NEW r \in Reviews, PersistContract(r)
  PROVE  IInv'
<1> DEFINE frame == [review[r] EXCEPT !.pc = "lock"]
<1> USE DEF PersistContract
<1>1. frame \in ReviewFrames /\ FrameOK(frame)
      /\ (PastFill(review[r]) => PastFill(frame) /\ frame.plan = review[r].plan)
  BY DEF IInv, TypeOK, ReviewFrames, FrameOK, PastFill, Writing
<1>2. /\ review[r].plan \in Plans /\ review[r].op \in Ops
      /\ AcceptedContract(Contract(review[r].plan))
  BY DEF IInv, FrameOK, Writing, AcceptedContract
<1>3. Contract(review[r].plan) \in Contracts
  BY <1>2 DEF Contracts
<1>4. \A op \in Ops : artifacts'[op] =
        IF op = review[r].op THEN [artifacts[op] EXCEPT !.contract = Contract(review[r].plan)]
        ELSE artifacts[op]
  BY DEF IInv, TypeOK
<1>5. artifacts' \in [Ops -> FilesOfAnOperation]
  <2>1. artifacts \in [Ops -> FilesOfAnOperation] /\ artifacts[review[r].op] \in FilesOfAnOperation
    BY <1>2 DEF IInv, TypeOK
  <2>2. [artifacts[review[r].op] EXCEPT !.contract = Contract(review[r].plan)]
          \in FilesOfAnOperation
    BY <1>3, <2>1 DEF FilesOfAnOperation
  <2> QED
    BY <2>1, <2>2
<1>6. \A op \in Ops :
        artifacts'[op].contract # None => AcceptedContract(artifacts'[op].contract)
  BY <1>2, <1>4 DEF IInv, TypeOK, FilesOfAnOperation
<1> QED
  BY <1>1, <1>5, <1>6, ReviewKeeps DEF IInv, TypeOK

LEMMA PersistLockStep ==
  ASSUME IInv, NEW r \in Reviews, PersistLock(r)
  PROVE  IInv'
<1> DEFINE frame == [review[r] EXCEPT !.pc = "complete"]
<1> USE DEF PersistLock
<1>1. frame \in ReviewFrames /\ FrameOK(frame)
      /\ (PastFill(review[r]) => PastFill(frame) /\ frame.plan = review[r].plan)
  BY DEF IInv, TypeOK, ReviewFrames, FrameOK, PastFill, Writing
<1>2. review[r].plan \in Plans /\ review[r].op \in Ops
  BY DEF IInv, FrameOK
<1>3. AcceptForPrimary(Contract(review[r].plan).sha) \in Locks
  BY <1>2 DEF Contracts, Digests, Locks
<1>4. \A op \in Ops : artifacts'[op] =
        IF op = review[r].op
        THEN [artifacts[op] EXCEPT !.lock = AcceptForPrimary(Contract(review[r].plan).sha)]
        ELSE artifacts[op]
  BY DEF IInv, TypeOK
<1> HIDE DEF PersistLock
<1>5. \A op \in Ops : artifacts[op] \in FilesOfAnOperation
  BY DEF IInv, TypeOK
<1>6. artifacts' \in [Ops -> FilesOfAnOperation]
  <2>1. \A op \in Ops : artifacts'[op] \in FilesOfAnOperation
    BY <1>3, <1>4, <1>5 DEF FilesOfAnOperation
  <2>2. artifacts' = [op \in Ops |-> artifacts'[op]]
    BY DEF PersistLock, IInv, TypeOK
  <2> QED
    BY <2>1, <2>2
<1>7. \A op \in Ops :
        artifacts'[op].contract # None => AcceptedContract(artifacts'[op].contract)
  <2>1. \A op \in Ops : artifacts'[op].contract = artifacts[op].contract
    BY <1>4, <1>5 DEF FilesOfAnOperation
  <2> QED
    BY <2>1 DEF IInv
<1> QED
  BY <1>1, <1>6, <1>7, ReviewKeeps DEF PersistLock, IInv, TypeOK

LEMMA CompleteOperationStep ==
  ASSUME IInv, NEW r \in Reviews, CompleteOperation(r)
  PROVE  IInv'
<1> DEFINE sha == Contract(review[r].plan).sha
           frame == Answer(review[r], "ok", sha)
<1> USE DEF CompleteOperation
<1>1. review[r].plan \in Plans /\ review[r].op \in Ops
  BY DEF IInv, FrameOK
<1>2. sha \in Digests
  BY <1>1 DEF Contracts, Digests
<1> HIDE DEF sha
<1>3. frame \in ReviewFrames /\ FrameOK(frame)
      /\ (PastFill(review[r]) => PastFill(frame) /\ frame.plan = review[r].plan)
  BY ZenonT(60), <1>2 DEF IInv, TypeOK, ReviewFrames, FrameOK, PastFill, Writing, Answer
<1>4. store' \in [Ops -> Records \cup { None }]
  BY <1>1, <1>2 DEF sha, IInv, TypeOK, Records, Results, Store
<1>5. SetReview(r, frame)
  BY DEF sha
<1> HIDE DEF frame
<1> QED
  BY <1>3, <1>4, <1>5, ReviewKeeps DEF IInv, TypeOK

LEMMA CrashReviewStep ==
  ASSUME IInv, NEW r \in Reviews, CrashReview(r)
  PROVE  IInv'
<1> DEFINE frame == [review[r] EXCEPT !.pc = "done", !.answer = "dead", !.handle = None]
<1> USE DEF CrashReview
<1>1. frame \in ReviewFrames /\ FrameOK(frame)
      /\ (PastFill(review[r]) => PastFill(frame) /\ frame.plan = review[r].plan)
  BY ZenonT(60) DEF IInv, TypeOK, ReviewFrames, FrameOK, PastFill, Writing
<1>2. upsets' \in 0 .. MaxUpsets
  BY GateAssumption DEF IInv, TypeOK
<1>3. /\ store' \in [Ops -> Records \cup { None }]
      /\ artifacts' \in [Ops -> FilesOfAnOperation]
      /\ \A op \in Ops :
           artifacts'[op].contract # None => AcceptedContract(artifacts'[op].contract)
  BY DEF IInv, TypeOK
<1>4. SetReview(r, frame) /\ UNCHANGED << active, temp, hook, launch, primary >>
  OBVIOUS
<1> HIDE DEF frame, CrashReview
<1> QED
  BY <1>1, <1>2, <1>3, <1>4, ReviewKeeps

(* The temporary file is torn while it is written, and then holds the      *)
(* envelope of an accepted plan.                                           *)
LEMMA OpenTempStep ==
  ASSUME IInv, NEW r \in Reviews, OpenTemp(r)
  PROVE  IInv'
<1> DEFINE frame == [review[r] EXCEPT !.pc = "fill", !.handle = "temp"]
<1>1. frame \in ReviewFrames /\ FrameOK(frame) /\ ~PastFill(review[r])
  BY DEF OpenTemp, IInv, TypeOK, ReviewFrames, FrameOK, PastFill, Writing
<1>2. SetReview(r, frame) /\ UNCHANGED << store, active, artifacts, hook, launch, primary, upsets >>
  BY DEF OpenTemp
<1> HIDE DEF frame
<1>3. /\ review' \in [Reviews -> ReviewFrames]
      /\ Forward
      /\ \A s \in Reviews : FrameOK(review[s])'
      /\ \A h \in Hooks : HookOK(h)'
      /\ \A l \in Launches : LaunchOK(l)'
  BY <1>1, <1>2, ReviewMoves
<1>4. \A plan : Reviewed(plan) => Reviewed(plan)'
  BY <1>3, ReviewedStays
<1>5. LockEarned(active)' /\ LockEarned(temp)'
  BY <1>2, <1>4 DEF IInv, LockEarned, OpenTemp
<1>6. TypeOK'
  BY <1>2, <1>3 DEF IInv, TypeOK, OpenTemp
<1>7. \A op \in Ops : (artifacts[op].contract # None => AcceptedContract(artifacts[op].contract))'
  BY <1>2 DEF IInv, AcceptedContract
<1> QED
  BY <1>3, <1>5, <1>6, <1>7 DEF IInv

(* Where the envelope goes to depends on what became of the file that the  *)
(* review opened; whichever it is, the review that wrote it stands behind  *)
(* it.                                                                     *)
LEMMA FillTempStep ==
  ASSUME IInv, NEW r \in Reviews, FillTemp(r)
  PROVE  IInv'
<1>1. PICK op \in Ops, plan \in Plans :
        op = review[r].op /\ plan = review[r].plan /\ Accepted(plan)
  BY DEF FillTemp, IInv, FrameOK, Writing
<1> DEFINE frame == [review[r] EXCEPT !.pc = "replace", !.handle = None]
           envelope == Envelope(op, plan)
<1>2. frame \in ReviewFrames /\ FrameOK(frame) /\ ~PastFill(review[r])
      /\ PastFill(frame) /\ frame.plan = review[r].plan
  <2>1. None # "blocked" /\ None # "conflict"
    BY GateAssumption
  <2> QED
    BY <2>1 DEF FillTemp, IInv, TypeOK, ReviewFrames, FrameOK, PastFill, Writing
<1>3. SetReview(r, frame) /\ UNCHANGED << store, artifacts, hook, launch, primary, upsets >>
  BY DEF FillTemp
<1>4. active' \in { active, envelope } /\ temp' \in { temp, envelope }
  BY <1>1 DEF FillTemp
<1> HIDE DEF frame, envelope
<1>5. /\ review' \in [Reviews -> ReviewFrames]
      /\ Forward
      /\ \A s \in Reviews : FrameOK(review[s])'
      /\ \A h \in Hooks : HookOK(h)'
      /\ \A l \in Launches : LaunchOK(l)'
  BY <1>2, <1>3, ReviewMoves
<1>6. Reviewed(plan)'
  <2>1. review'[r] = frame
    BY <1>3 DEF SetReview, IInv, TypeOK
  <2> QED
    BY <1>1, <1>2, <2>1 DEF Reviewed
<1>7. \A p : Reviewed(p) => Reviewed(p)'
  BY <1>5, ReviewedStays
<1>8. LockEarned(active)' /\ LockEarned(temp)'
  <2> DEFINE Behind(state) == \E o \in Ops, p \in Plans :
                                Accepted(p) /\ Reviewed(p)' /\ state = Envelope(o, p)
  <2>1. Behind(envelope)
    BY <1>1, <1>6 DEF envelope
  <2>2. (active \notin { None, Torn } \cup SliceFiles => Behind(active))
        /\ (temp \notin { None, Torn } \cup SliceFiles => Behind(temp))
    <3>1. LockEarned(active) /\ LockEarned(temp)
      BY DEF IInv
    <3> QED
      BY <1>7, <3>1 DEF LockEarned
  <2>3. (active' \notin { None, Torn } \cup SliceFiles => Behind(active'))
        /\ (temp' \notin { None, Torn } \cup SliceFiles => Behind(temp'))
    <3> HIDE DEF Behind
    <3> QED
      BY <1>4, <2>1, <2>2
  <2> QED
    BY <2>3 DEF LockEarned
<1>9. TypeOK'
  <2>1. envelope \in Envelopes
    BY <1>1 DEF Envelopes, envelope
  <2>2. active' \in { None, Torn } \cup SliceFiles \cup Envelopes /\ temp' \in { None, Torn } \cup Envelopes
    BY <1>4, <2>1 DEF IInv, TypeOK
  <2> QED
    BY <1>3, <1>5, <2>2 DEF IInv, TypeOK
<1>10. \A o \in Ops : (artifacts[o].contract # None => AcceptedContract(artifacts[o].contract))'
  BY <1>3 DEF IInv, AcceptedContract
<1> QED
  BY <1>5, <1>8, <1>9, <1>10 DEF IInv

(* The file moves with the handles on it. *)
LEMMA ReplaceActiveStep ==
  ASSUME IInv, NEW r \in Reviews, ReplaceActive(r)
  PROVE  IInv'
<1>1. CASE temp = None
  <2> DEFINE frame == Answer(review[r], "raised", None)
  <2>1. /\ SetReview(r, frame) /\ review[r].pc = "replace"
        /\ UNCHANGED << active, temp, store, artifacts, hook, launch, primary, upsets >>
    BY <1>1 DEF ReplaceActive
  <2>2. frame \in ReviewFrames /\ FrameOK(frame)
        /\ (PastFill(review[r]) => PastFill(frame) /\ frame.plan = review[r].plan)
    BY <2>1 DEF IInv, TypeOK, ReviewFrames, FrameOK, PastFill, Writing, Answer
  <2> HIDE DEF frame
  <2> QED
    BY <2>1, <2>2, ReviewKeeps DEF IInv, TypeOK
<1>2. CASE temp # None
  <2> DEFINE follows(handle) == CASE handle = "temp" -> "active"
                                  [] handle = "active" -> None
                                  [] OTHER -> handle
             moved == [s \in Reviews |->
                         IF s = r THEN [review[r] EXCEPT !.pc = "contract"]
                         ELSE [review[s] EXCEPT !.handle = follows(@)]]
  <2>1. /\ review[r].pc = "replace" /\ active' = temp /\ temp' = None /\ review' = moved
        /\ UNCHANGED << store, artifacts, hook, launch, primary, upsets >>
    BY <1>2 DEF ReplaceActive
  <2>2. \A s \in Reviews :
          /\ moved[s] \in ReviewFrames /\ FrameOK(moved[s])
          /\ PastFill(review[s]) => PastFill(moved[s]) /\ moved[s].plan = review[s].plan
    <3> TAKE s \in Reviews
    <3>1. review[s] \in ReviewFrames /\ FrameOK(review[s])
      BY DEF IInv, TypeOK
    <3>2. moved[s].pc = (IF s = r THEN "contract" ELSE review[s].pc)
          /\ moved[s].plan = review[s].plan /\ moved[s].op = review[s].op
          /\ moved[s].answer = review[s].answer
          /\ moved[s] \in ReviewFrames
      BY <3>1 DEF ReviewFrames
    <3> HIDE DEF moved
    <3> QED
      BY <2>1, <3>1, <3>2 DEF FrameOK, PastFill, Writing
  <2>3. review' \in [Reviews -> ReviewFrames] /\ Forward
        /\ \A s \in Reviews : FrameOK(review[s])'
    BY <2>1, <2>2 DEF Forward, FrameOK, Accepted, Blocked
  <2> HIDE DEF moved
  <2>4. \A h \in Hooks : HookOK(h)'
    BY <2>1, <2>3, HookStays DEF IInv
  <2>5. \A l \in Launches : LaunchOK(l)'
    BY <2>1, LaunchStays DEF IInv
  <2>6. \A plan : Reviewed(plan) => Reviewed(plan)'
    BY <2>3, ReviewedStays
  <2>7. LockEarned(active)' /\ LockEarned(temp)'
    BY <2>1, <2>6 DEF IInv, LockEarned
  <2>8. TypeOK'
    BY <2>1, <2>3 DEF IInv, TypeOK
  <2>9. \A op \in Ops : (artifacts[op].contract # None => AcceptedContract(artifacts[op].contract))'
    BY <2>1 DEF IInv, AcceptedContract
  <2> QED
    BY <2>3, <2>4, <2>5, <2>7, <2>8, <2>9 DEF IInv
<1> QED
  BY <1>1, <1>2

LEMMA ClearActiveStep ==
  ASSUME IInv, ClearActive
  PROVE  IInv'
<1> DEFINE cleared == [r \in Reviews |->
             [review[r] EXCEPT !.handle = IF @ = "active" THEN None ELSE @]]
<1>1. /\ active' = None /\ review' = cleared /\ upsets < MaxUpsets /\ upsets' = upsets + 1
      /\ UNCHANGED << store, temp, artifacts, hook, launch, primary >>
  BY DEF ClearActive
<1>2. \A s \in Reviews :
        /\ cleared[s] \in ReviewFrames /\ FrameOK(cleared[s])
        /\ PastFill(review[s]) => PastFill(cleared[s]) /\ cleared[s].plan = review[s].plan
  <2> TAKE s \in Reviews
  <2>1. review[s] \in ReviewFrames /\ FrameOK(review[s])
    BY DEF IInv, TypeOK
  <2>2. cleared[s].pc = review[s].pc /\ cleared[s].plan = review[s].plan
        /\ cleared[s].op = review[s].op /\ cleared[s].answer = review[s].answer
        /\ cleared[s] \in ReviewFrames
    BY <2>1 DEF ReviewFrames
  <2> HIDE DEF cleared
  <2> QED
    BY <2>1, <2>2 DEF FrameOK, PastFill
<1>3. review' \in [Reviews -> ReviewFrames] /\ Forward
      /\ \A s \in Reviews : FrameOK(review[s])'
  BY <1>1, <1>2 DEF Forward, FrameOK, Accepted, Blocked
<1> HIDE DEF cleared
<1>4. \A h \in Hooks : HookOK(h)'
  BY <1>1, <1>3, HookStays DEF IInv
<1>5. \A l \in Launches : LaunchOK(l)'
  BY <1>1, LaunchStays DEF IInv
<1>6. \A plan : Reviewed(plan) => Reviewed(plan)'
  BY <1>3, ReviewedStays
<1>7. LockEarned(active)' /\ LockEarned(temp)'
  BY <1>1, <1>6 DEF IInv, LockEarned
<1>8. upsets' \in 0 .. MaxUpsets
  BY <1>1, GateAssumption DEF IInv, TypeOK
<1>9. TypeOK'
  BY <1>1, <1>3, <1>8 DEF IInv, TypeOK
<1>10. \A op \in Ops : (artifacts[op].contract # None => AcceptedContract(artifacts[op].contract))'
  BY <1>1 DEF IInv, AcceptedContract
<1> QED
  BY <1>3, <1>4, <1>5, <1>7, <1>9, <1>10 DEF IInv

LEMMA ReviewSteps ==
  ASSUME IInv, NEW r \in Reviews, OpenOperation(r) \/ ReviewStep(r) \/ CrashReview(r)
  PROVE  IInv'
BY OpenOperationStep, CreateOperationStep, StartOperationStep, BlockOperationStep,
   CheckActiveStep, OpenTempStep, FillTempStep, ReplaceActiveStep, PersistContractStep,
   PersistLockStep, CompleteOperationStep, CrashReviewStep
   DEF ReviewStep

------------------------------------------------------------------------------
(* The steps of a hook. *)

(* What a step of a hook keeps whose frame has something behind it.        *)
LEMMA HookMoves ==
  ASSUME IInv, NEW h \in Hooks, NEW frame \in HookFrames, SetHook(h, frame),
         frame.pc \in { "idle", "evaluate", "audit" } => frame.answer = None,
         frame.pc \in { "evaluate", "audit" } => frame.call \in Calls,
         (/\ (frame.pc = "audit" /\ frame.decision = "allow") \/ frame.answer = "allow"
          /\ IsMutationAttempt(frame.call.tool)) => Approved(frame),
         UNCHANGED << store, active, temp, artifacts, review >>,
         launch' \in [Launches -> LaunchFrames], \A l \in Launches : LaunchOK(l)',
         primary' \in Trees, upsets' \in 0 .. MaxUpsets
  PROVE  IInv'
<1>1. /\ hook' \in [Hooks -> HookFrames]
      /\ \A g \in Hooks : hook'[g] = IF g = h THEN frame ELSE hook[g]
  BY DEF IInv, TypeOK, SetHook
<1>2. \A plan : Reviewed(plan)' <=> Reviewed(plan)
  BY DEF Reviewed
<1>3. \A g \in Hooks : HookOK(g)'
  <2> TAKE g \in Hooks
  <2>1. HookOK(g)
    BY DEF IInv
  <2>2. \A f \in HookFrames : Approved(f) => Approved(f)'
    BY <1>2 DEF Approved
  <2>3. hook[g] \in HookFrames
    BY DEF IInv, TypeOK
  <2> QED
    BY <1>1, <2>1, <2>2, <2>3 DEF HookOK
<1>4. LockEarned(active)' /\ LockEarned(temp)'
  BY <1>2 DEF IInv, LockEarned
<1>5. TypeOK'
  BY <1>1 DEF IInv, TypeOK
<1>6. \A r \in Reviews : FrameOK(review[r])'
  BY DEF IInv, FrameOK, Accepted, Blocked
<1>7. \A op \in Ops : (artifacts[op].contract # None => AcceptedContract(artifacts[op].contract))'
  BY DEF IInv, AcceptedContract
<1> QED
  BY <1>1, <1>3, <1>4, <1>5, <1>6, <1>7 DEF IInv

LEMMA ReadPayloadStep ==
  ASSUME IInv, NEW h \in Hooks, ReadPayload(h)
  PROVE  IInv'
<1>1. PICK call \in Calls :
        SetHook(h, IF call.tool = "malformed"
                   THEN [NoHook EXCEPT !.pc = "done", !.answer = "deny"]
                   ELSE [NoHook EXCEPT !.pc = "evaluate", !.call = call])
  BY DEF ReadPayload
<1> DEFINE frame == IF call.tool = "malformed"
                    THEN [NoHook EXCEPT !.pc = "done", !.answer = "deny"]
                    ELSE [NoHook EXCEPT !.pc = "evaluate", !.call = call]
<1>2. None # "allow"
  BY GateAssumption
<1>3. /\ frame \in HookFrames /\ frame.answer # "allow" /\ frame.pc # "audit"
      /\ frame.pc \in { "idle", "evaluate", "audit" } => frame.answer = None
      /\ frame.pc \in { "evaluate", "audit" } => frame.call \in Calls
  <2>1. CASE call.tool = "malformed"
    <3>1. frame = [pc |-> "done", call |-> None, decision |-> None, reason |-> None, answer |-> "deny"]
      BY <2>1 DEF NoHook
    <3> QED
      BY <3>1 DEF HookFrames
  <2>2. CASE call.tool # "malformed"
    <3>1. frame = [pc |-> "evaluate", call |-> call, decision |-> None, reason |-> None, answer |-> None]
      BY <2>2 DEF NoHook
    <3> QED
      BY <1>2, <3>1 DEF HookFrames
  <2> QED
    BY <2>1, <2>2
<1>4. \A l \in Launches : LaunchOK(l)'
  BY LaunchStays DEF IInv, ReadPayload
<1>5. SetHook(h, frame)
  BY <1>1
<1> HIDE DEF frame
<1> QED
  BY <1>3, <1>4, <1>5, HookMoves DEF ReadPayload, IInv, TypeOK

(* What the slices of a file authorize, its locked slices allow.           *)
LEMMA SlicesAllow ==
  ASSUME NEW file \in SliceFiles, NEW targets, CheckSliceAuthority(file.slices, targets)
  PROVE  Sliced(targets)
<1>1. \A path \in targets : \E slice \in SlicesOf(file) :
        slice.locked /\ InsideAny(path, slice.allowed)
  BY DEF CheckSliceAuthority, SlicesOf
<1> QED
  BY <1>1 DEF Sliced

(* A mutation is allowed only from a file with slices or from a whole      *)
(* active state file, which is that of an accepted plan that some review   *)
(* has written.                                                            *)
LEMMA AllowedIsApproved ==
  ASSUME IInv, NEW frame \in HookFrames, frame.call \in Calls, frame.reason = Reason,
         IsMutationAttempt(frame.call.tool), Evaluate(frame.call) = "allow"
  PROVE  Approved(frame)
<1> DEFINE targets == RequestedTargets(frame.call)
<1>1. /\ targets # {} /\ active \notin { None, Torn } /\ Authorized(targets)
  BY DEF Evaluate
<1>2. CASE active \in SliceFiles
  <2>1. frame.reason = "slices" /\ Sliced(targets)
    BY <1>1, <1>2, SlicesAllow DEF Authorized, Reason
  <2> QED
    BY <1>1, <2>1 DEF Approved
<1>3. CASE active \notin SliceFiles
  <2>1. PICK op \in Ops, plan \in Plans :
          Accepted(plan) /\ Reviewed(plan) /\ active = Envelope(op, plan)
    BY <1>1, <1>3 DEF IInv, LockEarned
  <2>2. PlanOf(active.contract) = Content[plan]
    BY <2>1 DEF Envelope, Contract, PlanOf
  <2>3. TargetsAuthorized(targets, PlanOf(active.contract)) /\ frame.reason # "slices"
    BY <1>1, <1>3 DEF Authorized, Reason
  <2>4. targets \subseteq Path
    BY GateAssumption DEF RequestedTargets
  <2>5. \A path \in targets : Touchable(Content[plan], path)
    <3> TAKE path \in targets
    <3>1. /\ InsideAny(path, Content[plan].allowed) /\ InsideAny(path, Content[plan].targets)
          /\ ~InsideAny(path, Content[plan].prohibited)
      BY <2>2, <2>3 DEF TargetsAuthorized, CheckPathsAllowed
    <3> QED
      BY <2>4, <3>1, AllowedIsTouchable
  <2> QED
    BY <1>1, <2>1, <2>3, <2>5 DEF Approved
<1> QED
  BY <1>2, <1>3

LEMMA EvaluateHookStep ==
  ASSUME IInv, NEW h \in Hooks, EvaluateHook(h)
  PROVE  IInv'
<1> DEFINE frame == [hook[h] EXCEPT !.pc = "audit", !.decision = Evaluate(hook[h].call),
                                    !.reason = Reason]
<1>1. /\ hook[h].pc = "evaluate" /\ SetHook(h, frame)
      /\ UNCHANGED << store, active, temp, artifacts, review, launch, primary, upsets >>
  BY DEF EvaluateHook
<1>2. /\ hook[h] \in HookFrames /\ hook[h].call \in Calls /\ hook[h].answer = None
  BY <1>1 DEF IInv, TypeOK, HookOK
<1>3. Evaluate(hook[h].call) \in { "allow", "deny", "error" } /\ Reason \in { "slices", "contract" }
  BY DEF Evaluate, Reason
<1>4. /\ frame \in HookFrames /\ frame.pc = "audit" /\ frame.call = hook[h].call
      /\ frame.answer = None /\ frame.decision = Evaluate(hook[h].call) /\ frame.reason = Reason
  BY <1>2, <1>3 DEF HookFrames
<1>5. None # "allow"
  BY GateAssumption
<1>6. \A l \in Launches : LaunchOK(l)'
  BY <1>1, LaunchStays DEF IInv
<1> HIDE DEF frame
<1>7. (/\ (frame.pc = "audit" /\ frame.decision = "allow") \/ frame.answer = "allow"
       /\ IsMutationAttempt(frame.call.tool)) => Approved(frame)
  BY <1>2, <1>4, <1>5, AllowedIsApproved
<1> QED
  BY <1>1, <1>2, <1>4, <1>6, <1>7, HookMoves DEF IInv, TypeOK

LEMMA AuditSteps ==
  ASSUME IInv, NEW h \in Hooks, AuditAndEmit(h) \/ AuditFails(h)
  PROVE  IInv'
<1>1. PICK frame \in { [hook[h] EXCEPT !.pc = "done", !.answer = "allow"],
                        [NoHook EXCEPT !.pc = "done", !.answer = "deny"] } :
        /\ SetHook(h, frame) /\ hook[h].pc = "audit"
        /\ frame.answer = "allow" => /\ hook[h].decision = "allow"
                                     /\ frame.call = hook[h].call /\ frame.reason = hook[h].reason
        /\ UNCHANGED << store, active, temp, artifacts, review, launch, primary >>
        /\ upsets' \in 0 .. MaxUpsets
  BY GateAssumption DEF AuditAndEmit, AuditFails, IInv, TypeOK, NoHook, HookFrames
<1>2. hook[h] \in HookFrames /\ HookOK(h)
  BY DEF IInv, TypeOK
<1>3. frame \in HookFrames /\ frame.pc = "done"
  BY <1>1, <1>2 DEF HookFrames, NoHook
<1>4. frame.answer = "allow" /\ IsMutationAttempt(frame.call.tool) => Approved(frame)
  BY <1>1, <1>2 DEF HookOK, Approved
<1>5. \A l \in Launches : LaunchOK(l)'
  BY <1>1, LaunchStays DEF IInv
<1> QED
  BY <1>1, <1>3, <1>4, <1>5, HookMoves DEF IInv, TypeOK

(* An edit marks the launches that it disturbs. *)
LEMMA EditedOK ==
  ASSUME IInv, NEW l \in Launches, NEW tree \in Trees
  PROVE  /\ Edited(launch[l], tree) \in LaunchFrames
         /\ FrameOfLaunchOK(Edited(launch[l], tree), tree)
<1> DEFINE frame == launch[l]   new == Edited(frame, tree)
<1>1. frame \in LaunchFrames /\ FrameOfLaunchOK(frame, primary)
  BY DEF IInv, TypeOK, LaunchOK
<1>2. /\ new \in LaunchFrames
      /\ new.pc = frame.pc /\ new.contract = frame.contract /\ new.op = frame.op
      /\ new.verdict = frame.verdict /\ new.after = frame.after /\ new.checks = frame.checks
      /\ new.primary_before = frame.primary_before /\ new.primary_after = frame.primary_after
      /\ new.edited = IF frame.pc \in Reading THEN tree # frame.primary_before ELSE frame.edited
  <2> DEFINE mark == IF frame.pc \in Reading THEN tree # frame.primary_before ELSE frame.edited
  <2>1. mark \in BOOLEAN /\ new = [frame EXCEPT !.edited = mark]
    BY <1>1 DEF Edited, LaunchFrames
  <2> HIDE DEF mark, frame, new
  <2>2. new.edited = mark
    BY <1>1, <2>1 DEF LaunchFrames
  <2> QED
    BY <1>1, <2>1, <2>2 DEF LaunchFrames, mark
<1> HIDE DEF frame, new
<1>3. new.verdict = "proven" => new.pc = "done" /\ Proven(new)
  BY <1>1, <1>2 DEF FrameOfLaunchOK, Proven, Reading
<1> QED
  BY <1>1, <1>2, <1>3 DEF FrameOfLaunchOK, Reading, Admitted, new, frame

LEMMA HostEditsStep ==
  ASSUME IInv, NEW h \in Hooks, HostEdits(h)
  PROVE  IInv'
<1> DEFINE frame == [hook[h] EXCEPT !.pc = "edited"]
<1>1. PICK tree \in Trees :
        /\ hook[h].pc = "done" /\ SetHook(h, frame) /\ primary' = tree
        /\ launch' = [l \in Launches |-> Edited(launch[l], tree)]
        /\ UNCHANGED << store, active, temp, artifacts, review, upsets >>
  BY DEF HostEdits
<1>2. hook[h] \in HookFrames /\ HookOK(h)
  BY DEF IInv, TypeOK
<1>3. /\ frame \in HookFrames /\ frame.pc = "edited" /\ frame.call = hook[h].call
      /\ frame.answer = hook[h].answer /\ frame.reason = hook[h].reason
  BY <1>2 DEF HookFrames
<1>4. frame.answer = "allow" /\ IsMutationAttempt(frame.call.tool) => Approved(frame)
  BY <1>2, <1>3 DEF HookOK, Approved
<1> HIDE DEF frame
<1>5. \A l \in Launches : launch'[l] \in LaunchFrames /\ LaunchOK(l)'
  BY <1>1, EditedOK DEF LaunchOK
<1>6. launch' \in [Launches -> LaunchFrames]
  BY <1>1, <1>5
<1> QED
  BY <1>1, <1>3, <1>4, <1>5, <1>6, HookMoves DEF IInv, TypeOK

------------------------------------------------------------------------------
(* The steps of a launch. *)

LEMMA LaunchesMove ==
  ASSUME IInv, launch' \in [Launches -> LaunchFrames], \A l \in Launches : LaunchOK(l)',
         primary' \in Trees,
         UNCHANGED << store, active, temp, artifacts, review, hook, upsets >>
  PROVE  IInv'
<1>3. \A h \in Hooks : HookOK(h)'
  BY HookStays DEF IInv, Forward
<1>4. LockEarned(active)' /\ LockEarned(temp)'
  BY DEF IInv, LockEarned, Reviewed
<1>5. TypeOK'
  BY DEF IInv, TypeOK
<1>6. \A r \in Reviews : FrameOK(review[r])'
  BY DEF IInv, FrameOK, Accepted, Blocked
<1>7. \A op \in Ops : (artifacts[op].contract # None => AcceptedContract(artifacts[op].contract))'
  BY DEF IInv, AcceptedContract
<1> QED
  BY <1>3, <1>4, <1>5, <1>6, <1>7 DEF IInv

LEMMA LaunchMoves ==
  ASSUME IInv, NEW l \in Launches, NEW frame \in LaunchFrames, SetLaunch(l, frame),
         FrameOfLaunchOK(frame, primary),
         UNCHANGED << store, active, temp, artifacts, review, hook, primary, upsets >>
  PROVE  IInv'
<1>1. /\ launch' \in [Launches -> LaunchFrames]
      /\ \A k \in Launches : launch'[k] = IF k = l THEN frame ELSE launch[k]
  BY DEF IInv, TypeOK, SetLaunch
<1>2. \A k \in Launches : LaunchOK(k)'
  BY <1>1 DEF IInv, LaunchOK
<1> QED
  BY <1>1, <1>2, LaunchesMove DEF IInv, TypeOK

(* A launch that ends without being proven. *)
LEMMA NotProvenMoves ==
  ASSUME IInv, NEW l \in Launches, NEW frame, NEW verdict,
         verdict \in { "raised", "not_admitted", "launch_failed", "contradicted", "unproven" },
         SetLaunch(l, Judged(frame, verdict)),
         UNCHANGED << store, active, temp, artifacts, review, hook, primary, upsets >>
  PROVE  IInv'
<1> DEFINE end == [NoLaunch EXCEPT !.pc = "done", !.verdict = verdict]
<1>1. Judged(frame, verdict) = end
  BY DEF Judged
<1>2. end \in LaunchFrames /\ end.pc = "done" /\ end.verdict # "proven"
  BY DEF NoLaunch, LaunchFrames
<1> HIDE DEF end
<1>3. FrameOfLaunchOK(end, primary)
  BY <1>2 DEF FrameOfLaunchOK, Reading, Admitted
<1> QED
  BY <1>1, <1>2, <1>3, LaunchMoves

LEMMA AdmitStep ==
  ASSUME IInv, NEW l \in Launches, Admit(l)
  PROVE  IInv'
<1>1. PICK op \in Ops, same \in BOOLEAN :
        LET files == artifacts[op]   frame == [NoLaunch EXCEPT !.op = op]
        IN  /\ launch[l].pc = "idle" /\ files.contract # None
            /\ SetLaunch(l, IF files.lock = None THEN Judged(frame, "raised")
                            ELSE IF Admissible(files, same)
                            THEN [frame EXCEPT !.pc = "admitted", !.contract = files.contract]
                            ELSE Judged(frame, "not_admitted"))
            /\ UNCHANGED << store, active, temp, artifacts, review, hook, primary, upsets >>
  BY DEF Admit
<1> DEFINE base == [NoLaunch EXCEPT !.op = op]
           frame == [base EXCEPT !.pc = "admitted", !.contract = artifacts[op].contract]
<1>2. CASE SetLaunch(l, Judged(base, "raised")) \/ SetLaunch(l, Judged(base, "not_admitted"))
  <2> HIDE DEF base
  <2> QED
    BY <1>1, <1>2, NotProvenMoves
<1>3. CASE SetLaunch(l, frame)
  <2>1. artifacts[op].contract \in Contracts /\ AcceptedContract(artifacts[op].contract)
    BY <1>1 DEF IInv, TypeOK, FilesOfAnOperation
  <2>2. /\ frame \in LaunchFrames /\ frame.pc = "admitted" /\ ~frame.edited
        /\ frame.contract = artifacts[op].contract /\ frame.verdict = None /\ frame.op = op
    BY <2>1 DEF NoLaunch, LaunchFrames
  <2>3. None # "proven"
    BY GateAssumption
  <2> HIDE DEF frame
  <2>4. FrameOfLaunchOK(frame, primary)
    BY <2>1, <2>2, <2>3 DEF FrameOfLaunchOK, Reading
  <2> QED
    BY <1>1, <1>3, <2>2, <2>4, LaunchMoves
<1> QED
  BY <1>1, <1>2, <1>3

(* A launch goes on to a frame that has still to be judged. *)
LEMMA FrameGoesOn ==
  ASSUME NEW old, NEW new, FrameOfLaunchOK(old, primary), old.pc \in Admitted,
         new.op = old.op, new.contract = old.contract, new.verdict = old.verdict,
         new.edited = old.edited,
         \/ old.pc = "admitted" /\ new.pc = "based"
         \/ /\ old.pc \in Reading /\ new.pc \in Reading
            /\ new.primary_before = old.primary_before
         \/ /\ old.pc \in Reading /\ new.pc = "judge"
            /\ new.primary_before = old.primary_before /\ new.primary_after = primary
  PROVE  FrameOfLaunchOK(new, primary)
<1>1. new.verdict = None /\ None # "proven"
  BY GateAssumption DEF FrameOfLaunchOK, Admitted, Reading
<1> QED
  BY <1>1 DEF FrameOfLaunchOK, Admitted, Reading

LEMMA ReadPrimaryStep ==
  ASSUME IInv, NEW l \in Launches, ReadPrimary(l)
  PROVE  IInv'
<1> DEFINE frame == [launch[l] EXCEPT !.pc = "based", !.primary_before = primary]
<1>1. /\ launch[l] \in LaunchFrames /\ FrameOfLaunchOK(launch[l], primary) /\ primary \in Trees
      /\ launch[l].pc = "admitted" /\ SetLaunch(l, frame)
  BY DEF IInv, TypeOK, LaunchOK, ReadPrimary
<1>2. /\ frame \in LaunchFrames /\ frame.pc = "based" /\ frame.op = launch[l].op
      /\ frame.contract = launch[l].contract /\ frame.verdict = launch[l].verdict
      /\ frame.edited = launch[l].edited
  BY <1>1 DEF LaunchFrames
<1> HIDE DEF frame
<1>3. FrameOfLaunchOK(frame, primary)
  BY <1>1, <1>2, FrameGoesOn DEF Admitted
<1> QED
  BY <1>1, <1>2, <1>3, LaunchMoves DEF ReadPrimary

LEMMA CreateWorkspaceStep ==
  ASSUME IInv, NEW l \in Launches, CreateWorkspace(l)
  PROVE  IInv'
<1> DEFINE frame == [launch[l] EXCEPT !.pc = "worker", !.base = artifacts[launch[l].op]]
<1>1. /\ launch[l].pc = "based"
      /\ SetLaunch(l, frame) \/ SetLaunch(l, Judged(launch[l], "launch_failed"))
      /\ UNCHANGED << store, active, temp, artifacts, review, hook, primary, upsets >>
  BY DEF CreateWorkspace
<1>2. CASE SetLaunch(l, Judged(launch[l], "launch_failed"))
  BY <1>1, <1>2, NotProvenMoves
<1>3. CASE SetLaunch(l, frame)
  <2>1. /\ launch[l] \in LaunchFrames /\ FrameOfLaunchOK(launch[l], primary)
        /\ launch[l].op \in Ops
    BY <1>1 DEF IInv, TypeOK, LaunchOK, FrameOfLaunchOK, Admitted, Reading
  <2>2. artifacts[launch[l].op] \in FilesOfAnOperation
    BY <2>1 DEF IInv, TypeOK
  <2> DEFINE files == artifacts[launch[l].op]
  <2> HIDE DEF files
  <2>3. frame = [launch[l] EXCEPT !.pc = "worker", !.base = files] /\ files \in FilesOfAnOperation
    BY <2>2 DEF files
  <2> HIDE DEF frame
  <2>4. frame \in LaunchFrames
    BY ZenonT(60), <2>1, <2>3 DEF LaunchFrames
  <2>5. /\ frame.pc = "worker" /\ frame.op = launch[l].op
        /\ frame.contract = launch[l].contract /\ frame.verdict = launch[l].verdict
        /\ frame.edited = launch[l].edited /\ frame.primary_before = launch[l].primary_before
    BY ZenonT(60), <2>1, <2>3 DEF LaunchFrames
  <2>6. FrameOfLaunchOK(frame, primary)
    BY <1>1, <2>1, <2>5, FrameGoesOn DEF Admitted, Reading
  <2> QED
    BY <1>1, <1>3, <2>4, <2>6, LaunchMoves
<1> QED
  BY <1>1, <1>2, <1>3

(* The worker's command may edit the primary repository, under launches    *)
(* that have read its tree.                                                *)
LEMMA RunWorkerStep ==
  ASSUME IInv, NEW l \in Launches, RunWorker(l)
  PROVE  IInv'
<1>1. PICK after \in Afters, outcome \in { "ends", "error" }, tree \in Trees :
        /\ launch[l].pc = "worker" /\ primary' = tree
        /\ launch' = [k \in Launches |->
             IF k = l THEN [Edited(launch[l], tree) EXCEPT !.pc = "validate", !.after = after,
                                                           !.worker = outcome]
             ELSE Edited(launch[k], tree)]
        /\ UNCHANGED << store, active, temp, artifacts, review, hook, upsets >>
  BY DEF RunWorker
<1> DEFINE old == Edited(launch[l], tree)
           frame == [old EXCEPT !.pc = "validate", !.after = after, !.worker = outcome]
<1>2. \A k \in Launches : Edited(launch[k], tree) \in LaunchFrames
                           /\ FrameOfLaunchOK(Edited(launch[k], tree), primary')
  BY <1>1, EditedOK
<1>3. launch[l] \in LaunchFrames
  BY DEF IInv, TypeOK
<1>4. old \in LaunchFrames /\ old.pc = "worker" /\ FrameOfLaunchOK(old, primary')
  BY <1>1, <1>2, <1>3 DEF Edited, LaunchFrames
<1> HIDE DEF old
<1>5. frame \in LaunchFrames
  BY ZenonT(60), <1>4 DEF LaunchFrames
<1>6. /\ frame.pc = "validate" /\ frame.op = old.op
      /\ frame.contract = old.contract /\ frame.verdict = old.verdict
      /\ frame.edited = old.edited /\ frame.primary_before = old.primary_before
  BY ZenonT(60), <1>4 DEF LaunchFrames
<1> HIDE DEF frame
<1>7. FrameOfLaunchOK(frame, primary')
  <2>1. frame.verdict = None /\ None # "proven"
    BY <1>4, <1>6, GateAssumption DEF FrameOfLaunchOK
  <2> QED
    BY <1>4, <1>6, <2>1 DEF FrameOfLaunchOK, Admitted, Reading
<1>8. launch' = [k \in Launches |-> IF k = l THEN frame ELSE Edited(launch[k], tree)]
  BY <1>1 DEF frame, old
<1>9. launch' \in [Launches -> LaunchFrames] /\ \A k \in Launches : LaunchOK(k)'
  BY <1>2, <1>5, <1>7, <1>8 DEF LaunchOK
<1> QED
  BY <1>1, <1>9, LaunchesMove

LEMMA ValidateStep ==
  ASSUME IInv, NEW l \in Launches, Validate(l)
  PROVE  IInv'
<1>1. PICK checks \in Validations(PlanOf(launch[l].contract)) :
        SetLaunch(l, [launch[l] EXCEPT !.pc = "judge", !.checks = checks,
                                       !.primary_after = primary])
  BY DEF Validate
<1> DEFINE frame == [launch[l] EXCEPT !.pc = "judge", !.checks = checks,
                                      !.primary_after = primary]
<1>2. /\ launch[l] \in LaunchFrames /\ FrameOfLaunchOK(launch[l], primary) /\ primary \in Trees
      /\ launch[l].pc = "validate"
  BY DEF IInv, TypeOK, LaunchOK, Validate
<1>3. checks \in SUBSET { "missing", "failed" }
  BY DEF Validations
<1>4. /\ frame \in LaunchFrames /\ frame.pc = "judge" /\ frame.op = launch[l].op
      /\ frame.contract = launch[l].contract /\ frame.verdict = launch[l].verdict
      /\ frame.edited = launch[l].edited /\ frame.primary_after = primary
      /\ frame.primary_before = launch[l].primary_before
  BY <1>2, <1>3 DEF LaunchFrames
<1>5. SetLaunch(l, frame)
  BY <1>1
<1> HIDE DEF frame
<1>6. FrameOfLaunchOK(frame, primary)
  BY <1>2, <1>4, FrameGoesOn DEF Admitted, Reading
<1> QED
  BY <1>4, <1>5, <1>6, LaunchMoves DEF Validate

LEMMA EveryChangeIsListed ==
  ASSUME NEW after, NEW f \in Files, after[f] # Before[f]
  PROVE  \E change \in Changes(after) : change.path = f
<1>1. [path |-> f, kind |-> Kind(after, f)] \in Changes(after)
  BY DEF Changes
<1> QED
  BY <1>1

(* A launch is proven only without a violation, and without an edit that   *)
(* its second reading of the primary repository found.                     *)
LEMMA JudgeStep ==
  ASSUME IInv, NEW l \in Launches, Judge(l)
  PROVE  IInv'
<1> DEFINE f == launch[l]
           bad == \/ Violations(Changes(f.after), PlanOf(f.contract)) # {}
                  \/ f.base # artifacts[f.op]
                  \/ f.primary_before # f.primary_after
                  \/ "failed" \in f.checks
           verdict == Verdict(f, bad)
<1>1. /\ f.pc = "judge" /\ SetLaunch(l, Judged(f, verdict))
      /\ UNCHANGED << store, active, temp, artifacts, review, hook, primary, upsets >>
  BY DEF Judge
<1>2. f \in LaunchFrames /\ FrameOfLaunchOK(f, primary)
  BY DEF IInv, TypeOK, LaunchOK
<1>3. /\ verdict \in { "launch_failed", "contradicted", "unproven", "proven" }
      /\ verdict = "proven" => ~bad /\ f.checks = {}
  <2> HIDE DEF f, bad
  <2> QED
    BY DEF Verdict
<1>4. CASE verdict # "proven"
  <2> HIDE DEF f, verdict
  <2> QED
    BY <1>1, <1>3, <1>4, NotProvenMoves
<1>5. CASE verdict = "proven"
  <2> DEFINE frame == [f EXCEPT !.pc = "done", !.verdict = verdict]
  <2>1. SetLaunch(l, frame)
    BY <1>1, <1>5 DEF Judged
  <2>2. /\ Violations(Changes(f.after), PlanOf(f.contract)) = {}
        /\ f.primary_before = f.primary_after /\ f.checks = {}
    BY <1>3, <1>5
  <2>3. ~f.edited
    BY <1>1, <1>2, <2>2 DEF FrameOfLaunchOK
  <2>4. PICK plan \in Plans : Accepted(plan) /\ f.contract = Contract(plan)
    BY <1>1, <1>2 DEF FrameOfLaunchOK, Admitted, AcceptedContract
  <2>5. PlanOf(f.contract) = Content[plan]
    BY <2>4 DEF Contract, PlanOf
  <2> HIDE DEF f, verdict
  <2>6. /\ frame \in LaunchFrames /\ frame.pc = "done" /\ frame.contract = f.contract
        /\ frame.after = f.after /\ frame.edited = f.edited /\ frame.checks = f.checks
    BY <1>2, <1>5 DEF LaunchFrames
  <2>7. \A g \in Files : f.after[g] # Before[g] => Touchable(Content[plan], g)
    <3> SUFFICES ASSUME NEW g \in Files, f.after[g] # Before[g]
                 PROVE  Touchable(Content[plan], g)
      OBVIOUS
    <3>1. PICK change \in Changes(f.after) : change.path = g
      BY EveryChangeIsListed
    <3>2. CheckPathsAllowed({ g }, Content[plan].allowed, Content[plan].prohibited)
          /\ InsideAny(g, Content[plan].targets)
      BY <2>2, <2>5, <3>1 DEF Violations
    <3> QED
      BY <3>2, GateAssumption, AllowedIsTouchable DEF CheckPathsAllowed
  <2>8. Proven(frame)
    BY <2>2, <2>3, <2>4, <2>5, <2>6, <2>7, AcceptedIsSound DEF Proven
  <2> HIDE DEF frame
  <2>9. FrameOfLaunchOK(frame, primary)
    BY <2>6, <2>8 DEF FrameOfLaunchOK, Admitted, Reading
  <2> QED
    BY <1>1, <2>1, <2>6, <2>9, LaunchMoves
<1> QED
  BY <1>4, <1>5

------------------------------------------------------------------------------
LEMMA InitOK == Init => IInv
<1> SUFFICES ASSUME Init PROVE IInv
  OBVIOUS
<1> USE GateAssumption DEF Init
<1>1. TypeOK
  BY DEF TypeOK, FilesOfAnOperation, NoReview, ReviewFrames, NoHook, HookFrames, NoLaunch,
         LaunchFrames
<1>2. \A r \in Reviews : FrameOK(review[r])
  BY DEF FrameOK, NoReview, Writing
<1>3. LockEarned(active) /\ LockEarned(temp)
  BY DEF LockEarned
<1>4. \A h \in Hooks : HookOK(h)
  BY DEF HookOK, NoHook
<1>5. \A op \in Ops : artifacts[op].contract # None => AcceptedContract(artifacts[op].contract)
  OBVIOUS
<1>6. \A l \in Launches : LaunchOK(l)
  BY DEF LaunchOK, FrameOfLaunchOK, NoLaunch, Admitted, Reading
<1> QED
  BY <1>1, <1>2, <1>3, <1>4, <1>5, <1>6 DEF IInv

LEMMA StutterOK ==
  ASSUME IInv, UNCHANGED vars
  PROVE  IInv'
<1> USE DEF vars
<1>1. TypeOK'
  BY DEF IInv, TypeOK
<1>2. LockEarned(active)' /\ LockEarned(temp)'
  BY DEF IInv, LockEarned, Reviewed
<1>3. \A r \in Reviews : FrameOK(review[r])'
  BY DEF IInv, FrameOK, Accepted, Blocked
<1>4. \A h \in Hooks : HookOK(h)'
  BY HookStays DEF IInv, Forward
<1>5. \A l \in Launches : LaunchOK(l)'
  BY LaunchStays DEF IInv
<1>6. \A op \in Ops : (artifacts[op].contract # None => AcceptedContract(artifacts[op].contract))'
  BY DEF IInv, AcceptedContract
<1> QED
  BY <1>1, <1>2, <1>3, <1>4, <1>5, <1>6 DEF IInv

LEMMA StepOK == IInv /\ [Next]_vars => IInv'
<1> SUFFICES ASSUME IInv, [Next]_vars PROVE IInv'
  OBVIOUS
<1>1. CASE \E r \in Reviews : OpenOperation(r) \/ ReviewStep(r) \/ CrashReview(r)
  BY <1>1, ReviewSteps
<1>2. CASE \E h \in Hooks : ReadPayload(h) \/ HookStep(h) \/ HostEdits(h)
  BY <1>2, ReadPayloadStep, EvaluateHookStep, AuditSteps, HostEditsStep DEF HookStep
<1>3. CASE \E l \in Launches : Admit(l) \/ LaunchStep(l)
  BY <1>3, AdmitStep, ReadPrimaryStep, CreateWorkspaceStep, RunWorkerStep, ValidateStep,
     JudgeStep DEF LaunchStep
<1>4. CASE ClearActive
  BY <1>4, ClearActiveStep
<1>5. CASE UNCHANGED vars
  BY <1>5, StutterOK
<1> QED
  BY <1>1, <1>2, <1>3, <1>4, <1>5 DEF Next

LEMMA Invariance == Spec => []IInv
BY InitOK, StepOK, PTL DEF Spec

(* Every file of the gate holds a whole value or is torn, and every frame  *)
(* is one of a process: for any plans, paths, calls and processes.         *)
THEOREM TypeCorrect == Spec => []TypeOK
<1>1. IInv => TypeOK
  BY DEF IInv
<1> QED
  BY <1>1, Invariance, PTL

(* write_active_state, through a temporary file that reviews share: a      *)
(* whole active state file is the lock of a plan without a gap.            *)
THEOREM ActiveLockIsEarned == Spec => []LockIsEarned
<1>1. ASSUME IInv PROVE LockIsEarned
  <2> SUFFICES ASSUME active \notin { None, Torn } \cup SliceFiles
               PROVE  Sound(PlanOf(active.contract)) /\ active.lock.payload = active.contract.body
    BY DEF LockIsEarned
  <2>1. PICK op \in Ops, plan \in Plans : Accepted(plan) /\ active = Envelope(op, plan)
    BY <1>1 DEF IInv, LockEarned
  <2>2. PlanOf(active.contract) = Content[plan] /\ active.lock.payload = active.contract.body
    BY <2>1 DEF Envelope, AcceptForPrimary, Contract, PlanOf
  <2> QED
    BY <2>1, <2>2, AcceptedIsSound
<1> QED
  BY <1>1, Invariance, PTL

(* evaluate_hook_payload: every target that the hook reads from a call it  *)
(* allows is approved, by a locked slice or by a review.                   *)
THEOREM HookAllowsReviewed == Spec => []AllowedIsReviewed
<1>1. ASSUME IInv PROVE AllowedIsReviewed
  <2> SUFFICES ASSUME NEW h \in Hooks, hook[h].answer = "allow",
                      IsMutationAttempt(hook[h].call.tool)
               PROVE  LET targets == RequestedTargets(hook[h].call)
                      IN  /\ targets # {}
                          /\ hook[h].reason = "slices" => Sliced(targets)
                          /\ hook[h].reason # "slices" => \E r \in Reviews :
                               /\ PastFill(review[r]) /\ Sound(Content[review[r].plan])
                               /\ \A path \in targets : Touchable(Content[review[r].plan], path)
    BY DEF AllowedIsReviewed, PastFill, Sliced, SlicesOf
  <2>1. Approved(hook[h])
    BY <1>1 DEF IInv, HookOK
  <2> QED
    BY <2>1, AcceptedIsSound DEF Approved, Reviewed
<1> QED
  BY <1>1, Invariance, PTL

(* launch_execution: a proven launch changed only what a sound plan lets   *)
(* it touch, and its two readings of the primary repository agree whoever  *)
(* edited that in between.                                                 *)
THEOREM LaunchProvenIsEarned == Spec => []ProvenIsEarned
<1>1. IInv => ProvenIsEarned
  BY DEF IInv, LaunchOK, FrameOfLaunchOK, Proven, ProvenIsEarned
<1> QED
  BY <1>1, Invariance, PTL

------------------------------------------------------------------------------
(* The lifecycle of a review. *)
Points == { "new", "resolve", "authorize", "snapshot", "guard", "mark", "wait",
            "finish", "persist", "unmark", "ended", "dead" }
Stages == { "gap_finding", "gap_fixing", "evaluation", "success_criteria", "fixture_design" }
Outcomes == { "improved", "unresolved_gap", "error" }
Markers == [run : Runs, sub : Submissions \cup { Null }, fresh : BOOLEAN]
Threads == [at : { "none", "call", "write", "done" }, attempt : 0 .. 2, copy : Markers \cup { Null }]
RunResults == [run : Runs, sub : Submissions \cup { Null },
            status : Outcomes \cup { "skip", "corrupt", Null }, revision : Nat \cup { Null }]

(* Every variable has its shape; a progress write has a marker to write. *)
ShapeOK ==
  /\ results \in Seq(RunResults)
  /\ marker \in Markers \cup { Null }
  /\ pc \in [Runs -> Points]
  /\ sub \in [Runs -> Submissions \cup { Null }]
  /\ revision \in [Runs -> Nat \cup { Null }]
  /\ stage \in [Runs -> Stages]
  /\ cycle \in [Runs -> { Null, 0, 1 }]
  /\ out \in [Runs -> Outcomes \cup { Null }]
  /\ thread \in [Runs -> Threads]
  /\ \A r \in Runs : thread[r].at = "write" => thread[r].copy \in Markers
  /\ trace \in [Runs -> Seq(Stages \X { "ok", "fixed", "passed", "failed" })]
  /\ runs \in Nat /\ faults \in Nat

------------------------------------------------------------------------------
(* The invariant *)

Found    == << "gap_finding", "ok" >>
Fixed    == << "gap_fixing", "fixed" >>
Failed   == << "evaluation", "failed" >>
Passed   == << "evaluation", "passed" >>
Criteria == << "success_criteria", "ok" >>
Designed == << "fixture_design", "ok" >>

Repaired(k)  == IF k = 0 THEN << Found, Fixed >> ELSE << Found, Fixed, Failed, Fixed >>
Evaluated(k) == Append(Repaired(k), Passed)
Concluded(k)    == Append(Evaluated(k), Criteria)
Complete     == { Append(Concluded(0), Designed), Append(Concluded(1), Designed) }

(* The answers taken when a run comes to stage s, repaired k times. *)
UpTo(s, k) ==
  CASE s = "gap_finding"      -> << >>
    [] s = "gap_fixing"       -> IF k = 0 THEN << Found >> ELSE << Found, Fixed, Failed >>
    [] s = "evaluation"       -> Repaired(k)
    [] s = "success_criteria" -> Evaluated(k)
    [] s = "fixture_design"   -> Concluded(k)

Unstarted == { "new", "resolve", "authorize", "snapshot", "guard", "mark" }
Closing   == { "finish", "persist", "unmark" }
Settled   == Closing \cup { "ended", "dead" }

(* Where the trace of a run must be, given where the run is. *)
TraceFits(r) ==
  /\ pc[r] \in Unstarted => trace[r] = << >> /\ stage[r] = "gap_finding"
  /\ pc[r] = "wait" =>
       /\ cycle[r] \in { 0, 1 } /\ (stage[r] = "gap_finding" => cycle[r] = 0)
       /\ trace[r] = UpTo(stage[r], cycle[r])
  /\ pc[r] \in Closing /\ out[r] = "improved" => trace[r] \in Complete

(* Run q improved submission s, and nothing about it changes any more. *)
Improved(q, s) == q \in Runs /\ pc[q] \in Settled /\ trace[q] \in Complete /\ sub[q] = s

TracesFit    == \A r \in Runs : TraceFits(r)
ResultsFit   == \A i \in DOMAIN results :
                  results[i].status = "improved" => Improved(results[i].run, results[i].sub)
AnswersFit   == \A a \in answers : a.status = "improved" => Improved(a.run, a.sub)
PipelineInv  == TracesFit /\ ResultsFit /\ AnswersFit

(* An error about to be persisted or answered has its issue. *)
IssueInv ==
  /\ ErrorHasIssue
  /\ \A r \in Runs : pc[r] \in { "persist", "unmark" } /\ out[r] = "error" => r \in issues

(* Without faults and timeouts, a thread works only while its run waits    *)
(* for it, and a marker belongs to some run that will remove it.           *)
MarkerInv ==
  faults = 0 /\ ~ timedOut =>
    /\ \A r \in Runs : thread[r].at # "none" => pc[r] = "wait"
    /\ \A r \in Runs : pc[r] = "wait" => cycle[r] # Null
    /\ marker # Null => \E r \in Runs : cycle[r] # Null /\ pc[r] \in { "wait" } \cup Closing

RunInv == ShapeOK /\ PipelineInv /\ IssueInv /\ MarkerInv

------------------------------------------------------------------------------
(* Shapes *)

LEMMA InitTyped == LifecycleInit => ShapeOK
<1> SUFFICES ASSUME LifecycleInit PROVE ShapeOK
  OBVIOUS
<1>1. NoThread \in Threads /\ NoThread.at # "write"
  BY DEF NoThread, Threads
<1>2. \A r \in Runs : trace[r] = << >> /\ << >> \in Seq(Stages \X { "ok", "fixed", "passed", "failed" })
  BY DEF LifecycleInit
<1> QED
  BY <1>1, <1>2 DEF LifecycleInit, ShapeOK, Points, Stages, Outcomes, RunResults

(* The newest result is a result. *)
LEMMA NewestTyped ==
  ASSUME ShapeOK, results # << >>
  PROVE  Newest \in RunResults
  BY DEF ShapeOK, Newest

(* An answer leads to a status, or to a stage and is one that the trace takes. *)
LEMMA AnswerLeads ==
  ASSUME NEW s \in Stages, NEW k \in { Null, 0, 1 }, NEW a \in AnswersOf(s, k)
  PROVE  /\ After(s, k, a) \in Stages \cup Outcomes
         /\ After(s, k, a) \notin { "error", "unresolved_gap" } =>
              a \in { "ok", "fixed", "passed", "failed" }
<1>1. CASE s = "gap_fixing"
  <2>1. a \in { "fixed", "unresolved", "failure", "same" }
    <3>1. AnswersOf(s, k) = { "fixed", "unresolved", "failure" } \cup (IF k = 1 THEN { "same" } ELSE {})
      BY <1>1 DEF AnswersOf
    <3> QED
      BY <3>1
  <2> QED
    BY <1>1, <2>1 DEF Stages, Outcomes, After, Unresolved
<1>2. CASE s = "evaluation"
  BY <1>2 DEF Stages, Outcomes, AnswersOf, After
<1>3. CASE s \in { "gap_finding", "success_criteria", "fixture_design" }
  BY <1>3 DEF Stages, Outcomes, AnswersOf, After
<1> QED
  BY <1>1, <1>2, <1>3 DEF Stages

(* Each step of a run keeps the shapes. *)
LEMMA MainTyped ==
  ASSUME ShapeOK, NEW r \in Runs, Main(r)
  PROVE  ShapeOK'
<1> USE DEF ShapeOK, Points, Stages, Outcomes, RunResults, Markers, Threads,
            disk, session, history, Step, Reply, Outcome
<1>1. CASE ResolveCorrupt(r)
  BY <1>1 DEF ResolveCorrupt, Newest
<1>2. CASE Replay(r)
  BY <1>2 DEF Replay, Newest
<1>3. CASE ResolveNew(r)
  <2>1. NextRevision(sub[r]) \in Nat
    BY NewestTyped DEF NextRevision, Newest
  <2> QED
    BY <1>3, <2>1 DEF ResolveNew
<1>4. CASE NoWorker(r) \/ LiveCheckFails(r)
  <2>1. NotAdmitted(r)
    BY <1>4 DEF NoWorker, LiveCheckFails
  <2> QED
    BY <2>1 DEF NotAdmitted
<1>5. CASE LiveCheck(r)
  BY <1>5 DEF LiveCheck
<1>6. CASE RunProbe(r)
  BY <1>6 DEF RunProbe
<1>7. CASE PersistSnapshot(r)
  BY <1>7 DEF PersistSnapshot
<1>8. CASE GuardActive(r)
  BY <1>8 DEF GuardActive
<1>9. CASE GuardFree(r)
  BY <1>9 DEF GuardFree
<1>10. CASE Mark(r)
  BY <1>10 DEF Mark, Started
<1>11. CASE \E a \in AnswersOf(stage[r], cycle[r]) : TakeAnswer(r, a)
  <2>1. PICK a \in AnswersOf(stage[r], cycle[r]) : TakeAnswer(r, a)
    BY <1>11
  <2> DEFINE next == After(stage[r], cycle[r], a)
  <2>2. /\ next \in Stages \cup Outcomes
        /\ next \notin { "error", "unresolved_gap" } => a \in { "ok", "fixed", "passed", "failed" }
    <3>1. stage[r] \in Stages /\ cycle[r] \in { Null, 0, 1 }
      OBVIOUS
    <3> QED
      BY ONLY <2>1, <3>1, AnswerLeads DEF next
  <2>3. NoThread \in Threads /\ Started \in Threads /\ NoThread.at # "write" /\ Started.at # "write"
    BY DEF NoThread, Started
  <2> HIDE DEF next
  <2>4. trace' \in [Runs -> Seq(Stages \X { "ok", "fixed", "passed", "failed" })]
    BY <2>1, <2>2 DEF TakeAnswer, next
  <2>5. CASE next \in Outcomes
    <3>1. /\ pc' = [pc EXCEPT ![r] = "finish"] /\ out' = [out EXCEPT ![r] = next]
          /\ thread' = [thread EXCEPT ![r] = NoThread] /\ UNCHANGED << stage, cycle >>
      BY <2>1, <2>5 DEF TakeAnswer, next
    <3> QED
      BY <2>1, <2>3, <2>4, <2>5, <3>1 DEF TakeAnswer, next
  <2>6. CASE next \notin Outcomes
    <3>1. next \in Stages
      BY <2>2, <2>6
    <3>2. /\ stage' = [stage EXCEPT ![r] = next] /\ thread' = [thread EXCEPT ![r] = Started]
          /\ cycle' = [cycle EXCEPT ![r] = IF a = "failed" THEN 1 ELSE @]
      BY <2>1, <2>6 DEF TakeAnswer, next
    <3> QED
      BY <2>1, <2>3, <2>4, <2>6, <3>1, <3>2 DEF TakeAnswer, next
  <2> QED
    BY <2>5, <2>6
<1>12. CASE StageTimeout(r)
  BY <1>12 DEF StageTimeout
<1>13. CASE RecordIssue(r)
  BY <1>13 DEF RecordIssue
<1>14. CASE PersistResult(r)
  BY <1>14 DEF PersistResult
<1>15. CASE Unmark(r)
  BY <1>15 DEF Unmark
<1> QED
  BY <1>1, <1>2, <1>3, <1>4, <1>5, <1>6, <1>7, <1>8, <1>9, <1>10, <1>11, <1>12, <1>13, <1>14, <1>15 DEF Main

LEMMA EndAttemptTyped ==
  ASSUME ShapeOK, NEW r \in Runs, EndAttempt(r)
  PROVE  /\ thread' \in [Runs -> Threads]
         /\ \A q \in Runs : thread'[q].at = "write" => thread'[q].copy \in Markers
<1>1. /\ NoThread \in Threads /\ [NoThread EXCEPT !.at = "done"] \in Threads
      /\ [Started EXCEPT !.attempt = 2] \in Threads
      /\ NoThread.at # "write" /\ [NoThread EXCEPT !.at = "done"].at # "write"
      /\ [Started EXCEPT !.attempt = 2].at # "write"
  BY DEF NoThread, Started, Threads
<1> QED
  BY ZenonT(60), <1>1 DEF EndAttempt, ShapeOK

(* Each step of a stage's thread keeps the shapes. *)
LEMMA ThreadTyped ==
  ASSUME ShapeOK, NEW r \in Runs, StageThread(r)
  PROVE  ShapeOK'
<1>1. CASE CallEndsUnmarked(r)
  BY <1>1, EndAttemptTyped DEF CallEndsUnmarked, ShapeOK, session, history
<1>2. CASE CallEnds(r)
  <2>1. [thread[r] EXCEPT !.at = "write", !.copy = marker] \in Threads
    BY <1>2 DEF CallEnds, ShapeOK, Threads
  <2>2. thread' = [thread EXCEPT ![r] = [thread[r] EXCEPT !.at = "write", !.copy = marker]]
    BY <1>2 DEF CallEnds, ShapeOK
  <2> QED
    BY <1>2, <2>1, <2>2 DEF CallEnds, ShapeOK, Threads, disk, session, history
<1>3. CASE ProgressWrite(r)
  <2>1. marker' \in Markers
    BY <1>3 DEF ProgressWrite, ShapeOK, Markers
  <2> QED
    BY <1>3, <2>1, EndAttemptTyped DEF ProgressWrite, ShapeOK, session, history
<1> QED
  BY <1>1, <1>2, <1>3 DEF StageThread

LEMMA DieTyped ==
  ASSUME ShapeOK, NEW dead \in SUBSET Runs, Die(dead),
         results' \in Seq(RunResults)
  PROVE  ShapeOK'
<1>1. NoThread \in Threads /\ NoThread.at # "write"
  BY DEF NoThread, Threads
<1>2. thread' \in [Runs -> Threads] /\ \A q \in Runs : thread'[q].at = "write" => thread'[q].copy \in Markers
  BY <1>1 DEF Die, ShapeOK
<1>3. pc' \in [Runs -> Points]
  BY DEF Die, ShapeOK, Points
<1> QED
  BY <1>2, <1>3 DEF Die, ShapeOK, session

LEMMA TypeStep ==
  ASSUME ShapeOK, [LifecycleNext]_lifecycleVars
  PROVE  ShapeOK'
<1>1. ASSUME NEW r \in Runs, NEW s \in Submissions, SubmitDraft(r, s)
      PROVE  ShapeOK'
  BY <1>1 DEF SubmitDraft, Step, ShapeOK, Points, RunResults
<1>2. ASSUME NEW r \in Runs, NEW s \in Submissions, Submit(r, s)
      PROVE  ShapeOK'
  BY <1>2 DEF Submit, Step, ShapeOK, Points, disk
<1>3. ASSUME NEW r \in Runs, Crash(r)
      PROVE  ShapeOK'
  BY <1>3, DieTyped DEF Crash, ShapeOK
<1>4. CASE Expire
  BY <1>4 DEF Expire, ShapeOK, Markers, session, history
<1>5. CASE PowerLoss
  <2>1. results' \in Seq(RunResults)
    <3> DEFINE n == Len(results)
    <3>1. n \in 1 .. Len(results) /\ results \in Seq(RunResults) /\ results[n] \in RunResults
      BY <1>5 DEF PowerLoss, ShapeOK
    <3>2. [results[n] EXCEPT !.status = "corrupt"] \in RunResults
      BY <3>1 DEF RunResults
    <3>3. results' = [results EXCEPT ![n] = [results[n] EXCEPT !.status = "corrupt"]]
      BY <1>5 DEF PowerLoss
    <3> QED
      BY <3>1, <3>2, <3>3
  <2> QED
    BY <1>5, <2>1, DieTyped DEF PowerLoss
<1>6. CASE UNCHANGED lifecycleVars
  BY <1>6 DEF lifecycleVars, disk, session, history, ShapeOK
<1> QED
  BY <1>1, <1>2, <1>3, <1>4, <1>5, <1>6, MainTyped, ThreadTyped DEF LifecycleNext

------------------------------------------------------------------------------
(* The pipeline *)

(* What the pipeline invariant says of run q is as it was. *)
Same(q) ==
  /\ pc'[q] = pc[q] /\ stage'[q] = stage[q] /\ cycle'[q] = cycle[q]
  /\ out'[q] = out[q] /\ trace'[q] = trace[q] /\ sub'[q] = sub[q]

(* A step of run r leaves the others alone, keeps the trace of r where it  *)
(* belongs, and keeps what is settled.                                     *)
Moves(r) ==
  /\ \A q \in Runs \ { r } : Same(q)
  /\ TraceFits(r)'
  /\ pc[r] \in Settled => pc'[r] \in Settled /\ trace'[r] = trace[r] /\ sub'[r] = sub[r]

(* The path through the pipeline, one answer further. *)
LEMMA PathGrows ==
  ASSUME NEW s \in Stages, NEW k \in { 0, 1 }, s = "gap_finding" => k = 0,
         NEW a \in AnswersOf(s, k), After(s, k, a) \notin { "error", "unresolved_gap" }
  PROVE  LET n == After(s, k, a)
             m == IF a = "failed" THEN 1 ELSE k
         IN  /\ n \in Stages => /\ n # "gap_finding"
                               /\ Append(UpTo(s, k), << s, a >>) = UpTo(n, m)
             /\ n = "improved" => Append(UpTo(s, k), << s, a >>) \in Complete
<1>0. Null # 0 /\ Null # 1
  BY ReviewAssumption
<1>1. CASE s = "gap_finding"
  <2>1. a = "ok" /\ k = 0
    BY <1>1 DEF AnswersOf, After
  <2>2. After(s, k, a) = "gap_fixing"
    BY <1>1, <2>1 DEF After
  <2> QED
    BY <1>1, <2>1, <2>2 DEF UpTo, Found
<1>2. CASE s = "gap_fixing"
  <2>1. a = "fixed" /\ After(s, k, a) = "evaluation"
    <3>1. AnswersOf(s, k) = { "fixed", "unresolved", "failure" } \cup (IF k = 1 THEN { "same" } ELSE {})
      BY <1>2 DEF AnswersOf
    <3>2. a # "failure"
      BY DEF After
    <3> QED
      BY <1>2, <3>1, <3>2 DEF After, Unresolved
  <2>2. CASE k = 0
    BY <1>2, <2>1, <2>2 DEF UpTo, Repaired, Found, Fixed
  <2>3. CASE k = 1
    BY <1>2, <2>1, <2>3 DEF UpTo, Repaired, Found, Fixed, Failed
  <2> QED
    BY <2>2, <2>3
<1>3. CASE s = "evaluation"
  <2>1. a \in { "passed", "failed" }
    BY <1>3 DEF AnswersOf, After
  <2>2. CASE a = "failed"
    <3>1. k = 0 /\ After(s, k, a) = "gap_fixing"
      BY <1>3, <2>2 DEF After
    <3> QED
      BY <1>3, <2>2, <3>1 DEF UpTo, Repaired, Found, Fixed, Failed
  <2>3. CASE a = "passed"
    <3>1. After(s, k, a) = "success_criteria"
      BY <1>3, <2>3 DEF After
    <3> QED
      BY <1>3, <2>3, <3>1 DEF UpTo, Evaluated, Passed
  <2> QED
    BY <2>1, <2>2, <2>3
<1>4. CASE s = "success_criteria"
  <2>1. a = "ok"
    BY <1>4 DEF AnswersOf, After
  <2>2. After(s, k, a) = "fixture_design"
    BY <1>4, <2>1 DEF After
  <2> QED
    BY <1>4, <2>1, <2>2 DEF UpTo, Concluded, Criteria
<1>5. CASE s = "fixture_design"
  <2>1. a = "ok"
    BY <1>5 DEF AnswersOf, After
  <2>2. After(s, k, a) = "improved" /\ "improved" \notin Stages
    BY <1>5, <2>1 DEF After, Stages
  <2>3. UpTo(s, k) = Concluded(k) /\ << s, a >> = Designed
    BY <1>5, <2>1 DEF UpTo, Designed
  <2> QED
    BY <2>2, <2>3 DEF Complete
<1> QED
  BY <1>1, <1>2, <1>3, <1>4, <1>5 DEF Stages

(* An answer taken is the next one of the path, or ends the run. *)
LEMMA TakeAnswerMoves ==
  ASSUME ShapeOK, PipelineInv, NEW r \in Runs,
         NEW a \in AnswersOf(stage[r], cycle[r]), TakeAnswer(r, a)
  PROVE  Moves(r)
<1> DEFINE next == After(stage[r], cycle[r], a)
<1>0. /\ stage[r] \in Stages /\ cycle[r] \in { 0, 1 } /\ (stage[r] = "gap_finding" => cycle[r] = 0)
      /\ trace[r] = UpTo(stage[r], cycle[r]) /\ pc[r] = "wait"
  BY DEF TakeAnswer, ShapeOK, PipelineInv, TracesFit, TraceFits
<1>1. pc[r] \notin Settled /\ trace' = [trace EXCEPT ![r] =
        IF next \in { "error", "unresolved_gap" } THEN << >> ELSE Append(@, << stage[r], a >>)]
  BY <1>0 DEF TakeAnswer, Settled, Closing
<1>2. \A q \in Runs \ { r } : Same(q)
  BY <1>1 DEF TakeAnswer, Same, ShapeOK, Outcome, Step
<1>3. next \in Stages \cup Outcomes
  BY <1>0, AnswerLeads DEF ShapeOK
<1>4. CASE next \in Outcomes
  <2>1. pc'[r] = "finish" /\ out'[r] = next
    BY <1>4 DEF TakeAnswer, Outcomes, Outcome, Step, ShapeOK
  <2>2. next = "improved" => trace'[r] \in Complete
    <3> SUFFICES ASSUME next = "improved" PROVE trace'[r] \in Complete
      OBVIOUS
    <3>1. Append(UpTo(stage[r], cycle[r]), << stage[r], a >>) \in Complete
      BY <1>0, PathGrows
    <3>2. trace'[r] = Append(trace[r], << stage[r], a >>)
      BY <1>1 DEF ShapeOK
    <3> QED
      BY <1>0, <3>1, <3>2
  <2> HIDE DEF next
  <2>3. TraceFits(r)'
    BY <2>1, <2>2 DEF TraceFits, Unstarted, Closing
  <2> QED
    BY <1>1, <1>2, <2>3 DEF Moves
<1>5. CASE next \notin Outcomes
  <2>1. /\ pc' = pc /\ stage' = [stage EXCEPT ![r] = next]
        /\ cycle' = [cycle EXCEPT ![r] = IF a = "failed" THEN 1 ELSE @]
    BY <1>5 DEF TakeAnswer, Outcomes
  <2>2. next \in Stages /\ next \notin { "error", "unresolved_gap" }
    BY <1>3, <1>5 DEF Outcomes
  <2>3. /\ next # "gap_finding"
        /\ Append(UpTo(stage[r], cycle[r]), << stage[r], a >>) =
             UpTo(next, IF a = "failed" THEN 1 ELSE cycle[r])
    BY <1>0, <2>2, PathGrows
  <2>4. trace'[r] = Append(trace[r], << stage[r], a >>)
    BY <1>1, <2>2 DEF ShapeOK
  <2>5. /\ pc'[r] = "wait" /\ stage'[r] = next
        /\ cycle'[r] = IF a = "failed" THEN 1 ELSE cycle[r]
    BY <1>0, <2>1 DEF ShapeOK
  <2> HIDE DEF next
  <2>6. TraceFits(r)'
    BY <1>0, <2>3, <2>4, <2>5 DEF TraceFits, Unstarted, Closing
  <2> QED
    BY <1>1, <1>2, <2>6 DEF Moves
<1> QED
  BY <1>4, <1>5

(* Every step of a run leads it along its path. *)
LEMMA MainMoves ==
  ASSUME ShapeOK, PipelineInv, NEW r \in Runs, Main(r)
  PROVE  Moves(r)
<1>0. TraceFits(r)
  BY DEF PipelineInv, TracesFit
<1> USE <1>0 DEF ShapeOK, TraceFits, Moves, Same, Unstarted, Closing, Settled, Step, Reply, Outcome,
                 disk, session, history
<1>1. CASE ResolveCorrupt(r) \/ Replay(r) \/ GuardActive(r) \/ Unmark(r)
  BY <1>1 DEF ResolveCorrupt, Replay, GuardActive, Unmark
<1>2. CASE ResolveNew(r) \/ LiveCheck(r) \/ GuardFree(r)
  BY <1>2 DEF ResolveNew, LiveCheck, GuardFree
<1>3. CASE NoWorker(r) \/ LiveCheckFails(r)
  BY <1>3 DEF NoWorker, LiveCheckFails, NotAdmitted
<1>4. CASE RunProbe(r)
  BY <1>4 DEF RunProbe
<1>5. CASE PersistSnapshot(r)
  BY <1>5 DEF PersistSnapshot
<1>6. CASE Mark(r)
  <2>1. UpTo("gap_finding", 0) = << >>
    BY DEF UpTo
  <2> QED
    BY <1>6, <2>1 DEF Mark
<1>7. CASE \E a \in AnswersOf(stage[r], cycle[r]) : TakeAnswer(r, a)
  BY ONLY <1>7, TakeAnswerMoves, ShapeOK, PipelineInv, r \in Runs
<1>8. CASE StageTimeout(r)
  BY <1>8 DEF StageTimeout
<1>9. CASE RecordIssue(r) \/ PersistResult(r)
  BY <1>9 DEF RecordIssue, PersistResult
<1> QED
  BY <1>1, <1>2, <1>3, <1>4, <1>5, <1>6, <1>7, <1>8, <1>9 DEF Main

(* What was improved stays so. *)
LEMMA ImprovedStays ==
  ASSUME NEW r \in Runs, Moves(r), NEW q, NEW s, Improved(q, s)
  PROVE  Improved(q, s)'
<1>1. CASE q = r
  BY <1>1 DEF Moves, Improved
<1>2. CASE q # r
  BY <1>2 DEF Moves, Same, Improved
<1> QED
  BY <1>1, <1>2

LEMMA TracesStay ==
  ASSUME TracesFit, NEW r \in Runs, Moves(r)
  PROVE  TracesFit'
<1> SUFFICES ASSUME NEW q \in Runs PROVE TraceFits(q)'
  BY DEF TracesFit
<1>1. CASE q = r
  BY <1>1 DEF Moves
<1>2. CASE q # r
  BY <1>2 DEF Moves, Same, TracesFit, TraceFits
<1> QED
  BY <1>1, <1>2

(* A step that adds neither results nor answers. *)
LEMMA NothingAdded ==
  ASSUME PipelineInv, NEW r \in Runs, Moves(r), UNCHANGED << results, answers >>
  PROVE  PipelineInv'
<1>1. TracesFit'
  BY TracesStay DEF PipelineInv
<1>2. ResultsFit'
  BY ImprovedStays DEF PipelineInv, ResultsFit
<1>3. AnswersFit'
  BY ImprovedStays DEF PipelineInv, AnswersFit
<1> QED
  BY <1>1, <1>2, <1>3 DEF PipelineInv

(* A step that answers with what a result or the run itself bears out. *)
LEMMA AnswerAdded ==
  ASSUME PipelineInv, NEW r \in Runs, Moves(r), UNCHANGED results, NEW of, NEW status,
         answers' = answers \cup { [sub |-> sub[r], run |-> of, status |-> status] },
         status = "improved" => Improved(of, sub[r])
  PROVE  PipelineInv'
<1>1. TracesFit'
  BY TracesStay DEF PipelineInv
<1>2. ResultsFit'
  BY ImprovedStays DEF PipelineInv, ResultsFit
<1>3. AnswersFit'
  BY ImprovedStays DEF PipelineInv, AnswersFit
<1> QED
  BY <1>1, <1>2, <1>3 DEF PipelineInv

(* A step that persists a result which the run bears out. *)
LEMMA ResultAdded ==
  ASSUME ShapeOK, PipelineInv, NEW r \in Runs, Moves(r), UNCHANGED answers, NEW x,
         results' = Append(results, x), x.status = "improved" => Improved(x.run, x.sub)
  PROVE  PipelineInv'
<1>1. TracesFit'
  BY TracesStay DEF PipelineInv
<1>2. ResultsFit'
  <2> SUFFICES ASSUME NEW i \in DOMAIN results', results'[i].status = "improved"
               PROVE  Improved(results[i].run, results[i].sub)'
    BY DEF ResultsFit
  <2>1. (i \in DOMAIN results /\ results'[i] = results[i]) \/ results'[i] = x
    BY DEF ShapeOK
  <2>2. Improved(results'[i].run, results'[i].sub)
    BY <2>1 DEF PipelineInv, ResultsFit
  <2> QED
    BY <2>2, ImprovedStays
<1>3. AnswersFit'
  BY ImprovedStays DEF PipelineInv, AnswersFit
<1> QED
  BY <1>1, <1>2, <1>3 DEF PipelineInv

(* The death of runs settles them. *)
LEMMA DieMoves ==
  ASSUME ShapeOK, TracesFit, NEW dead \in SUBSET Runs, Die(dead)
  PROVE  /\ TracesFit'
         /\ \A q, s : Improved(q, s) => Improved(q, s)'
<1> USE DEF Die, session, ShapeOK
<1>1. TracesFit'
  BY DEF TracesFit, TraceFits, Unstarted, Closing
<1>2. \A q, s : Improved(q, s) => Improved(q, s)'
  BY DEF Improved, Settled
<1> QED
  BY <1>1, <1>2

LEMMA PipelineMain ==
  ASSUME ShapeOK, PipelineInv, NEW r \in Runs, Main(r)
  PROVE  PipelineInv'
<1>0. Moves(r)
  BY MainMoves
<1>1. CASE ResolveCorrupt(r)
  BY <1>0, <1>1, AnswerAdded DEF ResolveCorrupt, Reply
<1>2. CASE Replay(r)
  <2>1. results # << >> /\ Newest = results[Len(results)] /\ Newest.sub = sub[r]
    BY <1>2, ReviewAssumption DEF Replay, Replayable, Newest
  <2>2. Newest.status = "improved" => Improved(Newest.run, sub[r])
    BY <2>1 DEF PipelineInv, ResultsFit, ShapeOK
  <2> QED
    BY <1>0, <1>2, <2>2, AnswerAdded DEF Replay, Reply, disk
<1>3. CASE GuardActive(r)
  BY <1>0, <1>3, AnswerAdded DEF GuardActive, Reply
<1>4. CASE Unmark(r)
  <2>1. pc[r] = "unmark"
    BY <1>4 DEF Unmark, Reply, Step
  <2>2. out[r] = "improved" => Improved(r, sub[r])
    BY <2>1 DEF PipelineInv, TracesFit, TraceFits, Improved, Settled, Closing
  <2> QED
    BY <1>0, <1>4, <2>2, AnswerAdded DEF Unmark, Reply
<1>5. CASE PersistResult(r)
  <2>1. pc[r] = "persist"
    BY <1>5 DEF PersistResult, Step
  <2>2. out[r] = "improved" => Improved(r, sub[r])
    BY <2>1 DEF PipelineInv, TracesFit, TraceFits, Improved, Settled, Closing
  <2> QED
    BY <1>0, <1>5, <2>2, ResultAdded DEF PersistResult, history
<1>6. CASE \/ ResolveNew(r) \/ NoWorker(r) \/ LiveCheck(r) \/ LiveCheckFails(r) \/ RunProbe(r)
           \/ PersistSnapshot(r) \/ GuardFree(r) \/ Mark(r)
           \/ (\E a \in AnswersOf(stage[r], cycle[r]) : TakeAnswer(r, a)) \/ StageTimeout(r)
           \/ RecordIssue(r)
  <2>1. UNCHANGED << results, answers >>
    BY <1>6 DEF ResolveNew, NoWorker, LiveCheck, LiveCheckFails, NotAdmitted, RunProbe, PersistSnapshot,
                GuardFree, Mark, TakeAnswer, StageTimeout, RecordIssue, disk, history
  <2> QED
    BY <1>0, <2>1, NothingAdded
<1> QED
  BY <1>1, <1>2, <1>3, <1>4, <1>5, <1>6 DEF Main

LEMMA PipelineStep ==
  ASSUME ShapeOK, PipelineInv, [LifecycleNext]_lifecycleVars
  PROVE  PipelineInv'
<1>1. ASSUME NEW r \in Runs, NEW s \in Submissions, SubmitDraft(r, s)
      PROVE  PipelineInv'
  <2>1. Moves(r)
    BY <1>1 DEF SubmitDraft, Step, Moves, Same, TraceFits, ShapeOK, Unstarted, Closing, Settled
  <2> QED
    BY <1>1, <2>1, ResultAdded DEF SubmitDraft
<1>2. ASSUME NEW r \in Runs, NEW s \in Submissions, Submit(r, s)
      PROVE  PipelineInv'
  <2>1. Moves(r)
    BY <1>2 DEF Submit, Step, Moves, Same, TraceFits, ShapeOK, Unstarted, Closing, Settled,
                PipelineInv, TracesFit
  <2> QED
    BY <1>2, <2>1, NothingAdded DEF Submit, disk
<1>3. ASSUME NEW r \in Runs, StageThread(r)
      PROVE  PipelineInv'
  BY <1>3 DEF StageThread, CallEnds, CallEndsUnmarked, ProgressWrite, disk, session, history,
              PipelineInv, TracesFit, TraceFits, ResultsFit, AnswersFit, Improved
<1>4. ASSUME NEW r \in Runs, Crash(r)
      PROVE  PipelineInv'
  <2>1. Die({ r }) /\ results' = results /\ answers' = answers
    BY <1>4 DEF Crash, Die
  <2> QED
    BY <2>1, DieMoves DEF PipelineInv, ResultsFit, AnswersFit
<1>5. CASE Expire
  BY <1>5 DEF Expire, session, history, PipelineInv, TracesFit, TraceFits, ResultsFit, AnswersFit, Improved
<1>6. CASE PowerLoss
  <2>1. \E dead \in SUBSET Runs : Die(dead)
    BY <1>6 DEF PowerLoss
  <2>2. answers' = answers /\ results' = [results EXCEPT ![Len(results)].status = "corrupt"]
    BY <1>6 DEF PowerLoss, Die
  <2>3. TracesFit' /\ \A q, s : Improved(q, s) => Improved(q, s)'
    BY <2>1, DieMoves DEF PipelineInv
  <2>4. ResultsFit'
    <3> SUFFICES ASSUME NEW i \in DOMAIN results', results'[i].status = "improved"
                 PROVE  Improved(results[i].run, results[i].sub)'
      BY DEF ResultsFit
    <3>1. i \in DOMAIN results /\ results[i] \in RunResults
      BY <2>2 DEF ShapeOK
    <3>2. i # Len(results)
      BY <2>2, <3>1 DEF RunResults
    <3>3. results'[i] = results[i]
      BY <2>2, <3>1, <3>2
    <3> QED
      BY <2>3, <3>1, <3>3 DEF PipelineInv, ResultsFit
  <2>5. AnswersFit'
    BY <2>2, <2>3 DEF PipelineInv, AnswersFit
  <2> QED
    BY <2>3, <2>4, <2>5 DEF PipelineInv
<1>7. CASE UNCHANGED lifecycleVars
  BY <1>7 DEF lifecycleVars, disk, session, history, PipelineInv, TracesFit, TraceFits, ResultsFit, AnswersFit, Improved
<1> QED
  BY <1>1, <1>2, <1>3, <1>4, <1>5, <1>6, <1>7, PipelineMain DEF LifecycleNext

------------------------------------------------------------------------------
(* Issues *)

LEMMA IssueMain ==
  ASSUME ShapeOK, IssueInv, NEW r \in Runs, Main(r)
  PROVE  IssueInv'
<1> USE DEF ShapeOK, IssueInv, ErrorHasIssue, Step, Reply, Outcome, disk, session, history
<1>1. CASE ResolveCorrupt(r)
  BY <1>1 DEF ResolveCorrupt
<1>2. CASE Replay(r)
  BY <1>2 DEF Replay, Replayable
<1>3. CASE GuardActive(r)
  BY <1>3 DEF GuardActive
<1>4. CASE Unmark(r)
  BY <1>4 DEF Unmark
<1>5. CASE RecordIssue(r)
  BY <1>5 DEF RecordIssue
<1>6. CASE PersistResult(r)
  <2>1. out[r] = "error" => r \in issues
    BY <1>6 DEF PersistResult
  <2>2. \A i \in DOMAIN results' : results'[i].status = "error" => results'[i].run \in issues
    <3> SUFFICES ASSUME NEW i \in DOMAIN results', results'[i].status = "error"
                 PROVE  results'[i].run \in issues
      OBVIOUS
    <3>1. \/ i \in DOMAIN results /\ results'[i] = results[i]
          \/ results'[i] = [run |-> r, sub |-> sub[r], status |-> out[r], revision |-> revision[r]]
      BY <1>6 DEF PersistResult
    <3> QED
      BY <2>1, <3>1
  <2> QED
    BY <1>6, <2>2 DEF PersistResult
<1>7. CASE ResolveNew(r) \/ LiveCheck(r) \/ GuardFree(r) \/ Mark(r)
  BY <1>7 DEF ResolveNew, LiveCheck, GuardFree, Mark
<1>8. CASE NoWorker(r) \/ LiveCheckFails(r)
  BY <1>8 DEF NoWorker, LiveCheckFails, NotAdmitted
<1>9. CASE RunProbe(r)
  BY <1>9 DEF RunProbe
<1>10. CASE PersistSnapshot(r)
  BY <1>10 DEF PersistSnapshot
<1>11. CASE StageTimeout(r)
  BY <1>11 DEF StageTimeout
<1>12. CASE \E a \in AnswersOf(stage[r], cycle[r]) : TakeAnswer(r, a)
  <2>1. PICK a \in AnswersOf(stage[r], cycle[r]) : TakeAnswer(r, a)
    BY <1>12
  <2>2. /\ UNCHANGED << results, issues, answers >> /\ pc'[r] \in { "wait", "finish" }
        /\ \A q \in Runs \ { r } : pc'[q] = pc[q] /\ out'[q] = out[q]
    BY <2>1 DEF TakeAnswer
  <2> QED
    BY <2>2
<1> QED
  BY <1>1, <1>2, <1>3, <1>4, <1>5, <1>6, <1>7, <1>8, <1>9, <1>10, <1>11, <1>12 DEF Main

LEMMA IssueStep ==
  ASSUME ShapeOK, IssueInv, [LifecycleNext]_lifecycleVars
  PROVE  IssueInv'
<1> USE DEF IssueInv, ErrorHasIssue
<1>1. ASSUME NEW r \in Runs, NEW s \in Submissions, SubmitDraft(r, s)
      PROVE  IssueInv'
  <2>1. \A i \in DOMAIN results' : results'[i].status = "error" => i \in DOMAIN results /\ results'[i] = results[i]
    BY <1>1 DEF SubmitDraft, ShapeOK
  <2> QED
    BY <1>1, <2>1 DEF SubmitDraft, Step, ShapeOK
<1>2. ASSUME NEW r \in Runs, NEW s \in Submissions, Submit(r, s)
      PROVE  IssueInv'
  BY <1>2 DEF Submit, Step, ShapeOK, disk
<1>3. ASSUME NEW r \in Runs, StageThread(r)
      PROVE  IssueInv'
  BY <1>3 DEF StageThread, CallEnds, CallEndsUnmarked, ProgressWrite, disk, session, history
<1>4. ASSUME NEW r \in Runs, Crash(r)
      PROVE  IssueInv'
  BY <1>4 DEF Crash, Die, session, ShapeOK
<1>5. CASE Expire
  BY <1>5 DEF Expire, session, history
<1>6. CASE PowerLoss
  <2>1. \A i \in DOMAIN results' : results'[i].status = "error" => i \in DOMAIN results /\ results'[i] = results[i]
    <3> SUFFICES ASSUME NEW i \in DOMAIN results', results'[i].status = "error"
                 PROVE  i \in DOMAIN results /\ results'[i] = results[i]
      OBVIOUS
    <3>1. i \in DOMAIN results /\ results[i] \in RunResults
      BY <1>6 DEF PowerLoss, ShapeOK
    <3>2. i # Len(results)
      BY <1>6, <3>1 DEF PowerLoss, RunResults
    <3> QED
      BY <1>6, <3>1, <3>2 DEF PowerLoss
  <2> QED
    BY <1>6, <2>1 DEF PowerLoss, Die, session, ShapeOK
<1>7. CASE UNCHANGED lifecycleVars
  BY <1>7 DEF lifecycleVars, disk, session, history
<1> QED
  BY <1>1, <1>2, <1>3, <1>4, <1>5, <1>6, <1>7, IssueMain DEF LifecycleNext

------------------------------------------------------------------------------
(* Markers *)

(* A run that removes a marker is under way as long as there is one. *)
LEMMA MarkerMain ==
  ASSUME ShapeOK, MarkerInv, NEW r \in Runs, Main(r)
  PROVE  MarkerInv'
<1> USE DEF ShapeOK, MarkerInv, Step, Reply, Outcome, Closing, disk, session, history
<1>1. CASE ResolveCorrupt(r) \/ Replay(r) \/ GuardActive(r)
  BY <1>1 DEF ResolveCorrupt, Replay, GuardActive
<1>2. CASE ResolveNew(r) \/ LiveCheck(r) \/ GuardFree(r)
  BY <1>2 DEF ResolveNew, LiveCheck, GuardFree
<1>3. CASE NoWorker(r) \/ LiveCheckFails(r)
  BY <1>3 DEF NoWorker, LiveCheckFails, NotAdmitted
<1>4. CASE RunProbe(r)
  BY <1>4 DEF RunProbe
<1>5. CASE PersistSnapshot(r)
  BY <1>5 DEF PersistSnapshot
<1>6. CASE Mark(r)
  <2>1. cycle'[r] # Null /\ pc'[r] = "wait"
    BY <1>6, ReviewAssumption DEF Mark
  <2> QED
    BY <1>6, <2>1 DEF Mark
<1>7. CASE \E a \in AnswersOf(stage[r], cycle[r]) : TakeAnswer(r, a)
  <2>1. PICK a \in AnswersOf(stage[r], cycle[r]) : TakeAnswer(r, a)
    BY <1>7
  <2>2. /\ UNCHANGED << marker, faults, timedOut >>
        /\ \A q \in Runs \ { r } : pc'[q] = pc[q] /\ cycle'[q] = cycle[q] /\ thread'[q] = thread[q]
        /\ pc[r] = "wait"
    BY <2>1 DEF TakeAnswer
  <2>3. /\ pc'[r] \in { "wait", "finish" } /\ cycle'[r] \in { cycle[r], 1 }
        /\ thread'[r].at # "none" => pc'[r] = "wait"
    BY <2>1 DEF TakeAnswer, NoThread
  <2>4. Null # 1
    BY ReviewAssumption
  <2> QED
    BY <2>2, <2>3, <2>4
<1>8. CASE StageTimeout(r)
  BY <1>8 DEF StageTimeout
<1>9. CASE RecordIssue(r) \/ PersistResult(r)
  BY <1>9 DEF RecordIssue, PersistResult
<1>10. CASE Unmark(r)
  BY <1>10 DEF Unmark
<1> QED
  BY <1>1, <1>2, <1>3, <1>4, <1>5, <1>6, <1>7, <1>8, <1>9, <1>10 DEF Main

LEMMA MarkerStep ==
  ASSUME ShapeOK, MarkerInv, [LifecycleNext]_lifecycleVars
  PROVE  MarkerInv'
<1> USE DEF MarkerInv, Closing
<1>1. ASSUME NEW r \in Runs, NEW s \in Submissions, SubmitDraft(r, s) \/ Submit(r, s)
      PROVE  MarkerInv'
  BY <1>1 DEF SubmitDraft, Submit, Step, ShapeOK, disk
<1>2. ASSUME NEW r \in Runs, StageThread(r)
      PROVE  MarkerInv'
  <2>1. /\ UNCHANGED << pc, cycle, faults, timedOut >> /\ thread[r].at # "none"
        /\ \A q \in Runs \ { r } : thread'[q] = thread[q]
    BY <1>2 DEF StageThread, CallEnds, CallEndsUnmarked, ProgressWrite, EndAttempt, session, history, ShapeOK
  <2> QED
    BY <2>1
<1>3. ASSUME NEW r \in Runs, Crash(r)
      PROVE  MarkerInv'
  BY <1>3 DEF Crash, Die, ShapeOK
<1>4. CASE Expire
  BY <1>4 DEF Expire, session, history
<1>5. CASE PowerLoss
  BY <1>5 DEF PowerLoss, Die, ShapeOK
<1>6. CASE UNCHANGED lifecycleVars
  BY <1>6 DEF lifecycleVars, disk, session, history
<1> QED
  BY <1>1, <1>2, <1>3, <1>4, <1>5, <1>6, MarkerMain DEF LifecycleNext

------------------------------------------------------------------------------
(* Theorems *)

LEMMA InitInv == LifecycleInit => RunInv
<1> SUFFICES ASSUME LifecycleInit PROVE RunInv
  OBVIOUS
<1>1. PipelineInv
  BY DEF LifecycleInit, PipelineInv, TracesFit, TraceFits, ResultsFit, AnswersFit, Unstarted, Closing
<1>2. IssueInv
  BY DEF LifecycleInit, IssueInv, ErrorHasIssue
<1>3. MarkerInv
  BY DEF LifecycleInit, MarkerInv, NoThread
<1> QED
  BY <1>1, <1>2, <1>3, InitTyped DEF RunInv

LEMMA StepInv == RunInv /\ [LifecycleNext]_lifecycleVars => RunInv'
  BY TypeStep, PipelineStep, IssueStep, MarkerStep DEF RunInv

LEMMA Inductive == LifecycleSpec => []RunInv
  BY InitInv, StepInv, PTL DEF LifecycleSpec

(* The answers of the two complete traces. *)
LEMMA CompleteTraces ==
  ASSUME NEW t \in Complete
  PROVE  \/ /\ Len(t) = 5 /\ DOMAIN t = 1 .. 5
            /\ t[1] = Found /\ t[2] = Fixed /\ t[3] = Passed /\ t[4] = Criteria /\ t[5] = Designed
         \/ /\ Len(t) = 7 /\ DOMAIN t = 1 .. 7
            /\ t[1] = Found /\ t[2] = Fixed /\ t[3] = Failed /\ t[4] = Fixed
            /\ t[5] = Passed /\ t[6] = Criteria /\ t[7] = Designed
<1> DEFINE Pairs == { Found, Fixed, Failed, Passed, Criteria, Designed }
<1>1. ASSUME NEW s \in Seq(Pairs), NEW e \in Pairs
      PROVE  /\ Append(s, e) \in Seq(Pairs) /\ Len(Append(s, e)) = Len(s) + 1
             /\ Append(s, e)[Len(s) + 1] = e
             /\ \A i \in 1 .. Len(s) : Append(s, e)[i] = s[i]
  OBVIOUS
<1>2. ASSUME NEW s \in Seq(Pairs), NEW n \in Nat, Len(s) = n
      PROVE  LET u == Append(Append(Append(s, Passed), Criteria), Designed)
             IN  /\ u \in Seq(Pairs) /\ Len(u) = n + 3
                 /\ u[n + 1] = Passed /\ u[n + 2] = Criteria /\ u[n + 3] = Designed
                 /\ \A i \in 1 .. n : u[i] = s[i]
  <2> DEFINE v == Append(s, Passed)
             w == Append(v, Criteria)
             u == Append(w, Designed)
  <2>1. /\ v \in Seq(Pairs) /\ Len(v) = n + 1 /\ v[n + 1] = Passed /\ \A i \in 1 .. n : v[i] = s[i]
    BY <1>1, <1>2
  <2> HIDE DEF v
  <2>2. /\ w \in Seq(Pairs) /\ Len(w) = n + 2 /\ w[n + 2] = Criteria /\ \A i \in 1 .. n + 1 : w[i] = v[i]
    BY <1>1, <2>1
  <2> HIDE DEF w
  <2>3. /\ u \in Seq(Pairs) /\ Len(u) = n + 3 /\ u[n + 3] = Designed /\ \A i \in 1 .. n + 2 : u[i] = w[i]
    BY <1>1, <2>2
  <2> HIDE DEF u
  <2>4. /\ u \in Seq(Pairs) /\ Len(u) = n + 3
        /\ u[n + 1] = Passed /\ u[n + 2] = Criteria /\ u[n + 3] = Designed
        /\ \A i \in 1 .. n : u[i] = s[i]
    BY <2>1, <2>2, <2>3
  <2> QED
    BY <2>4 DEF u, v, w
<1>3. CASE t = Append(Concluded(0), Designed)
  <2>1. /\ Repaired(0) \in Seq(Pairs) /\ Len(Repaired(0)) = 2
        /\ Repaired(0)[1] = Found /\ Repaired(0)[2] = Fixed
    BY DEF Repaired
  <2>2. /\ t \in Seq(Pairs) /\ Len(t) = 2 + 3
        /\ t[2 + 1] = Passed /\ t[2 + 2] = Criteria /\ t[2 + 3] = Designed
        /\ \A i \in 1 .. 2 : t[i] = Repaired(0)[i]
    BY <1>2, <1>3, <2>1 DEF Concluded, Evaluated
  <2> QED
    BY <2>1, <2>2
<1>4. CASE t = Append(Concluded(1), Designed)
  <2>1. /\ Repaired(1) \in Seq(Pairs) /\ Len(Repaired(1)) = 4
        /\ Repaired(1)[1] = Found /\ Repaired(1)[2] = Fixed
        /\ Repaired(1)[3] = Failed /\ Repaired(1)[4] = Fixed
    BY DEF Repaired
  <2>2. /\ t \in Seq(Pairs) /\ Len(t) = 4 + 3
        /\ t[4 + 1] = Passed /\ t[4 + 2] = Criteria /\ t[4 + 3] = Designed
        /\ \A i \in 1 .. 4 : t[i] = Repaired(1)[i]
    BY SMTT(30), <1>2, <1>4, <2>1 DEF Concluded, Evaluated
  <2> QED
    BY <2>1, <2>2
<1> QED
  BY <1>3, <1>4 DEF Complete

(* A complete trace is that of a run that earned its status. *)
LEMMA CompleteIsEarned ==
  ASSUME NEW r, trace[r] \in Complete
  PROVE  Earned(r)
<1> DEFINE t == trace[r]
           fixes == AnswersIn(r, "gap_fixing")
<1>1. CASE /\ Len(t) = 5 /\ DOMAIN t = 1 .. 5
           /\ t[1] = Found /\ t[2] = Fixed /\ t[3] = Passed /\ t[4] = Criteria /\ t[5] = Designed
  <2>1. /\ t[1][1] = "gap_finding" /\ t[2][1] = "gap_fixing" /\ t[2][2] = "fixed"
        /\ t[3][1] = "evaluation" /\ t[3][2] = "passed"
        /\ t[4][1] = "success_criteria" /\ t[5][1] = "fixture_design"
    BY <1>1 DEF Found, Fixed, Passed, Criteria, Designed
  <2>2. fixes = { 2 } /\ 1 \in AnswersIn(r, "gap_finding") /\ 3 \in AnswersIn(r, "evaluation")
        /\ 4 \in AnswersIn(r, "success_criteria") /\ 5 \in AnswersIn(r, "fixture_design")
    BY <1>1, <2>1 DEF AnswersIn
  <2>3. Cardinality(fixes) = 1
    BY <2>2, FS_Singleton
  <2> QED
    BY <2>1, <2>2, <2>3 DEF Earned
<1>2. CASE /\ Len(t) = 7 /\ DOMAIN t = 1 .. 7
           /\ t[1] = Found /\ t[2] = Fixed /\ t[3] = Failed /\ t[4] = Fixed
           /\ t[5] = Passed /\ t[6] = Criteria /\ t[7] = Designed
  <2>1. /\ t[1][1] = "gap_finding" /\ t[2][1] = "gap_fixing" /\ t[2][2] = "fixed"
        /\ t[3][1] = "evaluation" /\ t[4][1] = "gap_fixing" /\ t[4][2] = "fixed"
        /\ t[5][1] = "evaluation" /\ t[5][2] = "passed"
        /\ t[6][1] = "success_criteria" /\ t[7][1] = "fixture_design"
    BY <1>2 DEF Found, Fixed, Failed, Passed, Criteria, Designed
  <2>2. fixes = { 2, 4 } /\ 1 \in AnswersIn(r, "gap_finding") /\ 5 \in AnswersIn(r, "evaluation")
        /\ 6 \in AnswersIn(r, "success_criteria") /\ 7 \in AnswersIn(r, "fixture_design")
    BY <1>2, <2>1 DEF AnswersIn
  <2>3. Cardinality(fixes) = 2
    <3>1. IsFiniteSet({ 2 }) /\ Cardinality({ 2 }) = 1
      BY FS_Singleton
    <3>2. Cardinality({ 2 } \cup { 4 }) = IF 4 \in { 2 } THEN Cardinality({ 2 }) ELSE Cardinality({ 2 }) + 1
      BY <3>1, FS_AddElement
    <3>3. fixes = { 2 } \cup { 4 } /\ 4 \notin { 2 }
      BY <2>2
    <3> QED
      BY <3>1, <3>2, <3>3
  <2> QED
    BY <2>1, <2>2, <2>3 DEF Earned
<1> QED
  BY <1>1, <1>2, CompleteTraces

(* What is handed off as improved was earned by a run of that submission   *)
(* (run_artifact_lifecycle, _run_stage_pipeline, the replay).              *)
THEOREM ImprovementIsEarned == LifecycleSpec => []ImprovedIsEarned
<1>1. RunInv => ImprovedIsEarned
  BY CompleteIsEarned DEF RunInv, PipelineInv, AnswersFit, Improved, ImprovedIsEarned
<1> QED
  BY <1>1, Inductive, PTL

(* Every error has its root-cause issue, across crashes and power losses   *)
(* (finish, the guard of active runs, initialize_management_state).        *)
THEOREM ErrorsHaveIssues == LifecycleSpec => []ErrorHasIssue
<1>1. RunInv => ErrorHasIssue
  BY DEF RunInv, IssueInv
<1> QED
  BY <1>1, Inductive, PTL

(* When all is quiet no marker is left, as long as nothing failed or timed *)
(* out (Mark, update_active_progress, Unmark).                             *)
THEOREM MarkersAreCleared == LifecycleSpec => []MarkerIsCleared
<1>1. RunInv => MarkerIsCleared
  BY DEF RunInv, MarkerInv, MarkerIsCleared, Quiet, Closing
<1> QED
  BY <1>1, Inductive, PTL

(* The shapes of all variables. *)
THEOREM LifecycleIsTyped == LifecycleSpec => []ShapeOK
<1>1. RunInv => ShapeOK
  BY DEF RunInv
<1> QED
  BY <1>1, Inductive, PTL
==============================================================================
