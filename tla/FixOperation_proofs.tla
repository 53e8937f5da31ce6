------------------------- MODULE FixOperation_proofs --------------------------
(* Proofs about FixOperation, for any number of processes and threads, and *)
(* about what follows an accepted Fix: FixVerification, under the name FV,  *)
(* for any number of runners, operations and answers of the model.          *)
EXTENDS FixOperation, SequenceTheorems, FiniteSetTheorems, TLAPS

Shape ==
  /\ pc \in [Callers -> Places]
  /\ lock \in [Processes -> Callers \cup { None }]
  /\ handoff \in BOOLEAN

(* A thread in the dispatcher holds the lock of its process.               *)
HoldsLock == \A c \in Callers : InDispatch(c) => lock[Home[c]] = c

(* The handoff is written before the record that accepts.                  *)
HandoffFirst ==
  /\ \A c \in Callers : pc[c] = "record" => handoff = TRUE
  /\ fix = "accepted" => handoff = TRUE

IInv == Shape /\ HoldsLock /\ HandoffFirst

DispatchStep(c) ==
  \/ Acquire(c) \/ LoadExisting(c)
  \/ \E s \in Refusals : Refuse(c, s)
  \/ Skip(c) \/ Raise(c) \/ Ignite(c)
  \/ \E s \in ModelRefusals : ModelRefuses(c, s)
  \/ PersistHandoff(c) \/ Accept(c)

OtherStep(c) ==
  \/ \E r \in Request : Submit(c, r)
  \/ Reject(c) \/ CreateNew(c) \/ CreateExisting(c) \/ Create(c)
  \/ Start(c) \/ Block(c) \/ Authorize(c)
  \/ WorkerAnswers(c) \/ WorkerFails(c) \/ PersistArtifact(c)
  \/ BlockUntyped(c) \/ ReconstructFix(c)
  \/ Complete(c) \/ Fail(c)

LEMMA NextSplit ==
  ASSUME Next
  PROVE  \/ \E c \in Callers : DispatchStep(c) \/ OtherStep(c)
         \/ \E p \in Processes : Crash(p)
  BY DEF Next, Execute, Dispatch, DispatchStep, OtherStep

LEMMA InitInv == Init => IInv
<1> SUFFICES ASSUME Init PROVE IInv
  OBVIOUS
<1>1. Shape
  BY DEF Init, Shape, Places
<1>2. HoldsLock /\ HandoffFirst
  BY DEF Init, HoldsLock, HandoffFirst, InDispatch
<1> QED
  BY <1>1, <1>2 DEF IInv

(* Outside the dispatcher no lock and no file of the Fix changes, and no   *)
(* thread enters it.                                                       *)
LEMMA OtherInv ==
  ASSUME IInv, NEW c \in Callers, OtherStep(c)
  PROVE  IInv'
<1>1. /\ pc' \in [Callers -> Places]
      /\ \A d \in Callers : pc'[d] \in { "dispatch", "model", "record" } => pc'[d] = pc[d]
  BY DEF IInv, Shape, OtherStep, Step, Submit, Reject, CreateNew, CreateExisting, Create,
         Start, Blocked, Block, Authorize, WorkerAnswers, WorkerFails, PersistArtifact,
         BlockUntyped, ReconstructFix, Complete, Fail, Places
<1>2. UNCHANGED << lock, fix, handoff >>
  BY DEF OtherStep, Submit, Reject, CreateNew, CreateExisting, Create, Start, Blocked, Block,
         Authorize, WorkerAnswers, WorkerFails, PersistArtifact, BlockUntyped, ReconstructFix,
         Complete, Fail, host
<1>3. Shape'
  BY <1>1, <1>2 DEF IInv, Shape
<1>4. HoldsLock'
  BY <1>1, <1>2 DEF IInv, HoldsLock, InDispatch
<1>5. HandoffFirst'
  BY <1>1, <1>2 DEF IInv, HandoffFirst
<1> QED
  BY <1>3, <1>4, <1>5 DEF IInv

(* In the dispatcher: the thread that moves holds the lock, so no other of *)
(* its process is in there.                                                *)
LEMMA DispatchInv ==
  ASSUME IInv, NEW c \in Callers, DispatchStep(c)
  PROVE  IInv'
<1> USE FixOperationAssumption DEF Step
<1>1. CASE Acquire(c)
  <2>1. Shape'
    BY <1>1 DEF IInv, Shape, Acquire, Places
  <2>2. HoldsLock'
    BY <1>1 DEF IInv, Shape, HoldsLock, InDispatch, Acquire
  <2>3. HandoffFirst'
    BY <1>1 DEF IInv, Shape, HandoffFirst, Acquire
  <2> QED
    BY <2>1, <2>2, <2>3 DEF IInv
<1>2. CASE \/ LoadExisting(c) \/ (\E s \in Refusals : Refuse(c, s)) \/ Skip(c) \/ Raise(c)
           \/ (\E s \in ModelRefusals : ModelRefuses(c, s)) \/ Accept(c)
  <2>1. /\ InDispatch(c)
        /\ pc' \in [Callers -> Places]
        /\ pc'[c] \in { "complete", "fail" }
        /\ \A d \in Callers \ {c} : pc'[d] = pc[d]
        /\ lock' = [lock EXCEPT ![Home[c]] = None]
        /\ UNCHANGED handoff
    BY <1>2 DEF IInv, Shape, LoadExisting, Refuse, Skip, Raise, ModelRefuses, Accept,
                InDispatch, Release, Places
  <2>2. Shape'
    BY <2>1 DEF IInv, Shape
  <2>3. HoldsLock'
    BY <2>1 DEF IInv, Shape, HoldsLock, InDispatch
  <2>4. fix' = "accepted" => handoff = TRUE
    BY <1>2 DEF IInv, HandoffFirst, LoadExisting, Refuse, Skip, Raise, ModelRefuses,
                Accept, Refusals, ModelRefusals
  <2>5. HandoffFirst'
    BY <2>1, <2>4 DEF IInv, HandoffFirst
  <2> QED
    BY <2>2, <2>3, <2>5 DEF IInv
<1>3. CASE Ignite(c) \/ PersistHandoff(c)
  <2>1. /\ InDispatch(c)
        /\ pc' \in [Callers -> Places]
        /\ pc'[c] = "record" => handoff' = TRUE
        /\ \A d \in Callers \ {c} : pc'[d] = pc[d]
        /\ handoff' \in BOOLEAN /\ (handoff = TRUE => handoff' = TRUE)
        /\ UNCHANGED << lock, fix >>
    BY <1>3 DEF IInv, Shape, Ignite, PersistHandoff, InDispatch, Places
  <2>2. Shape'
    BY <2>1 DEF IInv, Shape
  <2>3. HoldsLock'
    BY <2>1 DEF IInv, Shape, HoldsLock, InDispatch
  <2>4. HandoffFirst'
    BY <2>1 DEF IInv, HandoffFirst
  <2> QED
    BY <2>2, <2>3, <2>4 DEF IInv
<1> QED
  BY <1>1, <1>2, <1>3 DEF DispatchStep

LEMMA CrashInv ==
  ASSUME IInv, NEW p \in Processes, Crash(p)
  PROVE  IInv'
<1> USE FixOperationAssumption
<1>1. Shape'
  BY DEF IInv, Shape, Crash, Places
<1>2. HoldsLock'
  BY DEF IInv, Shape, HoldsLock, InDispatch, Crash
<1>3. HandoffFirst'
  BY DEF IInv, Shape, HandoffFirst, Crash
<1> QED
  BY <1>1, <1>2, <1>3 DEF IInv

LEMMA NextInv == IInv /\ [Next]_vars => IInv'
<1> SUFFICES ASSUME IInv, [Next]_vars PROVE IInv'
  OBVIOUS
<1>1. CASE Next
  BY <1>1, NextSplit, OtherInv, DispatchInv, CrashInv
<1>2. CASE UNCHANGED vars
  BY <1>2 DEF vars, IInv, Shape, HoldsLock, HandoffFirst, InDispatch
<1> QED
  BY <1>1, <1>2

(* The strengthened invariant holds of the specification.                  *)
THEOREM Invariance == Spec => []IInv
  BY InitInv, NextInv, PTL DEF Spec

(* Threads of one process are one at a time in the dispatcher.             *)
THEOREM DispatchIsSingleFlight == Spec => []SingleFlight
<1>1. IInv => SingleFlight
  BY DEF IInv, HoldsLock, SingleFlight
<1> QED
  BY <1>1, Invariance, PTL

(* An accepted record is never found without its handoff, whatever crashes *)
(* and however many processes dispatch.                                    *)
THEOREM HandoffBeforeRecord == Spec => []AcceptedHasHandoff
<1>1. IInv => AcceptedHasHandoff
  BY DEF IInv, HandoffFirst, AcceptedHasHandoff
<1> QED
  BY <1>1, Invariance, PTL

------------------------------------------------------------------------------
(* One process *)

SingleProcess == \A c, d \in Callers : Home[c] = Home[d]

(* While the model is asked, nothing is recorded.                          *)
Undecided == \A c \in Callers : pc[c] \in { "model", "record" } => fix = "absent"

LEMMA UndecidedStep ==
  ASSUME SingleProcess, IInv, Undecided, [Next]_vars
  PROVE  Undecided' /\ [fix # "absent" => fix' = fix]_fix
<1> USE FixOperationAssumption DEF Step
<1>1. CASE UNCHANGED vars
  BY <1>1 DEF vars, Undecided
<1>2. ASSUME NEW c \in Callers, OtherStep(c)
      PROVE  Undecided' /\ fix' = fix
  <2>1. UNCHANGED fix
    BY <1>2 DEF OtherStep, Submit, Reject, CreateNew, CreateExisting, Create, Start, Blocked,
                Block, Authorize, WorkerAnswers, WorkerFails, PersistArtifact, BlockUntyped,
                ReconstructFix, Complete, Fail, host
  <2>2. \A d \in Callers : pc'[d] \in { "model", "record" } => pc'[d] = pc[d]
    BY <1>2 DEF IInv, Shape, OtherStep, Submit, Reject, CreateNew, CreateExisting, Create,
                Start, Blocked, Block, Authorize, WorkerAnswers, WorkerFails, PersistArtifact,
                BlockUntyped, ReconstructFix, Complete, Fail
  <2> QED
    BY <2>1, <2>2 DEF Undecided
<1>3. ASSUME NEW c \in Callers, DispatchStep(c)
      PROVE  Undecided' /\ (fix # "absent" => fix' = fix)
  <2>1. CASE Acquire(c) \/ Ignite(c) \/ PersistHandoff(c)
    <3>1. /\ UNCHANGED fix
          /\ \A d \in Callers \ {c} : pc'[d] = pc[d]
          /\ pc'[c] \in { "model", "record" } => fix = "absent"
      BY <2>1 DEF IInv, Shape, Acquire, Ignite, PersistHandoff, Undecided
    <3> QED
      BY <3>1 DEF Undecided
  <2>2. CASE \/ LoadExisting(c) \/ (\E s \in Refusals : Refuse(c, s)) \/ Skip(c) \/ Raise(c)
             \/ (\E s \in ModelRefusals : ModelRefuses(c, s)) \/ Accept(c)
    <3>1. /\ InDispatch(c)
          /\ pc'[c] \in { "complete", "fail" }
          /\ \A d \in Callers \ {c} : pc'[d] = pc[d]
          /\ fix # "absent" => fix' = fix
      BY <2>2 DEF IInv, Shape, LoadExisting, Refuse, Skip, Raise, ModelRefuses, Accept,
                  InDispatch, Undecided
    <3>2. \A d \in Callers \ {c} : ~ InDispatch(d)
      BY <3>1 DEF IInv, HoldsLock, SingleProcess
    <3> QED
      BY <3>1, <3>2 DEF Undecided, InDispatch
  <2> QED
    BY <1>3, <2>1, <2>2 DEF DispatchStep
<1>4. ASSUME NEW p \in Processes, Crash(p)
      PROVE  Undecided' /\ fix' = fix
  BY <1>4 DEF IInv, Shape, Crash, Undecided
<1> QED
  BY <1>1, <1>2, <1>3, <1>4, NextSplit

(* In one process a recorded decision is never replaced.                   *)
THEOREM RecordedDecisionStays ==
  ASSUME SingleProcess
  PROVE  Spec => DecisionStays
<1>1. Init => Undecided
  BY DEF Init, Undecided
<1>2. IInv /\ Undecided /\ [Next]_vars
        => Undecided' /\ [fix # "absent" => fix' = fix]_fix
  BY SingleProcess, UndecidedStep
<1> QED
  BY <1>1, <1>2, Invariance, PTL DEF Spec, DecisionStays

(* Who is about to return "accepted" is told so by the record.             *)
Recorded ==
  /\ out \in [Callers -> { "accepted", "blocked", "completed" }]
  /\ AcceptedIsRecorded

(* The decision that was recorded stays, so only a thread that comes to    *)
(* complete matters: it finds "accepted" there only with the record it     *)
(* wrote in the same step.                                                 *)
LEMMA RecordedByArrivals ==
  ASSUME Recorded, fix # "absent" => fix' = fix,
         out' \in [Callers -> { "accepted", "blocked", "completed" }],
         \A c \in Callers :
            pc'[c] = "complete" /\ out'[c] = "accepted"
              => \/ pc[c] = "complete" /\ out[c] = "accepted"
                 \/ fix' \in { "accepted", "skipped_disabled" }
  PROVE  Recorded'
  BY DEF Recorded, AcceptedIsRecorded

LEMMA RecordedStep ==
  ASSUME SingleProcess, IInv, Undecided, Recorded, [Next]_vars
  PROVE  Recorded'
<1> USE FixOperationAssumption DEF Step
<1>1. fix # "absent" => fix' = fix
  BY UndecidedStep
<1>2. CASE UNCHANGED vars
  BY <1>2 DEF vars, Recorded, AcceptedIsRecorded
<1>3. ASSUME NEW c \in Callers, OtherStep(c)
      PROVE  Recorded'
  <2>1. CASE PersistArtifact(c)
    BY <1>1, <2>1, RecordedByArrivals DEF PersistArtifact, Recorded, IInv, Shape
  <2>2. CASE ~ PersistArtifact(c)
    <3>1. UNCHANGED out
      BY <1>3, <2>2 DEF OtherStep, Submit, Reject, CreateNew, CreateExisting, Create, Start,
                        Blocked, Block, Authorize, WorkerAnswers, WorkerFails, BlockUntyped,
                        ReconstructFix, Complete, Fail
    <3>2. \A d \in Callers : pc'[d] = "complete" => pc[d] = "complete"
      BY <1>3, <2>2 DEF IInv, Shape, OtherStep, Submit, Reject, CreateNew, CreateExisting,
                        Create, Start, Blocked, Block, Authorize, WorkerAnswers, WorkerFails,
                        BlockUntyped, ReconstructFix, Complete, Fail
    <3> QED
      BY <1>1, <3>1, <3>2, RecordedByArrivals DEF Recorded
  <2> QED
    BY <2>1, <2>2
<1>4. ASSUME NEW c \in Callers, DispatchStep(c)
      PROVE  Recorded'
  <2>1. CASE Acquire(c) \/ Ignite(c) \/ PersistHandoff(c) \/ Raise(c)
    <3>1. /\ UNCHANGED out
          /\ \A d \in Callers : pc'[d] = "complete" => pc[d] = "complete"
      BY <2>1 DEF IInv, Shape, Acquire, Ignite, PersistHandoff, Raise
    <3> QED
      BY <1>1, <3>1, RecordedByArrivals DEF Recorded
  <2>2. CASE LoadExisting(c) \/ (\E s \in Refusals : Refuse(c, s))
             \/ (\E s \in ModelRefusals : ModelRefuses(c, s))
    <3>1. /\ out' = [out EXCEPT ![c] = "blocked"]
          /\ pc' = [pc EXCEPT ![c] = "complete"]
      BY <2>2 DEF LoadExisting, Refuse, ModelRefuses, Finalize
    <3> QED
      BY <1>1, <3>1, RecordedByArrivals DEF Recorded, IInv, Shape
  <2>3. CASE Skip(c) \/ Accept(c)
    <3>1. /\ out' = [out EXCEPT ![c] = "accepted"]
          /\ fix' \in { "accepted", "skipped_disabled" }
      BY <2>3 DEF Skip, Accept, Continue
    <3> QED
      BY <1>1, <3>1, RecordedByArrivals DEF Recorded
  <2> QED
    BY <1>4, <2>1, <2>2, <2>3 DEF DispatchStep
<1>5. ASSUME NEW p \in Processes, Crash(p)
      PROVE  Recorded'
  <2>1. /\ UNCHANGED out
        /\ \A d \in Callers : pc'[d] = "complete" => pc[d] = "complete"
    BY <1>5 DEF IInv, Shape, Crash
  <2> QED
    BY <1>1, <2>1, RecordedByArrivals DEF Recorded
<1> QED
  BY <1>2, <1>3, <1>4, <1>5, NextSplit

(* In one process whoever is told of an accepted Fix is told of a record   *)
(* that says so, whatever other threads and crashes do before it returns.  *)
THEOREM AcceptanceIsRecorded ==
  ASSUME SingleProcess
  PROVE  Spec => []AcceptedIsRecorded
<1>1. Init => Undecided /\ Recorded
  BY DEF Init, Undecided, Recorded, AcceptedIsRecorded
<1>2. IInv /\ Undecided /\ Recorded /\ [Next]_vars => Undecided' /\ Recorded'
  BY SingleProcess, UndecidedStep, RecordedStep
<1>3. Recorded => AcceptedIsRecorded
  BY DEF Recorded
<1> QED
  BY <1>1, <1>2, <1>3, Invariance, PTL DEF Spec
==============================================================================
