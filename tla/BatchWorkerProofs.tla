-------------------------- MODULE BatchWorkerProofs --------------------------
(***************************************************************************)
(* Proofs about BatchWorker, for every number of runs and of overlapping   *)
(* jobs, every batch size and any number of crashes and cancellations.     *)
(***************************************************************************)
EXTENDS BatchWorker, FiniteSetTheorems, TLAPS

Looping == {"slot", "dial", "placed", "marking", "counting", "rereading",
            "failing", "returning"}
Publishing == {"publishCompleted", "publishRetry", "publishFailed",
               "failCampaign", "poolCount"}

\* What a job's local variables hold, by the step it is at.
Shape ==
  \A j \in Jobs :
    /\ todo[j] \subseteq claims[j] /\ cur[j] \subseteq claims[j]
    /\ todo[j] \cap cur[j] = {}
    /\ job[j] \in {"idle", "queued", "ended"} =>
         claims[j] = {} /\ todo[j] = {} /\ done[j] = {} /\ cur[j] = {}
    /\ job[j] = "claiming" => done[j] = {} /\ cur[j] = {}
    /\ job[j] = "loop" => cur[j] = {}
    /\ job[j] \in Publishing => todo[j] = {} /\ cur[j] = {}
    /\ job[j] \in Looping => \E r \in Runs : cur[j] = {r}
    /\ job[j] \in {"counting", "rereading"} => cur[j] \subseteq done[j]

\* Two jobs are never at the same run.
Disjoint ==
  \A j, k \in Jobs : j # k => (todo[j] \cup cur[j]) \cap (todo[k] \cup cur[k]) = {}

\* Runs with a call_id are settled; the others of a batch are in processing,
\* but for the one whose bookkeeping has just failed.
LinkedSettled ==
  \A r \in Runs : runState[r] \in {"queued", "processing"} => r \notin linked

HeldInProcessing ==
  \A j \in Jobs :
    /\ \A r \in todo[j] : runState[r] = "processing"
    /\ \A r \in cur[j] :
         /\ runState[r] \in {"processing", "processed"}
         /\ job[j] \in {"slot", "dial", "placed", "marking", "returning"} =>
              runState[r] = "processing"
    /\ done[j] \subseteq linked

\* What a batch may give back is what it still holds.
ReturnsOnlyHeld ==
  \A j \in Jobs :
    job[j] \notin Publishing =>
      \A r \in claims[j] \ done[j] : r \in todo[j] \cup cur[j] \/ runState[r] = "failed"

LedgerInv == Shape /\ Disjoint /\ LinkedSettled /\ HeldInProcessing /\ ReturnsOnlyHeld

-----------------------------------------------------------------------------

LEMMA TypeStep ==
  ASSUME TypeOK, [Next]_vars
  PROVE  TypeOK'
<1> USE BoundsAssumption DEF TypeOK, Goto, Fault, Forget, Abort, doc, ledger, locals, env
<1>1. CASE RequestRead \/ RequestWrite
  BY <1>1 DEF RequestRead, RequestWrite, States
<1>2. ASSUME NEW j \in Jobs, Enqueue(j) \/ Start(j) \/ Claim(j) \/ Claimed(j) \/ ClaimRaises(j)
      PROVE  TypeOK'
  BY <1>2 DEF Enqueue, Start, Claim, Claimed, ClaimRaises, Steps, RunStates
<1>3. ASSUME NEW j \in Jobs, NextRun(j) \/ GetSlot(j) \/ DispatchReturns(j)
                             \/ RunRaises(j) \/ BookkeepingRaises(j)
      PROVE  TypeOK'
  BY <1>3 DEF NextRun, GetSlot, DispatchReturns, RunRaises, BookkeepingRaises, Steps
<1>4. ASSUME NEW j \in Jobs, PlaceCall(j)
      PROVE  TypeOK'
  BY <1>4 DEF PlaceCall, Steps
<1>5. ASSUME NEW j \in Jobs, Mark(j) \/ Count(j) \/ Reread(j) \/ MarkFailed(j)
                             \/ MarkFailedRaises(j) \/ LoopEnds(j)
      PROVE  TypeOK'
  BY <1>5 DEF Mark, Count, Reread, MarkFailed, MarkFailedRaises, LoopEnds, Steps, RunStates
<1>6. ASSUME NEW j \in Jobs, NoSlot(j) \/ NoNumber(j) \/ Cancel(j)
      PROVE  TypeOK'
  BY <1>6 DEF NoSlot, NoNumber, Cancel, Steps, Reasons
<1>7. ASSUME NEW j \in Jobs, Return(j) \/ ReturnRaises(j) \/ CancelPublish(j) \/ Crash(j)
      PROVE  TypeOK'
  BY <1>7 DEF Return, ReturnRaises, CancelPublish, Crash, Steps, RunStates
<1>8. ASSUME NEW j \in Jobs, PoolCount(j) \/ PublishCompleted(j) \/ PublishFailed(j)
                             \/ FailCampaign(j) \/ PublishRaises(j)
      PROVE  TypeOK'
  BY <1>8 DEF PoolCount, PublishCompleted, PublishFailed, FailCampaign, PublishRaises,
              Steps, States
<1>9. CASE UNCHANGED vars
  BY <1>9 DEF vars
<1> QED  BY <1>1, <1>2, <1>3, <1>4, <1>5, <1>6, <1>7, <1>8, <1>9
            DEF Next, JobStep, Disturbance

\* The local variables keep their shape.
LEMMA ShapeStep ==
  ASSUME TypeOK, Shape, [Next]_vars
  PROVE  Shape'
<1> USE DEF Shape, Looping, Publishing, TypeOK, Goto, Forget, doc, ledger, locals, env
<1>1. CASE RequestRead \/ RequestWrite
  BY <1>1 DEF RequestRead, RequestWrite
<1>2. ASSUME NEW j \in Jobs, Enqueue(j) \/ Start(j) \/ Claimed(j) \/ ClaimRaises(j)
      PROVE  Shape'
  BY <1>2 DEF Enqueue, Start, Claimed, ClaimRaises
<1>3. ASSUME NEW j \in Jobs, Claim(j)
      PROVE  Shape'
  BY <1>3 DEF Claim
<1>4. ASSUME NEW j \in Jobs, NextRun(j)
      PROVE  Shape'
  BY <1>4 DEF NextRun
<1>5. ASSUME NEW j \in Jobs, GetSlot(j) \/ DispatchReturns(j) \/ RunRaises(j) \/ BookkeepingRaises(j)
      PROVE  Shape'
  BY <1>5 DEF GetSlot, DispatchReturns, RunRaises, BookkeepingRaises
<1>6. ASSUME NEW j \in Jobs, PlaceCall(j) \/ Count(j) \/ Reread(j) \/ LoopEnds(j)
      PROVE  Shape'
  BY <1>6 DEF PlaceCall, Count, Reread, LoopEnds
<1>7. ASSUME NEW j \in Jobs, Mark(j)
      PROVE  Shape'
  BY <1>7 DEF Mark
<1>8. ASSUME NEW j \in Jobs, MarkFailed(j) \/ MarkFailedRaises(j)
      PROVE  Shape'
  BY <1>8 DEF MarkFailed, MarkFailedRaises
<1>9. ASSUME NEW j \in Jobs, NoSlot(j) \/ NoNumber(j) \/ Cancel(j)
      PROVE  Shape'
  BY <1>9 DEF NoSlot, NoNumber, Cancel, Abort
<1>10. ASSUME NEW j \in Jobs, Return(j)
      PROVE  Shape'
  BY <1>10 DEF Return, UnprocessedClaims
<1>11. ASSUME NEW j \in Jobs, ReturnRaises(j) \/ CancelPublish(j) \/ Crash(j)
      PROVE  Shape'
  BY <1>11 DEF ReturnRaises, CancelPublish, Crash, Active, Steps
<1>12. ASSUME NEW j \in Jobs, PoolCount(j) \/ PublishCompleted(j) \/ PublishFailed(j) \/ FailCampaign(j) \/ PublishRaises(j)
      PROVE  Shape'
  BY <1>12 DEF PoolCount, PublishCompleted, PublishFailed, FailCampaign, PublishRaises
<1>13. CASE UNCHANGED vars
  BY <1>13 DEF vars
<1> QED  BY <1>1, <1>2, <1>3, <1>4, <1>5, <1>6, <1>7, <1>8, <1>9, <1>10, <1>11, <1>12, <1>13
            DEF Next, JobStep, Disturbance

\* A run in processing is not claimed.
LEMMA DisjointStep ==
  ASSUME TypeOK, Shape, Disjoint, HeldInProcessing, [Next]_vars
  PROVE  Disjoint'
<1> USE DEF Disjoint, TypeOK, Goto, Forget, doc, ledger, locals, env
<1>1. CASE RequestRead \/ RequestWrite
  BY <1>1 DEF RequestRead, RequestWrite
<1>2. ASSUME NEW j \in Jobs, Enqueue(j) \/ Start(j) \/ Claimed(j) \/ ClaimRaises(j)
      PROVE  Disjoint'
  BY <1>2 DEF Enqueue, Start, Claimed, ClaimRaises
<1>3. ASSUME NEW j \in Jobs, Claim(j)
      PROVE  Disjoint'
  BY <1>3 DEF Claim, HeldInProcessing
<1>4. ASSUME NEW j \in Jobs, NextRun(j)
      PROVE  Disjoint'
  BY <1>4 DEF NextRun
<1>5. ASSUME NEW j \in Jobs, GetSlot(j) \/ DispatchReturns(j) \/ RunRaises(j) \/ BookkeepingRaises(j)
      PROVE  Disjoint'
  BY <1>5 DEF GetSlot, DispatchReturns, RunRaises, BookkeepingRaises
<1>6. ASSUME NEW j \in Jobs, PlaceCall(j) \/ Count(j) \/ Reread(j) \/ LoopEnds(j)
      PROVE  Disjoint'
  BY <1>6 DEF PlaceCall, Count, Reread, LoopEnds
<1>7. ASSUME NEW j \in Jobs, Mark(j)
      PROVE  Disjoint'
  BY <1>7 DEF Mark
<1>8. ASSUME NEW j \in Jobs, MarkFailed(j) \/ MarkFailedRaises(j)
      PROVE  Disjoint'
  BY <1>8 DEF MarkFailed, MarkFailedRaises
<1>9. ASSUME NEW j \in Jobs, NoSlot(j) \/ NoNumber(j) \/ Cancel(j)
      PROVE  Disjoint'
  BY <1>9 DEF NoSlot, NoNumber, Cancel, Abort
<1>10. ASSUME NEW j \in Jobs, Return(j)
      PROVE  Disjoint'
  BY <1>10 DEF Return, UnprocessedClaims
<1>11. ASSUME NEW j \in Jobs, ReturnRaises(j) \/ CancelPublish(j) \/ Crash(j)
      PROVE  Disjoint'
  BY <1>11 DEF ReturnRaises, CancelPublish, Crash, Active, Steps
<1>12. ASSUME NEW j \in Jobs, PoolCount(j) \/ PublishCompleted(j) \/ PublishFailed(j) \/ FailCampaign(j) \/ PublishRaises(j)
      PROVE  Disjoint'
  BY <1>12 DEF PoolCount, PublishCompleted, PublishFailed, FailCampaign, PublishRaises
<1>13. CASE UNCHANGED vars
  BY <1>13 DEF vars
<1> QED  BY <1>1, <1>2, <1>3, <1>4, <1>5, <1>6, <1>7, <1>8, <1>9, <1>10, <1>11, <1>12, <1>13
            DEF Next, JobStep, Disturbance

\* Settled runs are not touched, runs given back have no call.
LEMMA LinkedStep ==
  ASSUME TypeOK, LinkedSettled, [Next]_vars
  PROVE  LinkedSettled'
<1> USE DEF LinkedSettled, TypeOK, Goto, Forget, doc, ledger, locals, env
<1>1. CASE RequestRead \/ RequestWrite
  BY <1>1 DEF RequestRead, RequestWrite
<1>2. ASSUME NEW j \in Jobs, Enqueue(j) \/ Start(j) \/ Claimed(j) \/ ClaimRaises(j)
      PROVE  LinkedSettled'
  BY <1>2 DEF Enqueue, Start, Claimed, ClaimRaises
<1>3. ASSUME NEW j \in Jobs, Claim(j)
      PROVE  LinkedSettled'
  BY <1>3 DEF Claim
<1>4. ASSUME NEW j \in Jobs, NextRun(j)
      PROVE  LinkedSettled'
  BY <1>4 DEF NextRun
<1>5. ASSUME NEW j \in Jobs, GetSlot(j) \/ DispatchReturns(j) \/ RunRaises(j) \/ BookkeepingRaises(j)
      PROVE  LinkedSettled'
  BY <1>5 DEF GetSlot, DispatchReturns, RunRaises, BookkeepingRaises
<1>6. ASSUME NEW j \in Jobs, PlaceCall(j) \/ Count(j) \/ Reread(j) \/ LoopEnds(j)
      PROVE  LinkedSettled'
  BY <1>6 DEF PlaceCall, Count, Reread, LoopEnds
<1>7. ASSUME NEW j \in Jobs, Mark(j)
      PROVE  LinkedSettled'
  BY <1>7 DEF Mark
<1>8. ASSUME NEW j \in Jobs, MarkFailed(j) \/ MarkFailedRaises(j)
      PROVE  LinkedSettled'
  BY <1>8 DEF MarkFailed, MarkFailedRaises
<1>9. ASSUME NEW j \in Jobs, NoSlot(j) \/ NoNumber(j) \/ Cancel(j)
      PROVE  LinkedSettled'
  BY <1>9 DEF NoSlot, NoNumber, Cancel, Abort
<1>10. ASSUME NEW j \in Jobs, Return(j)
      PROVE  LinkedSettled'
  BY <1>10 DEF Return, UnprocessedClaims
<1>11. ASSUME NEW j \in Jobs, ReturnRaises(j) \/ CancelPublish(j) \/ Crash(j)
      PROVE  LinkedSettled'
  BY <1>11 DEF ReturnRaises, CancelPublish, Crash, Active, Steps
<1>12. ASSUME NEW j \in Jobs, PoolCount(j) \/ PublishCompleted(j) \/ PublishFailed(j) \/ FailCampaign(j) \/ PublishRaises(j)
      PROVE  LinkedSettled'
  BY <1>12 DEF PoolCount, PublishCompleted, PublishFailed, FailCampaign, PublishRaises
<1>13. CASE UNCHANGED vars
  BY <1>13 DEF vars
<1> QED  BY <1>1, <1>2, <1>3, <1>4, <1>5, <1>6, <1>7, <1>8, <1>9, <1>10, <1>11, <1>12, <1>13
            DEF Next, JobStep, Disturbance

\* Nobody but its job moves a run in processing.
LEMMA HeldStep ==
  ASSUME TypeOK, LedgerInv, [Next]_vars
  PROVE  HeldInProcessing'
<1> USE DEF LedgerInv, Shape, Disjoint, LinkedSettled, HeldInProcessing, ReturnsOnlyHeld, Looping, Publishing, TypeOK, Goto, Forget, doc, ledger, locals, env
<1>1. CASE RequestRead \/ RequestWrite
  BY <1>1 DEF RequestRead, RequestWrite
<1>2. ASSUME NEW j \in Jobs, Enqueue(j) \/ Start(j) \/ Claimed(j) \/ ClaimRaises(j)
      PROVE  HeldInProcessing'
  BY <1>2 DEF Enqueue, Start, Claimed, ClaimRaises
<1>3. ASSUME NEW j \in Jobs, Claim(j)
      PROVE  HeldInProcessing'
  BY <1>3 DEF Claim
<1>4. ASSUME NEW j \in Jobs, NextRun(j)
      PROVE  HeldInProcessing'
  BY <1>4 DEF NextRun
<1>5. ASSUME NEW j \in Jobs, GetSlot(j) \/ DispatchReturns(j) \/ RunRaises(j) \/ BookkeepingRaises(j)
      PROVE  HeldInProcessing'
  BY <1>5 DEF GetSlot, DispatchReturns, RunRaises, BookkeepingRaises
<1>6. ASSUME NEW j \in Jobs, PlaceCall(j) \/ Count(j) \/ Reread(j) \/ LoopEnds(j)
      PROVE  HeldInProcessing'
  BY <1>6 DEF PlaceCall, Count, Reread, LoopEnds
<1>7. ASSUME NEW j \in Jobs, Mark(j)
      PROVE  HeldInProcessing'
  BY <1>7 DEF Mark
<1>8. ASSUME NEW j \in Jobs, MarkFailed(j) \/ MarkFailedRaises(j)
      PROVE  HeldInProcessing'
  BY <1>8 DEF MarkFailed, MarkFailedRaises
<1>9. ASSUME NEW j \in Jobs, NoSlot(j) \/ NoNumber(j) \/ Cancel(j)
      PROVE  HeldInProcessing'
  BY <1>9 DEF NoSlot, NoNumber, Cancel, Abort
<1>10. ASSUME NEW j \in Jobs, Return(j)
      PROVE  HeldInProcessing'
  BY <1>10 DEF Return, UnprocessedClaims
<1>11. ASSUME NEW j \in Jobs, ReturnRaises(j) \/ CancelPublish(j) \/ Crash(j)
      PROVE  HeldInProcessing'
  BY <1>11 DEF ReturnRaises, CancelPublish, Crash, Active, Steps
<1>12. ASSUME NEW j \in Jobs, PoolCount(j) \/ PublishCompleted(j) \/ PublishFailed(j) \/ FailCampaign(j) \/ PublishRaises(j)
      PROVE  HeldInProcessing'
  BY <1>12 DEF PoolCount, PublishCompleted, PublishFailed, FailCampaign, PublishRaises
<1>13. CASE UNCHANGED vars
  BY <1>13 DEF vars
<1> QED  BY <1>1, <1>2, <1>3, <1>4, <1>5, <1>6, <1>7, <1>8, <1>9, <1>10, <1>11, <1>12, <1>13
            DEF Next, JobStep, Disturbance

\* A claim leaves the hands of its job settled.
LEMMA ReturnsStep ==
  ASSUME TypeOK, LedgerInv, [Next]_vars
  PROVE  ReturnsOnlyHeld'
<1> USE DEF LedgerInv, Shape, Disjoint, LinkedSettled, HeldInProcessing, ReturnsOnlyHeld, Looping, Publishing, TypeOK, Goto, Forget, doc, ledger, locals, env
<1>1. CASE RequestRead \/ RequestWrite
  BY <1>1 DEF RequestRead, RequestWrite
<1>2. ASSUME NEW j \in Jobs, Enqueue(j) \/ Start(j) \/ Claimed(j) \/ ClaimRaises(j)
      PROVE  ReturnsOnlyHeld'
  BY <1>2 DEF Enqueue, Start, Claimed, ClaimRaises
<1>3. ASSUME NEW j \in Jobs, Claim(j)
      PROVE  ReturnsOnlyHeld'
  BY <1>3 DEF Claim
<1>4. ASSUME NEW j \in Jobs, NextRun(j)
      PROVE  ReturnsOnlyHeld'
  BY <1>4 DEF NextRun
<1>5. ASSUME NEW j \in Jobs, GetSlot(j) \/ DispatchReturns(j) \/ RunRaises(j) \/ BookkeepingRaises(j)
      PROVE  ReturnsOnlyHeld'
  BY <1>5 DEF GetSlot, DispatchReturns, RunRaises, BookkeepingRaises
<1>6. ASSUME NEW j \in Jobs, PlaceCall(j) \/ Count(j) \/ Reread(j) \/ LoopEnds(j)
      PROVE  ReturnsOnlyHeld'
  BY <1>6 DEF PlaceCall, Count, Reread, LoopEnds
<1>7. ASSUME NEW j \in Jobs, Mark(j)
      PROVE  ReturnsOnlyHeld'
  BY <1>7 DEF Mark
<1>8. ASSUME NEW j \in Jobs, MarkFailed(j) \/ MarkFailedRaises(j)
      PROVE  ReturnsOnlyHeld'
  BY <1>8 DEF MarkFailed, MarkFailedRaises
<1>9. ASSUME NEW j \in Jobs, NoSlot(j) \/ NoNumber(j) \/ Cancel(j)
      PROVE  ReturnsOnlyHeld'
  BY <1>9 DEF NoSlot, NoNumber, Cancel, Abort
<1>10. ASSUME NEW j \in Jobs, Return(j)
      PROVE  ReturnsOnlyHeld'
  BY <1>10 DEF Return, UnprocessedClaims
<1>11. ASSUME NEW j \in Jobs, ReturnRaises(j) \/ CancelPublish(j) \/ Crash(j)
      PROVE  ReturnsOnlyHeld'
  BY <1>11 DEF ReturnRaises, CancelPublish, Crash, Active, Steps
<1>12. ASSUME NEW j \in Jobs, PoolCount(j) \/ PublishCompleted(j) \/ PublishFailed(j) \/ FailCampaign(j) \/ PublishRaises(j)
      PROVE  ReturnsOnlyHeld'
  BY <1>12 DEF PoolCount, PublishCompleted, PublishFailed, FailCampaign, PublishRaises
<1>13. CASE UNCHANGED vars
  BY <1>13 DEF vars
<1> QED  BY <1>1, <1>2, <1>3, <1>4, <1>5, <1>6, <1>7, <1>8, <1>9, <1>10, <1>11, <1>12, <1>13
            DEF Next, JobStep, Disturbance

-----------------------------------------------------------------------------

\* No copy of the counter is ahead of the runs that carry a call.
Counted ==
  /\ CountNeverOverstates
  /\ \A j \in Jobs :
       /\ seen[j] <= Cardinality(linked)
       /\ job[j] = "counting" => seen[j] + 1 <= Cardinality(linked)

\* Without cancellations a run that may still be dialled has no call.
Uncalled ==
  cancels = 0 =>
    \A r \in Runs :
      /\ calls[r] <= 1
      /\ runState[r] = "queued" => calls[r] = 0
      /\ \A j \in Jobs :
           r \in todo[j] \/ (r \in cur[j] /\ job[j] \in {"slot", "dial", "returning"}) =>
             calls[r] = 0

\* A batch about to fail the campaign has published, and what aborted a batch
\* that is giving back its runs is known.
Reported ==
  faults = 0 /\ cancels = 0 =>
    \A j \in Jobs :
      /\ job[j] \in {"ended", "failCampaign"} => event[j] # "none"
      /\ why[j] # "cancelled"

\* Overlapping batches lose increments and invent none.
LEMMA CountStep ==
  ASSUME TypeOK, Shape, LinkedSettled, HeldInProcessing, Counted, [Next]_vars
  PROVE  Counted'
<1> USE DEF Counted, CountNeverOverstates, TypeOK, Goto, Forget, doc, ledger, locals, env
<1>1. CASE RequestRead \/ RequestWrite
  BY <1>1 DEF RequestRead, RequestWrite
<1>2. ASSUME NEW j \in Jobs, Enqueue(j) \/ Start(j) \/ Claimed(j) \/ ClaimRaises(j)
      PROVE  Counted'
  BY <1>2 DEF Enqueue, Start, Claimed, ClaimRaises
<1>3. ASSUME NEW j \in Jobs, Claim(j)
      PROVE  Counted'
  BY <1>3 DEF Claim
<1>4. ASSUME NEW j \in Jobs, NextRun(j)
      PROVE  Counted'
  BY <1>4 DEF NextRun
<1>5. ASSUME NEW j \in Jobs, GetSlot(j) \/ DispatchReturns(j) \/ RunRaises(j) \/ BookkeepingRaises(j)
      PROVE  Counted'
  BY <1>5 DEF GetSlot, DispatchReturns, RunRaises, BookkeepingRaises
<1>6. ASSUME NEW j \in Jobs, PlaceCall(j) \/ Count(j) \/ Reread(j) \/ LoopEnds(j)
      PROVE  Counted'
  BY <1>6 DEF PlaceCall, Count, Reread, LoopEnds
<1>7. ASSUME NEW j \in Jobs, Mark(j)
      PROVE  Counted'
  <2>1. PICK r \in Runs : cur[j] = {r}
    BY <1>7 DEF Mark, Shape, Looping
  <2>2. r \notin linked /\ linked' = linked \cup {r}
    BY <1>7, <2>1 DEF Mark, LinkedSettled, HeldInProcessing
  <2>3. IsFiniteSet(linked) /\ Cardinality(linked) \in Nat
    BY RunsAssumption, FS_Subset, FS_CardinalityType
  <2>4. Cardinality(linked') = Cardinality(linked) + 1
    BY <2>2, <2>3, FS_AddElement
  <2>5. UNCHANGED <<processedRows, seen>> /\ job' = [job EXCEPT ![j] = "counting"]
    BY <1>7 DEF Mark
  <2>6. \A k \in Jobs : seen[k] \in Nat /\ seen[k] <= Cardinality(linked)
    OBVIOUS
  <2> HIDE DEF doc, ledger, locals, env
  <2>7. CountNeverOverstates'
    BY <2>3, <2>4, <2>5
  <2>8. \A k \in Jobs : seen'[k] <= Cardinality(linked') /\ seen'[k] + 1 <= Cardinality(linked')
    BY <2>3, <2>4, <2>5, <2>6
  <2> QED  BY <2>7, <2>8
<1>8. ASSUME NEW j \in Jobs, MarkFailed(j) \/ MarkFailedRaises(j)
      PROVE  Counted'
  BY <1>8 DEF MarkFailed, MarkFailedRaises
<1>9. ASSUME NEW j \in Jobs, NoSlot(j) \/ NoNumber(j) \/ Cancel(j)
      PROVE  Counted'
  BY <1>9 DEF NoSlot, NoNumber, Cancel, Abort
<1>10. ASSUME NEW j \in Jobs, Return(j)
      PROVE  Counted'
  BY <1>10 DEF Return, UnprocessedClaims
<1>11. ASSUME NEW j \in Jobs, ReturnRaises(j) \/ CancelPublish(j) \/ Crash(j)
      PROVE  Counted'
  BY <1>11 DEF ReturnRaises, CancelPublish, Crash, Active, Steps
<1>12. ASSUME NEW j \in Jobs, PoolCount(j) \/ PublishCompleted(j) \/ PublishFailed(j) \/ FailCampaign(j)
                             \/ PublishRaises(j)
      PROVE  Counted'
  BY <1>12 DEF PoolCount, PublishCompleted, PublishFailed, FailCampaign, PublishRaises
<1>13. CASE UNCHANGED vars
  BY <1>13 DEF vars
<1> QED  BY <1>1, <1>2, <1>3, <1>4, <1>5, <1>6, <1>7, <1>8, <1>9, <1>10, <1>11, <1>12, <1>13
            DEF Next, JobStep, Disturbance

\* A run given back without a cancellation was never called.
LEMMA CallStep ==
  ASSUME TypeOK, LedgerInv, Uncalled, [Next]_vars
  PROVE  Uncalled'
<1> USE DEF LedgerInv, Shape, Disjoint, HeldInProcessing, ReturnsOnlyHeld, Looping, Publishing, Uncalled, Fault, TypeOK, Goto, Forget, doc, ledger, locals, env
<1>1. CASE RequestRead \/ RequestWrite
  BY <1>1 DEF RequestRead, RequestWrite
<1>2. ASSUME NEW j \in Jobs, Enqueue(j) \/ Start(j) \/ Claimed(j) \/ ClaimRaises(j)
      PROVE  Uncalled'
  BY <1>2 DEF Enqueue, Start, Claimed, ClaimRaises
<1>3. ASSUME NEW j \in Jobs, Claim(j)
      PROVE  Uncalled'
  BY <1>3 DEF Claim
<1>4. ASSUME NEW j \in Jobs, NextRun(j)
      PROVE  Uncalled'
  BY <1>4 DEF NextRun
<1>5. ASSUME NEW j \in Jobs, GetSlot(j) \/ DispatchReturns(j) \/ RunRaises(j) \/ BookkeepingRaises(j)
      PROVE  Uncalled'
  BY <1>5 DEF GetSlot, DispatchReturns, RunRaises, BookkeepingRaises
<1>6. ASSUME NEW j \in Jobs, PlaceCall(j) \/ Count(j) \/ Reread(j) \/ LoopEnds(j)
      PROVE  Uncalled'
  BY <1>6 DEF PlaceCall, Count, Reread, LoopEnds
<1>7. ASSUME NEW j \in Jobs, Mark(j)
      PROVE  Uncalled'
  BY <1>7 DEF Mark
<1>8. ASSUME NEW j \in Jobs, MarkFailed(j) \/ MarkFailedRaises(j)
      PROVE  Uncalled'
  BY <1>8 DEF MarkFailed, MarkFailedRaises
<1>9. ASSUME NEW j \in Jobs, NoSlot(j) \/ NoNumber(j) \/ Cancel(j)
      PROVE  Uncalled'
  BY <1>9 DEF NoSlot, NoNumber, Cancel, Abort
<1>10. ASSUME NEW j \in Jobs, Return(j)
      PROVE  Uncalled'
  BY <1>10 DEF Return, UnprocessedClaims
<1>11. ASSUME NEW j \in Jobs, ReturnRaises(j) \/ CancelPublish(j) \/ Crash(j)
      PROVE  Uncalled'
  BY <1>11 DEF ReturnRaises, CancelPublish, Crash, Active, Steps
<1>12. ASSUME NEW j \in Jobs, PoolCount(j) \/ PublishCompleted(j) \/ PublishFailed(j) \/ FailCampaign(j)
                             \/ PublishRaises(j)
      PROVE  Uncalled'
  BY <1>12 DEF PoolCount, PublishCompleted, PublishFailed, FailCampaign, PublishRaises
<1>13. CASE UNCHANGED vars
  BY <1>13 DEF vars
<1> QED  BY <1>1, <1>2, <1>3, <1>4, <1>5, <1>6, <1>7, <1>8, <1>9, <1>10, <1>11, <1>12, <1>13
            DEF Next, JobStep, Disturbance

\* Without a fault every run in processing stays in somebody's hands.
LEMMA LostStep ==
  ASSUME TypeOK, LedgerInv, NoContactLost, [Next]_vars
  PROVE  NoContactLost'
<1> USE DEF LedgerInv, Shape, LinkedSettled, HeldInProcessing, Looping, Publishing, NoContactLost, Held, Fault, TypeOK, Goto, Forget, doc, ledger, locals, env
<1>1. CASE RequestRead \/ RequestWrite
  BY <1>1 DEF RequestRead, RequestWrite
<1>2. ASSUME NEW j \in Jobs, Enqueue(j) \/ Start(j) \/ Claimed(j) \/ ClaimRaises(j)
      PROVE  NoContactLost'
  BY <1>2 DEF Enqueue, Start, Claimed, ClaimRaises
<1>3. ASSUME NEW j \in Jobs, Claim(j)
      PROVE  NoContactLost'
  BY <1>3 DEF Claim
<1>4. ASSUME NEW j \in Jobs, NextRun(j)
      PROVE  NoContactLost'
  BY <1>4 DEF NextRun
<1>5. ASSUME NEW j \in Jobs, GetSlot(j) \/ DispatchReturns(j) \/ RunRaises(j) \/ BookkeepingRaises(j)
      PROVE  NoContactLost'
  BY <1>5 DEF GetSlot, DispatchReturns, RunRaises, BookkeepingRaises
<1>6. ASSUME NEW j \in Jobs, PlaceCall(j) \/ Count(j) \/ Reread(j) \/ LoopEnds(j)
      PROVE  NoContactLost'
  BY <1>6 DEF PlaceCall, Count, Reread, LoopEnds
<1>7. ASSUME NEW j \in Jobs, Mark(j)
      PROVE  NoContactLost'
  BY <1>7 DEF Mark
<1>8. ASSUME NEW j \in Jobs, MarkFailed(j) \/ MarkFailedRaises(j)
      PROVE  NoContactLost'
  BY <1>8 DEF MarkFailed, MarkFailedRaises
<1>9. ASSUME NEW j \in Jobs, NoSlot(j) \/ NoNumber(j) \/ Cancel(j)
      PROVE  NoContactLost'
  BY <1>9 DEF NoSlot, NoNumber, Cancel, Abort
<1>10. ASSUME NEW j \in Jobs, Return(j)
      PROVE  NoContactLost'
  BY <1>10 DEF Return, UnprocessedClaims
<1>11. ASSUME NEW j \in Jobs, ReturnRaises(j) \/ CancelPublish(j) \/ Crash(j)
      PROVE  NoContactLost'
  BY <1>11 DEF ReturnRaises, CancelPublish, Crash, Active, Steps
<1>12. ASSUME NEW j \in Jobs, PoolCount(j) \/ PublishCompleted(j) \/ PublishFailed(j) \/ FailCampaign(j)
                             \/ PublishRaises(j)
      PROVE  NoContactLost'
  BY <1>12 DEF PoolCount, PublishCompleted, PublishFailed, FailCampaign, PublishRaises
<1>13. CASE UNCHANGED vars
  BY <1>13 DEF vars
<1> QED  BY <1>1, <1>2, <1>3, <1>4, <1>5, <1>6, <1>7, <1>8, <1>9, <1>10, <1>11, <1>12, <1>13
            DEF Next, JobStep, Disturbance

\* Only a disturbed job ends without an event.
LEMMA ReportStep ==
  ASSUME TypeOK, Reported, [Next]_vars
  PROVE  Reported'
<1> USE DEF Reported, Fault, TypeOK, Goto, Forget, doc, ledger, locals, env
<1>1. CASE RequestRead \/ RequestWrite
  BY <1>1 DEF RequestRead, RequestWrite
<1>2. ASSUME NEW j \in Jobs, Enqueue(j) \/ Start(j) \/ Claimed(j) \/ ClaimRaises(j)
      PROVE  Reported'
  BY <1>2 DEF Enqueue, Start, Claimed, ClaimRaises
<1>3. ASSUME NEW j \in Jobs, Claim(j)
      PROVE  Reported'
  BY <1>3 DEF Claim
<1>4. ASSUME NEW j \in Jobs, NextRun(j)
      PROVE  Reported'
  BY <1>4 DEF NextRun
<1>5. ASSUME NEW j \in Jobs, GetSlot(j) \/ DispatchReturns(j) \/ RunRaises(j) \/ BookkeepingRaises(j)
      PROVE  Reported'
  BY <1>5 DEF GetSlot, DispatchReturns, RunRaises, BookkeepingRaises
<1>6. ASSUME NEW j \in Jobs, PlaceCall(j) \/ Count(j) \/ Reread(j) \/ LoopEnds(j)
      PROVE  Reported'
  BY <1>6 DEF PlaceCall, Count, Reread, LoopEnds
<1>7. ASSUME NEW j \in Jobs, Mark(j)
      PROVE  Reported'
  BY <1>7 DEF Mark
<1>8. ASSUME NEW j \in Jobs, MarkFailed(j) \/ MarkFailedRaises(j)
      PROVE  Reported'
  BY <1>8 DEF MarkFailed, MarkFailedRaises
<1>9. ASSUME NEW j \in Jobs, NoSlot(j) \/ NoNumber(j) \/ Cancel(j)
      PROVE  Reported'
  BY <1>9 DEF NoSlot, NoNumber, Cancel, Abort
<1>10. ASSUME NEW j \in Jobs, Return(j)
      PROVE  Reported'
  BY <1>10 DEF Return, UnprocessedClaims
<1>11. ASSUME NEW j \in Jobs, ReturnRaises(j) \/ CancelPublish(j) \/ Crash(j)
      PROVE  Reported'
  BY <1>11 DEF ReturnRaises, CancelPublish, Crash, Active, Steps
<1>12. ASSUME NEW j \in Jobs, PoolCount(j) \/ PublishCompleted(j) \/ PublishFailed(j) \/ FailCampaign(j)
                             \/ PublishRaises(j)
      PROVE  Reported'
  BY <1>12 DEF PoolCount, PublishCompleted, PublishFailed, FailCampaign, PublishRaises
<1>13. CASE UNCHANGED vars
  BY <1>13 DEF vars
<1> QED  BY <1>1, <1>2, <1>3, <1>4, <1>5, <1>6, <1>7, <1>8, <1>9, <1>10, <1>11, <1>12, <1>13
            DEF Next, JobStep, Disturbance

-----------------------------------------------------------------------------

\* The inductive invariant.
IInv == TypeOK /\ LedgerInv /\ Counted /\ Uncalled /\ NoContactLost /\ Reported

LEMMA InitIInv ==
  ASSUME Init
  PROVE  IInv
<1>1. TypeOK
  BY BoundsAssumption DEF Init, TypeOK, States, RunStates, Steps, Reasons
<1>2. LedgerInv
  BY DEF Init, LedgerInv, Shape, Disjoint, LinkedSettled, HeldInProcessing,
         ReturnsOnlyHeld, Looping, Publishing
<1>3. Counted
  BY FS_EmptySet DEF Init, Counted, CountNeverOverstates
<1>4. Uncalled /\ NoContactLost /\ Reported
  BY DEF Init, Uncalled, NoContactLost, Reported
<1> QED  BY <1>1, <1>2, <1>3, <1>4 DEF IInv

LEMMA NextIInv ==
  ASSUME IInv, [Next]_vars
  PROVE  IInv'
<1>1. TypeOK' /\ Shape' /\ Disjoint' /\ LinkedSettled'
  BY TypeStep, ShapeStep, DisjointStep, LinkedStep DEF IInv, LedgerInv
<1>2. HeldInProcessing' /\ ReturnsOnlyHeld'
  BY HeldStep, ReturnsStep DEF IInv
<1>3. Counted'
  BY CountStep DEF IInv, LedgerInv
<1>4. Uncalled' /\ NoContactLost' /\ Reported'
  BY CallStep, LostStep, ReportStep DEF IInv
<1> QED  BY <1>1, <1>2, <1>3, <1>4 DEF IInv, LedgerInv

\* Every reachable state satisfies the inductive invariant; the safety theorems
\* below follow from it.
THEOREM Invariance == Spec => []IInv
<1>1. IInv /\ [Next]_vars => IInv'
  BY NextIInv
<1> QED  BY InitIInv, <1>1, PTL DEF Spec

\* The documents and the local variables of the jobs keep their types.
THEOREM TypeCorrect == Spec => []TypeOK
<1>1. IInv => TypeOK
  BY DEF IInv
<1> QED  BY Invariance, <1>1, PTL

\* Two batches never work on the same run, however many overlap and however
\* often they are cancelled, crash and are run again.
THEOREM RunsExclusive == Spec => []ClaimsExclusive
<1>1. IInv => ClaimsExclusive
  BY DEF IInv, LedgerInv, Disjoint, ClaimsExclusive, Held
<1> QED  BY Invariance, <1>1, PTL

\* Without a crash or failing command no run is stranded in processing.
THEOREM ContactsKept == Spec => []NoContactLost
<1>1. IInv => NoContactLost
  BY DEF IInv
<1> QED  BY Invariance, <1>1, PTL

\* Without a cancellation no contact is called twice, whatever raises or crashes.
THEOREM CalledOnce == Spec => []OneCallUnlessCancelled
<1>1. IInv => OneCallUnlessCancelled
  BY DEF IInv, Uncalled, OneCallUnlessCancelled
<1> QED  BY Invariance, <1>1, PTL

\* processed_rows never exceeds the number of runs that carry a call.
THEOREM CountBounded == Spec => []CountNeverOverstates
<1>1. IInv => CountNeverOverstates
  BY DEF IInv, Counted
<1> QED  BY Invariance, <1>1, PTL

\* A job that nothing disturbed has published an event when it ends.
THEOREM JobsReport == Spec => []EndedJobsReported
<1>1. IInv => EndedJobsReported
  BY DEF IInv, Reported, EndedJobsReported
<1> QED  BY Invariance, <1>1, PTL

\* Only PlaceCall dials, and the run it dials carries no call yet.
LEMMA LinkedFrozen ==
  ASSUME IInv, [Next]_vars
  PROVE  \A r \in linked : calls'[r] = calls[r]
<1> SUFFICES ASSUME NEW r \in linked
             PROVE  calls'[r] = calls[r]
  OBVIOUS
<1>1. ASSUME NEW j \in Jobs, PlaceCall(j)
      PROVE  calls'[r] = calls[r]
  BY <1>1 DEF PlaceCall, IInv, TypeOK, LedgerInv, LinkedSettled, HeldInProcessing
<1>2. ASSUME NEW j \in Jobs, ~ PlaceCall(j), Enqueue(j) \/ JobStep(j) \/ Disturbance(j)
      PROVE  UNCHANGED calls
  BY <1>2 DEF Enqueue, JobStep, Disturbance, Start, Claim, Claimed, NextRun, GetSlot,
     DispatchReturns, RunRaises, Mark, Count, Reread, MarkFailed, LoopEnds, NoSlot, NoNumber,
     Return, PoolCount, PublishCompleted, PublishFailed, FailCampaign, Cancel, CancelPublish,
     Crash, ClaimRaises, BookkeepingRaises, MarkFailedRaises, ReturnRaises, PublishRaises, ledger
<1>3. CASE RequestRead \/ RequestWrite \/ UNCHANGED vars
  BY <1>3 DEF RequestRead, RequestWrite, vars, ledger
<1> QED  BY <1>1, <1>2, <1>3 DEF Next

\* A run that carries a call is never dialled again.
THEOREM LinkedSafe == Spec => LinkedNeverRedialled
<1>1. IInv /\ [Next]_vars => [\A r \in linked : calls'[r] = calls[r]]_vars
  BY LinkedFrozen
<1> QED  BY Invariance, <1>1, PTL DEF Spec, LinkedNeverRedialled

-----------------------------------------------------------------------------

\* What a batch gives back it had not settled: a step of the ledger.
LEMMA GiveBackMaps ==
  ASSUME TypeOK, NEW j \in Jobs, Return(j)
  PROVE  Ledger!Next
<1>1. UnprocessedClaims(j) \in SUBSET Runs
  BY DEF TypeOK, UnprocessedClaims
<1>2. Ledger!GiveBack(UnprocessedClaims(j))
  BY DEF Return, UnprocessedClaims, Ledger!GiveBack
<1> QED  BY <1>1, <1>2 DEF Ledger!Next

\* Every other step of a job takes, settles or leaves alone one run.
LEMMA OthersMap ==
  ASSUME IInv, NEW j \in Jobs, Enqueue(j) \/ JobStep(j) \/ Disturbance(j), ~ Return(j)
  PROVE  Ledger!Next \/ UNCHANGED Ledger!lvars
<1> USE DEF IInv, TypeOK, LedgerInv
<1>1. CASE Claim(j)
  <2>1. PICK r \in Runs : runState[r] = "queued" /\ runState' = [runState EXCEPT ![r] = "processing"]
    BY <1>1 DEF Claim
  <2>2. Ledger!Take(r)
    BY <1>1, <2>1 DEF Claim, Ledger!Take
  <2> QED  BY <2>2 DEF Ledger!Next
<1>2. CASE Mark(j)
  <2>1. PICK r \in Runs : cur[j] = {r}
    BY <1>2 DEF Mark, Shape, Looping
  <2>2. Ledger!Succeed(r)
    BY <1>2, <2>1 DEF Mark, HeldInProcessing, Ledger!Succeed
  <2> QED  BY <2>2 DEF Ledger!Next
<1>3. CASE MarkFailed(j)
  <2>1. PICK r \in Runs : cur[j] = {r}
    BY <1>3 DEF MarkFailed, Shape, Looping
  <2>2. Ledger!Fail(r)
    BY <1>3, <2>1 DEF MarkFailed, HeldInProcessing, Ledger!Fail
  <2> QED  BY <2>2 DEF Ledger!Next
<1>4. CASE ~ Claim(j) /\ ~ Mark(j) /\ ~ MarkFailed(j)
  <2>1. UNCHANGED <<runState, linked>>
    BY <1>4 DEF Enqueue, JobStep, Disturbance, Start, Claimed, NextRun, GetSlot, PlaceCall,
       DispatchReturns, RunRaises, Count, Reread, LoopEnds, NoSlot, NoNumber,
       PoolCount, PublishCompleted, PublishFailed, FailCampaign, Cancel, CancelPublish,
       Crash, ClaimRaises, BookkeepingRaises, MarkFailedRaises, ReturnRaises, PublishRaises,
       ledger
  <2> QED  BY <2>1 DEF Ledger!lvars
<1> QED  BY <1>1, <1>2, <1>3, <1>4

\* The jobs' commands on the queued_runs collection implement the ledger: a run
\* is taken only when queued, and a settled run never becomes queued again.
THEOREM Refinement == Spec => ImplementsLedger
<1>1. Init => Ledger!Init
  BY DEF Init, Ledger!Init
<1>2. IInv /\ [Next]_vars => [Ledger!Next]_(Ledger!lvars)
  <2> SUFFICES ASSUME IInv, [Next]_vars
               PROVE  Ledger!Next \/ UNCHANGED Ledger!lvars
    OBVIOUS
  <2>1. CASE RequestRead \/ RequestWrite \/ UNCHANGED vars
    BY <2>1 DEF RequestRead, RequestWrite, vars, ledger, Ledger!lvars
  <2>2. ASSUME NEW j \in Jobs, Enqueue(j) \/ JobStep(j) \/ Disturbance(j)
        PROVE  Ledger!Next \/ UNCHANGED Ledger!lvars
    BY <2>2, GiveBackMaps, OthersMap DEF IInv
  <2> QED  BY <2>1, <2>2 DEF Next
<1> QED  BY Invariance, <1>1, <1>2, PTL DEF Spec, ImplementsLedger, Ledger!Spec
==============================================================================
