----------------------------- MODULE BatchWorker -----------------------------
(***************************************************************************)
(* The worker's batch job: process_campaign_batch around process_batch, on *)
(* the queued runs and the document of one campaign.  Several jobs of the  *)
(* campaign may be in progress, in one worker or in several: every command *)
(* to MongoDB and every await is a step of its own.                        *)
(*                                                                         *)
(* The runs are those whose scheduled_for has passed.  What dispatch_call  *)
(* does to the concurrency slots is in CallSlots; here it either places a  *)
(* call, or raises before or after it has.                                 *)
(***************************************************************************)
EXTENDS Integers, FiniteSets

CONSTANTS
  Runs,              \* queued runs of the campaign
  Jobs,              \* ARQ jobs the orchestrator enqueues for it
  BatchSize,         \* CAMPAIGN_BATCH_SIZE
  MaxPoolAttempts,   \* MAX_PHONE_POOL_ATTEMPTS
  MaxFaults,         \* bound on crashes and failing commands
  MaxCancels         \* bound on cancellations (job timeout, shutdown)

ASSUME RunsAssumption == IsFiniteSet(Runs)

ASSUME BoundsAssumption ==
  /\ BatchSize \in Nat \ {0}
  /\ MaxPoolAttempts \in Nat \ {0}
  /\ MaxFaults \in Nat
  /\ MaxCancels \in Nat

VARIABLES
  state,          \* campaign.state
  processedRows,  \* campaign.processed_rows
  poolAttempts,   \* the counter phone_number_pool_exhausted_attempts
  runState,       \* run -> state of its document
  linked,         \* runs whose document has a call_id
  calls,          \* run -> phone calls placed for it, 2 standing for more
  job,            \* job -> where it stands
  claims,         \* job -> queued_runs, what it has claimed
  todo,           \* job -> claims the loop has not reached
  done,           \* job -> processed_ids
  cur,            \* job -> the run its loop is at
  seen,           \* job -> processed_rows in its copy of the campaign
  why,            \* job -> the exception that aborts its batch
  event,          \* job -> the event it has published
  api,            \* the request of the campaign API that has read the state
  faults,         \* crashes and failing commands so far
  cancels         \* cancellations so far

doc    == <<state, processedRows, poolAttempts>>
ledger == <<runState, linked, calls>>
locals == <<claims, todo, done, cur, seen, why>>
env    == <<api, faults, cancels>>
vars   == <<doc, ledger, job, locals, event, env>>

States == {"running", "paused", "failed"}
RunStates == {"queued", "processing", "processed", "failed"}
Steps == {"idle", "queued", "claiming", "loop", "slot", "dial", "placed",
          "marking", "counting", "rereading", "failing", "returning",
          "poolCount", "publishCompleted", "publishRetry", "publishFailed",
          "failCampaign", "ended"}
Active == Steps \ {"idle", "queued", "ended"}
Reasons == {"none", "cancelled", "noSlot", "noNumber"}

TypeOK ==
  /\ state \in States
  /\ processedRows \in Nat
  /\ poolAttempts \in 0..MaxPoolAttempts
  /\ runState \in [Runs -> RunStates]
  /\ linked \subseteq Runs
  /\ calls \in [Runs -> 0..2]
  /\ job \in [Jobs -> Steps]
  /\ claims \in [Jobs -> SUBSET Runs]
  /\ todo \in [Jobs -> SUBSET Runs]
  /\ done \in [Jobs -> SUBSET Runs]
  /\ cur \in [Jobs -> SUBSET Runs]
  /\ seen \in [Jobs -> Nat]
  /\ why \in [Jobs -> Reasons]
  /\ event \in [Jobs -> {"none", "completed", "failed"}]
  /\ api \in {"none", "pausing", "resuming"}
  /\ faults \in Nat
  /\ cancels \in Nat

\* A campaign whose source has been synced.
Init ==
  /\ state = "running"
  /\ processedRows = 0
  /\ poolAttempts = 0
  /\ runState = [r \in Runs |-> "queued"]
  /\ linked = {}
  /\ calls = [r \in Runs |-> 0]
  /\ job = [j \in Jobs |-> "idle"]
  /\ claims = [j \in Jobs |-> {}]
  /\ todo = [j \in Jobs |-> {}]
  /\ done = [j \in Jobs |-> {}]
  /\ cur = [j \in Jobs |-> {}]
  /\ seen = [j \in Jobs |-> 0]
  /\ why = [j \in Jobs |-> "none"]
  /\ event = [j \in Jobs |-> "none"]
  /\ api = "none"
  /\ faults = 0
  /\ cancels = 0

Goto(j, step) == job' = [job EXCEPT ![j] = step]

\* A command to MongoDB or Redis raises, or a worker dies.
Fault == faults < MaxFaults /\ faults' = faults + 1 /\ UNCHANGED <<api, cancels>>

-----------------------------------------------------------------------------
(* The orchestrator and the campaign API, as the worker sees them.         *)

\* _has_pending_work: due queued runs, or runs in processing.
Pending == \E r \in Runs : runState[r] \in {"queued", "processing"}

\* _schedule_next_batch; _batch_in_progress does not stop it, so a batch may
\* overlap the one before it.
Enqueue(j) ==
  /\ job[j] = "idle"
  /\ state = "running"
  /\ Pending
  /\ Goto(j, "queued")
  /\ UNCHANGED <<doc, ledger, locals, event, env>>

\* pause_campaign and resume_campaign read the state, check it, and write.
RequestRead ==
  /\ api = "none"
  /\ \/ state = "running" /\ api' = "pausing"
     \/ state = "paused" /\ api' = "resuming"
  /\ UNCHANGED <<doc, ledger, job, locals, event, faults, cancels>>

RequestWrite ==
  /\ \/ api = "pausing" /\ state' = "paused"
     \/ api = "resuming" /\ state' = "running"
  /\ api' = "none"
  /\ UNCHANGED <<processedRows, poolAttempts, ledger, job, locals, event, faults, cancels>>

-----------------------------------------------------------------------------
(* process_batch: claims.                                                  *)

\* The campaign is read once; a campaign that does not run gives 0 runs.
Start(j) ==
  /\ job[j] = "queued"
  /\ Goto(j, IF state = "running" THEN "claiming" ELSE "publishCompleted")
  /\ seen' = [seen EXCEPT ![j] = processedRows]
  /\ UNCHANGED <<doc, ledger, claims, todo, done, cur, why, event, env>>

\* The claim that does not ask for state "queued".
ClaimAny(j) ==
  /\ job[j] = "claiming"
  /\ Cardinality(claims[j]) < BatchSize
  /\ \E r \in Runs \ claims[j] :
       /\ runState[r] \in {"queued", "processing"}
       /\ runState' = [runState EXCEPT ![r] = "processing"]
       /\ claims' = [claims EXCEPT ![j] = @ \cup {r}]
       /\ todo' = [todo EXCEPT ![j] = @ \cup {r}]
  /\ UNCHANGED <<doc, linked, calls, job, done, cur, seen, why, event, env>>

\* One find_one_and_update of claim_queued_runs_for_processing.
Claim(j) ==
  /\ job[j] = "claiming"
  /\ Cardinality(claims[j]) < BatchSize
  /\ \E r \in Runs :
       /\ runState[r] = "queued"
       /\ runState' = [runState EXCEPT ![r] = "processing"]
       /\ claims' = [claims EXCEPT ![j] = @ \cup {r}]
       /\ todo' = [todo EXCEPT ![j] = @ \cup {r}]
  /\ UNCHANGED <<doc, linked, calls, job, done, cur, seen, why, event, env>>

\* The batch is full, or nothing is queued.
Claimed(j) ==
  /\ job[j] = "claiming"
  /\ \/ Cardinality(claims[j]) >= BatchSize
     \/ \A r \in Runs : runState[r] # "queued"
  /\ Goto(j, IF claims[j] = {} THEN "publishCompleted" ELSE "loop")
  /\ UNCHANGED <<doc, ledger, locals, event, env>>

\* One of the claims raises: the runs claimed before it are in no list.
ClaimRaises(j) ==
  /\ job[j] = "claiming"
  /\ Goto(j, "publishFailed")
  /\ claims' = [claims EXCEPT ![j] = {}]
  /\ todo' = [todo EXCEPT ![j] = {}]
  /\ Fault
  /\ UNCHANGED <<doc, ledger, done, cur, seen, why, event>>

-----------------------------------------------------------------------------
(* process_batch: the loop.                                                *)

NextRun(j) ==
  /\ job[j] = "loop"
  /\ \E r \in todo[j] :
       /\ cur' = [cur EXCEPT ![j] = {r}]
       /\ todo' = [todo EXCEPT ![j] = @ \ {r}]
  /\ Goto(j, "slot")
  /\ UNCHANGED <<doc, ledger, claims, done, seen, why, event, env>>

\* A token of the second and a concurrency slot.
GetSlot(j) ==
  /\ job[j] = "slot"
  /\ Goto(j, "dial")
  /\ UNCHANGED <<doc, ledger, locals, event, env>>

\* dispatch_call places the call.
PlaceCall(j) ==
  /\ job[j] = "dial"
  /\ calls' = [r \in Runs |-> IF r \in cur[j] /\ calls[r] < 2 THEN calls[r] + 1 ELSE calls[r]]
  /\ Goto(j, "placed")
  /\ UNCHANGED <<doc, runState, linked, locals, event, env>>

\* ... links it to the run in the call log, binds its slot, and returns.
DispatchReturns(j) ==
  /\ job[j] = "placed"
  /\ Goto(j, "marking")
  /\ UNCHANGED <<doc, ledger, locals, event, env>>

\* A failed dispatch given back to the queue instead of being marked failed.
RunRaisesAndReturns(j) ==
  /\ job[j] \in {"slot", "dial", "placed"}
  /\ why' = [why EXCEPT ![j] = "noSlot"]
  /\ Goto(j, "returning")
  /\ UNCHANGED <<doc, ledger, claims, todo, done, cur, seen, event, env>>

\* Any other exception of the rate limiter or of dispatch_call, with the call
\* placed or not.
RunRaises(j) ==
  /\ job[j] \in {"slot", "dial", "placed"}
  /\ Goto(j, "failing")
  /\ UNCHANGED <<doc, ledger, locals, event, env>>

Mark(j) ==
  /\ job[j] = "marking"
  /\ runState' = [r \in Runs |-> IF r \in cur[j] THEN "processed" ELSE runState[r]]
  /\ linked' = linked \cup cur[j]
  /\ done' = [done EXCEPT ![j] = @ \cup cur[j]]
  /\ Goto(j, "counting")
  /\ UNCHANGED <<doc, calls, claims, todo, cur, seen, why, event, env>>

\* A counter written from a value one too high.
CountTwice(j) ==
  /\ job[j] = "counting"
  /\ processedRows' = processedRows + 2
  /\ Goto(j, "rereading")
  /\ UNCHANGED <<state, poolAttempts, ledger, locals, event, env>>

\* A counter of what is left instead of what is done.
CountDown(j) ==
  /\ job[j] = "counting"
  /\ processedRows' = seen[j] - 1
  /\ Goto(j, "rereading")
  /\ UNCHANGED <<state, poolAttempts, ledger, locals, event, env>>

\* processed_rows of the job's own copy, plus one.
Count(j) ==
  /\ job[j] = "counting"
  /\ processedRows' = seen[j] + 1
  /\ Goto(j, "rereading")
  /\ UNCHANGED <<state, poolAttempts, ledger, locals, event, env>>

Reread(j) ==
  /\ job[j] = "rereading"
  /\ seen' = [seen EXCEPT ![j] = processedRows]
  /\ cur' = [cur EXCEPT ![j] = {}]
  /\ Goto(j, "loop")
  /\ UNCHANGED <<doc, ledger, claims, todo, done, why, event, env>>

\* The bookkeeping of a dispatched run raises.
BookkeepingRaises(j) ==
  /\ job[j] \in {"marking", "counting", "rereading"}
  /\ Goto(j, "failing")
  /\ Fault
  /\ UNCHANGED <<doc, ledger, locals, event>>

MarkFailed(j) ==
  /\ job[j] = "failing"
  /\ runState' = [r \in Runs |-> IF r \in cur[j] THEN "failed" ELSE runState[r]]
  /\ cur' = [cur EXCEPT ![j] = {}]
  /\ Goto(j, "loop")
  /\ UNCHANGED <<doc, linked, calls, claims, todo, done, seen, why, event, env>>

\* It raises out of the loop, which gives nothing back.
MarkFailedRaises(j) ==
  /\ job[j] = "failing"
  /\ cur' = [cur EXCEPT ![j] = {}]
  /\ todo' = [todo EXCEPT ![j] = {}]
  /\ Goto(j, "publishFailed")
  /\ Fault
  /\ UNCHANGED <<doc, ledger, claims, done, seen, why, event>>

\* The loop is over; a batch that placed a call clears the pool counter.
LoopEnds(j) ==
  /\ job[j] = "loop"
  /\ todo[j] = {}
  /\ poolAttempts' = IF done[j] # {} THEN 0 ELSE poolAttempts
  /\ Goto(j, "publishCompleted")
  /\ UNCHANGED <<state, processedRows, ledger, locals, event, env>>

-----------------------------------------------------------------------------
(* process_batch: what aborts it.                                          *)

Abort(j, reason) ==
  /\ why' = [why EXCEPT ![j] = reason]
  /\ Goto(j, "returning")

\* ConcurrentSlotAcquisitionError after 120 s without a slot.
NoSlot(j) ==
  /\ job[j] = "slot"
  /\ Abort(j, "noSlot")
  /\ UNCHANGED <<doc, ledger, claims, todo, done, cur, seen, event, env>>

\* PhoneNumberPoolExhaustedError: every number of the agent is in use.
NoNumber(j) ==
  /\ job[j] = "dial"
  /\ Abort(j, "noNumber")
  /\ UNCHANGED <<doc, ledger, claims, todo, done, cur, seen, event, env>>

\* CancelledError at an await of the loop.
Cancel(j) ==
  /\ job[j] \in {"slot", "dial", "placed"}
  /\ Abort(j, "cancelled")
  /\ cancels < MaxCancels
  /\ cancels' = cancels + 1
  /\ UNCHANGED <<doc, ledger, claims, todo, done, cur, seen, event, api, faults>>

\* The update without the conditions on state and call_id.
UnfilteredClaims(j) == claims[j] \ done[j]

\* The update without the list of processed ids either.
AllClaims(j) == claims[j]

\* What return_processing_queued_runs_without_call selects.
UnprocessedClaims(j) ==
  {r \in claims[j] \ done[j] : runState[r] = "processing" /\ r \notin linked}

Forget(j) ==
  /\ claims' = [claims EXCEPT ![j] = {}]
  /\ todo' = [todo EXCEPT ![j] = {}]
  /\ done' = [done EXCEPT ![j] = {}]
  /\ cur' = [cur EXCEPT ![j] = {}]
  /\ UNCHANGED <<seen, why>>

\* An aborted batch that publishes nothing.
ReturnQuietly(j) ==
  /\ job[j] = "returning"
  /\ runState' = [r \in Runs |-> IF r \in UnprocessedClaims(j) THEN "queued" ELSE runState[r]]
  /\ Forget(j)
  /\ Goto(j, "ended")
  /\ UNCHANGED <<doc, linked, calls, event, env>>

\* Only the claims the loop has not reached go back.
ReturnRest(j) ==
  /\ job[j] = "returning"
  /\ runState' = [r \in Runs |-> IF r \in todo[j] THEN "queued" ELSE runState[r]]
  /\ Forget(j)
  /\ Goto(j, "publishFailed")
  /\ UNCHANGED <<doc, linked, calls, event, env>>

\* _return_unprocessed_claims, then the except branch of the job.  ARQ runs a
\* job again that a shutdown cancelled, and not one that timed out.
Return(j) ==
  /\ job[j] = "returning"
  /\ runState' = [r \in Runs |-> IF r \in UnprocessedClaims(j) THEN "queued" ELSE runState[r]]
  /\ Forget(j)
  /\ \/ why[j] = "cancelled" /\ \E step \in {"queued", "ended"} : Goto(j, step)
     \/ why[j] = "noSlot" /\ Goto(j, "publishFailed")
     \/ why[j] = "noNumber" /\ Goto(j, "poolCount")
  /\ UNCHANGED <<doc, linked, calls, event, env>>

\* The update raises: whatever aborted the batch, its error takes the place.
ReturnRaises(j) ==
  /\ job[j] = "returning"
  /\ Forget(j)
  /\ Goto(j, "publishFailed")
  /\ Fault
  /\ UNCHANGED <<doc, ledger, event>>

-----------------------------------------------------------------------------
(* process_campaign_batch: the outcome.                                    *)

\* The third exhausted pool in a row is fatal, the ones before are not; the
\* counter stays at the maximum instead of growing past it.
PoolCount(j) ==
  /\ job[j] = "poolCount"
  /\ poolAttempts' = IF poolAttempts < MaxPoolAttempts THEN poolAttempts + 1 ELSE poolAttempts
  /\ Goto(j, IF poolAttempts + 1 < MaxPoolAttempts THEN "publishRetry" ELSE "publishFailed")
  /\ UNCHANGED <<state, processedRows, ledger, locals, event, env>>

PublishCompleted(j) ==
  /\ job[j] \in {"publishCompleted", "publishRetry"}
  /\ event' = [event EXCEPT ![j] = "completed"]
  /\ Forget(j)
  /\ Goto(j, "ended")
  /\ UNCHANGED <<doc, ledger, env>>

PublishFailed(j) ==
  /\ job[j] = "publishFailed"
  /\ event' = [event EXCEPT ![j] = "failed"]
  /\ Goto(j, "failCampaign")
  /\ UNCHANGED <<doc, ledger, locals, env>>

\* update_campaign(state="failed"), whatever the state has become.
FailCampaign(j) ==
  /\ job[j] = "failCampaign"
  /\ state' = "failed"
  /\ Forget(j)
  /\ Goto(j, "ended")
  /\ UNCHANGED <<processedRows, poolAttempts, ledger, event, env>>

\* Publishing raises: in the try block the batch counts as failed, in an except
\* branch the job is over.
PublishRaises(j) ==
  /\ \/ job[j] = "publishCompleted" /\ Goto(j, "publishFailed") /\ UNCHANGED locals
     \/ job[j] \in {"publishRetry", "publishFailed"} /\ Goto(j, "ended") /\ Forget(j)
  /\ Fault
  /\ UNCHANGED <<doc, ledger, event>>

\* CancelledError while it publishes: no branch catches it.
CancelPublish(j) ==
  /\ job[j] \in {"publishCompleted", "publishRetry", "publishFailed"}
  /\ \E step \in {"queued", "ended"} : Goto(j, step)
  /\ Forget(j)
  /\ cancels < MaxCancels
  /\ cancels' = cancels + 1
  /\ UNCHANGED <<doc, ledger, event, api, faults>>

\* The worker dies; ARQ runs the job again unless it has been tried too often.
Crash(j) ==
  /\ job[j] \in Active
  /\ \E step \in {"queued", "ended"} : Goto(j, step)
  /\ Forget(j)
  /\ Fault
  /\ UNCHANGED <<doc, ledger, event>>

-----------------------------------------------------------------------------

\* What a worker does of its own accord.
JobStep(j) ==
  \/ Start(j) \/ Claim(j) \/ Claimed(j)
  \/ NextRun(j) \/ GetSlot(j) \/ PlaceCall(j) \/ DispatchReturns(j) \/ RunRaises(j)
  \/ Mark(j) \/ Count(j) \/ Reread(j) \/ MarkFailed(j) \/ LoopEnds(j)
  \/ NoSlot(j) \/ NoNumber(j) \/ Return(j)
  \/ PoolCount(j) \/ PublishCompleted(j) \/ PublishFailed(j) \/ FailCampaign(j)

\* What happens to it.
Disturbance(j) ==
  \/ Cancel(j) \/ CancelPublish(j) \/ Crash(j)
  \/ ClaimRaises(j) \/ BookkeepingRaises(j) \/ MarkFailedRaises(j)
  \/ ReturnRaises(j) \/ PublishRaises(j)

Next ==
  \/ RequestRead \/ RequestWrite
  \/ \E j \in Jobs : Enqueue(j) \/ JobStep(j) \/ Disturbance(j)

Spec == Init /\ [][Next]_vars

-----------------------------------------------------------------------------
(* What must hold.                                                         *)

\* The runs a batch is responsible for.
Held(j) == todo[j] \cup (IF job[j] \in {"counting", "rereading"} THEN {} ELSE cur[j])

\* campaigns.md: two workers cannot claim the same run.  Not at the claim only:
\* while a batch works down its list, no other batch, no retry of a cancelled
\* one and no returned claim shares a run with it.
ClaimsExclusive ==
  \A j, k \in Jobs : j # k => Held(j) \cap Held(k) = {}

\* call-concurrency.md: no contact is lost.  Without a crash or a failing
\* command, a run in processing is in the hands of a batch that will settle it
\* or give it back; exceptions and cancellations strand none.
NoContactLost ==
  faults = 0 =>
    \A r \in Runs : runState[r] = "processing" => \E j \in Jobs : r \in Held(j)

\* A contact is called once, even when the dispatch of its call raises; only a
\* cancelled batch can have a run called again.
OneCallUnlessCancelled ==
  cancels = 0 => \A r \in Runs : calls[r] <= 1

\* Once a run carries its call_id it is not dialled any more, cancelled or not.
LinkedNeverRedialled ==
  [][\A r \in linked : calls'[r] = calls[r]]_vars

\* Overlapping batches write processed_rows from stale copies; they may lose
\* increments, but progress is never overstated.
CountNeverOverstates == processedRows <= Cardinality(linked)

\* The orchestrator goes on by events: unless it was disturbed, a job that is
\* over has published one.
EndedJobsReported ==
  faults = 0 /\ cancels = 0 =>
    \A j \in Jobs : job[j] = "ended" => event[j] # "none"

\* The commands on the documents implement the ledger.
Ledger == INSTANCE RunLedger WITH phase <- runState

ImplementsLedger == Ledger!Spec

-----------------------------------------------------------------------------
(* What the documentation says of the code and the code does not do.       *)

\* guides/concepts/campaigns.md: a run that already produced a call is never
\* dialled again.  It is, when the batch is cancelled between the call and the
\* update that links it.
RunDialledOnce == \A r \in Runs : calls[r] <= 1
==============================================================================
