---------------------------- MODULE Orchestrator ----------------------------
(***************************************************************************)
(* The campaign orchestrator for one campaign: the listener on the event   *)
(* channel and the completion monitor, two coroutines of one process that  *)
(* share three dictionaries, with the worker's batches, the calls they     *)
(* place and the terminal reports of these calls around them.  Every await *)
(* of the two coroutines ends a step; batches are coarse here (BatchWorker *)
(* has their inside).                                                      *)
(*                                                                         *)
(* Time passes in ticks of the five seconds a scheduling lock lasts.  What *)
(* a coroutine does between two sleeps takes less than a tick, a batch at  *)
(* most JobTime ticks and a call at most CallTime.                         *)
(***************************************************************************)
EXTENDS Integers, FiniteSets, Sequences

CONSTANTS
  Contacts,       \* rows of the source; a contact has one queued run at a time
  Jobs,           \* places in the queue of process_campaign_batch
  BatchSize,      \* CAMPAIGN_BATCH_SIZE
  MaxRetries,     \* retry_config.max_retries
  RetryDelay,     \* retry_config.retry_delay_seconds
  Sweep,          \* completion_check_interval
  BatchTimeout,   \* the 300 s after which a batch counts as lost
  Idle,           \* completion_timeout
  JobTime,        \* bound on the age of an enqueued batch
  CallTime,       \* bound on the time until the end of a call is reported
  Kinds,          \* kinds of trouble a behaviour may have, once each
  MaxTroubles     \* bound on how many of them it has

ASSUME TimesAssumption ==
  /\ {BatchSize, RetryDelay, Sweep, BatchTimeout, Idle, JobTime, CallTime} \subseteq Nat \ {0}
  /\ MaxRetries \in Nat /\ MaxTroubles \in Nat
  /\ IsFiniteSet(Contacts)

VARIABLES
  state,        \* campaign.state
  docAge,       \* ticks since last_activity_at and last_batch_scheduled_at
  failedRows,   \* campaign.failed_rows
  attempt,      \* contact -> retry_count of its newest queued run
  run,          \* contact -> what has become of that run and of its call
  wait,         \* contact -> ticks until the run is due, or the call reported
  jobs,         \* job -> where it stands
  held,         \* job -> contacts whose runs it has claimed
  age,          \* job -> ticks since it was enqueued
  inbox,        \* campaign_events as delivered to the listener
  pc,           \* coroutine -> where it stands
  event,        \* the retry event the listener is handling
  ask,          \* why the monitor asks for pending work
  seen,         \* docAge in the monitor's copy of the campaign
  nap,          \* ticks until the monitor's next sweep
  inProg,       \* age of _batch_in_progress[campaign], None when absent
  act,          \* age of _last_activity[campaign], None when absent
  lock,         \* _processing_locks[campaign]
  timers,       \* ages of pending _release_lock_after_delay tasks; those
                \* started in the same tick are kept as one
  window,       \* _is_within_schedule
  troubles      \* the trouble there has been

campaign == <<state, docAge, failedRows>>
rows     == <<attempt, run, wait>>
worker   == <<jobs, held, age>>
monitor  == <<ask, seen, nap>>
memory   == <<inProg, act, lock, timers>>
env      == <<window, troubles>>
vars     == <<campaign, rows, worker, inbox, pc, event, monitor, memory, env>>

None == -1
Coroutines == {"L", "M"}     \* the listener and the monitor
Scheduling == {"reading", "pausing", "tripping", "countQueued", "countProcessing",
               "enqueue", "note"}
ListenerSteps == {"down", "subscribing", "idle", "reread", "insert", "inserted", "giveUp"}
MonitorSteps == {"down", "asleep", "check", "askQueued", "askProcessing",
                 "completing", "clearing"}
Events == [type : {"sync", "completed", "failed", "tripped"}]
            \cup [type : {"retry"}, contact : Contacts, attempt : 0..MaxRetries]

TypeOK ==
  /\ state \in {"running", "paused", "completed", "failed"}
  /\ docAge \in 0..Idle
  /\ failedRows \in Nat
  /\ attempt \in [Contacts -> 0..MaxRetries]
  /\ run \in [Contacts -> {"queued", "processing", "called", "settled", "failed"}]
  /\ wait \in [Contacts -> Nat]
  /\ jobs \in [Jobs -> {"none", "queued", "working", "failing"}]
  /\ held \in [Jobs -> SUBSET Contacts]
  /\ age \in [Jobs -> 0..JobTime]
  /\ inbox \in Seq(Events)
  /\ pc \in [Coroutines -> Scheduling \cup ListenerSteps \cup MonitorSteps]
  /\ pc["L"] \in ListenerSteps \cup Scheduling
  /\ pc["M"] \in MonitorSteps \cup Scheduling
  /\ event \in {<<>>} \cup (Contacts \X (0..MaxRetries))
  /\ ask \in {"stale", "idle", "mark", "complete"}
  /\ seen \in 0..Idle
  /\ nap \in 0..Sweep
  /\ inProg \in {None} \cup 0..(BatchTimeout + 1)
  /\ act \in {None} \cup 0..Idle
  /\ lock \in {"free", "new", "old"}
  /\ timers \subseteq {"new", "old"}
  /\ window \in BOOLEAN
  /\ troubles \subseteq Kinds

\* The source has been synced, and sync_completed is on its way.
Init ==
  /\ state = "running"
  /\ docAge = 0
  /\ failedRows = 0
  /\ attempt = [c \in Contacts |-> 0]
  /\ run = [c \in Contacts |-> "queued"]
  /\ wait = [c \in Contacts |-> 0]
  /\ jobs = [j \in Jobs |-> "none"]
  /\ held = [j \in Jobs |-> {}]
  /\ age = [j \in Jobs |-> 0]
  /\ inbox = <<[type |-> "sync"]>>
  /\ pc = [p \in Coroutines |-> IF p = "L" THEN "idle" ELSE "asleep"]
  /\ event = <<>>
  /\ ask = "idle"
  /\ seen = 0
  /\ nap = Sweep
  /\ inProg = None
  /\ act = None
  /\ lock = "free"
  /\ timers = {}
  /\ window = TRUE
  /\ troubles = {}

Goto(p, step) == pc' = [pc EXCEPT ![p] = step]

Trouble(kind) ==
  /\ kind \in Kinds \ troubles
  /\ Cardinality(troubles) < MaxTroubles
  /\ troubles' = troubles \cup {kind}
  /\ UNCHANGED window

\* Pub/sub delivers to whoever is subscribed.
Publish(e) ==
  inbox' = IF pc["L"] \in {"down", "subscribing"} THEN inbox ELSE Append(inbox, e)

Retry(c) == [type |-> "retry", contact |-> c, attempt |-> attempt[c]]

-----------------------------------------------------------------------------
(* _schedule_next_batch, for either coroutine p.                           *)

\* What follows the pass: the listener records activity and takes the next
\* event, the monitor is done with the campaign and sleeps.
MonitorSleeps ==
  /\ ask' = "idle" /\ seen' = 0 /\ nap' = Sweep
  /\ Goto("M", "asleep")

Leave(p) ==
  IF p = "L" THEN Goto("L", "idle") /\ act' = 0 /\ UNCHANGED monitor
             ELSE MonitorSleeps /\ UNCHANGED act

\* A lock younger than 5 s turns the pass away; one from the tick before may
\* be on either side of that.
Enter(p) ==
  /\ \/ /\ lock \in {"free", "old"}
        /\ lock' = "new"
        /\ Goto(p, "reading")
        /\ UNCHANGED <<act, monitor>>
     \/ /\ lock \in {"new", "old"}
        /\ Leave(p)
        /\ UNCHANGED lock
  /\ UNCHANGED <<inProg, timers>>

\* The finally clause starts the timer that will remove the lock.
Finish(p) ==
  /\ Leave(p)
  /\ timers' = timers \cup {"new"}
  /\ UNCHANGED <<inProg, lock>>

\* The campaign is read and the breaker asked; a campaign that does not run,
\* or may not call now, is left alone.
ReadCampaign(p) ==
  /\ pc[p] = "reading"
  /\ IF state = "running" /\ window
     THEN Goto(p, "countQueued") /\ UNCHANGED <<monitor, memory>>
     ELSE Finish(p)
  /\ UNCHANGED <<campaign, rows, worker, inbox, event, env>>

\* Enough of the calls in the breaker's window have failed.
BreakerOpen(p) ==
  /\ pc[p] = "reading"
  /\ state = "running" /\ window
  /\ \E c \in Contacts : run[c] = "settled"
  /\ Goto(p, "pausing")
  /\ Trouble("trip")
  /\ UNCHANGED <<campaign, rows, worker, inbox, event, monitor, memory>>

PauseByBreaker(p) ==
  /\ pc[p] = "pausing"
  /\ state' = "paused"
  /\ Goto(p, "tripping")
  /\ UNCHANGED <<docAge, failedRows, rows, worker, inbox, event, monitor, memory, env>>

\* circuit_breaker_tripped is published, the campaign's memory cleared; then
\* the finally clause, and for the listener the activity it records.
Tripped(p) ==
  /\ pc[p] = "tripping"
  /\ Publish([type |-> "tripped"])
  /\ IF p = "L" THEN Goto("L", "idle") /\ act' = 0 /\ UNCHANGED monitor
                ELSE MonitorSleeps /\ act' = None
  /\ inProg' = None
  /\ lock' = "free"
  /\ timers' = timers \cup {"new"}
  /\ UNCHANGED <<campaign, rows, worker, event, env>>

\* _has_pending_work: two counts, of the due runs and of those in processing.
Due(c) == run[c] = "queued" /\ wait[c] = 0
SomeDue == \E c \in Contacts : Due(c)
SomeProcessing == \E c \in Contacts : run[c] = "processing"

CountQueued(p) ==
  /\ pc[p] = "countQueued"
  /\ Goto(p, IF SomeDue THEN "enqueue" ELSE "countProcessing")
  /\ UNCHANGED <<campaign, rows, worker, inbox, event, monitor, memory, env>>

CountProcessing(p) ==
  /\ pc[p] = "countProcessing"
  /\ IF SomeProcessing THEN Goto(p, "enqueue") /\ UNCHANGED <<monitor, memory>>
                       ELSE Finish(p)
  /\ UNCHANGED <<campaign, rows, worker, inbox, event, env>>

Enqueue(p) ==
  /\ pc[p] = "enqueue"
  /\ \E j \in Jobs :
       /\ jobs[j] = "none"
       /\ jobs' = [jobs EXCEPT ![j] = "queued"]
       /\ age' = [age EXCEPT ![j] = 0]
  /\ Goto(p, "note")
  /\ UNCHANGED <<campaign, rows, held, inbox, event, monitor, memory, env>>

\* The job may have run by now, and its event be in the inbox.
NoteBatch(p) ==
  /\ pc[p] = "note"
  /\ inProg' = 0
  /\ docAge' = 0
  /\ Leave(p)
  /\ timers' = timers \cup {"new"}
  /\ UNCHANGED <<state, failedRows, rows, worker, inbox, event, lock, env>>

SchedulePass(p) ==
  \/ ReadCampaign(p) \/ BreakerOpen(p) \/ PauseByBreaker(p) \/ Tripped(p)
  \/ CountQueued(p) \/ CountProcessing(p) \/ Enqueue(p) \/ NoteBatch(p)

-----------------------------------------------------------------------------
(* _listen_for_events and _handle_event.                                   *)

Receive(type) ==
  /\ pc["L"] = "idle"
  /\ inbox # <<>>
  /\ Head(inbox).type = type
  /\ inbox' = Tail(inbox)

\* _clear_campaign_state.
ClearCampaign ==
  /\ inProg' = None
  /\ act' = None
  /\ lock' = "free"
  /\ UNCHANGED timers

HandleSync ==
  /\ Receive("sync")
  /\ Enter("L")
  /\ UNCHANGED <<campaign, rows, worker, event, env>>

HandleCompleted ==
  /\ Receive("completed")
  /\ inProg' = None
  /\ Goto("L", "reread")
  /\ UNCHANGED <<campaign, rows, worker, event, monitor, act, lock, timers, env>>

\* The campaign is read again; one that does not run is forgotten.
Reread ==
  /\ pc["L"] = "reread"
  /\ IF state = "running" THEN Enter("L")
                          ELSE ClearCampaign /\ Goto("L", "idle") /\ UNCHANGED monitor
  /\ UNCHANGED <<campaign, rows, worker, inbox, event, env>>

HandleFailed ==
  /\ Receive("failed")
  /\ inProg' = None
  /\ act' = 0
  /\ UNCHANGED <<campaign, rows, worker, pc, event, monitor, lock, timers, env>>

HandleTripped ==
  /\ Receive("tripped")
  /\ ClearCampaign
  /\ UNCHANGED <<campaign, rows, worker, pc, event, monitor, env>>

\* A contact with one retry more than it may have.
HandleRetryOnceMore ==
  /\ Receive("retry")
  /\ event' = <<Head(inbox).contact, Head(inbox).attempt>>
  /\ Goto("L", IF Head(inbox).attempt > MaxRetries THEN "giveUp" ELSE "insert")
  /\ UNCHANGED <<campaign, rows, worker, monitor, memory, env>>

\* A contact that counts as failed with its last retry still to come.
HandleRetryOnceLess ==
  /\ Receive("retry")
  /\ event' = <<Head(inbox).contact, Head(inbox).attempt>>
  /\ Goto("L", IF Head(inbox).attempt + 1 >= MaxRetries THEN "giveUp" ELSE "insert")
  /\ UNCHANGED <<campaign, rows, worker, monitor, memory, env>>

\* The campaign and the run are read; nobody else writes failed_rows or
\* retry_count, so the copies do not get stale.
HandleRetry ==
  /\ Receive("retry")
  /\ event' = <<Head(inbox).contact, Head(inbox).attempt>>
  /\ Goto("L", IF Head(inbox).attempt >= MaxRetries THEN "giveUp" ELSE "insert")
  /\ UNCHANGED <<campaign, rows, worker, monitor, memory, env>>

GiveUp ==
  /\ pc["L"] = "giveUp"
  /\ failedRows' = failedRows + 1
  /\ Goto("L", "idle")
  /\ event' = <<>>
  /\ UNCHANGED <<state, docAge, rows, worker, inbox, monitor, memory, env>>

\* create_queued_run; a retry in a campaign that has ended is created too.
InsertRetry ==
  LET c == event[1]
      n == event[2]
  IN /\ pc["L"] = "insert"
     /\ attempt[c] = n
     /\ attempt' = [attempt EXCEPT ![c] = n + 1]
     /\ run' = [run EXCEPT ![c] = "queued"]
     /\ wait' = [wait EXCEPT ![c] = RetryDelay]
     /\ Goto("L", "inserted")
     /\ UNCHANGED <<campaign, worker, inbox, event, monitor, memory, env>>

RetryInserted ==
  /\ pc["L"] = "inserted"
  /\ act' = 0
  /\ Goto("L", "idle")
  /\ event' = <<>>
  /\ UNCHANGED <<campaign, rows, worker, inbox, monitor, inProg, lock, timers, env>>

Listener ==
  \/ HandleSync \/ HandleCompleted \/ Reread \/ HandleFailed \/ HandleTripped
  \/ HandleRetry \/ GiveUp \/ InsertRetry \/ RetryInserted
  \/ SchedulePass("L")

-----------------------------------------------------------------------------
(* _monitor_completion.                                                    *)

\* get_campaigns_by_status(["running"]).
ReadRunning ==
  /\ pc["M"] = "asleep"
  /\ nap = 0
  /\ IF state = "running"
     THEN seen' = docAge /\ Goto("M", "check") /\ UNCHANGED nap
     ELSE nap' = Sweep /\ UNCHANGED <<seen, pc>>
  /\ UNCHANGED <<campaign, rows, worker, inbox, event, ask, memory, env>>

AskPending(why) ==
  /\ ask' = why
  /\ Goto("M", "askQueued")
  /\ UNCHANGED <<seen, nap, act, lock, timers>>

\* The check that never gives a batch up.
CheckPatient ==
  /\ pc["M"] = "check"
  /\ IF inProg = None THEN AskPending("idle") ELSE Leave("M") /\ UNCHANGED <<lock, timers>>
  /\ UNCHANGED <<campaign, rows, worker, inbox, event, inProg, env>>

Check ==
  /\ pc["M"] = "check"
  /\ \/ inProg > BatchTimeout /\ AskPending("stale") /\ inProg' = None
     \/ inProg = None /\ AskPending("idle") /\ UNCHANGED inProg
     \/ inProg \in 0..BatchTimeout /\ Leave("M") /\ UNCHANGED <<inProg, lock, timers>>
  /\ UNCHANGED <<campaign, rows, worker, inbox, event, env>>

\* There is work: a batch when a sweep looks for work, no completion when it
\* looks for none.
WorkFound ==
  IF ask = "stale" \/ (ask = "idle" /\ window)
  THEN Enter("M")
  ELSE Leave("M") /\ UNCHANGED <<inProg, lock, timers>>

\* Inactivity that only memory tells.
InactiveInMemory == act = None \/ act >= Idle

\* No inactivity asked for.
InactiveAlways == TRUE

\* _last_activity, else last_activity_at or what stands in for it.
Inactive == IF act = None THEN seen >= Idle ELSE act >= Idle

\* There is no work: on to the next check, unless a batch is in progress.
NoWorkFound ==
  \/ ask = "stale" /\ inProg = None /\ AskPending("idle") /\ UNCHANGED inProg
  \/ ask = "idle" /\ inProg = None /\ AskPending("mark") /\ UNCHANGED inProg
  \/ ask = "mark" /\ Inactive /\ AskPending("complete") /\ UNCHANGED inProg
  \/ ask = "complete" /\ Goto("M", "completing") /\ UNCHANGED <<monitor, memory>>
  \/ /\ \/ ask \in {"stale", "idle"} /\ inProg # None
        \/ ask = "mark" /\ ~Inactive
     /\ Leave("M")
     /\ UNCHANGED <<inProg, lock, timers>>

AskQueued ==
  /\ pc["M"] = "askQueued"
  /\ IF SomeDue THEN WorkFound
                ELSE Goto("M", "askProcessing") /\ UNCHANGED <<monitor, memory>>
  /\ UNCHANGED <<campaign, rows, worker, inbox, event, env>>

AskProcessing ==
  /\ pc["M"] = "askProcessing"
  /\ IF SomeProcessing THEN WorkFound ELSE NoWorkFound
  /\ UNCHANGED <<campaign, rows, worker, inbox, event, env>>

\* _complete_campaign writes the state it has decided on, whatever it is now.
Complete ==
  /\ pc["M"] = "completing"
  /\ state' = "completed"
  /\ Goto("M", "clearing")
  /\ UNCHANGED <<docAge, failedRows, rows, worker, inbox, event, monitor, memory, env>>

Completed ==
  /\ pc["M"] = "clearing"
  /\ ClearCampaign
  /\ MonitorSleeps
  /\ UNCHANGED <<campaign, rows, worker, inbox, event, env>>

Monitor ==
  \/ ReadRunning \/ Check \/ AskQueued \/ AskProcessing \/ Complete \/ Completed
  \/ SchedulePass("M")

-----------------------------------------------------------------------------
(* The process and its timers.                                             *)

\* _release_lock_after_delay pops the lock, whoever has set it since.
ReleaseLock ==
  /\ "old" \in timers
  /\ timers' = timers \ {"old"}
  /\ lock' = "free"
  /\ UNCHANGED <<campaign, rows, worker, inbox, pc, event, monitor, inProg, act, env>>

\* The three dictionaries, the subscription and the timers are gone.
Die ==
  /\ pc' = [p \in Coroutines |-> "down"]
  /\ inbox' = <<>>
  /\ inProg' = None
  /\ act' = None
  /\ lock' = "free"
  /\ timers' = {}
  /\ event' = <<>>
  /\ ask' = "idle" /\ seen' = 0 /\ nap' = 0

Restart ==
  /\ pc["L"] # "down"
  /\ Die
  /\ Trouble("restart")
  /\ UNCHANGED <<campaign, rows, worker>>

\* DuplicateKeyError: the retry of this attempt exists.  No handler catches it
\* between create_queued_run and asyncio.run.
InsertRaises ==
  /\ pc["L"] = "insert"
  /\ attempt[event[1]] # event[2]
  /\ Die
  /\ UNCHANGED <<campaign, rows, worker, env>>

\* The container is restarted: the monitor sweeps at once, the listener sees
\* the events from its subscription on.
Start ==
  /\ pc["L"] = "down"
  /\ pc' = [p \in Coroutines |-> IF p = "L" THEN "subscribing" ELSE "asleep"]
  /\ UNCHANGED <<campaign, rows, worker, inbox, event, monitor, memory, env>>

Subscribed ==
  /\ pc["L"] = "subscribing"
  /\ Goto("L", "idle")
  /\ UNCHANGED <<campaign, rows, worker, inbox, event, monitor, memory, env>>

-----------------------------------------------------------------------------
(* process_campaign_batch.                                                 *)

\* A campaign that does not run, or has no run due, gives an empty batch.
JobStarts(j) ==
  LET due == IF state = "running" THEN {c \in Contacts : Due(c)} ELSE {}
  IN /\ jobs[j] = "queued"
     /\ \E claims \in SUBSET due :
          /\ Cardinality(claims) <= BatchSize
          /\ claims = due \/ Cardinality(claims) = BatchSize
          /\ held' = [held EXCEPT ![j] = claims]
          /\ run' = [c \in Contacts |-> IF c \in claims THEN "processing" ELSE run[c]]
     /\ jobs' = [jobs EXCEPT ![j] = "working"]
     /\ UNCHANGED <<campaign, attempt, wait, age, inbox, pc, event, monitor, memory, env>>

\* dispatch_call places the call, or raises.
JobDials(j, c) ==
  /\ jobs[j] = "working"
  /\ c \in held[j]
  /\ held' = [held EXCEPT ![j] = @ \ {c}]
  /\ \/ run' = [run EXCEPT ![c] = "called"] /\ wait' = [wait EXCEPT ![c] = CallTime]
     \/ run' = [run EXCEPT ![c] = "failed"] /\ UNCHANGED wait
  /\ UNCHANGED <<campaign, attempt, jobs, age, inbox, pc, event, monitor, memory, env>>

Ends(j) == jobs' = [jobs EXCEPT ![j] = "none"] /\ age' = [age EXCEPT ![j] = 0]

JobCompletes(j) ==
  /\ jobs[j] = "working"
  /\ held[j] = {}
  /\ Publish([type |-> "completed"])
  /\ Ends(j)
  /\ UNCHANGED <<campaign, rows, held, pc, event, monitor, memory, env>>

\* What the batch has not dialled goes back to the queue.
ReturnClaims(j) ==
  /\ jobs[j] = "working"
  /\ held[j] # {}
  /\ run' = [c \in Contacts |-> IF c \in held[j] THEN "queued" ELSE run[c]]
  /\ held' = [held EXCEPT ![j] = {}]
  /\ UNCHANGED <<attempt, wait>>

\* No number is free, for the first or second time in a row.
JobRetriesLater(j) ==
  /\ ReturnClaims(j)
  /\ Publish([type |-> "completed"])
  /\ Ends(j)
  /\ Trouble("noNumber")
  /\ UNCHANGED <<campaign, pc, event, monitor, memory>>

\* No slot within 120 s, or no number for the third time: batch_failed first,
\* the campaign's state after it.
JobFails(j) ==
  /\ ReturnClaims(j)
  /\ Publish([type |-> "failed"])
  /\ jobs' = [jobs EXCEPT ![j] = "failing"]
  /\ Trouble("noSlot")
  /\ UNCHANGED <<campaign, age, pc, event, monitor, memory>>

FailCampaign(j) ==
  /\ jobs[j] = "failing"
  /\ state' = "failed"
  /\ Ends(j)
  /\ UNCHANGED <<docAge, failedRows, rows, held, inbox, pc, event, monitor, memory, env>>

\* Cancelled by the job timeout or by a shutdown, after which ARQ runs it
\* again; nothing is published.
JobCancelled(j) ==
  /\ ReturnClaims(j)
  /\ \/ Ends(j)
     \/ jobs' = [jobs EXCEPT ![j] = "queued"] /\ UNCHANGED age
  /\ Trouble("cancel")
  /\ UNCHANGED <<campaign, inbox, pc, event, monitor, memory>>

\* The worker dies: nobody returns the claims.
JobDies(j) ==
  /\ jobs[j] = "working"
  /\ held' = [held EXCEPT ![j] = {}]
  /\ \/ Ends(j)
     \/ jobs' = [jobs EXCEPT ![j] = "queued"] /\ UNCHANGED age
  /\ Trouble("crash")
  /\ UNCHANGED <<campaign, rows, inbox, pc, event, monitor, memory>>

Job(j) ==
  \/ JobStarts(j) \/ (\E c \in Contacts : JobDials(j, c)) \/ JobCompletes(j)
  \/ FailCampaign(j)

JobTroubles(j) ==
  JobRetriesLater(j) \/ JobFails(j) \/ JobCancelled(j) \/ JobDies(j)

-----------------------------------------------------------------------------
(* The calls, the campaign API and the clock.                              *)

\* handle_call_terminal: an answered call, or one to retry.
CallEnds(c) ==
  /\ run[c] = "called"
  /\ run' = [run EXCEPT ![c] = "settled"]
  /\ wait' = [wait EXCEPT ![c] = 0]
  /\ Publish(Retry(c)) \/ UNCHANGED inbox
  /\ UNCHANGED <<campaign, attempt, worker, pc, event, monitor, memory, env>>

\* A second report of a call that is to be retried: the hang-up webhook and
\* the end of the pipeline both send one.
ReportedTwice(c) ==
  /\ run[c] = "called"
  /\ run' = [run EXCEPT ![c] = "settled"]
  /\ wait' = [wait EXCEPT ![c] = 0]
  /\ pc["L"] \notin {"down", "subscribing"}
  /\ inbox' = inbox \o <<Retry(c), Retry(c)>>
  /\ Trouble("duplicate")
  /\ UNCHANGED <<campaign, attempt, worker, pc, event, monitor, memory>>

Pause ==
  /\ state = "running"
  /\ state' = "paused"
  /\ Trouble("pause")
  /\ UNCHANGED <<docAge, failedRows, rows, worker, inbox, pc, event, monitor, memory>>

Resume ==
  /\ state = "paused"
  /\ state' = "running"
  /\ UNCHANGED <<docAge, failedRows, rows, worker, inbox, pc, event, monitor, memory, env>>

CloseWindow ==
  /\ window
  /\ window' = FALSE
  /\ "window" \in Kinds \ troubles
  /\ Cardinality(troubles) < MaxTroubles
  /\ troubles' = troubles \cup {"window"}
  /\ UNCHANGED <<campaign, rows, worker, inbox, pc, event, monitor, memory>>

OpenWindow ==
  /\ ~window
  /\ window' = TRUE
  /\ UNCHANGED <<campaign, rows, worker, inbox, pc, event, monitor, memory, troubles>>

\* Nothing that takes less than a tick is left to do.
Quiet ==
  /\ \/ pc["L"] = "idle" /\ inbox = <<>> /\ pc["M"] = "asleep" /\ nap > 0
     \/ pc["L"] = "down"
  /\ "old" \notin timers
  /\ \A c \in Contacts : run[c] = "called" => wait[c] > 0
  /\ \A j \in Jobs : jobs[j] # "none" => age[j] < JobTime

Less(n) == IF n > 0 THEN n - 1 ELSE n
Older(n, max) == IF n # None /\ n < max THEN n + 1 ELSE n

Tick ==
  /\ Quiet
  /\ docAge' = Older(docAge, Idle)
  /\ wait' = [c \in Contacts |-> Less(wait[c])]
  /\ age' = [j \in Jobs |-> IF jobs[j] = "none" THEN 0 ELSE age[j] + 1]
  /\ nap' = Less(nap)
  /\ inProg' = Older(inProg, BatchTimeout + 1)
  /\ act' = Older(act, Idle)
  /\ lock' = IF lock = "new" THEN "old" ELSE lock
  /\ timers' = IF "new" \in timers THEN {"old"} ELSE {}
  /\ UNCHANGED <<state, failedRows, attempt, run, jobs, held, inbox, pc, event, ask, seen, env>>

Process == Listener \/ Monitor \/ ReleaseLock \/ InsertRaises \/ Start \/ Subscribed
Progress == Process \/ (\E j \in Jobs : Job(j)) \/ (\E c \in Contacts : CallEnds(c)) \/ Tick

Next ==
  \/ Progress
  \/ Restart \/ Pause \/ Resume \/ CloseWindow \/ OpenWindow
  \/ \E j \in Jobs : JobTroubles(j)
  \/ \E c \in Contacts : ReportedTwice(c)

Spec == Init /\ [][Next]_vars

\* Nobody stops while there is something to do, so time passes, and with it
\* the bounds on batches and calls; the container is restarted, the schedule
\* opens again.  Nobody has to resume a paused campaign.
FairSpec == Spec /\ WF_vars(Progress) /\ WF_vars(Start) /\ WF_vars(OpenWindow)

-----------------------------------------------------------------------------
(* What must hold.                                                         *)

Pending == {c \in Contacts : run[c] \in {"queued", "processing"}}

\* No breaker has tripped, nobody has paused, the calling window is open: after a
\* longer stop the last activity is too old to tell anything.
Calm == troubles \cap {"trip", "pause", "window"} = {}

\* campaigns.md: a campaign that is completed has no contact left to call: no
\* queued retry, no run in processing, and no call in flight whose retry comes
\* later.  Neither counts as pending work before it is due: the idle window has
\* to bridge the gap, also when a restart has cleared the memory.
CompletedIsThrough == (state = "completed" /\ Calm) => Pending = {}

\* campaigns.md: a contact past max_retries counts in failed_rows, and no
\* other, however retries and events of contacts interleave.
RowsFailOnce ==
  failedRows <= Cardinality({c \in Contacts : attempt[c] = MaxRetries /\ run[c] = "settled"})

\* campaigns.md: there is no transition out of completed or failed.  Sweep,
\* breaker and failing batch write the state without looking at it; none of
\* them alone overtakes another.
TerminalIsFinal ==
  [][(state \in {"completed", "failed"}) => (state' = state)]_vars

\* A running campaign comes to an end: a lost event, a lost batch, a lock held
\* by an earlier pass, a restart and a closed window delay it, no more.
CampaignEnds == (state = "running") ~> (state # "running")

==============================================================================
