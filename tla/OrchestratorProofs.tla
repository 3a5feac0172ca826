------------------------- MODULE OrchestratorProofs -------------------------
(***************************************************************************)
(* That failed_rows never counts a contact that may still be called, for   *)
(* any number of contacts, batches and retries, any times and troubles but *)
(* a call that is reported twice; and that a campaign is completed only    *)
(* when every contact is through and then stays so, where the idle window  *)
(* is longer than what a retry, a call and the lost batches can take.      *)
(***************************************************************************)
EXTENDS Orchestrator, FiniteSetTheorems, TLAPS

---------------------------------------------------------------------------
(* The inductive invariant.                                                *)

\* What a listener at work on a retry has in hand.
InHand ==
  /\ pc["L"] = "insert" => event # <<>> /\ event[2] < MaxRetries
  /\ pc["L"] = "giveUp" => event # <<>> /\ event[2] = MaxRetries

\* A batch holds runs in processing, and no two hold the same.
Held ==
  /\ \A j \in Jobs : \A c \in held[j] : run[c] = "processing"
  /\ \A i, j \in Jobs : i # j => held[i] \cap held[j] = {}

\* The retry of attempt n of contact c comes after the end of that attempt.
Follows(c, n) == n < attempt[c] \/ (n = attempt[c] /\ run[c] = "settled")

IsRetry(e) == e.type = "retry"

RetriesFollow ==
  /\ \A i \in 1 .. Len(inbox) :
       IsRetry(inbox[i]) => Follows(inbox[i].contact, inbox[i].attempt)
  /\ event # <<>> => Follows(event[1], event[2])

\* An attempt is reported once, and not again while its retry is in hand.
ReportedOnce ==
  /\ \A i, k \in 1 .. Len(inbox) : IsRetry(inbox[i]) /\ inbox[i] = inbox[k] => i = k
  /\ \A i \in 1 .. Len(inbox) :
       IsRetry(inbox[i]) => event # <<inbox[i].contact, inbox[i].attempt>>

\* The report of the last attempt of c is still to be counted.
Owed(c) ==
  \/ event = <<c, MaxRetries>>
  \/ \E i \in 1 .. Len(inbox) :
       IsRetry(inbox[i]) /\ inbox[i].contact = c /\ inbox[i].attempt = MaxRetries

\* The contacts that have had their last attempt, and of them those whose
\* report is not on its way any more.
Through == {c \in Contacts : attempt[c] = MaxRetries /\ run[c] = "settled"}
Counted == {c \in Through : ~Owed(c)}

FailedAreCounted == failedRows <= Cardinality(Counted)

Rest == Held /\ RetriesFollow /\ ReportedOnce /\ FailedAreCounted

\* The types with what they need, and the rest, which a call reported twice breaks.
Typed == TypeOK /\ InHand
IInv == Typed /\ Rest

---------------------------------------------------------------------------
(* The types, in three parts.                                              *)

\* Where the coroutines stand, and what they remember.
ControlOK ==
  /\ pc \in [Coroutines -> Scheduling \cup ListenerSteps \cup MonitorSteps]
  /\ pc["L"] \in ListenerSteps \cup Scheduling
  /\ pc["M"] \in MonitorSteps \cup Scheduling
  /\ ask \in {"stale", "idle", "mark", "complete"}
  /\ seen \in 0..Idle
  /\ nap \in 0..Sweep
  /\ inProg \in {None} \cup 0..(BatchTimeout + 1)
  /\ act \in {None} \cup 0..Idle
  /\ lock \in {"free", "new", "old"}
  /\ timers \subseteq {"new", "old"}

\* Events on their way, and the one in hand.
InboxOK == inbox \in Seq(Events) /\ event \in {<<>>} \cup (Contacts \X (0..MaxRetries))

\* The database, the batches and the environment.
WorldOK ==
  /\ state \in {"running", "paused", "completed", "failed"}
  /\ docAge \in 0..Idle
  /\ failedRows \in Nat
  /\ attempt \in [Contacts -> 0..MaxRetries]
  /\ run \in [Contacts -> {"queued", "processing", "called", "settled", "failed"}]
  /\ wait \in [Contacts -> Nat]
  /\ jobs \in [Jobs -> {"none", "queued", "working", "failing"}]
  /\ held \in [Jobs -> SUBSET Contacts]
  /\ age \in [Jobs -> 0..JobTime]
  /\ window \in BOOLEAN
  /\ troubles \subseteq Kinds

\* The parts are the whole.
LEMMA TypeParts == TypeOK <=> ControlOK /\ InboxOK /\ WorldOK
  BY DEF TypeOK, ControlOK, InboxOK, WorldOK

\* A retry on its way names a contact and an attempt.
LEMMA RetriesTyped ==
  ASSUME TypeOK, NEW i \in 1 .. Len(inbox), IsRetry(inbox[i])
  PROVE  inbox[i].contact \in Contacts /\ inbox[i].attempt \in 0 .. MaxRetries
<1>1. inbox \in Seq(Events)
  BY DEF TypeOK
<1> QED
  BY <1>1 DEF Events, IsRetry

\* So does the one in hand.
LEMMA EventTyped ==
  ASSUME TypeOK, event # <<>>
  PROVE  /\ event[1] \in Contacts /\ event[2] \in 0 .. MaxRetries
         /\ event = <<event[1], event[2]>>
<1>1. event \in Contacts \X (0 .. MaxRetries)
  BY DEF TypeOK
<1> QED
  BY <1>1

\* What a pass does on its way out keeps the control; so does its beginning.
LEMMA LeaveControl ==
  ASSUME ControlOK, NEW p \in Coroutines, Leave(p), UNCHANGED <<inProg, lock>>,
         timers' \in {timers, timers \cup {"new"}}
  PROVE  ControlOK'
  BY TimesAssumption DEF ControlOK, Leave, MonitorSleeps, Goto, monitor, Coroutines,
     Scheduling, ListenerSteps, MonitorSteps, None

\* A pass that is let in takes the lock; one that is turned away leaves.
LEMMA EnterControl ==
  ASSUME ControlOK, NEW p \in Coroutines, Enter(p)
  PROVE  ControlOK'
<1>1. CASE Leave(p) /\ UNCHANGED lock
  BY <1>1, LeaveControl DEF Enter
<1>2. CASE lock' = "new" /\ Goto(p, "reading") /\ UNCHANGED <<act, monitor>>
  BY <1>2 DEF ControlOK, Enter, Goto, monitor, Coroutines, Scheduling
<1> QED
  BY <1>1, <1>2 DEF Enter

\* To ask for pending work is a step of the monitor.
LEMMA AskControl ==
  ASSUME ControlOK, NEW why \in {"stale", "idle", "mark", "complete"}, AskPending(why),
         inProg' \in {inProg, None}
  PROVE  ControlOK'
  BY DEF ControlOK, AskPending, Goto, Coroutines, MonitorSteps, None

\* When there is work, a pass begins or the monitor leaves.
LEMMA FoundControl ==
  ASSUME ControlOK, WorkFound
  PROVE  ControlOK'
  BY EnterControl, LeaveControl DEF WorkFound, Coroutines

\* When there is none, it asks on, completes or leaves.
LEMMA NotFoundControl ==
  ASSUME ControlOK, NoWorkFound
  PROVE  ControlOK'
<1>1. CASE ask = "complete" /\ Goto("M", "completing") /\ UNCHANGED <<monitor, memory>>
  BY <1>1 DEF ControlOK, Goto, monitor, memory, Coroutines, MonitorSteps
<1>2. CASE Leave("M") /\ UNCHANGED <<inProg, lock, timers>>
  BY <1>2, LeaveControl DEF Coroutines
<1> QED
  BY <1>1, <1>2, AskControl DEF NoWorkFound

\* A step to another place keeps it, too.
LEMMA GotoControl ==
  ASSUME ControlOK, NEW p \in Coroutines, NEW s, Goto(p, s), UNCHANGED <<monitor, memory>>,
         p = "L" => s \in ListenerSteps \cup Scheduling,
         p = "M" => s \in MonitorSteps \cup Scheduling
  PROVE  ControlOK'
  BY DEF ControlOK, Goto, monitor, memory, Coroutines

\* What is published is an event.
LEMMA PublishInbox ==
  ASSUME InboxOK, NEW e \in Events, Publish(e), UNCHANGED event
  PROVE  InboxOK'
  BY DEF InboxOK, Publish

\* And what is received leaves events.
LEMMA ReceiveInbox ==
  ASSUME InboxOK, NEW t, Receive(t)
  PROVE  inbox' \in Seq(Events) /\ Head(inbox) \in Events /\ Head(inbox).type = t
  BY DEF InboxOK, Receive

---------------------------------------------------------------------------
(* Type correctness.                                                       *)

\* Every step keeps the types.
LEMMA TypeStep == Typed /\ [Next]_vars => TypeOK'
<1> SUFFICES ASSUME Typed, [Next]_vars
             PROVE  TypeOK'
  OBVIOUS
<1>1. ASSUME NEW p \in Coroutines, SchedulePass(p)
      PROVE  TypeOK'
  <2>1. CASE ReadCampaign(p)
    <3>1. ControlOK'
      <4>1. CASE Finish(p)
        BY <4>1, TypeParts, LeaveControl DEF Typed, Finish
      <4>2. CASE Goto(p, "countQueued") /\ UNCHANGED <<monitor, memory>>
        BY <4>2, TypeParts, GotoControl DEF Typed, Scheduling
      <4> QED
        BY <2>1, <4>1, <4>2 DEF ReadCampaign
    <3>2. InboxOK'
      BY <2>1, TypeParts DEF Typed, InboxOK, ReadCampaign
    <3>3. WorldOK'
      BY <2>1, TypeParts DEF Typed, WorldOK, ReadCampaign, campaign, rows, worker, env
    <3> QED
      BY <3>1, <3>2, <3>3 DEF TypeOK, ControlOK, InboxOK, WorldOK
  <2>2. CASE BreakerOpen(p)
    BY <2>2 DEF Typed, TypeOK, Scheduling, ListenerSteps, MonitorSteps, Coroutines,
       BreakerOpen, Goto, Trouble, campaign, rows, worker, monitor, memory
  <2>3. CASE PauseByBreaker(p)
    BY <2>3 DEF Typed, TypeOK, Scheduling, ListenerSteps, MonitorSteps, Coroutines,
       PauseByBreaker, Goto, rows, worker, monitor, memory, env
  <2>4. CASE Tripped(p)
    <3>1. ControlOK'
      BY <2>4, TypeParts, TimesAssumption DEF Typed, ControlOK, Scheduling,
         ListenerSteps, MonitorSteps, None, Coroutines, Tripped, Goto, MonitorSleeps,
         monitor
    <3>2. InboxOK'
      BY <2>4, TypeParts, PublishInbox DEF Typed, Tripped, Events
    <3>3. WorldOK'
      BY <2>4, TypeParts DEF Typed, WorldOK, Tripped, campaign, rows, worker, env
    <3> QED
      BY <3>1, <3>2, <3>3 DEF TypeOK, ControlOK, InboxOK, WorldOK
  <2>5. CASE CountQueued(p)
    BY <2>5 DEF Typed, TypeOK, Scheduling, ListenerSteps, MonitorSteps, Coroutines,
       CountQueued, Goto, Due, SomeDue, campaign, rows, worker, monitor, memory, env
  <2>6. CASE CountProcessing(p)
    <3>1. ControlOK'
      <4>1. CASE Finish(p)
        BY <4>1, TypeParts, LeaveControl DEF Typed, Finish
      <4>2. CASE Goto(p, "enqueue") /\ UNCHANGED <<monitor, memory>>
        BY <4>2, TypeParts, GotoControl DEF Typed, Scheduling
      <4> QED
        BY <2>6, <4>1, <4>2 DEF CountProcessing
    <3>2. InboxOK'
      BY <2>6, TypeParts DEF Typed, InboxOK, CountProcessing
    <3>3. WorldOK'
      BY <2>6, TypeParts DEF Typed, WorldOK, CountProcessing, campaign, rows, worker,
         env
    <3> QED
      BY <3>1, <3>2, <3>3 DEF TypeOK, ControlOK, InboxOK, WorldOK
  <2>7. CASE Enqueue(p)
    BY <2>7, TimesAssumption DEF Typed, TypeOK, Scheduling, ListenerSteps,
       MonitorSteps, Coroutines, Enqueue, Goto, campaign, rows, monitor, memory, env
  <2>8. CASE NoteBatch(p)
    <3>1. ControlOK'
      BY <2>8, TypeParts, TimesAssumption DEF Typed, ControlOK, Scheduling,
         ListenerSteps, MonitorSteps, None, Coroutines, NoteBatch, Goto,
         MonitorSleeps, Leave, monitor
    <3>2. InboxOK'
      BY <2>8, TypeParts DEF Typed, InboxOK, NoteBatch
    <3>3. WorldOK'
      BY <2>8, TypeParts, TimesAssumption DEF Typed, WorldOK, NoteBatch, rows, worker,
         env
    <3> QED
      BY <3>1, <3>2, <3>3 DEF TypeOK, ControlOK, InboxOK, WorldOK
  <2> QED
    BY <1>1, <2>1, <2>2, <2>3, <2>4, <2>5, <2>6, <2>7, <2>8 DEF SchedulePass
<1>2. CASE Listener
  <2>1. CASE HandleSync
    <3>1. ControlOK'
      BY <2>1, TypeParts, EnterControl DEF Typed, HandleSync, Coroutines
    <3>2. InboxOK'
      BY <2>1, TypeParts, ReceiveInbox DEF Typed, InboxOK, HandleSync
    <3>3. WorldOK'
      BY <2>1, TypeParts DEF Typed, WorldOK, HandleSync, Receive, campaign, rows,
         worker, env
    <3> QED
      BY <3>1, <3>2, <3>3 DEF TypeOK, ControlOK, InboxOK, WorldOK
  <2>2. CASE HandleCompleted
    <3>1. ControlOK'
      BY <2>2, TypeParts, TimesAssumption DEF Typed, ControlOK, Scheduling,
         ListenerSteps, MonitorSteps, None, Coroutines, HandleCompleted, Goto,
         Receive, monitor
    <3>2. InboxOK'
      BY <2>2, TypeParts, ReceiveInbox DEF Typed, InboxOK, HandleCompleted
    <3>3. WorldOK'
      BY <2>2, TypeParts DEF Typed, WorldOK, HandleCompleted, Receive, campaign, rows,
         worker, env
    <3> QED
      BY <3>1, <3>2, <3>3 DEF TypeOK, ControlOK, InboxOK, WorldOK
  <2>3. CASE Reread
    <3>1. ControlOK'
      <4>1. CASE Enter("L")
        BY <4>1, TypeParts, EnterControl DEF Typed, Coroutines
      <4>2. CASE ClearCampaign /\ Goto("L", "idle") /\ UNCHANGED monitor
        BY <4>2, TypeParts DEF Typed, ControlOK, ClearCampaign, Goto, monitor, Coroutines,
           ListenerSteps, None
      <4> QED
        BY <2>3, <4>1, <4>2 DEF Reread
    <3>2. InboxOK'
      BY <2>3, TypeParts DEF Typed, InboxOK, Reread
    <3>3. WorldOK'
      BY <2>3, TypeParts DEF Typed, WorldOK, Reread, campaign, rows, worker, env
    <3> QED
      BY <3>1, <3>2, <3>3 DEF TypeOK, ControlOK, InboxOK, WorldOK
  <2>4. CASE HandleFailed
    BY <2>4, TimesAssumption DEF Typed, TypeOK, Events, None, HandleFailed, Receive,
       campaign, rows, worker, monitor, env
  <2>5. CASE HandleTripped
    BY <2>5, TimesAssumption DEF Typed, TypeOK, Events, None, HandleTripped, Receive,
       ClearCampaign, campaign, rows, worker, monitor, env
  <2>6. CASE HandleRetry
    <3>1. ControlOK'
      BY <2>6, TypeParts DEF Typed, ControlOK, Scheduling, ListenerSteps,
         MonitorSteps, Coroutines, HandleRetry, Goto, Receive, monitor, memory
    <3>2. InboxOK'
      BY <2>6, TypeParts, ReceiveInbox DEF Typed, InboxOK, HandleRetry, Events
    <3>3. WorldOK'
      BY <2>6, TypeParts DEF Typed, WorldOK, HandleRetry, Receive, campaign, rows,
         worker, env
    <3> QED
      BY <3>1, <3>2, <3>3 DEF TypeOK, ControlOK, InboxOK, WorldOK
  <2>7. CASE GiveUp
    <3>1. ControlOK'
      BY <2>7, TypeParts, TimesAssumption DEF Typed, ControlOK, Scheduling,
         ListenerSteps, MonitorSteps, Coroutines, GiveUp, Goto, monitor, memory
    <3>2. InboxOK'
      BY <2>7, TypeParts DEF Typed, InboxOK, GiveUp
    <3>3. WorldOK'
      BY <2>7, TypeParts, TimesAssumption DEF Typed, WorldOK, GiveUp, rows, worker,
         env
    <3> QED
      BY <3>1, <3>2, <3>3 DEF TypeOK, ControlOK, InboxOK, WorldOK
  <2>8. CASE InsertRetry
    <3>1. ControlOK'
      BY <2>8, TypeParts, TimesAssumption DEF Typed, ControlOK, Scheduling,
         ListenerSteps, MonitorSteps, Coroutines, InsertRetry, Goto, monitor, memory
    <3>2. InboxOK'
      BY <2>8, TypeParts DEF Typed, InboxOK, InsertRetry
    <3>3. WorldOK'
      <4>1. event[1] \in Contacts /\ event[2] + 1 \in 0 .. MaxRetries
        BY <2>8, EventTyped, TimesAssumption DEF Typed, InHand, InsertRetry
      <4> QED
        BY <2>8, <4>1, TypeParts, TimesAssumption
           DEF Typed, WorldOK, InsertRetry, campaign, worker, env
    <3> QED
      BY <3>1, <3>2, <3>3 DEF TypeOK, ControlOK, InboxOK, WorldOK
  <2>9. CASE RetryInserted
    BY <2>9, TimesAssumption DEF Typed, TypeOK, Scheduling, ListenerSteps,
       MonitorSteps, Coroutines, RetryInserted, Goto, campaign, rows, worker, monitor,
       env
  <2> QED
    BY <1>2, <1>1, <2>1, <2>2, <2>3, <2>4, <2>5, <2>6, <2>7, <2>8, <2>9 DEF Listener,
       Coroutines
<1>3. CASE Monitor
  <2>1. CASE ReadRunning
    BY <2>1, TimesAssumption DEF Typed, TypeOK, Scheduling, ListenerSteps,
       MonitorSteps, Coroutines, ReadRunning, Goto, campaign, rows, worker, memory,
       env
  <2>2. CASE Check
    <3>1. ControlOK'
      BY <2>2, TypeParts, AskControl, LeaveControl DEF Typed, Check, Coroutines, None
    <3>2. InboxOK'
      BY <2>2, TypeParts DEF Typed, InboxOK, Check
    <3>3. WorldOK'
      BY <2>2, TypeParts DEF Typed, WorldOK, Check, campaign, rows, worker, env
    <3> QED
      BY <3>1, <3>2, <3>3 DEF TypeOK, ControlOK, InboxOK, WorldOK
  <2>3. CASE AskQueued
    <3>1. ControlOK'
      BY <2>3, TypeParts, FoundControl, GotoControl DEF Typed, AskQueued, Coroutines,
         MonitorSteps
    <3>2. InboxOK'
      BY <2>3, TypeParts DEF Typed, InboxOK, AskQueued
    <3>3. WorldOK'
      BY <2>3, TypeParts DEF Typed, WorldOK, AskQueued, Due, campaign, rows, worker,
         env
    <3> QED
      BY <3>1, <3>2, <3>3 DEF TypeOK, ControlOK, InboxOK, WorldOK
  <2>4. CASE AskProcessing
    <3>1. ControlOK'
      BY <2>4, TypeParts, FoundControl, NotFoundControl DEF Typed, AskProcessing
    <3>2. InboxOK'
      BY <2>4, TypeParts DEF Typed, InboxOK, AskProcessing
    <3>3. WorldOK'
      BY <2>4, TypeParts DEF Typed, WorldOK, AskProcessing, campaign, rows, worker,
         env
    <3> QED
      BY <3>1, <3>2, <3>3 DEF TypeOK, ControlOK, InboxOK, WorldOK
  <2>5. CASE Complete
    BY <2>5 DEF Typed, TypeOK, Scheduling, ListenerSteps, MonitorSteps, Coroutines,
       Complete, Goto, rows, worker, monitor, memory, env
  <2>6. CASE Completed
    BY <2>6, TimesAssumption DEF Typed, TypeOK, Scheduling, ListenerSteps,
       MonitorSteps, None, Coroutines, Completed, Goto, MonitorSleeps, ClearCampaign,
       campaign, rows, worker, env
  <2> QED
    BY <1>3, <1>1, <2>1, <2>2, <2>3, <2>4, <2>5, <2>6 DEF Monitor, Coroutines
<1>4. ASSUME NEW j \in Jobs,
             JobStarts(j) \/ JobCompletes(j) \/ FailCampaign(j) \/ JobRetriesLater(j)
               \/ JobFails(j) \/ JobCancelled(j) \/ JobDies(j)
      PROVE  TypeOK'
  <2>1. CASE JobStarts(j)
    BY <2>1 DEF Typed, TypeOK, JobStarts, Due, campaign, monitor, memory, env
  <2>2. CASE JobCompletes(j)
    BY <2>2, TimesAssumption DEF Typed, TypeOK, Events, JobCompletes, Publish, Ends,
       campaign, rows, monitor, memory, env
  <2>3. CASE FailCampaign(j)
    BY <2>3, TimesAssumption DEF Typed, TypeOK, FailCampaign, Ends, rows, monitor,
       memory, env
  <2>4. CASE JobRetriesLater(j)
    <3>1. ControlOK'
      BY <2>4, TypeParts, TimesAssumption DEF Typed, ControlOK, JobRetriesLater,
         monitor, memory
    <3>2. InboxOK'
      BY <2>4, TypeParts, PublishInbox DEF Typed, JobRetriesLater, Events
    <3>3. WorldOK'
      <4>1. /\ held' \in [Jobs -> SUBSET Contacts]
           /\ run' \in [Contacts -> {"queued", "processing", "called", "settled", "failed"}]
        BY <2>4, TypeParts DEF Typed, WorldOK, JobRetriesLater, ReturnClaims
      <4>2. /\ jobs' \in [Jobs -> {"none", "queued", "working", "failing"}]
           /\ age' \in [Jobs -> 0..JobTime]
        BY <2>4, TypeParts, TimesAssumption DEF Typed, WorldOK, JobRetriesLater, Ends
      <4> QED
        BY <2>4, <4>1, <4>2, TypeParts
           DEF Typed, WorldOK, JobRetriesLater, Trouble, campaign, ReturnClaims
    <3> QED
      BY <3>1, <3>2, <3>3 DEF TypeOK, ControlOK, InboxOK, WorldOK
  <2>5. CASE JobFails(j)
    <3>1. ControlOK'
      BY <2>5, TypeParts DEF Typed, ControlOK, JobFails, monitor, memory
    <3>2. InboxOK'
      BY <2>5, TypeParts, PublishInbox DEF Typed, JobFails, Events
    <3>3. WorldOK'
      <4>1. /\ held' \in [Jobs -> SUBSET Contacts]
           /\ run' \in [Contacts -> {"queued", "processing", "called", "settled", "failed"}]
        BY <2>5, TypeParts DEF Typed, WorldOK, JobFails, ReturnClaims
      <4>2. /\ jobs' \in [Jobs -> {"none", "queued", "working", "failing"}]
           /\ age' \in [Jobs -> 0..JobTime]
        BY <2>5, TypeParts, TimesAssumption DEF Typed, WorldOK, JobFails, Ends
      <4> QED
        BY <2>5, <4>1, <4>2, TypeParts
           DEF Typed, WorldOK, JobFails, Trouble, campaign, ReturnClaims
    <3> QED
      BY <3>1, <3>2, <3>3 DEF TypeOK, ControlOK, InboxOK, WorldOK
  <2>6. CASE JobCancelled(j)
    <3>1. ControlOK'
      BY <2>6, TypeParts, TimesAssumption DEF Typed, ControlOK, JobCancelled, monitor,
         memory
    <3>2. InboxOK'
      BY <2>6, TypeParts DEF Typed, InboxOK, JobCancelled
    <3>3. WorldOK'
      <4>1. /\ held' \in [Jobs -> SUBSET Contacts]
           /\ run' \in [Contacts -> {"queued", "processing", "called", "settled", "failed"}]
        BY <2>6, TypeParts DEF Typed, WorldOK, JobCancelled, ReturnClaims
      <4>2. /\ jobs' \in [Jobs -> {"none", "queued", "working", "failing"}]
           /\ age' \in [Jobs -> 0..JobTime]
        BY <2>6, TypeParts, TimesAssumption DEF Typed, WorldOK, JobCancelled, Ends
      <4> QED
        BY <2>6, <4>1, <4>2, TypeParts
           DEF Typed, WorldOK, JobCancelled, Trouble, campaign, ReturnClaims
    <3> QED
      BY <3>1, <3>2, <3>3 DEF TypeOK, ControlOK, InboxOK, WorldOK
  <2>7. CASE JobDies(j)
    <3>1. ControlOK'
      BY <2>7, TypeParts, TimesAssumption DEF Typed, ControlOK, JobDies, monitor,
         memory
    <3>2. InboxOK'
      BY <2>7, TypeParts DEF Typed, InboxOK, JobDies
    <3>3. WorldOK'
      <4>1. /\ held' \in [Jobs -> SUBSET Contacts]
           /\ run' \in [Contacts -> {"queued", "processing", "called", "settled", "failed"}]
        BY <2>7, TypeParts DEF Typed, WorldOK, JobDies, rows
      <4>2. /\ jobs' \in [Jobs -> {"none", "queued", "working", "failing"}]
           /\ age' \in [Jobs -> 0..JobTime]
        BY <2>7, TypeParts, TimesAssumption DEF Typed, WorldOK, JobDies, Ends
      <4> QED
        BY <2>7, <4>1, <4>2, TypeParts
           DEF Typed, WorldOK, JobDies, Trouble, campaign, rows
    <3> QED
      BY <3>1, <3>2, <3>3 DEF TypeOK, ControlOK, InboxOK, WorldOK
  <2> QED
    BY <1>4, <2>1, <2>2, <2>3, <2>4, <2>5, <2>6, <2>7
<1>5. ASSUME NEW j \in Jobs, NEW c \in Contacts, JobDials(j, c)
      PROVE  TypeOK'
  <2>1. ControlOK'
    BY <1>5, TypeParts, TimesAssumption DEF Typed, ControlOK, JobDials, monitor,
       memory
  <2>2. InboxOK'
    BY <1>5, TypeParts DEF Typed, InboxOK, JobDials
  <2>3. WorldOK'
    <3>1. held' \in [Jobs -> SUBSET Contacts]
      BY <1>5, TypeParts DEF Typed, WorldOK, JobDials
    <3>2. run' \in [Contacts -> {"queued", "processing", "called", "settled", "failed"}]
         /\ wait' \in [Contacts -> Nat]
      BY <1>5, TypeParts, TimesAssumption DEF Typed, WorldOK, JobDials
    <3> QED
      BY <1>5, <3>1, <3>2, TypeParts DEF Typed, WorldOK, JobDials, campaign, env
  <2> QED
    BY <2>1, <2>2, <2>3 DEF TypeOK, ControlOK, InboxOK, WorldOK
<1>6. ASSUME NEW c \in Contacts, CallEnds(c)
      PROVE  TypeOK'
  <2>1. ControlOK'
    BY <1>6, TypeParts DEF Typed, ControlOK, CallEnds, monitor, memory
  <2>2. InboxOK'
    BY <1>6, TypeParts, PublishInbox DEF Typed, InboxOK, WorldOK, CallEnds, Retry,
       Events
  <2>3. WorldOK'
    BY <1>6, TypeParts, TimesAssumption DEF Typed, WorldOK, CallEnds, campaign,
       worker, env
  <2> QED
    BY <2>1, <2>2, <2>3 DEF TypeOK, ControlOK, InboxOK, WorldOK
<1>7. ASSUME NEW c \in Contacts, ReportedTwice(c)
      PROVE  TypeOK'
  BY <1>7 DEF Typed, TypeOK, Events, ReportedTwice, Trouble, Retry, campaign, worker,
     monitor, memory
<1>8. CASE ReleaseLock
  BY <1>8, TimesAssumption DEF Typed, TypeOK, ReleaseLock, campaign, rows, worker,
     monitor, env
<1>9. CASE InsertRaises
  <2>1. ControlOK'
    BY <1>9, TypeParts, TimesAssumption DEF Typed, ControlOK, Scheduling,
       ListenerSteps, MonitorSteps, None, Coroutines, InsertRaises, Die
  <2>2. InboxOK'
    BY <1>9, TypeParts DEF Typed, InboxOK, InsertRaises, Die
  <2>3. WorldOK'
    BY <1>9, TypeParts DEF Typed, WorldOK, InsertRaises, Die, campaign, rows, worker,
       env
  <2> QED
    BY <2>1, <2>2, <2>3 DEF TypeOK, ControlOK, InboxOK, WorldOK
<1>10. CASE Start
  BY <1>10 DEF Typed, TypeOK, Scheduling, ListenerSteps, MonitorSteps, Coroutines,
     Start, campaign, rows, worker, monitor, memory, env
<1>11. CASE Subscribed
  BY <1>11 DEF Typed, TypeOK, Scheduling, ListenerSteps, MonitorSteps, Coroutines,
     Subscribed, Goto, campaign, rows, worker, monitor, memory, env
<1>12. CASE Tick
  <2>1. ControlOK'
    BY <1>12, TypeParts, TimesAssumption DEF Typed, ControlOK, None, Tick, Less, Older
  <2>2. InboxOK'
    BY <1>12, TypeParts DEF Typed, InboxOK, Tick
  <2>3. WorldOK'
    <3>1. docAge' \in 0..Idle
      BY <1>12, TypeParts, TimesAssumption DEF Typed, WorldOK, Tick, Older, None
    <3>2. wait' \in [Contacts -> Nat]
      BY <1>12, TypeParts DEF Typed, WorldOK, Tick, Less
    <3>3. age' \in [Jobs -> 0..JobTime]
      BY <1>12, TypeParts, TimesAssumption DEF Typed, WorldOK, Tick, Quiet
    <3> QED
      BY <1>12, <3>1, <3>2, <3>3, TypeParts DEF Typed, WorldOK, Tick, env
  <2> QED
    BY <2>1, <2>2, <2>3 DEF TypeOK, ControlOK, InboxOK, WorldOK
<1>13. CASE Restart
  <2>1. ControlOK'
    BY <1>13, TypeParts, TimesAssumption DEF Typed, ControlOK, Scheduling,
       ListenerSteps, MonitorSteps, None, Coroutines, Restart, Die
  <2>2. InboxOK'
    BY <1>13, TypeParts DEF Typed, InboxOK, Restart, Die
  <2>3. WorldOK'
    BY <1>13, TypeParts DEF Typed, WorldOK, Restart, Trouble, Die, campaign, rows,
       worker
  <2> QED
    BY <2>1, <2>2, <2>3 DEF TypeOK, ControlOK, InboxOK, WorldOK
<1>14. CASE Pause
  BY <1>14 DEF Typed, TypeOK, Pause, Trouble, rows, worker, monitor, memory
<1>15. CASE Resume
  BY <1>15 DEF Typed, TypeOK, Resume, rows, worker, monitor, memory, env
<1>16. CASE CloseWindow
  <2>1. ControlOK'
    BY <1>16, TypeParts DEF Typed, ControlOK, CloseWindow, monitor, memory
  <2>2. InboxOK'
    BY <1>16, TypeParts DEF Typed, InboxOK, CloseWindow
  <2>3. WorldOK'
    BY <1>16, TypeParts DEF Typed, WorldOK, CloseWindow, campaign, rows, worker
  <2> QED
    BY <2>1, <2>2, <2>3 DEF TypeOK, ControlOK, InboxOK, WorldOK
<1>17. CASE OpenWindow
  BY <1>17 DEF Typed, TypeOK, OpenWindow, campaign, rows, worker, monitor, memory
<1>18. CASE UNCHANGED vars
  BY <1>18 DEF Typed, TypeOK, vars, campaign, rows, worker, monitor, memory, env
<1> QED
  BY <1>2, <1>3, <1>4, <1>5, <1>6, <1>7, <1>8, <1>9, <1>10, <1>11, <1>12, <1>13,
     <1>14, <1>15, <1>16, <1>17, <1>18 DEF Next, Progress, Process, Job, JobTroubles

---------------------------------------------------------------------------
(* What the listener has in hand.                                          *)

\* Where a pass of either coroutine leads, the listener has no retry in hand.
LEMMA LeavesHand ==
  ASSUME Typed, NEW p \in Coroutines, Leave(p) \/ Enter(p)
  PROVE  pc'["L"] \in {"insert", "giveUp"} => pc'["L"] = pc["L"]
  BY DEF Typed, TypeOK, Leave, Enter, MonitorSleeps, Goto, Coroutines

\* Nor does a step to any other place.
LEMMA GoesElsewhere ==
  ASSUME Typed, NEW p \in Coroutines, NEW s, s \notin {"insert", "giveUp"}, Goto(p, s)
  PROVE  pc'["L"] \in {"insert", "giveUp"} => pc'["L"] = pc["L"]
  BY DEF Typed, TypeOK, Goto, Coroutines

\* What is in hand stays so while the listener and its event do.
LEMMA HandKept ==
  ASSUME Typed, pc'["L"] \in {"insert", "giveUp"} => pc'["L"] = pc["L"] /\ event' = event
  PROVE  InHand'
  BY DEF Typed, InHand

\* Every step keeps what is in hand.
LEMMA HandStep == Typed /\ [Next]_vars => InHand'
<1> SUFFICES ASSUME Typed, [Next]_vars
             PROVE  InHand'
  OBVIOUS
<1>1. ASSUME NEW p \in Coroutines, SchedulePass(p)
      PROVE  InHand'
  <2>1. CASE ReadCampaign(p)
    BY <2>1, HandKept, LeavesHand, GoesElsewhere DEF ReadCampaign, Finish
  <2>2. CASE BreakerOpen(p)
    BY <2>2, HandKept, GoesElsewhere DEF BreakerOpen
  <2>3. CASE PauseByBreaker(p)
    BY <2>3, HandKept, GoesElsewhere DEF PauseByBreaker
  <2>4. CASE Tripped(p)
    BY <2>4, HandKept, GoesElsewhere DEF Tripped, MonitorSleeps, Coroutines
  <2>5. CASE CountQueued(p)
    BY <2>5, HandKept, GoesElsewhere DEF CountQueued
  <2>6. CASE CountProcessing(p)
    BY <2>6, HandKept, LeavesHand, GoesElsewhere DEF CountProcessing, Finish
  <2>7. CASE Enqueue(p)
    BY <2>7, HandKept, GoesElsewhere DEF Enqueue
  <2>8. CASE NoteBatch(p)
    BY <2>8, HandKept, LeavesHand, GoesElsewhere DEF NoteBatch
  <2> QED
    BY <1>1, <2>1, <2>2, <2>3, <2>4, <2>5, <2>6, <2>7, <2>8 DEF SchedulePass
<1>2. CASE Listener
  <2>1. CASE HandleSync
    BY <2>1, HandKept, LeavesHand, GoesElsewhere DEF HandleSync, Coroutines
  <2>2. CASE HandleCompleted
    BY <2>2, HandKept, GoesElsewhere DEF HandleCompleted, Coroutines
  <2>3. CASE Reread
    BY <2>3, HandKept, LeavesHand, GoesElsewhere DEF Reread, Coroutines
  <2>4. CASE HandleFailed
    BY <2>4, HandKept DEF HandleFailed, Coroutines
  <2>5. CASE HandleTripped
    BY <2>5, HandKept DEF HandleTripped, Coroutines
  <2>6. CASE HandleRetry
    <3>1. Head(inbox) \in Events /\ Head(inbox).type = "retry"
      BY <2>6, ReceiveInbox, TypeParts DEF Typed, HandleRetry
    <3>2. Head(inbox).attempt \in 0 .. MaxRetries
      BY <3>1 DEF Events
    <3>3. /\ event' = <<Head(inbox).contact, Head(inbox).attempt>>
          /\ pc'["L"] = IF Head(inbox).attempt >= MaxRetries THEN "giveUp" ELSE "insert"
      BY <2>6, TypeParts DEF Typed, ControlOK, HandleRetry, Goto, Coroutines
    <3> QED
      BY <3>2, <3>3, TimesAssumption DEF InHand
  <2>7. CASE GiveUp
    BY <2>7, TypeParts DEF Typed, InHand, ControlOK, GiveUp, Goto, Coroutines
  <2>8. CASE InsertRetry
    BY <2>8, HandKept, GoesElsewhere DEF InsertRetry, Coroutines
  <2>9. CASE RetryInserted
    BY <2>9, HandKept, GoesElsewhere DEF RetryInserted, Coroutines
  <2> QED
    BY <1>2, <1>1, <2>1, <2>2, <2>3, <2>4, <2>5, <2>6, <2>7, <2>8, <2>9 DEF Listener,
       Coroutines
<1>3. CASE Monitor
  <2>1. CASE ReadRunning
    BY <2>1, HandKept, GoesElsewhere DEF ReadRunning, Coroutines
  <2>2. CASE Check
    BY <2>2, HandKept, LeavesHand, GoesElsewhere DEF Check, AskPending, Coroutines
  <2>3. CASE AskQueued
    BY <2>3, HandKept, LeavesHand, GoesElsewhere DEF AskQueued, WorkFound, Coroutines
  <2>4. CASE AskProcessing
    BY <2>4, HandKept, LeavesHand, GoesElsewhere DEF AskProcessing, AskPending,
       WorkFound, NoWorkFound, Coroutines
  <2>5. CASE Complete
    BY <2>5, HandKept, GoesElsewhere DEF Complete, Coroutines
  <2>6. CASE Completed
    BY <2>6, HandKept, GoesElsewhere DEF Completed, MonitorSleeps, Coroutines
  <2> QED
    BY <1>3, <1>1, <2>1, <2>2, <2>3, <2>4, <2>5, <2>6 DEF Monitor, Coroutines
<1>4. ASSUME NEW j \in Jobs,
             JobStarts(j) \/ JobCompletes(j) \/ FailCampaign(j) \/ JobRetriesLater(j)
               \/ JobFails(j) \/ JobCancelled(j) \/ JobDies(j)
      PROVE  InHand'
  <2>1. CASE JobStarts(j)
    BY <2>1, HandKept DEF JobStarts
  <2>2. CASE JobCompletes(j)
    BY <2>2, HandKept DEF JobCompletes
  <2>3. CASE FailCampaign(j)
    BY <2>3, HandKept DEF FailCampaign
  <2>4. CASE JobRetriesLater(j)
    BY <2>4, HandKept DEF JobRetriesLater
  <2>5. CASE JobFails(j)
    BY <2>5, HandKept DEF JobFails
  <2>6. CASE JobCancelled(j)
    BY <2>6, HandKept DEF JobCancelled
  <2>7. CASE JobDies(j)
    BY <2>7, HandKept DEF JobDies
  <2> QED
    BY <1>4, <2>1, <2>2, <2>3, <2>4, <2>5, <2>6, <2>7
<1>5. ASSUME NEW j \in Jobs, NEW c \in Contacts, JobDials(j, c)
      PROVE  InHand'
  BY <1>5, HandKept DEF JobDials
<1>6. ASSUME NEW c \in Contacts, CallEnds(c)
      PROVE  InHand'
  BY <1>6, HandKept DEF CallEnds
<1>7. ASSUME NEW c \in Contacts, ReportedTwice(c)
      PROVE  InHand'
  BY <1>7, HandKept DEF ReportedTwice
<1>8. CASE ReleaseLock
  BY <1>8, HandKept DEF ReleaseLock, Coroutines
<1>9. CASE InsertRaises
  BY <1>9, HandKept DEF InsertRaises, Die, Coroutines
<1>10. CASE Start
  BY <1>10, HandKept DEF Start, Coroutines
<1>11. CASE Subscribed
  BY <1>11, HandKept, GoesElsewhere DEF Subscribed, Coroutines
<1>12. CASE Tick
  BY <1>12, HandKept DEF Tick, Coroutines
<1>13. CASE Restart
  BY <1>13, HandKept DEF Restart, Die, Coroutines
<1>14. CASE Pause
  BY <1>14, HandKept DEF Pause, Coroutines
<1>15. CASE Resume
  BY <1>15, HandKept DEF Resume, Coroutines
<1>16. CASE CloseWindow
  BY <1>16, HandKept DEF CloseWindow, Coroutines
<1>17. CASE OpenWindow
  BY <1>17, HandKept DEF OpenWindow, Coroutines
<1>18. CASE UNCHANGED vars
  BY <1>18, HandKept DEF vars
<1> QED
  BY <1>2, <1>3, <1>4, <1>5, <1>6, <1>7, <1>8, <1>9, <1>10, <1>11, <1>12, <1>13,
     <1>14, <1>15, <1>16, <1>17, <1>18 DEF Next, Progress, Process, Job, JobTroubles

---------------------------------------------------------------------------
(* What becomes of events, batches and the count.                          *)

\* An event leads a step with fewer events on their way, or one more that is
\* no retry, to no report that was not owed before.
LEMMA FewerEvents ==
  ASSUME IInv, attempt' = attempt, event' \in {event, <<>>},
         \A c \in Contacts : run[c] = "settled" => run'[c] = "settled",
         \/ inbox' \in {inbox, <<>>}
         \/ inbox # <<>> /\ inbox' = Tail(inbox)
         \/ \E e \in Events : ~IsRetry(e) /\ inbox' = Append(inbox, e)
  PROVE  /\ RetriesFollow' /\ ReportedOnce'
         /\ \A c \in Contacts : Owed(c)' => Owed(c)
<1> DEFINE Retries(q) == {i \in 1 .. Len(q) : IsRetry(q[i])}
           Then(c, n) == n < attempt'[c] \/ (n = attempt'[c] /\ run'[c] = "settled")
<1>1. \E d \in {0, 1} : \A i \in Retries(inbox') :
        i + d \in Retries(inbox) /\ inbox'[i] = inbox[i + d]
  <2>1. CASE inbox' \in {inbox, <<>>}
    BY <2>1
  <2>2. CASE inbox # <<>> /\ inbox' = Tail(inbox)
    BY <2>2 DEF IInv, Typed, TypeOK
  <2>3. CASE \E e \in Events : ~IsRetry(e) /\ inbox' = Append(inbox, e)
    <3>1. PICK e \in Events : ~IsRetry(e) /\ inbox' = Append(inbox, e)
      BY <2>3
    <3>2. inbox \in Seq(Events) /\ Len(inbox) \in Nat
      BY DEF IInv, Typed, TypeOK
    <3>3. \A i \in Retries(inbox') : i \in Retries(inbox) /\ inbox'[i] = inbox[i]
      BY <3>1, <3>2
    <3> QED
      BY <3>3
  <2> QED
    BY <2>1, <2>2, <2>3
<1>2. PICK d \in {0, 1} : \A i \in Retries(inbox') :
        i + d \in Retries(inbox) /\ inbox'[i] = inbox[i + d]
  BY <1>1
<1>3. \A i \in 1 .. Len(inbox) : IsRetry(inbox[i]) => inbox[i].contact \in Contacts
  BY RetriesTyped DEF IInv, Typed
<1>4. \A c \in Contacts : \A n : Follows(c, n) => Then(c, n)
  BY DEF Follows
<1>5. RetriesFollow'
  <2>1. \A i \in 1 .. Len(inbox') :
          IsRetry(inbox'[i]) => Then(inbox'[i].contact, inbox'[i].attempt)
    BY <1>2, <1>3, <1>4 DEF IInv, Rest, RetriesFollow
  <2>2. event' # <<>> => Then(event'[1], event'[2])
    BY <1>4, EventTyped DEF IInv, Typed, Rest, RetriesFollow
  <2> QED
    BY <2>1, <2>2 DEF RetriesFollow, Follows, IsRetry
<1>6. ReportedOnce'
  <2>1. \A i, k \in 1 .. Len(inbox') : IsRetry(inbox'[i]) /\ inbox'[i] = inbox'[k] => i = k
    <3> SUFFICES ASSUME NEW i \in 1 .. Len(inbox'), NEW k \in 1 .. Len(inbox'),
                        IsRetry(inbox'[i]), inbox'[i] = inbox'[k]
                 PROVE  i = k
      OBVIOUS
    <3>1. i \in Retries(inbox') /\ k \in Retries(inbox')
      BY DEF IsRetry
    <3>2. i + d = k + d
      BY <3>1, <1>2 DEF IInv, Rest, ReportedOnce
    <3> QED
      BY <3>2
  <2>2. \A i \in 1 .. Len(inbox') :
          IsRetry(inbox'[i]) => event' # <<inbox'[i].contact, inbox'[i].attempt>>
    <3>1. CASE event' = event
      BY <1>2, <3>1 DEF IInv, Rest, ReportedOnce
    <3>2. CASE event' = <<>>
      BY <3>2
    <3> QED
      BY <3>1, <3>2
  <2> QED
    BY <2>1, <2>2 DEF ReportedOnce, IsRetry
<1>7. \A c \in Contacts : Owed(c)' => Owed(c)
  <2> SUFFICES ASSUME NEW c \in Contacts, Owed(c)'
               PROVE  Owed(c)
    OBVIOUS
  <2>1. CASE event' = <<c, MaxRetries>>
    BY <2>1 DEF Owed
  <2>2. CASE \E i \in 1 .. Len(inbox') :
               IsRetry(inbox'[i]) /\ inbox'[i].contact = c /\ inbox'[i].attempt = MaxRetries
    BY <1>2, <2>2 DEF Owed
  <2> QED
    BY <2>1, <2>2 DEF Owed, IsRetry
<1> QED
  BY <1>5, <1>6, <1>7

\* The contacts counted are finitely many.
LEMMA CountedFinite == IsFiniteSet(Counted) /\ IsFiniteSet(Counted')
<1>1. Counted \subseteq Contacts /\ Counted' \subseteq Contacts
  BY DEF Counted, Through
<1> QED
  BY <1>1, TimesAssumption, FS_Subset

\* While nobody is counted, more contacts may be through.
LEMMA CountKept ==
  ASSUME IInv, failedRows' = failedRows, Counted \subseteq Counted'
  PROVE  FailedAreCounted'
<1>1. /\ Cardinality(Counted) \in Nat /\ Cardinality(Counted') \in Nat
      /\ Cardinality(Counted) <= Cardinality(Counted')
  BY CountedFinite, FS_Subset, FS_CardinalityType
<1> QED
  BY <1>1 DEF IInv, Typed, TypeOK, Rest, FailedAreCounted

\* A step that lets events go by, counts nobody and unsettles no run.
LEMMA KeepsRest ==
  ASSUME IInv, UNCHANGED <<failedRows, attempt>>, event' \in {event, <<>>},
         \A c \in Contacts : run[c] = "settled" => run'[c] = "settled",
         \/ inbox' \in {inbox, <<>>}
         \/ inbox # <<>> /\ inbox' = Tail(inbox)
         \/ \E e \in Events : ~IsRetry(e) /\ inbox' = Append(inbox, e),
         Held'
  PROVE  Rest'
<1>1. RetriesFollow' /\ ReportedOnce' /\ \A c \in Contacts : Owed(c)' => Owed(c)
  BY FewerEvents
<1>2. Counted \subseteq Counted'
  BY <1>1 DEF Counted, Through
<1> QED
  BY <1>1, <1>2, CountKept DEF Rest

\* The same for one that leaves runs and batches alone.
LEMMA Aside ==
  ASSUME IInv, UNCHANGED <<failedRows, attempt, run, held>>, event' \in {event, <<>>},
         \/ inbox' \in {inbox, <<>>}
         \/ inbox # <<>> /\ inbox' = Tail(inbox)
         \/ \E e \in Events : ~IsRetry(e) /\ inbox' = Append(inbox, e)
  PROVE  Rest'
<1>1. Held'
  BY DEF IInv, Rest, Held
<1> QED
  BY <1>1, KeepsRest

\* What is published is no retry, unless a call has ended.
LEMMA Published ==
  ASSUME NEW t \in {"sync", "completed", "failed", "tripped"}, Publish([type |-> t])
  PROVE  \/ inbox' = inbox
         \/ \E e \in Events : ~IsRetry(e) /\ inbox' = Append(inbox, e)
  BY DEF Publish, Events, IsRetry

\* A retry is taken in hand.
LEMMA RetryTaken == IInv /\ HandleRetry => Rest'
<1> SUFFICES ASSUME IInv, HandleRetry
             PROVE  Rest'
  OBVIOUS
<1> DEFINE e == Head(inbox)
<1>1. /\ inbox # <<>> /\ inbox \in Seq(Events) /\ Len(inbox) \in Nat
      /\ e = inbox[1] /\ IsRetry(e) /\ e.contact \in Contacts /\ e.attempt \in 0 .. MaxRetries
      /\ event' = <<e.contact, e.attempt>>
      /\ inbox' = Tail(inbox) /\ Len(inbox') = Len(inbox) - 1
      /\ \A i \in 1 .. Len(inbox') : inbox'[i] = inbox[i + 1]
  <2>1. inbox # <<>> /\ inbox \in Seq(Events) /\ IsRetry(e)
    BY DEF IInv, Typed, TypeOK, HandleRetry, Receive, IsRetry
  <2>2. /\ event' = <<e.contact, e.attempt>> /\ inbox' = Tail(inbox)
    BY DEF HandleRetry, Receive
  <2>3. /\ Len(inbox) \in Nat /\ 1 \in 1 .. Len(inbox) /\ e = inbox[1]
        /\ Len(inbox') = Len(inbox) - 1
        /\ \A i \in 1 .. Len(inbox') : inbox'[i] = inbox[i + 1]
    BY <2>1, <2>2
  <2> QED
    BY <2>1, <2>2, <2>3, RetriesTyped DEF IInv, Typed
<1>2. UNCHANGED <<failedRows, attempt, run, held>>
  BY DEF HandleRetry, campaign, rows, worker
<1>3. Held'
  BY <1>2 DEF IInv, Rest, Held
<1>4. RetriesFollow'
  <2>1. \A i \in 1 .. Len(inbox') :
          IsRetry(inbox'[i]) => Follows(inbox'[i].contact, inbox'[i].attempt)
    BY <1>1 DEF IInv, Rest, RetriesFollow
  <2>2. Follows(event'[1], event'[2])
    BY <1>1 DEF IInv, Rest, RetriesFollow
  <2> QED
    BY <1>2, <2>1, <2>2 DEF RetriesFollow, Follows, IsRetry
<1>5. ReportedOnce'
  <2>1. \A i, k \in 1 .. Len(inbox') : IsRetry(inbox'[i]) /\ inbox'[i] = inbox'[k] => i = k
    <3> SUFFICES ASSUME NEW i \in 1 .. Len(inbox'), NEW k \in 1 .. Len(inbox'),
                        IsRetry(inbox'[i]), inbox'[i] = inbox'[k]
                 PROVE  i = k
      OBVIOUS
    <3>1. i + 1 = k + 1
      BY <1>1 DEF IInv, Rest, ReportedOnce
    <3> QED
      BY <3>1
  <2>2. \A i \in 1 .. Len(inbox') :
          IsRetry(inbox'[i]) => event' # <<inbox'[i].contact, inbox'[i].attempt>>
    <3> SUFFICES ASSUME NEW i \in 1 .. Len(inbox'), IsRetry(inbox'[i]),
                        event' = <<inbox'[i].contact, inbox'[i].attempt>>
                 PROVE  FALSE
      OBVIOUS
    <3>1. inbox'[i] \in Events /\ e \in Events
      BY <1>1
    <3>2. inbox'[i] = e
      BY <1>1, <3>1 DEF Events, IsRetry
    <3> QED
      BY <1>1, <3>2 DEF IInv, Rest, ReportedOnce
  <2> QED
    BY <2>1, <2>2 DEF ReportedOnce, IsRetry
<1>6. Counted \subseteq Counted'
  <2>1. \A c \in Contacts : Owed(c)' => Owed(c)
    BY <1>1 DEF Owed, IsRetry
  <2> QED
    BY <2>1, <1>2 DEF Counted, Through
<1> QED
  BY <1>2, <1>3, <1>4, <1>5, <1>6, CountKept DEF Rest

\* A contact is counted: it was not, and is through.
LEMMA ContactGivenUp == IInv /\ GiveUp => Rest'
<1> SUFFICES ASSUME IInv, GiveUp
             PROVE  Rest'
  OBVIOUS
<1>1. PICK c \in Contacts :
        event = <<c, MaxRetries>> /\ attempt[c] = MaxRetries /\ run[c] = "settled"
  <2>1. event # <<>> /\ event[2] = MaxRetries
    BY DEF IInv, Typed, InHand, GiveUp
  <2>2. event[1] \in Contacts /\ event = <<event[1], MaxRetries>>
    BY <2>1, EventTyped DEF IInv, Typed
  <2>3. attempt[event[1]] = MaxRetries /\ run[event[1]] = "settled"
    <3>1. attempt[event[1]] \in 0 .. MaxRetries
      BY <2>2 DEF IInv, Typed, TypeOK
    <3> QED
      BY <2>1, <3>1, TimesAssumption DEF IInv, Rest, RetriesFollow, Follows
  <2> QED
    BY <2>2, <2>3
<1>2. /\ UNCHANGED <<attempt, run, held, inbox>> /\ event' = <<>>
      /\ failedRows' = failedRows + 1
  BY DEF GiveUp, rows, worker
<1>3. RetriesFollow' /\ ReportedOnce' /\ \A d \in Contacts : Owed(d)' => Owed(d)
  BY <1>2, FewerEvents
<1>4. Held'
  BY <1>2 DEF IInv, Rest, Held
<1>5. FailedAreCounted'
  <2>1. c \notin Counted
    BY <1>1 DEF Counted, Owed
  <2>2. c \in Counted'
    <3>1. \A i \in 1 .. Len(inbox) :
            IsRetry(inbox[i]) => <<inbox[i].contact, inbox[i].attempt>> # <<c, MaxRetries>>
      BY <1>1 DEF IInv, Rest, ReportedOnce
    <3>2. event' # <<c, MaxRetries>>
      BY <1>2
    <3>3. ~Owed(c)'
      BY <1>2, <3>1, <3>2 DEF Owed, IsRetry
    <3> QED
      BY <1>1, <1>2, <3>3 DEF Counted, Through
  <2>3. Counted \cup {c} \subseteq Counted'
    BY <1>2, <1>3, <2>2 DEF Counted, Through
  <2>4. Cardinality(Counted \cup {c}) = Cardinality(Counted) + 1
    BY <2>1, CountedFinite, FS_AddElement
  <2>5. Cardinality(Counted \cup {c}) <= Cardinality(Counted')
    BY <2>3, CountedFinite, FS_Subset
  <2>6. Cardinality(Counted) \in Nat /\ Cardinality(Counted') \in Nat
    BY CountedFinite, FS_CardinalityType
  <2> QED
    BY <1>2, <2>4, <2>5, <2>6 DEF IInv, Typed, TypeOK, Rest, FailedAreCounted
<1> QED
  BY <1>3, <1>4, <1>5 DEF Rest

\* A retry is created: the runs that have been counted are others.
LEMMA RetryCreated == IInv /\ InsertRetry => Rest'
<1> SUFFICES ASSUME IInv, InsertRetry
             PROVE  Rest'
  OBVIOUS
<1> DEFINE c == event[1]
           n == event[2]
           Then(d, m) == m < attempt'[d] \/ (m = attempt'[d] /\ run'[d] = "settled")
<1>1. /\ event = <<c, n>> /\ c \in Contacts /\ n \in 0 .. MaxRetries /\ n < MaxRetries
      /\ attempt[c] = n /\ run[c] = "settled"
  <2>1. event # <<>> /\ n < MaxRetries /\ attempt[c] = n
    BY DEF IInv, Typed, InHand, InsertRetry
  <2>2. event = <<c, n>> /\ c \in Contacts /\ n \in 0 .. MaxRetries
    BY <2>1, EventTyped DEF IInv, Typed
  <2>3. run[c] = "settled"
    BY <2>1, <2>2, TimesAssumption DEF IInv, Rest, RetriesFollow, Follows
  <2> QED
    BY <2>1, <2>2, <2>3
<1>2. /\ UNCHANGED <<failedRows, held, inbox, event>>
      /\ attempt' = [attempt EXCEPT ![c] = n + 1] /\ run' = [run EXCEPT ![c] = "queued"]
  BY DEF InsertRetry, campaign, worker
<1>3. /\ attempt \in [Contacts -> 0 .. MaxRetries] /\ held \in [Jobs -> SUBSET Contacts]
      /\ run \in [Contacts -> {"queued", "processing", "called", "settled", "failed"}]
  BY DEF IInv, Typed, TypeOK
<1>4. Held'
  BY <1>1, <1>2, <1>3 DEF IInv, Rest, Held
<1>5. \A d \in Contacts : \A m \in 0 .. MaxRetries : Follows(d, m) => Then(d, m)
  BY <1>1, <1>2, <1>3, TimesAssumption DEF Follows
<1>6. RetriesFollow'
  <2>1. \A i \in 1 .. Len(inbox) :
          IsRetry(inbox[i]) => /\ inbox[i].contact \in Contacts
                               /\ inbox[i].attempt \in 0 .. MaxRetries
    BY RetriesTyped DEF IInv, Typed
  <2>2. \A i \in 1 .. Len(inbox) :
          IsRetry(inbox[i]) => Then(inbox[i].contact, inbox[i].attempt)
    BY <1>5, <2>1 DEF IInv, Rest, RetriesFollow
  <2>3. Then(c, n)
    BY <1>1, <1>5 DEF IInv, Rest, RetriesFollow
  <2> QED
    BY <1>2, <2>2, <2>3 DEF RetriesFollow, Follows, IsRetry
<1>7. ReportedOnce'
  BY <1>2 DEF IInv, Rest, ReportedOnce, IsRetry
<1>8. Counted \subseteq Counted'
  BY <1>1, <1>2, <1>3 DEF Counted, Through, Owed, IsRetry
<1> QED
  BY <1>2, <1>4, <1>6, <1>7, <1>8, CountKept DEF Rest

\* A call ends, and is reported once: its attempt was not reported before.
LEMMA CallReported == ASSUME IInv, NEW c \in Contacts, CallEnds(c) PROVE Rest'
<1> DEFINE Then(d, m) == m < attempt'[d] \/ (m = attempt'[d] /\ run'[d] = "settled")
<1>1. /\ UNCHANGED <<failedRows, attempt, held, event, pc>>
      /\ run[c] = "called" /\ run' = [run EXCEPT ![c] = "settled"]
      /\ inbox' = inbox \/ inbox' = Append(inbox, Retry(c))
  BY DEF CallEnds, Publish, campaign, worker
<1>2. /\ attempt \in [Contacts -> 0 .. MaxRetries] /\ held \in [Jobs -> SUBSET Contacts]
      /\ run \in [Contacts -> {"queued", "processing", "called", "settled", "failed"}]
      /\ inbox \in Seq(Events) /\ Len(inbox) \in Nat
  BY DEF IInv, Typed, TypeOK
<1>3. Held'
  BY <1>1, <1>2 DEF IInv, Rest, Held
<1>4. CASE inbox' = inbox
  BY <1>1, <1>2, <1>3, <1>4, KeepsRest
<1>5. CASE inbox' = Append(inbox, Retry(c))
  <2>1. /\ Len(inbox') = Len(inbox) + 1 /\ inbox'[Len(inbox) + 1] = Retry(c)
        /\ \A i \in 1 .. Len(inbox) : inbox'[i] = inbox[i]
    BY <1>2, <1>5 DEF Events
  <2>2. /\ IsRetry(Retry(c)) /\ Retry(c).contact = c /\ Retry(c).attempt = attempt[c]
    BY DEF IsRetry, Retry
  <2>3. \A i \in 1 .. Len(inbox) :
          IsRetry(inbox[i]) => /\ inbox[i].contact \in Contacts
                               /\ ~(inbox[i].contact = c /\ inbox[i].attempt = attempt[c])
    <3>1. \A i \in 1 .. Len(inbox) :
            IsRetry(inbox[i]) => /\ inbox[i].contact \in Contacts
                                 /\ Follows(inbox[i].contact, inbox[i].attempt)
      BY RetriesTyped DEF IInv, Typed, Rest, RetriesFollow
    <3>2. ~Follows(c, attempt[c])
      BY <1>1, <1>2, TimesAssumption DEF Follows
    <3> QED
      BY <3>1, <3>2
  <2>4. event # <<c, attempt[c]>>
    BY <1>1, <1>2, TimesAssumption DEF IInv, Rest, RetriesFollow, Follows
  <2>5. \A d \in Contacts : \A m : Follows(d, m) => Then(d, m)
    BY <1>1, <1>2 DEF Follows
  <2>6. RetriesFollow'
    <3>1. Then(c, attempt[c])
      BY <1>1, <1>2 DEF Follows
    <3>2. \A i \in 1 .. Len(inbox) + 1 :
            IsRetry(inbox'[i]) => Then(inbox'[i].contact, inbox'[i].attempt)
      <4>1. \A i \in 1 .. Len(inbox) :
              IsRetry(inbox[i]) => Then(inbox[i].contact, inbox[i].attempt)
        BY <2>3, <2>5 DEF IInv, Rest, RetriesFollow
      <4> QED
        BY <1>2, <2>1, <2>2, <3>1, <4>1
    <3>3. event # <<>> => Then(event[1], event[2])
      BY <2>5, EventTyped DEF IInv, Typed, Rest, RetriesFollow
    <3> QED
      BY <1>1, <2>1, <3>2, <3>3 DEF RetriesFollow, Follows, IsRetry
  <2>7. ReportedOnce'
    <3>1. \A i \in 1 .. Len(inbox) : IsRetry(inbox[i]) => inbox[i] # Retry(c)
      BY <2>2, <2>3
    <3>2. \A i, k \in 1 .. Len(inbox) + 1 :
            IsRetry(inbox'[i]) /\ inbox'[i] = inbox'[k] => i = k
      BY <1>2, <2>1, <2>2, <3>1 DEF IInv, Rest, ReportedOnce, IsRetry
    <3>3. \A i \in 1 .. Len(inbox) + 1 :
            IsRetry(inbox'[i]) => event # <<inbox'[i].contact, inbox'[i].attempt>>
      BY <1>2, <2>1, <2>2, <2>4 DEF IInv, Rest, ReportedOnce
    <3> QED
      BY <1>1, <2>1, <3>2, <3>3 DEF ReportedOnce, IsRetry
  <2>8. Counted \subseteq Counted'
    <3>1. \A d \in Contacts : d # c /\ Owed(d)' => Owed(d)
      <4> SUFFICES ASSUME NEW d \in Contacts, d # c, Owed(d)'
                   PROVE  Owed(d)
        OBVIOUS
      <4>1. CASE event' = <<d, MaxRetries>>
        BY <1>1, <4>1 DEF Owed
      <4>2. CASE \E i \in 1 .. Len(inbox') :
                   IsRetry(inbox'[i]) /\ inbox'[i].contact = d /\ inbox'[i].attempt = MaxRetries
        BY <1>2, <2>1, <2>2, <4>2 DEF Owed
      <4> QED
        BY <4>1, <4>2 DEF Owed, IsRetry
    <3> QED
      BY <1>1, <1>2, <3>1 DEF Counted, Through
  <2> QED
    BY <1>1, <1>3, <2>6, <2>7, <2>8, CountKept DEF Rest
<1> QED
  BY <1>1, <1>4, <1>5

---------------------------------------------------------------------------
(* The invariant.                                                          *)

\* Every step keeps it, when no call is reported twice.
LEMMA RestStep ==
  ASSUME "duplicate" \notin Kinds, IInv, [Next]_vars
  PROVE  Rest'
<1>1. ASSUME NEW p \in Coroutines, SchedulePass(p)
      PROVE  Rest'
  <2>1. CASE ReadCampaign(p)
    BY <2>1, Aside DEF ReadCampaign, Finish, campaign, rows, worker, env
  <2>2. CASE BreakerOpen(p)
    BY <2>2, Aside DEF BreakerOpen, campaign, rows, worker
  <2>3. CASE PauseByBreaker(p)
    BY <2>3, Aside DEF PauseByBreaker, rows, worker, env
  <2>4. CASE Tripped(p)
    BY <2>4, Published, Aside DEF Tripped, MonitorSleeps, campaign, rows, worker, env
  <2>5. CASE CountQueued(p)
    BY <2>5, Aside DEF CountQueued, campaign, rows, worker, env
  <2>6. CASE CountProcessing(p)
    BY <2>6, Aside DEF CountProcessing, Finish, campaign, rows, worker, env
  <2>7. CASE Enqueue(p)
    BY <2>7, Aside DEF Enqueue, campaign, rows, env
  <2>8. CASE NoteBatch(p)
    BY <2>8, Aside DEF NoteBatch, rows, worker, env
  <2> QED
    BY <1>1, <2>1, <2>2, <2>3, <2>4, <2>5, <2>6, <2>7, <2>8 DEF SchedulePass
<1>2. CASE Listener
  <2>1. CASE HandleSync
    BY <2>1, Aside DEF HandleSync, Receive, campaign, rows, worker, env
  <2>2. CASE HandleCompleted
    BY <2>2, Aside DEF HandleCompleted, Receive, campaign, rows, worker, env
  <2>3. CASE Reread
    BY <2>3, Aside DEF Reread, ClearCampaign, campaign, rows, worker, env
  <2>4. CASE HandleFailed
    BY <2>4, Aside DEF HandleFailed, Receive, campaign, rows, worker, env
  <2>5. CASE HandleTripped
    BY <2>5, Aside DEF HandleTripped, Receive, ClearCampaign, campaign, rows, worker,
       env
  <2>6. CASE HandleRetry
    BY <2>6, RetryTaken
  <2>7. CASE GiveUp
    BY <2>7, ContactGivenUp
  <2>8. CASE InsertRetry
    BY <2>8, RetryCreated
  <2>9. CASE RetryInserted
    BY <2>9, Aside DEF RetryInserted, campaign, rows, worker, env
  <2> QED
    BY <1>2, <1>1, <2>1, <2>2, <2>3, <2>4, <2>5, <2>6, <2>7, <2>8, <2>9 DEF Listener,
       Coroutines
<1>3. CASE Monitor
  <2>1. CASE ReadRunning
    BY <2>1, Aside DEF ReadRunning, campaign, rows, worker, env
  <2>2. CASE Check
    BY <2>2, Aside DEF Check, AskPending, campaign, rows, worker, env
  <2>3. CASE AskQueued
    BY <2>3, Aside DEF AskQueued, WorkFound, campaign, rows, worker, env
  <2>4. CASE AskProcessing
    BY <2>4, Aside DEF AskProcessing, AskPending, WorkFound, NoWorkFound, campaign,
       rows, worker, env
  <2>5. CASE Complete
    BY <2>5, Aside DEF Complete, rows, worker, env
  <2>6. CASE Completed
    BY <2>6, Aside DEF Completed, MonitorSleeps, ClearCampaign, campaign, rows,
       worker, env
  <2> QED
    BY <1>3, <1>1, <2>1, <2>2, <2>3, <2>4, <2>5, <2>6 DEF Monitor, Coroutines
<1>4. ASSUME NEW j \in Jobs,
             JobStarts(j) \/ JobCompletes(j) \/ FailCampaign(j) \/ JobRetriesLater(j)
               \/ JobFails(j) \/ JobCancelled(j) \/ JobDies(j)
      PROVE  Rest'
  <2>1. CASE JobStarts(j)
    <3>1. Held'
      BY <2>1 DEF IInv, Typed, TypeOK, Rest, Held, JobStarts, Due
    <3>2. \A d \in Contacts : run[d] = "settled" => run'[d] = "settled"
      BY <2>1 DEF IInv, Typed, TypeOK, Rest, Held, JobStarts, Due
    <3> QED
      BY <2>1, <3>1, <3>2, KeepsRest DEF JobStarts, campaign, env
  <2>2. CASE JobCompletes(j)
    BY <2>2, Published, Aside DEF JobCompletes, campaign, rows, env
  <2>3. CASE FailCampaign(j)
    BY <2>3, Aside DEF FailCampaign, rows, env
  <2>4. CASE JobRetriesLater(j)
    <3>1. Held'
      BY <2>4 DEF IInv, Typed, TypeOK, Rest, Held, JobRetriesLater, ReturnClaims
    <3>2. \A d \in Contacts : run[d] = "settled" => run'[d] = "settled"
      BY <2>4 DEF IInv, Typed, TypeOK, Rest, Held, JobRetriesLater, ReturnClaims
    <3> QED
      BY <2>4, <3>1, <3>2, KeepsRest, Published DEF JobRetriesLater, ReturnClaims,
         campaign
  <2>5. CASE JobFails(j)
    <3>1. Held'
      BY <2>5 DEF IInv, Typed, TypeOK, Rest, Held, JobFails, ReturnClaims
    <3>2. \A d \in Contacts : run[d] = "settled" => run'[d] = "settled"
      BY <2>5 DEF IInv, Typed, TypeOK, Rest, Held, JobFails, ReturnClaims
    <3> QED
      BY <2>5, <3>1, <3>2, KeepsRest, Published DEF JobFails, ReturnClaims, campaign
  <2>6. CASE JobCancelled(j)
    <3>1. Held'
      BY <2>6 DEF IInv, Typed, TypeOK, Rest, Held, JobCancelled, ReturnClaims
    <3>2. \A d \in Contacts : run[d] = "settled" => run'[d] = "settled"
      BY <2>6 DEF IInv, Typed, TypeOK, Rest, Held, JobCancelled, ReturnClaims
    <3> QED
      BY <2>6, <3>1, <3>2, KeepsRest DEF JobCancelled, ReturnClaims, campaign
  <2>7. CASE JobDies(j)
    <3>1. Held'
      BY <2>7 DEF IInv, Typed, TypeOK, Rest, Held, JobDies, rows
    <3>2. \A d \in Contacts : run[d] = "settled" => run'[d] = "settled"
      BY <2>7 DEF IInv, Typed, TypeOK, Rest, Held, JobDies, rows
    <3> QED
      BY <2>7, <3>1, <3>2, KeepsRest DEF JobDies, campaign, rows
  <2> QED
    BY <1>4, <2>1, <2>2, <2>3, <2>4, <2>5, <2>6, <2>7
<1>5. ASSUME NEW j \in Jobs, NEW c \in Contacts, JobDials(j, c)
      PROVE  Rest'
  <2>1. Held'
    BY <1>5 DEF IInv, Typed, TypeOK, Rest, Held, JobDials
  <2>2. \A d \in Contacts : run[d] = "settled" => run'[d] = "settled"
    BY <1>5 DEF IInv, Typed, TypeOK, Rest, Held, JobDials
  <2> QED
    BY <1>5, <2>1, <2>2, KeepsRest DEF JobDials, campaign, env
<1>6. ASSUME NEW c \in Contacts, CallEnds(c)
      PROVE  Rest'
  BY <1>6, CallReported
<1>7. ASSUME NEW c \in Contacts, ReportedTwice(c)
      PROVE  Rest'
  BY <1>7 DEF ReportedTwice, Trouble
<1>8. CASE ReleaseLock
  BY <1>8, Aside DEF ReleaseLock, campaign, rows, worker, env
<1>9. CASE InsertRaises
  BY <1>9, Aside DEF InsertRaises, Die, campaign, rows, worker, env
<1>10. CASE Start
  BY <1>10, Aside DEF Start, campaign, rows, worker, env
<1>11. CASE Subscribed
  BY <1>11, Aside DEF Subscribed, campaign, rows, worker, env
<1>12. CASE Tick
  BY <1>12, Aside DEF Tick, env
<1>13. CASE Restart
  BY <1>13, Aside DEF Restart, Die, campaign, rows, worker
<1>14. CASE Pause
  BY <1>14, Aside DEF Pause, rows, worker
<1>15. CASE Resume
  BY <1>15, Aside DEF Resume, rows, worker, env
<1>16. CASE CloseWindow
  BY <1>16, Aside DEF CloseWindow, campaign, rows, worker
<1>17. CASE OpenWindow
  BY <1>17, Aside DEF OpenWindow, campaign, rows, worker
<1>18. CASE UNCHANGED vars
  BY <1>18, Aside DEF vars, campaign, rows, worker, monitor, memory, env
<1> QED
  BY <1>2, <1>3, <1>4, <1>5, <1>6, <1>7, <1>8, <1>9, <1>10, <1>11, <1>12, <1>13,
     <1>14, <1>15, <1>16, <1>17, <1>18 DEF Next, Progress, Process, Job, JobTroubles

\* It holds when the source has been synced.
LEMMA InitIInv == Init => IInv
<1> SUFFICES ASSUME Init
             PROVE  IInv
  OBVIOUS
<1>1. TypeOK
  <2>1. inbox \in Seq(Events)
    BY DEF Init, Events
  <2> QED
    BY <2>1, TimesAssumption DEF Init, TypeOK, Scheduling, ListenerSteps, MonitorSteps,
       Coroutines, None
<1>2. InHand /\ Held /\ RetriesFollow /\ ReportedOnce
  BY DEF Init, InHand, Held, RetriesFollow, ReportedOnce, IsRetry, Coroutines
<1>3. FailedAreCounted
  <2>1. Cardinality(Counted) \in Nat
    BY CountedFinite, FS_CardinalityType
  <2> QED
    BY <2>1 DEF Init, FailedAreCounted
<1> QED
  BY <1>1, <1>2, <1>3 DEF IInv, Typed, Rest

\* The types hold throughout, whatever the troubles; so does what is in hand.
LEMMA TypeInvariance == Spec => []Typed
<1>1. Init => Typed
  BY InitIInv DEF IInv
<1>2. Typed /\ [Next]_vars => Typed'
  BY TypeStep, HandStep DEF Typed
<1> QED
  BY <1>1, <1>2, PTL DEF Spec

\* Type correctness: of both coroutines, their memory, the batches and the rows.
THEOREM TypeCorrect == Spec => []TypeOK
  BY TypeInvariance, PTL DEF Typed

\* The invariant holds throughout, when no call is reported twice.
LEMMA Invariance == ASSUME "duplicate" \notin Kinds PROVE Spec => []IInv
<1>1. IInv /\ [Next]_vars => IInv'
  BY TypeStep, HandStep, RestStep DEF IInv, Typed
<1> QED
  BY InitIInv, <1>1, PTL DEF Spec

\* failed_rows counts each contact that is past its last retry once, and no
\* other, unless one call is reported twice.
THEOREM FailuresCountOnce == ASSUME "duplicate" \notin Kinds PROVE Spec => []RowsFailOnce
<1>1. IInv => RowsFailOnce
  <2> SUFFICES ASSUME IInv
               PROVE  RowsFailOnce
    OBVIOUS
  <2>1. Counted \subseteq Through /\ IsFiniteSet(Through)
    BY TimesAssumption, FS_Subset DEF Counted, Through
  <2>2. /\ Cardinality(Counted) <= Cardinality(Through)
        /\ Cardinality(Counted) \in Nat /\ Cardinality(Through) \in Nat
    BY <2>1, CountedFinite, FS_Subset, FS_CardinalityType
  <2> QED
    BY <2>2 DEF IInv, Typed, TypeOK, Rest, FailedAreCounted, RowsFailOnce, Through
<1> QED
  BY Invariance, <1>1, PTL

---------------------------------------------------------------------------
(* When a campaign is through.                                             *)

\* An event of one of these types is on its way.
OnItsWay(types) == \E i \in 1 .. Len(inbox) : inbox[i].type \in types

\* A pass is at work or to come, after which the listener notes activity.
Refreshing ==
  \/ pc["L"] \in Scheduling \cup {"reread"}
  \/ OnItsWay({"sync", "completed", "failed"})

Busy == {j \in Jobs : jobs[j] # "none"}
Running == state = "running"
Sweeping == pc["M"] \in {"check", "askQueued", "askProcessing"}
Idling == Busy = {} /\ ~Refreshing

\* A run that a dead worker has left in processing keeps the campaign open.
Orphaned == \E c \in Contacts : run[c] = "processing" /\ \A j \in Jobs : c \notin held[j]

\* Nothing is left to do, also not by a call or an event.
Done ==
  /\ \A c \in Contacts : run[c] \in {"settled", "failed"}
  /\ ~OnItsWay({"retry"})
  /\ event = <<>>
  /\ \A j \in Jobs : jobs[j] # "failing"
  /\ state # "failed"

\* The monitor has found the campaign inactive, or has completed it.
Decided ==
  \/ pc["M"] \in {"askQueued", "askProcessing"} /\ ask = "complete"
  \/ pc["M"] \in {"completing", "clearing"}
  \/ state = "completed"

\* What the steps of a calm campaign need: nobody is down, a retry is of the
\* newest attempt, waits and locks are as old as they may be.
Alive == pc["L"] \notin {"down", "subscribing"} /\ pc["M"] # "down"
InHandOnly == event # <<>> => pc["L"] \in {"insert", "inserted", "giveUp"}
Newest ==
  /\ \A i \in 1 .. Len(inbox) :
       IsRetry(inbox[i]) => attempt[inbox[i].contact] = inbox[i].attempt
  /\ pc["L"] = "insert" => attempt[event[1]] = event[2]
HeldByWorking == \A j \in Jobs : held[j] # {} => jobs[j] = "working"
Waits ==
  \A c \in Contacts :
    /\ run[c] = "queued" => wait[c] <= RetryDelay
    /\ run[c] = "called" => wait[c] <= CallTime
    /\ run[c] \notin {"queued", "called"} => wait[c] = 0
Locked ==
  /\ lock = "new" => "new" \in timers \/ \E p \in Coroutines : pc[p] \in Scheduling
  /\ lock = "old" => "old" \in timers
Undisturbed ==
  /\ state # "paused" /\ window
  /\ \A p \in Coroutines : pc[p] \notin {"pausing", "tripping"}
  /\ ~OnItsWay({"tripped"})
  /\ pc["M"] = "clearing" => state = "completed"
Plain == Alive /\ InHandOnly /\ Newest /\ HeldByWorking /\ Waits /\ Locked /\ Undisturbed

\* The time a retry, a lost batch and a sweep take, the same with a batch, and
\* what a dead worker and a cancelled batch, which publish nothing, add.
Gap == RetryDelay + BatchTimeout + Sweep
Round == Gap + JobTime
Lost == (IF "crash" \in troubles THEN Round ELSE 0)
          + (IF "cancel" \in troubles THEN Round ELSE 0)

\* The idle window is longer than all of these and a call together.
IdleIsLong ==
  Idle > CallTime + Round + (IF "crash" \in Kinds THEN Round ELSE 0)
           + (IF "cancel" \in Kinds THEN Round ELSE 0)

\* The age of the last activity, in memory and in the document.
Bounded == (Running \/ Sweeping) /\ ~Done => act <= Lost + Round + CallTime
Stamped ==
  /\ Sweeping /\ act = None => seen < Idle
  /\ Sweeping /\ seen >= Idle => Idling /\ Running
  /\ Running /\ act = None => docAge = 0 /\ Refreshing
  /\ pc["M"] # "note" /\ ~Idling => docAge <= JobTime
  /\ (\A p \in Coroutines : pc[p] # "note") => \A j \in Busy : docAge <= age[j]

\* How old it is while there is work, by where that work stands.
BusyRecent ==
  Busy # {} => Refreshing \/ \E j \in Busy : act <= Lost + Gap + age[j]
CallsRecent ==
  \A c \in Contacts :
    run[c] = "called" => Refreshing \/ act + wait[c] <= Lost + Round + CallTime
RetriesRecent ==
  \A c \in Contacts :
    run[c] = "queued" /\ wait[c] > 0 =>
      (pc["L"] = "inserted" /\ event[1] = c) \/ act + wait[c] <= RetryDelay

\* The monitor is past its look at the queue.
Late ==
  \/ pc["M"] \in {"askProcessing", "countProcessing"}
  \/ pc["M"] = "askQueued" /\ ask \in {"mark", "complete"}
DueRecent ==
  SomeDue =>
    /\ act + nap <= Lost + Gap
    /\ pc["M"] \notin Scheduling =>
         /\ lock = "new" => act <= Lost
         /\ lock = "old" => act <= Lost + RetryDelay
    /\ Late => act <= Lost
PassRecent ==
  /\ inProg \in 0 .. BatchTimeout => act <= inProg + Lost
  /\ pc["M"] = "note" => act <= Lost
  /\ pc["M"] = "enqueue" => act <= Lost + Gap
Recent ==
  /\ BusyRecent /\ CallsRecent /\ RetriesRecent
  /\ Idling => DueRecent /\ PassRecent

CalmInv ==
  /\ Plain
  /\ Decided => Done
  /\ ~Orphaned => Bounded /\ Stamped /\ (Running => Recent)
IdleInv == IInv /\ (Calm => CalmInv)

\* The steps of a calm campaign.
CalmStep ==
  \/ \E p \in Coroutines :
       ReadCampaign(p) \/ CountQueued(p) \/ CountProcessing(p) \/ Enqueue(p) \/ NoteBatch(p)
  \/ HandleSync \/ HandleCompleted \/ Reread \/ HandleFailed \/ HandleRetry
  \/ GiveUp \/ InsertRetry \/ RetryInserted
  \/ ReadRunning \/ Check \/ AskQueued \/ AskProcessing \/ Complete \/ Completed
  \/ ReleaseLock \/ Tick
  \/ \E j \in Jobs :
       \/ JobStarts(j) \/ (\E c \in Contacts : JobDials(j, c)) \/ JobCompletes(j)
       \/ JobRetriesLater(j) \/ JobFails(j) \/ FailCampaign(j)
       \/ JobCancelled(j) \/ JobDies(j)
  \/ \E c \in Contacts : CallEnds(c)
  \/ UNCHANGED vars

LEMMA PublishedWay ==
  ASSUME Typed, Alive, NEW T, NEW e, Publish(e)
  PROVE  OnItsWay(T)' <=> OnItsWay(T) \/ e.type \in T
<1>1. inbox \in Seq(Events) /\ inbox' = Append(inbox, e) /\ Len(inbox) \in Nat
  BY DEF Typed, TypeOK, Alive, Publish
<1>2. /\ Len(inbox') = Len(inbox) + 1 /\ inbox'[Len(inbox) + 1] = e
      /\ \A i \in 1 .. Len(inbox) : inbox'[i] = inbox[i]
  BY <1>1
<1>3. ASSUME OnItsWay(T)' PROVE OnItsWay(T) \/ e.type \in T
  BY <1>1, <1>2, <1>3 DEF OnItsWay
<1>4. ASSUME OnItsWay(T) PROVE OnItsWay(T)'
  BY <1>1, <1>2, <1>4 DEF OnItsWay
<1>5. ASSUME e.type \in T PROVE OnItsWay(T)'
  BY <1>1, <1>2, <1>5 DEF OnItsWay
<1> QED
  BY <1>3, <1>4, <1>5

\* What is received is not on its way any more.
LEMMA ReceivedWay ==
  ASSUME Typed, NEW T, NEW t, Receive(t)
  PROVE  OnItsWay(T) <=> OnItsWay(T)' \/ t \in T
<1>1. /\ inbox \in Seq(Events) /\ inbox # <<>> /\ inbox' = Tail(inbox)
      /\ Len(inbox) \in Nat /\ inbox[1].type = t
  BY DEF Typed, TypeOK, Receive
<1>2. /\ Len(inbox') = Len(inbox) - 1 /\ Len(inbox) >= 1
      /\ \A i \in 1 .. Len(inbox') : inbox'[i] = inbox[i + 1]
  BY <1>1
<1>3. ASSUME OnItsWay(T) PROVE OnItsWay(T)' \/ t \in T
  <2>1. PICK i \in 1 .. Len(inbox) : inbox[i].type \in T
    BY <1>3 DEF OnItsWay
  <2>2. CASE i = 1
    BY <1>1, <2>1, <2>2
  <2>3. CASE i # 1
    <3>1. i - 1 \in 1 .. Len(inbox') /\ inbox'[i - 1] = inbox[i]
      BY <1>1, <1>2, <2>3
    <3> QED
      BY <2>1, <3>1 DEF OnItsWay
  <2> QED
    BY <2>2, <2>3
<1>4. ASSUME OnItsWay(T)' PROVE OnItsWay(T)
  BY <1>1, <1>2, <1>4 DEF OnItsWay
<1>5. ASSUME t \in T PROVE OnItsWay(T)
  BY <1>1, <1>2, <1>5 DEF OnItsWay
<1> QED
  BY <1>3, <1>4, <1>5

\* Trouble is not undone.
LEMMA TroublesStay == [Next]_vars => troubles \subseteq troubles'
<1> SUFFICES ASSUME [Next]_vars
             PROVE  troubles \subseteq troubles'
  OBVIOUS
<1>1. ASSUME NEW p \in Coroutines, SchedulePass(p)
      PROVE  troubles \subseteq troubles'
  BY <1>1 DEF SchedulePass, ReadCampaign, BreakerOpen, PauseByBreaker, Tripped,
     CountQueued, CountProcessing, Enqueue, NoteBatch, Trouble, env
<1>2. CASE Listener
  BY <1>1, <1>2 DEF Listener, HandleSync, HandleCompleted, Reread, HandleFailed,
     HandleTripped, HandleRetry, GiveUp, InsertRetry, RetryInserted, env, Coroutines
<1>3. CASE Monitor
  BY <1>1, <1>3 DEF Monitor, ReadRunning, Check, AskQueued, AskProcessing, Complete,
     Completed, env, Coroutines
<1>4. ASSUME NEW j \in Jobs, Job(j) \/ JobTroubles(j)
      PROVE  troubles \subseteq troubles'
  BY <1>4 DEF Job, JobTroubles, JobStarts, JobDials, JobCompletes, FailCampaign,
     JobRetriesLater, JobFails, JobCancelled, JobDies, Trouble, env
<1>5. CASE Restart \/ Pause \/ Resume \/ CloseWindow \/ OpenWindow
  BY <1>5 DEF Restart, Pause, Resume, CloseWindow, OpenWindow, Trouble, env
<1>6. CASE Tick \/ ReleaseLock \/ InsertRaises \/ Start \/ Subscribed
  BY <1>6 DEF Tick, ReleaseLock, InsertRaises, Start, Subscribed, env
<1>7. ASSUME NEW c \in Contacts, CallEnds(c) \/ ReportedTwice(c)
      PROVE  troubles \subseteq troubles'
  BY <1>7 DEF CallEnds, ReportedTwice, Trouble, env
<1>8. CASE UNCHANGED vars
  BY <1>8 DEF vars, env
<1> QED
  BY <1>2, <1>3, <1>4, <1>5, <1>6, <1>7, <1>8 DEF Next, Progress, Process

\* While the campaign is calm nobody trips, pauses, restarts or raises.
LEMMA CalmOnly ==
  ASSUME Kinds \cap {"restart", "duplicate"} = {}, IInv, Plain, Calm', [Next]_vars
  PROVE  CalmStep
<1>1. ASSUME NEW p \in Coroutines, SchedulePass(p)
      PROVE  CalmStep
  BY <1>1 DEF SchedulePass, CalmStep, BreakerOpen, PauseByBreaker, Tripped, Trouble,
     Calm, Plain, Undisturbed
<1>2. ~HandleTripped
  BY ReceivedWay DEF HandleTripped, IInv, Plain, Undisturbed
<1>3. ~(Restart \/ Pause \/ Resume \/ CloseWindow \/ OpenWindow)
  BY DEF Restart, Pause, Resume, CloseWindow, OpenWindow, Trouble, Calm, Plain,
     Undisturbed
<1>4. ~(InsertRaises \/ Start \/ Subscribed)
  BY DEF InsertRaises, Start, Subscribed, Plain, Alive, Newest
<1>5. \A c \in Contacts : ~ReportedTwice(c)
  BY DEF ReportedTwice, Trouble
<1> QED
  BY <1>1, <1>2, <1>3, <1>4, <1>5
     DEF Next, Progress, Process, Listener, Monitor, Job, JobTroubles, CalmStep, Coroutines

---------------------------------------------------------------------------
(* The times.                                                              *)

\* What a dead worker and a cancelled batch may add: no more than once each.
LEMMA LostGrows ==
  ASSUME Typed, Typed', troubles \subseteq troubles'
  PROVE  /\ Gap \in Nat /\ Round \in Nat /\ Lost \in Nat /\ Lost' \in Nat
         /\ Lost <= Lost' /\ Sweep <= Gap /\ RetryDelay + Sweep <= Gap
         /\ BatchTimeout + Sweep <= Gap /\ Round = Gap + JobTime
<1>1. /\ Gap \in Nat /\ Round \in Nat
      /\ Sweep <= Gap /\ RetryDelay + Sweep <= Gap /\ BatchTimeout + Sweep <= Gap
  BY TimesAssumption DEF Gap, Round
<1> QED
  BY <1>1 DEF Lost, Round

\* As long as a round, when it does.
LEMMA LostAdded ==
  ASSUME Typed, \/ "crash" \notin troubles /\ troubles' = troubles \cup {"crash"}
                \/ "cancel" \notin troubles /\ troubles' = troubles \cup {"cancel"}
  PROVE  Lost' = Lost + Round
<1>1. Round \in Nat
  BY TimesAssumption DEF Gap, Round
<1> QED
  BY <1>1 DEF Lost

\* Trouble is not undone by the steps of a calm campaign.
LEMMA CalmGrows == IInv /\ CalmStep => troubles \subseteq troubles'
<1> SUFFICES ASSUME IInv, CalmStep
             PROVE  troubles \subseteq troubles'
  OBVIOUS
<1>1. ASSUME NEW p \in Coroutines,
             ReadCampaign(p) \/ CountQueued(p) \/ CountProcessing(p) \/ Enqueue(p) \/
             NoteBatch(p)
      PROVE  troubles \subseteq troubles'
  BY <1>1
     DEF ReadCampaign, CountQueued, CountProcessing, Enqueue, NoteBatch, Finish, Leave,
        MonitorSleeps, Goto, campaign, rows, worker, monitor, memory, env, Publish
<1>2. CASE HandleSync \/ HandleCompleted \/ Reread \/ HandleFailed \/ HandleRetry \/
           GiveUp \/ InsertRetry \/ RetryInserted
  BY <1>2
     DEF HandleSync, HandleCompleted, Reread, HandleFailed, HandleRetry, GiveUp,
        InsertRetry, RetryInserted, Receive, Enter, Leave, Goto, campaign, rows, worker,
        env, monitor, ClearCampaign, memory, Publish
<1>3. CASE ReadRunning \/ Check \/ AskQueued \/ AskProcessing \/ Complete \/ Completed
  BY <1>3
     DEF ReadRunning, Check, AskQueued, AskProcessing, Complete, Completed, Goto,
        campaign, rows, worker, memory, env, AskPending, Leave, MonitorSleeps,
        WorkFound, Enter, monitor, NoWorkFound, ClearCampaign, Publish
<1>4. CASE ReleaseLock \/ Tick \/ UNCHANGED vars
  BY <1>4
     DEF ReleaseLock, Tick, campaign, rows, worker, monitor, env, Quiet, Less, Older,
        vars, memory, Publish
<1>5. ASSUME NEW j \in Jobs,
             JobStarts(j) \/ JobCompletes(j) \/ JobRetriesLater(j) \/ JobFails(j) \/
             FailCampaign(j) \/ JobCancelled(j) \/ JobDies(j)
      PROVE  troubles \subseteq troubles'
  BY <1>5
     DEF JobStarts, JobCompletes, JobRetriesLater, JobFails, FailCampaign, JobCancelled,
        JobDies, Due, campaign, monitor, memory, env, Ends, rows, ReturnClaims, Trouble,
        Publish
<1>6. ASSUME NEW j \in Jobs, NEW c \in Contacts, JobDials(j, c)
      PROVE  troubles \subseteq troubles'
  BY <1>6 DEF JobDials, campaign, monitor, memory, env, Publish
<1>7. ASSUME NEW c \in Contacts, CallEnds(c)
      PROVE  troubles \subseteq troubles'
  BY <1>7 DEF CallEnds, campaign, worker, monitor, memory, env, Publish
<1> QED
  BY <1>1, <1>2, <1>3, <1>4, <1>5, <1>6, <1>7 DEF CalmStep

\* What is lost and what a round takes are numbers.
LEMMA LostTyped == Typed => Lost \in Nat /\ Round \in Nat /\ CallTime \in Nat
  BY LostGrows, TimesAssumption DEF Lost, Gap, Round

\* The idle window is longer than what can be lost.
LEMMA LostBelow == ASSUME Typed, IdleIsLong PROVE Lost + Round + CallTime < Idle
<1>1. Round \in Nat /\ CallTime \in Nat /\ Idle \in Nat
  BY TimesAssumption DEF Gap, Round
<1>2. troubles \subseteq Kinds
  BY DEF Typed, TypeOK
<1> QED
  BY <1>1, <1>2 DEF IdleIsLong, Lost

---------------------------------------------------------------------------
(* What the steps of a calm campaign need, they keep.                      *)

\* The run whose retry is created has ended.
LEMMA RetryOfSettled ==
  ASSUME IInv, InsertRetry
  PROVE  /\ event # <<>> /\ event[1] \in Contacts /\ run[event[1]] = "settled"
<1>1. event # <<>> /\ attempt[event[1]] = event[2]
  BY DEF IInv, Typed, InHand, InsertRetry
<1>2. event[1] \in Contacts /\ event[2] \in 0 .. MaxRetries
  BY <1>1, EventTyped DEF IInv, Typed
<1> QED
  BY <1>1, <1>2, TimesAssumption DEF IInv, Rest, RetriesFollow, Follows

\* Nobody returns the runs of a dead worker.
LEMMA OrphansStay ==
  ASSUME IInv, Plain, Orphaned, CalmStep
  PROVE  Orphaned'
<1>1. ASSUME NEW p \in Coroutines,
             ReadCampaign(p) \/ CountQueued(p) \/ CountProcessing(p) \/ Enqueue(p) \/
             NoteBatch(p)
      PROVE  Orphaned'
  BY <1>1
     DEF ReadCampaign, CountQueued, CountProcessing, Enqueue, NoteBatch, Finish, Leave,
        MonitorSleeps, Goto, campaign, rows, worker, monitor, memory, env, IInv, Typed,
        TypeOK, Plain, Orphaned, Rest
<1>2. CASE HandleSync \/ HandleCompleted \/ Reread \/ HandleFailed \/ HandleRetry \/
           GiveUp \/ RetryInserted
  BY <1>2
     DEF HandleSync, HandleCompleted, Reread, HandleFailed, HandleRetry, GiveUp,
        RetryInserted, Receive, Enter, Leave, Goto, campaign, rows, worker, env,
        monitor, ClearCampaign, memory, IInv, Typed, TypeOK, Plain, Orphaned, Rest
<1>3. CASE InsertRetry
  <2>1. PICK c \in Contacts : run[c] = "processing" /\ \A j \in Jobs : c \notin held[j]
    BY DEF Orphaned
  <2>2. c # event[1]
    BY <1>3, <2>1, RetryOfSettled
  <2>3. run'[c] = run[c] /\ held' = held
    BY <1>3, <2>2 DEF InsertRetry, worker, IInv, Typed, TypeOK
  <2> QED
    BY <2>1, <2>3 DEF Orphaned
<1>4. CASE ReadRunning \/ Check \/ AskQueued \/ AskProcessing \/ Complete \/ Completed
  BY <1>4
     DEF ReadRunning, Check, AskQueued, AskProcessing, Complete, Completed, Goto,
        campaign, rows, worker, memory, env, AskPending, Leave, MonitorSleeps,
        WorkFound, Enter, monitor, NoWorkFound, ClearCampaign, IInv, Typed, TypeOK,
        Plain, Orphaned, Rest
<1>5. CASE ReleaseLock \/ Tick \/ UNCHANGED vars
  BY <1>5
     DEF ReleaseLock, Tick, campaign, rows, worker, monitor, env, Quiet, Less, Older,
        vars, memory, IInv, Typed, TypeOK, Plain, Orphaned, Rest
<1>6. ASSUME NEW j \in Jobs,
             JobStarts(j) \/ JobCompletes(j) \/ JobRetriesLater(j) \/ JobFails(j) \/
             FailCampaign(j) \/ JobCancelled(j) \/ JobDies(j)
      PROVE  Orphaned'
  BY <1>6
     DEF JobStarts, JobCompletes, JobRetriesLater, JobFails, FailCampaign, JobCancelled,
        JobDies, Due, campaign, monitor, memory, env, Ends, rows, ReturnClaims, Trouble,
        IInv, Typed, TypeOK, Plain, Orphaned, Rest
<1>7. ASSUME NEW j \in Jobs, NEW c \in Contacts, JobDials(j, c)
      PROVE  Orphaned'
  <2>1. PICK d \in Contacts : run[d] = "processing" /\ \A i \in Jobs : d \notin held[i]
    BY DEF Orphaned
  <2>2. d # c
    BY <1>7, <2>1 DEF JobDials
  <2>3. run'[d] = run[d] /\ \A i \in Jobs : d \notin held'[i]
    BY <1>7, <2>1, <2>2 DEF JobDials, IInv, Typed, TypeOK
  <2> QED
    BY <2>1, <2>3 DEF Orphaned
<1>8. ASSUME NEW c \in Contacts, CallEnds(c)
      PROVE  Orphaned'
  BY <1>8
     DEF CallEnds, campaign, worker, monitor, memory, env, IInv, Typed, TypeOK, Plain,
        Orphaned, Rest
<1> QED
  BY <1>1, <1>2, <1>3, <1>4, <1>5, <1>6, <1>7, <1>8 DEF CalmStep

\* Nobody stops.
LEMMA AliveStep ==
  ASSUME IInv, Plain, CalmStep
  PROVE  Alive'
<1>1. ASSUME NEW p \in Coroutines,
             ReadCampaign(p) \/ CountQueued(p) \/ CountProcessing(p) \/ Enqueue(p) \/
             NoteBatch(p)
      PROVE  Alive'
  BY <1>1
     DEF ReadCampaign, CountQueued, CountProcessing, Enqueue, NoteBatch, Finish, Leave,
        MonitorSleeps, Goto, campaign, rows, worker, monitor, memory, env, IInv, Typed,
        TypeOK, Plain, Alive, Coroutines, Scheduling
<1>2. CASE HandleSync \/ HandleCompleted \/ Reread \/ HandleFailed \/ HandleRetry \/
           GiveUp \/ InsertRetry \/ RetryInserted
  BY <1>2
     DEF HandleSync, HandleCompleted, Reread, HandleFailed, HandleRetry, GiveUp,
        InsertRetry, RetryInserted, Receive, Enter, Leave, Goto, campaign, rows, worker,
        env, monitor, ClearCampaign, memory, IInv, Typed, TypeOK, Plain, Alive,
        Coroutines, Scheduling
<1>3. CASE ReadRunning \/ Check \/ AskQueued \/ AskProcessing \/ Complete \/ Completed
  BY <1>3
     DEF ReadRunning, Check, AskQueued, AskProcessing, Complete, Completed, Goto,
        campaign, rows, worker, memory, env, AskPending, Leave, MonitorSleeps,
        WorkFound, Enter, monitor, NoWorkFound, ClearCampaign, IInv, Typed, TypeOK,
        Plain, Alive, Coroutines, Scheduling
<1>4. CASE ReleaseLock \/ Tick \/ UNCHANGED vars
  BY <1>4
     DEF ReleaseLock, Tick, campaign, rows, worker, monitor, env, Quiet, Less, Older,
        vars, memory, IInv, Typed, TypeOK, Plain, Alive, Coroutines, Scheduling
<1>5. ASSUME NEW j \in Jobs,
             JobStarts(j) \/ JobCompletes(j) \/ JobRetriesLater(j) \/ JobFails(j) \/
             FailCampaign(j) \/ JobCancelled(j) \/ JobDies(j)
      PROVE  Alive'
  BY <1>5
     DEF JobStarts, JobCompletes, JobRetriesLater, JobFails, FailCampaign, JobCancelled,
        JobDies, Due, campaign, monitor, memory, env, Ends, rows, ReturnClaims, Trouble,
        IInv, Typed, TypeOK, Plain, Alive, Coroutines, Scheduling
<1>6. ASSUME NEW j \in Jobs, NEW c \in Contacts, JobDials(j, c)
      PROVE  Alive'
  BY <1>6
     DEF JobDials, campaign, monitor, memory, env, IInv, Typed, TypeOK, Plain, Alive,
        Coroutines, Scheduling
<1>7. ASSUME NEW c \in Contacts, CallEnds(c)
      PROVE  Alive'
  BY <1>7
     DEF CallEnds, campaign, worker, monitor, memory, env, IInv, Typed, TypeOK, Plain,
        Alive, Coroutines, Scheduling
<1> QED
  BY <1>1, <1>2, <1>3, <1>4, <1>5, <1>6, <1>7 DEF CalmStep

\* Only a listener at work on a retry has one in hand.
LEMMA HandOnlyStep ==
  ASSUME IInv, Plain, CalmStep
  PROVE  InHandOnly'
<1>1. ASSUME NEW p \in Coroutines,
             ReadCampaign(p) \/ CountQueued(p) \/ CountProcessing(p) \/ Enqueue(p) \/
             NoteBatch(p)
      PROVE  InHandOnly'
  BY <1>1
     DEF ReadCampaign, CountQueued, CountProcessing, Enqueue, NoteBatch, Finish, Leave,
        MonitorSleeps, Goto, campaign, rows, worker, monitor, memory, env, IInv, Typed,
        TypeOK, Plain, InHandOnly, Coroutines, Scheduling
<1>2. CASE HandleSync \/ HandleCompleted \/ Reread \/ HandleFailed \/ HandleRetry \/
           GiveUp \/ InsertRetry \/ RetryInserted
  BY <1>2
     DEF HandleSync, HandleCompleted, Reread, HandleFailed, HandleRetry, GiveUp,
        InsertRetry, RetryInserted, Receive, Enter, Leave, Goto, campaign, rows, worker,
        env, monitor, ClearCampaign, memory, IInv, Typed, TypeOK, Plain, InHandOnly,
        Coroutines, Scheduling
<1>3. CASE ReadRunning \/ Check \/ AskQueued \/ AskProcessing \/ Complete \/ Completed
  BY <1>3
     DEF ReadRunning, Check, AskQueued, AskProcessing, Complete, Completed, Goto,
        campaign, rows, worker, memory, env, AskPending, Leave, MonitorSleeps,
        WorkFound, Enter, monitor, NoWorkFound, ClearCampaign, IInv, Typed, TypeOK,
        Plain, InHandOnly, Coroutines, Scheduling
<1>4. CASE ReleaseLock \/ Tick \/ UNCHANGED vars
  BY <1>4
     DEF ReleaseLock, Tick, campaign, rows, worker, monitor, env, Quiet, Less, Older,
        vars, memory, IInv, Typed, TypeOK, Plain, InHandOnly, Coroutines, Scheduling
<1>5. ASSUME NEW j \in Jobs,
             JobStarts(j) \/ JobCompletes(j) \/ JobRetriesLater(j) \/ JobFails(j) \/
             FailCampaign(j) \/ JobCancelled(j) \/ JobDies(j)
      PROVE  InHandOnly'
  BY <1>5
     DEF JobStarts, JobCompletes, JobRetriesLater, JobFails, FailCampaign, JobCancelled,
        JobDies, Due, campaign, monitor, memory, env, Ends, rows, ReturnClaims, Trouble,
        IInv, Typed, TypeOK, Plain, InHandOnly, Coroutines, Scheduling
<1>6. ASSUME NEW j \in Jobs, NEW c \in Contacts, JobDials(j, c)
      PROVE  InHandOnly'
  BY <1>6
     DEF JobDials, campaign, monitor, memory, env, IInv, Typed, TypeOK, Plain,
        InHandOnly, Coroutines, Scheduling
<1>7. ASSUME NEW c \in Contacts, CallEnds(c)
      PROVE  InHandOnly'
  BY <1>7
     DEF CallEnds, campaign, worker, monitor, memory, env, IInv, Typed, TypeOK, Plain,
        InHandOnly, Coroutines, Scheduling
<1> QED
  BY <1>1, <1>2, <1>3, <1>4, <1>5, <1>6, <1>7 DEF CalmStep

\* Only a batch at work holds runs.
LEMMA HeldByStep ==
  ASSUME IInv, Plain, CalmStep
  PROVE  HeldByWorking'
<1>1. ASSUME NEW p \in Coroutines,
             ReadCampaign(p) \/ CountQueued(p) \/ CountProcessing(p) \/ Enqueue(p) \/
             NoteBatch(p)
      PROVE  HeldByWorking'
  BY <1>1
     DEF ReadCampaign, CountQueued, CountProcessing, Enqueue, NoteBatch, Finish, Leave,
        MonitorSleeps, Goto, campaign, rows, worker, monitor, memory, env, IInv, Typed,
        TypeOK, Plain, HeldByWorking
<1>2. CASE HandleSync \/ HandleCompleted \/ Reread \/ HandleFailed \/ HandleRetry \/
           GiveUp \/ InsertRetry \/ RetryInserted
  BY <1>2
     DEF HandleSync, HandleCompleted, Reread, HandleFailed, HandleRetry, GiveUp,
        InsertRetry, RetryInserted, Receive, Enter, Leave, Goto, campaign, rows, worker,
        env, monitor, ClearCampaign, memory, IInv, Typed, TypeOK, Plain, HeldByWorking
<1>3. CASE ReadRunning \/ Check \/ AskQueued \/ AskProcessing \/ Complete \/ Completed
  BY <1>3
     DEF ReadRunning, Check, AskQueued, AskProcessing, Complete, Completed, Goto,
        campaign, rows, worker, memory, env, AskPending, Leave, MonitorSleeps,
        WorkFound, Enter, monitor, NoWorkFound, ClearCampaign, IInv, Typed, TypeOK,
        Plain, HeldByWorking
<1>4. CASE ReleaseLock \/ Tick \/ UNCHANGED vars
  BY <1>4
     DEF ReleaseLock, Tick, campaign, rows, worker, monitor, env, Quiet, Less, Older,
        vars, memory, IInv, Typed, TypeOK, Plain, HeldByWorking
<1>5. ASSUME NEW j \in Jobs,
             JobStarts(j) \/ JobCompletes(j) \/ JobRetriesLater(j) \/ JobFails(j) \/
             FailCampaign(j) \/ JobCancelled(j) \/ JobDies(j)
      PROVE  HeldByWorking'
  BY <1>5
     DEF JobStarts, JobCompletes, JobRetriesLater, JobFails, FailCampaign, JobCancelled,
        JobDies, Due, campaign, monitor, memory, env, Ends, rows, ReturnClaims, Trouble,
        IInv, Typed, TypeOK, Plain, HeldByWorking
<1>6. ASSUME NEW j \in Jobs, NEW c \in Contacts, JobDials(j, c)
      PROVE  HeldByWorking'
  BY <1>6
     DEF JobDials, campaign, monitor, memory, env, IInv, Typed, TypeOK, Plain,
        HeldByWorking
<1>7. ASSUME NEW c \in Contacts, CallEnds(c)
      PROVE  HeldByWorking'
  BY <1>7
     DEF CallEnds, campaign, worker, monitor, memory, env, IInv, Typed, TypeOK, Plain,
        HeldByWorking
<1> QED
  BY <1>1, <1>2, <1>3, <1>4, <1>5, <1>6, <1>7 DEF CalmStep

\* Waits stay as short.
LEMMA WaitsStep ==
  ASSUME IInv, Plain, CalmStep
  PROVE  Waits'
<1>1. ASSUME NEW p \in Coroutines,
             ReadCampaign(p) \/ CountQueued(p) \/ CountProcessing(p) \/ Enqueue(p) \/
             NoteBatch(p)
      PROVE  Waits'
  BY <1>1, TimesAssumption
     DEF ReadCampaign, CountQueued, CountProcessing, Enqueue, NoteBatch, Finish, Leave,
        MonitorSleeps, Goto, campaign, rows, worker, monitor, memory, env, IInv, Typed,
        TypeOK, Plain, Waits, Rest, Held
<1>2. CASE HandleSync \/ HandleCompleted \/ Reread \/ HandleFailed
  BY <1>2, TimesAssumption
     DEF HandleSync, HandleCompleted, Reread, HandleFailed, Receive, Enter, Leave, Goto,
        campaign, rows, worker, env, monitor, ClearCampaign, IInv, Typed, TypeOK, Plain,
        Waits, Rest, Held
<1>3. CASE HandleRetry \/ GiveUp
  BY <1>3, TimesAssumption
     DEF HandleRetry, GiveUp, Receive, Goto, campaign, rows, worker, monitor, memory,
        env, IInv, Typed, TypeOK, Plain, Waits, Rest, Held
<1>4. CASE InsertRetry
  BY <1>4, TimesAssumption
     DEF InsertRetry, Goto, campaign, worker, monitor, memory, env, IInv, Typed, TypeOK,
        Plain, Waits, Rest, Held
<1>5. CASE RetryInserted
  BY <1>5, TimesAssumption
     DEF RetryInserted, Goto, campaign, rows, worker, monitor, env, IInv, Typed, TypeOK,
        Plain, Waits, Rest, Held
<1>6. CASE ReadRunning \/ Check \/ AskQueued \/ AskProcessing \/ Complete \/ Completed
  BY <1>6, TimesAssumption
     DEF ReadRunning, Check, AskQueued, AskProcessing, Complete, Completed, Goto,
        campaign, rows, worker, memory, env, AskPending, Leave, MonitorSleeps,
        WorkFound, Enter, monitor, NoWorkFound, ClearCampaign, IInv, Typed, TypeOK,
        Plain, Waits, Rest, Held
<1>7. CASE ReleaseLock \/ Tick \/ UNCHANGED vars
  BY <1>7, TimesAssumption
     DEF ReleaseLock, Tick, campaign, rows, worker, monitor, env, Quiet, Less, Older,
        vars, memory, IInv, Typed, TypeOK, Plain, Waits, Rest, Held
<1>8. ASSUME NEW j \in Jobs, JobStarts(j)
      PROVE  Waits'
  BY <1>8, TimesAssumption
     DEF JobStarts, Due, campaign, monitor, memory, env, IInv, Typed, TypeOK, Plain,
        Waits, Rest, Held
<1>9. ASSUME NEW j \in Jobs, JobCompletes(j)
      PROVE  Waits'
  BY <1>9, TimesAssumption
     DEF JobCompletes, Ends, campaign, rows, monitor, memory, env, IInv, Typed, TypeOK,
        Plain, Waits, Rest, Held
<1>10. ASSUME NEW j \in Jobs, JobRetriesLater(j)
      PROVE  Waits'
  BY <1>10, TimesAssumption
     DEF JobRetriesLater, ReturnClaims, Ends, Trouble, campaign, monitor, memory, IInv,
        Typed, TypeOK, Plain, Waits, Rest, Held
<1>11. ASSUME NEW j \in Jobs, JobFails(j)
      PROVE  Waits'
  BY <1>11, TimesAssumption
     DEF JobFails, ReturnClaims, Ends, Trouble, campaign, monitor, memory, IInv, Typed,
        TypeOK, Plain, Waits, Rest, Held
<1>12. ASSUME NEW j \in Jobs, FailCampaign(j)
      PROVE  Waits'
  BY <1>12, TimesAssumption
     DEF FailCampaign, Ends, rows, monitor, memory, env, IInv, Typed, TypeOK, Plain,
        Waits, Rest, Held
<1>13. ASSUME NEW j \in Jobs, JobCancelled(j)
      PROVE  Waits'
  BY <1>13, TimesAssumption
     DEF JobCancelled, ReturnClaims, Ends, Trouble, campaign, monitor, memory, IInv,
        Typed, TypeOK, Plain, Waits, Rest, Held
<1>14. ASSUME NEW j \in Jobs, JobDies(j)
      PROVE  Waits'
  BY <1>14, TimesAssumption
     DEF JobDies, Ends, Trouble, campaign, rows, monitor, memory, IInv, Typed, TypeOK,
        Plain, Waits, Rest, Held
<1>15. ASSUME NEW j \in Jobs, NEW c \in Contacts, JobDials(j, c)
      PROVE  Waits'
  <2>1. run[c] = "processing" /\ wait[c] = 0
    BY <1>15 DEF JobDials, IInv, Typed, TypeOK, Rest, Held, Plain, Waits
  <2>2. CASE run' = [run EXCEPT ![c] = "called"] /\ wait' = [wait EXCEPT ![c] = CallTime]
    BY <2>2, TimesAssumption DEF IInv, Typed, TypeOK, Plain, Waits
  <2>3. CASE run' = [run EXCEPT ![c] = "failed"] /\ UNCHANGED wait
    BY <2>1, <2>3 DEF IInv, Typed, TypeOK, Plain, Waits
  <2> QED
    BY <1>15, <2>2, <2>3 DEF JobDials
<1>16. ASSUME NEW c \in Contacts, CallEnds(c)
      PROVE  Waits'
  BY <1>16, TimesAssumption
     DEF CallEnds, campaign, worker, monitor, memory, env, IInv, Typed, TypeOK, Plain,
        Waits, Rest, Held
<1> QED
  BY <1>1, <1>2, <1>3, <1>4, <1>5, <1>6, <1>7, <1>8, <1>9, <1>10, <1>11, <1>12, <1>13,
     <1>14, <1>15, <1>16 DEF CalmStep

\* Who takes the lock releases it in time.
LEMMA LockedStep ==
  ASSUME IInv, Plain, CalmStep
  PROVE  Locked'
<1>1. ASSUME NEW p \in Coroutines,
             ReadCampaign(p) \/ CountQueued(p) \/ CountProcessing(p) \/ Enqueue(p) \/
             NoteBatch(p)
      PROVE  Locked'
  BY <1>1
     DEF ReadCampaign, CountQueued, CountProcessing, Enqueue, NoteBatch, Finish, Leave,
        MonitorSleeps, Goto, campaign, rows, worker, monitor, memory, env, IInv, Typed,
        TypeOK, Plain, Locked, Coroutines, Scheduling, None
<1>2. CASE HandleSync \/ HandleCompleted \/ Reread \/ HandleFailed \/ HandleRetry \/
           GiveUp \/ InsertRetry \/ RetryInserted
  BY <1>2
     DEF HandleSync, HandleCompleted, Reread, HandleFailed, HandleRetry, GiveUp,
        InsertRetry, RetryInserted, Receive, Enter, Leave, Goto, campaign, rows, worker,
        env, monitor, ClearCampaign, memory, IInv, Typed, TypeOK, Plain, Locked,
        Coroutines, Scheduling, None
<1>3. CASE ReadRunning \/ Check \/ AskQueued \/ AskProcessing \/ Complete \/ Completed
  BY <1>3
     DEF ReadRunning, Check, AskQueued, AskProcessing, Complete, Completed, Goto,
        campaign, rows, worker, memory, env, AskPending, Leave, MonitorSleeps,
        WorkFound, Enter, monitor, NoWorkFound, ClearCampaign, IInv, Typed, TypeOK,
        Plain, Locked, Coroutines, Scheduling, None
<1>4. CASE ReleaseLock \/ UNCHANGED vars
  BY <1>4
     DEF ReleaseLock, campaign, rows, worker, monitor, env, vars, memory, IInv, Typed,
        TypeOK, Plain, Locked, Coroutines, Scheduling, None
<1>5. CASE Tick
  <2>1. /\ "old" \notin timers /\ pc["L"] = "idle" /\ pc["M"] = "asleep"
        /\ timers' = IF "new" \in timers THEN {"old"} ELSE {}
        /\ lock' = IF lock = "new" THEN "old" ELSE lock
    BY <1>5 DEF Tick, Quiet, Plain, Alive
  <2>2. lock # "old" /\ (lock = "new" => "new" \in timers)
    BY <2>1 DEF Plain, Locked, Coroutines, Scheduling
  <2> QED
    BY <2>1, <2>2 DEF Locked
<1>6. ASSUME NEW j \in Jobs,
             JobStarts(j) \/ JobCompletes(j) \/ JobRetriesLater(j) \/ JobFails(j) \/
             FailCampaign(j) \/ JobCancelled(j) \/ JobDies(j)
      PROVE  Locked'
  BY <1>6
     DEF JobStarts, JobCompletes, JobRetriesLater, JobFails, FailCampaign, JobCancelled,
        JobDies, Due, campaign, monitor, memory, env, Ends, rows, ReturnClaims, Trouble,
        IInv, Typed, TypeOK, Plain, Locked, Coroutines, Scheduling, None
<1>7. ASSUME NEW j \in Jobs, NEW c \in Contacts, JobDials(j, c)
      PROVE  Locked'
  BY <1>7
     DEF JobDials, campaign, monitor, memory, env, IInv, Typed, TypeOK, Plain, Locked,
        Coroutines, Scheduling, None
<1>8. ASSUME NEW c \in Contacts, CallEnds(c)
      PROVE  Locked'
  BY <1>8
     DEF CallEnds, campaign, worker, monitor, memory, env, IInv, Typed, TypeOK, Plain,
        Locked, Coroutines, Scheduling, None
<1> QED
  BY <1>1, <1>2, <1>3, <1>4, <1>5, <1>6, <1>7, <1>8 DEF CalmStep

\* An event that comes or goes leaves the retries, unless it is one.
LEMMA NewestKept ==
  ASSUME IInv, Plain, attempt' = attempt,
         pc'["L"] = "insert" => pc["L"] = "insert" /\ event' = event,
         \/ inbox' = inbox
         \/ inbox # <<>> /\ inbox' = Tail(inbox)
         \/ \E e \in Events : /\ IsRetry(e) => attempt[e.contact] = e.attempt
                             /\ inbox' = Append(inbox, e)
  PROVE  Newest'
<1>1. inbox \in Seq(Events) /\ Len(inbox) \in Nat
  BY DEF IInv, Typed, TypeOK
<1>2. CASE inbox' = inbox
  BY <1>2 DEF Plain, Newest, IsRetry
<1>3. CASE inbox # <<>> /\ inbox' = Tail(inbox)
  <2>1. \A i \in 1 .. Len(inbox') : i + 1 \in 1 .. Len(inbox) /\ inbox'[i] = inbox[i + 1]
    BY <1>1, <1>3
  <2> QED
    BY <2>1 DEF Plain, Newest, IsRetry
<1>4. CASE \E e \in Events : /\ IsRetry(e) => attempt[e.contact] = e.attempt
                            /\ inbox' = Append(inbox, e)
  <2>1. PICK e \in Events : /\ IsRetry(e) => attempt[e.contact] = e.attempt
                            /\ inbox' = Append(inbox, e)
    BY <1>4
  <2>2. /\ Len(inbox') = Len(inbox) + 1 /\ inbox'[Len(inbox) + 1] = e
        /\ \A i \in 1 .. Len(inbox) : inbox'[i] = inbox[i]
    BY <1>1, <2>1
  <2> QED
    BY <1>1, <2>1, <2>2 DEF Plain, Newest, IsRetry
<1> QED
  BY <1>2, <1>3, <1>4

\* A retry stays one of the newest attempt until it is created.
LEMMA NewestStep ==
  ASSUME IInv, Plain, CalmStep
  PROVE  Newest'
<1>1. ASSUME NEW p \in Coroutines,
             ReadCampaign(p) \/ CountQueued(p) \/ CountProcessing(p) \/ Enqueue(p) \/
             NoteBatch(p)
      PROVE  Newest'
  BY <1>1
     DEF ReadCampaign, CountQueued, CountProcessing, Enqueue, NoteBatch, Finish, Leave,
        MonitorSleeps, Goto, campaign, rows, worker, monitor, memory, env, IInv, Typed,
        TypeOK, Plain, Newest, Alive, Coroutines, Scheduling
<1>2. CASE HandleSync
  BY <1>2
     DEF HandleSync, Receive, Enter, Leave, Goto, campaign, rows, worker, env, monitor,
        IInv, Typed, TypeOK, Plain, Newest, Alive, Coroutines, Scheduling
<1>3. CASE HandleCompleted
  BY <1>3
     DEF HandleCompleted, Receive, Goto, campaign, rows, worker, monitor, env, IInv,
        Typed, TypeOK, Plain, Newest, Alive, Coroutines, Scheduling
<1>4. CASE Reread
  BY <1>4
     DEF Reread, Enter, Leave, ClearCampaign, Goto, campaign, rows, worker, monitor,
        env, IInv, Typed, TypeOK, Plain, Newest, Alive, Coroutines, Scheduling
<1>5. CASE HandleFailed
  BY <1>5
     DEF HandleFailed, Receive, campaign, rows, worker, monitor, env, IInv, Typed,
        TypeOK, Plain, Newest, Alive, Coroutines, Scheduling
<1>6. CASE HandleRetry
  <2>1. /\ inbox \in Seq(Events) /\ inbox # <<>> /\ Len(inbox) \in Nat
        /\ inbox' = Tail(inbox) /\ Head(inbox) = inbox[1] /\ IsRetry(inbox[1])
        /\ event' = <<inbox[1].contact, inbox[1].attempt>> /\ attempt' = attempt
    BY <1>6 DEF HandleRetry, Receive, IInv, Typed, TypeOK, IsRetry, rows
  <2>2. \A i \in 1 .. Len(inbox') : i + 1 \in 1 .. Len(inbox) /\ inbox'[i] = inbox[i + 1]
    BY <2>1
  <2>3. attempt[inbox[1].contact] = inbox[1].attempt
    BY <2>1 DEF Plain, Newest
  <2> QED
    BY <2>1, <2>2, <2>3 DEF Plain, Newest, IsRetry
<1>7. CASE GiveUp \/ RetryInserted
  BY <1>7
     DEF GiveUp, RetryInserted, Goto, rows, worker, monitor, memory, env, campaign,
        IInv, Typed, TypeOK, Plain, Newest, Alive, Coroutines, Scheduling
<1>8. CASE InsertRetry
  <2>1. /\ event[1] \in Contacts /\ event = <<event[1], event[2]>>
        /\ attempt[event[1]] = event[2]
        /\ attempt' = [attempt EXCEPT ![event[1]] = event[2] + 1]
        /\ inbox' = inbox /\ pc'["L"] = "inserted"
    BY <1>8, EventTyped DEF InsertRetry, Goto, IInv, Typed, TypeOK, InHand, Coroutines
  <2>2. \A i \in 1 .. Len(inbox) : IsRetry(inbox[i]) =>
          /\ inbox[i].contact \in Contacts
          /\ inbox[i].contact # event[1]
    <3>1. \A i \in 1 .. Len(inbox) : IsRetry(inbox[i]) => inbox[i].contact \in Contacts
      BY RetriesTyped DEF IInv, Typed
    <3> QED
      BY <2>1, <3>1 DEF IInv, Rest, ReportedOnce, Plain, Newest
  <2>3. attempt \in [Contacts -> 0 .. MaxRetries]
    BY DEF IInv, Typed, TypeOK
  <2> QED
    BY <2>1, <2>2, <2>3 DEF Plain, Newest, IsRetry
<1>9. CASE ReadRunning \/ Check \/ AskQueued \/ AskProcessing \/ Complete \/ Completed
  BY <1>9
     DEF ReadRunning, Check, AskQueued, AskProcessing, Complete, Completed, Goto,
        campaign, rows, worker, memory, env, AskPending, Leave, MonitorSleeps,
        WorkFound, Enter, monitor, NoWorkFound, ClearCampaign, IInv, Typed, TypeOK,
        Plain, Newest, Alive, Coroutines, Scheduling
<1>10. CASE ReleaseLock \/ Tick \/ UNCHANGED vars
  BY <1>10
     DEF ReleaseLock, Tick, campaign, rows, worker, monitor, env, Quiet, Less, Older,
        vars, memory, IInv, Typed, TypeOK, Plain, Newest, Alive, Coroutines, Scheduling
<1>11. ASSUME NEW j \in Jobs,
             JobStarts(j) \/ FailCampaign(j) \/ JobCancelled(j) \/ JobDies(j)
      PROVE  Newest'
  BY <1>11
     DEF JobStarts, FailCampaign, JobCancelled, JobDies, Due, campaign, monitor, memory,
        env, Ends, rows, ReturnClaims, Trouble, IInv, Typed, TypeOK, Plain, Newest,
        Alive, Coroutines, Scheduling
<1>12. ASSUME NEW j \in Jobs, JobCompletes(j)
      PROVE  Newest'
  <2>1. PICK e \in Events : ~IsRetry(e) /\ inbox' = Append(inbox, e)
    BY <1>12, Published DEF JobCompletes, Plain, Alive, Publish, Events, IsRetry
  <2> QED
    BY <1>12, <2>1, NewestKept DEF JobCompletes, Ends, campaign, rows, monitor, memory, env
<1>13. ASSUME NEW j \in Jobs, JobRetriesLater(j)
      PROVE  Newest'
  <2>1. PICK e \in Events : ~IsRetry(e) /\ inbox' = Append(inbox, e)
    BY <1>13, Published DEF JobRetriesLater, Plain, Alive, Publish, Events, IsRetry
  <2> QED
    BY <1>13, <2>1, NewestKept
       DEF JobRetriesLater, ReturnClaims, Ends, Trouble, campaign, monitor, memory
<1>14. ASSUME NEW j \in Jobs, JobFails(j)
      PROVE  Newest'
  <2>1. PICK e \in Events : ~IsRetry(e) /\ inbox' = Append(inbox, e)
    BY <1>14, Published DEF JobFails, Plain, Alive, Publish, Events, IsRetry
  <2> QED
    BY <1>14, <2>1, NewestKept
       DEF JobFails, ReturnClaims, Ends, Trouble, campaign, monitor, memory
<1>15. ASSUME NEW j \in Jobs, NEW c \in Contacts, JobDials(j, c)
      PROVE  Newest'
  BY <1>15
     DEF JobDials, campaign, monitor, memory, env, IInv, Typed, TypeOK, Plain, Newest,
        Alive, Coroutines, Scheduling
<1>16. ASSUME NEW c \in Contacts, CallEnds(c)
      PROVE  Newest'
  <2>1. CASE Publish(Retry(c))
    <3>1. /\ IsRetry(Retry(c)) => attempt[Retry(c).contact] = Retry(c).attempt
          /\ Retry(c) \in Events /\ inbox' = Append(inbox, Retry(c))
      BY <2>1 DEF Retry, Publish, Plain, Alive, Events, IInv, Typed, TypeOK
    <3> QED
      BY <1>16, <3>1, NewestKept DEF CallEnds, campaign, worker
  <2>2. CASE UNCHANGED inbox
    BY <1>16, <2>2, NewestKept DEF CallEnds, campaign, worker
  <2> QED
    BY <1>16, <2>1, <2>2 DEF CallEnds
<1> QED
  BY <1>1, <1>2, <1>3, <1>4, <1>5, <1>6, <1>7, <1>8, <1>9, <1>10, <1>11, <1>12, <1>13,
     <1>14, <1>15, <1>16 DEF CalmStep

\* Nothing disturbs a calm campaign.
LEMMA UndisturbedStep ==
  ASSUME IInv, Plain, Decided => Done, Calm', CalmStep
  PROVE  Undisturbed'
<1>1. ASSUME NEW p \in Coroutines, ReadCampaign(p)
      PROVE  Undisturbed'
  BY <1>1, ReceivedWay
     DEF ReadCampaign, Finish, Leave, MonitorSleeps, Goto, campaign, rows, worker,
        monitor, memory, env, IInv, Typed, TypeOK, Plain, Undisturbed, Alive,
        Coroutines, Scheduling, OnItsWay
<1>2. ASSUME NEW p \in Coroutines, CountQueued(p)
      PROVE  Undisturbed'
  BY <1>2, ReceivedWay
     DEF CountQueued, Goto, campaign, rows, worker, monitor, memory, env, IInv, Typed,
        TypeOK, Plain, Undisturbed, Alive, Coroutines, Scheduling, OnItsWay
<1>3. ASSUME NEW p \in Coroutines, CountProcessing(p)
      PROVE  Undisturbed'
  BY <1>3, ReceivedWay
     DEF CountProcessing, Finish, Leave, MonitorSleeps, Goto, campaign, rows, worker,
        monitor, memory, env, IInv, Typed, TypeOK, Plain, Undisturbed, Alive,
        Coroutines, Scheduling, OnItsWay
<1>4. ASSUME NEW p \in Coroutines, Enqueue(p)
      PROVE  Undisturbed'
  BY <1>4, ReceivedWay
     DEF Enqueue, Goto, campaign, rows, monitor, memory, env, IInv, Typed, TypeOK,
        Plain, Undisturbed, Alive, Coroutines, Scheduling, OnItsWay
<1>5. ASSUME NEW p \in Coroutines, NoteBatch(p)
      PROVE  Undisturbed'
  BY <1>5, ReceivedWay
     DEF NoteBatch, Leave, MonitorSleeps, Goto, rows, worker, monitor, env, IInv, Typed,
        TypeOK, Plain, Undisturbed, Alive, Coroutines, Scheduling, OnItsWay
<1>6. CASE HandleSync
  BY <1>6, ReceivedWay
     DEF HandleSync, Receive, Enter, Leave, Goto, campaign, rows, worker, env, monitor,
        IInv, Typed, TypeOK, Plain, Undisturbed, Alive, Coroutines, Scheduling, OnItsWay
<1>7. CASE HandleCompleted
  BY <1>7, ReceivedWay
     DEF HandleCompleted, Receive, Goto, campaign, rows, worker, monitor, env, IInv,
        Typed, TypeOK, Plain, Undisturbed, Alive, Coroutines, Scheduling, OnItsWay
<1>8. CASE Reread \/ HandleFailed
  BY <1>8, ReceivedWay
     DEF Reread, HandleFailed, Enter, Leave, ClearCampaign, Goto, campaign, rows,
        worker, monitor, env, Receive, IInv, Typed, TypeOK, Plain, Undisturbed, Alive,
        Coroutines, Scheduling, OnItsWay
<1>9. CASE HandleRetry \/ GiveUp \/ InsertRetry \/ RetryInserted
  BY <1>9, ReceivedWay
     DEF HandleRetry, GiveUp, InsertRetry, RetryInserted, Receive, Goto, campaign, rows,
        worker, monitor, memory, env, IInv, Typed, TypeOK, Plain, Undisturbed, Alive,
        Coroutines, Scheduling, OnItsWay
<1>10. CASE ReadRunning
  BY <1>10, ReceivedWay
     DEF ReadRunning, Goto, campaign, rows, worker, memory, env, IInv, Typed, TypeOK,
        Plain, Undisturbed, Alive, Coroutines, Scheduling, OnItsWay
<1>11. CASE Check
  BY <1>11, ReceivedWay
     DEF Check, AskPending, Leave, MonitorSleeps, Goto, campaign, rows, worker, env,
        IInv, Typed, TypeOK, Plain, Undisturbed, Alive, Coroutines, Scheduling, OnItsWay
<1>12. CASE AskQueued
  BY <1>12, ReceivedWay
     DEF AskQueued, WorkFound, Enter, Leave, MonitorSleeps, Goto, campaign, rows,
        worker, monitor, memory, env, IInv, Typed, TypeOK, Plain, Undisturbed, Alive,
        Coroutines, Scheduling, OnItsWay
<1>13. CASE AskProcessing
  BY <1>13, ReceivedWay
     DEF AskProcessing, WorkFound, NoWorkFound, AskPending, Enter, Leave, MonitorSleeps,
        Goto, campaign, rows, worker, monitor, memory, env, IInv, Typed, TypeOK, Plain,
        Undisturbed, Alive, Coroutines, Scheduling, OnItsWay
<1>14. CASE Complete \/ Completed
  BY <1>14, ReceivedWay
     DEF Complete, Completed, Goto, rows, worker, monitor, memory, env, ClearCampaign,
        MonitorSleeps, campaign, IInv, Typed, TypeOK, Plain, Undisturbed, Alive,
        Coroutines, Scheduling, OnItsWay
<1>15. CASE ReleaseLock \/ Tick \/ UNCHANGED vars
  BY <1>15, ReceivedWay
     DEF ReleaseLock, Tick, campaign, rows, worker, monitor, env, Quiet, Less, Older,
        vars, memory, IInv, Typed, TypeOK, Plain, Undisturbed, Alive, Coroutines,
        Scheduling, OnItsWay
<1>16. ASSUME NEW j \in Jobs,
             JobStarts(j) \/ FailCampaign(j) \/ JobCancelled(j) \/ JobDies(j)
      PROVE  Undisturbed'
  BY <1>16, ReceivedWay
     DEF JobStarts, FailCampaign, JobCancelled, JobDies, Due, campaign, monitor, memory,
        env, Ends, rows, ReturnClaims, Trouble, IInv, Typed, TypeOK, Plain, Undisturbed,
        Alive, Coroutines, Scheduling, OnItsWay, Decided, Done
<1>17. ASSUME NEW j \in Jobs, JobCompletes(j)
      PROVE  Undisturbed'
  <2>1. ~OnItsWay({"tripped"})'
    BY <1>17, PublishedWay DEF JobCompletes, IInv, Plain, Undisturbed
  <2> QED
    BY <1>17, <2>1
       DEF JobCompletes, Ends, campaign, rows, monitor, memory, env, IInv, Typed, TypeOK,
           Plain, Undisturbed, Alive, Coroutines
<1>18. ASSUME NEW j \in Jobs, JobRetriesLater(j)
      PROVE  Undisturbed'
  <2>1. ~OnItsWay({"tripped"})'
    BY <1>18, PublishedWay DEF JobRetriesLater, IInv, Plain, Undisturbed
  <2> QED
    BY <1>18, <2>1
       DEF JobRetriesLater, ReturnClaims, Ends, Trouble, campaign, monitor, memory, IInv,
           Typed, TypeOK, Plain, Undisturbed, Alive, Coroutines
<1>19. ASSUME NEW j \in Jobs, JobFails(j)
      PROVE  Undisturbed'
  <2>1. ~OnItsWay({"tripped"})'
    BY <1>19, PublishedWay DEF JobFails, IInv, Plain, Undisturbed
  <2> QED
    BY <1>19, <2>1
       DEF JobFails, ReturnClaims, Ends, Trouble, campaign, monitor, memory, IInv, Typed,
           TypeOK, Plain, Undisturbed, Alive, Coroutines
<1>20. ASSUME NEW j \in Jobs, NEW c \in Contacts, JobDials(j, c)
      PROVE  Undisturbed'
  BY <1>20, ReceivedWay
     DEF JobDials, campaign, monitor, memory, env, IInv, Typed, TypeOK, Plain,
        Undisturbed, Alive, Coroutines, Scheduling, OnItsWay
<1>21. ASSUME NEW c \in Contacts, CallEnds(c)
      PROVE  Undisturbed'
  <2>1. ~OnItsWay({"tripped"})'
    <3>1. CASE Publish(Retry(c))
      BY <3>1, PublishedWay DEF Retry, IInv, Plain, Undisturbed
    <3>2. CASE UNCHANGED inbox
      BY <3>2 DEF OnItsWay, Plain, Undisturbed
    <3> QED
      BY <1>21, <3>1, <3>2 DEF CallEnds
  <2> QED
    BY <1>21, <2>1
       DEF CallEnds, campaign, worker, monitor, memory, env, Plain, Undisturbed
<1> QED
  BY <1>1, <1>2, <1>3, <1>4, <1>5, <1>6, <1>7, <1>8, <1>9, <1>10, <1>11, <1>12, <1>13,
     <1>14, <1>15, <1>16, <1>17, <1>18, <1>19, <1>20, <1>21 DEF CalmStep

---------------------------------------------------------------------------
(* What is done stays done, and an inactive campaign is done.              *)

\* Only time makes the last activity older.
LEMMA ActSteps ==
  ASSUME IInv, CalmStep
  PROVE  act' \in {act, 0, None} \/ Tick
<1>1. ASSUME NEW p \in Coroutines,
             ReadCampaign(p) \/ CountQueued(p) \/ CountProcessing(p) \/ Enqueue(p) \/
             NoteBatch(p)
      PROVE  act' \in {act, 0, None} \/ Tick
  BY <1>1
     DEF ReadCampaign, CountQueued, CountProcessing, Enqueue, NoteBatch, Finish, Leave,
        MonitorSleeps, Goto, campaign, rows, worker, monitor, memory, env, IInv, Typed,
        TypeOK, Coroutines
<1>2. CASE HandleSync \/ HandleCompleted \/ Reread \/ HandleFailed \/ HandleRetry \/
           GiveUp \/ InsertRetry \/ RetryInserted
  BY <1>2
     DEF HandleSync, HandleCompleted, Reread, HandleFailed, HandleRetry, GiveUp,
        InsertRetry, RetryInserted, Receive, Enter, Leave, Goto, campaign, rows, worker,
        env, monitor, ClearCampaign, memory, IInv, Typed, TypeOK, Coroutines
<1>3. CASE ReadRunning \/ Check \/ AskQueued \/ AskProcessing \/ Complete \/ Completed
  BY <1>3
     DEF ReadRunning, Check, AskQueued, AskProcessing, Complete, Completed, Goto,
        campaign, rows, worker, memory, env, AskPending, Leave, MonitorSleeps,
        WorkFound, Enter, monitor, NoWorkFound, ClearCampaign, IInv, Typed, TypeOK,
        Coroutines
<1>4. CASE ReleaseLock \/ Tick \/ UNCHANGED vars
  BY <1>4
     DEF ReleaseLock, Tick, campaign, rows, worker, monitor, env, Quiet, Less, Older,
        vars, memory, IInv, Typed, TypeOK, Coroutines
<1>5. ASSUME NEW j \in Jobs,
             JobStarts(j) \/ JobCompletes(j) \/ JobRetriesLater(j) \/ JobFails(j) \/
             FailCampaign(j) \/ JobCancelled(j) \/ JobDies(j)
      PROVE  act' \in {act, 0, None} \/ Tick
  BY <1>5
     DEF JobStarts, JobCompletes, JobRetriesLater, JobFails, FailCampaign, JobCancelled,
        JobDies, Due, campaign, monitor, memory, env, Ends, rows, ReturnClaims, Trouble,
        IInv, Typed, TypeOK, Coroutines
<1>6. ASSUME NEW j \in Jobs, NEW c \in Contacts, JobDials(j, c)
      PROVE  act' \in {act, 0, None} \/ Tick
  BY <1>6 DEF JobDials, campaign, monitor, memory, env, IInv, Typed, TypeOK, Coroutines
<1>7. ASSUME NEW c \in Contacts, CallEnds(c)
      PROVE  act' \in {act, 0, None} \/ Tick
  BY <1>7
     DEF CallEnds, campaign, worker, monitor, memory, env, IInv, Typed, TypeOK,
        Coroutines
<1> QED
  BY <1>1, <1>2, <1>3, <1>4, <1>5, <1>6, <1>7 DEF CalmStep

\* What is done stays done.
LEMMA DoneStays ==
  ASSUME IInv, Plain, Done, CalmStep
  PROVE  Done'
<1>1. ASSUME NEW p \in Coroutines,
             ReadCampaign(p) \/ CountQueued(p)
      PROVE  Done'
  BY <1>1, ReceivedWay
     DEF ReadCampaign, CountQueued, Finish, Leave, MonitorSleeps, Goto, campaign, rows,
        worker, monitor, memory, env, IInv, Typed, TypeOK, Plain, Done, Rest, Held, Due,
        OnItsWay, Alive, Coroutines, HeldByWorking, Undisturbed
<1>2. ASSUME NEW p \in Coroutines, CountProcessing(p)
      PROVE  Done'
  BY <1>2, ReceivedWay
     DEF CountProcessing, Finish, Leave, MonitorSleeps, Goto, campaign, rows, worker,
        monitor, memory, env, IInv, Typed, TypeOK, Plain, Done, Rest, Held, Due,
        OnItsWay, Alive, Coroutines, HeldByWorking, Undisturbed
<1>3. ASSUME NEW p \in Coroutines, Enqueue(p)
      PROVE  Done'
  BY <1>3, ReceivedWay
     DEF Enqueue, Goto, campaign, rows, monitor, memory, env, IInv, Typed, TypeOK,
        Plain, Done, Rest, Held, Due, OnItsWay, Alive, Coroutines, HeldByWorking,
        Undisturbed
<1>4. ASSUME NEW p \in Coroutines, NoteBatch(p)
      PROVE  Done'
  BY <1>4, ReceivedWay
     DEF NoteBatch, Leave, MonitorSleeps, Goto, rows, worker, monitor, env, IInv, Typed,
        TypeOK, Plain, Done, Rest, Held, Due, OnItsWay, Alive, Coroutines,
        HeldByWorking, Undisturbed
<1>5. CASE HandleSync \/ HandleCompleted \/ Reread \/ HandleFailed \/ HandleRetry \/
           GiveUp \/ RetryInserted
  BY <1>5, ReceivedWay
     DEF HandleSync, HandleCompleted, Reread, HandleFailed, HandleRetry, GiveUp,
        RetryInserted, Receive, Enter, Leave, Goto, campaign, rows, worker, env,
        monitor, ClearCampaign, memory, IInv, Typed, TypeOK, Plain, Done, Rest, Held,
        Due, OnItsWay, Alive, Coroutines, HeldByWorking, Undisturbed
<1>6. CASE InsertRetry
  BY <1>6, RetryOfSettled DEF Done
<1>7. CASE ReadRunning \/ Check \/ AskQueued \/ AskProcessing \/ Complete \/ Completed
  BY <1>7, ReceivedWay
     DEF ReadRunning, Check, AskQueued, AskProcessing, Complete, Completed, Goto,
        campaign, rows, worker, memory, env, AskPending, Leave, MonitorSleeps,
        WorkFound, Enter, monitor, NoWorkFound, ClearCampaign, IInv, Typed, TypeOK,
        Plain, Done, Rest, Held, Due, OnItsWay, Alive, Coroutines, HeldByWorking,
        Undisturbed
<1>8. CASE ReleaseLock \/ Tick \/ UNCHANGED vars
  BY <1>8, ReceivedWay
     DEF ReleaseLock, Tick, campaign, rows, worker, monitor, env, Quiet, Less, Older,
        vars, memory, IInv, Typed, TypeOK, Plain, Done, Rest, Held, Due, OnItsWay,
        Alive, Coroutines, HeldByWorking, Undisturbed
<1>9. ASSUME NEW j \in Jobs, JobStarts(j)
      PROVE  Done'
  BY <1>9, ReceivedWay
     DEF JobStarts, Due, campaign, monitor, memory, env, IInv, Typed, TypeOK, Plain,
        Done, Rest, Held, OnItsWay, Alive, Coroutines, HeldByWorking, Undisturbed
<1>10. ASSUME NEW j \in Jobs, JobCompletes(j)
      PROVE  Done'
  <2>1. Typed /\ Alive /\ Publish([type |-> "completed"]) /\ ~OnItsWay({"retry"})
    BY <1>10 DEF JobCompletes, IInv, Plain, Done
  <2>2. ~OnItsWay({"retry"})'
    BY <2>1, PublishedWay
  <2> QED
    BY <1>10, <2>2
       DEF JobCompletes, Ends, campaign, rows, monitor, memory, env, IInv, Typed, TypeOK,
           Done
<1>11. ASSUME NEW j \in Jobs,
             JobRetriesLater(j) \/ JobFails(j)
      PROVE  Done'
  BY <1>11, ReceivedWay
     DEF JobRetriesLater, JobFails, ReturnClaims, Ends, Trouble, campaign, monitor,
        memory, IInv, Typed, TypeOK, Plain, Done, Rest, Held, Due, OnItsWay, Alive,
        Coroutines, HeldByWorking, Undisturbed
<1>12. ASSUME NEW j \in Jobs, FailCampaign(j)
      PROVE  Done'
  BY <1>12, ReceivedWay
     DEF FailCampaign, Ends, rows, monitor, memory, env, IInv, Typed, TypeOK, Plain,
        Done, Rest, Held, Due, OnItsWay, Alive, Coroutines, HeldByWorking, Undisturbed
<1>13. ASSUME NEW j \in Jobs, JobCancelled(j)
      PROVE  Done'
  BY <1>13, ReceivedWay
     DEF JobCancelled, ReturnClaims, Ends, Trouble, campaign, monitor, memory, IInv,
        Typed, TypeOK, Plain, Done, Rest, Held, Due, OnItsWay, Alive, Coroutines,
        HeldByWorking, Undisturbed
<1>14. ASSUME NEW j \in Jobs, JobDies(j)
      PROVE  Done'
  BY <1>14, ReceivedWay
     DEF JobDies, Ends, Trouble, campaign, rows, monitor, memory, IInv, Typed, TypeOK,
        Plain, Done, Rest, Held, Due, OnItsWay, Alive, Coroutines, HeldByWorking,
        Undisturbed
<1>15. ASSUME NEW j \in Jobs, NEW c \in Contacts, JobDials(j, c)
      PROVE  Done'
  BY <1>15, ReceivedWay
     DEF JobDials, campaign, monitor, memory, env, IInv, Typed, TypeOK, Plain, Done,
        Rest, Held, Due, OnItsWay, Alive, Coroutines, HeldByWorking, Undisturbed
<1>16. ASSUME NEW c \in Contacts, CallEnds(c)
      PROVE  Done'
  BY <1>16, ReceivedWay
     DEF CallEnds, campaign, worker, monitor, memory, env, IInv, Typed, TypeOK, Plain,
        Done, Rest, Held, Due, OnItsWay, Alive, Coroutines, HeldByWorking, Undisturbed
<1> QED
  BY <1>1, <1>2, <1>3, <1>4, <1>5, <1>6, <1>7, <1>8, <1>9, <1>10, <1>11, <1>12, <1>13,
     <1>14, <1>15, <1>16 DEF CalmStep

\* A campaign is found inactive when it is done.
LEMMA DecidedStep ==
  ASSUME IInv, Plain, Decided => Done, ~Orphaned => Bounded /\ Stamped, IdleIsLong, CalmStep
  PROVE  Decided' => Done
<1>1. ASSUME NEW p \in Coroutines,
             ReadCampaign(p) \/ CountQueued(p) \/ CountProcessing(p) \/ Enqueue(p) \/
             NoteBatch(p)
      PROVE  Decided' => Done
  BY <1>1, ReceivedWay
     DEF ReadCampaign, CountQueued, CountProcessing, Enqueue, NoteBatch, Finish, Leave,
        MonitorSleeps, Goto, campaign, rows, worker, monitor, memory, env, IInv, Typed,
        TypeOK, Plain, Decided, Alive, Coroutines, Undisturbed, Scheduling
<1>2. CASE HandleSync \/ HandleCompleted \/ Reread \/ HandleFailed \/ HandleRetry \/
           GiveUp \/ InsertRetry \/ RetryInserted
  BY <1>2, ReceivedWay
     DEF HandleSync, HandleCompleted, Reread, HandleFailed, HandleRetry, GiveUp,
        InsertRetry, RetryInserted, Receive, Enter, Leave, Goto, campaign, rows, worker,
        env, monitor, ClearCampaign, memory, IInv, Typed, TypeOK, Plain, Decided, Alive,
        Coroutines, Undisturbed, Scheduling
<1>3. CASE ReadRunning \/ Check \/ AskQueued \/ Complete \/ Completed
  BY <1>3, ReceivedWay
     DEF ReadRunning, Check, AskQueued, Complete, Completed, Goto, campaign, rows,
        worker, memory, env, AskPending, Leave, MonitorSleeps, WorkFound, Enter,
        monitor, ClearCampaign, IInv, Typed, TypeOK, Plain, Decided, Alive, Coroutines,
        Undisturbed, Scheduling
<1>4. CASE AskProcessing
  <2>1. CASE ask = "mark" /\ Inactive /\ ~SomeProcessing
    <3>1. Bounded /\ Stamped /\ pc["M"] = "askProcessing"
      BY <1>4, <2>1 DEF AskProcessing, Orphaned, SomeProcessing
    <3>2. seen >= Idle => act # None
      BY <3>1, TimesAssumption DEF Stamped, Sweeping, IInv, Typed, TypeOK
    <3>3. Lost + Round + CallTime < Idle
      BY LostBelow DEF IInv
    <3>4. ~Done => act <= Lost + Round + CallTime
      BY <3>1 DEF Bounded, Sweeping
    <3>5. act \in {None} \cup 0 .. Idle /\ Idle \in Nat
      BY TimesAssumption DEF IInv, Typed, TypeOK
    <3> QED
      BY <2>1, <3>2, <3>3, <3>4, <3>5, LostTyped DEF Inactive, None, IInv
  <2>2. CASE ~(ask = "mark" /\ Inactive /\ ~SomeProcessing)
    BY <1>4, <2>2
       DEF AskProcessing, WorkFound, NoWorkFound, AskPending, Enter, Leave, MonitorSleeps,
           Goto, campaign, monitor, IInv, Typed, TypeOK, Plain, Decided, Alive, Coroutines
  <2> QED
    BY <2>1, <2>2
<1>5. CASE ReleaseLock \/ Tick \/ UNCHANGED vars
  BY <1>5, ReceivedWay
     DEF ReleaseLock, Tick, campaign, rows, worker, monitor, env, Quiet, Less, Older,
        vars, memory, IInv, Typed, TypeOK, Plain, Decided, Alive, Coroutines,
        Undisturbed, Scheduling
<1>6. ASSUME NEW j \in Jobs,
             JobStarts(j) \/ JobCompletes(j) \/ JobRetriesLater(j) \/ JobFails(j) \/
             FailCampaign(j) \/ JobCancelled(j) \/ JobDies(j)
      PROVE  Decided' => Done
  BY <1>6, ReceivedWay
     DEF JobStarts, JobCompletes, JobRetriesLater, JobFails, FailCampaign, JobCancelled,
        JobDies, Due, campaign, monitor, memory, env, Ends, rows, ReturnClaims, Trouble,
        IInv, Typed, TypeOK, Plain, Decided, Alive, Coroutines, Undisturbed, Scheduling
<1>7. ASSUME NEW j \in Jobs, NEW c \in Contacts, JobDials(j, c)
      PROVE  Decided' => Done
  BY <1>7, ReceivedWay
     DEF JobDials, campaign, monitor, memory, env, IInv, Typed, TypeOK, Plain, Decided,
        Alive, Coroutines, Undisturbed, Scheduling
<1>8. ASSUME NEW c \in Contacts, CallEnds(c)
      PROVE  Decided' => Done
  BY <1>8, ReceivedWay
     DEF CallEnds, campaign, worker, monitor, memory, env, IInv, Typed, TypeOK, Plain,
        Decided, Alive, Coroutines, Undisturbed, Scheduling
<1> QED
  BY <1>1, <1>2, <1>3, <1>4, <1>5, <1>6, <1>7, <1>8 DEF CalmStep

\* A campaign that has ended stays so.
LEMMA StateSteps ==
  ASSUME IInv, Plain, CalmStep, Decided => Done, state \in {"completed", "failed"}
  PROVE  state' = state
<1>1. ASSUME NEW p \in Coroutines,
             ReadCampaign(p) \/ CountQueued(p) \/ CountProcessing(p) \/ Enqueue(p) \/
             NoteBatch(p)
      PROVE  state' = state
  BY <1>1
     DEF ReadCampaign, CountQueued, CountProcessing, Enqueue, NoteBatch, Finish, Leave,
        MonitorSleeps, Goto, campaign, rows, worker, monitor, memory, env, IInv, Typed,
        TypeOK, Decided, Done
<1>2. CASE HandleSync \/ HandleCompleted \/ Reread \/ HandleFailed \/ HandleRetry \/
           GiveUp \/ InsertRetry \/ RetryInserted
  BY <1>2
     DEF HandleSync, HandleCompleted, Reread, HandleFailed, HandleRetry, GiveUp,
        InsertRetry, RetryInserted, Receive, Enter, Leave, Goto, campaign, rows, worker,
        env, monitor, ClearCampaign, memory, IInv, Typed, TypeOK, Decided, Done
<1>3. CASE ReadRunning \/ Check \/ AskQueued \/ AskProcessing \/ Complete \/ Completed
  BY <1>3
     DEF ReadRunning, Check, AskQueued, AskProcessing, Complete, Completed, Goto,
        campaign, rows, worker, memory, env, AskPending, Leave, MonitorSleeps,
        WorkFound, Enter, monitor, NoWorkFound, ClearCampaign, IInv, Typed, TypeOK,
        Decided, Done
<1>4. CASE ReleaseLock \/ Tick \/ UNCHANGED vars
  BY <1>4
     DEF ReleaseLock, Tick, campaign, rows, worker, monitor, env, Quiet, Less, Older,
        vars, memory, IInv, Typed, TypeOK, Decided, Done
<1>5. ASSUME NEW j \in Jobs,
             JobStarts(j) \/ JobCompletes(j) \/ JobRetriesLater(j) \/ JobFails(j) \/
             FailCampaign(j) \/ JobCancelled(j) \/ JobDies(j)
      PROVE  state' = state
  BY <1>5
     DEF JobStarts, JobCompletes, JobRetriesLater, JobFails, FailCampaign, JobCancelled,
        JobDies, Due, campaign, monitor, memory, env, Ends, rows, ReturnClaims, Trouble,
        IInv, Typed, TypeOK, Decided, Done
<1>6. ASSUME NEW j \in Jobs, NEW c \in Contacts, JobDials(j, c)
      PROVE  state' = state
  BY <1>6 DEF JobDials, campaign, monitor, memory, env, IInv, Typed, TypeOK, Decided, Done
<1>7. ASSUME NEW c \in Contacts, CallEnds(c)
      PROVE  state' = state
  BY <1>7
     DEF CallEnds, campaign, worker, monitor, memory, env, IInv, Typed, TypeOK, Decided,
        Done
<1> QED
  BY <1>1, <1>2, <1>3, <1>4, <1>5, <1>6, <1>7 DEF CalmStep

---------------------------------------------------------------------------
(* How work comes and goes, and what a step does to the times.             *)

\* The activity is noted when no pass is at work or to come any more.
LEMMA Refreshed ==
  ASSUME IInv, Plain, CalmStep
  PROVE  Refreshing /\ ~Refreshing' => act' = 0 \/ ~Running
<1>1. ASSUME NEW p \in Coroutines,
             ReadCampaign(p) \/ CountQueued(p) \/ CountProcessing(p) \/ Enqueue(p) \/
             NoteBatch(p)
      PROVE  Refreshing /\ ~Refreshing' => act' = 0 \/ ~Running
  BY <1>1, ReceivedWay
     DEF ReadCampaign, CountQueued, CountProcessing, Enqueue, NoteBatch, Finish, Leave,
        MonitorSleeps, Goto, campaign, rows, worker, monitor, memory, env, IInv, Typed,
        TypeOK, Plain, Refreshing, Running, Busy, Alive, OnItsWay, Coroutines,
        Scheduling
<1>2. CASE HandleSync \/ HandleCompleted \/ Reread \/ HandleFailed \/ HandleRetry \/
           GiveUp \/ InsertRetry \/ RetryInserted
  BY <1>2, ReceivedWay
     DEF HandleSync, HandleCompleted, Reread, HandleFailed, HandleRetry, GiveUp,
        InsertRetry, RetryInserted, Receive, Enter, Leave, Goto, campaign, rows, worker,
        env, monitor, ClearCampaign, memory, IInv, Typed, TypeOK, Plain, Refreshing,
        Running, Busy, Alive, OnItsWay, Coroutines, Scheduling
<1>3. CASE ReadRunning \/ Check \/ AskQueued \/ AskProcessing \/ Complete \/ Completed
  BY <1>3, ReceivedWay
     DEF ReadRunning, Check, AskQueued, AskProcessing, Complete, Completed, Goto,
        campaign, rows, worker, memory, env, AskPending, Leave, MonitorSleeps,
        WorkFound, Enter, monitor, NoWorkFound, ClearCampaign, IInv, Typed, TypeOK,
        Plain, Refreshing, Running, Busy, Alive, OnItsWay, Coroutines, Scheduling
<1>4. CASE ReleaseLock \/ Tick \/ UNCHANGED vars
  BY <1>4, ReceivedWay
     DEF ReleaseLock, Tick, campaign, rows, worker, monitor, env, Quiet, Less, Older,
        vars, memory, IInv, Typed, TypeOK, Plain, Refreshing, Running, Busy, Alive,
        OnItsWay, Coroutines, Scheduling
<1>5. ASSUME NEW j \in Jobs,
             JobStarts(j) \/ FailCampaign(j) \/ JobCancelled(j) \/ JobDies(j)
      PROVE  Refreshing /\ ~Refreshing' => act' = 0 \/ ~Running
  BY <1>5, ReceivedWay
     DEF JobStarts, FailCampaign, JobCancelled, JobDies, Due, campaign, monitor, memory,
        env, Ends, rows, ReturnClaims, Trouble, IInv, Typed, TypeOK, Plain, Refreshing,
        Running, Busy, Alive, OnItsWay, Coroutines, Scheduling
<1>6. ASSUME NEW j \in Jobs, JobCompletes(j)
      PROVE  Refreshing /\ ~Refreshing' => act' = 0 \/ ~Running
  <2>1. Publish([type |-> "completed"])
    BY <1>6 DEF JobCompletes
  <2>2. OnItsWay({"sync", "completed", "failed"})'
    BY <2>1, PublishedWay DEF IInv, Plain
  <2> QED
    BY <1>6, <2>2 DEF Refreshing
<1>7. ASSUME NEW j \in Jobs, JobRetriesLater(j)
      PROVE  Refreshing /\ ~Refreshing' => act' = 0 \/ ~Running
  <2>1. Publish([type |-> "completed"])
    BY <1>7 DEF JobRetriesLater
  <2>2. OnItsWay({"sync", "completed", "failed"})'
    BY <2>1, PublishedWay DEF IInv, Plain
  <2> QED
    BY <1>7, <2>2 DEF Refreshing
<1>8. ASSUME NEW j \in Jobs, JobFails(j)
      PROVE  Refreshing /\ ~Refreshing' => act' = 0 \/ ~Running
  <2>1. Publish([type |-> "failed"])
    BY <1>8 DEF JobFails
  <2>2. OnItsWay({"sync", "completed", "failed"})'
    BY <2>1, PublishedWay DEF IInv, Plain
  <2> QED
    BY <1>8, <2>2 DEF Refreshing
<1>9. ASSUME NEW j \in Jobs, NEW c \in Contacts, JobDials(j, c)
      PROVE  Refreshing /\ ~Refreshing' => act' = 0 \/ ~Running
  BY <1>9, ReceivedWay
     DEF JobDials, campaign, monitor, memory, env, IInv, Typed, TypeOK, Plain,
        Refreshing, Running, Busy, Alive, OnItsWay, Coroutines, Scheduling
<1>10. ASSUME NEW c \in Contacts, CallEnds(c)
      PROVE  Refreshing /\ ~Refreshing' => act' = 0 \/ ~Running
  <2>1. OnItsWay({"sync", "completed", "failed"})' <=> OnItsWay({"sync", "completed", "failed"})
    <3>1. CASE Publish(Retry(c))
      BY <3>1, PublishedWay DEF Retry, IInv, Plain
    <3>2. CASE UNCHANGED inbox
      BY <3>2 DEF OnItsWay
    <3> QED
      BY <1>10, <3>1, <3>2 DEF CallEnds
  <2> QED
    BY <1>10, <2>1 DEF CallEnds, Refreshing
<1> QED
  BY <1>1, <1>2, <1>3, <1>4, <1>5, <1>6, <1>7, <1>8, <1>9, <1>10 DEF CalmStep

\* A pass comes from a pass, or a batch.
LEMMA RefreshComes ==
  ASSUME IInv, Plain, CalmStep
  PROVE  ~Refreshing /\ Refreshing' => Busy # {}
<1>1. ASSUME NEW p \in Coroutines,
             ReadCampaign(p) \/ CountQueued(p) \/ CountProcessing(p) \/ Enqueue(p) \/
             NoteBatch(p)
      PROVE  ~Refreshing /\ Refreshing' => Busy # {}
  BY <1>1, ReceivedWay
     DEF ReadCampaign, CountQueued, CountProcessing, Enqueue, NoteBatch, Finish, Leave,
        MonitorSleeps, Goto, campaign, rows, worker, monitor, memory, env, IInv, Typed,
        TypeOK, Plain, Refreshing, Running, Busy, Alive, OnItsWay, Coroutines,
        Scheduling
<1>2. CASE HandleSync \/ HandleCompleted \/ Reread \/ HandleFailed
  BY <1>2, ReceivedWay
     DEF HandleSync, HandleCompleted, Reread, HandleFailed, Receive, Enter, Leave, Goto,
        campaign, rows, worker, env, monitor, ClearCampaign, IInv, Typed, TypeOK, Plain,
        Refreshing, Running, Busy, Alive, OnItsWay, Coroutines, Scheduling
<1>3. CASE HandleRetry
  BY <1>3, ReceivedWay
     DEF HandleRetry, Receive, Goto, campaign, rows, worker, monitor, memory, env, IInv,
        Typed, TypeOK, Plain, Refreshing, Running, Busy, Alive, OnItsWay, Coroutines,
        Scheduling
<1>4. CASE GiveUp
  BY <1>4, ReceivedWay
     DEF GiveUp, Goto, rows, worker, monitor, memory, env, IInv, Typed, TypeOK, Plain,
        Refreshing, Running, Busy, Alive, OnItsWay, Coroutines, Scheduling
<1>5. CASE InsertRetry \/ RetryInserted
  BY <1>5, ReceivedWay
     DEF InsertRetry, RetryInserted, Goto, campaign, worker, monitor, memory, env, rows,
        IInv, Typed, TypeOK, Plain, Refreshing, Running, Busy, Alive, OnItsWay,
        Coroutines, Scheduling
<1>6. CASE ReadRunning \/ Check \/ AskQueued \/ AskProcessing \/ Complete \/ Completed
  BY <1>6, ReceivedWay
     DEF ReadRunning, Check, AskQueued, AskProcessing, Complete, Completed, Goto,
        campaign, rows, worker, memory, env, AskPending, Leave, MonitorSleeps,
        WorkFound, Enter, monitor, NoWorkFound, ClearCampaign, IInv, Typed, TypeOK,
        Plain, Refreshing, Running, Busy, Alive, OnItsWay, Coroutines, Scheduling
<1>7. CASE ReleaseLock \/ Tick \/ UNCHANGED vars
  BY <1>7, ReceivedWay
     DEF ReleaseLock, Tick, campaign, rows, worker, monitor, env, Quiet, Less, Older,
        vars, memory, IInv, Typed, TypeOK, Plain, Refreshing, Running, Busy, Alive,
        OnItsWay, Coroutines, Scheduling
<1>8. ASSUME NEW j \in Jobs,
             JobStarts(j) \/ FailCampaign(j) \/ JobCancelled(j) \/ JobDies(j)
      PROVE  ~Refreshing /\ Refreshing' => Busy # {}
  BY <1>8, ReceivedWay
     DEF JobStarts, FailCampaign, JobCancelled, JobDies, Due, campaign, monitor, memory,
        env, Ends, rows, ReturnClaims, Trouble, IInv, Typed, TypeOK, Plain, Refreshing,
        Running, Busy, Alive, OnItsWay, Coroutines, Scheduling
<1>9. ASSUME NEW j \in Jobs, JobCompletes(j)
      PROVE  ~Refreshing /\ Refreshing' => Busy # {}
  <2>1. j \in Busy
    BY <1>9 DEF JobCompletes, ReturnClaims, Busy
  <2> QED
    BY <2>1
<1>10. ASSUME NEW j \in Jobs, JobRetriesLater(j)
      PROVE  ~Refreshing /\ Refreshing' => Busy # {}
  <2>1. j \in Busy
    BY <1>10 DEF JobRetriesLater, ReturnClaims, Busy
  <2> QED
    BY <2>1
<1>11. ASSUME NEW j \in Jobs, JobFails(j)
      PROVE  ~Refreshing /\ Refreshing' => Busy # {}
  <2>1. j \in Busy
    BY <1>11 DEF JobFails, ReturnClaims, Busy
  <2> QED
    BY <2>1
<1>12. ASSUME NEW j \in Jobs, NEW c \in Contacts, JobDials(j, c)
      PROVE  ~Refreshing /\ Refreshing' => Busy # {}
  BY <1>12, ReceivedWay
     DEF JobDials, campaign, monitor, memory, env, IInv, Typed, TypeOK, Plain,
        Refreshing, Running, Busy, Alive, OnItsWay, Coroutines, Scheduling
<1>13. ASSUME NEW c \in Contacts, CallEnds(c)
      PROVE  ~Refreshing /\ Refreshing' => Busy # {}
  <2>1. OnItsWay({"sync", "completed", "failed"})' <=> OnItsWay({"sync", "completed", "failed"})
    <3>1. CASE Publish(Retry(c))
      BY <3>1, PublishedWay DEF Retry, IInv, Plain
    <3>2. CASE UNCHANGED inbox
      BY <3>2 DEF OnItsWay
    <3> QED
      BY <1>13, <3>1, <3>2 DEF CallEnds
  <2> QED
    BY <1>13, <2>1 DEF CallEnds, Refreshing
<1> QED
  BY <1>1, <1>2, <1>3, <1>4, <1>5, <1>6, <1>7, <1>8, <1>9, <1>10, <1>11, <1>12, <1>13
     DEF CalmStep

\* A campaign that does not run does not start to.
LEMMA StaysEnded ==
  ASSUME IInv, Plain, ~Running, CalmStep
  PROVE  ~Running'
<1>1. ASSUME NEW p \in Coroutines,
             ReadCampaign(p) \/ CountQueued(p) \/ CountProcessing(p) \/ Enqueue(p) \/
             NoteBatch(p)
      PROVE  ~Running'
  BY <1>1
     DEF ReadCampaign, CountQueued, CountProcessing, Enqueue, NoteBatch, Finish, Leave,
        MonitorSleeps, Goto, campaign, rows, worker, monitor, memory, env, IInv, Typed,
        TypeOK, Plain, Running, Undisturbed
<1>2. CASE HandleSync \/ HandleCompleted \/ Reread \/ HandleFailed \/ HandleRetry \/
           GiveUp \/ InsertRetry \/ RetryInserted
  BY <1>2
     DEF HandleSync, HandleCompleted, Reread, HandleFailed, HandleRetry, GiveUp,
        InsertRetry, RetryInserted, Receive, Enter, Leave, Goto, campaign, rows, worker,
        env, monitor, ClearCampaign, memory, IInv, Typed, TypeOK, Plain, Running,
        Undisturbed
<1>3. CASE ReadRunning \/ Check \/ AskQueued \/ AskProcessing \/ Complete \/ Completed
  BY <1>3
     DEF ReadRunning, Check, AskQueued, AskProcessing, Complete, Completed, Goto,
        campaign, rows, worker, memory, env, AskPending, Leave, MonitorSleeps,
        WorkFound, Enter, monitor, NoWorkFound, ClearCampaign, IInv, Typed, TypeOK,
        Plain, Running, Undisturbed
<1>4. CASE ReleaseLock \/ Tick \/ UNCHANGED vars
  BY <1>4
     DEF ReleaseLock, Tick, campaign, rows, worker, monitor, env, Quiet, Less, Older,
        vars, memory, IInv, Typed, TypeOK, Plain, Running, Undisturbed
<1>5. ASSUME NEW j \in Jobs,
             JobStarts(j) \/ JobCompletes(j) \/ JobRetriesLater(j) \/ JobFails(j) \/
             FailCampaign(j) \/ JobCancelled(j) \/ JobDies(j)
      PROVE  ~Running'
  BY <1>5
     DEF JobStarts, JobCompletes, JobRetriesLater, JobFails, FailCampaign, JobCancelled,
        JobDies, Due, campaign, monitor, memory, env, Ends, rows, ReturnClaims, Trouble,
        IInv, Typed, TypeOK, Plain, Running, Undisturbed
<1>6. ASSUME NEW j \in Jobs, NEW c \in Contacts, JobDials(j, c)
      PROVE  ~Running'
  BY <1>6
     DEF JobDials, campaign, monitor, memory, env, IInv, Typed, TypeOK, Plain, Running,
        Undisturbed
<1>7. ASSUME NEW c \in Contacts, CallEnds(c)
      PROVE  ~Running'
  BY <1>7
     DEF CallEnds, campaign, worker, monitor, memory, env, IInv, Typed, TypeOK, Plain,
        Running, Undisturbed
<1> QED
  BY <1>1, <1>2, <1>3, <1>4, <1>5, <1>6, <1>7 DEF CalmStep

\* A batch more comes from a pass.
LEMMA BusyGrows ==
  ASSUME IInv, Plain, CalmStep
  PROVE  Busy' \subseteq Busy \/ \E q \in Coroutines : Enqueue(q)
<1>1. ASSUME NEW p \in Coroutines,
             ReadCampaign(p) \/ CountQueued(p) \/ CountProcessing(p) \/ Enqueue(p) \/
             NoteBatch(p)
      PROVE  Busy' \subseteq Busy \/ \E q \in Coroutines : Enqueue(q)
  BY <1>1
     DEF ReadCampaign, CountQueued, CountProcessing, Enqueue, NoteBatch, Finish, Leave,
        MonitorSleeps, Goto, campaign, rows, worker, monitor, memory, env, IInv, Typed,
        TypeOK, Plain, Busy
<1>2. CASE HandleSync \/ HandleCompleted \/ Reread \/ HandleFailed \/ HandleRetry \/
           GiveUp \/ InsertRetry \/ RetryInserted
  BY <1>2
     DEF HandleSync, HandleCompleted, Reread, HandleFailed, HandleRetry, GiveUp,
        InsertRetry, RetryInserted, Receive, Enter, Leave, Goto, campaign, rows, worker,
        env, monitor, ClearCampaign, memory, IInv, Typed, TypeOK, Plain, Busy
<1>3. CASE ReadRunning \/ Check \/ AskQueued \/ AskProcessing \/ Complete \/ Completed
  BY <1>3
     DEF ReadRunning, Check, AskQueued, AskProcessing, Complete, Completed, Goto,
        campaign, rows, worker, memory, env, AskPending, Leave, MonitorSleeps,
        WorkFound, Enter, monitor, NoWorkFound, ClearCampaign, IInv, Typed, TypeOK,
        Plain, Busy
<1>4. CASE ReleaseLock \/ Tick \/ UNCHANGED vars
  BY <1>4
     DEF ReleaseLock, Tick, campaign, rows, worker, monitor, env, Quiet, Less, Older,
        vars, memory, IInv, Typed, TypeOK, Plain, Busy
<1>5. ASSUME NEW j \in Jobs,
             JobStarts(j) \/ JobCompletes(j) \/ JobRetriesLater(j) \/ JobFails(j) \/
             FailCampaign(j) \/ JobCancelled(j) \/ JobDies(j)
      PROVE  Busy' \subseteq Busy \/ \E q \in Coroutines : Enqueue(q)
  BY <1>5
     DEF JobStarts, JobCompletes, JobRetriesLater, JobFails, FailCampaign, JobCancelled,
        JobDies, Due, campaign, monitor, memory, env, Ends, rows, ReturnClaims, Trouble,
        IInv, Typed, TypeOK, Plain, Busy
<1>6. ASSUME NEW j \in Jobs, NEW c \in Contacts, JobDials(j, c)
      PROVE  Busy' \subseteq Busy \/ \E q \in Coroutines : Enqueue(q)
  BY <1>6 DEF JobDials, campaign, monitor, memory, env, IInv, Typed, TypeOK, Plain, Busy
<1>7. ASSUME NEW c \in Contacts, CallEnds(c)
      PROVE  Busy' \subseteq Busy \/ \E q \in Coroutines : Enqueue(q)
  BY <1>7
     DEF CallEnds, campaign, worker, monitor, memory, env, IInv, Typed, TypeOK, Plain,
        Busy
<1> QED
  BY <1>1, <1>2, <1>3, <1>4, <1>5, <1>6, <1>7 DEF CalmStep

\* A batch less has been reported or lost, or has failed the campaign.
LEMMA BusyShrinks ==
  ASSUME IInv, Plain, CalmStep
  PROVE  \/ Busy \subseteq Busy' \/ Refreshing' \/ ~Running'
         \/ \E i \in Jobs : JobCancelled(i) \/ JobDies(i)
<1>1. ASSUME NEW p \in Coroutines,
             ReadCampaign(p) \/ CountQueued(p) \/ CountProcessing(p) \/ Enqueue(p) \/
             NoteBatch(p)
      PROVE  \/ Busy \subseteq Busy' \/ Refreshing' \/ ~Running'
             \/ \E i \in Jobs : JobCancelled(i) \/ JobDies(i)
  BY <1>1
     DEF ReadCampaign, CountQueued, CountProcessing, Enqueue, NoteBatch, Finish, Leave,
        MonitorSleeps, Goto, campaign, rows, worker, monitor, memory, env, IInv, Typed,
        TypeOK, Plain, Busy, Running
<1>2. CASE HandleSync \/ HandleCompleted \/ Reread \/ HandleFailed \/ HandleRetry \/
           GiveUp \/ InsertRetry \/ RetryInserted
  BY <1>2
     DEF HandleSync, HandleCompleted, Reread, HandleFailed, HandleRetry, GiveUp,
        InsertRetry, RetryInserted, Receive, Enter, Leave, Goto, campaign, rows, worker,
        env, monitor, ClearCampaign, memory, IInv, Typed, TypeOK, Plain, Busy, Running
<1>3. CASE ReadRunning \/ Check \/ AskQueued \/ AskProcessing \/ Complete \/ Completed
  BY <1>3
     DEF ReadRunning, Check, AskQueued, AskProcessing, Complete, Completed, Goto,
        campaign, rows, worker, memory, env, AskPending, Leave, MonitorSleeps,
        WorkFound, Enter, monitor, NoWorkFound, ClearCampaign, IInv, Typed, TypeOK,
        Plain, Busy, Running
<1>4. CASE ReleaseLock \/ Tick \/ UNCHANGED vars
  BY <1>4
     DEF ReleaseLock, Tick, campaign, rows, worker, monitor, env, Quiet, Less, Older,
        vars, memory, IInv, Typed, TypeOK, Plain, Busy, Running
<1>5. ASSUME NEW j \in Jobs,
             JobStarts(j) \/ FailCampaign(j)
      PROVE  \/ Busy \subseteq Busy' \/ Refreshing' \/ ~Running'
             \/ \E i \in Jobs : JobCancelled(i) \/ JobDies(i)
  BY <1>5
     DEF JobStarts, FailCampaign, Due, campaign, monitor, memory, env, Ends, rows, IInv,
        Typed, TypeOK, Plain, Busy, Running
<1>6. ASSUME NEW j \in Jobs, JobCompletes(j)
      PROVE  \/ Busy \subseteq Busy' \/ Refreshing' \/ ~Running'
             \/ \E i \in Jobs : JobCancelled(i) \/ JobDies(i)
  <2>1. Publish([type |-> "completed"])
    BY <1>6 DEF JobCompletes
  <2>2. OnItsWay({"sync", "completed", "failed"})'
    BY <2>1, PublishedWay DEF IInv, Plain
  <2> QED
    BY <1>6, <2>2 DEF Refreshing
<1>7. ASSUME NEW j \in Jobs, JobRetriesLater(j)
      PROVE  \/ Busy \subseteq Busy' \/ Refreshing' \/ ~Running'
             \/ \E i \in Jobs : JobCancelled(i) \/ JobDies(i)
  <2>1. Publish([type |-> "completed"])
    BY <1>7 DEF JobRetriesLater
  <2>2. OnItsWay({"sync", "completed", "failed"})'
    BY <2>1, PublishedWay DEF IInv, Plain
  <2> QED
    BY <1>7, <2>2 DEF Refreshing
<1>8. ASSUME NEW j \in Jobs, JobFails(j)
      PROVE  \/ Busy \subseteq Busy' \/ Refreshing' \/ ~Running'
             \/ \E i \in Jobs : JobCancelled(i) \/ JobDies(i)
  <2>1. Publish([type |-> "failed"])
    BY <1>8 DEF JobFails
  <2>2. OnItsWay({"sync", "completed", "failed"})'
    BY <2>1, PublishedWay DEF IInv, Plain
  <2> QED
    BY <1>8, <2>2 DEF Refreshing
<1>9. ASSUME NEW j \in Jobs, JobCancelled(j)
      PROVE  \/ Busy \subseteq Busy' \/ Refreshing' \/ ~Running'
             \/ \E i \in Jobs : JobCancelled(i) \/ JobDies(i)
  BY <1>9
<1>10. ASSUME NEW j \in Jobs, JobDies(j)
      PROVE  \/ Busy \subseteq Busy' \/ Refreshing' \/ ~Running'
             \/ \E i \in Jobs : JobCancelled(i) \/ JobDies(i)
  BY <1>10
<1>11. ASSUME NEW j \in Jobs, NEW c \in Contacts, JobDials(j, c)
      PROVE  \/ Busy \subseteq Busy' \/ Refreshing' \/ ~Running'
             \/ \E i \in Jobs : JobCancelled(i) \/ JobDies(i)
  BY <1>11
     DEF JobDials, campaign, monitor, memory, env, IInv, Typed, TypeOK, Plain, Busy,
        Running
<1>12. ASSUME NEW c \in Contacts, CallEnds(c)
      PROVE  \/ Busy \subseteq Busy' \/ Refreshing' \/ ~Running'
             \/ \E i \in Jobs : JobCancelled(i) \/ JobDies(i)
  BY <1>12
     DEF CallEnds, campaign, worker, monitor, memory, env, IInv, Typed, TypeOK, Plain,
        Busy, Running
<1> QED
  BY <1>1, <1>2, <1>3, <1>4, <1>5, <1>6, <1>7, <1>8, <1>9, <1>10, <1>11, <1>12 DEF CalmStep

\* The numbers that the next lemmas compare.
LEMMA Times ==
  ASSUME IInv, IInv', CalmStep
  PROVE  /\ Gap \in Int /\ Lost \in Nat /\ Lost' \in Nat /\ Lost <= Lost' /\ RetryDelay >= 1
         /\ Sweep <= Gap /\ RetryDelay + Sweep <= Gap /\ BatchTimeout + Sweep <= Gap
         /\ Sweep \in Nat /\ RetryDelay \in Nat /\ BatchTimeout \in Nat
         /\ act \in Int /\ act' \in Int /\ nap \in Nat /\ nap' \in Nat /\ nap' <= Sweep
<1>1. Idle \in Nat /\ Sweep \in Nat /\ RetryDelay \in Nat \ {0} /\ BatchTimeout \in Nat
  BY TimesAssumption
<1>2. act \in Int /\ act' \in Int /\ nap \in Nat /\ nap' \in Nat /\ nap' <= Sweep
  BY <1>1 DEF IInv, Typed, TypeOK, None
<1> QED
  BY <1>1, <1>2, LostGrows, CalmGrows DEF IInv

\* The numbers that the lemmas on each kind of work compare.
LEMMA Amounts ==
  ASSUME IInv, IInv', CalmStep
  PROVE  /\ Gap \in Nat /\ Lost \in Nat /\ Lost' \in Nat /\ Lost <= Lost'
         /\ Round = Gap + JobTime
         /\ JobTime \in Nat /\ CallTime \in Nat /\ RetryDelay \in Nat /\ Idle \in Nat
         /\ act \in Int /\ act' \in Int
         /\ wait \in [Contacts -> Nat] /\ wait' \in [Contacts -> Nat]
         /\ age \in [Jobs -> Nat] /\ \A j \in Jobs : age[j] <= JobTime
         /\ age' \in [Jobs -> Nat] /\ \A j \in Jobs : age'[j] <= JobTime
<1>1. JobTime \in Nat /\ CallTime \in Nat /\ RetryDelay \in Nat /\ Idle \in Nat
  BY TimesAssumption
<1>2. age \in [Jobs -> 0 .. JobTime] /\ age' \in [Jobs -> 0 .. JobTime]
  BY DEF IInv, Typed, TypeOK
<1>3. act \in Int /\ act' \in Int /\ wait \in [Contacts -> Nat] /\ wait' \in [Contacts -> Nat]
  BY <1>1 DEF IInv, Typed, TypeOK, None
<1>4. /\ age \in [Jobs -> Nat] /\ \A j \in Jobs : age[j] <= JobTime
      /\ age' \in [Jobs -> Nat] /\ \A j \in Jobs : age'[j] <= JobTime
  BY <1>1, <1>2
<1> QED
  BY <1>1, <1>3, <1>4, LostGrows, CalmGrows DEF IInv

\* What a tick does to the ages and waits.
LEMMA TickTimes ==
  ASSUME IInv, Plain, Tick
  PROVE  /\ act' <= act + 1 /\ run' = run /\ jobs' = jobs /\ pc' = pc
         /\ UNCHANGED <<inbox, event, state>>
         /\ pc["L"] = "idle" /\ inbox = <<>> /\ pc["M"] = "asleep" /\ nap > 0
         /\ \A c \in Contacts : wait[c] > 0 => wait'[c] = wait[c] - 1
         /\ \A c \in Contacts : wait[c] = 0 => wait'[c] = 0
         /\ \A c \in Contacts : run[c] = "called" => wait[c] > 0
         /\ \A j \in Jobs : jobs[j] # "none" => age[j] < JobTime /\ age'[j] = age[j] + 1
<1>1. act' <= act + 1
  BY TimesAssumption DEF Tick, Older, IInv, Typed, TypeOK, None
<1> QED
  BY <1>1 DEF Tick, Quiet, Less, Plain, Alive, IInv, Typed, TypeOK


\* What a step may do to a run.
RunStep(c) ==
  \/ run'[c] = run[c] /\ wait'[c] = wait[c]
  \/ run'[c] \notin {"queued", "called"}
  \/ run'[c] = "queued" /\ wait'[c] = 0
  \/ InsertRetry /\ event[1] = c
  \/ run'[c] = "called" /\ \E j \in Jobs : JobDials(j, c)

\* What becomes of the run of a contact, but for a tick.
LEMMA RunSteps ==
  ASSUME IInv, Plain, CalmStep, ~Tick, NEW c \in Contacts
  PROVE  RunStep(c)
<1>1. ASSUME NEW p \in Coroutines,
             ReadCampaign(p) \/ CountQueued(p) \/ CountProcessing(p) \/ Enqueue(p) \/
             NoteBatch(p)
      PROVE  RunStep(c)
  BY <1>1
     DEF ReadCampaign, CountQueued, CountProcessing, Enqueue, NoteBatch, Finish, Leave,
        MonitorSleeps, Goto, campaign, rows, worker, monitor, memory, env, IInv, Typed,
        TypeOK, Rest, Held, Plain, Waits, RunStep
<1>2. CASE HandleSync \/ HandleCompleted \/ Reread \/ HandleFailed \/ HandleRetry \/
           GiveUp \/ InsertRetry \/ RetryInserted
  BY <1>2
     DEF HandleSync, HandleCompleted, Reread, HandleFailed, HandleRetry, GiveUp,
        InsertRetry, RetryInserted, Receive, Enter, Leave, Goto, campaign, rows, worker,
        env, monitor, ClearCampaign, memory, IInv, Typed, TypeOK, Rest, Held, Plain,
        Waits, RunStep
<1>3. CASE ReadRunning \/ Check \/ AskQueued \/ AskProcessing \/ Complete \/ Completed
  BY <1>3
     DEF ReadRunning, Check, AskQueued, AskProcessing, Complete, Completed, Goto,
        campaign, rows, worker, memory, env, AskPending, Leave, MonitorSleeps,
        WorkFound, Enter, monitor, NoWorkFound, ClearCampaign, IInv, Typed, TypeOK,
        Rest, Held, Plain, Waits, RunStep
<1>4. CASE ReleaseLock \/ UNCHANGED vars
  BY <1>4
     DEF ReleaseLock, campaign, rows, worker, monitor, env, vars, memory, IInv, Typed,
        TypeOK, Rest, Held, Plain, Waits, RunStep
<1>5. CASE Tick
  BY <1>5
<1>6. ASSUME NEW j \in Jobs,
             JobStarts(j) \/ JobCompletes(j) \/ JobRetriesLater(j) \/ JobFails(j) \/
             FailCampaign(j) \/ JobCancelled(j) \/ JobDies(j)
      PROVE  RunStep(c)
  BY <1>6
     DEF JobStarts, JobCompletes, JobRetriesLater, JobFails, FailCampaign, JobCancelled,
        JobDies, Due, campaign, monitor, memory, env, Ends, rows, ReturnClaims, Trouble,
        IInv, Typed, TypeOK, Rest, Held, Plain, Waits, RunStep
<1>7. ASSUME NEW j \in Jobs, NEW d \in Contacts, JobDials(j, d)
      PROVE  RunStep(c)
  <2>1. CASE d = c
    BY <1>7, <2>1 DEF JobDials, RunStep, IInv, Typed, TypeOK
  <2>2. CASE d # c
    BY <1>7, <2>2 DEF JobDials, RunStep, IInv, Typed, TypeOK
  <2> QED
    BY <2>1, <2>2
<1>8. ASSUME NEW d \in Contacts, CallEnds(d)
      PROVE  RunStep(c)
  BY <1>8
     DEF CallEnds, campaign, worker, monitor, memory, env, IInv, Typed, TypeOK, Rest,
        Held, Plain, Waits, RunStep
<1> QED
  BY <1>1, <1>2, <1>3, <1>4, <1>5, <1>6, <1>7, <1>8 DEF CalmStep

\* A batch that stays keeps its age, but for a tick.
LEMMA AgeSteps ==
  ASSUME IInv, Plain, CalmStep, ~Tick, NEW i \in Busy
  PROVE  i \in Busy' => age'[i] = age[i]
<1>1. ASSUME NEW p \in Coroutines,
             ReadCampaign(p) \/ CountQueued(p) \/ CountProcessing(p) \/ Enqueue(p) \/
             NoteBatch(p)
      PROVE  i \in Busy' => age'[i] = age[i]
  BY <1>1
     DEF ReadCampaign, CountQueued, CountProcessing, Enqueue, NoteBatch, Finish, Leave,
        MonitorSleeps, Goto, campaign, rows, worker, monitor, memory, env, IInv, Typed,
        TypeOK, Busy
<1>2. CASE HandleSync \/ HandleCompleted \/ Reread \/ HandleFailed \/ HandleRetry \/
           GiveUp \/ InsertRetry \/ RetryInserted
  BY <1>2
     DEF HandleSync, HandleCompleted, Reread, HandleFailed, HandleRetry, GiveUp,
        InsertRetry, RetryInserted, Receive, Enter, Leave, Goto, campaign, rows, worker,
        env, monitor, ClearCampaign, memory, IInv, Typed, TypeOK, Busy
<1>3. CASE ReadRunning \/ Check \/ AskQueued \/ AskProcessing \/ Complete \/ Completed
  BY <1>3
     DEF ReadRunning, Check, AskQueued, AskProcessing, Complete, Completed, Goto,
        campaign, rows, worker, memory, env, AskPending, Leave, MonitorSleeps,
        WorkFound, Enter, monitor, NoWorkFound, ClearCampaign, IInv, Typed, TypeOK, Busy
<1>4. CASE ReleaseLock \/ UNCHANGED vars
  BY <1>4
     DEF ReleaseLock, campaign, rows, worker, monitor, env, vars, memory, IInv, Typed,
        TypeOK, Busy
<1>5. CASE Tick
  BY <1>5
<1>6. ASSUME NEW j \in Jobs,
             JobStarts(j) \/ JobCompletes(j) \/ JobRetriesLater(j) \/ JobFails(j) \/
             FailCampaign(j) \/ JobCancelled(j) \/ JobDies(j)
      PROVE  i \in Busy' => age'[i] = age[i]
  BY <1>6
     DEF JobStarts, JobCompletes, JobRetriesLater, JobFails, FailCampaign, JobCancelled,
        JobDies, Due, campaign, monitor, memory, env, Ends, rows, ReturnClaims, Trouble,
        IInv, Typed, TypeOK, Busy
<1>7. ASSUME NEW j \in Jobs, NEW c \in Contacts, JobDials(j, c)
      PROVE  i \in Busy' => age'[i] = age[i]
  BY <1>7 DEF JobDials, campaign, monitor, memory, env, IInv, Typed, TypeOK, Busy
<1>8. ASSUME NEW c \in Contacts, CallEnds(c)
      PROVE  i \in Busy' => age'[i] = age[i]
  BY <1>8 DEF CallEnds, campaign, worker, monitor, memory, env, IInv, Typed, TypeOK, Busy
<1> QED
  BY <1>1, <1>2, <1>3, <1>4, <1>5, <1>6, <1>7, <1>8 DEF CalmStep

\* The listener notes activity when a retry has been created.
LEMMA InsertedSteps ==
  ASSUME IInv, Plain, CalmStep, pc["L"] = "inserted"
  PROVE  act' = 0 \/ (pc'["L"] = "inserted" /\ event' = event)
<1>1. ASSUME NEW p \in Coroutines,
             ReadCampaign(p) \/ CountQueued(p) \/ CountProcessing(p) \/ Enqueue(p) \/
             NoteBatch(p)
      PROVE  act' = 0 \/ (pc'["L"] = "inserted" /\ event' = event)
  BY <1>1
     DEF ReadCampaign, CountQueued, CountProcessing, Enqueue, NoteBatch, Finish, Leave,
        MonitorSleeps, Goto, campaign, rows, worker, monitor, memory, env, IInv, Typed,
        TypeOK, Coroutines, Scheduling, Plain, Alive
<1>2. CASE HandleSync \/ HandleCompleted \/ Reread \/ HandleFailed \/ HandleRetry \/
           GiveUp \/ InsertRetry \/ RetryInserted
  BY <1>2
     DEF HandleSync, HandleCompleted, Reread, HandleFailed, HandleRetry, GiveUp,
        InsertRetry, RetryInserted, Receive, Enter, Leave, Goto, campaign, rows, worker,
        env, monitor, ClearCampaign, memory, IInv, Typed, TypeOK, Coroutines,
        Scheduling, Plain, Alive
<1>3. CASE ReadRunning \/ Check \/ AskQueued \/ AskProcessing \/ Complete \/ Completed
  BY <1>3
     DEF ReadRunning, Check, AskQueued, AskProcessing, Complete, Completed, Goto,
        campaign, rows, worker, memory, env, AskPending, Leave, MonitorSleeps,
        WorkFound, Enter, monitor, NoWorkFound, ClearCampaign, IInv, Typed, TypeOK,
        Coroutines, Scheduling, Plain, Alive
<1>4. CASE ReleaseLock \/ Tick \/ UNCHANGED vars
  BY <1>4
     DEF ReleaseLock, Tick, campaign, rows, worker, monitor, env, Quiet, Less, Older,
        vars, memory, IInv, Typed, TypeOK, Coroutines, Scheduling, Plain, Alive
<1>5. ASSUME NEW j \in Jobs,
             JobStarts(j) \/ JobCompletes(j) \/ JobRetriesLater(j) \/ JobFails(j) \/
             FailCampaign(j) \/ JobCancelled(j) \/ JobDies(j)
      PROVE  act' = 0 \/ (pc'["L"] = "inserted" /\ event' = event)
  BY <1>5
     DEF JobStarts, JobCompletes, JobRetriesLater, JobFails, FailCampaign, JobCancelled,
        JobDies, Due, campaign, monitor, memory, env, Ends, rows, ReturnClaims, Trouble,
        IInv, Typed, TypeOK, Coroutines, Scheduling, Plain, Alive
<1>6. ASSUME NEW j \in Jobs, NEW c \in Contacts, JobDials(j, c)
      PROVE  act' = 0 \/ (pc'["L"] = "inserted" /\ event' = event)
  BY <1>6
     DEF JobDials, campaign, monitor, memory, env, IInv, Typed, TypeOK, Coroutines,
        Scheduling, Plain, Alive
<1>7. ASSUME NEW c \in Contacts, CallEnds(c)
      PROVE  act' = 0 \/ (pc'["L"] = "inserted" /\ event' = event)
  BY <1>7
     DEF CallEnds, campaign, worker, monitor, memory, env, IInv, Typed, TypeOK,
        Coroutines, Scheduling, Plain, Alive
<1> QED
  BY <1>1, <1>2, <1>3, <1>4, <1>5, <1>6, <1>7 DEF CalmStep

---------------------------------------------------------------------------
(* The last activity is recent while there is work.                        *)

\* When the last batch or pass is gone, activity has been noted, or it was lost.
LEMMA IdlingBegins ==
  ASSUME IInv, IInv', Plain, BusyRecent, CalmStep, ~Idling, Idling', Running'
  PROVE  act' <= Lost'
<1>1. /\ Lost \in Nat /\ Lost' \in Nat /\ Gap \in Nat /\ JobTime \in Nat
      /\ Round = Gap + JobTime
      /\ age \in [Jobs -> 0 .. JobTime] /\ act \in {None} \cup 0 .. Idle /\ Idle \in Nat
  BY LostGrows, CalmGrows, TimesAssumption DEF IInv, Typed, TypeOK
<1>2. CASE Refreshing
  <2>1. act' = 0
    BY <1>2, Refreshed, StaysEnded DEF Idling
  <2> QED
    BY <1>1, <2>1
<1>3. CASE ~Refreshing
  <2>1. PICK j \in Jobs : JobCancelled(j) \/ JobDies(j)
    BY <1>3, BusyShrinks DEF Idling
  <2>2. Lost' = Lost + Round /\ act' = act
    BY <2>1, LostAdded DEF JobCancelled, JobDies, Trouble, memory, IInv
  <2>3. PICK i \in Busy : act <= Lost + Gap + age[i]
    BY <1>3 DEF BusyRecent, Idling
  <2>4. age[i] \in 0 .. JobTime
    BY <1>1, <2>3 DEF Busy
  <2> QED
    BY <1>1, <2>2, <2>3, <2>4 DEF None
<1> QED
  BY <1>2, <1>3

\* Activity noted in time is recent enough for whatever is left to do.
LEMMA NotedIsRecent ==
  ASSUME IInv, IInv', CalmStep, act' <= Lost'
  PROVE  DueRecent' /\ PassRecent'
<1>1. act' + nap' <= Lost' + Gap /\ act' <= Lost' + RetryDelay /\ act' <= Lost' + Gap
  BY Times
<1>2. DueRecent'
  BY <1>1 DEF DueRecent
<1>3. \A n \in Nat : act' <= n + Lost'
  BY Times
<1>4. inProg' \in 0 .. BatchTimeout => act' <= inProg' + Lost'
  BY <1>3, TimesAssumption
<1> QED
  BY <1>1, <1>2, <1>4 DEF PassRecent

\* It stays so in a step that leaves the monitor and the queue alone.
LEMMA StaysRecent ==
  ASSUME IInv, IInv', CalmStep, DueRecent, PassRecent, SomeDue' => SomeDue,
         UNCHANGED <<act, nap, ask>>, pc'["M"] = pc["M"], lock' \in {lock, "free"},
         inProg' \in {inProg, None}
  PROVE  DueRecent' /\ PassRecent'
<1>1. /\ act + nap <= Lost + Gap => act + nap <= Lost' + Gap
      /\ act <= Lost => act <= Lost'
      /\ act <= Lost + RetryDelay => act <= Lost' + RetryDelay
      /\ act <= Lost + Gap => act <= Lost' + Gap
  BY Times
<1>2. DueRecent'
  BY <1>1 DEF DueRecent, Late
<1>3. \A n \in Nat : act <= n + Lost => act <= n + Lost'
  BY Times
<1>4. None \notin 0 .. BatchTimeout /\ 0 .. BatchTimeout \subseteq Nat
  BY TimesAssumption DEF None
<1>5. PassRecent'
  BY <1>1, <1>3, <1>4 DEF PassRecent
<1> QED
  BY <1>2, <1>5

\* The monitor, at a step while nobody is at work.
LEMMA MonitorStays ==
  ASSUME IInv, IInv', Plain, CalmStep, ~Orphaned, Running, Running', Idling, Idling',
         DueRecent, PassRecent,
         \/ ReadCampaign("M") \/ CountQueued("M") \/ CountProcessing("M") \/ NoteBatch("M")
         \/ ReadRunning \/ Check \/ AskQueued \/ AskProcessing
  PROVE  DueRecent' /\ PassRecent'
<1>1. SomeDue' = SomeDue /\ act' = act /\ (SomeDue => act + nap <= Lost + Gap)
  <2>1. run' = run /\ wait' = wait /\ act' = act
    BY DEF ReadCampaign, CountQueued, CountProcessing, NoteBatch, ReadRunning, Check,
       AskQueued, AskProcessing, Finish, Leave, AskPending, WorkFound, NoWorkFound, Enter,
       rows, memory
  <2> QED
    BY <2>1 DEF SomeDue, Due, DueRecent
<1>2. ~SomeProcessing
  BY DEF SomeProcessing, Orphaned, Idling, Busy, IInv, Rest, Held, Plain, HeldByWorking
<1>3. ASSUME act <= Lost
      PROVE  DueRecent' /\ PassRecent'
  BY <1>1, <1>3, Times, NotedIsRecent
<1>4. ASSUME ~SomeDue, inProg' \in {inProg, None}, pc'["M"] \notin {"note", "enqueue"}
      PROVE  DueRecent' /\ PassRecent'
  <2>1. \A n \in Nat : act <= n + Lost => act <= n + Lost'
    BY Times
  <2>2. None \notin 0 .. BatchTimeout /\ 0 .. BatchTimeout \subseteq Nat
    BY TimesAssumption DEF None
  <2> QED
    BY <1>1, <1>4, <2>1, <2>2 DEF DueRecent, PassRecent
<1>5. ASSUME SomeDue, act + nap' <= Lost + Gap, inProg' \in {inProg, None}, lock' = lock,
             pc["M"] \notin Scheduling,
             \/ pc'["M"] \in {"asleep", "check"}
             \/ pc'["M"] = "askQueued" /\ ask' \in {"stale", "idle"}
      PROVE  DueRecent' /\ PassRecent'
  <2>1. /\ act + nap' <= Lost' + Gap /\ (act <= Lost => act <= Lost')
        /\ act <= Lost + RetryDelay => act <= Lost' + RetryDelay
    BY <1>5, Times
  <2>2. \A n \in Nat : act <= n + Lost => act <= n + Lost'
    BY Times
  <2>3. None \notin 0 .. BatchTimeout /\ 0 .. BatchTimeout \subseteq Nat
    BY TimesAssumption DEF None
  <2> QED
    BY <1>1, <1>5, <2>1, <2>2, <2>3 DEF DueRecent, PassRecent, Late
<1>6. ASSUME pc'["M"] \in {"reading", "countQueued", "enqueue"}, UNCHANGED <<nap, inProg>>,
             SomeDue \/ pc'["M"] # "enqueue"
      PROVE  DueRecent' /\ PassRecent'
  <2>1. /\ act + nap <= Lost + Gap => act + nap <= Lost' + Gap /\ act <= Lost' + Gap
    BY Times
  <2>2. \A n \in Nat : act <= n + Lost => act <= n + Lost'
    BY Times
  <2>3. 0 .. BatchTimeout \subseteq Nat
    BY TimesAssumption
  <2> QED
    BY <1>1, <1>6, <2>1, <2>2, <2>3 DEF DueRecent, PassRecent, Late, Scheduling
<1>7. CASE ReadCampaign("M")
  BY <1>6, <1>7 DEF ReadCampaign, Goto, monitor, memory, Running, Plain, Undisturbed, IInv,
     Typed, TypeOK, Coroutines
<1>8. CASE CountQueued("M")
  BY <1>4, <1>6, <1>8
     DEF CountQueued, Goto, monitor, memory, IInv, Typed, TypeOK, Coroutines
<1>9. CASE CountProcessing("M")
  <2>1. SomeDue => act <= Lost
    BY <1>9 DEF CountProcessing, DueRecent, Late
  <2>2. inProg' = inProg /\ pc'["M"] = "asleep"
    BY <1>2, <1>9
       DEF CountProcessing, Finish, Leave, MonitorSleeps, Goto, IInv, Typed, TypeOK,
       Coroutines
  <2> QED
    BY <1>3, <1>4, <2>1, <2>2
<1>10. CASE NoteBatch("M")
  BY <1>3, <1>10 DEF NoteBatch, PassRecent
<1>11. CASE ReadRunning
  <2>1. pc["M"] = "asleep" /\ pc'["M"] = "check" /\ UNCHANGED <<nap, inProg, lock>>
    BY <1>11 DEF ReadRunning, Goto, Running, memory, IInv, Typed, TypeOK, Coroutines
  <2> QED
    BY <1>1, <1>4, <1>5, <2>1 DEF Scheduling
<1>12. CASE Check
  <2>1. /\ pc["M"] = "check" /\ lock' = lock /\ inProg' \in {inProg, None}
        /\ \/ pc'["M"] = "askQueued" /\ ask' \in {"stale", "idle"} /\ nap' = nap
           \/ pc'["M"] = "asleep" /\ nap' = Sweep /\ inProg \in 0 .. BatchTimeout
    BY <1>12
       DEF Check, AskPending, Leave, MonitorSleeps, Goto, IInv, Typed, TypeOK, Coroutines
  <2>2. ASSUME nap' = Sweep, inProg \in 0 .. BatchTimeout
        PROVE  act + nap' <= Lost + Gap
    <3>1. inProg \in Nat /\ inProg <= BatchTimeout /\ act <= inProg + Lost
      BY <2>2, TimesAssumption DEF PassRecent
    <3> QED
      BY <2>2, <3>1, Times
  <2> QED
    BY <1>1, <1>4, <1>5, <2>1, <2>2 DEF Scheduling
<1>13. CASE AskQueued
  <2>1. CASE ~SomeDue
    BY <1>4, <1>13, <2>1 DEF AskQueued, Goto, memory, IInv, Typed, TypeOK, Coroutines
  <2>2. CASE SomeDue /\ ~(ask = "stale" \/ (ask = "idle" /\ window))
    <3>1. Late
      BY <1>13, <2>2 DEF AskQueued, Late, Plain, Undisturbed, IInv, Typed, TypeOK
    <3> QED
      BY <1>3, <2>2, <3>1 DEF DueRecent
  <2>3. CASE SomeDue /\ Enter("M")
    <3>1. inProg' = inProg /\ pc["M"] = "askQueued"
      BY <1>13, <2>3 DEF AskQueued, Enter
    <3>2. CASE Goto("M", "reading") /\ UNCHANGED <<act, monitor>>
      BY <1>6, <3>1, <3>2 DEF Goto, monitor, IInv, Typed, TypeOK, Coroutines
    <3>3. CASE lock \in {"new", "old"} /\ Leave("M") /\ UNCHANGED lock
      <4>1. pc'["M"] = "asleep" /\ nap' = Sweep /\ lock' = lock
        BY <3>3 DEF Leave, MonitorSleeps, Goto, IInv, Typed, TypeOK, Coroutines
      <4>2. act <= Lost \/ act <= Lost + RetryDelay
        BY <2>3, <3>1, <3>3 DEF DueRecent, Scheduling
      <4>3. act + nap' <= Lost + Gap
        BY <4>1, <4>2, Times
      <4> QED
        BY <1>5, <2>3, <3>1, <4>1, <4>3 DEF Scheduling
    <3> QED
      BY <2>3, <3>2, <3>3 DEF Enter
  <2> QED
    BY <1>13, <2>1, <2>2, <2>3 DEF AskQueued, WorkFound
<1>14. CASE AskProcessing
  <2>1. SomeDue => act <= Lost
    BY <1>14 DEF AskProcessing, DueRecent, Late
  <2>2. inProg' = inProg /\ pc'["M"] \notin {"note", "enqueue"}
    BY <1>2, <1>14 DEF AskProcessing, NoWorkFound, AskPending, Leave, MonitorSleeps, Goto,
       memory, IInv, Typed, TypeOK, Coroutines
  <2> QED
    BY <1>3, <1>4, <2>1, <2>2
<1> QED
  BY <1>7, <1>8, <1>9, <1>10, <1>11, <1>12, <1>13, <1>14

\* A tick does not make what is due older than the last sweep allows.
LEMMA TickStays ==
  ASSUME IInv, IInv', Plain, CalmStep, Tick, RetriesRecent, DueRecent, PassRecent
  PROVE  DueRecent' /\ PassRecent'
<1>1. /\ pc["L"] = "idle" /\ pc["M"] = "asleep" /\ nap > 0 /\ nap' = nap - 1
      /\ "old" \notin timers /\ lock' = IF lock = "new" THEN "old" ELSE lock
      /\ run' = run /\ wait' = [c \in Contacts |-> IF wait[c] > 0 THEN wait[c] - 1 ELSE wait[c]]
      /\ pc' = pc /\ wait \in [Contacts -> Nat]
  BY DEF Tick, Quiet, Less, Plain, Alive, IInv, Typed, TypeOK
<1>2. act' <= act + 1 /\ act \in Int /\ act' \in Int
  BY TimesAssumption DEF Tick, Older, IInv, Typed, TypeOK, None
<1>3. lock # "old"
  BY <1>1 DEF Plain, Locked
<1>4. ASSUME SomeDue'
      PROVE  /\ act' + nap' <= Lost' + Gap
             /\ lock' = "old" => act' <= Lost' + RetryDelay
  <2>1. CASE SomeDue
    <3>1. act + nap <= Lost + Gap /\ (lock = "new" => act <= Lost)
      BY <1>1, <2>1 DEF DueRecent, Scheduling
    <3> QED
      BY <1>1, <1>2, <1>3, <3>1, Times
  <2>2. CASE ~SomeDue
    <3>1. PICK c \in Contacts : run[c] = "queued" /\ wait'[c] = 0 /\ wait[c] > 0
      BY <1>1, <1>4, <2>2 DEF SomeDue, Due
    <3>2. wait[c] \in Nat /\ act + wait[c] <= RetryDelay
      BY <1>1, <3>1 DEF RetriesRecent
    <3>3. act' <= RetryDelay
      BY <1>2, <3>1, <3>2, Times
    <3> QED
      BY <1>2, <3>3, Times
  <2> QED
    BY <2>1, <2>2
<1>5. DueRecent'
  BY <1>1, <1>3, <1>4 DEF DueRecent, Late
<1>6. ASSUME inProg' \in 0 .. BatchTimeout
      PROVE  act' <= inProg' + Lost'
  <2>1. /\ inProg \in Nat /\ inProg' = inProg + 1 /\ inProg <= BatchTimeout
    <3>1. /\ inProg' = IF inProg # None /\ inProg < BatchTimeout + 1 THEN inProg + 1 ELSE inProg
          /\ BatchTimeout \in Nat /\ inProg \in {None} \cup 0 .. (BatchTimeout + 1)
      BY TimesAssumption DEF Tick, Older, IInv, Typed, TypeOK
    <3>2. inProg' >= 0 /\ inProg' <= BatchTimeout
      BY <1>6, <3>1
    <3> QED
      BY <3>1, <3>2 DEF None
  <2>2. act <= inProg + Lost
    BY <2>1, TimesAssumption DEF PassRecent
  <2> QED
    BY <1>2, <2>1, <2>2, Times
<1>7. PassRecent'
  BY <1>1, <1>6 DEF PassRecent
<1> QED
  BY <1>5, <1>7

\* The activity stays recent enough while nobody is at work, in every step.
LEMMA IdlingStep ==
  ASSUME IInv, IInv', Plain, CalmStep, ~Orphaned, Running, Running', BusyRecent,
         RetriesRecent, Idling => DueRecent /\ PassRecent, Idling'
  PROVE  DueRecent' /\ PassRecent'
<1>1. CASE ~Idling
  BY <1>1, IdlingBegins, NotedIsRecent
<1>2. CASE Idling
  <2>1. Busy = {} /\ Busy' = {} /\ pc["L"] \notin Scheduling \cup {"reread"}
        /\ ~OnItsWay({"sync", "completed", "failed"})
    BY <1>2 DEF Idling, Refreshing
  <2>2. CASE Tick
    BY <1>2, <2>2, TickStays
  <2>3. CASE \/ ReadCampaign("M") \/ CountQueued("M") \/ CountProcessing("M") \/ NoteBatch("M")
             \/ ReadRunning \/ Check \/ AskQueued \/ AskProcessing
    BY <1>2, <2>3, MonitorStays
  <2>4. CASE HandleRetry \/ GiveUp \/ InsertRetry \/ ReleaseLock \/ UNCHANGED vars
             \/ \E c \in Contacts : CallEnds(c)
    <3>1. /\ UNCHANGED <<act, nap, ask>> /\ pc'["M"] = pc["M"]
          /\ lock' \in {lock, "free"} /\ inProg' \in {inProg, None}
      BY <2>4
         DEF HandleRetry, GiveUp, InsertRetry, ReleaseLock, CallEnds, Goto, vars, monitor,
         memory, IInv, Typed, TypeOK, Coroutines
    <3>2. SomeDue' => SomeDue
      <4>1. CASE InsertRetry
        BY <4>1, TimesAssumption, RetryOfSettled
           DEF InsertRetry, SomeDue, Due, IInv, Typed, TypeOK
      <4>2. CASE \E c \in Contacts : CallEnds(c)
        BY <4>2 DEF CallEnds, SomeDue, Due, IInv, Typed, TypeOK
      <4>3. CASE HandleRetry \/ GiveUp \/ ReleaseLock \/ UNCHANGED vars
        BY <4>3 DEF HandleRetry, GiveUp, ReleaseLock, vars, rows, SomeDue, Due
      <4> QED
        BY <2>4, <4>1, <4>2, <4>3
    <3> QED
      BY <1>2, <3>1, <3>2, StaysRecent
  <2>5. CASE RetryInserted
    BY <2>5, Times, NotedIsRecent DEF RetryInserted
  <2>6. ~(HandleSync \/ HandleCompleted \/ Reread \/ HandleFailed \/ Complete \/ Completed)
    <3>1. ~(HandleSync \/ HandleCompleted \/ HandleFailed)
      BY <2>1, ReceivedWay DEF HandleSync, HandleCompleted, HandleFailed, IInv
    <3> QED
      BY <2>1, <3>1 DEF Reread, Complete, Completed, Running, Plain, Undisturbed
  <2>7. \A p \in Coroutines : ~Enqueue(p)
    BY <2>1 DEF Enqueue, Busy, IInv, Typed, TypeOK
  <2>8. ~(ReadCampaign("L") \/ CountQueued("L") \/ CountProcessing("L") \/ NoteBatch("L"))
    BY <2>1 DEF ReadCampaign, CountQueued, CountProcessing, NoteBatch, Scheduling
  <2>9. \A j \in Jobs : ~(\/ JobStarts(j) \/ (\E c \in Contacts : JobDials(j, c))
                           \/ JobCompletes(j) \/ JobRetriesLater(j) \/ JobFails(j)
                           \/ FailCampaign(j) \/ JobCancelled(j) \/ JobDies(j))
    BY <2>1 DEF Busy, JobStarts, JobDials, JobCompletes, JobRetriesLater, JobFails,
       FailCampaign, JobCancelled, JobDies, ReturnClaims
  <2> QED
    BY <2>2, <2>3, <2>4, <2>5, <2>6, <2>7, <2>8, <2>9 DEF CalmStep, Coroutines
<1> QED
  BY <1>1, <1>2

\* The activity is recent while batches are at work.
LEMMA BusyStep ==
  ASSUME IInv, IInv', Plain, CalmStep, Running, Running', BusyRecent,
         Idling => PassRecent
  PROVE  BusyRecent'
<1> SUFFICES ASSUME Busy' # {}, ~Refreshing'
             PROVE  \E j \in Busy' : act' <= Lost' + Gap + age'[j]
  BY DEF BusyRecent
<1>1. \A j \in Busy' : j \in Jobs /\ age'[j] \in Nat
  BY Amounts DEF Busy
<1>2. ASSUME act' <= Lost' + Gap
      PROVE  \E j \in Busy' : act' <= Lost' + Gap + age'[j]
  BY <1>1, <1>2, Amounts
<1>3. CASE Refreshing
  <2>1. act' = 0
    BY <1>3, Refreshed
  <2> QED
    BY <1>2, <2>1, Amounts
<1>4. CASE ~Refreshing /\ Tick
  <2>1. Busy' = Busy
    BY <1>4, TickTimes DEF Busy
  <2>2. PICK j \in Busy : act <= Lost + Gap + age[j]
    BY <1>4, <2>1 DEF BusyRecent
  <2>3. j \in Jobs /\ act' <= act + 1 /\ age'[j] = age[j] + 1
    BY <1>4, TickTimes DEF Busy
  <2>4. age[j] \in Nat
    BY <2>3, Amounts
  <2>5. act' <= Lost' + Gap + age'[j]
    BY <2>2, <2>3, <2>4, Amounts
  <2> QED
    BY <2>1, <2>5
<1>5. CASE ~Refreshing /\ ~Tick
  <2>1. CASE act' \in {0, None}
    BY <1>2, <2>1, Amounts DEF None
  <2>2. CASE Busy = {} /\ act' = act
    <3>1. PICK p \in Coroutines : Enqueue(p)
      BY <2>2, BusyGrows
    <3>2. pc["M"] = "enqueue"
      BY <1>5, <3>1 DEF Enqueue, Refreshing, Coroutines, Scheduling
    <3>3. act <= Lost + Gap
      BY <1>5, <2>2, <3>2 DEF PassRecent, Idling
    <3> QED
      BY <1>2, <2>2, <3>3, Amounts
  <2>3. CASE Busy # {} /\ act' = act
    <3>1. PICK j \in Busy : act <= Lost + Gap + age[j]
      BY <1>5, <2>3 DEF BusyRecent
    <3>2. j \in Jobs /\ age[j] \in Nat /\ age[j] <= JobTime
      BY Amounts DEF Busy
    <3>3. CASE j \in Busy'
      <4>1. age'[j] = age[j]
        BY <1>5, <3>3, AgeSteps
      <4> QED
        BY <2>3, <3>1, <3>2, <3>3, <4>1, Amounts
    <3>4. CASE j \notin Busy'
      <4>1. PICK i \in Jobs : JobCancelled(i) \/ JobDies(i)
        BY <3>4, BusyShrinks
      <4>2. Lost' = Lost + Round
        BY <4>1, LostAdded DEF JobCancelled, JobDies, Trouble, IInv
      <4>3. act' <= Lost' + Gap
        BY <2>3, <3>1, <3>2, <4>2, Amounts
      <4> QED
        BY <1>2, <4>3
    <3> QED
      BY <3>3, <3>4
  <2> QED
    BY <1>5, <2>1, <2>2, <2>3, ActSteps
<1> QED
  BY <1>3, <1>4, <1>5

\* And while calls are in flight.
LEMMA CallsStep ==
  ASSUME IInv, IInv', Plain, Plain', CalmStep, Running, BusyRecent, CallsRecent
  PROVE  CallsRecent'
<1> SUFFICES ASSUME NEW c \in Contacts, run'[c] = "called", ~Refreshing'
             PROVE  act' + wait'[c] <= Lost' + Round + CallTime
  BY DEF CallsRecent
<1>1. wait[c] \in Nat /\ wait'[c] \in Nat /\ wait'[c] <= CallTime
  BY Amounts DEF Plain, Waits
<1>2. ASSUME act' <= Lost' + Round
      PROVE  act' + wait'[c] <= Lost' + Round + CallTime
  BY <1>1, <1>2, Amounts
<1>3. CASE Refreshing
  <2>1. act' = 0
    BY <1>3, Refreshed
  <2> QED
    BY <1>2, <2>1, Amounts
<1>4. CASE ~Refreshing /\ Tick
  <2>1. run[c] = "called" /\ wait'[c] = wait[c] - 1 /\ act' <= act + 1
    BY <1>4, TickTimes
  <2>2. act + wait[c] <= Lost + Round + CallTime
    BY <1>4, <2>1 DEF CallsRecent
  <2> QED
    BY <1>1, <2>1, <2>2, Amounts
<1>5. CASE ~Refreshing /\ ~Tick
  <2>1. CASE act' \in {0, None}
    BY <1>2, <2>1, Amounts DEF None
  <2>2. CASE act' = act /\ run'[c] = run[c] /\ wait'[c] = wait[c]
    <3>1. act + wait[c] <= Lost + Round + CallTime
      BY <1>5, <2>2 DEF CallsRecent
    <3> QED
      BY <1>1, <2>2, <3>1, Amounts
  <2>3. CASE act' = act /\ \E j \in Jobs : JobDials(j, c)
    <3>1. Busy # {}
      BY <2>3 DEF JobDials, Busy
    <3>2. PICK i \in Busy : act <= Lost + Gap + age[i]
      BY <1>5, <3>1 DEF BusyRecent
    <3>3. age[i] \in Nat /\ age[i] <= JobTime
      BY Amounts DEF Busy
    <3> QED
      BY <1>2, <2>3, <3>2, <3>3, Amounts
  <2>4. ~InsertRetry \/ event[1] # c
    BY RetryOfSettled DEF InsertRetry, IInv, Typed, TypeOK
  <2> QED
    BY <1>5, <2>1, <2>2, <2>3, <2>4, ActSteps, RunSteps DEF RunStep
<1> QED
  BY <1>3, <1>4, <1>5

\* And while retries wait to be due.
LEMMA RetriesStep ==
  ASSUME IInv, IInv', Plain, Plain', CalmStep, RetriesRecent
  PROVE  RetriesRecent'
<1> SUFFICES ASSUME NEW c \in Contacts, run'[c] = "queued", wait'[c] > 0,
                    ~(pc'["L"] = "inserted" /\ event'[1] = c)
             PROVE  act' + wait'[c] <= RetryDelay
  BY DEF RetriesRecent
<1>1. wait[c] \in Nat /\ wait'[c] \in Nat /\ wait'[c] <= RetryDelay
  BY Amounts DEF Plain, Waits
<1>2. CASE Tick
  <2>1. run[c] = "queued" /\ wait[c] > 0 /\ wait'[c] = wait[c] - 1 /\ act' <= act + 1
        /\ pc["L"] = "idle"
    BY <1>1, <1>2, TickTimes
  <2>2. act + wait[c] <= RetryDelay
    BY <2>1 DEF RetriesRecent
  <2> QED
    BY <1>1, <2>1, <2>2, Amounts
<1>3. CASE ~Tick
  <2>1. CASE act' \in {0, None}
    BY <1>1, <2>1, Amounts DEF None
  <2>2. CASE act' = act /\ run'[c] = run[c] /\ wait'[c] = wait[c]
    <3>1. pc["L"] = "inserted" => act' = 0 \/ (pc'["L"] = "inserted" /\ event' = event)
      BY <1>3, InsertedSteps
    <3>2. CASE act' = 0
      BY <1>1, <3>2, Amounts
    <3>3. CASE ~(pc["L"] = "inserted" /\ event[1] = c)
      BY <2>2, <3>3 DEF RetriesRecent
    <3> QED
      BY <3>1, <3>2, <3>3
  <2>3. ~(InsertRetry /\ event[1] = c)
    BY DEF InsertRetry, Goto, IInv, Typed, TypeOK, Coroutines
  <2> QED
    BY <1>1, <1>3, <2>1, <2>2, <2>3, ActSteps, RunSteps DEF RunStep
<1> QED
  BY <1>2, <1>3

---------------------------------------------------------------------------
(* The copy the sweep has made, and the bound.                             *)

\* A sweep goes on, or begins with a copy of the campaign.
LEMMA SweepSteps ==
  ASSUME IInv, Plain, CalmStep, Sweeping'
  PROVE  (Sweeping /\ seen' = seen) \/ (Running /\ seen' = docAge /\ act' = act /\ ~Tick)
<1>1. ASSUME NEW p \in Coroutines,
             ReadCampaign(p) \/ CountQueued(p) \/ CountProcessing(p) \/ Enqueue(p) \/
             NoteBatch(p)
      PROVE  (Sweeping /\ seen' = seen) \/ (Running /\ seen' = docAge /\ act' = act /\ ~Tick)
  BY <1>1
     DEF ReadCampaign, CountQueued, CountProcessing, Enqueue, NoteBatch, Finish, Leave,
        MonitorSleeps, Goto, campaign, rows, worker, monitor, memory, env, IInv, Typed,
        TypeOK, Plain, Alive, Sweeping, Running, Coroutines, Scheduling
<1>2. CASE HandleSync \/ HandleCompleted \/ Reread \/ HandleFailed \/ HandleRetry \/
           GiveUp \/ InsertRetry \/ RetryInserted
  BY <1>2
     DEF HandleSync, HandleCompleted, Reread, HandleFailed, HandleRetry, GiveUp,
        InsertRetry, RetryInserted, Receive, Enter, Leave, Goto, campaign, rows, worker,
        env, monitor, ClearCampaign, memory, IInv, Typed, TypeOK, Plain, Alive,
        Sweeping, Running, Coroutines, Scheduling
<1>3. CASE ReadRunning \/ Check \/ AskQueued \/ AskProcessing \/ Complete \/ Completed
  BY <1>3
     DEF ReadRunning, Check, AskQueued, AskProcessing, Complete, Completed, Goto,
        campaign, rows, worker, memory, env, AskPending, Leave, MonitorSleeps,
        WorkFound, Enter, monitor, NoWorkFound, ClearCampaign, IInv, Typed, TypeOK,
        Plain, Alive, Sweeping, Running, Coroutines, Scheduling, Tick, Quiet
<1>4. CASE ReleaseLock \/ Tick \/ UNCHANGED vars
  BY <1>4
     DEF ReleaseLock, Tick, campaign, rows, worker, monitor, env, Quiet, Less, Older,
        vars, memory, IInv, Typed, TypeOK, Plain, Alive, Sweeping, Running, Coroutines,
        Scheduling
<1>5. ASSUME NEW j \in Jobs,
             JobStarts(j) \/ JobCompletes(j) \/ JobRetriesLater(j) \/ JobFails(j) \/
             FailCampaign(j) \/ JobCancelled(j) \/ JobDies(j)
      PROVE  (Sweeping /\ seen' = seen) \/ (Running /\ seen' = docAge /\ act' = act /\ ~Tick)
  BY <1>5
     DEF JobStarts, JobCompletes, JobRetriesLater, JobFails, FailCampaign, JobCancelled,
        JobDies, Due, campaign, monitor, memory, env, Ends, rows, ReturnClaims, Trouble,
        IInv, Typed, TypeOK, Plain, Alive, Sweeping, Running, Coroutines, Scheduling
<1>6. ASSUME NEW j \in Jobs, NEW c \in Contacts, JobDials(j, c)
      PROVE  (Sweeping /\ seen' = seen) \/ (Running /\ seen' = docAge /\ act' = act /\ ~Tick)
  BY <1>6
     DEF JobDials, campaign, monitor, memory, env, IInv, Typed, TypeOK, Plain, Alive,
        Sweeping, Running, Coroutines, Scheduling
<1>7. ASSUME NEW c \in Contacts, CallEnds(c)
      PROVE  (Sweeping /\ seen' = seen) \/ (Running /\ seen' = docAge /\ act' = act /\ ~Tick)
  BY <1>7
     DEF CallEnds, campaign, worker, monitor, memory, env, IInv, Typed, TypeOK, Plain,
        Alive, Sweeping, Running, Coroutines, Scheduling
<1> QED
  BY <1>1, <1>2, <1>3, <1>4, <1>5, <1>6, <1>7 DEF CalmStep

\* Activity is forgotten by a campaign that has ended.
LEMMA ForgetSteps ==
  ASSUME IInv, Plain, CalmStep, act' = None
  PROVE  act = None \/ (~Running /\ (Refreshing \/ ~Sweeping'))
<1>1. ASSUME NEW p \in Coroutines,
             ReadCampaign(p) \/ CountQueued(p)
      PROVE  act = None \/ (~Running /\ (Refreshing \/ ~Sweeping'))
  BY <1>1
     DEF ReadCampaign, CountQueued, Finish, Leave, MonitorSleeps, Goto, campaign, rows,
        worker, monitor, memory, env, IInv, Typed, TypeOK, Plain, Undisturbed,
        Refreshing, Sweeping, Running, Coroutines, Scheduling, None
<1>2. ASSUME NEW p \in Coroutines, CountProcessing(p)
      PROVE  act = None \/ (~Running /\ (Refreshing \/ ~Sweeping'))
  BY <1>2
     DEF CountProcessing, Finish, Leave, MonitorSleeps, Goto, campaign, rows, worker,
        monitor, memory, env, IInv, Typed, TypeOK, Plain, Undisturbed, Refreshing,
        Sweeping, Running, Coroutines, Scheduling, None
<1>3. ASSUME NEW p \in Coroutines, Enqueue(p)
      PROVE  act = None \/ (~Running /\ (Refreshing \/ ~Sweeping'))
  BY <1>3
     DEF Enqueue, Goto, campaign, rows, monitor, memory, env, IInv, Typed, TypeOK,
        Plain, Undisturbed, Refreshing, Sweeping, Running, Coroutines, Scheduling, None
<1>4. ASSUME NEW p \in Coroutines, NoteBatch(p)
      PROVE  act = None \/ (~Running /\ (Refreshing \/ ~Sweeping'))
  BY <1>4
     DEF NoteBatch, Leave, MonitorSleeps, Goto, rows, worker, monitor, env, IInv, Typed,
        TypeOK, Plain, Undisturbed, Refreshing, Sweeping, Running, Coroutines,
        Scheduling, None
<1>5. CASE HandleSync
  BY <1>5
     DEF HandleSync, Receive, Enter, Leave, Goto, campaign, rows, worker, env, monitor,
        IInv, Typed, TypeOK, Plain, Undisturbed, Refreshing, Sweeping, Running,
        Coroutines, Scheduling, None
<1>6. CASE HandleCompleted
  BY <1>6
     DEF HandleCompleted, Receive, Goto, campaign, rows, worker, monitor, env, IInv,
        Typed, TypeOK, Plain, Undisturbed, Refreshing, Sweeping, Running, Coroutines,
        Scheduling, None
<1>7. CASE Reread \/ HandleFailed
  BY <1>7
     DEF Reread, HandleFailed, Enter, Leave, ClearCampaign, Goto, campaign, rows,
        worker, monitor, env, Receive, IInv, Typed, TypeOK, Plain, Undisturbed,
        Refreshing, Sweeping, Running, Coroutines, Scheduling, None
<1>8. CASE HandleRetry \/ GiveUp
  BY <1>8
     DEF HandleRetry, GiveUp, Receive, Goto, campaign, rows, worker, monitor, memory,
        env, IInv, Typed, TypeOK, Plain, Undisturbed, Refreshing, Sweeping, Running,
        Coroutines, Scheduling, None
<1>9. CASE InsertRetry \/ RetryInserted
  BY <1>9
     DEF InsertRetry, RetryInserted, Goto, campaign, worker, monitor, memory, env, rows,
        IInv, Typed, TypeOK, Plain, Undisturbed, Refreshing, Sweeping, Running,
        Coroutines, Scheduling, None
<1>10. CASE ReadRunning \/ Check \/ AskQueued \/ AskProcessing \/ Complete \/ Completed
  BY <1>10
     DEF ReadRunning, Check, AskQueued, AskProcessing, Complete, Completed, Goto,
        campaign, rows, worker, memory, env, AskPending, Leave, MonitorSleeps,
        WorkFound, Enter, monitor, NoWorkFound, ClearCampaign, IInv, Typed, TypeOK,
        Plain, Undisturbed, Refreshing, Sweeping, Running, Coroutines, Scheduling, None
<1>11. CASE ReleaseLock
  BY <1>11
     DEF ReleaseLock, campaign, rows, worker, monitor, env, IInv, Typed, TypeOK, Plain,
        Undisturbed, Refreshing, Sweeping, Running, Coroutines, Scheduling, None
<1>12. CASE Tick
  BY <1>12, TimesAssumption
     DEF Tick, Quiet, Less, Older, env, IInv, Typed, TypeOK, Plain, Undisturbed,
        Refreshing, Sweeping, Running, Coroutines, Scheduling, None
<1>13. CASE UNCHANGED vars
  BY <1>13
     DEF vars, campaign, rows, worker, monitor, memory, env, IInv, Typed, TypeOK, Plain,
        Undisturbed, Refreshing, Sweeping, Running, Coroutines, Scheduling, None
<1>14. ASSUME NEW j \in Jobs,
             JobStarts(j) \/ JobCompletes(j) \/ JobRetriesLater(j) \/ JobFails(j) \/
             FailCampaign(j) \/ JobCancelled(j) \/ JobDies(j)
      PROVE  act = None \/ (~Running /\ (Refreshing \/ ~Sweeping'))
  BY <1>14
     DEF JobStarts, JobCompletes, JobRetriesLater, JobFails, FailCampaign, JobCancelled,
        JobDies, Due, campaign, monitor, memory, env, Ends, rows, ReturnClaims, Trouble,
        IInv, Typed, TypeOK, Plain, Undisturbed, Refreshing, Sweeping, Running,
        Coroutines, Scheduling, None
<1>15. ASSUME NEW j \in Jobs, NEW c \in Contacts, JobDials(j, c)
      PROVE  act = None \/ (~Running /\ (Refreshing \/ ~Sweeping'))
  BY <1>15
     DEF JobDials, campaign, monitor, memory, env, IInv, Typed, TypeOK, Plain,
        Undisturbed, Refreshing, Sweeping, Running, Coroutines, Scheduling, None
<1>16. ASSUME NEW c \in Contacts, CallEnds(c)
      PROVE  act = None \/ (~Running /\ (Refreshing \/ ~Sweeping'))
  BY <1>16
     DEF CallEnds, campaign, worker, monitor, memory, env, IInv, Typed, TypeOK, Plain,
        Undisturbed, Refreshing, Sweeping, Running, Coroutines, Scheduling, None
<1> QED
  BY <1>1, <1>2, <1>3, <1>4, <1>5, <1>6, <1>7, <1>8, <1>9, <1>10, <1>11, <1>12, <1>13,
     <1>14, <1>15, <1>16 DEF CalmStep

\* A campaign ends by a failing batch or the monitor.
LEMMA EndSteps ==
  ASSUME IInv, Plain, CalmStep, Running
  PROVE  Running' \/ Busy # {} \/ pc["M"] = "completing"
<1>1. ASSUME NEW p \in Coroutines,
             ReadCampaign(p) \/ CountQueued(p) \/ CountProcessing(p) \/ Enqueue(p) \/
             NoteBatch(p)
      PROVE  Running' \/ Busy # {} \/ pc["M"] = "completing"
  BY <1>1
     DEF ReadCampaign, CountQueued, CountProcessing, Enqueue, NoteBatch, Finish, Leave,
        MonitorSleeps, Goto, campaign, rows, worker, monitor, memory, env, IInv, Typed,
        TypeOK, Plain, Undisturbed, Running, Busy
<1>2. CASE HandleSync \/ HandleCompleted \/ Reread \/ HandleFailed \/ HandleRetry \/
           GiveUp \/ InsertRetry \/ RetryInserted
  BY <1>2
     DEF HandleSync, HandleCompleted, Reread, HandleFailed, HandleRetry, GiveUp,
        InsertRetry, RetryInserted, Receive, Enter, Leave, Goto, campaign, rows, worker,
        env, monitor, ClearCampaign, memory, IInv, Typed, TypeOK, Plain, Undisturbed,
        Running, Busy
<1>3. CASE ReadRunning \/ Check \/ AskQueued \/ AskProcessing \/ Complete \/ Completed
  BY <1>3
     DEF ReadRunning, Check, AskQueued, AskProcessing, Complete, Completed, Goto,
        campaign, rows, worker, memory, env, AskPending, Leave, MonitorSleeps,
        WorkFound, Enter, monitor, NoWorkFound, ClearCampaign, IInv, Typed, TypeOK,
        Plain, Undisturbed, Running, Busy
<1>4. CASE ReleaseLock \/ Tick \/ UNCHANGED vars
  BY <1>4
     DEF ReleaseLock, Tick, campaign, rows, worker, monitor, env, Quiet, Less, Older,
        vars, memory, IInv, Typed, TypeOK, Plain, Undisturbed, Running, Busy
<1>5. ASSUME NEW j \in Jobs,
             JobStarts(j) \/ JobCompletes(j) \/ JobRetriesLater(j) \/ JobFails(j) \/
             FailCampaign(j) \/ JobCancelled(j) \/ JobDies(j)
      PROVE  Running' \/ Busy # {} \/ pc["M"] = "completing"
  BY <1>5
     DEF JobStarts, JobCompletes, JobRetriesLater, JobFails, FailCampaign, JobCancelled,
        JobDies, Due, campaign, monitor, memory, env, Ends, rows, ReturnClaims, Trouble,
        IInv, Typed, TypeOK, Plain, Undisturbed, Running, Busy
<1>6. ASSUME NEW j \in Jobs, NEW c \in Contacts, JobDials(j, c)
      PROVE  Running' \/ Busy # {} \/ pc["M"] = "completing"
  BY <1>6
     DEF JobDials, campaign, monitor, memory, env, IInv, Typed, TypeOK, Plain,
        Undisturbed, Running, Busy
<1>7. ASSUME NEW c \in Contacts, CallEnds(c)
      PROVE  Running' \/ Busy # {} \/ pc["M"] = "completing"
  BY <1>7
     DEF CallEnds, campaign, worker, monitor, memory, env, IInv, Typed, TypeOK, Plain,
        Undisturbed, Running, Busy
<1> QED
  BY <1>1, <1>2, <1>3, <1>4, <1>5, <1>6, <1>7 DEF CalmStep

\* The document is stamped when a batch has been enqueued.
LEMMA StampSteps ==
  ASSUME IInv, Plain, CalmStep
  PROVE  \/ docAge' = 0 \/ Tick
         \/ docAge' = docAge /\ \A q \in Coroutines : pc[q] = "note" => pc'[q] = "note"
<1>1. ASSUME NEW p \in Coroutines,
             ReadCampaign(p) \/ CountQueued(p) \/ CountProcessing(p) \/ Enqueue(p) \/
             NoteBatch(p)
      PROVE  \/ docAge' = 0 \/ Tick
             \/ docAge' = docAge /\ \A q \in Coroutines : pc[q] = "note" => pc'[q] = "note"
  BY <1>1
     DEF ReadCampaign, CountQueued, CountProcessing, Enqueue, NoteBatch, Finish, Leave,
        MonitorSleeps, Goto, campaign, rows, worker, monitor, memory, env, IInv, Typed,
        TypeOK, Plain, Alive, Coroutines, Scheduling
<1>2. CASE HandleSync \/ HandleCompleted \/ Reread \/ HandleFailed \/ HandleRetry \/
           GiveUp \/ InsertRetry \/ RetryInserted
  BY <1>2
     DEF HandleSync, HandleCompleted, Reread, HandleFailed, HandleRetry, GiveUp,
        InsertRetry, RetryInserted, Receive, Enter, Leave, Goto, campaign, rows, worker,
        env, monitor, ClearCampaign, memory, IInv, Typed, TypeOK, Plain, Alive,
        Coroutines, Scheduling
<1>3. CASE ReadRunning \/ Check \/ AskQueued \/ AskProcessing \/ Complete \/ Completed
  BY <1>3
     DEF ReadRunning, Check, AskQueued, AskProcessing, Complete, Completed, Goto,
        campaign, rows, worker, memory, env, AskPending, Leave, MonitorSleeps,
        WorkFound, Enter, monitor, NoWorkFound, ClearCampaign, IInv, Typed, TypeOK,
        Plain, Alive, Coroutines, Scheduling
<1>4. CASE ReleaseLock \/ UNCHANGED vars
  BY <1>4
     DEF ReleaseLock, campaign, rows, worker, monitor, env, vars, memory, IInv, Typed,
        TypeOK, Plain, Alive, Coroutines, Scheduling
<1>5. CASE Tick
  BY <1>5
<1>6. ASSUME NEW j \in Jobs,
             JobStarts(j) \/ JobCompletes(j) \/ JobRetriesLater(j) \/ JobFails(j) \/
             FailCampaign(j) \/ JobCancelled(j) \/ JobDies(j)
      PROVE  \/ docAge' = 0 \/ Tick
             \/ docAge' = docAge /\ \A q \in Coroutines : pc[q] = "note" => pc'[q] = "note"
  BY <1>6
     DEF JobStarts, JobCompletes, JobRetriesLater, JobFails, FailCampaign, JobCancelled,
        JobDies, Due, campaign, monitor, memory, env, Ends, rows, ReturnClaims, Trouble,
        IInv, Typed, TypeOK, Plain, Alive, Coroutines, Scheduling
<1>7. ASSUME NEW j \in Jobs, NEW c \in Contacts, JobDials(j, c)
      PROVE  \/ docAge' = 0 \/ Tick
             \/ docAge' = docAge /\ \A q \in Coroutines : pc[q] = "note" => pc'[q] = "note"
  BY <1>7
     DEF JobDials, campaign, monitor, memory, env, IInv, Typed, TypeOK, Plain, Alive,
        Coroutines, Scheduling
<1>8. ASSUME NEW c \in Contacts, CallEnds(c)
      PROVE  \/ docAge' = 0 \/ Tick
             \/ docAge' = docAge /\ \A q \in Coroutines : pc[q] = "note" => pc'[q] = "note"
  BY <1>8
     DEF CallEnds, campaign, worker, monitor, memory, env, IInv, Typed, TypeOK, Plain,
        Alive, Coroutines, Scheduling
<1> QED
  BY <1>1, <1>2, <1>3, <1>4, <1>5, <1>6, <1>7, <1>8 DEF CalmStep

\* A sweep does not begin where a batch has been enqueued.
LEMMA NoteSleeps ==
  ASSUME IInv, Plain, CalmStep, Sweeping'
  PROVE  Sweeping \/ pc["M"] = "asleep"
<1>1. ASSUME NEW p \in Coroutines,
             ReadCampaign(p) \/ CountQueued(p) \/ CountProcessing(p) \/ Enqueue(p) \/
             NoteBatch(p)
      PROVE  Sweeping \/ pc["M"] = "asleep"
  BY <1>1
     DEF ReadCampaign, CountQueued, CountProcessing, Enqueue, NoteBatch, Finish, Leave,
        MonitorSleeps, Goto, campaign, rows, worker, monitor, memory, env, IInv, Typed,
        TypeOK, Plain, Alive, Sweeping, Coroutines, Scheduling
<1>2. CASE HandleSync \/ HandleCompleted \/ Reread \/ HandleFailed \/ HandleRetry \/
           GiveUp \/ InsertRetry \/ RetryInserted
  BY <1>2
     DEF HandleSync, HandleCompleted, Reread, HandleFailed, HandleRetry, GiveUp,
        InsertRetry, RetryInserted, Receive, Enter, Leave, Goto, campaign, rows, worker,
        env, monitor, ClearCampaign, memory, IInv, Typed, TypeOK, Plain, Alive,
        Sweeping, Coroutines, Scheduling
<1>3. CASE ReadRunning \/ Check \/ AskQueued \/ AskProcessing \/ Complete \/ Completed
  BY <1>3
     DEF ReadRunning, Check, AskQueued, AskProcessing, Complete, Completed, Goto,
        campaign, rows, worker, memory, env, AskPending, Leave, MonitorSleeps,
        WorkFound, Enter, monitor, NoWorkFound, ClearCampaign, IInv, Typed, TypeOK,
        Plain, Alive, Sweeping, Coroutines, Scheduling
<1>4. CASE ReleaseLock \/ Tick \/ UNCHANGED vars
  BY <1>4
     DEF ReleaseLock, Tick, campaign, rows, worker, monitor, env, Quiet, Less, Older,
        vars, memory, IInv, Typed, TypeOK, Plain, Alive, Sweeping, Coroutines,
        Scheduling
<1>5. ASSUME NEW j \in Jobs,
             JobStarts(j) \/ JobCompletes(j) \/ JobRetriesLater(j) \/ JobFails(j) \/
             FailCampaign(j) \/ JobCancelled(j) \/ JobDies(j)
      PROVE  Sweeping \/ pc["M"] = "asleep"
  BY <1>5
     DEF JobStarts, JobCompletes, JobRetriesLater, JobFails, FailCampaign, JobCancelled,
        JobDies, Due, campaign, monitor, memory, env, Ends, rows, ReturnClaims, Trouble,
        IInv, Typed, TypeOK, Plain, Alive, Sweeping, Coroutines, Scheduling
<1>6. ASSUME NEW j \in Jobs, NEW c \in Contacts, JobDials(j, c)
      PROVE  Sweeping \/ pc["M"] = "asleep"
  BY <1>6
     DEF JobDials, campaign, monitor, memory, env, IInv, Typed, TypeOK, Plain, Alive,
        Sweeping, Coroutines, Scheduling
<1>7. ASSUME NEW c \in Contacts, CallEnds(c)
      PROVE  Sweeping \/ pc["M"] = "asleep"
  BY <1>7
     DEF CallEnds, campaign, worker, monitor, memory, env, IInv, Typed, TypeOK, Plain,
        Alive, Sweeping, Coroutines, Scheduling
<1> QED
  BY <1>1, <1>2, <1>3, <1>4, <1>5, <1>6, <1>7 DEF CalmStep

\* Time passes when the listener and the monitor rest.
LEMMA TickRests ==
  ASSUME IInv, Plain, Tick
  PROVE  ~Refreshing /\ ~Refreshing' /\ ~Sweeping /\ ~Sweeping' /\ docAge' <= docAge + 1
<1>1. /\ pc' = pc /\ inbox' = inbox /\ pc["L"] = "idle" /\ inbox = <<>> /\ pc["M"] = "asleep"
  BY TickTimes
<1>2. docAge' <= docAge + 1
  BY TimesAssumption DEF Tick, Older, None, IInv, Typed, TypeOK
<1> QED
  BY <1>1, <1>2 DEF Refreshing, OnItsWay, Sweeping, Scheduling

\* Nobody comes to work but by a sweep.
LEMMA IdlingEnds ==
  ASSUME IInv, Plain, CalmStep, Idling, ~Idling'
  PROVE  pc["M"] = "enqueue" /\ pc'["M"] = "note"
<1>1. Busy = {} /\ ~Refreshing /\ ~Refreshing' /\ Busy' # {}
  BY RefreshComes DEF Idling
<1>2. PICK p \in Coroutines : Enqueue(p)
  BY <1>1, BusyGrows
<1>3. p = "M"
  BY <1>1, <1>2 DEF Enqueue, Refreshing, Coroutines, Scheduling
<1> QED
  BY <1>2, <1>3 DEF Enqueue, Goto, IInv, Typed, TypeOK, Coroutines

\* The copy of the campaign and the document tell of what goes on.
LEMMA StampedStep ==
  ASSUME IInv, IInv', Plain, CalmStep, Stamped, JobTime < Idle
  PROVE  Stamped'
<1>1. /\ docAge \in Nat /\ docAge' \in Nat /\ seen \in Nat /\ Idle \in Nat /\ Idle > 0
      /\ JobTime \in Nat
  BY TimesAssumption DEF IInv, Typed, TypeOK
<1>2. Sweeping' /\ act' = None => seen' < Idle
  <2> SUFFICES ASSUME Sweeping', act' = None
               PROVE  seen' < Idle
    OBVIOUS
  <2>1. CASE Sweeping /\ seen' = seen /\ act = None
    BY <2>1 DEF Stamped
  <2>2. CASE Sweeping /\ seen' = seen /\ ~Running /\ Refreshing
    BY <1>1, <2>2 DEF Stamped, Idling
  <2>3. CASE Running /\ seen' = docAge /\ act' = act
    BY <1>1, <2>3 DEF Stamped
  <2> QED
    BY <2>1, <2>2, <2>3, SweepSteps, ForgetSteps
<1>3. Sweeping' /\ seen' >= Idle => Idling' /\ Running'
  <2> SUFFICES ASSUME Sweeping', seen' >= Idle
               PROVE  Idling' /\ Running'
    OBVIOUS
  <2>1. Idling /\ Running
    <3>1. CASE Sweeping /\ seen' = seen
      BY <3>1 DEF Stamped
    <3>2. CASE Running /\ seen' = docAge
      BY <1>1, <3>2, NoteSleeps DEF Stamped, Sweeping
    <3> QED
      BY <3>1, <3>2, SweepSteps
  <2>2. Idling'
    BY <2>1, IdlingEnds DEF Sweeping
  <2>3. pc["M"] # "completing"
    BY NoteSleeps DEF Sweeping
  <2> QED
    BY <2>1, <2>2, <2>3, EndSteps DEF Idling
<1>4. Running' /\ act' = None => docAge' = 0 /\ Refreshing'
  <2> SUFFICES ASSUME Running', act' = None
               PROVE  docAge' = 0 /\ Refreshing'
    OBVIOUS
  <2>1. Running /\ act = None
    BY StaysEnded, ForgetSteps
  <2>2. docAge = 0 /\ Refreshing
    BY <2>1 DEF Stamped
  <2>3. Refreshing'
    BY <2>1, <2>2, Refreshed DEF None
  <2>4. ~Tick
    BY <2>2, TickRests
  <2> QED
    BY <2>2, <2>3, <2>4, StampSteps
<1>5. pc'["M"] # "note" /\ ~Idling' => docAge' <= JobTime
  <2> SUFFICES ASSUME pc'["M"] # "note", ~Idling'
               PROVE  docAge' <= JobTime
    OBVIOUS
  <2>1. CASE Tick
    <3>1. /\ Busy # {} /\ \A p \in Coroutines : pc[p] # "note"
      BY <2>1, TickTimes, TickRests DEF Idling, Busy, Coroutines
    <3>2. PICK j \in Busy : docAge <= age[j]
      BY <3>1 DEF Stamped
    <3>3. age[j] < JobTime /\ age[j] \in Nat /\ docAge' <= docAge + 1
      BY <2>1, TickTimes, TickRests, Amounts DEF Busy
    <3> QED
      BY <1>1, <3>2, <3>3
  <2>2. CASE docAge' = docAge /\ pc["M"] # "note"
    BY <2>2, IdlingEnds DEF Stamped
  <2> QED
    BY <1>1, <2>1, <2>2, StampSteps DEF Coroutines
<1>6. (\A p \in Coroutines : pc'[p] # "note") => \A j \in Busy' : docAge' <= age'[j]
  <2> SUFFICES ASSUME \A p \in Coroutines : pc'[p] # "note", NEW j \in Busy'
               PROVE  docAge' <= age'[j]
    OBVIOUS
  <2>1. j \in Jobs /\ age'[j] \in Nat /\ age[j] \in Nat
    BY Amounts DEF Busy
  <2>2. CASE Tick
    <3>1. j \in Busy /\ age'[j] = age[j] + 1 /\ docAge' <= docAge + 1
          /\ \A p \in Coroutines : pc[p] # "note"
      BY <2>1, <2>2, TickTimes, TickRests DEF Busy
    <3>2. docAge <= age[j]
      BY <3>1 DEF Stamped
    <3> QED
      BY <1>1, <2>1, <3>1, <3>2
  <2>3. CASE ~Tick /\ docAge' = docAge /\ \A p \in Coroutines : pc[p] # "note"
    <3>1. j \in Busy
      BY BusyGrows DEF Enqueue, Goto, IInv, Typed, TypeOK, Coroutines
    <3>2. age'[j] = age[j] /\ docAge <= age[j]
      BY <2>3, <3>1, AgeSteps DEF Stamped
    <3> QED
      BY <2>3, <3>2
  <2> QED
    BY <1>1, <2>1, <2>2, <2>3, StampSteps
<1> QED
  BY <1>2, <1>3, <1>4, <1>5, <1>6 DEF Stamped

\* While there is something to do the last activity is never older than the
\* waits on the way to it.
LEMMA BoundedStep ==
  ASSUME IInv, IInv', Plain, CalmStep, ~Orphaned, Bounded, Running => Recent
  PROVE  Bounded'
<1> SUFFICES ASSUME Running' \/ Sweeping', ~Done'
             PROVE  act' <= Lost' + Round + CallTime
  BY DEF Bounded
<1>1. ~Done
  BY DoneStays
<1>2. Running \/ Sweeping
  BY StaysEnded, SweepSteps
<1>3. CASE ~Tick
  BY <1>1, <1>2, <1>3, ActSteps, Amounts DEF Bounded, None
<1>4. CASE Tick
  <2>1. Running /\ ~Refreshing /\ Recent
    BY <1>2, <1>4, TickRests
  <2>2. act' <= act + 1 /\ pc["L"] = "idle" /\ pc["M"] = "asleep" /\ inbox = <<>> /\ nap > 0
    BY <1>4, TickTimes
  <2>3. nap \in Int
    BY DEF IInv, Typed, TypeOK
  <2>4. CASE Busy # {}
    <3>1. PICK j \in Busy : act <= Lost + Gap + age[j]
      BY <2>1, <2>4 DEF Recent, BusyRecent
    <3>2. age[j] < JobTime /\ age[j] \in Nat
      BY <1>4, TickTimes, Amounts DEF Busy
    <3> QED
      BY <2>2, <3>1, <3>2, Amounts
  <2>5. CASE Busy = {}
    <3>1. \E c \in Contacts : run[c] \in {"queued", "processing", "called"}
      <4>1. event = <<>> /\ ~OnItsWay({"retry"})
        BY <2>2 DEF Plain, InHandOnly, OnItsWay
      <4> QED
        BY <1>1, <2>1, <2>5, <4>1 DEF Done, Busy, Running, IInv, Typed, TypeOK
    <3>2. PICK c \in Contacts : run[c] \in {"queued", "processing", "called"}
      BY <3>1
    <3>3. wait[c] \in Nat
      BY Amounts
    <3>4. CASE run[c] = "called"
      <4>1. wait[c] > 0 /\ act + wait[c] <= Lost + Round + CallTime
        BY <1>4, <2>1, <3>4, TickTimes DEF Recent, CallsRecent
      <4> QED
        BY <2>2, <3>3, <4>1, Amounts
    <3>5. run[c] # "processing"
      BY <2>5 DEF Orphaned, Plain, HeldByWorking, Busy
    <3>6. CASE run[c] = "queued" /\ wait[c] > 0
      <4>1. act + wait[c] <= RetryDelay
        BY <2>1, <2>2, <3>6 DEF Recent, RetriesRecent
      <4>2. RetryDelay <= Gap
        BY TimesAssumption DEF Gap
      <4> QED
        BY <2>2, <3>3, <3>6, <4>1, <4>2, Amounts
    <3>7. CASE run[c] = "queued" /\ wait[c] = 0
      <4>1. act + nap <= Lost + Gap
        BY <2>1, <2>5, <3>7 DEF Recent, Idling, DueRecent, SomeDue, Due
      <4> QED
        BY <2>2, <2>3, <4>1, Amounts
    <3> QED
      BY <3>2, <3>3, <3>4, <3>5, <3>6, <3>7
  <2> QED
    BY <2>4, <2>5
<1> QED
  BY <1>3, <1>4

---------------------------------------------------------------------------
(* The invariant and what follows from it.                                 *)

\* A calm campaign stays as it should be.
LEMMA CalmInvStep ==
  ASSUME Kinds \cap {"restart", "duplicate"} = {}, IdleIsLong,
         IInv, IInv', IdleInv, [Next]_vars
  PROVE  IdleInv'
<1> SUFFICES ASSUME Calm'
             PROVE  CalmInv'
  BY DEF IdleInv
<1>1. Calm
  BY TroublesStay DEF Calm
<1>2. CalmInv /\ Plain
  BY <1>1 DEF IdleInv, CalmInv
<1>3. CalmStep
  BY <1>2, CalmOnly
<1>4. Decided => Done
  BY <1>2 DEF CalmInv
<1>5. Plain'
  BY <1>2, <1>3, <1>4, AliveStep, HandOnlyStep, NewestStep, HeldByStep, WaitsStep, LockedStep,
     UndisturbedStep
     DEF Plain
<1>6. ~Orphaned => Bounded /\ Stamped /\ (Running => Recent)
  BY <1>2 DEF CalmInv
<1>7. Decided' => Done'
  BY <1>2, <1>3, <1>4, <1>6, DecidedStep, DoneStays
<1>8. ASSUME ~Orphaned'
      PROVE  Bounded' /\ Stamped' /\ (Running' => Recent')
  <2>1. ~Orphaned
    BY <1>2, <1>3, <1>8, OrphansStay
  <2>2. JobTime < Idle
    BY TimesAssumption DEF IdleIsLong, Round, Gap
  <2>3. Bounded' /\ Stamped'
    BY <1>2, <1>3, <1>6, <2>1, <2>2, BoundedStep, StampedStep
  <2>4. ASSUME Running'
        PROVE  Recent'
    <3>1. Running
      BY <1>2, <1>3, <2>4, StaysEnded
    <3>2. Recent
      BY <1>6, <2>1, <3>1
    <3>3. BusyRecent'
      BY <1>2, <1>3, <2>4, <3>1, <3>2, BusyStep DEF Recent
    <3>4. CallsRecent'
      BY <1>2, <1>3, <1>5, <3>1, <3>2, CallsStep DEF Recent
    <3>5. RetriesRecent'
      BY <1>2, <1>3, <1>5, <3>2, RetriesStep DEF Recent
    <3>6. Idling' => DueRecent' /\ PassRecent'
      BY <1>2, <1>3, <2>1, <2>4, <3>1, <3>2, IdlingStep DEF Recent
    <3> QED
      BY <3>3, <3>4, <3>5, <3>6 DEF Recent
  <2> QED
    BY <2>3, <2>4
<1> QED
  BY <1>5, <1>7, <1>8 DEF CalmInv

\* So it is where the source has been synced.
LEMMA CalmInvInit == Init => IdleInv
<1> SUFFICES ASSUME Init
             PROVE  IdleInv
  OBVIOUS
<1>1. IInv
  BY InitIInv
<1>2. /\ inbox = <<[type |-> "sync"]>> /\ pc["L"] = "idle" /\ pc["M"] = "asleep" /\ event = <<>>
      /\ docAge = 0 /\ act = None /\ inProg = None /\ lock = "free" /\ nap = Sweep
      /\ state = "running" /\ window /\ timers = {}
  BY DEF Init, Coroutines
<1>3. /\ \A c \in Contacts : run[c] = "queued" /\ wait[c] = 0
      /\ \A j \in Jobs : jobs[j] = "none" /\ held[j] = {}
  BY DEF Init
<1>4. Len(inbox) = 1 /\ inbox[1].type = "sync"
  BY <1>2
<1>5. Plain
  BY <1>2, <1>3, <1>4, TimesAssumption
     DEF Plain, Alive, InHandOnly, Newest, IsRetry, HeldByWorking, Waits, Locked,
         Undisturbed,
         OnItsWay, Coroutines
<1>6. Refreshing /\ Busy = {} /\ ~Sweeping /\ ~Decided
  BY <1>2, <1>3, <1>4 DEF Refreshing, OnItsWay, Busy, Sweeping, Decided
<1>7. Lost \in Nat /\ Round \in Nat /\ CallTime \in Nat /\ JobTime \in Nat
  BY <1>1, LostTyped, TimesAssumption DEF IInv
<1>8. Bounded
  BY <1>2, <1>7 DEF Bounded, None
<1>9. Stamped
  BY <1>2, <1>6, <1>7 DEF Stamped
<1>10. Recent
  BY <1>3, <1>6 DEF Recent, BusyRecent, CallsRecent, RetriesRecent, Idling
<1> QED
  BY <1>1, <1>5, <1>6, <1>8, <1>9, <1>10 DEF IdleInv, CalmInv

\* The invariant, for an idle window long enough.
LEMMA CalmInvariance ==
  ASSUME Kinds \cap {"restart", "duplicate"} = {}, IdleIsLong
  PROVE  Spec => [](IInv /\ IdleInv)
<1>1. Init => IdleInv
  BY CalmInvInit
<1>2. IInv /\ IInv' /\ IdleInv /\ [Next]_vars => IdleInv'
  BY CalmInvStep
<1>3. Spec => []IInv
  BY Invariance
<1> QED
  BY <1>1, <1>2, <1>3, PTL DEF Spec

\* What _monitor_completion completes, where there was no pause, no open breaker
\* and no closed schedule, has no contact left to call: also with calls in
\* flight, retries not yet due and batches that are lost, fail or are cancelled,
\* _last_activity is never older than the idle window while there is any.
THEOREM CompletedHasNoneLeft ==
  ASSUME Kinds \cap {"restart", "duplicate"} = {}, IdleIsLong
  PROVE  Spec => []CompletedIsThrough
<1>1. IdleInv => CompletedIsThrough
  BY DEF IdleInv, CalmInv, Decided, Done, CompletedIsThrough, Pending
<1> QED
  BY <1>1, CalmInvariance, PTL

\* Without them completed and failed are final, although _complete_campaign and
\* the failing batch write the state without looking at it: when the monitor
\* has decided to complete, no batch is left that could fail the campaign.
THEOREM EndIsFinal ==
  ASSUME Kinds \cap {"trip", "pause", "window", "restart", "duplicate"} = {}, IdleIsLong
  PROVE  Spec => TerminalIsFinal
<1>1. ASSUME IInv, IInv', IdleInv, [Next]_vars
      PROVE  state \in {"completed", "failed"} => state' = state
  <2>1. Calm /\ Calm' /\ Plain
    BY <1>1 DEF Calm, IInv, Typed, TypeOK, IdleInv, CalmInv
  <2>2. CalmStep
    BY <1>1, <2>1, CalmOnly
  <2>3. Decided => Done
    BY <1>1, <2>1 DEF IdleInv, CalmInv
  <2> QED
    BY <1>1, <2>1, <2>2, <2>3, StateSteps
<1>2. IInv /\ IInv' /\ IdleInv /\ [Next]_vars
        => [(state \in {"completed", "failed"}) => (state' = state)]_vars
  BY <1>1
<1>3. Spec => [](IInv /\ IdleInv)
  BY CalmInvariance
<1> QED
  BY <1>2, <1>3, PTL DEF Spec, TerminalIsFinal
=============================================================================
