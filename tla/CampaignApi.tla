----------------------------- MODULE CampaignApi -----------------------------
(***************************************************************************)
(* The life of a campaign as its API drives it: start, pause, resume,       *)
(* delete and redial, the sync job that fills it with contacts, and the     *)
(* terminal reports that feed the circuit breaker and the retries.          *)
(*                                                                         *)
(* The API is one process with one event loop: between two awaits a handler *)
(* holds it (loop), and only MongoDB commands of the worker come in         *)
(* between.  The worker's job takes one step per command.                   *)
(***************************************************************************)
EXTENDS Naturals, FiniteSets

CONSTANTS
    Contacts,     \* the rows a source may have
    Blank,        \* those of them without a phone number
    Tasks,        \* requests and reports the API may have in hand at once
    None,
    Window,       \* window_seconds
    MinCalls,     \* min_calls_in_window
    Requests,     \* what clients ask for: a verb and a campaign
    Responses,    \* how calls end, "connected" and "cancelled" among them
    Retried,      \* the responses retry_config lets retry
    MaxTime,      \* bound on time
    MaxTries,     \* attempts ARQ makes of one job
    MaxRequests,  \* bound on requests
    MaxFaults     \* bound on crashes and failed commands

VARIABLES
    camp,      \* Campaigns: "parent" and the "child" a redial makes of it
    rows,      \* QueuedRuns of each; a run is a contact and its retry_count
    calls,     \* how the call of a run of the parent stands
    reports,   \* how often its end has been reported
    task,      \* what each task of the API does
    loop,      \* the task between two of its awaits, or None
    job,       \* the sync job: where it stands
    tries,     \* how often ARQ has begun it
    fails,     \* cb_failures, a set of times
    succs,     \* cb_successes
    source,    \* the rows it has
    now,
    asked,     \* requests so far
    faults,
    outcomes,  \* ghost: what the breaker was told since it was reset
    stranded,  \* ghost: a fault has cost the campaign its sync job
    late       \* ghost: the tasks under way when the parent came to its end

mongo   == <<camp, rows>>
breaker == <<fails, succs, outcomes>>
phone   == <<calls, reports>>
api     == <<task, loop>>
worker  == <<job, tries, source>>
limits  == <<now, asked, faults>>
vars    == <<mongo, phone, api, worker, breaker, limits, stranded, late>>

Camps     == {"parent", "child"}
Run       == Contacts \X {0, 1}
States    == {"absent", "created", "syncing", "running", "paused",
              "completed", "failed"}
\* FAILURE_RESPONSES; RETRYABLE leaves out those that were cancelled.
Failure   == Responses \ {"connected"}
Retryable == Failure \ {"cancelled"}

Idle == [kind |-> "idle", on |-> "parent", pc |-> "idle"]
\* source_uuid of the rows that have a phone number, retry_count 0
Valid == (source \ Blank) \X {0}
\* Queued runs whose linked calls ended without answer
Candidates == {r \in rows["parent"] : calls[r] \in Failure}

Update(c, patch) == camp' =
    [camp EXCEPT ![c] = IF @.state = "absent" THEN @ ELSE patch]
\* A slip: a state the clients do not know.
SetState_Error(c, s) ==
    Update(c, [camp[c] EXCEPT !.state = IF s = "failed" THEN "error" ELSE s])

SetState(c, s) == Update(c, [camp[c] EXCEPT !.state = s])

Fault == faults < MaxFaults /\ faults' = faults + 1

Init ==
    /\ camp = [c \in Camps |->
                 [state |-> IF c = "parent" THEN "created" ELSE "absent",
                  total |-> 0]]
    /\ rows = [c \in Camps |-> {}]
    /\ calls = [r \in Run |-> "none"] /\ reports = [r \in Run |-> 0]
    /\ task = [t \in Tasks |-> Idle] /\ loop = None
    /\ job = "none" /\ tries = 0
    /\ fails = {} /\ succs = {} /\ outcomes = {}
    /\ source \in SUBSET Contacts
    /\ now = 1 /\ asked = 0 /\ faults = 0
    /\ stranded = FALSE /\ late = {}

(***************************************************************************)
(* Requests.  Each reads the campaign and checks its state, then writes.    *)
(***************************************************************************)
\* A slip: a campaign that failed may be resumed as well.
MayBegin_AnyResume(kind, s) ==
    CASE kind = "start"  -> s = "created"
      [] kind = "pause"  -> s \in {"running", "syncing"}
      [] kind = "resume" -> s \in {"paused", "failed"}
      [] kind = "delete" -> s # "absent"
      [] kind = "redial" -> s # "absent" /\ Candidates # {}

MayBegin(kind, s) ==
    CASE kind = "start"  -> s = "created"
      [] kind = "pause"  -> s \in {"running", "syncing"}
      [] kind = "resume" -> s = "paused"
      [] kind = "delete" -> s # "absent"
      [] kind = "redial" -> s # "absent" /\ Candidates # {}

\* The check fails, or the request has the loop and goes on.
Request(t, kind, c) ==
    /\ loop = None /\ task[t] = Idle /\ asked < MaxRequests
    /\ kind = "redial" => c = "parent" /\ camp["child"].state = "absent"
    /\ MayBegin(kind, camp[c].state)
    /\ asked' = asked + 1
    /\ task' = [task EXCEPT ![t] = [kind |-> kind, on |-> c, pc |-> "write"]]
    /\ loop' = t
    /\ UNCHANGED <<mongo, phone, worker, breaker, now, faults, stranded, late>>

At(t, kind, pc) == task[t].kind = kind /\ task[t].pc = pc
\* A task that resumes after an await needs the loop.
Resumes(t, kind, pc) == At(t, kind, pc) /\ loop = None
Goes(t, pc)  ==
    task' = [task EXCEPT ![t].pc = pc] /\ loop' = None /\ UNCHANGED late
Keeps(t, pc) ==
    task' = [task EXCEPT ![t].pc = pc] /\ loop' = t /\ UNCHANGED late
Returns(t)   ==
    task' = [task EXCEPT ![t] = Idle] /\ loop' = None /\ late' = late \ {t}
\* A slip: an exception in the sync is logged and the state left as it was.
Final_NotOnFailure(s) ==
    /\ IF s = "failed" THEN UNCHANGED camp ELSE SetState("parent", s)
    /\ late' = {t \in Tasks : task[t] # Idle}

\* The parent comes to its end.
Final(s)     ==
    SetState("parent", s) /\ late' = {t \in Tasks : task[t] # Idle}

\* A redial child has its runs already and goes straight to running.
StartWrite(t) ==
    /\ At(t, "start", "write")
    /\ IF task[t].on = "child"
       THEN SetState("child", "running") /\ Returns(t)
       ELSE SetState("parent", "syncing") /\ Goes(t, "enqueue")
    /\ UNCHANGED <<rows, phone, worker, breaker, limits, stranded>>

Enqueue(t) ==
    /\ Resumes(t, "start", "enqueue")
    /\ job' = "queued"
    /\ Returns(t)
    /\ UNCHANGED <<mongo, phone, tries, breaker, limits, stranded, source>>

\* The write stays; the client gets an error.
EnqueueRaises(t) ==
    /\ Resumes(t, "start", "enqueue")
    /\ Fault
    /\ stranded' = TRUE
    /\ Returns(t)
    /\ UNCHANGED <<mongo, phone, worker, breaker, now, asked>>

PauseWrite(t) ==
    /\ At(t, "pause", "write")
    /\ SetState(task[t].on, "paused")
    /\ Returns(t)
    /\ UNCHANGED <<rows, phone, worker, breaker, limits, stranded>>

ResumeWrite(t) ==
    /\ At(t, "resume", "write")
    /\ SetState(task[t].on, "running")
    /\ IF task[t].on = "parent" THEN Goes(t, "reset") ELSE Returns(t)
    /\ UNCHANGED <<rows, phone, worker, breaker, limits, stranded>>

Reset(t) ==
    /\ Resumes(t, "resume", "reset")
    /\ fails' = {} /\ succs' = {} /\ outcomes' = {}
    /\ Returns(t)
    /\ UNCHANGED <<mongo, phone, worker, limits, stranded>>

ResetRaises(t) ==
    /\ Resumes(t, "resume", "reset")
    /\ Fault
    /\ Returns(t)
    /\ UNCHANGED <<mongo, phone, worker, breaker, now, asked, stranded>>

DeleteRuns(t) ==
    /\ At(t, "delete", "write")
    /\ rows' = [rows EXCEPT ![task[t].on] = {}]
    /\ Keeps(t, "campaign")
    /\ UNCHANGED <<camp, phone, worker, breaker, limits, stranded>>

DeleteCampaign(t) ==
    /\ At(t, "delete", "campaign")
    /\ camp' = [camp EXCEPT ![task[t].on] = [state |-> "absent", total |-> 0]]
    /\ Returns(t)
    /\ UNCHANGED <<rows, phone, worker, breaker, limits, stranded>>

\* The child, then its runs, then their number
RedialCreate(t) ==
    /\ At(t, "redial", "write")
    /\ camp' = [camp EXCEPT !["child"] = [state |-> "created", total |-> 0]]
    /\ Keeps(t, "runs")
    /\ UNCHANGED <<rows, phone, worker, breaker, limits, stranded>>

RedialRuns(t) ==
    /\ At(t, "redial", "runs")
    /\ rows' = [rows EXCEPT !["child"] = Candidates]
    /\ Keeps(t, "total")
    /\ UNCHANGED <<camp, phone, worker, breaker, limits, stranded>>

RedialTotal(t) ==
    /\ At(t, "redial", "total")
    /\ Update("child", [camp["child"] EXCEPT !.total =
                                                Cardinality(rows["child"])])
    /\ Returns(t)
    /\ UNCHANGED <<rows, phone, worker, breaker, limits, stranded>>

(***************************************************************************)
(* The sync job, in the worker                                             *)
(***************************************************************************)
\* A job ARQ has begun too often is not begun again.
JobStarts ==
    /\ job = "queued"
    /\ IF tries = MaxTries
       THEN job' = "dropped" /\ tries' = tries /\ stranded' = TRUE
       ELSE /\ job' = IF camp["parent"].state = "absent" THEN "fail" ELSE "fetch"
            /\ tries' = tries + 1 /\ stranded' = stranded
    /\ UNCHANGED <<mongo, phone, api, breaker, limits, late, source>>

\* No contacts, or none with a number: nothing to insert
Fetched ==
    /\ job = "fetch"
    /\ job' = CASE source = {} -> "empty"
                [] source # {} /\ Valid = {} -> "count"
                [] OTHER -> "insert"
    /\ UNCHANGED <<mongo, phone, api, tries, breaker, limits, stranded, late,
                   source>>

FetchRaises ==
    /\ job = "fetch"
    /\ Fault
    /\ job' = "fail"
    /\ UNCHANGED <<mongo, phone, api, tries, breaker, now, asked, stranded,
                   late, source>>

\* The unique index refuses the first row that is there already.
InsertRuns ==
    /\ job = "insert"
    /\ IF Valid \cap rows["parent"] # {}
       THEN job' = "fail" /\ rows' = rows
       ELSE job' = "count" /\ rows' = [rows EXCEPT !["parent"] = @ \cup Valid]
    /\ UNCHANGED <<camp, phone, api, tries, breaker, limits, stranded, late,
                   source>>

\* A slip: the rows of the source are counted, not the runs made of them.
CountRows_All == Cardinality(source)

CountRows == Cardinality(Valid)

WriteTotal ==
    /\ job = "count"
    /\ Update("parent", [camp["parent"] EXCEPT !.total = CountRows])
    /\ job' = IF Valid = {} THEN "empty" ELSE "finish"
    /\ UNCHANGED <<rows, phone, api, tries, breaker, limits, stranded, late,
                   source>>

\* The state is written without a look at what it is by now.
SyncEmpty ==
    /\ job = "empty"
    /\ Final("completed")
    /\ job' = "done"
    /\ UNCHANGED <<rows, phone, api, tries, breaker, limits, stranded, source>>

SyncFinish ==
    /\ job = "finish"
    /\ SetState("parent", "running")
    /\ job' = "publish"
    /\ UNCHANGED <<rows, phone, api, tries, breaker, limits, stranded, late,
                   source>>

Published ==
    /\ job = "publish"
    /\ job' = "done"
    /\ UNCHANGED <<mongo, phone, api, tries, breaker, limits, stranded, late,
                   source>>

PublishRaises ==
    /\ job = "publish"
    /\ Fault
    /\ job' = "fail"
    /\ UNCHANGED <<mongo, phone, api, tries, breaker, now, asked, stranded,
                   late, source>>

SyncFails ==
    /\ job = "fail"
    /\ Final("failed")
    /\ job' = "done"
    /\ UNCHANGED <<rows, phone, api, tries, breaker, limits, stranded, source>>

\* The worker dies, or is stopped: ARQ runs the job again from its beginning.
WorkerDies ==
    /\ job \notin {"none", "queued", "done", "dropped"}
    /\ Fault
    /\ job' = "queued"
    /\ UNCHANGED <<mongo, phone, api, tries, breaker, now, asked, stranded,
                   late, source>>

(***************************************************************************)
(* The batches, the orchestrator and the provider, as the API meets them    *)
(***************************************************************************)
Dial(r) ==
    /\ camp["parent"].state = "running"
    /\ r \in rows["parent"] /\ calls[r] = "none"
    /\ calls' = [calls EXCEPT ![r] = "pending"]
    /\ UNCHANGED <<mongo, reports, api, worker, breaker, limits, stranded,
                   late>>

CallEnds(r, response) ==
    /\ calls[r] = "pending"
    /\ calls' = [calls EXCEPT ![r] = response]
    /\ UNCHANGED <<mongo, reports, api, worker, breaker, limits, stranded,
                   late>>

\* A batch fails the campaign, the sweep completes it.
Ends(s) ==
    /\ camp["parent"].state = "running"
    /\ Final(s)
    /\ UNCHANGED <<rows, phone, api, worker, breaker, limits, stranded>>

(***************************************************************************)
(* handle_call_terminal.  The hang-up and the end of the pipeline may both  *)
(* report a call.                                                          *)
(***************************************************************************)
\* retry_needed makes the orchestrator queue the next attempt.
Retries(r) == r[2] = 0 /\ calls[r] \in Retryable \cap Retried
NeedsRetry(r) ==
    rows' = [rows EXCEPT !["parent"] = @ \cup
               IF camp["parent"].state # "absent" /\ Retries(r)
               THEN {<<r[1], 1>>} ELSE {}]

\* A campaign that is not running is none of the breaker's business.
Report(t, r) ==
    /\ loop = None /\ task[t] = Idle
    /\ calls[r] \in Responses /\ reports[r] < 2
    /\ reports' = [reports EXCEPT ![r] = @ + 1]
    /\ IF camp["parent"].state = "running"
       THEN /\ task' = [task EXCEPT ![t] =
                          [kind |-> "report", on |-> r, pc |-> "record"]]
            /\ rows' = rows
       ELSE NeedsRetry(r) /\ task' = task
    /\ UNCHANGED <<camp, calls, loop, worker, breaker, limits, stranded, late>>

\* A slip: the window is one unit too long.
InWindow_Long(times) == {x \in times : x + Window >= now}

InWindow(times) == {x \in times : x > now - Window}
\* failure_threshold is one half.
Trips(f, s) == f + s >= MinCalls /\ 2 * f >= f + s

\* The script: drop what is old, add this call, count.  One entry per time.
Record(t) ==
    LET r    == task[t].on
        fail == calls[r] \in Failure
    IN  /\ At(t, "report", "record")
        /\ fails' = InWindow(fails) \cup IF fail THEN {now} ELSE {}
        /\ succs' = InWindow(succs) \cup IF fail THEN {} ELSE {now}
        /\ outcomes' = outcomes \cup {<<r, now>>}
        /\ task' = [task EXCEPT ![t].pc =
                      IF Trips(Cardinality(fails'), Cardinality(succs'))
                      THEN "trip" ELSE "retry"]
        /\ UNCHANGED <<mongo, phone, loop, worker, limits, stranded, late>>

\* The breaker logs what goes wrong and no more.
RecordRaises(t) ==
    /\ At(t, "report", "record")
    /\ Fault
    /\ task' = [task EXCEPT ![t].pc = "retry"]
    /\ UNCHANGED <<mongo, phone, loop, worker, breaker, now, asked, stranded,
                   late>>

\* Written whatever has become of the campaign since the report read it
Trip(t) ==
    /\ Resumes(t, "report", "trip")
    /\ SetState("parent", "paused")
    /\ Goes(t, "retry")
    /\ UNCHANGED <<rows, phone, worker, breaker, limits, stranded>>

Retry(t) ==
    /\ Resumes(t, "report", "retry")
    /\ NeedsRetry(task[t].on)
    /\ Returns(t)
    /\ UNCHANGED <<camp, phone, worker, breaker, limits, stranded>>

(***************************************************************************)
(* The API process dies with all its tasks; time passes.                   *)
(***************************************************************************)
ApiDies ==
    /\ \E t \in Tasks : task[t] # Idle
    /\ Fault
    /\ stranded' = (stranded \/ \E t \in Tasks : At(t, "start", "enqueue"))
    /\ task' = [t \in Tasks |-> Idle] /\ loop' = None /\ late' = {}
    /\ UNCHANGED <<mongo, phone, worker, breaker, now, asked>>

Tick ==
    /\ now < MaxTime
    /\ now' = now + 1
    /\ UNCHANGED <<mongo, phone, api, worker, breaker, asked, faults, stranded,
                   late>>

Client(t) == \E q \in Requests : Request(t, q[1], q[2])
Lifecycle(t) ==
    \/ StartWrite(t) \/ Enqueue(t) \/ EnqueueRaises(t) \/ PauseWrite(t)
    \/ ResumeWrite(t) \/ Reset(t) \/ ResetRaises(t)
    \/ DeleteRuns(t) \/ DeleteCampaign(t)
    \/ RedialCreate(t) \/ RedialRuns(t) \/ RedialTotal(t)
Terminal(t) ==
    \/ \E r \in Run : Report(t, r)
    \/ Record(t) \/ RecordRaises(t) \/ Trip(t) \/ Retry(t)
Sync ==
    \/ JobStarts \/ Fetched \/ FetchRaises \/ InsertRuns \/ WriteTotal
    \/ SyncEmpty \/ SyncFinish \/ Published \/ PublishRaises \/ SyncFails
    \/ WorkerDies
Outside ==
    \/ \E r \in Run : Dial(r) \/ \E x \in Responses : CallEnds(r, x)
    \/ \E s \in {"completed", "failed"} : Ends(s)
    \/ ApiDies \/ Tick

Next == Sync \/ Outside \/ \E t \in Tasks : Client(t) \/ Lifecycle(t) \/ Terminal(t)

Spec == Init /\ [][Next]_vars

-----------------------------------------------------------------------------
TypeOK ==
    /\ camp \in [Camps -> [state : States, total : 0 .. 2 * Cardinality(Contacts)]]
    /\ rows \in [Camps -> SUBSET Run]
    /\ calls \in [Run -> {"none", "pending"} \cup Responses]
    /\ reports \in [Run -> 0 .. 2]
    /\ \A t \in Tasks :
         /\ task[t].kind \in {"idle", "start", "pause", "resume", "delete",
                              "redial", "report"}
         /\ IF task[t].kind = "report" THEN task[t].on \in Run ELSE task[t].on \in Camps
         /\ task[t].pc \in {"idle", "write", "enqueue", "reset", "campaign",
                            "runs", "total", "record", "trip", "retry"}
    /\ loop \in Tasks \cup {None}
    /\ job \in {"none", "queued", "fetch", "insert", "count", "empty", "finish",
                "publish", "fail", "done", "dropped"}
    /\ tries \in 0 .. MaxTries
    /\ source \in SUBSET Contacts
    /\ fails \in SUBSET (1 .. MaxTime) /\ succs \in SUBSET (1 .. MaxTime)
    /\ outcomes \in SUBSET (Run \X (1 .. MaxTime))
    /\ now \in 1 .. MaxTime /\ asked \in 0 .. MaxRequests
    /\ faults \in 0 .. MaxFaults
    /\ stranded \in BOOLEAN /\ late \in SUBSET Tasks

FirstAttempts(c) == IF c = "child" THEN rows[c]
                    ELSE {r \in rows[c] : r[2] = 0}

\* The progress a client is shown divides by total_rows: unless a deletion has
\* begun, it is the number of contacts the campaign was given, whatever job or
\* handler died between the runs and their number.
TotalMatchesRows ==
    \A c \in Camps :
        (camp[c].total > 0 /\ FirstAttempts(c) # {})
            => camp[c].total = Cardinality(FirstAttempts(c))

\* No request leads out of syncing to running but by way of the sync job: while
\* the campaign is syncing the job is on its way, or about to be enqueued, or a
\* fault has cost it.
SyncingHasJob ==
    camp["parent"].state = "syncing" =>
        \/ job \notin {"none", "done", "dropped"}
        \/ \E t \in Tasks : At(t, "start", "enqueue")
        \/ stranded

\* A campaign that is completed or has failed is revived, if at all, by a
\* handler that had seen it alive: the pause, resume or report that begins
\* afterwards leaves it alone.
EndedIsLeftAlone ==
    camp["parent"].state \in {"completed", "failed"} =>
        \A t \in Tasks \ late :
            ~ \/ task[t].kind \in {"start", "pause", "resume"}
                 /\ task[t].on = "parent" /\ task[t].pc = "write"
              \/ task[t].kind = "report" /\ task[t].pc \in {"record", "trip"}

\* The breaker trips on what happened of late: on enough outcomes of the
\* window, recorded since it was last reset, half of their times failures.
TripIsFresh ==
    [][\A t \in Tasks :
        (At(t, "report", "record") /\ task'[t].pc = "trip") =>
            LET young == {o \in outcomes' : o[2] + Window > now}
                bad   == {o[2] : o \in {x \in young : calls[x[1]] \in Failure}}
                good  == {o[2] : o \in {x \in young : calls[x[1]] = "connected"}}
            IN  /\ Cardinality(bad) + Cardinality(good) >= MinCalls
                /\ Cardinality(bad) >= Cardinality(good)]_vars

==============================================================================
