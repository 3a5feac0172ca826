# VoiceRA: verification of call campaigns, call records and speech

VoiceRA places and answers phone calls with an AI agent. Many of its parts are
request handlers over single documents or adapters around other people's
libraries. The parts that carry logic of their own are

- the outbound campaign dialler, spread over four processes and two stores: it
  must call every contact of a list, once, within two concurrency caps, retry
  the ones that did not answer, and notice when it is done;
- the record of a call, written by five parties that do not wait for each other;
- the routing of numbers to agents, kept here and at the providers;
- the bridge to Asterisk;
- the model server, which shares sessions, queues and caches between callers.

This project specifies them in TLA+, checks them with TLC and proves their safety
with TLAPS: every invariant and action property the runs check is stated by a theorem (section 4).

- [1. Inventory](#1-inventory)
- [2. Modules](#2-modules)
- [3. Runs](#3-runs)
- [4. Proofs](#4-proofs)
- [5. What the code does otherwise than the documentation says](#5-what-the-code-does-otherwise-than-the-documentation-says)
- [6. Not modelled](#6-not-modelled)
- [7. Plan](#7-plan)

Paths without a directory are in `src/apps/api/app/services/campaign/`,
`src/apps/api/app/services/call_concurrency/` or `src/apps/api/app/tasks/`.

## 1. Inventory

Processes: the API (uvicorn), the worker (ARQ, which runs
`process_campaign_batch` and `sync_campaign_source`, several at a time), the
orchestrator (one asyncio process), and the runtime that talks on the phone.
Stores: MongoDB (`Campaigns`, `QueuedRuns`, `CallLogs`; documents are read,
checked and written back in separate commands, except for the claim of a run)
and Redis (slots, number pool, breaker windows, the ARQ queue, and the pub/sub
channel `campaign_events`, which keeps nothing for a subscriber that is away).

| Component | State | Operations | Talks to | Hard because | Correct when |
|---|---|---|---|---|---|
| Call concurrency (`rate_limiter.py`, `service.py`) | three sorted sets per slot (organisation, campaign, fleet), a mapping call -> slot with a TTL, a pool of caller numbers, a token window | acquire (one Lua script that also trims stale members), release (three `ZREM`s), bind, release by call | Redis; called by dispatcher and by the terminal report | two processes release the same slot; members go stale under live calls; a release fails half way | live calls stay within both caps, no slot is lost while its call is on, nobody is refused for a stale slot |
| Dispatcher (`campaign_call_dispatcher.py`) | locals of one batch, the claims it holds | claim, wait for token and slot, pick a number, dial, bind, settle, return claims | concurrency, outbound call service, MongoDB | every line may raise or be cancelled; the dial's answer may be lost | no contact lost, none called twice |
| Batch worker (`campaign_tasks.py`, `arq.py`, `campaign_repository.py`) | `QueuedRuns`, counters on the campaign | run a batch, publish its outcome, fail the campaign | dispatcher, orchestrator (events) | batches overlap; ARQ runs a cancelled job again; a worker dies | runs are claimed exclusively, every batch reports |
| Orchestrator (`campaign_orchestrator.py`) | three dictionaries (locks, last activity, batch in progress), a subscription, timers without an owner | handle events, schedule a batch, insert retries, sweep every 60 s, complete | MongoDB, ARQ queue, pub/sub, breaker | two coroutines interleave at every await; events are lost or doubled; a restart forgets | it completes a campaign when, and only when, every contact is through |
| Campaign API (`runner.py`, `source_sync.py`, `routers/campaign.py`) | the campaign document | start, sync, pause, resume, patch, delete, redial | MongoDB, events | checks a state and writes later, against worker, orchestrator and breaker | ended campaigns stay ended |
| Terminal report (`status_processor.py`) | - | release the slot, record the outcome, ask for a retry | concurrency, breaker, events | sent twice, or before the dispatcher has linked the call | one slot freed, one retry |
| Circuit breaker (`circuit_breaker.py`) | two sorted sets of outcomes per campaign | record (one script: add, trim, count), evaluate, reset | Redis, MongoDB, events | outcomes share a timestamp; pauses from a stale read | trips on what happened within the window since the last reset |
| Call logs (`call_log_service.py`, `outbound_call_service.py`) | a document per call | create, update, patch by call id or sid, link files | MongoDB; called by dispatcher, runtime, hang-up webhooks | its writers are not ordered, and repeat themselves | the outcome the agent's pipeline gave it stands |
| Runtime (`src/apps/runtime`) | one pipeline per call | answer and hang-up webhooks, media websocket, run the agent, report the end | API, providers | each of its requests may be refused or break off after it was carried out | the log is closed and the campaign told |
| Agents and phone numbers (`agent_service.py`, `phone_number_service.py`) | an agent's `linked_phone_number`, a number's `agent_id`, applications at the provider | attach, detach, import; create, change, delete an agent | MongoDB, providers | a request of several writes breaks off at the provider | agent, inventory and provider agree on who a number rings |
| Telephony clients, providers (`src/apps/telephony`, `src/apps/providers`) | - | HTTP and streaming adapters | vendors | lost answers | - |
| Asterisk bridge (`src/asterisk_bridge`) | calls, RTP sessions and ports, the ARI listener | set up and clean up a call, reconnect, shut down | Asterisk, runtime | four parties clean up one call, each in awaited steps | ports are exclusive, a call is cleaned up entirely, by someone |
| Model server (`src/model-server`) | sessions and turns, request queues, attention caches | live transcription (`indic-transcribe`), realtime protocol, batch recognition (`indic-conformer`), synthesis (`indic-parler`) | runtime | an event loop and a GPU thread share sessions without a lock; queues and caches are at their limit | nothing said or to be said is lost, repeated, or given to another caller; every request ends |
| API for accounts, organisations, knowledge, storage; frontend; deployment | documents | request handlers | MongoDB, MinIO | - | - |

`PROJECT.json` lists every component with its status, and the hazards of this
code at their lines, each with the properties that watch it.

## 2. Modules

| Module | What it is |
|---|---|
| `CallAdmission` | abstract: a cap on attempts inside, per organisation and per campaign |
| `CallSlots` | the Redis slot protocol between dispatches, calls and terminal reports; refines `CallAdmission` |
| `RunLedger` | abstract: a contact's run is taken, given back, settled |
| `BatchWorker` | `process_campaign_batch` and `process_batch` command by command; refines `RunLedger` |
| `Orchestrator` | both coroutines of the orchestrator, with coarse batches and calls around them |
| `CampaignApi` | the campaign document between clients, sync job, terminal reports and circuit breaker, with its redial |
| `CallRecord` | abstract: a record is made once, closed for good, and says what the campaign is told |
| `CallLog` | the record of one call and its five writers; refines `CallRecord` |
| `NumberLinks` | requests over agents and numbers, the provider between their writes |
| `AsteriskBridge` | one bridge process, its calls, ports, listener and shutdown |
| `SttStream` | live transcription: streams, turns, sessions and the GPU tick |
| `DeltaEmitter` | snapshots of a transcript made into append-only deltas |
| `RealtimeStt` | the realtime endpoint of the batch recogniser |
| `ParlerTts` | the batch of speech synthesis, its caches and capped decodes |
| `Api` | `CallLog`, with `CampaignApi` and `NumberLinks` beside it |
| `ModelServer` | the four modules of the model server side by side |
| `CallSlotsProofs`, `BatchWorkerProofs`, `OrchestratorProofs`, `CallLogProofs`, `AsteriskBridgeProofs`, `ApiProofs`, `SttStreamProofs`, `ModelServerProofs` | theorems and their proofs |
| `MCCallSlots`, `MCBatchWorker`, `MCOrchestrator`, `MCAsteriskBridge`, `MCApi`, `MCModelServer` | instances for TLC |

`Api` and `ModelServer` put parts side by side that keep different state, so a
behaviour is one of one part, chosen as `part` in the initial state, and the
variables of the other parts stay as they were. What crosses from one part to
another is in the parts themselves (the terminal report in `CampaignApi`, the
telling of the campaign in `CallLog`). Both have all limits as constants, with
assumptions on them; their properties are those of the parts, each said of the
behaviours of its part, and are what the theorems are about.

### CallSlots

An *attempt* is one dispatch of one run. Slot and call ids are fresh UUIDs, so
the attempt names both. `orgSlots`, `scopeSlots` and `fleetSlots` are the sorted
sets; the common score of a slot is kept as `lease`, the ticks left until
`stale_call_timeout`, and the TTL of `call_slot_mapping:{id}` as `ttl`. There is
one action per Redis command or Lua script and per outcome of the dial:
`Acquire` is the whole script, trims included; the release of a failed dispatch
(`UnwindOrg`, `UnwindFleet`, `UnwindScope`, `UnwindMapping`) and that of the
terminal report (`ReportTerminal`, `ReportZrem...`, `ReportDelMapping`) are
sequences of steps which run against each other. `pc` is where `dispatch_call`
stands, `call` the provider's view of the call: between `Dial` and its answer the
provider may or may not have placed it, and `DialRaises` loses the answer.
The organisation's set has an `EXPIRE` of 3600 s, longer than the stale timeout:
a set that expires holds stale members only, so expiry is not an action.
The wait loop of `acquire_org_slot` (1 s polls, 120 s) is `Acquire` enabled as
long as the attempt waits, and `Refused` for the last poll.

### BatchWorker

One campaign, its runs, and jobs of the ARQ queue. Each MongoDB or Redis command
and each await is a step; the locals of `process_batch` are variables (`claims`,
`todo`, `cur`, `done` = `processed_ids`, `seen` = the stale copy of
`processed_rows`), and the exception that aborts a batch is `why`.
`JobStep` is what a worker does of its own accord, `Disturbance` what happens to
it: cancellation at any await, a crash, a failing command at each place where one
can fail. A cancelled job goes back to the queue, as ARQ does it. `Enqueue` is
the orchestrator seen from here: nothing keeps two batches from overlapping.
Slots and tokens are outcomes here (`GetSlot`, `NoSlot`, `NoNumber`); their
protocol is `CallSlots`. Pause and resume are two steps, read and write.

### Orchestrator

One campaign. `pc` holds the two coroutines, the listener `"L"` and the monitor
`"M"`; every await of the code ends a step, and both may be inside
`_schedule_next_batch`, which is therefore written once, for a coroutine `p`.
`inProg`, `act` and `lock` are the three dictionaries' entries as ages, `timers`
the tasks that remove the lock, whoever holds it by then. `ask` says on behalf of
which check the monitor counts pending runs: the code asks up to four times in a
row, and each `_has_pending_work` is two counts in two steps. `inbox` is what
pub/sub has delivered; while the process is down nothing is.

Around it: batches in the queue (`jobs`, coarse: claim, dial, report, abort, be
cancelled, die), calls that end in an answer or a retry, a second report of the
same call, pause and resume, and the calling window. The troubles of a behaviour
come from `Kinds`, each at most once and at most `MaxTroubles` together.

Time is counted in ticks of the 5 s a lock lasts. `Tick` requires that nothing
that takes less than a tick is left to do, that batches are not older than
`JobTime` and calls not older than `CallTime`. A lock set in the tick before may
be on either side of its 5 s, so both outcomes are possible. Timers that start in
one tick are kept as one: removing a lock twice in a row makes a difference only
if it has been set again in between, which the kept one also allows. The read of
the campaign and the query of the breaker are one step (the breaker's own data is
not modelled here; `BreakerOpen` needs at least one settled call). The state is
after the source has been synced, so `syncing` does not occur.

### CampaignApi

The API is one process with one event loop: `loop` is the task that holds it, from
one await to the next, so of two tasks only one runs between its awaits, while
the worker's MongoDB commands come in at any step. `camp` has the campaign and
the `child` a redial makes of it; `rows` their runs, a run being a contact and a
`retry_count`. The sync job takes one step per command, is tried again by ARQ up
to `MaxTries` times, and may die after any of them. A terminal report goes through
`handle_terminal_call`: the breaker is told, trips or not, pauses the campaign from
the state it read before, and asks for a retry. `fails` and `succs` are the
breaker's sorted sets, sets of times, as score and member are the same: two
outcomes of one instant are one.

Ghosts: `outcomes` is what the breaker was told since its reset, each outcome for
itself, against which `TripIsFresh` compares; `stranded` says that a fault has cost
the campaign its job; `late` holds the tasks under way when the campaign ended,
which may still write what they have decided.

### CallLog

One call of one of five kinds (dialled by a campaign or by hand, inbound with
an answer webhook, inbound straight to the websocket, browser). The writers: the
dialling service (`dial`), the answer webhook (`answer`), the websocket and its
pipeline (`ws`), the recorder, and the deliveries of the hang-up webhook (`hook`).
The API carries a PATCH out between two awaits, so a write is a step. A request
of the runtime has three outcomes: carried out, refused, or broken off, before or
after it was carried out; the code takes the last two for the same, and the
action leaves the log changed or not. `Tagged` is whether the hang-up URL names
the call: only then is the campaign told by the webhook. `told` is the set of
responses the campaign was told of.

`CallRecord` is what is left when the writers are forgotten: a record is none, open or
closed (`Stage`), and its dial open, placed or failed (`DialStage`); reports of its end
come in any order and number. That the answer to the dial comes late, and opens a
closed record again, is in the abstract specification, because the code does it (section
5): it may do so once, and changes neither the outcome nor the end, unless the dial is
taken for failed, of which no campaign hears. What a campaign is told the record says,
or it says `answered`: a hang-up's cause may have been handed on of a call the agent
has meanwhile said it answered.

### NumberLinks

Agents, the numbers of one account, and the provider's applications. A request
reads, then awaits the provider call by call; a call of the provider's API is
carried out, refused, or carried out with its answer lost, which the client takes
for a refusal. `live` has the applications that exist; an application that is made
and whose answer is lost stays behind unknown to the API. `crossed` is set when
two requests over one agent or number have been under way at once: then both pass
their checks first, and the code promises nothing (section 5).

### AsteriskBridge

One step per await of the set-up (`pc`), the pump (`pump`) and the clean-up (`cl`)
of a call, of the supervisor that reconnects the event stream (`link`) and of the
shutdown (`stop`). Clean-up begins with `calls.pop`, so one party does it; the
others find nothing. An RTP session is popped, its receiver awaited and its
socket closed in separate steps, and `alloc` is released in the last. Events of
a connection that is down are lost, as ARI does not repeat them.

### SttStream

Websockets and uploads on the event loop, and the GPU thread, whose tick is four
steps: choose the sessions that are ready and take a chunk of each, push the
chunks, encode and decode the batch, hand over the deltas. Between any two of them the
loop may open, feed, finalise or close a session. Audio is counted in units: a
chunk is one, its right context another; a unit of speech is its number, silence
is 0. What the decoder commits before the last chunk is any prefix of what it has
heard (`Commits`). `hurt` are the sessions that lost something to a tick that raised.
The order of the engine's dict is that of the session numbers (`InOrder`).

### DeltaEmitter

`update`, `completed` and the debounce task interleave at each send. Words are
atoms; a half-heard word is `Partial`. `Cumulative` is how `indic-transcribe`
uses the emitter: it hands over the text of all turns.

### RealtimeStt

The receive loop awaits the final of a commit; the interim task runs beside it; a
lock per session orders their inferences; one bounded queue and one worker thread
serve all sockets. A cancelled interim leaves its request in the queue.

### ParlerTts

A tick of the worker is prefill, cancellations, one step of all running requests,
and a decode of some of them to audio. `selfSlot` and `crossSlot` are the slots of
the two caches, each compacted on its own; frames are counted, and audio is the
range of frames it was made from.

## 3. Runs

| Run | Instance | Question |
|---|---|---|
| `call_slots` | 3 attempts, two of them in one campaign, campaign limits 1, organisation limit 2, 1 fault | do the caps hold for the calls themselves; does the mapping outlive the slot; do the three sets agree; is a refusal ever unjustified; is `CallAdmission` implemented |
| `batch_worker` | 2 runs, 2 jobs, batches of up to 2, 1 fault, 1 cancellation | are claims exclusive, contacts kept, calls made once, jobs reported; is `RunLedger` implemented |
| `orchestrator` | 2 contacts with 1 retry, 2 batches; one of: breaker trips, no number, no slot, worker dies, restart | is a campaign completed only when every contact is through; does `failed_rows` count contacts once; are `completed` and `failed` final |
| `orchestrator_live` | 1 contact with 1 retry; one of: restart, duplicate event, cancelled batch, closed window, pause | does a running campaign come to an end |
| `asterisk_bridge` | 3 channels, 2 ports, 1 fault | are ports exclusive, is a call cleaned up entirely, is a call never without a task that will end it |
| `api` | campaign: 2 contacts, one without a number, 3 requests, 2 tasks, 2 times, 1 fault. Call log: each kind, 2 deliveries of the webhook, 2 requests that go wrong. Numbers: 2 agents, 2 numbers, 4 requests, 3 applications, 2 refusals | do totals match the runs, does a syncing campaign have its job, what may still change an ended one, what does the breaker trip on; which outcome does a log keep, is `CallRecord` implemented; whom does a number ring |
| `model_server` | streams: a socket and an upload, 3 units each, 4 sessions; emitter: 2 turns; realtime: 2 sockets, a queue of 1; synthesis: 3 requests for 2 slots; 1 failure each | is anything said or to be said lost, repeated, or given to another |
| `model_server_live` | the same with smaller bounds | does every turn, held word, commit and request for speech end |
| `batch_worker_redial`, `orchestrator_delay`, `stt_order`, `parler_tail` | smallest that show it | section 5 |

**Bounds.** In `call_slots` two attempts of one campaign compete for its slot while
a third shares only the organisation, whose limit is 2; an instance on which the
organisation's cap is the one that binds adds nothing to the proofs, which hold for all limits. With a lease of
one tick, slots are fresh or stale, attempts on either side of a tick have one of
each, and a mapping that was written after a tick outlives its slot; no guard of
the code tells more ages apart. One fault is enough for each handler of
the code, because every failure path leads to a state the fault-free steps of the
others then meet; what more faults could add is covered by the proofs, which do
not bound them. In `BatchWorker` two jobs with batches of two on two runs give a
batch that holds everything, one that holds nothing, and two that share (a third
run adds nothing that the checks told apart, and a factor of five in states); `MaxPoolAttempts` is 2 instead of 3 (an
exhaustion that is tried again and a final one); `calls` saturates at 2. In `Orchestrator` two
places for batches are needed for overlap; the time constants keep the order of
the real ones, retry delay + sweep + batch + call < idle window (120 + 60 + 300 +
a call < 3600 s), and are otherwise as small as this permits: a lock of 1 tick, a
sweep, a batch timeout, a batch and a call of 1, an idle window of 6. The
live run makes do with a window of 4: `CampaignEnds` does not depend on it.
`orchestrator_delay` has one contact with two retries, a retry delay and an idle window
of 6 ticks each, and no trouble.
Batches that outlive the batch timeout multiply the states of `orchestrator` by three
and are left to the theorems, which hold for any times (section 4). Symmetry is used for
the two attempts of the same campaign, for runs, contacts and jobs, in runs
without liveness, for the API's tasks in `api` and the ports in `asterisk_bridge`.

In `api`, two tasks are what a race needs, and two ends of a call, one that is retried
and one that connected; a window of 1 and 2 times put outcomes
inside and outside of it; `MinCalls` 2 is the smallest the breaker distinguishes;
one contact without a number makes `total_rows` differ from the source's length.
One log has each of its five writers once, and the only one that repeats itself,
the hang-up webhook, twice; two requests may break off, so two writers may each be
unsure of what they wrote. With numbers, two agents and two numbers allow each to move
to the other's partner, and two refusals or lost answers may fall on any calls of the
provider: the second may fall on the undoing of the first. (A sync job that ARQ drops
because it was begun too often takes two faults, one more than this run has; that
it is begun again after a crash is reached.) In `asterisk_bridge` 3 channels are a caller, its media leg and a second
caller, whose leg then is not to be had; with 2 ports one may still be closing while
the other is taken. In `model_server` 3 units with `SoftRoll` 1 and `HardRoll` 2 make
a turn roll both ways, 4 sessions are what one caller's turns and the upload need,
and 3 requests for 2 slots make one wait and a slot move when another ends.

**Deadlock** is not checked where a behaviour ends: when every dispatch or batch has
(`CallSlots`, `BatchWorker`), and when the bounds on requests, calls, channels and audio
are used up (`Api`, `AsteriskBridge`, `ModelServer`). It is checked in
`Orchestrator`, whose clock goes on for ever.

**Fairness.** `Orchestrator!FairSpec` is
weak fairness of `Progress` (coroutines, batches, calls, clock) as a whole: the
event loop and the workers keep running, and since `Tick` waits for what is due,
nothing is put off for ever. Added to it are the restart of a process that is
down (the container's restart policy) and the opening of a closed calling window.
Nobody has to resume a paused campaign; `CampaignEnds` counts a pause as an end of
running. A worker's death is not among the troubles of `orchestrator_live`: a run
it leaves in `processing` is never returned, counts as pending work for ever, and
keeps the campaign enqueueing empty batches. Neither code nor documentation
promises otherwise. `BatchWorker` states no fairness: its properties are about what a
batch leaves behind wherever it stops.

In `model_server_live` each part has the fairness of its threads: the event loop and
the GPU or batch thread keep running, a stream that is open is read, a debounce timer
fires, a streaming response polls its queue. Clients owe nothing: no audio, commit,
clear or request is ever fair. A worker that has died stays dead, so `EveryRequestEnds`
promises nothing to the requests for speech it leaves behind (section 5).

**Where `CompletedIsThrough` ends.** It speaks of campaigns that were `Calm`: not
paused by anybody, not outside their schedule. After a pause or a closed window
longer than the idle window it does not hold: `_last_activity` is then old, a
batch enqueued by a sweep does not refresh it, and a sweep between the batch's
event and its record completes the campaign with calls in flight. The same happens
without any trouble when the retry delay comes near the idle window, which
`orchestrator_delay` shows (section 5). For shorter delays it is a theorem
(section 4), with restarts and second reports of a call excluded. A restart is among
the troubles of the run `orchestrator`; a second report is not, because
`RowsFailOnce` does not hold with it. `TerminalIsFinal` does not hold with two
troubles such as a tripped breaker and a failing batch: the run has one at a time, the
theorem any number of those that it allows.

## 4. Proofs

All theorems hold for every number of attempts, runs, jobs, reports, requests, sockets
and sessions, every limit, batch size and timeout, and any number of faults and
cancellations, under the named assumptions of the modules. These ask what the code and
its configuration give:

- `LimitsAssumption`: finite sets, limits above 0 (the request schema's range is 1-20);
  the `BoundsAssumption`s: the other numbers are naturals;
- `CampaignAssumption`: finitely many contacts; a breaker with a window and a minimum of
  calls above 0; verbs and outcomes that are what their names say. `NumbersAssumption`:
  agents, numbers, applications and `None` are different things;
- `SttAssumption`, `RealtimeAssumption`: limits are naturals, the sockets are finitely
  many. `DeltaAssumption`: a turn has words. `TtsAssumption`: a response has a frame, a
  decode comes round after at least a step.

`CallSlotsProofs` shows an inductive invariant `IInv`:

- the type invariant and the order of events (`NotYetDialled`,
  `ReportsOfEndedCalls`, `OrgReleasedFirst`): an attempt has no call before its
  dial, a report comes after the end of its call, and the organisation's set is
  the first a release empties;
- `DialledCallsHold`: a slot leaves the set only by the end of the call, by the
  lease or by its own dispatch giving up;
- `MappingOutlivesLease`: the TTL of the mapping is at least the lease, which is
  what is missing in `BoundSlotKeepsMapping` to be inductive;
- `SlotSetsAgree`, and the two counts `OrgWithin` and `ScopeWithin`, over fresh
  members only: the script compares the sets after the trim, but members of the
  *campaign's* set may be released there later than in the organisation's.

From it follow `LimitsHold` (the cap on calls), `MappingKept`, `SetsAgree`,
`RefusalJustified` (an action property) and `Refinement`: every step of the
protocol is a step of `CallAdmission` or a stutter.

`BatchWorkerProofs` shows `IInv == TypeOK /\ LedgerInv /\ Counted /\ Uncalled /\
NoContactLost /\ Reported`. `LedgerInv` is the heart: the shape of the locals at
each step, that two jobs never are at the same run (`Disjoint`), that a run a job
holds is in `processing` unless its bookkeeping has just failed, that linked runs
are settled, and that what a batch may give back is only what it still holds
(`ReturnsOnlyHeld`). The last one is needed because the return goes by the list
of *all* claims without `processed_ids`, filtered by state and `call_id` in the
database: without it the return of one batch could take a run another one has
claimed since. From it follow `RunsExclusive`, `ContactsKept`, `CalledOnce`,
`LinkedSafe`, `CountBounded`, `JobsReport` and `Refinement` (to `RunLedger`).

`OrchestratorProofs` shows `TypeOK`, which needs only `InHand` (a listener at work on
a retry has one in hand, with an attempt on the right side of `MaxRetries`), and
`RowsFailOnce`, for any contacts, batches, times and troubles, but for one: under the
assumption that no call is reported twice (`"duplicate" \notin Kinds`). That
assumption is needed: a second report of a last attempt adds to `failed_rows` again,
see below. `RowsFailOnce` follows from the stronger `FailedAreCounted`: `failed_rows`
is at most the number of contacts whose last attempt has settled and whose report is
not on its way any more. For this to be inductive, a retry must come after the end of
its attempt (`RetriesFollow`), an attempt be reported once (`ReportedOnce`), and a
batch hold runs in `processing` only, no two the same (`Held`): else the end of a
batch could make a settled run a queued one.

The rest of `OrchestratorProofs` is about the clock. `CompletedHasNoneLeft` states
`CompletedIsThrough` and `EndIsFinal` `TerminalIsFinal`, for any contacts, batches,
retries and number of failing, lost and cancelled batches, from these assumptions:

- `IdleIsLong`: the idle window is longer than a call and a `Round`, which is the
  retry delay, the time after which a batch counts as lost, a sweep and a batch; plus
  another round if a worker may die, and one if a batch may be cancelled, since these
  publish nothing. With the defaults (ticks of 5 s: 24 + 60 + 12, and 60 for the 300 s
  ARQ allows a job) a round is 156 ticks, so that with both troubles calls of up to 20
  minutes fit into the 720 ticks of the hour. With a retry delay near the hour, which
  the API accepts, it fails, and so does the property (`orchestrator_delay`);
- no restart and no second report of a call, and for `EndIsFinal` no pause, trip or
  closed window. After a restart the age is the document's, which calls and retries do
  not touch; a second report makes the listener raise and restart.

The invariant is `IdleInv`. `Plain` says what calm steps need: nobody is down, only a
listener at work has a retry in hand and it is the newest attempt's, waits are within
their bounds, and who has taken the lock will release it. `Decided => Done` is the aim:
when the monitor has decided to complete, no contact, event or batch is left, and nothing
can bring one back (`DoneStays`). That a campaign found inactive is done is `Bounded`:
as long as something is to be done, `_last_activity` is at most `Lost + Round + CallTime`
old, where `Lost` counts a round for each batch that vanished. `Bounded` is not inductive,
because how long the rest may still take depends on where it stands; that is `Recent`,
one bound for each place: a batch at work (`BusyRecent`, relative to its age), a call in
flight (`CallsRecent`, to its wait), a retry (`RetriesRecent`), a run that is due and
waits for the next sweep (`DueRecent`, to the monitor's nap and the lock), a batch
counted as in progress that is gone (`PassRecent`, to the age of its record). `Stamped`
says as much of the document's age, which the monitor takes where memory has none. A run
that a dead worker left in `processing` (`Orphaned`) keeps the campaign open for ever and
frees the rest of the invariant of it. The lemmas on single steps (`Refreshed`,
`BusyShrinks`, `RunSteps`, `AgeSteps`, ...) say what any calm step does to one of these
quantities, by cases over the actions; the lemmas that bring them together have no such
cases. TLC has `IdleInv` hold on an instance of one contact with two retries, with lost,
failing and cancelled batches, and an idle window of 17 ticks.

`CallLogProofs` shows that `OutcomeStands` holds for every number of webhook
deliveries and of requests that are refused or break off. It is not inductive: that
a log answered is a log the agent talked on needs `WritersFollow` (the pipeline's writers run
after the pipeline), that the campaign hears only of ended calls needs
`NotifiesAfterEnd`, `EndedIsMade` and `NothingYet` (nobody has a report before the
dial, whose first write begins the log anew), and both need `KnownIsMade`: the
pipeline finalises only a call whose id it has, and that call has a log. The lemmas
say what the API's operations (`Closed`, `Registered`, `Updated`, `Linked`) make of a
log, so that no step looks into them.

`Refinement` is that `CallLog` implements `CallRecord`. What it needs besides `IInv` is
`RecordInv`: a log that is not made is blank (`BlankUntilMade`), so that whoever makes
it makes all of it; only dialled calls have a dial, and its first write is the log's
(`DialsMake`), so that `register_inbound_call` and the dial never both make one
(`OthersRegister`); a log that names its campaign has had its dial answered
(`OwnedIsPlaced`); and a hang-up that is about to tell the campaign is in the log
(`HooksFollow`), unless the dial has been taken for failed after it, in which case there
is no campaign to tell. The lemmas `...Maps` give each writer's step its abstract one.

`AsteriskBridgeProofs` shows `PortsExclusive`, `SomeoneInCharge` and `CleanedUp` for
any number of channels, ports and faults (assumed: `MaxChannelsIsNat`,
`MaxFaultsIsNat`, and that `None` is neither a channel nor a port). The first two
are conjuncts of the inductive invariant; `CleanedUp` follows from it and needs most
of the rest. A call that can still be cleaned up holds one port at most, that of its
socket, and the socket is in the session except for the one await in which the
clean-up has it in hand (`HoldsOnePort`); whoever cleans up has taken the call out,
and the session before the socket (`TakenOut`); before a call is registered nobody
but its set-up knows it (`NotRegistered`); and a pump that has ended has closed its
websocket (`Pumps`). TLC has this invariant hold on the instance of the run, too.

`ApiProofs` has an invariant for each part of `Api`, said of the behaviours of that
part; that of the log is `CallLogProofs`' own, and `RecordKept` its refinement.

For the links between agents and numbers, `RoutedAlike` holds by `Uncrossed`, as long as
no two requests have reached for the same agent or number: they reach for different
ones (`Apart`), so what a request has read is still so when it writes (`ReadStands`: the
number it unlinks shows the agent it read; `FreeToLink`: no other agent shows the number
it is about to link, and its application is still its agent's). `RequestsOK` says which
steps a request of each kind takes, and so which of the fields it has.

For the campaign, `CampaignInv` has

- `LoopHeld`: a handler between two of its awaits has the event loop, so no other
  handler moves under it; without it `JobFollows` would not survive a step;
- `JobFollows`: nobody takes the campaign from under a handler about to start it, and a
  job that is about to be done, or is, finds the campaign past `syncing`. From it
  follow `SyncingKeepsJob` and `EndStands`;
- `RunsCounted`: the runs of first attempts are those of the source, or none, and a
  redial counts its own last. `TotalsMatch` follows, with the cardinalities;
- `BreakerKnows`: the breaker's sets are the times of the outcomes in its window. As
  two outcomes of one instant are one member, it counts at most what there was, so that
  when it trips there have been enough (`TripsOnFresh`, an action property).

`SttStreamProofs` follows a unit of speech from the message that brought it to the text
that is committed. A session is owed what it was fed; what it holds, in `pending`, in its
buffer or in what it has said, is in order (`Sound`), and what it is owed and does not
hold is on its way in the tick's hands, unless a tick raised (`Holds`, with `Flying`).
The tick has a session once (`Due`), and a chunk fits where it was taken. Between the
tick's four steps the handlers only let a session grow (`Grown`), or open a new one.
A delta that is final says all that is owed (`Finals`, `Whole`) and stays so in the
outbox, past rolls and commits (`Delivered`); nobody feeds a session whose final was
asked for (`Current`). `FinalsSayAll` is what comes out at the end; `SessionsStayOwned`
is the conjunct `Owned` with the engine's limit.

`ModelServerProofs` has one invariant for each of the other three parts, and brings all
four together for `TypeCorrect`:

- `RealtimeInv`: a commit that is owed an answer has its inference before it, and what
  is transcribed for it is all the socket has (`Hearing`): an interim of the same
  segment may run beside it but cannot end it. `CommitsHearAll` is an action property;
- `TtsInv`: the running requests are numbered from 0 in each cache (`SlotsOK`). That two
  compactions agree, of caches which were filled and emptied by different calls, rests
  on the lemma `CompactNumbers`: ranking numbers that differ gives 0..n-1, without gap,
  by the injection theorems. `StreamsOK` says that what is on the way to a caller goes
  on from what it has and ends where the worker will go on;
- `DeltaInv`: the word held back is the trailing one of its snapshot and the words
  before it are out (`Holding`); while a call sends, what it has sent of its settled
  words is out (`Saying`). The witness of `NothingMissing`, a place in the wire for
  each word, is extended with each send.

TLC has `SttInv` and `TtsInv` hold on the instance of the run, too.

Only model-checked: liveness (`CampaignEnds`, `EveryRequestEnds`), which
is out of the prover's reach, and of what the assumptions above leave out: `CompletedIsThrough`
after a restart, and `TerminalIsFinal` with a tripped breaker or a restart. The lemmas about sequences and orders that the proofs share are
proved from the library's theorems; no recursion over data occurs in the modules with
proofs.

## 5. What the code does otherwise than the documentation says

Shown by a run:

| Run | Property | In short |
|---|---|---|
| `batch_worker_redial` | `RunDialledOnce` | cancelled between call and link, a run is dialled again |
| `orchestrator_delay` | `CompletedIsThrough` | with a retry delay as long as the idle window a sweep completes the campaign while the retry is being called, and the next retry is never dialled |
| `stt_order` | `TurnsInOrder` | a short turn overtakes a long one that was rolled before it: the transcript is out of order |
| `parler_tail` | `SpeechIsWhole` | of three responses that finish in one step, the end of one is never streamed |

Found while modelling, and quoted in `PROJECT.json` with their lines:

- a dispatch that fails before it dials keeps its slot for 20 minutes, and one
  whose dial lost its answer frees the slot of a live call;
- a pause request overwrites `failed`; a pause during the sync is lost when the sync
  ends;
- redial takes contacts whose retry connected, and takes twice those whose retry failed;
- the answer to a dial sets a log back to `ringing` or `failed` that is closed already;
- a number of another organisation is refused with a clear message, where the
  documentation promises a duplicate key;
- the bridge may take its own media leg for a caller, when Asterisk's event is
  faster than the answer to the request;
- from the second turn on, the realtime deltas of a stream repeat its earlier turns;
- requests for speech that the dead worker had not begun poll for ever.

The passing properties are stated so that they hold around these:
`LiveCallsWithinLimits` counts the calls whose dispatch has not given up on them,
`OneCallUnlessCancelled` excludes cancellations, `CompletedIsThrough` is about
campaigns without pauses, `EndedIsLeftAlone` excludes the tasks under way at the end,
`OutcomeStands` the dials taken for failed, `RoutedAlike` requests that have crossed,
`NothingMissing` allows repetition, `AudioInOrder` a missing end.

## 6. Not modelled

- The per-second token window: it delays, and `BatchWorker` lets a batch wait. The
  pool of caller numbers (planned).
- PATCH of a campaign and the counters in its metadata, CSV upload, reports.
- In `Orchestrator`: the number of lock timers of one tick; retry filters by
  reason (the report either asks for a retry or not, `CallEnds`; the filter is in
  `CampaignApi`); MongoDB errors, which end the listener as a duplicate does
  (`InsertRaises`, `Restart`).
- The pipeline inside the runtime (pipecat's frames, idle and hold handling),
  serializers and vendors' stream formats; the wording of providers' requests.
- The bridge's codec and RTP headers, and the methods of the vendored ARI client
  which the bridge never calls.
- The networks of the model server, audio conversion, the NeMo engine, the
  fixed-window server and the benchmarks.
- Handlers over single documents (accounts, members, knowledge, storage),
  provider adapters, frontend (most of the repository's lines), deployment: no state
  machine that a model checker would say more about than a unit test.

Known, and watched by no property: `processing` claims of a dead worker are never
returned; the mapping of a caller number (1800 s) outlives its loan (1200 s), so
that a late report frees a number lent again; `max_concurrency` of zero; the last
report of a contact that arrives twice counts it twice; a hang-up cause the mapping
does not know leaves a campaign's call unreported; a call of the bridge whose RTP
socket does not bind keeps its port.

## 7. Plan

Done, in this order: `CallAdmission`, `CallSlots` with proofs, `RunLedger`,
`BatchWorker` with proofs, `Orchestrator` with proofs; `CampaignApi` with the breaker,
`AsteriskBridge` and `CallLog` with proofs, `NumberLinks`, and the model server
(`SttStream`, `DeltaEmitter`, `RealtimeStt`, `ParlerTts`); the proofs of `Api` and of
`ModelServer`; completion and the end states in `OrchestratorProofs`; `CallRecord`.

1. `FromNumberPool`: numbers are lent by one script and given back by slot or by
   the mapping. Abstract specification: a number has one borrower.
2. `CallLog` composed with `CampaignApi`: reports as the calls' writers send them,
   then `RowsFailOnce` across them.
