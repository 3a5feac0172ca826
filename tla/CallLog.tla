------------------------------- MODULE CallLog -------------------------------
(***************************************************************************)
(* The record of one call, and who writes it: the service that dials, the  *)
(* runtime's answer webhook, its media websocket, the hang-up webhooks and *)
(* the recorder.  The API applies a PATCH at once (one process, no await   *)
(* between its read and its write); the dialling service may be the worker *)
(* of a campaign, a process of its own.                                    *)
(*   What a request of the runtime comes to: it is carried out; it is      *)
(* refused (BackendError); or it breaks off (any other exception of the    *)
(* HTTP client), before or after the API has carried it out.               *)
(***************************************************************************)
EXTENDS Naturals, FiniteSets

CONSTANTS
  NHooks,      \* bound: deliveries of the hang-up webhook
  MaxFailures  \* bound: requests that do not go well

ASSUME BoundsAssumption == NHooks \in Nat /\ MaxFailures \in Nat

VARIABLES
  kind,      \* "campaign" or "manual" (dialled), "inbound" (answer webhook), "direct"
             \* (inbound, straight to the websocket), "web" (browser)
  log,       \* the document of CallLogs
  metrics,   \* the call's document in CallMetrics is there
  line,      \* the provider's side: "none", "ringing", "up", "over"
  cause,     \* what map_hangup_call_response makes of the end
  dial,      \* where initiate_outbound_call and the dispatcher stand
  answer,    \* where the answer webhook stands
  ws,        \* where the media websocket stands
  known,     \* the websocket has the call_id of this log
  talked,    \* the agent's pipeline has run
  recorder,  \* the recorder's upload: "none", "due", "done"
  hook,      \* delivery of the hang-up webhook -> where it stands
  told,      \* responses the campaign was told of, as calls of the campaign
  failures

vars == <<kind, log, metrics, line, cause, dial, answer, ws, known, talked, recorder,
          hook, told, failures>>

Hooks == 1 .. NHooks
Kinds == {"campaign", "manual", "inbound", "direct", "web"}
Outbound == kind \in {"campaign", "manual"}
Causes == {"none", "busy", "no_answer", "failed", "cancelled"}
Responses == {"none", "pending", "answered", "busy", "no_answer", "failed", "cancelled"}
Statuses == {"none", "initiated", "ringing", "failed", "in_progress", "completed"}

\* The hang-up URL of a dialled call carries its call_id; the others go by the sid.
Tagged == Outbound

NoLog == [status |-> "none", response |-> "none", sid |-> FALSE, ended |-> FALSE,
          campaign |-> FALSE, links |-> {}]

Made == log.status # "none"

Init ==
  /\ kind \in Kinds
  /\ log = NoLog /\ metrics = FALSE
  /\ line = "none" /\ cause = "none"
  /\ dial = "none" /\ answer = "none"
  /\ ws = "none" /\ known = FALSE /\ talked = FALSE /\ recorder = "none"
  /\ hook = [h \in Hooks |-> "none"]
  /\ told = {}
  /\ failures = 0

Fails == failures < MaxFailures /\ failures' = failures + 1
Well  == UNCHANGED failures

---------------------------------------------------------------------------
(* The API's service.                                                      *)

\* register_inbound_call, register_web_call: created once per sid.
Registered == IF Made THEN log
              ELSE [NoLog EXCEPT !.status = "in_progress", !.response = "pending", !.sid = TRUE]

\* A slip: the response of a later patch replaces "answered".
Closed_Replaces(response) ==
  [log EXCEPT !.status = "completed",
              !.response = IF response = "none" THEN @ ELSE response, !.ended = TRUE]

\* patch_call_log: "answered" is kept, and so is the first end.
Closed(response) ==
  LET final == log.response = "answered" IN
  [log EXCEPT !.status = IF final THEN @ ELSE "completed",
              !.response = IF final \/ response = "none" THEN @ ELSE response,
              !.ended = TRUE]

Linked(field) == [log EXCEPT !.links = @ \cup {field}]

\* update_call_log by the dialling service: whatever the log says by now.
Updated(status, response) ==
  [log EXCEPT !.status = status, !.response = IF response = "none" THEN @ ELSE response]

\* internal_call_status: the campaign is the log's.
Notified(response) == IF log.campaign THEN told \cup {response} ELSE told

---------------------------------------------------------------------------
(* Dialling.                                                               *)

dialRest == <<kind, metrics, cause, answer, ws, known, talked, recorder, hook, told>>

InitiateOutbound ==
  /\ Outbound /\ dial = "none"
  /\ log' = [NoLog EXCEPT !.status = "initiated", !.response = "pending"]
  /\ dial' = "dialing"
  /\ Well /\ UNCHANGED <<dialRest, line>>

\* No credentials: the log is failed before anyone else hears of the call.
NoCredentials ==
  /\ Outbound /\ dial = "none" /\ Fails
  /\ log' = [NoLog EXCEPT !.status = "failed", !.response = "failed"]
  /\ dial' = "failed"
  /\ UNCHANGED <<dialRest, line>>

\* External: the provider places the call it is asked for.
Placed ==
  /\ dial = "dialing" /\ line = "none"
  /\ line' = "ringing"
  /\ Well /\ UNCHANGED <<dialRest, log, dial>>

DialAnswered ==
  /\ dial = "dialing" /\ line # "none"
  /\ log' = [Updated("ringing", "none") EXCEPT !.sid = TRUE]
  /\ dial' = IF kind = "campaign" THEN "link" ELSE "done"
  /\ Well /\ UNCHANGED <<dialRest, line>>

\* Refused by the provider, or placed and the answer lost.
DialRaises ==
  /\ dial = "dialing" /\ Fails
  /\ log' = Updated("failed", "failed")
  /\ dial' = "failed"
  /\ UNCHANGED <<dialRest, line>>

\* dispatch_call: the log gets the campaign it belongs to.
LinkCampaign ==
  /\ dial = "link"
  /\ log' = [log EXCEPT !.campaign = TRUE]
  /\ dial' = "done"
  /\ Well /\ UNCHANGED <<dialRest, line>>

---------------------------------------------------------------------------
(* External: the provider, the caller and the browser.                     *)

lineRest == <<kind, log, metrics, dial, ws, known, talked, recorder, hook, told, failures>>

\* A call comes in.  Two of the providers stream at once, the others ask first.
Arrives ==
  /\ kind \in {"inbound", "direct", "web"} /\ line = "none"
  /\ line' = IF kind = "inbound" THEN "ringing" ELSE "up"
  /\ answer' = IF kind = "inbound" THEN "due" ELSE "none"
  /\ UNCHANGED <<lineRest, cause>>

\* The callee picks up, and the provider asks what to do.
PickedUp ==
  /\ Outbound /\ line = "ringing" /\ answer = "none"
  /\ line' = "up" /\ answer' = "due"
  /\ UNCHANGED <<lineRest, cause>>

\* The end of a call may be given any cause.
LineEnds ==
  /\ line \in {"ringing", "up"}
  /\ line' = "over"
  /\ cause' \in Causes
  /\ UNCHANGED <<lineRest, answer>>

\* The stream is opened: at once, or as the answer says.
StreamOpens ==
  /\ line = "up" /\ ws = "none"
  /\ \/ kind = "direct" /\ known' = FALSE
     \/ kind \in {"campaign", "manual", "inbound"} /\ answer = "replied" /\ known' = Made
  /\ ws' = "agent"
  /\ UNCHANGED <<kind, log, metrics, line, cause, dial, answer, talked, recorder, hook, told, failures>>

\* A browser registers its call first, or leaves it to the runtime.
BrowserOpens ==
  /\ kind = "web" /\ line = "up" /\ ws = "none"
  /\ known' \in BOOLEAN
  /\ log' = IF known' THEN Registered ELSE log
  /\ ws' = "agent"
  /\ UNCHANGED <<kind, metrics, line, cause, dial, answer, talked, recorder, hook, told, failures>>

---------------------------------------------------------------------------
(* The answer webhook.                                                     *)

answerRest == <<kind, metrics, cause, dial, ws, known, talked, recorder, hook, told>>

\* telephony_answer: loads the agent, and registers a call that has no id yet.
AnswerAgent ==
  /\ answer = "due"
  /\ answer' = IF Tagged THEN "replied" ELSE "register"
  /\ Well /\ UNCHANGED <<answerRest, log, line>>

AnswerRegister ==
  /\ answer = "register"
  /\ log' = Registered
  /\ answer' = "replied"
  /\ Well /\ UNCHANGED <<answerRest, line>>

\* Answered with an error; the call it asked to register may be registered.
AnswerFails ==
  /\ answer \in {"due", "register"} /\ Fails
  /\ answer' = "failed"
  /\ log' \in {log} \cup (IF answer = "register" THEN {Registered} ELSE {})
  /\ UNCHANGED <<answerRest, line>>

---------------------------------------------------------------------------
(* The media websocket.                                                    *)

wsRest == <<kind, line, cause, dial, answer, hook>>

Routed ==
  /\ ws = "agent"
  /\ ws' = IF known THEN "load" ELSE "register"
  /\ Well /\ UNCHANGED <<wsRest, log, metrics, known, talked, recorder, told>>

\* A refusal is survived: the agent talks, and nothing is written.
WsRegister ==
  /\ ws = "register"
  /\ \/ Well /\ log' = Registered /\ known' = TRUE /\ ws' = "load"
     \/ Fails /\ UNCHANGED <<log, known>> /\ ws' = "start"
  /\ UNCHANGED <<wsRest, metrics, talked, recorder, told>>

\* get_call: only its variables are used, except that a browser whose log
\* cannot be read is given another one.
WsLoad ==
  /\ ws = "load"
  /\ \/ Well /\ UNCHANGED known
     \/ Fails /\ known' = (kind # "web")
  /\ ws' = "start"
  /\ UNCHANGED <<wsRest, log, metrics, talked, recorder, told>>

WsCloses ==
  /\ ws \in {"agent", "register", "load", "start"} /\ Fails
  /\ ws' = "closed"
  /\ log' \in {log} \cup (IF ws = "register" THEN {Registered} ELSE {})
  /\ UNCHANGED <<wsRest, metrics, known, talked, recorder, told>>

RunPipeline ==
  /\ ws = "start"
  /\ ws' = "running" /\ talked' = TRUE
  /\ recorder' = IF known THEN "due" ELSE "none"
  /\ Well /\ UNCHANGED <<wsRest, log, metrics, known, told>>

\* The caller hangs up, the agent says goodbye, or the pipeline raises.
PipelineEnds ==
  /\ ws = "running"
  /\ ws' = IF known THEN "transcript" ELSE "done"
  /\ Well /\ UNCHANGED <<wsRest, log, metrics, known, talked, recorder, told>>

\* save_and_link: the upload or the PATCH may fail, and nothing else does.
FlushTranscript ==
  /\ ws = "transcript"
  /\ \/ Well /\ log' = Linked("transcript_url")
     \/ Fails /\ log' \in {log, Linked("transcript_url")}
  /\ ws' = "metrics"
  /\ UNCHANGED <<wsRest, metrics, known, talked, recorder, told>>

FlushMetrics ==
  /\ ws = "metrics"
  /\ \/ Well /\ metrics' = TRUE
     \/ Fails /\ metrics' \in {metrics, TRUE}
  /\ ws' = "close"
  /\ UNCHANGED <<wsRest, log, known, talked, recorder, told>>

\* finalize_call: the PATCH, and the campaign only if it went well.
FinalizeCall ==
  /\ ws = "close"
  /\ \/ Well /\ log' = Closed("answered") /\ ws' = "notify"
     \/ Fails /\ log' \in {log, Closed("answered")} /\ ws' = "unclosed"
  /\ UNCHANGED <<wsRest, metrics, known, talked, recorder, told>>

FinalizeNotify ==
  /\ ws = "notify"
  /\ \/ Well /\ told' = Notified("answered")
     \/ Fails /\ told' \in {told, Notified("answered")}
  /\ ws' = "done"
  /\ UNCHANGED <<wsRest, log, metrics, known, talked, recorder>>

\* on_audio_data, in a task of its own.
SaveRecording ==
  /\ recorder = "due" /\ ws # "running"
  /\ \/ Well /\ log' = Linked("recording_url")
     \/ Fails /\ log' \in {log, Linked("recording_url")}
  /\ recorder' = "done"
  /\ UNCHANGED <<wsRest, ws, metrics, known, talked, told>>

---------------------------------------------------------------------------
(* The hang-up webhooks.                                                   *)

hookRest == <<kind, metrics, line, cause, dial, answer, ws, known, talked, recorder>>

\* External: the provider reports the end, once or more often.
Delivered(h) ==
  /\ line = "over" /\ kind # "web" /\ hook[h] = "none"
  /\ hook' = [hook EXCEPT ![h] = "patch"]
  /\ Well /\ UNCHANGED <<hookRest, log, told>>

\* _close_call_log: by call_id or by sid; without the log it ends there.
Found == Made /\ (Tagged \/ log.sid)

\* A slip: the campaign is told although the log could not be closed.
CloseCallLog_TellsAnyway(h) ==
  /\ hook[h] = "patch"
  /\ \/ Well /\ Found /\ log' = Closed(cause)
     \/ Well /\ ~Found /\ UNCHANGED log
     \/ Fails /\ log' \in {log} \cup (IF Found THEN {Closed(cause)} ELSE {})
  /\ hook' = [hook EXCEPT ![h] = IF Found /\ Tagged /\ cause # "none" THEN "notify" ELSE "done"]
  /\ UNCHANGED <<hookRest, told>>

CloseCallLog(h) ==
  /\ hook[h] = "patch"
  /\ \/ /\ Found /\ Well
        /\ log' = Closed(cause)
        /\ hook' = [hook EXCEPT ![h] = IF Tagged /\ cause # "none" THEN "notify" ELSE "done"]
     \/ ~Found /\ Well /\ UNCHANGED log /\ hook' = [hook EXCEPT ![h] = "done"]
     \/ /\ Fails
        /\ log' \in {log} \cup (IF Found THEN {Closed(cause)} ELSE {})
        /\ hook' = [hook EXCEPT ![h] = "done"]
  /\ UNCHANGED <<hookRest, told>>

HookNotify(h) ==
  /\ hook[h] = "notify"
  /\ \/ Well /\ told' = Notified(cause)
     \/ Fails /\ told' \in {told, Notified(cause)}
  /\ hook' = [hook EXCEPT ![h] = "done"]
  /\ UNCHANGED <<hookRest, log>>

---------------------------------------------------------------------------
Dialling == InitiateOutbound \/ NoCredentials \/ DialAnswered \/ DialRaises \/ LinkCampaign
Provider == Placed \/ Arrives \/ PickedUp \/ LineEnds \/ StreamOpens \/ BrowserOpens
Webhook  == AnswerAgent \/ AnswerRegister \/ AnswerFails
Socket   == \/ Routed \/ WsRegister \/ WsLoad \/ WsCloses \/ RunPipeline \/ PipelineEnds
            \/ FlushTranscript \/ FlushMetrics \/ FinalizeCall \/ FinalizeNotify
            \/ SaveRecording
HangUp   == \E h \in Hooks : Delivered(h) \/ CloseCallLog(h) \/ HookNotify(h)

Next == Dialling \/ Provider \/ Webhook \/ Socket \/ HangUp

Spec == Init /\ [][Next]_vars

---------------------------------------------------------------------------
\* Type correctness.
TypeOK ==
  /\ kind \in Kinds
  /\ log \in [status: Statuses, response: Responses, sid: BOOLEAN, ended: BOOLEAN,
              campaign: BOOLEAN, links: SUBSET {"transcript_url", "recording_url"}]
  /\ metrics \in BOOLEAN
  /\ line \in {"none", "ringing", "up", "over"} /\ cause \in Causes
  /\ dial \in {"none", "dialing", "link", "done", "failed"}
  /\ answer \in {"none", "due", "register", "replied", "failed"}
  /\ ws \in {"none", "agent", "register", "load", "start", "running", "transcript",
             "metrics", "close", "notify", "done", "unclosed", "closed"}
  /\ known \in BOOLEAN /\ talked \in BOOLEAN /\ recorder \in {"none", "due", "done"}
  /\ hook \in [Hooks -> {"none", "patch", "notify", "done"}]
  /\ told \subseteq Responses
  /\ failures \in 0 .. MaxFailures

\* Whatever order the reports of a call come in, and however often: a call the
\* agent talked on is logged as answered and ended once its pipeline has said
\* so, and no other call is; only a dial that is taken for failed while its call
\* is on says otherwise.  A campaign hears of the calls the log has ended.
OutcomeStands ==
  /\ ws \in {"notify", "done"} /\ known /\ dial # "failed"
       => log.response = "answered" /\ log.ended
  /\ log.response = "answered" => talked
  /\ told # {} => log.campaign /\ log.ended

---------------------------------------------------------------------------
(* What CallRecord promises.                                               *)

Stage == IF log.status = "none" THEN "none"
         ELSE IF log.status \in {"completed", "failed"} THEN "closed" ELSE "open"

DialStage == IF dial = "dialing" THEN "open"
             ELSE IF dial \in {"link", "done"} THEN "placed" ELSE dial

Record == INSTANCE CallRecord WITH
  Outcomes <- Responses, Files <- {"transcript_url", "recording_url"},
  stage <- Stage, outcome <- log.response, ended <- log.ended, dial <- DialStage,
  owned <- log.campaign, files <- log.links

\* calls.md: a record is made once, an answered call stays answered, an end is never
\* taken back, whichever of the five writers comes first, repeats itself or breaks off;
\* only the answer to the dial opens it again.  The campaign hears what the log says,
\* and besides it a hang-up's cause of a call that was answered.
ImplementsRecord == Record!Spec
=============================================================================
