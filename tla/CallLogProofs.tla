--------------------------- MODULE CallLogProofs ---------------------------
(***************************************************************************)
(* That the outcome of a call stands, for any number of hang-up webhooks   *)
(* and of requests that go wrong.                                          *)
(***************************************************************************)
EXTENDS CallLog, TLAPS

---------------------------------------------------------------------------
(* The inductive invariant.                                                *)

\* Before the dial there is no call: nobody has anything to report.
NothingYet ==
  Outbound /\ dial = "none"
    => line = "none" /\ ws = "none" /\ told = {} /\ \A h \in Hooks : hook[h] = "none"

\* Whoever knows the log's id has got it from the log, and uses it only then.
KnownIsMade ==
  /\ known => Made
  /\ ws \in {"load", "transcript", "metrics", "close", "notify"} => known

\* A log that has ended has been made.
EndedIsMade == log.ended => Made

\* The pipeline's writers are at work only after the pipeline.
WritersFollow ==
  ws \in {"running", "transcript", "metrics", "close", "notify"} => talked

\* The campaign is told after the log has been ended.
NotifiesAfterEnd ==
  /\ ws = "notify" => log.ended
  /\ \A h \in Hooks : hook[h] = "notify" => log.ended

IInv ==
  /\ TypeOK /\ NothingYet /\ KnownIsMade /\ EndedIsMade /\ WritersFollow
  /\ NotifiesAfterEnd /\ OutcomeStands

\* A call begins with the invariant.
LEMMA InitIInv == Init => IInv
<1> SUFFICES ASSUME Init PROVE IInv
  OBVIOUS
<1>1. TypeOK
  <2>1. log \in [status: Statuses, response: Responses, sid: BOOLEAN, ended: BOOLEAN,
                 campaign: BOOLEAN, links: SUBSET {"transcript_url", "recording_url"}]
    BY DEF Init, NoLog, Responses, Statuses
  <2>2. failures \in 0 .. MaxFailures /\ hook \in [Hooks -> {"none", "patch", "notify", "done"}]
    BY BoundsAssumption DEF Init
  <2> QED
    BY <2>1, <2>2 DEF Init, TypeOK, Kinds, Causes
<1>2. NothingYet /\ WritersFollow /\ KnownIsMade
  BY DEF Init, NothingYet, WritersFollow, KnownIsMade
<1>3. EndedIsMade /\ NotifiesAfterEnd /\ OutcomeStands
  BY DEF Init, EndedIsMade, NotifiesAfterEnd, OutcomeStands, NoLog
<1> QED
  BY <1>1, <1>2, <1>3 DEF IInv

---------------------------------------------------------------------------
(* Type correctness.                                                       *)

USE DEF Fails, Well

\* The documents CallLogs may hold.
Logs == [status: Statuses, response: Responses, sid: BOOLEAN, ended: BOOLEAN,
         campaign: BOOLEAN, links: SUBSET {"transcript_url", "recording_url"}]

\* The log of a well-typed state.
LEMMA TypeOKLog == TypeOK => log \in Logs
  BY DEF TypeOK, Logs

\* What the API makes of a log is a log.
LEMMA LogsStayLogs ==
  ASSUME log \in Logs
  PROVE  /\ \A r \in Responses : Closed(r) \in Logs
         /\ Registered \in Logs
         /\ \A s \in Statuses, r \in Responses : Updated(s, r) \in Logs
         /\ \A x \in {"transcript_url", "recording_url"} : Linked(x) \in Logs
  BY DEF Logs, Closed, Registered, Updated, Linked, NoLog, Statuses, Responses

\* What the dialling service makes of it, too.
LEMMA DialledLogs ==
  ASSUME log \in Logs
  PROVE  /\ [NoLog EXCEPT !.status = "initiated", !.response = "pending"] \in Logs
         /\ [NoLog EXCEPT !.status = "failed", !.response = "failed"] \in Logs
         /\ [Updated("ringing", "none") EXCEPT !.sid = TRUE] \in Logs
         /\ [log EXCEPT !.campaign = TRUE] \in Logs
<1>1. /\ [NoLog EXCEPT !.status = "initiated", !.response = "pending"] \in Logs
      /\ [NoLog EXCEPT !.status = "failed", !.response = "failed"] \in Logs
  BY DEF NoLog, Logs, Statuses, Responses
<1>2. \A l \in Logs : [l EXCEPT !.sid = TRUE] \in Logs /\ [l EXCEPT !.campaign = TRUE] \in Logs
  BY DEF Logs
<1>3. Updated("ringing", "none") \in Logs
  BY LogsStayLogs DEF Statuses, Responses
<1> QED
  BY <1>1, <1>2, <1>3

\* The campaign is told responses.
LEMMA NotifiedAreResponses ==
  ASSUME TypeOK, NEW r \in Responses
  PROVE  Notified(r) \subseteq Responses
  BY DEF TypeOK, Notified

\* Every step keeps the types.
LEMMA TypeStep == TypeOK /\ [Next]_vars => TypeOK'
<1> SUFFICES ASSUME TypeOK, [Next]_vars
             PROVE  TypeOK'
  OBVIOUS
<1>1. CASE Dialling
  <2>1. CASE InitiateOutbound
    <3>1. log' \in Logs
      BY <2>1, TypeOKLog, DialledLogs DEF InitiateOutbound, dialRest
    <3>2. failures' \in 0 .. MaxFailures
      BY <2>1, BoundsAssumption DEF TypeOK, InitiateOutbound, dialRest
    <3>3. told' \subseteq Responses
      BY <2>1 DEF TypeOK, InitiateOutbound, dialRest
    <3> QED
      BY <2>1, <3>1, <3>2, <3>3 DEF TypeOK, Logs, InitiateOutbound, dialRest, Causes
  <2>2. CASE NoCredentials
    <3>1. log' \in Logs
      BY <2>2, TypeOKLog, DialledLogs DEF NoCredentials, dialRest
    <3>2. failures' \in 0 .. MaxFailures
      BY <2>2, BoundsAssumption DEF TypeOK, NoCredentials, dialRest
    <3>3. told' \subseteq Responses
      BY <2>2 DEF TypeOK, NoCredentials, dialRest
    <3> QED
      BY <2>2, <3>1, <3>2, <3>3 DEF TypeOK, Logs, NoCredentials, dialRest, Causes
  <2>3. CASE DialAnswered
    <3>1. log' \in Logs
      BY <2>3, TypeOKLog, DialledLogs DEF DialAnswered, dialRest
    <3>2. failures' \in 0 .. MaxFailures
      BY <2>3, BoundsAssumption DEF TypeOK, DialAnswered, dialRest
    <3>3. told' \subseteq Responses
      BY <2>3 DEF TypeOK, DialAnswered, dialRest
    <3> QED
      BY <2>3, <3>1, <3>2, <3>3 DEF TypeOK, Logs, DialAnswered, dialRest, Causes
  <2>4. CASE DialRaises
    BY <2>4, LogsStayLogs, BoundsAssumption DEF DialRaises, dialRest, TypeOK, Logs,
       Statuses, Responses, Causes
  <2>5. CASE LinkCampaign
    <3>1. log' \in Logs
      BY <2>5, TypeOKLog, DialledLogs DEF LinkCampaign, dialRest
    <3>2. failures' \in 0 .. MaxFailures
      BY <2>5, BoundsAssumption DEF TypeOK, LinkCampaign, dialRest
    <3>3. told' \subseteq Responses
      BY <2>5 DEF TypeOK, LinkCampaign, dialRest
    <3> QED
      BY <2>5, <3>1, <3>2, <3>3 DEF TypeOK, Logs, LinkCampaign, dialRest, Causes
  <2> QED
    BY <1>1, <2>1, <2>2, <2>3, <2>4, <2>5 DEF Dialling
<1>2. CASE Provider
  <2>1. CASE Placed
    BY <2>1, LogsStayLogs, BoundsAssumption DEF Placed, dialRest, TypeOK, Logs,
       Statuses, Responses, Causes
  <2>2. CASE Arrives
    BY <2>2, LogsStayLogs, BoundsAssumption DEF Arrives, lineRest, TypeOK, Logs,
       Statuses, Responses, Causes
  <2>3. CASE PickedUp
    BY <2>3, LogsStayLogs, BoundsAssumption DEF PickedUp, lineRest, TypeOK, Logs,
       Statuses, Responses, Causes
  <2>4. CASE LineEnds
    BY <2>4, LogsStayLogs, BoundsAssumption DEF LineEnds, lineRest, TypeOK, Logs,
       Statuses, Responses, Causes
  <2>5. CASE StreamOpens
    <3>1. log' \in Logs
      BY <2>5, TypeOKLog, LogsStayLogs DEF StreamOpens, lineRest, Statuses, Responses,
         Causes, TypeOK
    <3>2. failures' \in 0 .. MaxFailures
      BY <2>5, BoundsAssumption DEF TypeOK, StreamOpens, lineRest
    <3>3. told' \subseteq Responses
      BY <2>5 DEF TypeOK, StreamOpens, lineRest
    <3> QED
      BY <2>5, <3>1, <3>2, <3>3 DEF TypeOK, Logs, StreamOpens, lineRest, Made, Causes
  <2>6. CASE BrowserOpens
    BY <2>6, LogsStayLogs, BoundsAssumption DEF BrowserOpens, lineRest, TypeOK, Logs,
       Statuses, Responses, Causes
  <2> QED
    BY <1>2, <2>1, <2>2, <2>3, <2>4, <2>5, <2>6 DEF Provider
<1>3. CASE Webhook
  <2>1. CASE AnswerAgent
    BY <2>1, LogsStayLogs, BoundsAssumption DEF AnswerAgent, answerRest, TypeOK, Logs,
       Statuses, Responses, Causes
  <2>2. CASE AnswerRegister
    BY <2>2, LogsStayLogs, BoundsAssumption DEF AnswerRegister, answerRest, TypeOK,
       Logs, Statuses, Responses, Causes
  <2>3. CASE AnswerFails
    BY <2>3, LogsStayLogs, BoundsAssumption DEF AnswerFails, answerRest, TypeOK, Logs,
       Statuses, Responses, Causes
  <2> QED
    BY <1>3, <2>1, <2>2, <2>3 DEF Webhook
<1>4. CASE Socket
  <2>1. CASE Routed
    BY <2>1, LogsStayLogs, BoundsAssumption DEF Routed, wsRest, TypeOK, Logs,
       Statuses, Responses, Causes
  <2>2. CASE WsRegister
    <3>1. log' \in Logs
      BY <2>2, TypeOKLog, LogsStayLogs DEF WsRegister, wsRest, Statuses, Responses,
         Causes, TypeOK
    <3>2. failures' \in 0 .. MaxFailures
      BY <2>2, BoundsAssumption DEF TypeOK, WsRegister, wsRest
    <3>3. told' \subseteq Responses
      BY <2>2 DEF TypeOK, WsRegister, wsRest
    <3>4. known' \in BOOLEAN
      BY <2>2, Zenon DEF TypeOK, WsRegister
    <3> QED
      BY <2>2, <3>1, <3>2, <3>3, <3>4 DEF TypeOK, Logs, WsRegister, wsRest, Causes
  <2>3. CASE WsLoad
    <3>1. log' \in Logs
      BY <2>3, TypeOKLog, LogsStayLogs DEF WsLoad, wsRest, Statuses, Responses,
         Causes, TypeOK
    <3>2. failures' \in 0 .. MaxFailures
      BY <2>3, BoundsAssumption DEF TypeOK, WsLoad, wsRest
    <3>3. told' \subseteq Responses
      BY <2>3 DEF TypeOK, WsLoad, wsRest
    <3>4. known' \in BOOLEAN
      BY <2>3, Zenon DEF TypeOK, WsLoad
    <3> QED
      BY <2>3, <3>1, <3>2, <3>3, <3>4 DEF TypeOK, Logs, WsLoad, wsRest, Causes
  <2>4. CASE WsCloses
    BY <2>4, LogsStayLogs, BoundsAssumption DEF WsCloses, wsRest, TypeOK, Logs,
       Statuses, Responses, Causes
  <2>5. CASE RunPipeline
    BY <2>5, LogsStayLogs, BoundsAssumption DEF RunPipeline, wsRest, TypeOK, Logs,
       Statuses, Responses, Causes
  <2>6. CASE PipelineEnds
    BY <2>6, LogsStayLogs, BoundsAssumption DEF PipelineEnds, wsRest, TypeOK, Logs,
       Statuses, Responses, Causes
  <2>7. CASE FlushTranscript
    BY <2>7, LogsStayLogs, BoundsAssumption DEF FlushTranscript, wsRest, TypeOK, Logs,
       Statuses, Responses, Causes
  <2>8. CASE FlushMetrics
    <3>1. log' \in Logs
      BY <2>8, TypeOKLog, LogsStayLogs DEF FlushMetrics, wsRest, Statuses, Responses,
         Causes, TypeOK
    <3>2. failures' \in 0 .. MaxFailures
      <4>1. UNCHANGED failures \/ (failures < MaxFailures /\ failures' = failures + 1)
        BY <2>8 DEF FlushMetrics
      <4> QED
        BY <4>1, BoundsAssumption DEF TypeOK
    <3>3. told' \subseteq Responses
      BY <2>8 DEF TypeOK, FlushMetrics, wsRest
    <3>4. metrics' \in BOOLEAN
      BY <2>8, Zenon DEF TypeOK, FlushMetrics
    <3> QED
      BY <2>8, <3>1, <3>2, <3>3, <3>4 DEF TypeOK, Logs, FlushMetrics, wsRest, Causes
  <2>9. CASE FinalizeCall
    BY <2>9, LogsStayLogs, BoundsAssumption DEF FinalizeCall, wsRest, TypeOK, Logs,
       Statuses, Responses, Causes
  <2>10. CASE FinalizeNotify
    <3>1. log' \in Logs
      BY <2>10, TypeOKLog, LogsStayLogs DEF FinalizeNotify, wsRest, Statuses,
         Responses, Causes, TypeOK
    <3>2. failures' \in 0 .. MaxFailures
      BY <2>10, BoundsAssumption DEF TypeOK, FinalizeNotify, wsRest
    <3>3. told' \subseteq Responses
      BY <2>10, NotifiedAreResponses DEF TypeOK, FinalizeNotify, wsRest, Responses,
         Causes
    <3> QED
      BY <2>10, <3>1, <3>2, <3>3 DEF TypeOK, Logs, FinalizeNotify, wsRest, Causes
  <2>11. CASE SaveRecording
    BY <2>11, LogsStayLogs, BoundsAssumption DEF SaveRecording, wsRest, TypeOK, Logs,
       Statuses, Responses, Causes
  <2> QED
    BY <1>4, <2>1, <2>2, <2>3, <2>4, <2>5, <2>6, <2>7, <2>8, <2>9, <2>10, <2>11 DEF
       Socket
<1>5. ASSUME NEW h \in Hooks, Delivered(h) \/ CloseCallLog(h) \/ HookNotify(h)
      PROVE  TypeOK'
  <2>1. CASE Delivered(h)
    BY <2>1, LogsStayLogs, BoundsAssumption DEF Delivered, hookRest, TypeOK, Logs,
       Statuses, Responses, Causes
  <2>2. CASE CloseCallLog(h)
    <3>1. log' \in Logs
      BY <2>2, TypeOKLog, LogsStayLogs DEF CloseCallLog, hookRest, Statuses,
         Responses, Causes, TypeOK
    <3>2. failures' \in 0 .. MaxFailures
      BY <2>2, BoundsAssumption DEF TypeOK, CloseCallLog, hookRest
    <3>3. told' \subseteq Responses
      BY <2>2 DEF TypeOK, CloseCallLog, hookRest
    <3> QED
      BY <2>2, <3>1, <3>2, <3>3 DEF TypeOK, Logs, CloseCallLog, hookRest, Causes
  <2>3. CASE HookNotify(h)
    <3>1. log' \in Logs
      BY <2>3, TypeOKLog, LogsStayLogs DEF HookNotify, hookRest, Statuses, Responses,
         Causes, TypeOK
    <3>2. failures' \in 0 .. MaxFailures
      BY <2>3, BoundsAssumption DEF TypeOK, HookNotify, hookRest
    <3>3. told' \subseteq Responses
      BY <2>3, NotifiedAreResponses DEF TypeOK, HookNotify, hookRest, Responses,
         Causes
    <3> QED
      BY <2>3, <3>1, <3>2, <3>3 DEF TypeOK, Logs, HookNotify, hookRest, Causes
  <2> QED
    BY <1>5, <2>1, <2>2, <2>3
<1>6. CASE UNCHANGED vars
    BY <1>6, LogsStayLogs, BoundsAssumption DEF vars, TypeOK, Logs, Statuses,
       Responses, Causes
<1> QED
  BY <1>1, <1>2, <1>3, <1>4, <1>5, <1>6 DEF Next, HangUp

---------------------------------------------------------------------------
(* The invariant is kept.                                                  *)

\* What registration leaves is made.
LEMMA RegisteredIsMade ==
  ASSUME TypeOK
  PROVE  Registered.status # "none"
  BY DEF TypeOK, Registered, NoLog, Made

\* Closing a log that is made leaves one that is.
LEMMA ClosedIsMade ==
  ASSUME TypeOK, Made, NEW r \in Responses
  PROVE  Closed(r).status # "none"
  BY TypeOKLog DEF Logs, Closed, Made

\* The invariant but for the types.
Rest == NothingYet /\ KnownIsMade /\ EndedIsMade /\ WritersFollow /\ NotifiesAfterEnd
        /\ OutcomeStands

\* Every step keeps the other parts of the invariant.
LEMMA RestStep == IInv /\ [Next]_vars => Rest'
<1> SUFFICES ASSUME IInv, [Next]_vars
             PROVE  Rest'
  OBVIOUS
<1>1. CASE Dialling
  <2>1. CASE InitiateOutbound
    BY <2>1 DEF InitiateOutbound, dialRest, NoLog, IInv, Rest, TypeOK, NothingYet,
       KnownIsMade, EndedIsMade, WritersFollow, NotifiesAfterEnd, OutcomeStands,
       Outbound, Made, Causes, Responses, Logs
  <2>2. CASE NoCredentials
    BY <2>2 DEF NoCredentials, dialRest, NoLog, IInv, Rest, TypeOK, NothingYet,
       KnownIsMade, EndedIsMade, WritersFollow, NotifiesAfterEnd, OutcomeStands,
       Outbound, Made, Causes, Responses, Logs
  <2>3. CASE DialAnswered
    BY <2>3 DEF DialAnswered, dialRest, Updated, IInv, Rest, TypeOK, NothingYet,
       KnownIsMade, EndedIsMade, WritersFollow, NotifiesAfterEnd, OutcomeStands,
       Outbound, Made, Causes, Responses, Logs
  <2>4. CASE DialRaises
    BY <2>4 DEF DialRaises, dialRest, Updated, IInv, Rest, TypeOK, NothingYet,
       KnownIsMade, EndedIsMade, WritersFollow, NotifiesAfterEnd, OutcomeStands,
       Outbound, Made, Causes, Responses, Logs
  <2>5. CASE LinkCampaign
    BY <2>5 DEF LinkCampaign, dialRest, IInv, Rest, TypeOK, NothingYet, KnownIsMade,
       EndedIsMade, WritersFollow, NotifiesAfterEnd, OutcomeStands, Outbound, Made,
       Causes, Responses, Logs
  <2> QED
    BY <1>1, <2>1, <2>2, <2>3, <2>4, <2>5 DEF Dialling
<1>2. CASE Provider
  <2>1. CASE Placed
    BY <2>1 DEF Placed, dialRest, IInv, Rest, TypeOK, NothingYet, KnownIsMade,
       EndedIsMade, WritersFollow, NotifiesAfterEnd, OutcomeStands, Outbound, Made,
       Causes, Responses, Logs
  <2>2. CASE Arrives
    BY <2>2 DEF Arrives, lineRest, IInv, Rest, TypeOK, NothingYet, KnownIsMade,
       EndedIsMade, WritersFollow, NotifiesAfterEnd, OutcomeStands, Outbound, Made,
       Causes, Responses, Logs
  <2>3. CASE PickedUp
    BY <2>3 DEF PickedUp, lineRest, IInv, Rest, TypeOK, NothingYet, KnownIsMade,
       EndedIsMade, WritersFollow, NotifiesAfterEnd, OutcomeStands, Outbound, Made,
       Causes, Responses, Logs
  <2>4. CASE LineEnds
    BY <2>4 DEF LineEnds, lineRest, IInv, Rest, TypeOK, NothingYet, KnownIsMade,
       EndedIsMade, WritersFollow, NotifiesAfterEnd, OutcomeStands, Outbound, Made,
       Causes, Responses, Logs
  <2>5. CASE StreamOpens
    BY <2>5 DEF StreamOpens, lineRest, IInv, Rest, TypeOK, NothingYet, KnownIsMade,
       EndedIsMade, WritersFollow, NotifiesAfterEnd, OutcomeStands, Outbound, Made,
       Causes, Responses, Logs
  <2>6. CASE BrowserOpens
    BY <2>6 DEF BrowserOpens, lineRest, Registered, IInv, Rest, TypeOK, NothingYet,
       KnownIsMade, EndedIsMade, WritersFollow, NotifiesAfterEnd, OutcomeStands,
       Outbound, Made, Causes, Responses, Logs
  <2> QED
    BY <1>2, <2>1, <2>2, <2>3, <2>4, <2>5, <2>6 DEF Provider
<1>3. CASE Webhook
  <2>1. CASE AnswerAgent
    BY <2>1 DEF AnswerAgent, answerRest, Tagged, IInv, Rest, TypeOK, NothingYet,
       KnownIsMade, EndedIsMade, WritersFollow, NotifiesAfterEnd, OutcomeStands,
       Outbound, Made, Causes, Responses, Logs
  <2>2. CASE AnswerRegister
    BY <2>2 DEF AnswerRegister, answerRest, Registered, IInv, Rest, TypeOK,
       NothingYet, KnownIsMade, EndedIsMade, WritersFollow, NotifiesAfterEnd,
       OutcomeStands, Outbound, Made, Causes, Responses, Logs
  <2>3. CASE AnswerFails
    <3>1. NothingYet'
      BY <2>3 DEF IInv, TypeOK, NothingYet, Outbound, AnswerFails, answerRest,
         Registered, Causes, NoLog
    <3>2. KnownIsMade'
      BY <2>3 DEF IInv, TypeOK, KnownIsMade, Made, AnswerFails, answerRest,
         Registered, Causes, NoLog
    <3>3. EndedIsMade'
      BY <2>3 DEF IInv, TypeOK, EndedIsMade, KnownIsMade, Made, AnswerFails,
         answerRest, Registered, Causes, NoLog
    <3>4. WritersFollow'
      BY <2>3 DEF IInv, TypeOK, WritersFollow, AnswerFails, answerRest, Registered,
         Causes, NoLog
    <3>5. NotifiesAfterEnd'
      BY <2>3 DEF IInv, TypeOK, NotifiesAfterEnd, EndedIsMade, Made, AnswerFails,
         answerRest, Registered, Causes, NoLog
    <3>6. OutcomeStands'
      BY <2>3 DEF IInv, TypeOK, OutcomeStands, NotifiesAfterEnd, WritersFollow,
         KnownIsMade, EndedIsMade, Made, AnswerFails, answerRest, Registered, Causes,
         NoLog
    <3> QED
      BY <3>1, <3>2, <3>3, <3>4, <3>5, <3>6 DEF Rest
  <2> QED
    BY <1>3, <2>1, <2>2, <2>3 DEF Webhook
<1>4. CASE Socket
  <2>1. CASE Routed
    BY <2>1 DEF Routed, wsRest, IInv, Rest, TypeOK, NothingYet, KnownIsMade,
       EndedIsMade, WritersFollow, NotifiesAfterEnd, OutcomeStands, Outbound, Made,
       Causes, Responses, Logs
  <2>2. CASE WsRegister
    <3>1. NothingYet'
      BY <2>2 DEF IInv, TypeOK, NothingYet, Outbound, WsRegister, wsRest, Registered,
         Causes, NoLog
    <3>2. KnownIsMade'
      <4>1. CASE log' = Registered
        BY <2>2, <4>1, RegisteredIsMade DEF IInv, KnownIsMade, Made, WsRegister, wsRest
      <4>2. CASE UNCHANGED <<log, known>>
        BY <2>2, <4>2 DEF IInv, KnownIsMade, Made, WsRegister, wsRest
      <4> QED
        BY <2>2, <4>1, <4>2 DEF WsRegister
    <3>3. EndedIsMade'
      BY <2>2 DEF IInv, TypeOK, EndedIsMade, KnownIsMade, Made, WsRegister, wsRest,
         Registered, Causes, NoLog
    <3>4. WritersFollow'
      BY <2>2 DEF IInv, TypeOK, WritersFollow, WsRegister, wsRest, Registered, Causes,
         NoLog
    <3>5. NotifiesAfterEnd'
      BY <2>2 DEF IInv, TypeOK, NotifiesAfterEnd, EndedIsMade, Made, WsRegister,
         wsRest, Registered, Causes, NoLog
    <3>6. OutcomeStands'
      BY <2>2 DEF IInv, TypeOK, OutcomeStands, NotifiesAfterEnd, WritersFollow,
         KnownIsMade, EndedIsMade, Made, WsRegister, wsRest, Registered, Causes, NoLog
    <3> QED
      BY <3>1, <3>2, <3>3, <3>4, <3>5, <3>6 DEF Rest
  <2>3. CASE WsLoad
    <3>1. NothingYet'
      BY <2>3 DEF IInv, TypeOK, NothingYet, Outbound, WsLoad, wsRest, Causes, NoLog
    <3>2. KnownIsMade'
      BY <2>3 DEF IInv, TypeOK, KnownIsMade, Made, WsLoad, wsRest, Causes, NoLog
    <3>3. EndedIsMade'
      BY <2>3 DEF IInv, TypeOK, EndedIsMade, KnownIsMade, Made, WsLoad, wsRest,
         Causes, NoLog
    <3>4. WritersFollow'
      BY <2>3 DEF IInv, TypeOK, WritersFollow, WsLoad, wsRest, Causes, NoLog
    <3>5. NotifiesAfterEnd'
      BY <2>3 DEF IInv, TypeOK, NotifiesAfterEnd, EndedIsMade, Made, WsLoad, wsRest,
         Causes, NoLog
    <3>6. OutcomeStands'
      BY <2>3 DEF IInv, TypeOK, OutcomeStands, NotifiesAfterEnd, WritersFollow,
         KnownIsMade, EndedIsMade, Made, WsLoad, wsRest, Causes, NoLog
    <3> QED
      BY <3>1, <3>2, <3>3, <3>4, <3>5, <3>6 DEF Rest
  <2>4. CASE WsCloses
    <3>1. NothingYet'
      BY <2>4 DEF IInv, TypeOK, NothingYet, Outbound, WsCloses, wsRest, Registered,
         Causes, NoLog
    <3>2. KnownIsMade'
      BY <2>4 DEF IInv, TypeOK, KnownIsMade, Made, WsCloses, wsRest, Registered,
         Causes, NoLog
    <3>3. EndedIsMade'
      BY <2>4 DEF IInv, TypeOK, EndedIsMade, KnownIsMade, Made, WsCloses, wsRest,
         Registered, Causes, NoLog
    <3>4. WritersFollow'
      BY <2>4 DEF IInv, TypeOK, WritersFollow, WsCloses, wsRest, Registered, Causes,
         NoLog
    <3>5. NotifiesAfterEnd'
      BY <2>4 DEF IInv, TypeOK, NotifiesAfterEnd, EndedIsMade, Made, WsCloses, wsRest,
         Registered, Causes, NoLog
    <3>6. OutcomeStands'
      BY <2>4 DEF IInv, TypeOK, OutcomeStands, NotifiesAfterEnd, WritersFollow,
         KnownIsMade, EndedIsMade, Made, WsCloses, wsRest, Registered, Causes, NoLog
    <3> QED
      BY <3>1, <3>2, <3>3, <3>4, <3>5, <3>6 DEF Rest
  <2>5. CASE RunPipeline
    BY <2>5 DEF RunPipeline, wsRest, IInv, Rest, TypeOK, NothingYet, KnownIsMade,
       EndedIsMade, WritersFollow, NotifiesAfterEnd, OutcomeStands, Outbound, Made,
       Causes, Responses, Logs
  <2>6. CASE PipelineEnds
    BY <2>6 DEF PipelineEnds, wsRest, IInv, Rest, TypeOK, NothingYet, KnownIsMade,
       EndedIsMade, WritersFollow, NotifiesAfterEnd, OutcomeStands, Outbound, Made,
       Causes, Responses, Logs
  <2>7. CASE FlushTranscript
    BY <2>7 DEF FlushTranscript, wsRest, Linked, IInv, Rest, TypeOK, NothingYet,
       KnownIsMade, EndedIsMade, WritersFollow, NotifiesAfterEnd, OutcomeStands,
       Outbound, Made, Causes, Responses, Logs
  <2>8. CASE FlushMetrics
    BY <2>8 DEF FlushMetrics, wsRest, IInv, Rest, TypeOK, NothingYet, KnownIsMade,
       EndedIsMade, WritersFollow, NotifiesAfterEnd, OutcomeStands, Outbound, Made,
       Causes, Responses, Logs
  <2>9. CASE FinalizeCall
    <3>1. NothingYet'
      BY <2>9 DEF IInv, TypeOK, NothingYet, Outbound, FinalizeCall, wsRest, Closed,
         Causes, NoLog
    <3>2. KnownIsMade'
      BY <2>9 DEF IInv, TypeOK, KnownIsMade, Made, FinalizeCall, wsRest, Closed,
         Causes, NoLog
    <3>3. EndedIsMade'
      <4>1. Made
        BY <2>9 DEF FinalizeCall, IInv, KnownIsMade
      <4>2. CASE log' = log
        BY <4>1, <4>2 DEF EndedIsMade, Made
      <4>3. CASE log' = Closed("answered")
        BY <4>1, <4>3, ClosedIsMade DEF EndedIsMade, Made, IInv, Responses
      <4> QED
        BY <2>9, <4>2, <4>3 DEF FinalizeCall
    <3>4. WritersFollow'
      BY <2>9 DEF IInv, TypeOK, WritersFollow, FinalizeCall, wsRest, Closed, Causes,
         NoLog
    <3>5. NotifiesAfterEnd'
      BY <2>9 DEF IInv, TypeOK, NotifiesAfterEnd, EndedIsMade, Made, FinalizeCall,
         wsRest, Closed, Causes, NoLog
    <3>6. OutcomeStands'
      BY <2>9 DEF IInv, TypeOK, OutcomeStands, NotifiesAfterEnd, WritersFollow,
         KnownIsMade, EndedIsMade, Made, FinalizeCall, wsRest, Closed, Causes, NoLog
    <3> QED
      BY <3>1, <3>2, <3>3, <3>4, <3>5, <3>6 DEF Rest
  <2>10. CASE FinalizeNotify
    BY <2>10 DEF FinalizeNotify, wsRest, Notified, IInv, Rest, TypeOK, NothingYet,
       KnownIsMade, EndedIsMade, WritersFollow, NotifiesAfterEnd, OutcomeStands,
       Outbound, Made, Causes, Responses, Logs
  <2>11. CASE SaveRecording
    BY <2>11 DEF SaveRecording, wsRest, Linked, IInv, Rest, TypeOK, NothingYet,
       KnownIsMade, EndedIsMade, WritersFollow, NotifiesAfterEnd, OutcomeStands,
       Outbound, Made, Causes, Responses, Logs
  <2> QED
    BY <1>4, <2>1, <2>2, <2>3, <2>4, <2>5, <2>6, <2>7, <2>8, <2>9, <2>10, <2>11 DEF
       Socket
<1>5. ASSUME NEW h \in Hooks, Delivered(h) \/ CloseCallLog(h) \/ HookNotify(h)
      PROVE  Rest'
  <2>1. CASE Delivered(h)
    BY <2>1 DEF Delivered, hookRest, IInv, Rest, TypeOK, NothingYet, KnownIsMade,
       EndedIsMade, WritersFollow, NotifiesAfterEnd, OutcomeStands, Outbound, Made,
       Causes, Responses, Logs
  <2>2. CASE CloseCallLog(h)
    <3>1. NothingYet'
      BY <2>2 DEF IInv, TypeOK, NothingYet, Outbound, CloseCallLog, hookRest, Found,
         Tagged, Closed, Causes, NoLog
    <3>2. KnownIsMade'
      BY <2>2 DEF IInv, TypeOK, KnownIsMade, Made, CloseCallLog, hookRest, Found,
         Tagged, Closed, Causes, NoLog
    <3>3. EndedIsMade'
      BY <2>2 DEF IInv, TypeOK, EndedIsMade, KnownIsMade, Made, CloseCallLog,
         hookRest, Found, Tagged, Closed, Causes, NoLog
    <3>4. WritersFollow'
      BY <2>2 DEF IInv, TypeOK, WritersFollow, CloseCallLog, hookRest, Found, Tagged,
         Closed, Causes, NoLog
    <3>5. NotifiesAfterEnd'
      BY <2>2 DEF IInv, TypeOK, NotifiesAfterEnd, EndedIsMade, Made, CloseCallLog,
         hookRest, Found, Tagged, Closed, Causes, NoLog
    <3>6. OutcomeStands'
      BY <2>2 DEF IInv, TypeOK, OutcomeStands, NotifiesAfterEnd, WritersFollow,
         KnownIsMade, EndedIsMade, Made, CloseCallLog, hookRest, Found, Tagged,
         Closed, Causes, NoLog
    <3> QED
      BY <3>1, <3>2, <3>3, <3>4, <3>5, <3>6 DEF Rest
  <2>3. CASE HookNotify(h)
    BY <2>3 DEF HookNotify, hookRest, Notified, IInv, Rest, TypeOK, NothingYet,
       KnownIsMade, EndedIsMade, WritersFollow, NotifiesAfterEnd, OutcomeStands,
       Outbound, Made, Causes, Responses, Logs
  <2> QED
    BY <1>5, <2>1, <2>2, <2>3
<1>6. CASE UNCHANGED vars
    BY <1>6 DEF vars, IInv, Rest, TypeOK, NothingYet, KnownIsMade, EndedIsMade,
       WritersFollow, NotifiesAfterEnd, OutcomeStands, Outbound, Made, Causes,
       Responses, Logs
<1> QED
  BY <1>1, <1>2, <1>3, <1>4, <1>5, <1>6 DEF Next, HangUp

\* The invariant holds at all times.
LEMMA Invariance == Spec => []IInv
<1>1. IInv /\ [Next]_vars => IInv'
  BY TypeStep, RestStep DEF IInv, Rest
<1> QED
  BY InitIInv, <1>1, PTL DEF Spec

\* Type correctness: of the log, of its writers, and of what the campaign was told.
THEOREM TypeCorrect == Spec => []TypeOK
  BY Invariance, PTL DEF IInv

\* patch_call_log keeps the outcome of a call, however its reports are ordered and
\* repeated and whichever of its requests fail or break off.
THEOREM OutcomeKept == Spec => []OutcomeStands
  BY Invariance, PTL DEF IInv

---------------------------------------------------------------------------
(* What CallRecord promises.                                               *)

\* A log that is not made is as it was at first.
BlankUntilMade == ~Made => log = NoLog

\* Only the calls that are dialled have a dial, and its first write makes the log.
DialsMake ==
  /\ ~Outbound => dial = "none"
  /\ dial # "none" => Made
  /\ Outbound /\ dial = "none" => ~Made /\ answer = "none" /\ recorder = "none"

\* The answer webhook registers calls that come in, the recorder works on made logs.
OthersRegister ==
  /\ answer = "register" => ~Outbound
  /\ recorder = "due" => Made

\* A campaign has the calls whose dial was answered.
OwnedIsPlaced == log.campaign => dial = "done"

\* Hang-ups are reported of calls that are over; what the campaign is about to be told
\* is in the log, unless the dial is taken for failed.
HooksFollow ==
  \A h \in Hooks :
    /\ hook[h] # "none" => line = "over"
    /\ hook[h] = "notify" => Outbound
    /\ hook[h] = "notify" /\ dial # "failed" => log.response \in {cause, "answered"}

RecordInv == BlankUntilMade /\ DialsMake /\ OthersRegister /\ OwnedIsPlaced /\ HooksFollow

\* A call begins with it.
LEMMA RecordInit == Init => RecordInv
  BY DEF Init, RecordInv, BlankUntilMade, DialsMake, OthersRegister, OwnedIsPlaced, HooksFollow,
     Made, NoLog, Outbound

\* What the operations of the API leave as it was.
LEMMA Operations ==
  ASSUME log \in Logs, BlankUntilMade
  PROVE  /\ Made => Registered = log
         /\ ~Made => Registered = [NoLog EXCEPT !.status = "in_progress",
                                                !.response = "pending", !.sid = TRUE]
         /\ Registered.status # "none" /\ Registered.campaign = log.campaign
         /\ \A r \in Responses : /\ Closed(r).campaign = log.campaign
                                 /\ Closed(r).links = log.links
                                 /\ Closed(r).ended
                                 /\ Made => Closed(r).status # "none"
                                 /\ log.response = "answered" => Closed(r).response = "answered"
                                 /\ log.response = "answered" => Closed(r).status = log.status
                                 /\ log.response # "answered" => Closed(r).status = "completed"
                                 /\ log.response # "answered" /\ r # "none"
                                      => Closed(r).response = r
                                 /\ r = "none" => Closed(r).response = log.response
         /\ \A x \in {"transcript_url", "recording_url"} :
              /\ Linked(x).status = log.status /\ Linked(x).response = log.response
              /\ Linked(x).campaign = log.campaign /\ Linked(x).ended = log.ended
              /\ Linked(x).links = log.links \cup {x}
         /\ \A s \in Statuses, r \in Responses :
              /\ Updated(s, r).status = s /\ Updated(s, r).campaign = log.campaign
              /\ Updated(s, r).ended = log.ended /\ Updated(s, r).links = log.links
              /\ r = "none" => Updated(s, r).response = log.response
              /\ r # "none" => Updated(s, r).response = r
<1>1. /\ Made => Registered = log
      /\ ~Made => Registered = [NoLog EXCEPT !.status = "in_progress",
                                             !.response = "pending", !.sid = TRUE]
      /\ Registered.status # "none" /\ Registered.campaign = log.campaign
  BY DEF Logs, BlankUntilMade, Made, NoLog, Registered
<1>2. \A r \in Responses : /\ Closed(r).campaign = log.campaign
                           /\ Closed(r).links = log.links
                           /\ Closed(r).ended
                           /\ Made => Closed(r).status # "none"
                           /\ log.response = "answered" => Closed(r).response = "answered"
                           /\ log.response = "answered" => Closed(r).status = log.status
                           /\ log.response # "answered" => Closed(r).status = "completed"
                           /\ log.response # "answered" /\ r # "none"
                                => Closed(r).response = r
                           /\ r = "none" => Closed(r).response = log.response
  BY DEF Logs, Made, Closed
<1>3. \A x \in {"transcript_url", "recording_url"} :
        /\ Linked(x).status = log.status /\ Linked(x).response = log.response
        /\ Linked(x).campaign = log.campaign /\ Linked(x).ended = log.ended
        /\ Linked(x).links = log.links \cup {x}
  BY DEF Logs, Linked
<1>4. \A s \in Statuses, r \in Responses :
        /\ Updated(s, r).status = s /\ Updated(s, r).campaign = log.campaign
        /\ Updated(s, r).ended = log.ended /\ Updated(s, r).links = log.links
        /\ r = "none" => Updated(s, r).response = log.response
        /\ r # "none" => Updated(s, r).response = r
  BY DEF Logs, Updated
<1> QED
  BY <1>1, <1>2, <1>3, <1>4

\* Every step keeps what the refinement rests on.
LEMMA RecordStep == IInv /\ RecordInv /\ [Next]_vars => RecordInv'
<1> SUFFICES ASSUME IInv, RecordInv, [Next]_vars
             PROVE  RecordInv'
  OBVIOUS
<1> USE DEF RecordInv, Outbound, Tagged, Made
<1>0. log \in Logs /\ cause \in Responses
  BY TypeOKLog DEF IInv, TypeOK, Causes, Responses
<1>1. CASE Dialling
  <2>1. CASE InitiateOutbound \/ NoCredentials
    BY <2>1 DEF IInv, InitiateOutbound, NoCredentials, dialRest, NothingYet, NoLog, BlankUntilMade,
       DialsMake, OthersRegister, OwnedIsPlaced, HooksFollow
  <2>2. CASE DialAnswered
    BY <2>2, <1>0 DEF DialAnswered, dialRest, Updated, Logs, BlankUntilMade, DialsMake,
       OthersRegister, OwnedIsPlaced, HooksFollow
  <2>3. CASE DialRaises
    BY <2>3, <1>0 DEF DialRaises, dialRest, Updated, Logs, BlankUntilMade, DialsMake,
       OthersRegister, OwnedIsPlaced, HooksFollow
  <2>4. CASE LinkCampaign
    BY <2>4, <1>0 DEF LinkCampaign, dialRest, Logs, BlankUntilMade, DialsMake, OthersRegister,
       OwnedIsPlaced, HooksFollow
  <2> QED
    BY <1>1, <2>1, <2>2, <2>3, <2>4 DEF Dialling
<1>2. CASE Provider
  <2>1. CASE Placed
    BY <2>1 DEF Placed, dialRest, BlankUntilMade,
       DialsMake, OthersRegister, OwnedIsPlaced, HooksFollow
  <2>2. CASE Arrives \/ PickedUp
    BY <2>2 DEF IInv, NothingYet, Arrives, PickedUp, lineRest, BlankUntilMade, DialsMake,
       OthersRegister, OwnedIsPlaced, HooksFollow
  <2>3. CASE LineEnds
    BY <2>3 DEF LineEnds, lineRest, BlankUntilMade,
       DialsMake, OthersRegister, OwnedIsPlaced, HooksFollow
  <2>4. CASE StreamOpens
    BY <2>4 DEF StreamOpens, BlankUntilMade, DialsMake, OthersRegister, OwnedIsPlaced, HooksFollow
  <2>5. CASE BrowserOpens
    <3>1. /\ log' \in {log, Registered} /\ kind = "web"
          /\ UNCHANGED <<kind, dial, answer, recorder, line, cause, hook>>
      BY <2>5 DEF BrowserOpens
    <3>2. BlankUntilMade' /\ OwnedIsPlaced'
      BY <3>1, <1>0, Operations DEF BlankUntilMade, OwnedIsPlaced
    <3>3. DialsMake' /\ OthersRegister' /\ HooksFollow'
      BY <3>1, <1>0, Operations DEF DialsMake, OthersRegister, HooksFollow
    <3> QED
      BY <3>2, <3>3
  <2> QED
    BY <1>2, <2>1, <2>2, <2>3, <2>4, <2>5 DEF Provider
<1>3. CASE Webhook
  <2>1. CASE AnswerAgent
    BY <2>1 DEF AnswerAgent, answerRest, IInv, NothingYet, BlankUntilMade, DialsMake,
       OthersRegister, OwnedIsPlaced, HooksFollow
  <2>2. CASE AnswerRegister \/ AnswerFails
    <3>1. /\ log' = log \/ (~Outbound /\ log' = Registered)
          /\ answer' # "register" /\ answer # "none"
          /\ UNCHANGED <<kind, dial, recorder, line, cause, hook>>
      BY <2>2 DEF AnswerRegister, AnswerFails, answerRest, OthersRegister
    <3>2. BlankUntilMade' /\ OwnedIsPlaced'
      BY <3>1, <1>0, Operations DEF BlankUntilMade, OwnedIsPlaced
    <3>3. DialsMake' /\ OthersRegister' /\ HooksFollow'
      BY <3>1, <1>0, Operations DEF DialsMake, OthersRegister, HooksFollow
    <3> QED
      BY <3>2, <3>3
  <2> QED
    BY <1>3, <2>1, <2>2 DEF Webhook
<1>4. CASE Socket
  <2>1. CASE Routed \/ WsLoad \/ PipelineEnds \/ FlushMetrics \/ FinalizeNotify
    BY <2>1 DEF Routed, WsLoad, PipelineEnds, FlushMetrics, FinalizeNotify, wsRest, BlankUntilMade,
       DialsMake, OthersRegister, OwnedIsPlaced, HooksFollow
  <2>2. CASE WsRegister \/ WsCloses
    <3>1. /\ log' \in {log, Registered}
          /\ Outbound => dial # "none"
          /\ UNCHANGED <<kind, dial, answer, recorder, line, cause, hook>>
      BY <2>2 DEF IInv, NothingYet, WsRegister, WsCloses, wsRest
    <3>2. BlankUntilMade' /\ OwnedIsPlaced'
      BY <3>1, <1>0, Operations DEF BlankUntilMade, OwnedIsPlaced
    <3>3. DialsMake' /\ OthersRegister' /\ HooksFollow'
      BY <3>1, <1>0, Operations DEF DialsMake, OthersRegister, HooksFollow
    <3> QED
      BY <3>2, <3>3
  <2>3. CASE RunPipeline
    BY <2>3 DEF RunPipeline, wsRest, IInv, NothingYet, KnownIsMade, BlankUntilMade, DialsMake,
       OthersRegister, OwnedIsPlaced, HooksFollow
  <2>4. CASE FlushTranscript \/ SaveRecording
    <3>1. /\ \/ log' = log
             \/ \E x \in {"transcript_url", "recording_url"} : log' = Linked(x)
          /\ Made /\ (Outbound => dial # "none") /\ recorder' \in {recorder, "done"}
          /\ UNCHANGED <<kind, dial, answer, line, cause, hook>>
      BY <2>4 DEF IInv, NothingYet, KnownIsMade, FlushTranscript, SaveRecording, wsRest,
         OthersRegister, DialsMake
    <3>2. BlankUntilMade' /\ OwnedIsPlaced'
      BY <3>1, <1>0, Operations DEF BlankUntilMade, OwnedIsPlaced
    <3>3. DialsMake' /\ OthersRegister' /\ HooksFollow'
      BY <3>1, <1>0, Operations DEF DialsMake, OthersRegister, HooksFollow
    <3> QED
      BY <3>2, <3>3
  <2>5. CASE FinalizeCall
    <3>1. /\ log' \in {log, Closed("answered")} /\ "answered" \in Responses
          /\ Made /\ (Outbound => dial # "none")
          /\ UNCHANGED <<kind, dial, answer, recorder, line, cause, hook>>
      BY <2>5 DEF IInv, NothingYet, KnownIsMade, FinalizeCall, wsRest, Responses
    <3>2. BlankUntilMade' /\ OwnedIsPlaced'
      BY <3>1, <1>0, Operations DEF BlankUntilMade, OwnedIsPlaced
    <3>3. DialsMake' /\ OthersRegister' /\ HooksFollow'
      BY <3>1, <1>0, Operations DEF DialsMake, OthersRegister, HooksFollow
    <3> QED
      BY <3>2, <3>3
  <2> QED
    BY <1>4, <2>1, <2>2, <2>3, <2>4, <2>5 DEF Socket
<1>5. ASSUME NEW h \in Hooks, Delivered(h) \/ CloseCallLog(h) \/ HookNotify(h)
      PROVE  RecordInv'
  <2>1. CASE Delivered(h)
    BY <2>1 DEF Delivered, hookRest, IInv, TypeOK, BlankUntilMade, DialsMake, OthersRegister,
       OwnedIsPlaced, HooksFollow
  <2>2. CASE HookNotify(h)
    BY <2>2 DEF HookNotify, hookRest, IInv, TypeOK, BlankUntilMade, DialsMake, OthersRegister,
       OwnedIsPlaced, HooksFollow
  <2>3. CASE CloseCallLog(h)
    <3>1. /\ log' = log \/ (Made /\ log' = Closed(cause))
          /\ hook[h] = "patch" /\ hook' = [hook EXCEPT ![h] = hook'[h]]
          /\ \/ hook'[h] = "done"
             \/ hook'[h] = "notify" /\ Outbound /\ cause # "none" /\ log' = Closed(cause)
          /\ UNCHANGED <<kind, dial, answer, recorder, line, cause>>
      BY <2>3 DEF IInv, TypeOK, CloseCallLog, hookRest, Found
    <3>2. Outbound => dial # "none"
      BY <3>1 DEF IInv, NothingYet
    <3>3. BlankUntilMade' /\ OwnedIsPlaced'
      BY <3>1, <1>0, Operations DEF BlankUntilMade, OwnedIsPlaced
    <3>4. DialsMake' /\ OthersRegister'
      BY <3>1, <3>2, <1>0, Operations DEF DialsMake, OthersRegister
    <3>5. HooksFollow'
      <4> SUFFICES ASSUME NEW g \in Hooks
                   PROVE  /\ hook'[g] # "none" => line = "over"
                          /\ hook'[g] = "notify" => Outbound
                          /\ hook'[g] = "notify" /\ dial # "failed"
                               => log'.response \in {cause, "answered"}
        BY <3>1 DEF HooksFollow
      <4>1. CASE g = h
        BY <4>1, <3>1, <1>0, Operations DEF HooksFollow
      <4>2. CASE g # h
        <5>1. hook'[g] = hook[g]
          BY <4>2, <3>1 DEF IInv, TypeOK
        <5> QED
          BY <5>1, <3>1, <1>0, Operations DEF HooksFollow
      <4> QED
        BY <4>1, <4>2
    <3> QED
      BY <3>3, <3>4, <3>5
  <2> QED
    BY <1>5, <2>1, <2>2, <2>3
<1>6. CASE UNCHANGED vars
  BY <1>6 DEF vars, BlankUntilMade, DialsMake, OthersRegister, OwnedIsPlaced, HooksFollow
<1> QED
  BY <1>1, <1>2, <1>3, <1>4, <1>5, <1>6 DEF Next, HangUp

\* The invariant, with what the refinement rests on.
LEMMA RecordInvariance == Spec => [](IInv /\ RecordInv)
<1>1. IInv /\ RecordInv /\ [Next]_vars => (IInv /\ RecordInv)'
  BY TypeStep, RestStep, RecordStep DEF IInv, Rest
<1> QED
  BY InitIInv, RecordInit, <1>1, PTL DEF Spec

\* Steps of the writers between their writes.
LEMMA Stutters ==
  ASSUME UNCHANGED <<log, told, DialStage>>
  PROVE  UNCHANGED Record!rvars
  BY DEF Record!rvars, Stage

\* register_inbound_call and register_web_call make a record, or find it.
LEMMA RegisteredMakes ==
  ASSUME log \in Logs, BlankUntilMade, log' \in {log, Registered}, Made \/ dial = "none",
         UNCHANGED <<dial, told>>
  PROVE  Record!Make \/ UNCHANGED Record!rvars
<1>1. CASE log' = log
  BY <1>1, Stutters DEF DialStage
<1>2. CASE Made
  BY <1>2, Operations, Stutters DEF DialStage
<1>3. CASE log' = Registered /\ ~Made
  <2>1. /\ log' = [NoLog EXCEPT !.status = "in_progress", !.response = "pending",
                                !.sid = TRUE]
        /\ log = NoLog /\ dial = "none" /\ dial' = "none"
    BY <1>3, Operations DEF BlankUntilMade
  <2>2. log.status = "none" /\ log'.status = "in_progress" /\ log'.response = "pending"
        /\ UNCHANGED <<log.ended, log.campaign, log.links>>
    BY <2>1 DEF NoLog
  <2> QED
    BY <2>1, <2>2 DEF Record!Make, Stage, DialStage
<1> QED
  BY <1>1, <1>2, <1>3

\* A PATCH with the end of the call reports it.
LEMMA ClosedReports ==
  ASSUME log \in Logs, BlankUntilMade, Made, NEW r \in Responses \ {"pending"}, log' = Closed(r),
         UNCHANGED <<dial, told>>
  PROVE  Record!Report
<1>1. /\ UNCHANGED <<log.campaign, log.links>> /\ log'.ended = TRUE
      /\ log'.status # "none"
  BY Operations DEF Logs, Closed
<1>2. log.response = "answered" => UNCHANGED <<log.response, log.status>>
  BY Operations
<1>3. log.response # "answered" =>
        log'.status = "completed" /\ log'.response \in {log.response} \cup ({r} \ {"none"})
  BY Operations
<1>4. UNCHANGED DialStage /\ Stage # "none"
  BY DEF DialStage, Stage, Made
<1>5. CASE log.response = "answered"
  BY <1>1, <1>2, <1>4, <1>5 DEF Record!Report, Stage
<1>6. CASE log.response # "answered"
  <2>1. Stage' = "closed"
    BY <1>3, <1>6 DEF Stage
  <2>2. log'.response \in {log.response} \cup (Responses \ {"none", "pending"})
    BY <1>3, <1>6
  <2> QED
    BY <1>1, <1>4, <1>6, <2>1, <2>2 DEF Record!Report
<1> QED
  BY <1>5, <1>6

\* Transcript and recording are linked to a record that is there.
LEMMA LinkedAttaches ==
  ASSUME log \in Logs, BlankUntilMade, Made, NEW x \in {"transcript_url", "recording_url"},
         log' = Linked(x), UNCHANGED <<dial, told>>
  PROVE  Record!Attach(x)
<1>1. /\ UNCHANGED <<log.status, log.response, log.ended, log.campaign>>
      /\ log'.links = log.links \cup {x}
  BY Operations
<1> QED
  BY <1>1 DEF Record!Attach, Stage, DialStage, Made

\* internal_call_status tells what the log says.
LEMMA NotifiedTells ==
  ASSUME UNCHANGED <<log, dial>>, NEW r \in Responses, told' \in {told, Notified(r)},
         log.ended, log.ended \in BOOLEAN, log.campaign \in BOOLEAN,
         log.campaign => log.response \in {r, "answered"}
  PROVE  Record!Tell(r) \/ UNCHANGED Record!rvars
<1>1. CASE told' = told
  BY <1>1, Stutters DEF DialStage
<1>2. CASE told' = told \cup {r} /\ log.campaign
  BY <1>2 DEF Record!Tell, Stage, DialStage
<1> QED
  BY <1>1, <1>2 DEF Notified

\* The dialling service makes the record and writes what its dial came to.
LEMMA DiallingMaps ==
  ASSUME IInv, RecordInv, Dialling
  PROVE  Record!Next \/ UNCHANGED Record!rvars
<1> USE DEF RecordInv
<1>0. log \in Logs
  BY TypeOKLog DEF IInv
<1>1. CASE InitiateOutbound
  <2>1. log = NoLog /\ dial = "none" /\ dial' = "dialing" /\ told' = told
    BY <1>1 DEF InitiateOutbound, dialRest, BlankUntilMade, DialsMake
  <2>2. log' = [NoLog EXCEPT !.status = "initiated", !.response = "pending"]
    BY <1>1 DEF InitiateOutbound
  <2>3. Record!Make
    BY <2>1, <2>2 DEF NoLog, Record!Make, Stage, DialStage
  <2> QED
    BY <2>3 DEF Record!Next
<1>2. CASE NoCredentials
  <2>1. log = NoLog /\ dial = "none" /\ dial' = "failed" /\ told' = told
    BY <1>2 DEF NoCredentials, dialRest, BlankUntilMade, DialsMake
  <2>2. log' = [NoLog EXCEPT !.status = "failed", !.response = "failed"]
    BY <1>2 DEF NoCredentials
  <2>3. Record!Refuse
    BY <2>1, <2>2 DEF NoLog, Record!Refuse, Stage, DialStage
  <2> QED
    BY <2>3 DEF Record!Next
<1>3. CASE DialAnswered
  <2>1. dial = "dialing" /\ dial' \in {"link", "done"} /\ told' = told
    BY <1>3 DEF DialAnswered, dialRest
  <2>2. log'.status = "ringing" /\ UNCHANGED <<log.response, log.ended, log.campaign, log.links>>
    BY <1>3, <1>0 DEF DialAnswered, Updated, Logs
  <2>3. Record!DialPlaced
    BY <2>1, <2>2 DEF Record!DialPlaced, Stage, DialStage
  <2> QED
    BY <2>3 DEF Record!Next
<1>4. CASE DialRaises
  <2>1. dial = "dialing" /\ dial' = "failed" /\ told' = told
    BY <1>4 DEF DialRaises, dialRest
  <2>2. /\ log'.status = "failed" /\ log'.response = "failed"
        /\ UNCHANGED <<log.ended, log.campaign, log.links>>
    BY <1>4, <1>0 DEF DialRaises, Updated, Logs
  <2>3. Record!DialFails
    BY <2>1, <2>2 DEF Record!DialFails, Stage, DialStage
  <2> QED
    BY <2>3 DEF Record!Next
<1>5. CASE LinkCampaign
  <2>1. dial = "link" /\ dial' = "done" /\ told' = told
    BY <1>5 DEF LinkCampaign, dialRest
  <2>2. /\ log'.campaign = TRUE
        /\ UNCHANGED <<log.status, log.response, log.ended, log.links>>
    BY <1>5, <1>0 DEF LinkCampaign, Logs
  <2>3. Record!Own
    BY <2>1, <2>2 DEF Record!Own, Stage, DialStage
  <2> QED
    BY <2>3 DEF Record!Next
<1> QED
  BY <1>1, <1>2, <1>3, <1>4, <1>5 DEF Dialling

\* The answer webhook and the websocket make it, link to it, report and tell.
LEMMA RuntimeMaps ==
  ASSUME IInv, RecordInv, Provider \/ Webhook \/ Socket
  PROVE  Record!Next \/ UNCHANGED Record!rvars
<1> USE DEF RecordInv
<1>0. log \in Logs /\ log.ended \in BOOLEAN /\ log.campaign \in BOOLEAN
  BY TypeOKLog DEF IInv, Logs
<1>1. CASE BrowserOpens \/ AnswerRegister \/ AnswerFails \/ WsRegister \/ WsCloses
  <2>1. log' \in {log, Registered} /\ UNCHANGED <<dial, told>>
    BY <1>1 DEF BrowserOpens, AnswerRegister, AnswerFails, WsRegister, WsCloses, answerRest,
       wsRest
  <2>2. log' = log \/ Made \/ dial = "none"
    BY <1>1 DEF AnswerRegister, AnswerFails, BrowserOpens, WsRegister, WsCloses, DialsMake
  <2>3. CASE log' = log
    BY <2>1, <2>3, Stutters DEF DialStage
  <2>4. CASE Made \/ dial = "none"
    BY <1>0, <2>1, <2>4, RegisteredMakes DEF Record!Next
  <2> QED
    BY <2>2, <2>3, <2>4
<1>2. CASE FlushTranscript \/ SaveRecording
  <2>1. /\ log' = log \/ \E x \in {"transcript_url", "recording_url"} : log' = Linked(x)
        /\ Made /\ UNCHANGED <<dial, told>>
    BY <1>2 DEF IInv, KnownIsMade, FlushTranscript, SaveRecording, wsRest, OthersRegister
  <2> QED
    BY <1>0, <2>1, LinkedAttaches, Stutters DEF DialStage, Record!Next
<1>3. CASE FinalizeCall
  <2>1. log' \in {log, Closed("answered")} /\ Made /\ UNCHANGED <<dial, told>>
    BY <1>3 DEF IInv, KnownIsMade, FinalizeCall, wsRest
  <2>2. "answered" \in Responses \ {"pending"}
    BY DEF Responses
  <2> QED
    BY <1>0, <2>1, <2>2, ClosedReports, Stutters DEF DialStage, Record!Next
<1>4. CASE FinalizeNotify
  <2>1. /\ UNCHANGED <<log, dial>> /\ told' \in {told, Notified("answered")}
        /\ "answered" \in Responses
    BY <1>4 DEF FinalizeNotify, wsRest, Responses
  <2>2. log.ended
    BY <1>4 DEF FinalizeNotify, IInv, NotifiesAfterEnd
  <2>3. log.campaign => log.response = "answered"
    BY <1>4 DEF FinalizeNotify, IInv, KnownIsMade, OutcomeStands, OwnedIsPlaced
  <2> QED
    BY <1>0, <2>1, <2>2, <2>3, NotifiedTells DEF Record!Next
<1>5. CASE ~ \/ BrowserOpens \/ AnswerRegister \/ AnswerFails \/ WsRegister \/ WsCloses
             \/ FlushTranscript \/ SaveRecording \/ FinalizeCall \/ FinalizeNotify
  <2>1. UNCHANGED <<log, dial, told>>
    BY <1>5 DEF Provider, Webhook, Socket, Placed, Arrives, PickedUp, LineEnds, StreamOpens,
       AnswerAgent, Routed, WsLoad, RunPipeline, PipelineEnds, FlushMetrics, dialRest,
       lineRest, answerRest, wsRest
  <2> QED
    BY <2>1, Stutters DEF DialStage
<1> QED
  BY <1>1, <1>2, <1>3, <1>4, <1>5

\* The hang-up webhooks report and tell.
LEMMA HangUpMaps ==
  ASSUME IInv, RecordInv, NEW h \in Hooks,
         Delivered(h) \/ CloseCallLog(h) \/ HookNotify(h)
  PROVE  Record!Next \/ UNCHANGED Record!rvars
<1> USE DEF RecordInv
<1>0. /\ log \in Logs /\ log.ended \in BOOLEAN /\ log.campaign \in BOOLEAN
      /\ cause \in Responses \ {"pending"}
  BY TypeOKLog DEF IInv, Logs, TypeOK, Causes, Responses
<1>1. CASE Delivered(h)
  BY <1>1, Stutters DEF Delivered, hookRest, DialStage
<1>2. CASE CloseCallLog(h)
  <2>1. /\ log' = log \/ (Made /\ log' = Closed(cause))
        /\ UNCHANGED <<dial, told>>
    BY <1>2 DEF CloseCallLog, hookRest, Found
  <2> QED
    BY <1>0, <2>1, ClosedReports, Stutters DEF DialStage, Record!Next
<1>3. CASE HookNotify(h)
  <2>1. UNCHANGED <<log, dial>> /\ told' \in {told, Notified(cause)}
    BY <1>3 DEF HookNotify, hookRest
  <2>2. log.ended
    BY <1>3 DEF HookNotify, IInv, NotifiesAfterEnd
  <2>3. log.campaign => log.response \in {cause, "answered"}
    BY <1>3 DEF HookNotify, HooksFollow, OwnedIsPlaced
  <2> QED
    BY <1>0, <2>1, <2>2, <2>3, NotifiedTells DEF Record!Next
<1> QED
  BY <1>1, <1>2, <1>3

\* The five writers keep, between them, what the record of a call promises: made once,
\* ended for good, answered unless the dial is taken for failed, and the campaign told
\* nothing else.
THEOREM Refinement == Spec => ImplementsRecord
<1>1. Init => Record!Init
  BY DEF Init, NoLog, Record!Init, Stage, DialStage
<1>2. IInv /\ RecordInv /\ [Next]_vars => [Record!Next]_(Record!rvars)
  <2> SUFFICES ASSUME IInv, RecordInv, [Next]_vars
               PROVE  Record!Next \/ UNCHANGED Record!rvars
    OBVIOUS
  <2>1. CASE UNCHANGED vars
    BY <2>1, Stutters DEF vars, DialStage
  <2>2. CASE Dialling \/ Provider \/ Webhook \/ Socket
    BY <2>2, DiallingMaps, RuntimeMaps
  <2>3. CASE HangUp
    BY <2>3, HangUpMaps DEF HangUp
  <2> QED
    BY <2>1, <2>2, <2>3 DEF Next
<1> QED
  BY RecordInvariance, <1>1, <1>2, PTL DEF Spec, ImplementsRecord, Record!Spec
=============================================================================
