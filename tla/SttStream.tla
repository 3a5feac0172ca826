------------------------------ MODULE SttStream ------------------------------
(***************************************************************************)
(* Live transcription in the indic-transcribe model server: websockets on  *)
(* an event loop, and one GPU thread that advances the engine's sessions.  *)
(*                                                                         *)
(* A pause, a commit, a change of language or a safety roll ends a turn,   *)
(* never the stream: the turn's session is asked for its final transcript  *)
(* and the next turn opens a session of its own, so a stream may hold      *)
(* several at once.  The GPU thread takes one chunk of every session that  *)
(* is ready, pushes the chunks, runs the encoder over the batch and        *)
(* decodes session by session; what it says comes back through the         *)
(* stream's outbox.  Nothing but the lock around one session's pending     *)
(* audio orders the two, so a session may be closed in the middle of a     *)
(* tick.                                                                   *)
(*                                                                         *)
(* Audio comes in units: a chunk is one unit and the right context one     *)
(* more.  A unit of speech is the number the client gave it, a unit of     *)
(* silence is 0.  What the decoder commits before the last chunk is any    *)
(* prefix of what it has heard.  The voice activity gate is on and         *)
(* seamless rotation off, as they are by default.                          *)
(***************************************************************************)
EXTENDS Naturals, Sequences, FiniteSets, SequencesExt, FiniteSetsExt

CONSTANTS
  Streams,       \* websockets
  Files,         \* uploads to /v1/audio/transcriptions
  Endpointing,   \* the streams that asked for endpoint=1
  MaxSessions,   \* engine.cfg.max_sessions
  MaxBatch,      \* engine.cfg.max_batch
  SoftRoll,      \* SAFE_ROLL_SECS, in units
  HardRoll,      \* HARD_ROLL_SECS, in units
  MaxUnits,      \* bound: units a client sends
  MaxBurst,      \* bound: units in one message
  MaxSid,        \* bound: sessions the engine ever creates
  MaxFailures    \* bound: failures of a decode, of a handshake and of CUDA

Clients == Streams \union Files
Sid == 1..MaxSid

VARIABLES
  seq,        \* engine._sid_seq
  sess,       \* Sid -> the session's fields
  live,       \* engine.sessions, oldest first as the dict keeps them
  up,         \* engine.ready
  phase,      \* client -> how far its handler is
  turn,       \* client -> state["turn"]
  turns,      \* client -> the sessions in its dict of turns
  cur,        \* client -> state["sess"]
  sent,       \* client -> units it has sent
  outbox,     \* client -> deltas that wait for pump_out
  committed,  \* client -> the finished turns, in the order they were committed
  step,       \* where the tick is
  due,        \* the batch: [sid, units, last]
  out,        \* deltas of this tick, in order
  hurt,       \* history: sessions that lost something to a tick that raised
  failures

engineVars == <<seq, sess, live, up>>
clientVars == <<phase, turn, turns, cur, sent, outbox, committed>>
tickVars == <<step, due, out>>
vars == <<engineVars, clientVars, tickVars, hurt, failures>>

Unused == [owner |-> CHOOSE c \in Clients : TRUE, turn |-> 0, pending |-> <<>>,
           heard |-> <<>>, said |-> 0, fed |-> FALSE, secs |-> 0, quiet |-> FALSE,
           speech |-> FALSE, finalize |-> FALSE, finalized |-> FALSE,
           closed |-> FALSE, owed |-> {}]

Init ==
  /\ seq = 0 /\ sess = [s \in Sid |-> Unused] /\ live = {} /\ up = TRUE
  /\ phase = [c \in Clients |-> "new"] /\ turn = [c \in Clients |-> 0]
  /\ turns = [c \in Clients |-> {}] /\ cur = [c \in Clients |-> 0]
  /\ sent = [c \in Clients |-> 0] /\ outbox = [c \in Clients |-> <<>>]
  /\ committed = [c \in Clients |-> <<>>]
  /\ step = "poll" /\ due = <<>> /\ out = <<>>
  /\ hurt = {} /\ failures = 0

---------------------------------------------------------------------------
(* Sessions.                                                               *)

SamplesNeeded(s) == IF s.fed THEN 1 ELSE 2

\* A slip: a turn with nothing pending is not ready for its final.
Ready_Pending(i) ==
  /\ ~sess[i].closed /\ ~sess[i].finalized
  /\ IF sess[i].finalize THEN sess[i].pending # <<>>
     ELSE Len(sess[i].pending) >= SamplesNeeded(sess[i])

Ready(i) ==
  /\ ~sess[i].closed /\ ~sess[i].finalized
  /\ sess[i].finalize \/ Len(sess[i].pending) >= SamplesNeeded(sess[i])

TakesLast(s) == s.finalize /\ Len(s.pending) <= SamplesNeeded(s)

TakeLen(s) == IF TakesLast(s) THEN Len(s.pending) ELSE SamplesNeeded(s)

Speech(us) == ToSet(us) \ {0}

\* The gate looks at the audio before the GPU thread can see it.
Observe(s, us) ==
  [s EXCEPT !.speech = @ \/ Speech(us) # {}, !.quiet = Last(us) = 0]

Feed(s, us) ==
  [Observe(s, us) EXCEPT !.pending = @ \o us, !.secs = @ + Len(us),
                         !.owed = @ \union Speech(us)]

RequestFinalize(s) == [s EXCEPT !.finalize = TRUE]

\* At the endpoint at most one chunk of the tail is kept.
DropPending(s) ==
  LET n == Min({SamplesNeeded(s), Len(s.pending)})
      rest == SubSeq(s.pending, n + 1, Len(s.pending))
  IN [RequestFinalize(s) EXCEPT !.pending = SubSeq(@, 1, n),
                                !.owed = @ \ ToSet(rest)]

Endpointed(s) == s.speech /\ s.quiet

NeedsSafetyRoll(s) == s.secs >= HardRoll \/ (s.secs >= SoftRoll /\ s.quiet)

\* close(): the buffer and the decoder's state are gone.
Close(s) == [s EXCEPT !.closed = TRUE, !.pending = <<>>, !.heard = <<>>, !.said = 0,
                      !.fed = FALSE]

Closed(ss, ids) == [i \in Sid |-> IF i \in ids THEN Close(ss[i]) ELSE ss[i]]

\* What a text says is the speech in it.
Text(s) == SubSeq(s.heard, 1, s.said)

---------------------------------------------------------------------------
(* The websocket handler.  A handler runs between two awaits without the   *)
(* loop giving way; the GPU thread may run at any moment of it, and every  *)
(* moment it could see is one before or after the step modelled here.      *)

HasRoom == Cardinality(live) < MaxSessions

\* Refused, or accepted; accepting gives way before the session exists.
Admit(c) ==
  /\ phase[c] = "new"
  /\ phase' = [phase EXCEPT ![c] = IF up /\ HasRoom THEN "accepted" ELSE "gone"]
  /\ UNCHANGED <<engineVars, turn, turns, cur, sent, outbox, committed, tickVars, hurt, failures>>

\* A slip: only the current turn is retired.
Leave_Current(c, ss, also) ==
  /\ live' = live \ ({cur[c]} \union also)
  /\ sess' = Closed(ss, {cur[c]} \union also)
  /\ turns' = [turns EXCEPT ![c] = {}]
  /\ phase' = [phase EXCEPT ![c] = "gone"]
  /\ outbox' = [outbox EXCEPT ![c] = <<>>]
  /\ UNCHANGED <<seq, up, turn, cur, committed, tickVars, hurt, failures>>

\* finally: every turn still in the dict is retired and its session closed.
Leave(c, ss, also) ==
  /\ live' = live \ (turns[c] \union also)
  /\ sess' = Closed(ss, turns[c] \union also)
  /\ turns' = [turns EXCEPT ![c] = {}]
  /\ phase' = [phase EXCEPT ![c] = "gone"]
  /\ outbox' = [outbox EXCEPT ![c] = <<>>]
  /\ UNCHANGED <<seq, up, turn, cur, committed, tickVars, hurt, failures>>

\* start_turn() raises at capacity, and then the stream is over.
StartTurn(c, t, ss, retired, next) ==
  LET open == live \ retired IN
  IF Cardinality(open) >= MaxSessions
  THEN Leave(c, ss, retired)
  ELSE /\ seq < MaxSid
       /\ seq' = seq + 1
       /\ sess' = [Closed(ss, retired) EXCEPT ![seq + 1] = [Unused EXCEPT !.owner = c, !.turn = t]]
       /\ live' = open \union {seq + 1}
       /\ turns' = [turns EXCEPT ![c] = (@ \ retired) \union {seq + 1}]
       /\ cur' = [cur EXCEPT ![c] = seq + 1]
       /\ turn' = [turn EXCEPT ![c] = t]
       /\ phase' = [phase EXCEPT ![c] = next]
       /\ UNCHANGED <<up, outbox, committed, tickVars, hurt, failures>>

FirstTurn(c) ==
  /\ c \in Streams /\ phase[c] = "accepted"
  /\ StartTurn(c, 0, sess, {}, "hello") /\ UNCHANGED sent

Handshake(c) ==
  /\ phase[c] = "hello"
  /\ phase' = [phase EXCEPT ![c] = "open"]
  /\ UNCHANGED <<engineVars, turn, turns, cur, sent, outbox, committed, tickVars, hurt, failures>>

\* The client went away before it was greeted: the try that closes the
\* stream's sessions has not begun, so its session stays in the engine.
HandshakeFails(c) ==
  /\ phase[c] = "hello" /\ failures < MaxFailures
  /\ failures' = failures + 1
  /\ phase' = [phase EXCEPT ![c] = "lost"]
  /\ UNCHANGED <<engineVars, turn, turns, cur, sent, outbox, committed, tickVars, hurt>>

\* Ends the current turn and hands over to the next one.
Roll(c, s) == StartTurn(c, turn[c] + 1, [sess EXCEPT ![cur[c]] = s], {}, "open")

\* What a client may send next: some units, each speech or silence.
Bursts(c) ==
  UNION {{[i \in 1..n |-> IF i \in talk THEN sent[c] + i ELSE 0] : talk \in SUBSET (1..n)} :
           n \in {k \in 1..MaxBurst : sent[c] + k <= MaxUnits}}

Receive(c) ==
  \E us \in Bursts(c) :
    LET s == Feed(sess[cur[c]], us) IN
    /\ phase[c] = "open" /\ ~sess[cur[c]].closed
    /\ sent' = [sent EXCEPT ![c] = @ + Len(us)]
    /\ CASE c \in Endpointing /\ Endpointed(s) /\ ~s.finalize -> Roll(c, DropPending(s))
         [] ~(c \in Endpointing /\ Endpointed(s)) /\ ~s.finalize /\ NeedsSafetyRoll(s)
              -> Roll(c, RequestFinalize(s))
         [] OTHER ->
              /\ sess' = [sess EXCEPT ![cur[c]] = s]
              /\ UNCHANGED <<seq, live, up, phase, turn, turns, cur, outbox, committed,
                             tickVars, hurt, failures>>

\* feed() refuses a session the engine closed after a failed decode.
ReceiveRaises(c) ==
  /\ phase[c] = "open" /\ sess[cur[c]].closed /\ sent[c] < MaxUnits
  /\ Leave(c, sess, {}) /\ UNCHANGED sent

Commit(c) ==
  /\ phase[c] = "open" /\ ~sess[cur[c]].finalize
  /\ Roll(c, RequestFinalize(sess[cur[c]])) /\ UNCHANGED sent

\* session.update with another language: a turn that has heard something is
\* finished in its own language, an empty one is replaced outright.
Language(c) ==
  /\ phase[c] = "open" /\ ~sess[cur[c]].finalize
  /\ IF sess[cur[c]].secs > 0
     THEN Roll(c, RequestFinalize(sess[cur[c]]))
     ELSE StartTurn(c, turn[c], sess, {cur[c]}, "open")
  /\ UNCHANGED sent

Stop(c) ==
  /\ phase[c] = "open"
  /\ sess' = [sess EXCEPT ![cur[c]] = RequestFinalize(@)]
  /\ phase' = [phase EXCEPT ![c] = "draining"]
  /\ UNCHANGED <<seq, live, up, turn, turns, cur, sent, outbox, committed, tickVars, hurt, failures>>

\* close_stream(): the dict of turns is empty, or three seconds are over.
CloseStream(c) == phase[c] = "draining" /\ Leave(c, sess, {}) /\ UNCHANGED sent

Hangup(c) == phase[c] = "open" /\ Leave(c, sess, {}) /\ UNCHANGED sent

\* pump_out(): a final commits its turn and retires the session.
PumpOut(c) ==
  /\ phase[c] \in {"open", "draining"} /\ outbox[c] # <<>>
  /\ LET d == Head(outbox[c]) IN
     /\ outbox' = [outbox EXCEPT ![c] = Tail(@)]
     /\ IF d.final
        THEN /\ committed' = IF Speech(d.text) = {} THEN committed
                             ELSE [committed EXCEPT ![c] = Append(@, [sid |-> d.sid, text |-> d.text])]
             /\ turns' = [turns EXCEPT ![c] = @ \ {d.sid}]
             /\ live' = live \ ({d.sid} \intersect turns[c])
             /\ sess' = Closed(sess, {d.sid} \intersect turns[c])
        ELSE UNCHANGED <<committed, turns, live, sess>>
  /\ UNCHANGED <<seq, up, phase, turn, cur, sent, tickVars, hurt, failures>>

---------------------------------------------------------------------------
(* An upload is one session that is fed once and finalized at once; its    *)
(* handler waits for the final, or 120 seconds.                            *)

Upload(c) ==
  \E us \in Bursts(c) :
    /\ c \in Files /\ phase[c] = "new" /\ up
    /\ IF HasRoom
       THEN /\ seq < MaxSid
            /\ seq' = seq + 1
            /\ sess' = [sess EXCEPT ![seq + 1] =
                          RequestFinalize(Feed([Unused EXCEPT !.owner = c], us))]
            /\ live' = live \union {seq + 1}
            /\ turns' = [turns EXCEPT ![c] = {seq + 1}]
            /\ phase' = [phase EXCEPT ![c] = "waiting"]
            /\ cur' = [cur EXCEPT ![c] = seq + 1]
            /\ sent' = [sent EXCEPT ![c] = Len(us)]
       ELSE /\ phase' = [phase EXCEPT ![c] = "gone"]
            /\ UNCHANGED <<seq, sess, live, turns, cur, sent>>
    /\ UNCHANGED <<up, turn, outbox, committed, tickVars, hurt, failures>>

UploadAnswered(c) ==
  /\ phase[c] = "waiting" /\ \E i \in DOMAIN outbox[c] : outbox[c][i].final
  /\ LET d == Last(outbox[c]) IN
     committed' = [committed EXCEPT ![c] = <<[sid |-> d.sid, text |-> d.text]>>]
  /\ live' = live \ turns[c] /\ sess' = Closed(sess, turns[c])
  /\ turns' = [turns EXCEPT ![c] = {}] /\ phase' = [phase EXCEPT ![c] = "gone"]
  /\ outbox' = [outbox EXCEPT ![c] = <<>>]
  /\ UNCHANGED <<seq, up, turn, cur, sent, tickVars, hurt, failures>>

UploadTimesOut(c) == phase[c] = "waiting" /\ Leave(c, sess, {}) /\ UNCHANGED sent

---------------------------------------------------------------------------
(* The GPU thread.                                                         *)

Candidates == {i \in live : Ready(i)}

\* Sessions in the order of the dict, the oldest first.
InOrder(ids) ==
  [n \in 1..Cardinality(ids) |-> CHOOSE i \in ids : Cardinality({j \in ids : j < i}) = n - 1]

\* A slip: a pause after speech is skipped too.
ShouldSkip_Pause(i) == ~sess[i].speech \/ sess[i].quiet

ShouldSkip(i) == ~sess[i].speech

\* The candidates up to the one that fills the batch.
Served ==
  {i \in Candidates : Cardinality({j \in Candidates : j < i /\ ~ShouldSkip(j)}) < MaxBatch}

Pushed(s, us) ==
  IF us = <<>> THEN s ELSE [s EXCEPT !.heard = @ \o us, !.fed = TRUE]

\* A silent session is finalized without a decode, or its chunk goes to the
\* buffer alone; the others give up a chunk each.
TickTakes ==
  LET silent == {i \in Served : ShouldSkip(i)}
      batch == InOrder(Served \ silent)
      finals == InOrder({i \in silent : sess[i].finalize})
      taken(i) == SubSeq(sess[i].pending, 1, TakeLen(sess[i]))
      rest(i) == SubSeq(sess[i].pending, TakeLen(sess[i]) + 1, Len(sess[i].pending))
  IN
  /\ step = "poll" /\ up /\ Candidates # {}
  /\ sess' = [i \in Sid |->
                IF i \in silent /\ sess[i].finalize
                THEN [sess[i] EXCEPT !.pending = <<>>, !.finalized = TRUE]
                ELSE IF i \in silent
                THEN [Pushed(sess[i], taken(i)) EXCEPT !.pending = rest(i)]
                ELSE IF i \in Served THEN [sess[i] EXCEPT !.pending = rest(i)]
                ELSE sess[i]]
  /\ due' = [n \in DOMAIN batch |-> [sid |-> batch[n], units |-> taken(batch[n]),
                                     last |-> TakesLast(sess[batch[n]])]]
  /\ out' = [n \in DOMAIN finals |-> [sid |-> finals[n], text |-> Text(sess[finals[n]]),
                                      final |-> TRUE]]
  /\ step' = IF batch = <<>> THEN "route" ELSE "push"
  /\ UNCHANGED <<seq, live, up, clientVars, hurt, failures>>

Gone(i) == sess[i].closed

\* The chunks go to the buffers in order; a session closed meanwhile has none.
TickPushes ==
  /\ step = "push"
  /\ LET bad == {n \in DOMAIN due : Gone(due[n].sid) /\ due[n].units # <<>>}
         upto == IF bad = {} THEN Len(due) ELSE Min(bad) - 1
         chunk(i) == LET n == CHOOSE n \in DOMAIN due : due[n].sid = i IN due[n].units
         some == {due[n].sid : n \in 1..upto}
     IN /\ sess' = [i \in Sid |-> IF i \in some THEN Pushed(sess[i], chunk(i)) ELSE sess[i]]
        /\ step' = IF bad = {} THEN "forward" ELSE "raise"
        /\ hurt' = hurt \union {due[n].sid : n \in {k \in DOMAIN due : k > upto /\ due[k].units # <<>>}}
  /\ UNCHANGED <<seq, live, up, clientVars, due, out, failures>>

\* The forward pass reads every buffer of the batch.
TickForward ==
  /\ step = "forward"
  /\ step' = IF \E n \in DOMAIN due : Gone(due[n].sid) THEN "raise" ELSE "decode"
  /\ UNCHANGED <<engineVars, clientVars, due, out, hurt, failures>>

\* An exception outside the decode loses the tick: the chunks it took that
\* are in no buffer yet, and the silent finals it had already decided.
TickAborts ==
  /\ step = "raise"
  /\ step' = "poll" /\ due' = <<>> /\ out' = <<>>
  /\ hurt' = hurt \union {out[n].sid : n \in DOMAIN out}
  /\ UNCHANGED <<engineVars, clientVars, failures>>

\* Up to where the decoder may commit: everything with the last chunk, and any
\* unit of speech before it.
Commits(s, last) ==
  IF last THEN {Len(s.heard)}
  ELSE {s.said} \union {n \in s.said..Len(s.heard) : n > s.said /\ s.heard[n] # 0}

\* One session: what it says anew goes out, and its final in any case.
Decode ==
  /\ step = "decode" /\ due # <<>> /\ ~Gone(Head(due).sid)
  /\ LET d == Head(due)
         s == sess[d.sid]
     IN \E n \in Commits(s, d.last) :
          LET now == [s EXCEPT !.said = n, !.finalized = d.last] IN
          /\ sess' = [sess EXCEPT ![d.sid] = now]
          /\ out' = IF n = s.said /\ ~d.last THEN out
                    ELSE Append(out, [sid |-> d.sid, text |-> Text(now), final |-> d.last])
  /\ due' = Tail(due)
  /\ UNCHANGED <<seq, live, up, clientVars, step, hurt, failures>>

\* A slip: the session is closed but not taken out of the engine.
DecodeFails_Stays ==
  /\ step = "decode" /\ due # <<>> /\ failures < MaxFailures
  /\ failures' = failures + 1
  /\ sess' = Closed(sess, {Head(due).sid})
  /\ due' = Tail(due)
  /\ UNCHANGED <<seq, up, live, clientVars, step, out, hurt>>

\* The decode of one session fails: the engine closes that session only.
\* A session its own stream has closed fails in the same way.
DecodeFails ==
  /\ step = "decode" /\ due # <<>>
  /\ LET i == Head(due).sid IN
     /\ IF Gone(i) THEN UNCHANGED failures
        ELSE failures < MaxFailures /\ failures' = failures + 1
     /\ live' = live \ {i} /\ sess' = Closed(sess, {i})
  /\ due' = Tail(due)
  /\ UNCHANGED <<seq, up, clientVars, step, out, hurt>>

TickEnds ==
  /\ step = "decode" /\ due = <<>>
  /\ step' = "route"
  /\ UNCHANGED <<engineVars, clientVars, due, out, hurt, failures>>

\* The deltas of this tick for one client, in order.
Sink(c) ==
  LET mine == InOrder({n \in DOMAIN out : out[n].sid \in turns[c]})
  IN [k \in DOMAIN mine |-> out[mine[k]]]

\* Deltas go to the sinks still registered; the others are dropped.
Route ==
  /\ step = "route"
  /\ outbox' = [c \in Clients |-> outbox[c] \o Sink(c)]
  /\ step' = "poll" /\ out' = <<>>
  /\ UNCHANGED <<engineVars, phase, turn, turns, cur, sent, committed, due, hurt, failures>>

\* A CUDA failure is fatal: the process is replaced and every socket drops.
CudaFails ==
  /\ step = "decode" /\ due # <<>> /\ failures < MaxFailures
  /\ failures' = failures + 1
  /\ up' = FALSE /\ live' = {} /\ sess' = Closed(sess, live)
  /\ phase' = [c \in Clients |-> IF phase[c] = "new" THEN "new" ELSE "gone"]
  /\ turns' = [c \in Clients |-> {}] /\ outbox' = [c \in Clients |-> <<>>]
  /\ step' = "poll" /\ due' = <<>> /\ out' = <<>>
  /\ UNCHANGED <<seq, turn, cur, sent, committed, hurt>>

Load ==
  /\ ~up /\ up' = TRUE
  /\ UNCHANGED <<seq, sess, live, clientVars, tickVars, hurt, failures>>

---------------------------------------------------------------------------
Client(c) ==
  \/ FirstTurn(c) \/ Handshake(c) \/ HandshakeFails(c) \/ Receive(c) \/ ReceiveRaises(c)
  \/ Commit(c) \/ Language(c) \/ Stop(c) \/ CloseStream(c) \/ Hangup(c)
  \/ Upload(c) \/ UploadAnswered(c) \/ UploadTimesOut(c)

Tick ==
  \/ TickTakes \/ TickPushes \/ TickForward \/ TickAborts \/ Decode \/ DecodeFails
  \/ TickEnds \/ Route

Next ==
  \/ \E c \in Clients : Client(c) \/ PumpOut(c)
  \/ \E c \in Streams : Admit(c)
  \/ Tick \/ CudaFails \/ Load

\* The GPU thread never stops by itself, and the loop runs a task that can run.
Fairness ==
  /\ WF_vars(Tick) /\ WF_vars(Load)
  /\ \A c \in Streams : WF_vars(PumpOut(c))
  /\ \A c \in Files : WF_vars(UploadAnswered(c))

Spec == Init /\ [][Next]_vars /\ Fairness

---------------------------------------------------------------------------
(* Properties.                                                             *)

\* Type correctness.
TypeOK ==
  /\ seq \in 0..MaxSid /\ live \subseteq 1..seq /\ up \in BOOLEAN
  /\ \A i \in 1..seq : sess[i].owner \in Clients /\ sess[i].said <= Len(sess[i].heard)
  /\ \A i \in live : ~sess[i].closed
  /\ phase \in [Clients -> {"new", "accepted", "hello", "open", "draining", "waiting", "lost", "gone"}]
  /\ turns \in [Clients -> SUBSET Sid] /\ cur \in [Clients -> {0} \union Sid]
  /\ sent \in [Clients -> 0..MaxUnits]
  /\ step \in {"poll", "push", "forward", "raise", "decode", "route"}
  /\ \A n \in DOMAIN due : due[n].sid \in Sid
  /\ hurt \subseteq Sid /\ failures \in 0..MaxFailures

\* Every session in the engine counts against the capacity, so each of them
\* must be one that a handler still running will close.  The exception is a
\* stream whose greeting could not be sent.
SessionsAreOwned ==
  /\ Cardinality(live) <= MaxSessions
  /\ \A i \in live : /\ i \in turns[sess[i].owner]
                     /\ phase[sess[i].owner] \notin {"new", "accepted", "gone"}

\* A turn that was committed says every unit of speech it was fed, each once
\* and in order: the endpoint's tail and a tick that raised are all that can
\* take a unit away.
FinalSaysAll ==
  \A c \in Clients : \A k \in DOMAIN committed[c] :
    LET t == committed[c][k] IN
    /\ \A i, j \in DOMAIN t.text : i < j => t.text[j] = 0 \/ t.text[i] < t.text[j]
    /\ Speech(t.text) \subseteq sess[t.sid].owed
    /\ t.sid \notin hurt => Speech(t.text) = sess[t.sid].owed

\* A turn that was asked for its final transcript is given one and its
\* session closed, whatever the other streams do; the exception is a silent
\* turn whose final a tick that raised has dropped.
EveryTurnEnds ==
  \A i \in Sid : (i \in live /\ sess[i].finalize) ~> (i \notin live \/ i \in hurt)

\* The transcript of a stream is the text of its turns in the order they were
\* spoken ("the transcript is cumulative across turns").
TurnsInOrder ==
  \A c \in Streams : \A j, k \in DOMAIN committed[c] :
    j < k => sess[committed[c][j].sid].turn < sess[committed[c][k].sid].turn
=============================================================================
