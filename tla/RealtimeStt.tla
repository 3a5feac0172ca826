----------------------------- MODULE RealtimeStt -----------------------------
(***************************************************************************)
(* The realtime endpoint of the indic-conformer model server.  This model  *)
(* decodes whole buffers, so a socket re-transcribes the audio of the      *)
(* current segment for its interims and once more for the final that a     *)
(* commit asks for.  Every socket has its receive loop, which awaits the   *)
(* final of a commit inline, and at most one interim task; the session's   *)
(* lock serialises their inferences.  The requests of all sockets go       *)
(* through one bounded queue to a batch worker thread that answers each    *)
(* on a queue of its own, with the text or with the failure of the batch.  *)
(*                                                                         *)
(* Cancelling a task takes effect at the await it is in.  A request it had *)
(* queued is not withdrawn: it is decoded for nobody.                      *)
(***************************************************************************)
EXTENDS Naturals, Sequences, FiniteSets, SequencesExt

CONSTANTS
  Sockets,
  MaxSessions,   \* REALTIME_MAX_SESSIONS
  MinUnits,      \* MIN_SAMPLES, in units of audio
  QueueSize,     \* QUEUE_MAXSIZE
  BatchSize,     \* MAX_BATCH_SIZE
  MaxUnits,      \* bound: units appended to a socket
  MaxInterims,   \* bound: interims that reach the queue
  MaxSegments,   \* bound: segments a client begins on one socket
  MaxFailures    \* bound: batches that raise

Nobody == [socket |-> CHOOSE s \in Sockets : TRUE, who |-> "nobody", seg |-> 0, units |-> 0, id |-> 0]

VARIABLES
  phase,       \* socket -> new, open or gone
  ready,       \* session_ready
  audio,       \* units in audio_buffer
  sent,        \* history: units appended so far
  seg,         \* history: how many times the segment was reset
  inFlight,    \* in_flight
  lock,        \* who holds inference_lock: nobody, interim or final
  interim,     \* where the interim task is
  final,       \* where the inline final is
  snap,        \* the snapshot the lock's holder works on
  owed,        \* history: a commit has had no completed event
  queue,       \* the request queue
  batch,       \* what the worker has collected
  replies,     \* answers on the response queues somebody still waits on
  requests,    \* history: requests put on the queue
  interims, failures

session == <<phase, ready, audio, sent, seg>>
tasks == <<inFlight, lock, interim, final, snap, owed>>
worker == <<queue, batch, replies, requests, interims, failures>>
vars == <<session, tasks, worker>>

Init ==
  /\ phase = [s \in Sockets |-> "new"] /\ ready = [s \in Sockets |-> FALSE]
  /\ audio = [s \in Sockets |-> 0] /\ sent = [s \in Sockets |-> 0]
  /\ seg = [s \in Sockets |-> 0] /\ inFlight = [s \in Sockets |-> FALSE]
  /\ lock = [s \in Sockets |-> "nobody"]
  /\ interim = [s \in Sockets |-> "none"] /\ final = [s \in Sockets |-> "none"]
  /\ snap = [s \in Sockets |-> Nobody] /\ owed = [s \in Sockets |-> FALSE]
  /\ queue = <<>> /\ batch = <<>> /\ replies = {} /\ requests = 0
  /\ interims = 0 /\ failures = 0

---------------------------------------------------------------------------
(* The socket.                                                             *)

Active == Cardinality({s \in Sockets : phase[s] = "open"})

Connect(s) ==
  /\ phase[s] = "new"
  /\ phase' = [phase EXCEPT ![s] = IF Active < MaxSessions THEN "open" ELSE "gone"]
  /\ UNCHANGED <<ready, audio, sent, seg, tasks, worker>>

\* A slip: the receive loop does not wait for the final of a commit.
Receives_Always(s) == phase[s] = "open"

\* The receive loop takes a message only when it is not inside a commit.
Receives(s) == phase[s] = "open" /\ final[s] = "none"

SessionUpdate(s) ==
  /\ Receives(s) /\ ready' = [ready EXCEPT ![s] = TRUE]
  /\ UNCHANGED <<phase, audio, sent, seg, tasks, worker>>

\* The lock is given up wherever the cancelled task was.
CancelInterim(s) ==
  /\ interim' = [interim EXCEPT ![s] = "none"]
  /\ lock' = IF lock[s] = "interim" THEN [lock EXCEPT ![s] = "nobody"] ELSE lock
  /\ inFlight' = IF lock[s] = "interim" THEN [inFlight EXCEPT ![s] = FALSE] ELSE inFlight
  /\ snap' = IF lock[s] = "interim" THEN [snap EXCEPT ![s] = Nobody] ELSE snap
  /\ replies' = {r \in replies : ~(r.socket = s /\ r.who = "interim")}

Append1(s) ==
  /\ Receives(s) /\ ready[s] /\ sent[s] < MaxUnits
  /\ audio' = [audio EXCEPT ![s] = @ + 1] /\ sent' = [sent EXCEPT ![s] = @ + 1]
  /\ IF ~inFlight[s] /\ audio'[s] >= MinUnits
     THEN /\ lock' = IF lock[s] = "interim" THEN [lock EXCEPT ![s] = "nobody"] ELSE lock
          /\ snap' = IF lock[s] = "interim" THEN [snap EXCEPT ![s] = Nobody] ELSE snap
          /\ interim' = [interim EXCEPT ![s] = "sleeping"]
     ELSE UNCHANGED <<lock, snap, interim>>
  /\ UNCHANGED <<phase, ready, seg, inFlight, final, owed, worker>>

Commit(s) ==
  /\ Receives(s) /\ ready[s] /\ seg[s] < MaxSegments
  /\ final' = [final EXCEPT ![s] = "waiting"] /\ owed' = [owed EXCEPT ![s] = TRUE]
  /\ IF inFlight[s] THEN UNCHANGED <<interim, lock, inFlight, snap, replies>> ELSE CancelInterim(s)
  /\ UNCHANGED <<session, queue, batch, requests, interims, failures>>

\* A slip: a clear leaves the interim running.
Clear_KeepsInterim(s) ==
  /\ Receives(s) /\ seg[s] < MaxSegments
  /\ audio' = [audio EXCEPT ![s] = 0] /\ seg' = [seg EXCEPT ![s] = @ + 1]
  /\ UNCHANGED <<phase, ready, sent, tasks, worker>>

Clear(s) ==
  /\ Receives(s) /\ seg[s] < MaxSegments /\ CancelInterim(s)
  /\ audio' = [audio EXCEPT ![s] = 0] /\ seg' = [seg EXCEPT ![s] = @ + 1]
  /\ UNCHANGED <<phase, ready, sent, final, owed, queue, batch, requests, interims, failures>>

Disconnect(s) ==
  /\ Receives(s) /\ CancelInterim(s)
  /\ phase' = [phase EXCEPT ![s] = "gone"]
  /\ UNCHANGED <<ready, audio, sent, seg, final, owed, queue, batch, requests, interims, failures>>

---------------------------------------------------------------------------
(* One inference, of the interim task or of the commit.                    *)

At(who) == IF who = "final" THEN final ELSE interim

Goes(s, who, to) ==
  IF who = "final" THEN final' = [final EXCEPT ![s] = to] /\ UNCHANGED interim
  ELSE interim' = [interim EXCEPT ![s] = to] /\ UNCHANGED final

\* The interim's delay is over; it gives up when an inference is running.
Fire(s) ==
  /\ interim[s] = "sleeping"
  /\ interim' = [interim EXCEPT ![s] = IF inFlight[s] THEN "none" ELSE "waiting"]
  /\ UNCHANGED <<session, inFlight, lock, final, snap, owed, worker>>

\* The segment ends: completed, committed, and the buffer starts again.
EndSegment(s) ==
  /\ audio' = [audio EXCEPT ![s] = 0] /\ seg' = [seg EXCEPT ![s] = @ + 1]
  /\ owed' = [owed EXCEPT ![s] = FALSE]

\* With the lock: too little audio ends a final at once, with no text.
RunInference(s, who) ==
  /\ At(who)[s] = "waiting" /\ lock[s] = "nobody" /\ audio[s] < MinUnits
  /\ Goes(s, who, "none")
  /\ IF who = "final" THEN EndSegment(s) ELSE UNCHANGED <<audio, seg, owed>>
  /\ UNCHANGED <<phase, ready, sent, inFlight, lock, snap, worker>>

\* Otherwise the whole buffer is copied and put on the queue.
Enqueue(s, who) ==
  /\ At(who)[s] = "waiting" /\ lock[s] = "nobody" /\ audio[s] >= MinUnits
  /\ Len(queue) < QueueSize /\ requests' = requests + 1
  /\ interims' = IF who = "interim" THEN interims + 1 ELSE interims
  /\ interims' <= MaxInterims
  /\ LET r == [socket |-> s, who |-> who, seg |-> seg[s], units |-> audio[s],
             id |-> requests'] IN
     snap' = [snap EXCEPT ![s] = r] /\ queue' = Append(queue, r)
  /\ lock' = [lock EXCEPT ![s] = who] /\ inFlight' = [inFlight EXCEPT ![s] = TRUE]
  /\ Goes(s, who, "transcribing")
  /\ UNCHANGED <<session, owed, batch, replies, failures>>

\* The queue stays full for a second: an error, which ends a final too.
QueueFull(s, who) ==
  /\ At(who)[s] = "waiting" /\ lock[s] = "nobody" /\ audio[s] >= MinUnits
  /\ Len(queue) = QueueSize
  /\ Goes(s, who, "none")
  /\ IF who = "final" THEN EndSegment(s) ELSE UNCHANGED <<audio, seg, owed>>
  /\ UNCHANGED <<phase, ready, sent, inFlight, lock, snap, worker>>

\* A slip: a failure ends the task and not the segment.
Answered_Silent(s, who) ==
  \E r \in replies :
    /\ r.socket = s /\ r.who = who /\ At(who)[s] = "transcribing"
    /\ replies' = replies \ {r}
    /\ inFlight' = [inFlight EXCEPT ![s] = FALSE]
    /\ IF r.failed
       THEN /\ Goes(s, who, "none") /\ lock' = [lock EXCEPT ![s] = "nobody"]
            /\ snap' = [snap EXCEPT ![s] = Nobody] /\ UNCHANGED <<audio, seg, owed>>
       ELSE Goes(s, who, "sending") /\ UNCHANGED <<lock, snap, audio, seg, owed>>
    /\ UNCHANGED <<phase, ready, sent, queue, batch, requests, interims, failures>>

\* The reply: a failure ends a final, a text goes to the delta rule.
Answered(s, who) ==
  \E r \in replies :
    /\ r.socket = s /\ r.who = who /\ At(who)[s] = "transcribing"
    /\ replies' = replies \ {r}
    /\ inFlight' = [inFlight EXCEPT ![s] = FALSE]
    /\ IF r.failed
       THEN /\ Goes(s, who, "none") /\ lock' = [lock EXCEPT ![s] = "nobody"]
            /\ snap' = [snap EXCEPT ![s] = Nobody]
            /\ IF who = "final" THEN EndSegment(s) ELSE UNCHANGED <<audio, seg, owed>>
       ELSE Goes(s, who, "sending") /\ UNCHANGED <<lock, snap, audio, seg, owed>>
    /\ UNCHANGED <<phase, ready, sent, queue, batch, requests, interims, failures>>

\* The deltas have gone out; a final then ends its segment.
Sent(s, who) ==
  /\ At(who)[s] = "sending"
  /\ Goes(s, who, "none") /\ lock' = [lock EXCEPT ![s] = "nobody"]
  /\ snap' = [snap EXCEPT ![s] = Nobody]
  /\ IF who = "final" THEN EndSegment(s) ELSE UNCHANGED <<audio, seg, owed>>
  /\ UNCHANGED <<phase, ready, sent, inFlight, worker>>

---------------------------------------------------------------------------
(* The batch worker.                                                       *)

Collect ==
  /\ queue # <<>> /\ Len(batch) < BatchSize
  /\ batch' = Append(batch, Head(queue)) /\ queue' = Tail(queue)
  /\ UNCHANGED <<session, tasks, replies, requests, interims, failures>>

\* A reply nobody waits for any more is put on a queue that is dropped.
Awaited(r) == At(r.who)[r.socket] = "transcribing" /\ snap[r.socket] = r

Answers(failed) ==
  {[socket |-> r.socket, who |-> r.who, failed |-> failed] : r \in {r \in ToSet(batch) : Awaited(r)}}

Infer ==
  /\ batch # <<>> /\ batch' = <<>>
  /\ replies' = replies \union Answers(FALSE)
  /\ UNCHANGED <<session, tasks, queue, requests, interims, failures>>

InferRaises ==
  /\ batch # <<>> /\ failures < MaxFailures
  /\ failures' = failures + 1 /\ batch' = <<>>
  /\ replies' = replies \union Answers(TRUE)
  /\ UNCHANGED <<session, tasks, queue, requests, interims>>

---------------------------------------------------------------------------
Runs(s, who) ==
  \/ RunInference(s, who) \/ Enqueue(s, who) \/ QueueFull(s, who)
  \/ Answered(s, who) \/ Sent(s, who)

Client(s) ==
  \/ Connect(s) \/ SessionUpdate(s) \/ Append1(s) \/ Commit(s) \/ Clear(s) \/ Disconnect(s)

Next ==
  \/ \E s \in Sockets : Client(s) \/ Fire(s) \/ \E who \in {"interim", "final"} : Runs(s, who)
  \/ Collect \/ Infer \/ InferRaises

\* The loop runs what can run, and the worker serves its queue.
Fairness ==
  /\ \A s \in Sockets : WF_vars(Fire(s)) /\ WF_vars(Runs(s, "interim")) /\ WF_vars(Runs(s, "final"))
  /\ WF_vars(Collect) /\ WF_vars(Infer \/ InferRaises)

Spec == Init /\ [][Next]_vars /\ Fairness

---------------------------------------------------------------------------
(* Properties.                                                             *)

\* Type correctness.
TypeOK ==
  /\ phase \in [Sockets -> {"new", "open", "gone"}] /\ ready \in [Sockets -> BOOLEAN]
  /\ Active <= MaxSessions
  /\ \A s \in Sockets : audio[s] \in 0..sent[s]
  /\ lock \in [Sockets -> {"nobody", "interim", "final"}]
  /\ interim \in [Sockets -> {"none", "sleeping", "waiting", "transcribing", "sending"}]
  /\ final \in [Sockets -> {"none", "waiting", "transcribing", "sending"}]
  /\ Len(queue) <= QueueSize /\ Len(batch) <= BatchSize
  /\ interims \in 0..MaxInterims /\ failures \in 0..MaxFailures

\* Whoever transcribes or sends holds the lock, alone, and works on audio of
\* the segment that is still current: no text of a segment that was cleared
\* or committed reaches the item of the next.
SegmentsApart ==
  \A s \in Sockets, who \in {"interim", "final"} :
    At(who)[s] \in {"transcribing", "sending"} =>
      lock[s] = who /\ snap[s].who = who /\ snap[s].seg = seg[s]

\* A commit transcribes everything the socket has appended: the buffer is
\* given up by a clear, or by a final that has heard all of it, failed, or
\* found too little to transcribe.
CommitHearsAll ==
  [][\A s \in Sockets : audio'[s] < audio[s] =>
       \/ audio[s] < MinUnits \/ ~owed[s]
       \/ final[s] = "waiting" /\ Len(queue) = QueueSize
       \/ final[s] \in {"transcribing", "sending"} /\ snap[s].units = audio[s]]_vars

\* Every commit is answered by a completed event: whatever the interim is
\* doing, whatever the queue holds, and when the batch raises.
CommitCompletes == \A s \in Sockets : owed[s] ~> ~owed[s]
=============================================================================
