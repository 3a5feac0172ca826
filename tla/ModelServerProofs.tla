-------------------------- MODULE ModelServerProofs --------------------------
(***************************************************************************)
(* Proofs about the parts of the model server, for any clients, limits and *)
(* audio.  A behaviour is one of one part, so each part has an invariant   *)
(* of its own that holds while the part runs; the theorems follow from it. *)
(* The streaming engine has its module, SttStreamProofs.                   *)
(***************************************************************************)
EXTENDS SttStreamProofs

---------------------------------------------------------------------------
(* RealtimeStt.  Besides its types the invariant says which audio a commit *)
(* has heard.                                                              *)

\* The audio a socket hands to the batch worker, or nothing.
Snaps == [socket: Sockets, who: {"nobody", "interim", "final"}, seg: Nat, units: Nat,
          id: Nat]

SocketsOK ==
  /\ phase \in [Sockets -> {"new", "open", "gone"}] /\ ready \in [Sockets -> BOOLEAN]
  /\ Realtime!Active <= MaxRealtime

AudioOK ==
  /\ audio \in [Sockets -> Nat] /\ sent \in [Sockets -> Nat] /\ seg \in [Sockets -> Nat]
  /\ \A s \in Sockets : audio[s] <= sent[s]

InferencesOK ==
  /\ inFlight \in [Sockets -> BOOLEAN] /\ lock \in [Sockets -> {"nobody", "interim", "final"}]
  /\ interim \in [Sockets -> {"none", "sleeping", "waiting", "transcribing", "sending"}]
  /\ final \in [Sockets -> {"none", "waiting", "transcribing", "sending"}]
  /\ snap \in [Sockets -> Snaps] /\ owed \in [Sockets -> BOOLEAN]

WorkerOK ==
  /\ queue \in Seq(Snaps) /\ Len(queue) <= QueueSize
  /\ batch \in Seq(Snaps) /\ Len(batch) <= BatchSize
  /\ requests \in Nat /\ interims \in 0..MaxInterims /\ r_failures \in 0..MaxFailures

\* A commit that is owed an answer has its inference before it, and what is being
\* transcribed for it is all the socket has.
Hearing ==
  \A s \in Sockets :
    /\ owed[s] => final[s] # "none"
    /\ final[s] \in {"transcribing", "sending"} => snap[s].units = audio[s]

RealtimeInv ==
  /\ SocketsOK /\ AudioOK /\ InferencesOK /\ WorkerOK
  /\ Realtime!SegmentsApart /\ Hearing

\* The constants of the part, one by one.
LEMMA RealtimeConstants ==
  /\ IsFiniteSet(Sockets) /\ MaxRealtime \in Nat /\ MinUnits \in Nat
  /\ QueueSize \in Nat /\ BatchSize \in Nat /\ MaxInterims \in Nat /\ MaxFailures \in Nat
  BY RealtimeAssumption

\* No audio is a snapshot too.
LEMMA NobodyIsSnap == Realtime!Nobody \in Snaps
  BY RealtimeAssumption DEF Realtime!Nobody, Snaps

\* The instance's own Cardinality is the library's.
LEMMA RealtimeCardinality == \A S : Realtime!Cardinality(S) = Cardinality(S)
  BY DEF Realtime!Cardinality, Cardinality

\* As many sockets are open as may be.
LEMMA SocketsStep ==
  ASSUME SocketsOK, Realtime!Next
  PROVE  SocketsOK'
\* The steps that are about something else.
<1>0. ASSUME UNCHANGED <<phase, ready>> PROVE SocketsOK'
  BY <1>0 DEF SocketsOK, Realtime!Active
<1>1. ASSUME NEW s \in Sockets, Realtime!Connect(s) PROVE SocketsOK'
  <2> DEFINE open == {o \in Sockets : phase[o] = "open"}
  <2>2. IsFiniteSet(open) /\ Realtime!Active = Cardinality(open)
    BY RealtimeConstants, RealtimeCardinality, FS_Subset DEF Realtime!Active
  <2>3. Realtime!Active' = Cardinality(open')
    BY RealtimeCardinality DEF Realtime!Active
  <2>4. CASE Realtime!Active < MaxRealtime
    <3>1. open' = open \cup {s}
      BY <1>1, <2>4 DEF SocketsOK, Realtime!Connect
    <3> HIDE DEF open
    <3>2. Cardinality(open') <= Cardinality(open) + 1
      BY <2>2, <3>1, FS_AddElement, FS_CardinalityType
    <3>3. Realtime!Active' <= MaxRealtime
      <4>1. Cardinality(open) \in Nat /\ Cardinality(open') \in Nat
        BY <2>2, <3>1, FS_AddElement, FS_CardinalityType
      <4> QED
        BY <2>2, <2>3, <2>4, <3>2, <4>1, RealtimeConstants
    <3> QED
      BY <1>1, <3>3 DEF SocketsOK, Realtime!Connect
  <2>5. CASE ~(Realtime!Active < MaxRealtime)
    <3>1. open' = open
      BY <1>1, <2>5 DEF SocketsOK, Realtime!Connect
    <3> QED
      BY <1>1, <2>2, <2>3, <3>1 DEF SocketsOK, Realtime!Connect
  <2> QED
    BY <2>4, <2>5
<1>2. ASSUME NEW s \in Sockets, Realtime!SessionUpdate(s) PROVE SocketsOK'
  <2>1. ready' \in [Sockets -> BOOLEAN] /\ phase' = phase
    BY <1>2 DEF SocketsOK, Realtime!SessionUpdate
  <2> QED
    BY <2>1 DEF SocketsOK, Realtime!Active
<1>3. ASSUME NEW s \in Sockets, Realtime!Disconnect(s) PROVE SocketsOK'
  <2> DEFINE open == {o \in Sockets : phase[o] = "open"}
  <2>1. IsFiniteSet(open) /\ Realtime!Active = Cardinality(open)
    BY RealtimeConstants, RealtimeCardinality, FS_Subset DEF Realtime!Active
  <2>2. Realtime!Active' = Cardinality(open')
    BY RealtimeCardinality DEF Realtime!Active
  <2>3. open' \subseteq open
    BY <1>3 DEF SocketsOK, Realtime!Disconnect
  <2> HIDE DEF open
  <2>4. Cardinality(open') <= Cardinality(open) /\ Cardinality(open') \in Nat
    BY <2>1, <2>3, FS_Subset, FS_CardinalityType
  <2>5. Realtime!Active' <= MaxRealtime
    BY <2>1, <2>2, <2>4, FS_CardinalityType, RealtimeConstants DEF SocketsOK
  <2> QED
    BY <1>3, <2>5 DEF SocketsOK, Realtime!Disconnect
<1>4. ASSUME NEW s \in Sockets, NEW who \in {"interim", "final"}, Realtime!Answered(s, who)
      PROVE  SocketsOK'
  BY <1>4, RealtimeConstants DEF SocketsOK, Realtime!Active, Realtime!Answered,
     Realtime!At, Realtime!Goes, Realtime!EndSegment
<1>5. CASE \E s \in Sockets : Realtime!Client(s) \/ Realtime!Fire(s)
  BY <1>5, <1>0, <1>1, <1>2, <1>3 DEF Realtime!Client, Realtime!Append1,
     Realtime!worker, Realtime!Commit, Realtime!session, Realtime!Clear, Realtime!Fire
<1>6. CASE \E s \in Sockets, who \in {"interim", "final"} : Realtime!Runs(s, who)
  BY <1>6, <1>0, <1>4 DEF Realtime!Runs, Realtime!RunInference, Realtime!worker,
     Realtime!Enqueue, Realtime!session, Realtime!QueueFull, Realtime!Sent
<1>7. CASE Realtime!Collect \/ Realtime!Infer \/ Realtime!InferRaises
  BY <1>7, <1>0 DEF Realtime!Collect, Realtime!session, Realtime!tasks,
     Realtime!Infer, Realtime!InferRaises
<1> QED
  BY <1>5, <1>6, <1>7 DEF Realtime!Next

\* Audio is counted.
LEMMA AudioStep ==
  ASSUME AudioOK, InferencesOK, Realtime!Next
  PROVE  AudioOK'
\* The steps that are about something else.
<1>0. ASSUME UNCHANGED <<audio, sent, seg>> PROVE AudioOK'
  BY <1>0 DEF AudioOK
<1>1. ASSUME NEW s \in Sockets, Realtime!Append1(s) PROVE AudioOK'
  BY <1>1, RealtimeConstants DEF AudioOK, InferencesOK, Realtime!Append1,
     Realtime!worker, Realtime!Receives
<1>2. ASSUME NEW s \in Sockets, Realtime!Clear(s) PROVE AudioOK'
  BY <1>2, RealtimeConstants DEF AudioOK, InferencesOK, Realtime!Clear,
     Realtime!Receives, Realtime!CancelInterim
<1>3. ASSUME NEW s \in Sockets, NEW who \in {"interim", "final"}, Realtime!RunInference(s, who)
      PROVE  AudioOK'
  BY <1>3, RealtimeConstants DEF AudioOK, InferencesOK, Realtime!RunInference,
     Realtime!worker, Realtime!At, Realtime!Goes, Realtime!EndSegment
<1>4. ASSUME NEW s \in Sockets, NEW who \in {"interim", "final"}, Realtime!QueueFull(s, who)
      PROVE  AudioOK'
  <2>1. CASE who = "interim"
    <3>1. UNCHANGED <<audio, sent, seg>>
      BY <1>4, <2>1 DEF Realtime!QueueFull
    <3> QED
      BY <3>1 DEF AudioOK
  <2>2. CASE who = "final"
    <3>1. /\ audio' = [audio EXCEPT ![s] = 0] /\ seg' = [seg EXCEPT ![s] = @ + 1]
          /\ sent' = sent
      BY <1>4, <2>2 DEF Realtime!QueueFull, Realtime!EndSegment
    <3> QED
      BY <3>1 DEF AudioOK
  <2> QED
    BY <2>1, <2>2
<1>5. ASSUME NEW s \in Sockets, NEW who \in {"interim", "final"}, Realtime!Answered(s, who)
      PROVE  AudioOK'
  BY <1>5, RealtimeConstants DEF AudioOK, InferencesOK, Realtime!Answered,
     Realtime!At, Realtime!Goes, Realtime!EndSegment
<1>6. ASSUME NEW s \in Sockets, NEW who \in {"interim", "final"}, Realtime!Sent(s, who)
      PROVE  AudioOK'
  BY <1>6, RealtimeConstants DEF AudioOK, InferencesOK, Realtime!Sent,
     Realtime!worker, Realtime!At, Realtime!Goes, Realtime!EndSegment
<1>7. CASE \E s \in Sockets : Realtime!Client(s) \/ Realtime!Fire(s)
  BY <1>7, <1>0, <1>1, <1>2 DEF Realtime!Client, Realtime!Connect, Realtime!tasks,
     Realtime!worker, Realtime!SessionUpdate, Realtime!Commit, Realtime!session,
     Realtime!Disconnect, Realtime!Fire
<1>8. CASE \E s \in Sockets, who \in {"interim", "final"} : Realtime!Runs(s, who)
  BY <1>8, <1>0, <1>3, <1>4, <1>5, <1>6 DEF Realtime!Runs, Realtime!Enqueue,
     Realtime!session
<1>9. CASE Realtime!Collect \/ Realtime!Infer \/ Realtime!InferRaises
  BY <1>9, <1>0 DEF Realtime!Collect, Realtime!session, Realtime!tasks,
     Realtime!Infer, Realtime!InferRaises
<1> QED
  BY <1>7, <1>8, <1>9 DEF Realtime!Next

\* Inferences keep their types.
LEMMA InferencesStep ==
  ASSUME InferencesOK, AudioOK, WorkerOK, Realtime!Next
  PROVE  InferencesOK'
\* The steps that are about something else.
<1>0. ASSUME UNCHANGED <<inFlight, lock, interim, final, snap, owed>> PROVE InferencesOK'
  BY <1>0 DEF InferencesOK
<1>1. ASSUME NEW s \in Sockets, Realtime!Append1(s) PROVE InferencesOK'
  <2>1. inFlight' \in [Sockets -> BOOLEAN]
    BY <1>1 DEF InferencesOK, Realtime!Append1, Realtime!worker, Realtime!Receives
  <2>2. lock' \in [Sockets -> {"nobody", "interim", "final"}]
    BY <1>1 DEF InferencesOK, Realtime!Append1, Realtime!worker, Realtime!Receives
  <2>3. interim' \in [Sockets -> {"none", "sleeping", "waiting", "transcribing", "sending"}]
    BY <1>1 DEF InferencesOK, Realtime!Append1, Realtime!worker, Realtime!Receives
  <2>4. final' \in [Sockets -> {"none", "waiting", "transcribing", "sending"}]
    BY <1>1 DEF InferencesOK, Realtime!Append1, Realtime!worker, Realtime!Receives
  <2>5. snap' \in [Sockets -> Snaps]
    BY <1>1, NobodyIsSnap DEF InferencesOK, Realtime!Append1, Realtime!worker,
       Realtime!Receives
  <2>6. owed' \in [Sockets -> BOOLEAN]
    BY <1>1 DEF InferencesOK, Realtime!Append1, Realtime!worker, Realtime!Receives
  <2> QED
    BY <2>1, <2>2, <2>3, <2>4, <2>5, <2>6 DEF InferencesOK
<1>2. ASSUME NEW s \in Sockets, Realtime!Commit(s) PROVE InferencesOK'
  <2>1. inFlight' \in [Sockets -> BOOLEAN]
    BY <1>2 DEF InferencesOK, Realtime!Commit, Realtime!session, Realtime!Receives,
       Realtime!CancelInterim
  <2>2. lock' \in [Sockets -> {"nobody", "interim", "final"}]
    BY <1>2 DEF InferencesOK, Realtime!Commit, Realtime!session, Realtime!Receives,
       Realtime!CancelInterim
  <2>3. interim' \in [Sockets -> {"none", "sleeping", "waiting", "transcribing", "sending"}]
    BY <1>2 DEF InferencesOK, Realtime!Commit, Realtime!session, Realtime!Receives,
       Realtime!CancelInterim
  <2>4. final' \in [Sockets -> {"none", "waiting", "transcribing", "sending"}]
    BY <1>2 DEF InferencesOK, Realtime!Commit, Realtime!session, Realtime!Receives,
       Realtime!CancelInterim
  <2>5. snap' \in [Sockets -> Snaps]
    BY <1>2, NobodyIsSnap DEF InferencesOK, Realtime!Commit, Realtime!session,
       Realtime!Receives, Realtime!CancelInterim
  <2>6. owed' \in [Sockets -> BOOLEAN]
    BY <1>2 DEF InferencesOK, Realtime!Commit, Realtime!session, Realtime!Receives,
       Realtime!CancelInterim
  <2> QED
    BY <2>1, <2>2, <2>3, <2>4, <2>5, <2>6 DEF InferencesOK
<1>3. ASSUME NEW s \in Sockets, Realtime!Clear(s) PROVE InferencesOK'
  BY <1>3, NobodyIsSnap DEF InferencesOK, AudioOK, WorkerOK, Snaps, Realtime!Clear,
     Realtime!Receives, Realtime!CancelInterim
<1>4. ASSUME NEW s \in Sockets, Realtime!Disconnect(s) PROVE InferencesOK'
  BY <1>4, NobodyIsSnap DEF InferencesOK, AudioOK, WorkerOK, Snaps,
     Realtime!Disconnect, Realtime!Receives, Realtime!CancelInterim
<1>5. ASSUME NEW s \in Sockets, Realtime!Fire(s) PROVE InferencesOK'
  BY <1>5, NobodyIsSnap DEF InferencesOK, AudioOK, WorkerOK, Snaps, Realtime!Fire,
     Realtime!session, Realtime!worker
<1>6. ASSUME NEW s \in Sockets, NEW who \in {"interim", "final"}, Realtime!RunInference(s, who)
      PROVE  InferencesOK'
  BY <1>6, NobodyIsSnap DEF InferencesOK, AudioOK, WorkerOK, Snaps,
     Realtime!RunInference, Realtime!worker, Realtime!At, Realtime!Goes,
     Realtime!EndSegment
<1>7. ASSUME NEW s \in Sockets, NEW who \in {"interim", "final"}, Realtime!Enqueue(s, who)
      PROVE  InferencesOK'
  <2>1. inFlight' \in [Sockets -> BOOLEAN]
    BY <1>7 DEF InferencesOK, Realtime!Enqueue, Realtime!session, Realtime!At,
       Realtime!Goes
  <2>2. lock' \in [Sockets -> {"nobody", "interim", "final"}]
    BY <1>7 DEF InferencesOK, Realtime!Enqueue, Realtime!session, Realtime!At,
       Realtime!Goes
  <2>3. interim' \in [Sockets -> {"none", "sleeping", "waiting", "transcribing", "sending"}]
    BY <1>7 DEF InferencesOK, Realtime!Enqueue, Realtime!session, Realtime!At,
       Realtime!Goes
  <2>4. final' \in [Sockets -> {"none", "waiting", "transcribing", "sending"}]
    BY <1>7 DEF InferencesOK, Realtime!Enqueue, Realtime!session, Realtime!At,
       Realtime!Goes
  <2>5. snap' \in [Sockets -> Snaps]
    <3>1. requests + 1 \in Nat /\ seg[s] \in Nat /\ audio[s] \in Nat
      BY DEF WorkerOK, AudioOK
    <3> QED
      BY <1>7, <3>1 DEF InferencesOK, Realtime!Enqueue, Snaps
  <2>6. owed' \in [Sockets -> BOOLEAN]
    BY <1>7 DEF InferencesOK, Realtime!Enqueue, Realtime!session, Realtime!At,
       Realtime!Goes
  <2> QED
    BY <2>1, <2>2, <2>3, <2>4, <2>5, <2>6 DEF InferencesOK
<1>8. ASSUME NEW s \in Sockets, NEW who \in {"interim", "final"}, Realtime!QueueFull(s, who)
      PROVE  InferencesOK'
  BY <1>8, NobodyIsSnap DEF InferencesOK, AudioOK, WorkerOK, Snaps,
     Realtime!QueueFull, Realtime!worker, Realtime!At, Realtime!Goes,
     Realtime!EndSegment
<1>9. ASSUME NEW s \in Sockets, NEW who \in {"interim", "final"}, Realtime!Answered(s, who)
      PROVE  InferencesOK'
  <2>1. inFlight' \in [Sockets -> BOOLEAN]
    BY <1>9 DEF InferencesOK, Realtime!Answered, Realtime!At, Realtime!Goes,
       Realtime!EndSegment
  <2>2. lock' \in [Sockets -> {"nobody", "interim", "final"}]
    BY <1>9 DEF InferencesOK, Realtime!Answered, Realtime!At, Realtime!Goes,
       Realtime!EndSegment
  <2>3. interim' \in [Sockets -> {"none", "sleeping", "waiting", "transcribing", "sending"}]
    BY <1>9 DEF InferencesOK, Realtime!Answered, Realtime!At, Realtime!Goes,
       Realtime!EndSegment
  <2>4. final' \in [Sockets -> {"none", "waiting", "transcribing", "sending"}]
    BY <1>9 DEF InferencesOK, Realtime!Answered, Realtime!At, Realtime!Goes,
       Realtime!EndSegment
  <2>5. snap' \in [Sockets -> Snaps]
    BY <1>9, NobodyIsSnap DEF InferencesOK, Realtime!Answered, Realtime!At,
       Realtime!Goes, Realtime!EndSegment
  <2>6. owed' \in [Sockets -> BOOLEAN]
    <3>1. owed' = owed \/ owed' = [owed EXCEPT ![s] = FALSE]
      BY <1>9 DEF Realtime!Answered, Realtime!EndSegment
    <3> QED
      BY <3>1 DEF InferencesOK
  <2> QED
    BY <2>1, <2>2, <2>3, <2>4, <2>5, <2>6 DEF InferencesOK
<1>10. ASSUME NEW s \in Sockets, NEW who \in {"interim", "final"}, Realtime!Sent(s, who)
      PROVE  InferencesOK'
  BY <1>10, NobodyIsSnap DEF InferencesOK, AudioOK, WorkerOK, Snaps, Realtime!Sent,
     Realtime!worker, Realtime!At, Realtime!Goes, Realtime!EndSegment
<1>11. CASE \E s \in Sockets : Realtime!Client(s) \/ Realtime!Fire(s)
  BY <1>11, <1>0, <1>1, <1>2, <1>3, <1>4, <1>5 DEF Realtime!Client, Realtime!Connect,
     Realtime!tasks, Realtime!worker, Realtime!SessionUpdate
<1>12. CASE \E s \in Sockets, who \in {"interim", "final"} : Realtime!Runs(s, who)
  BY <1>12, <1>6, <1>7, <1>8, <1>9, <1>10 DEF Realtime!Runs
<1>13. CASE Realtime!Collect \/ Realtime!Infer \/ Realtime!InferRaises
  BY <1>13, <1>0 DEF Realtime!Collect, Realtime!session, Realtime!tasks,
     Realtime!Infer, Realtime!InferRaises
<1> QED
  BY <1>11, <1>12, <1>13 DEF Realtime!Next

\* The queue and the batch keep their bounds.
LEMMA WorkerStep ==
  ASSUME InferencesOK, AudioOK, WorkerOK, Realtime!Next
  PROVE  WorkerOK'
\* The steps that are about something else.
<1>0. ASSUME UNCHANGED <<queue, batch, requests, interims, r_failures>> PROVE WorkerOK'
  BY <1>0 DEF WorkerOK
<1>1. ASSUME NEW s \in Sockets, NEW who \in {"interim", "final"}, Realtime!Enqueue(s, who)
      PROVE  WorkerOK'
  BY <1>1, RealtimeConstants DEF InferencesOK, AudioOK, WorkerOK, Snaps,
     Realtime!Enqueue, Realtime!session, Realtime!At, Realtime!Goes
<1>2. ASSUME NEW s \in Sockets, NEW who \in {"interim", "final"}, Realtime!Answered(s, who)
      PROVE  WorkerOK'
  BY <1>2, RealtimeConstants DEF InferencesOK, AudioOK, WorkerOK, Snaps,
     Realtime!Answered, Realtime!At, Realtime!Goes, Realtime!EndSegment
<1>3. ASSUME Realtime!Collect PROVE WorkerOK'
  <2>1. /\ batch' = Append(batch, Head(queue)) /\ queue' = Tail(queue) /\ queue # <<>>
        /\ Len(batch) < BatchSize /\ UNCHANGED <<requests, interims, r_failures>>
    BY <1>3 DEF Realtime!Collect
  <2>2. queue' \in Seq(Snaps) /\ Len(queue') <= QueueSize /\ Head(queue) \in Snaps
    BY <2>1, RealtimeConstants, HeadTailProperties DEF WorkerOK
  <2>3. batch' \in Seq(Snaps) /\ Len(batch') <= BatchSize
    BY <2>1, <2>2, RealtimeConstants, AppendProperties DEF WorkerOK
  <2> QED
    BY <2>1, <2>2, <2>3 DEF WorkerOK
<1>4. ASSUME Realtime!Infer PROVE WorkerOK'
  BY <1>4, RealtimeConstants DEF InferencesOK, AudioOK, WorkerOK, Snaps,
     Realtime!Infer, Realtime!session, Realtime!tasks
<1>5. ASSUME Realtime!InferRaises PROVE WorkerOK'
  BY <1>5, RealtimeConstants DEF InferencesOK, AudioOK, WorkerOK, Snaps,
     Realtime!InferRaises, Realtime!session, Realtime!tasks
<1>6. CASE \E s \in Sockets : Realtime!Client(s) \/ Realtime!Fire(s)
  BY <1>6, <1>0 DEF Realtime!Client, Realtime!Connect, Realtime!tasks,
     Realtime!worker, Realtime!SessionUpdate, Realtime!Append1, Realtime!Commit,
     Realtime!session, Realtime!Clear, Realtime!Disconnect, Realtime!Fire
<1>7. CASE \E s \in Sockets, who \in {"interim", "final"} : Realtime!Runs(s, who)
  BY <1>7, <1>0, <1>1, <1>2 DEF Realtime!Runs, Realtime!RunInference, Realtime!worker,
     Realtime!QueueFull, Realtime!Sent
<1>8. CASE Realtime!Collect \/ Realtime!Infer \/ Realtime!InferRaises
  BY <1>8, <1>3, <1>4, <1>5
<1> QED
  BY <1>6, <1>7, <1>8 DEF Realtime!Next

\* Whoever holds the lock stays alone with the current segment.
LEMMA ApartStep ==
  ASSUME InferencesOK, AudioOK, Realtime!SegmentsApart, Realtime!Next
  PROVE  Realtime!SegmentsApart'
\* The steps that are about something else.
<1>0. ASSUME UNCHANGED <<interim, final, lock, snap, seg>> PROVE Realtime!SegmentsApart'
  BY <1>0 DEF Realtime!SegmentsApart, Realtime!At
<1>1. ASSUME NEW s \in Sockets, Realtime!Append1(s) PROVE Realtime!SegmentsApart'
  BY <1>1 DEF InferencesOK, AudioOK, Realtime!SegmentsApart, Realtime!At,
     Realtime!Append1, Realtime!worker, Realtime!Receives
<1>2. ASSUME NEW s \in Sockets, Realtime!Commit(s) PROVE Realtime!SegmentsApart'
  BY <1>2 DEF InferencesOK, AudioOK, Realtime!SegmentsApart, Realtime!At,
     Realtime!Commit, Realtime!session, Realtime!Receives, Realtime!CancelInterim
<1>3. ASSUME NEW s \in Sockets, Realtime!Clear(s) PROVE Realtime!SegmentsApart'
  BY <1>3 DEF InferencesOK, AudioOK, Realtime!SegmentsApart, Realtime!At,
     Realtime!Clear, Realtime!Receives, Realtime!CancelInterim
<1>4. ASSUME NEW s \in Sockets, Realtime!Disconnect(s) PROVE Realtime!SegmentsApart'
  BY <1>4 DEF InferencesOK, AudioOK, Realtime!SegmentsApart, Realtime!At,
     Realtime!Disconnect, Realtime!Receives, Realtime!CancelInterim
<1>5. ASSUME NEW s \in Sockets, Realtime!Fire(s) PROVE Realtime!SegmentsApart'
  BY <1>5 DEF InferencesOK, AudioOK, Realtime!SegmentsApart, Realtime!At,
     Realtime!Fire, Realtime!session, Realtime!worker
<1>6. ASSUME NEW s \in Sockets, NEW who \in {"interim", "final"}, Realtime!RunInference(s, who)
      PROVE  Realtime!SegmentsApart'
  BY <1>6 DEF InferencesOK, AudioOK, Realtime!SegmentsApart, Realtime!At,
     Realtime!RunInference, Realtime!worker, Realtime!At, Realtime!Goes,
     Realtime!EndSegment
<1>7. ASSUME NEW s \in Sockets, NEW who \in {"interim", "final"}, Realtime!Enqueue(s, who)
      PROVE  Realtime!SegmentsApart'
  BY <1>7 DEF InferencesOK, AudioOK, Realtime!SegmentsApart, Realtime!At,
     Realtime!Enqueue, Realtime!session, Realtime!At, Realtime!Goes
<1>8. ASSUME NEW s \in Sockets, NEW who \in {"interim", "final"}, Realtime!QueueFull(s, who)
      PROVE  Realtime!SegmentsApart'
  BY <1>8 DEF InferencesOK, AudioOK, Realtime!SegmentsApart, Realtime!At,
     Realtime!QueueFull, Realtime!worker, Realtime!At, Realtime!Goes,
     Realtime!EndSegment
<1>9. ASSUME NEW s \in Sockets, NEW who \in {"interim", "final"}, Realtime!Answered(s, who)
      PROVE  Realtime!SegmentsApart'
  BY <1>9 DEF InferencesOK, AudioOK, Realtime!SegmentsApart, Realtime!At,
     Realtime!Answered, Realtime!At, Realtime!Goes, Realtime!EndSegment
<1>10. ASSUME NEW s \in Sockets, NEW who \in {"interim", "final"}, Realtime!Sent(s, who)
      PROVE  Realtime!SegmentsApart'
  BY <1>10 DEF InferencesOK, AudioOK, Realtime!SegmentsApart, Realtime!At,
     Realtime!Sent, Realtime!worker, Realtime!At, Realtime!Goes, Realtime!EndSegment
<1>11. CASE \E s \in Sockets : Realtime!Client(s) \/ Realtime!Fire(s)
  BY <1>11, <1>0, <1>1, <1>2, <1>3, <1>4, <1>5 DEF Realtime!Client, Realtime!Connect,
     Realtime!tasks, Realtime!worker, Realtime!SessionUpdate
<1>12. CASE \E s \in Sockets, who \in {"interim", "final"} : Realtime!Runs(s, who)
  BY <1>12, <1>6, <1>7, <1>8, <1>9, <1>10 DEF Realtime!Runs
<1>13. CASE Realtime!Collect \/ Realtime!Infer \/ Realtime!InferRaises
  BY <1>13, <1>0 DEF Realtime!Collect, Realtime!session, Realtime!tasks,
     Realtime!Infer, Realtime!InferRaises
<1> QED
  BY <1>11, <1>12, <1>13 DEF Realtime!Next

\* A commit that is owed its answer hears all there is.
LEMMA HearingStep ==
  ASSUME InferencesOK, AudioOK, Realtime!SegmentsApart, Hearing, Realtime!Next
  PROVE  Hearing'
\* The steps that are about something else.
<1>0. ASSUME UNCHANGED <<owed, final, snap, audio>> PROVE Hearing'
  BY <1>0 DEF Hearing
<1>1. ASSUME NEW s \in Sockets, Realtime!Append1(s) PROVE Hearing'
  BY <1>1 DEF InferencesOK, AudioOK, Realtime!SegmentsApart, Realtime!At, Hearing,
     Realtime!Append1, Realtime!worker, Realtime!Receives
<1>2. ASSUME NEW s \in Sockets, Realtime!Commit(s) PROVE Hearing'
  BY <1>2 DEF InferencesOK, AudioOK, Realtime!SegmentsApart, Realtime!At, Hearing,
     Realtime!Commit, Realtime!session, Realtime!Receives, Realtime!CancelInterim
<1>3. ASSUME NEW s \in Sockets, Realtime!Clear(s) PROVE Hearing'
  BY <1>3 DEF InferencesOK, AudioOK, Realtime!SegmentsApart, Realtime!At, Hearing,
     Realtime!Clear, Realtime!Receives, Realtime!CancelInterim
<1>4. ASSUME NEW s \in Sockets, Realtime!Disconnect(s) PROVE Hearing'
  BY <1>4 DEF InferencesOK, AudioOK, Realtime!SegmentsApart, Realtime!At, Hearing,
     Realtime!Disconnect, Realtime!Receives, Realtime!CancelInterim
<1>5. ASSUME NEW s \in Sockets, NEW who \in {"interim", "final"}, Realtime!RunInference(s, who)
      PROVE  Hearing'
  BY <1>5 DEF InferencesOK, AudioOK, Realtime!SegmentsApart, Realtime!At, Hearing,
     Realtime!RunInference, Realtime!worker, Realtime!At, Realtime!Goes,
     Realtime!EndSegment
<1>6. ASSUME NEW s \in Sockets, NEW who \in {"interim", "final"}, Realtime!Enqueue(s, who)
      PROVE  Hearing'
  BY <1>6 DEF InferencesOK, AudioOK, Realtime!SegmentsApart, Realtime!At, Hearing,
     Realtime!Enqueue, Realtime!session, Realtime!At, Realtime!Goes
<1>7. ASSUME NEW s \in Sockets, NEW who \in {"interim", "final"}, Realtime!QueueFull(s, who)
      PROVE  Hearing'
  <2>1. CASE who = "interim"
    BY <1>7, <2>1 DEF InferencesOK, Hearing, Realtime!QueueFull, Realtime!Goes
  <2>2. CASE who = "final"
    BY <1>7, <2>2 DEF InferencesOK, AudioOK, Hearing, Realtime!QueueFull, Realtime!Goes,
       Realtime!EndSegment
  <2> QED
    BY <2>1, <2>2
<1>8. ASSUME NEW s \in Sockets, NEW who \in {"interim", "final"}, Realtime!Answered(s, who)
      PROVE  Hearing'
  BY <1>8 DEF InferencesOK, AudioOK, Realtime!SegmentsApart, Realtime!At, Hearing,
     Realtime!Answered, Realtime!At, Realtime!Goes, Realtime!EndSegment
<1>9. ASSUME NEW s \in Sockets, NEW who \in {"interim", "final"}, Realtime!Sent(s, who)
      PROVE  Hearing'
  BY <1>9 DEF InferencesOK, AudioOK, Realtime!SegmentsApart, Realtime!At, Hearing,
     Realtime!Sent, Realtime!worker, Realtime!At, Realtime!Goes, Realtime!EndSegment
<1>10. CASE \E s \in Sockets : Realtime!Client(s) \/ Realtime!Fire(s)
  BY <1>10, <1>0, <1>1, <1>2, <1>3, <1>4 DEF Realtime!Client, Realtime!Connect,
     Realtime!tasks, Realtime!worker, Realtime!SessionUpdate, Realtime!Fire,
     Realtime!session
<1>11. CASE \E s \in Sockets, who \in {"interim", "final"} : Realtime!Runs(s, who)
  BY <1>11, <1>5, <1>6, <1>7, <1>8, <1>9 DEF Realtime!Runs
<1>12. CASE Realtime!Collect \/ Realtime!Infer \/ Realtime!InferRaises
  BY <1>12, <1>0 DEF Realtime!Collect, Realtime!session, Realtime!tasks,
     Realtime!Infer, Realtime!InferRaises
<1> QED
  BY <1>10, <1>11, <1>12 DEF Realtime!Next

\* The part begins with the invariant.
LEMMA RealtimeInit == Realtime!Init => RealtimeInv
<1> SUFFICES ASSUME Realtime!Init PROVE RealtimeInv
  OBVIOUS
<1>1. SocketsOK
  <2>1. Realtime!Active = 0
    <3>1. {s \in Sockets : phase[s] = "open"} = {}
      BY DEF Realtime!Init
    <3> QED
      BY <3>1, FS_EmptySet, RealtimeCardinality DEF Realtime!Active
  <2> QED
    BY <2>1, RealtimeConstants DEF Realtime!Init, SocketsOK
<1>2. AudioOK /\ InferencesOK
  BY NobodyIsSnap DEF Realtime!Init, AudioOK, InferencesOK
<1>3. WorkerOK
  BY RealtimeConstants DEF Realtime!Init, WorkerOK
<1>4. Realtime!SegmentsApart /\ Hearing
  BY DEF Realtime!Init, Realtime!SegmentsApart, Realtime!At, Hearing
<1> QED
  BY <1>1, <1>2, <1>3, <1>4 DEF RealtimeInv

\* Every step of it keeps it.
LEMMA RealtimeStep == RealtimeInv /\ Realtime!Next => RealtimeInv'
  BY SocketsStep, AudioStep, InferencesStep, WorkerStep, ApartStep, HearingStep
     DEF RealtimeInv

RealtimePart == part = "realtime" => RealtimeInv

\* In every state of the server the part has its invariant.
LEMMA RealtimeInvariance == Spec => []RealtimePart
<1>1. Init => RealtimePart
  BY RealtimeInit DEF Init, RealtimePart
<1>2. RealtimePart /\ [Next]_vars => RealtimePart'
  <2> SUFFICES ASSUME RealtimePart, [Next]_vars, part' = "realtime" PROVE RealtimeInv'
    BY DEF RealtimePart
  <2>1. part = "realtime" /\ RealtimeInv
    BY DEF Next, vars, RealtimePart
  <2>2. CASE UNCHANGED realtimeVars
    BY <2>1, <2>2
       DEF realtimeVars, RealtimeInv, SocketsOK, Realtime!Active, AudioOK, InferencesOK,
           WorkerOK, Realtime!SegmentsApart, Realtime!At, Hearing
  <2>3. CASE Next /\ ~UNCHANGED realtimeVars
    BY <2>1, <2>3, RealtimeStep DEF Next
  <2> QED
    BY <2>2, <2>3 DEF vars
<1> QED
  BY <1>1, <1>2, PTL DEF Spec

\* Whoever transcribes or sends on a socket holds its lock, alone, and works on the
\* segment that is current: for any sockets, queue, batches, segments and failures.
THEOREM SegmentsStayApart == Spec => []SegmentsApart
<1>1. RealtimePart => SegmentsApart
  BY DEF RealtimePart, RealtimeInv, SegmentsApart
<1> QED
  BY <1>1, RealtimeInvariance, PTL

\* What CommitHearsAll says of one step.
HearsAll ==
  \A s \in Sockets : audio'[s] < audio[s] =>
     \/ audio[s] < MinUnits \/ ~owed[s]
     \/ final[s] = "waiting" /\ Len(queue) = QueueSize
     \/ final[s] \in {"transcribing", "sending"} /\ snap[s].units = audio[s]

\* A buffer is given up only by what has heard all of it, or had nothing to hear.
LEMMA HearsAllStep ==
  ASSUME InferencesOK, AudioOK, Hearing, Realtime!Next
  PROVE  HearsAll
\* The steps that are about something else.
<1>0. ASSUME UNCHANGED <<audio>> PROVE HearsAll
  BY <1>0 DEF AudioOK, HearsAll
<1>1. ASSUME NEW s \in Sockets, Realtime!Append1(s) PROVE HearsAll
  BY <1>1 DEF InferencesOK, AudioOK, Hearing, HearsAll, Realtime!Append1,
     Realtime!worker, Realtime!Receives
<1>2. ASSUME NEW s \in Sockets, Realtime!Clear(s) PROVE HearsAll
  BY <1>2 DEF InferencesOK, AudioOK, Hearing, HearsAll, Realtime!Clear,
     Realtime!Receives, Realtime!CancelInterim
<1>3. ASSUME NEW s \in Sockets, NEW who \in {"interim", "final"}, Realtime!RunInference(s, who)
      PROVE  HearsAll
  <2>1. CASE who = "interim"
    <3>1. audio' = audio
      BY <1>3, <2>1 DEF Realtime!RunInference
    <3> QED
      BY <3>1 DEF AudioOK, HearsAll
  <2>2. CASE who = "final"
    <3>1. \/ audio' = audio
          \/ audio' = [audio EXCEPT ![s] = 0] /\ audio[s] < MinUnits
      BY <1>3, <2>2 DEF Realtime!RunInference, Realtime!At, Realtime!EndSegment
    <3> QED
      BY <3>1 DEF AudioOK, Hearing, HearsAll
  <2> QED
    BY <2>1, <2>2
<1>4. ASSUME NEW s \in Sockets, NEW who \in {"interim", "final"}, Realtime!QueueFull(s, who)
      PROVE  HearsAll
  <2>1. CASE who = "interim"
    <3>1. audio' = audio
      BY <1>4, <2>1 DEF Realtime!QueueFull
    <3> QED
      BY <3>1 DEF AudioOK, HearsAll
  <2>2. CASE who = "final"
    <3>1. \/ audio' = audio
          \/ audio' = [audio EXCEPT ![s] = 0] /\ final[s] = "waiting" /\ Len(queue) = QueueSize
      BY <1>4, <2>2 DEF Realtime!QueueFull, Realtime!At, Realtime!EndSegment
    <3> QED
      <4> SUFFICES ASSUME NEW o \in Sockets, audio'[o] < audio[o]
                   PROVE  final[o] = "waiting" /\ Len(queue) = QueueSize
        BY DEF HearsAll
      <4>1. o = s
        BY <3>1 DEF AudioOK
      <4>2. audio'[o] # audio[o]
        BY DEF AudioOK
      <4> QED
        BY <3>1, <4>1, <4>2
  <2> QED
    BY <2>1, <2>2
<1>5. ASSUME NEW s \in Sockets, NEW who \in {"interim", "final"}, Realtime!Answered(s, who)
      PROVE  HearsAll
  <2>1. CASE who = "interim"
    <3>1. audio' = audio
      BY <1>5, <2>1 DEF Realtime!Answered
    <3> QED
      BY <3>1 DEF AudioOK, HearsAll
  <2>2. CASE who = "final"
    <3>1. \/ audio' = audio
          \/ audio' = [audio EXCEPT ![s] = 0] /\ final[s] = "transcribing"
      BY <1>5, <2>2 DEF Realtime!Answered, Realtime!At, Realtime!EndSegment
    <3> QED
      BY <3>1 DEF AudioOK, Hearing, HearsAll
  <2> QED
    BY <2>1, <2>2
<1>6. ASSUME NEW s \in Sockets, NEW who \in {"interim", "final"}, Realtime!Sent(s, who)
      PROVE  HearsAll
  <2>1. CASE who = "interim"
    <3>1. audio' = audio
      BY <1>6, <2>1 DEF Realtime!Sent
    <3> QED
      BY <3>1 DEF AudioOK, HearsAll
  <2>2. CASE who = "final"
    <3>1. \/ audio' = audio
          \/ audio' = [audio EXCEPT ![s] = 0] /\ final[s] = "sending"
      BY <1>6, <2>2 DEF Realtime!Sent, Realtime!At, Realtime!EndSegment
    <3> QED
      BY <3>1 DEF AudioOK, Hearing, HearsAll
  <2> QED
    BY <2>1, <2>2
<1>7. CASE \E s \in Sockets : Realtime!Client(s) \/ Realtime!Fire(s)
  BY <1>7, <1>0, <1>1, <1>2 DEF Realtime!Client, Realtime!Connect, Realtime!tasks,
     Realtime!worker, Realtime!SessionUpdate, Realtime!Commit, Realtime!session,
     Realtime!Disconnect, Realtime!Fire
<1>8. CASE \E s \in Sockets, who \in {"interim", "final"} : Realtime!Runs(s, who)
  BY <1>8, <1>0, <1>3, <1>4, <1>5, <1>6 DEF Realtime!Runs, Realtime!Enqueue,
     Realtime!session
<1>9. CASE Realtime!Collect \/ Realtime!Infer \/ Realtime!InferRaises
  BY <1>9, <1>0 DEF Realtime!Collect, Realtime!session, Realtime!tasks,
     Realtime!Infer, Realtime!InferRaises
<1> QED
  BY <1>7, <1>8, <1>9 DEF Realtime!Next

\* Whatever is appended to a socket before a commit is transcribed for it, or the
\* inference has failed, or there was too little to transcribe.
THEOREM CommitsHearAll == Spec => CommitHearsAll
<1>1. RealtimePart /\ [Next]_vars => [HearsAll]_(Realtime!vars)
  <2> SUFFICES ASSUME RealtimePart, [Next]_vars, ~UNCHANGED Realtime!vars
               PROVE  HearsAll
    OBVIOUS
  <2>1. Realtime!vars' # Realtime!vars <=> realtimeVars' # realtimeVars
    BY DEF realtimeVars, Realtime!vars, Realtime!session, Realtime!tasks, Realtime!worker
  <2>2. part = "realtime" /\ Realtime!Next
    BY <2>1 DEF Next, vars
  <2> QED
    BY <2>2, HearsAllStep DEF RealtimePart, RealtimeInv
<1> QED
  BY <1>1, RealtimeInvariance, PTL
     DEF Spec, CommitHearsAll, Realtime!CommitHearsAll, HearsAll

---------------------------------------------------------------------------
(* ParlerTts: slots.                                                       *)

\* What is freed leaves the rest numbered.
LEMMA FreeNumbers ==
  ASSUME NEW rs, IsFiniteSet(rs), NEW map, Numbers(map, rs), NEW gone
  PROVE  Numbers(Tts!Free(map, gone), rs \ gone)
<1> DEFINE left == Tts!Keep(map, rs \ gone)
<1>1. left \in [rs \ gone -> Nat] /\ \A r \in rs \ gone : left[r] = map[r]
  BY DEF Tts!Keep, Numbers
<1>2. Tts!Free(map, gone) = Tts!Compact(left)
  BY DEF Tts!Free, Numbers
<1>3. IsFiniteSet(rs \ gone)
  BY FS_Subset
<1>4. \A r, q \in rs \ gone : left[r] = left[q] => r = q
  BY <1>1 DEF Numbers
<1> HIDE DEF left
<1> DEFINE those == rs \ gone
<1> HIDE DEF those
<1> SUFFICES Numbers(Tts!Compact(left), those)
  BY <1>2 DEF those
<1>5. IsFiniteSet(those) /\ left \in [those -> Nat]
      /\ \A r, q \in those : left[r] = left[q] => r = q
  BY <1>1, <1>3, <1>4 DEF those
<1> QED
  BY <1>5, CompactNumbers

\* The next request gets the next slot.
LEMMA AllocNumbers ==
  ASSUME NEW rs, IsFiniteSet(rs), NEW map, Numbers(map, rs), NEW r, r \notin rs,
         Tts!FreeSlots(map) # {}
  PROVE  /\ Numbers(Tts!Alloc(map, r), rs \cup {r})
         /\ Cardinality(rs) < Slots
<1> DEFINE n == Cardinality(rs)
<1>1. n \in Nat /\ Slots \in Nat
  BY FS_CardinalityType, TtsAssumption
<1>2. Tts!FreeSlots(map) = n..(Slots - 1)
  <2>1. {map[q] : q \in DOMAIN map} = 0..(n - 1)
    BY DEF Numbers
  <2> HIDE DEF n
  <2> QED
    BY <1>1, <2>1 DEF Tts!FreeSlots
<1>3. n < Slots
  BY <1>1, <1>2
<1>4. Tts!Min(Tts!FreeSlots(map)) = n
  <2> HIDE DEF n
  <2> QED
    BY <1>1, <1>2, <1>3 DEF Tts!Min
<1>5. Cardinality(rs \cup {r}) = n + 1
  BY FS_AddElement
<1> DEFINE new == Tts!Alloc(map, r)
<1>6. new = [o \in rs \cup {r} |-> IF o = r THEN n ELSE map[o]]
  <2> HIDE DEF n
  <2> QED
    BY <1>4 DEF Tts!Alloc, Numbers
<1>7. \A o \in rs : map[o] \in 0..(n - 1)
  <2> HIDE DEF n
  <2> QED
    BY DEF Numbers, n
<1> HIDE DEF n, new
<1>8. new \in [rs \cup {r} -> Nat]
  BY <1>1, <1>6 DEF Numbers
<1>9. \A o, q \in rs \cup {r} : new[o] = new[q] => o = q
  BY <1>1, <1>6, <1>7 DEF Numbers
<1>10. {new[o] : o \in rs \cup {r}} = 0..n
  <2>1. \A o \in rs \cup {r} : new[o] \in 0..n
    BY <1>1, <1>6, <1>7
  <2>2. \A k \in 0..n : \E o \in rs \cup {r} : new[o] = k
    <3> SUFFICES ASSUME NEW k \in 0..n PROVE \E o \in rs \cup {r} : new[o] = k
      OBVIOUS
    <3>1. CASE k = n
      BY <1>6, <3>1
    <3>2. CASE k # n
      <4>0. k \in 0..(n - 1) /\ {map[o] : o \in rs} = 0..(n - 1)
        BY <1>1, <3>2 DEF Numbers, n
      <4>1. k \in {map[o] : o \in rs}
        BY <4>0
      <4>2. PICK o \in rs : map[o] = k
        BY <4>1
      <4> QED
        BY <1>6, <4>2
    <3> QED
      BY <3>1, <3>2
  <2> QED
    BY <2>1, <2>2
<1>11. {new[o] : o \in rs \cup {r}} = 0..(Cardinality(rs \cup {r}) - 1)
  BY <1>1, <1>5, <1>10
<1> QED
  BY <1>1, <1>3, <1>8, <1>9, <1>11 DEF Numbers, n, new

\* Freeing what was just allocated, or was never there, leaves the slots compacted.
LEMMA AllocFree ==
  ASSUME NEW rs, NEW map, DOMAIN map = rs, map \in [rs -> Nat], NEW r, r \notin rs
  PROVE  Tts!Free(Tts!Alloc(map, r), {r}) = Tts!Free(map, {r})
<1>1. DOMAIN Tts!Alloc(map, r) = rs \cup {r} /\ \A o \in rs : Tts!Alloc(map, r)[o] = map[o]
  BY DEF Tts!Alloc
<1>2. Tts!Keep(Tts!Alloc(map, r), (rs \cup {r}) \ {r}) = Tts!Keep(map, rs \ {r})
  BY <1>1 DEF Tts!Keep
<1> QED
  BY <1>1, <1>2 DEF Tts!Free

---------------------------------------------------------------------------
(* ParlerTts: the audio on the way to one caller.                          *)

\* What the worker puts on a request's queue.
Parts == [kind: {"audio", "done", "error"}, from: 0..MaxFrames, to: 0..MaxFrames]

\* The audio of the first n items, for who was streamed up to g, ends at t.
Stands(q, g, n, t) ==
  \/ g = t /\ \A j \in 1..n : q[j].kind # "audio"
  \/ \E j \in 1..n : /\ q[j].kind = "audio" /\ q[j].to = t
                     /\ \A k \in (j + 1)..n : q[k].kind # "audio"

Chained(q, g) ==
  \A i \in 1..Len(q) : q[i].kind = "audio" =>
    q[i].from < q[i].to /\ Stands(q, g, i - 1, q[i].from)

\* What ends a response leaves the audio before it as it is.
LEMMA AppendEnd ==
  ASSUME NEW q \in Seq(Parts), NEW g, NEW t, NEW item \in Parts, item.kind # "audio",
         Chained(q, g)
  PROVE  /\ Chained(Append(q, item), g)
         /\ Stands(q, g, Len(q), t) => Stands(Append(q, item), g, Len(q) + 1, t)
<1> DEFINE p == Append(q, item)
<1>1. /\ Len(q) \in Nat /\ Len(p) = Len(q) + 1
      /\ \A i \in 1..Len(q) : p[i] = q[i]
      /\ p[Len(q) + 1] = item
  BY AppendProperties, LenProperties
<1> HIDE DEF p
<1>2. Chained(p, g)
  <2> SUFFICES ASSUME NEW i \in 1..Len(q), q[i].kind = "audio"
               PROVE  q[i].from < q[i].to /\ Stands(p, g, i - 1, q[i].from)
    BY <1>1 DEF Chained
  <2>1. q[i].from < q[i].to /\ Stands(q, g, i - 1, q[i].from)
    BY DEF Chained
  <2> QED
    BY <1>1, <2>1 DEF Stands
<1>3. Stands(q, g, Len(q), t) => Stands(p, g, Len(q) + 1, t)
  BY <1>1 DEF Stands
<1> QED
  BY <1>2, <1>3 DEF p

\* Audio that begins where the last one ended goes on from it.
LEMMA AppendAudio ==
  ASSUME NEW q \in Seq(Parts), NEW g, NEW item \in Parts, item.kind = "audio",
         Chained(q, g), Stands(q, g, Len(q), item.from), item.from < item.to
  PROVE  /\ Chained(Append(q, item), g)
         /\ Stands(Append(q, item), g, Len(q) + 1, item.to)
<1> DEFINE p == Append(q, item)
<1>1. /\ Len(q) \in Nat /\ Len(p) = Len(q) + 1
      /\ \A i \in 1..Len(q) : p[i] = q[i]
      /\ p[Len(q) + 1] = item
  BY AppendProperties, LenProperties
<1> HIDE DEF p
<1>2. Chained(p, g)
  <2> SUFFICES ASSUME NEW i \in 1..(Len(q) + 1), p[i].kind = "audio"
               PROVE  p[i].from < p[i].to /\ Stands(p, g, i - 1, p[i].from)
    BY <1>1 DEF Chained
  <2>1. CASE i = Len(q) + 1
    BY <1>1, <2>1 DEF Stands
  <2>2. CASE i \in 1..Len(q)
    <3>1. q[i].from < q[i].to /\ Stands(q, g, i - 1, q[i].from)
      BY <1>1, <2>2 DEF Chained
    <3> QED
      BY <1>1, <2>2, <3>1 DEF Stands
  <2> QED
    BY <1>1, <2>1, <2>2
<1>3. Stands(p, g, Len(q) + 1, item.to)
  BY <1>1 DEF Stands
<1> QED
  BY <1>2, <1>3 DEF p

\* What has been streamed leaves the queue, and what follows goes on from it.
LEMMA TailAudio ==
  ASSUME NEW q \in Seq(Parts), q # <<>>, NEW g, NEW t, Chained(q, g)
  PROVE  LET now == IF Head(q).kind = "audio" THEN Head(q).to ELSE g IN
         /\ Chained(Tail(q), now)
         /\ Stands(q, g, Len(q), t) => Stands(Tail(q), now, Len(q) - 1, t)
<1> DEFINE p == Tail(q)
           now == IF Head(q).kind = "audio" THEN Head(q).to ELSE g
<1>1. /\ Len(q) \in Nat /\ Len(q) >= 1 /\ Len(p) = Len(q) - 1 /\ Head(q) = q[1]
      /\ \A i \in 1..Len(p) : p[i] = q[i + 1]
  BY HeadTailProperties, EmptySeq, LenProperties
<1>2. \A n \in 1..Len(q) : \A u : Stands(q, g, n, u) => Stands(p, now, n - 1, u)
  <2> SUFFICES ASSUME NEW n \in 1..Len(q), NEW u, Stands(q, g, n, u)
               PROVE  Stands(p, now, n - 1, u)
    OBVIOUS
  <2> HIDE DEF p
  <2>1. CASE g = u /\ \A j \in 1..n : q[j].kind # "audio"
    BY <1>1, <2>1 DEF Stands
  <2>2. CASE \E j \in 1..n : /\ q[j].kind = "audio" /\ q[j].to = u
                             /\ \A k \in (j + 1)..n : q[k].kind # "audio"
    <3>1. PICK j \in 1..n : /\ q[j].kind = "audio" /\ q[j].to = u
                            /\ \A k \in (j + 1)..n : q[k].kind # "audio"
      BY <2>2
    <3>2. \A k \in j..(n - 1) : p[k].kind # "audio"
      BY <1>1, <3>1
    <3>3. CASE j = 1
      BY <1>1, <3>1, <3>2, <3>3 DEF Stands
    <3>4. CASE j # 1
      <4>1. j - 1 \in 1..(n - 1) /\ p[j - 1] = q[j] /\ (j - 1) + 1 = j
        BY <1>1, <3>4
      <4> QED
        BY <3>1, <3>2, <4>1 DEF Stands
    <3> QED
      BY <3>3, <3>4
  <2> QED
    BY <2>1, <2>2 DEF Stands
<1>3. Chained(p, now)
  <2> SUFFICES ASSUME NEW i \in 1..Len(p), p[i].kind = "audio"
               PROVE  p[i].from < p[i].to /\ Stands(p, now, i - 1, p[i].from)
    BY DEF Chained
  <2>1. i + 1 \in 1..Len(q) /\ p[i] = q[i + 1] /\ (i + 1) - 1 = i /\ i \in 1..Len(q)
    BY <1>1
  <2>2. q[i + 1].from < q[i + 1].to /\ Stands(q, g, i, q[i + 1].from)
    BY <2>1 DEF Chained
  <2> QED
    BY <1>2, <2>1, <2>2
<1> QED
  BY <1>1, <1>2, <1>3

---------------------------------------------------------------------------
(* ParlerTts: the steps of the worker.                                     *)

\* The smaller of two numbers.
LEMMA TtsMin ==
  ASSUME NEW a \in Nat, NEW b \in Nat
  PROVE  LET m == Tts!Min({a, b}) IN m \in Nat /\ m <= a /\ m <= b
  BY DEF Tts!Min

\* Requests in the order of their slots are those requests, one by one.
LEMMA OrderedAre ==
  ASSUME NEW rs, IsFiniteSet(rs), NEW map, Numbers(map, rs), NEW some \in SUBSET rs
  PROVE  LET order == Tts!OrderedPids(map, some) IN
         /\ order \in Seq(some) /\ Len(order) = Cardinality(some)
         /\ Cardinality(some) \in Nat
<1> DEFINE kept == Tts!Keep(map, some)
           n == Cardinality(some)
<1>1. IsFiniteSet(some) /\ n \in Nat
  BY FS_Subset, FS_CardinalityType
<1>2. kept \in [some -> Nat] /\ \A r \in some : kept[r] = map[r]
  BY DEF Tts!Keep, Numbers
<1>3. \A r, q \in some : kept[r] = kept[q] => r = q
  BY <1>2 DEF Numbers
<1> HIDE DEF kept
<1>4. Numbers(Tts!Compact(kept), some)
  BY <1>1, <1>2, <1>3, CompactNumbers
<1> DEFINE order == [k \in 1..n |-> CHOOSE r \in some : Tts!Compact(kept)[r] = k - 1]
<1>5. Tts!OrderedPids(map, some) = order
  BY TtsCardinality DEF Tts!OrderedPids, kept
<1>6. \A k \in 1..n : \E r \in some : Tts!Compact(kept)[r] = k - 1
  <2> SUFFICES ASSUME NEW k \in 1..n PROVE \E r \in some : Tts!Compact(kept)[r] = k - 1
    OBVIOUS
  <2>1. k - 1 \in 0..(n - 1)
    BY <1>1
  <2>2. k - 1 \in {Tts!Compact(kept)[r] : r \in some}
    BY <1>4, <2>1 DEF Numbers
  <2> QED
    BY <2>2
<1>7. order \in [1..n -> some]
  BY <1>6
<1> HIDE DEF order, n
<1>8. order \in Seq(some) /\ Len(order) = n
  BY <1>1, <1>7
<1> QED
  BY <1>1, <1>5, <1>8 DEF n

\* Whose turn it is, are of those there are.
LEMMA SelectedAre ==
  ASSUME NEW S, NEW s \in Seq(S), rr \in Nat
  PROVE  Tts!ToSet(Tts!Selected(s)) \subseteq S
<1> DEFINE n == Len(s)
           at == IF rr >= n THEN 0 ELSE rr
           rotated == SubSeq(s, at + 1, n) \o SubSeq(s, 1, at)
           m == Tts!Min({n, MaxLive})
<1>1. n \in Nat /\ MaxLive \in Nat /\ \A i \in 1..n : s[i] \in S
  BY LenProperties, TtsAssumption
<1>2. m \in Nat /\ m <= n
  <2> HIDE DEF n, m
  <2> QED
    BY <1>1, TtsMin DEF m
<1>3. at \in Nat /\ at <= n
  BY <1>1
<1>4. rotated \in Seq(S) /\ Len(rotated) = n
  <2> HIDE DEF n, at
  <2>1. SubSeq(s, at + 1, n) \in Seq(S) /\ Len(SubSeq(s, at + 1, n)) = n - at
    BY <1>1, <1>3, SubSeqProperties
  <2>2. SubSeq(s, 1, at) \in Seq(S) /\ Len(SubSeq(s, 1, at)) = at
    BY <1>1, <1>3, SubSeqProperties
  <2> QED
    BY <1>1, <1>3, <2>1, <2>2, ConcatProperties
<1>5. SubSeq(rotated, 1, m) \in Seq(S)
  <2> HIDE DEF rotated, m, n
  <2>1. \A i \in 1..m : rotated[i] \in S
    BY <1>1, <1>2, <1>4, ElementOfSeq
  <2> QED
    BY <1>2, <2>1, SubSeqProperties
<1>6. Tts!Selected(s) = SubSeq(rotated, 1, m)
  BY DEF Tts!Selected
<1> HIDE DEF rotated, m
<1> QED
  BY <1>5, <1>6, LenProperties DEF Tts!ToSet

---------------------------------------------------------------------------
(* ParlerTts: the invariant.                                               *)

\* What has not reached the worker.
Fresh(r) == client[r] = "new" \/ \E i \in 1..Len(prefillQ) : prefillQ[i] = r

CallersOK ==
  /\ client \in [Tts!Requests -> {"new", "waiting", "done", "ended", "cut"}]
  /\ got \in [Tts!Requests -> 0..MaxFrames] /\ outQ \in [Tts!Requests -> Seq(Parts)]

LoopOK ==
  /\ prefillQ \in Seq(Tts!Requests) /\ cancelQ \in Seq(Tts!Requests)
  /\ pc \in {"prefill", "cancel", "step", "dead"} /\ running \in SUBSET Tts!Requests
  /\ pending = IF pc = "dead" THEN {} ELSE running
  /\ steps \in 0..(DecodeEvery - 1) /\ rr \in 0..Slots /\ failures \in 0..MaxFailures

FramesOK ==
  /\ frames \in [Tts!Requests -> 0..MaxFrames]
  /\ yielded \in [Tts!Requests -> 0..MaxFrames]
  /\ \A r \in running : frames[r] < MaxFrames
  /\ finals \in Seq(Tts!Requests) /\ \A i \in 1..Len(finals) : finals[i] \notin running

\* A request arrives once, and nothing is known of it before.
ArrivalsOK ==
  /\ \A i, j \in 1..Len(prefillQ) : prefillQ[i] = prefillQ[j] => i = j
  /\ \A i \in 1..Len(prefillQ) : client[prefillQ[i]] # "new"
  /\ \A r \in Tts!Requests : Fresh(r) =>
       /\ r \notin running /\ frames[r] = 0 /\ yielded[r] = 0 /\ got[r] = 0
       /\ outQ[r] = <<>> /\ \A i \in 1..Len(finals) : finals[i] # r

SlotsOK ==
  crossSlot = selfSlot /\ Numbers(selfSlot, running) /\ Cardinality(running) <= Slots

\* What is on the way to a caller goes on from what it has, and as long as it runs
\* it ends where the worker will go on.
StreamsOK ==
  \A r \in Tts!Requests :
    /\ Chained(outQ[r], got[r])
    /\ client[r] = "waiting" /\ r \in pending =>
         Stands(outQ[r], got[r], Len(outQ[r]), yielded[r])

TtsInv == CallersOK /\ LoopOK /\ FramesOK /\ ArrivalsOK /\ SlotsOK /\ StreamsOK

\* The constants of the part, one by one.
LEMMA TtsConstants ==
  /\ NRequests \in Nat /\ Slots \in Nat /\ MaxLive \in Nat /\ MaxFinals \in Nat
  /\ Holdback \in Nat /\ DecodeEvery \in Nat \ {0} /\ MaxFrames \in Nat \ {0}
  /\ MaxFailures \in Nat /\ IsFiniteSet(Tts!Requests)
  /\ \A S \in SUBSET Tts!Requests : IsFiniteSet(S) /\ Cardinality(S) \in Nat
<1>1. NRequests \in Nat /\ IsFiniteSet(Tts!Requests)
  BY TtsAssumption, FS_Interval DEF Tts!Requests
<1> QED
  BY <1>1, TtsAssumption, RealtimeAssumption, FS_Subset, FS_CardinalityType

\* What a step of the batch does to one caller's queue: nothing to one who is gone or
\* whose turn it is not, the next stretch of who runs on, the end of who is through.
Sends(r, gone, on) ==
  \/ outQ'[r] = outQ[r] /\ (client[r] = "waiting" => r \notin on)
  \/ /\ r \in on /\ client[r] = "waiting"
     /\ outQ'[r] = Append(outQ[r], Tts!Stretch("audio", yielded[r], frames'[r] - Holdback))
  \/ r \in gone /\ outQ'[r] = Append(outQ[r], Tts!Item("done"))
  \/ /\ r \in gone /\ yielded[r] < frames'[r] /\ client[r] = "waiting"
     /\ outQ'[r] = Append(Append(outQ[r], Tts!Stretch("audio", yielded[r], frames'[r])),
                          Tts!Item("done"))

Decodes(gone, on) ==
  /\ \A r \in on : frames'[r] > yielded[r] + Holdback
  /\ yielded' = [r \in Tts!Requests |-> IF r \in on THEN frames'[r] - Holdback
                                                    ELSE yielded[r]]
  /\ finals' \in Seq(Tts!Requests)
  /\ \A i \in 1..Len(finals') :
       finals'[i] \in gone \/ \E j \in 1..Len(finals) : finals[j] = finals'[i]
  /\ rr' \in 0..Slots
  /\ outQ' = [r \in Tts!Requests |-> outQ'[r]]
  /\ \A r \in Tts!Requests : Sends(r, gone, on)

\* What a step of the batch does.
Shape(gone) ==
  /\ pc = "step" /\ pc' = "prefill" /\ running' = running \ gone
  /\ pending' = pending \ gone
  /\ selfSlot' = Tts!Free(selfSlot, gone) /\ crossSlot' = Tts!Free(crossSlot, gone)
  /\ frames' = [r \in Tts!Requests |-> IF r \in running THEN frames[r] + 1 ELSE frames[r]]
  /\ \A r \in running : frames'[r] >= MaxFrames => r \in gone
  /\ steps' = (steps + 1) % DecodeEvery
  /\ UNCHANGED <<client, got, prefillQ, cancelQ, failures>>
  /\ \/ UNCHANGED <<outQ, yielded, finals, rr>>
     \/ \E on \in SUBSET (running \ gone) : Decodes(gone, on)

\* The frames are decoded as Decodes says.
LEMMA DecodeShape ==
  ASSUME TtsInv, pc = "step", NEW gone \in SUBSET running,
         running' = running \ gone, selfSlot' = Tts!Free(selfSlot, gone),
         frames' = [r \in Tts!Requests |-> IF r \in running THEN frames[r] + 1 ELSE frames[r]],
         Tts!AudioDecode(frames', gone, selfSlot')
  PROVE  \E on \in SUBSET (running \ gone) : Decodes(gone, on)
<1> DEFINE rest == running \ gone
           queued == finals \o Tts!OrderedPids(selfSlot, gone)
           taken == IF running' = {} THEN queued
                    ELSE SubSeq(queued, 1, Tts!Min({Len(queued), MaxFinals}))
           last == Tts!ToSet(taken)
           order == Tts!OrderedPids(selfSlot', running')
           on == {r \in Tts!ToSet(Tts!Selected(order)) : frames'[r] > yielded[r] + Holdback}
           Through(r) == r \in gone \/ \E j \in 1..Len(finals) : finals[j] = r
           through == {r \in Tts!Requests : Through(r)}
<1>1. /\ IsFiniteSet(running) /\ Numbers(selfSlot, running) /\ rr \in Nat
      /\ gone \subseteq Tts!Requests /\ rest \subseteq Tts!Requests
  BY TtsConstants DEF TtsInv, SlotsOK, LoopOK
<1>2. Numbers(selfSlot', rest) /\ IsFiniteSet(rest)
  BY <1>1, FreeNumbers, FS_Subset
<1>3. order \in Seq(rest) /\ Len(order) = Cardinality(rest)
  BY <1>2, OrderedAre
<1>4. on \subseteq rest /\ \A r \in on : frames'[r] > yielded[r] + Holdback
  BY <1>1, <1>3, SelectedAre
<1>5. queued \in Seq(through)
  <2>1. Tts!OrderedPids(selfSlot, gone) \in Seq(gone) /\ gone \subseteq through
    BY <1>1, OrderedAre
  <2>2. Tts!OrderedPids(selfSlot, gone) \in Seq(through)
    BY <2>1, SeqMonotonic
  <2>3. finals \in Seq(Tts!Requests)
    BY DEF TtsInv, FramesOK
  <2>4. \A i \in 1..Len(finals) : finals[i] \in through
    BY <2>3, ElementOfSeq
  <2>5. finals \in Seq(through)
    BY <2>3, <2>4
  <2> QED
    BY <2>2, <2>5, ConcatProperties
<1>6. taken \in Seq(through) /\ Len(taken) \in 0..Len(queued)
  <2> HIDE DEF queued, through
  <2>1. Len(queued) \in Nat /\ \A i \in 1..Len(queued) : queued[i] \in through
    BY <1>5, ElementOfSeq, LenProperties
  <2>2. CASE running' = {}
    BY <1>5, <2>1, <2>2
  <2>3. CASE running' # {}
    <3> DEFINE m == Tts!Min({Len(queued), MaxFinals})
    <3>1. m \in Nat /\ m <= Len(queued)
      BY <2>1, TtsMin, TtsConstants
    <3> HIDE DEF m
    <3>2. SubSeq(queued, 1, m) \in Seq(through) /\ Len(SubSeq(queued, 1, m)) = m
      BY <2>1, <3>1, SubSeqProperties
    <3>3. taken = SubSeq(queued, 1, m)
      BY <2>3 DEF m
    <3> HIDE DEF taken
    <3> QED
      BY <2>1, <3>1, <3>2, <3>3
  <2> QED
    BY <2>2, <2>3
<1>7. last \subseteq through
  <2> HIDE DEF taken, through
  <2> QED
    BY <1>6, LenProperties DEF Tts!ToSet
<1>8. finals' \in Seq(through)
  <2>1. finals' = SubSeq(queued, Len(taken) + 1, Len(queued))
    BY DEF Tts!AudioDecode, Tts!Taken
  <2> HIDE DEF queued, taken, through
  <2>2. Len(queued) \in Nat /\ \A i \in 1..Len(queued) : queued[i] \in through
    BY <1>5, ElementOfSeq, LenProperties
  <2>3. Len(taken) + 1 \in Int /\ \A i \in (Len(taken) + 1)..Len(queued) : queued[i] \in through
    BY <1>6, <2>2
  <2> QED
    BY <2>1, <2>2, <2>3, SubSeqProperties
<1>9. /\ finals' \in Seq(Tts!Requests)
      /\ \A i \in 1..Len(finals') : Through(finals'[i])
  <2>1. through \subseteq Tts!Requests
    OBVIOUS
  <2>2. \A i \in 1..Len(finals') : finals'[i] \in through
    <3> HIDE DEF through
    <3> QED
      BY <1>8, ElementOfSeq
  <2>3. finals' \in Seq(Tts!Requests)
    <3> HIDE DEF through
    <3> QED
      BY <1>8, <2>1, SeqMonotonic
  <2> QED
    BY <2>2, <2>3
<1>10. \A r \in on : r \notin last
  <2>1. \A r \in rest : r \notin through
    BY DEF TtsInv, FramesOK
  <2> HIDE DEF on, last, rest, through
  <2> QED
    BY <1>4, <1>7, <2>1
<1>11. yielded' = [r \in Tts!Requests |-> IF r \in on THEN frames'[r] - Holdback
                                                      ELSE yielded[r]]
  BY DEF Tts!AudioDecode, Tts!Live, Tts!YieldTo
<1>12. rr' \in 0..Slots
  <2> DEFINE n == Cardinality(running')
             m == Tts!Min({n, MaxLive})
             at == IF rr >= n THEN 0 ELSE rr
  <2>1. rr' = IF n = 0 THEN 0 ELSE (at + m) % n
    BY TtsCardinality DEF Tts!AudioDecode, Tts!NextRr
  <2>2. n \in Nat /\ n <= Slots
    BY <1>1, FS_Subset, FS_CardinalityType, TtsConstants DEF TtsInv, SlotsOK
  <2>3. m \in Nat
    <3> HIDE DEF n
    <3> QED
      BY <2>2, TtsMin, TtsConstants
  <2> HIDE DEF n, m
  <2>4. at \in Nat
    BY <1>1
  <2> HIDE DEF at
  <2>5. n # 0 => (at + m) % n \in 0..(n - 1)
    BY <2>2, <2>3, <2>4
  <2> QED
    BY <2>1, <2>2, <2>5, TtsConstants
<1> DEFINE Audio(r) == IF r \in last THEN Tts!Stretch("audio", yielded[r], frames'[r])
                       ELSE Tts!Stretch("audio", yielded[r], frames'[r] - Holdback)
           Told(r) == r \in pending /\ client[r] = "waiting"
           Sent(r) == IF Told(r) /\ r \in on \cup last /\ Audio(r).to > Audio(r).from
                      THEN <<Audio(r)>> ELSE <<>>
           Done(r) == IF Told(r) /\ r \in gone THEN <<Tts!Item("done")>> ELSE <<>>
<1>13. outQ' = [r \in Tts!Requests |-> outQ[r] \o Sent(r) \o Done(r)]
  BY DEF Tts!AudioDecode, Tts!Live, Tts!Taken
<1>14. \A r \in Tts!Requests : Sends(r, gone, on)
  <2> SUFFICES ASSUME NEW r \in Tts!Requests PROVE Sends(r, gone, on)
    OBVIOUS
  <2>1. outQ'[r] = outQ[r] \o Sent(r) \o Done(r) /\ outQ[r] \in Seq(Parts)
    BY <1>13 DEF TtsInv, CallersOK
  <2>2. \A x : outQ[r] \o <<x>> = Append(outQ[r], x) /\ outQ[r] \o <<>> = outQ[r]
    BY <2>1
  <2>3. \A x, y : Append(outQ[r], x) \o <<y>> = Append(Append(outQ[r], x), y)
                  /\ Append(outQ[r], x) \o <<>> = Append(outQ[r], x)
    BY <2>1
  <2>4. r \in running => r \in pending
    BY DEF TtsInv, LoopOK
  <2>5. pending = running /\ \A i \in 1..Len(finals) : finals[i] \notin running
    BY DEF TtsInv, LoopOK, FramesOK
  <2>6. r \in last /\ r \in pending => r \in gone
    BY <1>7, <2>5
  <2> HIDE DEF on, last, queued
  <2>7. r \in on => r \in running /\ r \notin gone /\ r \notin last
    BY <1>4, <1>10
  <2>8. CASE ~Told(r)
    BY <2>1, <2>2, <2>5, <2>7, <2>8 DEF Sends
  <2>9. CASE Told(r) /\ r \in on
    <3>1. Sent(r) = <<Tts!Stretch("audio", yielded[r], frames'[r] - Holdback)>>
      <4>1. frames'[r] > yielded[r] + Holdback /\ r \in running
        BY <1>4, <2>9
      <4>2. frames'[r] - Holdback > yielded[r]
        BY <4>1, TtsConstants DEF TtsInv, FramesOK
      <4> QED
        BY <2>7, <2>9, <4>2 DEF Tts!Stretch
    <3>2. Done(r) = <<>>
      BY <2>7, <2>9
    <3> QED
      BY <2>1, <2>2, <2>3, <2>9, <3>1, <3>2 DEF Sends
  <2>10. CASE Told(r) /\ r \notin on /\ r \in gone
    <3>1. Done(r) = <<Tts!Item("done")>>
      BY <2>10
    <3>2. \/ Sent(r) = <<>>
          \/ /\ Sent(r) = <<Tts!Stretch("audio", yielded[r], frames'[r])>>
             /\ frames'[r] > yielded[r]
      BY <2>10 DEF Tts!Stretch
    <3>3. frames'[r] \in Nat /\ yielded[r] \in Nat
      BY <2>10 DEF TtsInv, FramesOK
    <3> QED
      BY <2>1, <2>2, <2>3, <2>10, <3>1, <3>2, <3>3 DEF Sends
  <2>11. CASE Told(r) /\ r \notin on /\ r \notin gone
    <3>1. Done(r) = <<>> /\ Sent(r) = <<>>
      BY <2>6, <2>11
    <3> QED
      BY <2>1, <2>2, <2>11, <3>1 DEF Sends
  <2> QED
    BY <2>8, <2>9, <2>10, <2>11
<1>15. outQ' = [r \in Tts!Requests |-> outQ'[r]]
  BY <1>13
<1> HIDE DEF on
<1>16. on \in SUBSET (running \ gone)
  BY <1>4
<1> QED
  BY <1>4, <1>9, <1>11, <1>12, <1>14, <1>15, <1>16 DEF Decodes

\* A step has that shape.
LEMMA StepShape ==
  ASSUME TtsInv, Tts!Step
  PROVE  \E gone \in SUBSET running : Shape(gone)
<1> DEFINE n == [r \in Tts!Requests |-> IF r \in running THEN frames[r] + 1 ELSE frames[r]]
<1>1. PICK gone \in SUBSET running :
        /\ {r \in running : n[r] >= MaxFrames} \subseteq gone
        /\ frames' = n /\ Tts!Evict(gone) /\ pending' = pending \ gone
        /\ steps' = (steps + 1) % DecodeEvery
        /\ IF gone # {} \/ steps' = 0 THEN Tts!AudioDecode(n, gone, selfSlot')
           ELSE UNCHANGED <<outQ, yielded, finals, rr>>
  BY DEF Tts!Step
<1>2. /\ pc = "step" /\ pc' = "prefill" /\ UNCHANGED <<client, got, prefillQ, cancelQ, failures>>
  BY DEF Tts!Step, Tts!clients
<1>3. /\ running' = running \ gone
      /\ selfSlot' = Tts!Free(selfSlot, gone) /\ crossSlot' = Tts!Free(crossSlot, gone)
  BY <1>1 DEF Tts!Evict
<1>4. \/ UNCHANGED <<outQ, yielded, finals, rr>>
      \/ \E on \in SUBSET (running \ gone) : Decodes(gone, on)
  BY <1>1, <1>2, <1>3, DecodeShape
<1>5. \A r \in running : frames'[r] >= MaxFrames => r \in gone
  BY <1>1
<1>6. Shape(gone)
  BY <1>1, <1>2, <1>3, <1>4, <1>5 DEF Shape
<1> QED
  BY <1>6

\* The queues hold what the worker puts there.
LEMMA CallersStep ==
  ASSUME TtsInv, Tts!Next
  PROVE  CallersOK'
\* The steps that are about something else.
<1>0. ASSUME UNCHANGED <<client, got, outQ>> PROVE CallersOK'
  BY <1>0 DEF TtsInv, CallersOK
<1>1. ASSUME NEW r \in Tts!Requests, Tts!Speech(r) PROVE CallersOK'
  BY <1>1 DEF TtsInv, CallersOK, Tts!Speech, Tts!runner
<1>2. ASSUME NEW r \in Tts!Requests, Tts!Stream(r) PROVE CallersOK'
  <2>1. outQ[r] \in Seq(Parts) /\ outQ[r] # <<>>
    BY <1>2 DEF Tts!Stream, TtsInv, CallersOK
  <2>2. Head(outQ[r]) \in Parts /\ Tail(outQ[r]) \in Seq(Parts)
    BY <2>1, HeadTailProperties
  <2>3. outQ' \in [Tts!Requests -> Seq(Parts)]
    BY <1>2, <2>2 DEF Tts!Stream, TtsInv, CallersOK
  <2>4. got' = got \/ got' = [got EXCEPT ![r] = Head(outQ[r]).to]
    BY <1>2 DEF Tts!Stream
  <2>5. got' \in [Tts!Requests -> 0..MaxFrames]
    BY <2>2, <2>4 DEF TtsInv, CallersOK, Parts
  <2>6. client' \in [Tts!Requests -> {"new", "waiting", "done", "ended", "cut"}]
    BY <1>2 DEF Tts!Stream, TtsInv, CallersOK
  <2> QED
    BY <2>3, <2>5, <2>6 DEF CallersOK
<1>3. ASSUME NEW r \in Tts!Requests, Tts!BargeIn(r) PROVE CallersOK'
  BY <1>3 DEF TtsInv, CallersOK, Tts!BargeIn, Tts!runner
<1>4. ASSUME Tts!Prefill PROVE CallersOK'
  <2>1. Tts!Item("error") \in Parts /\ Head(prefillQ) \in Tts!Requests
    BY <1>4, TtsConstants, HeadTailProperties DEF Tts!Item, Parts, Tts!Prefill, TtsInv, LoopOK
  <2>2. outQ' = outQ \/ outQ' = [outQ EXCEPT ![Head(prefillQ)] = Append(@, Tts!Item("error"))]
    BY <1>4 DEF Tts!Prefill, Tts!Put
  <2>3. outQ \in [Tts!Requests -> Seq(Parts)]
    BY DEF TtsInv, CallersOK
  <2>4. Append(outQ[Head(prefillQ)], Tts!Item("error")) \in Seq(Parts)
    BY <2>1, <2>3, AppendProperties
  <2>5. outQ' \in [Tts!Requests -> Seq(Parts)]
    BY <2>2, <2>3, <2>4
  <2> QED
    BY <1>4, <2>5 DEF Tts!Prefill, Tts!clients, TtsInv, CallersOK
<1>5. ASSUME Tts!Step PROVE CallersOK'
  <2>1. PICK gone \in SUBSET running : Shape(gone)
    BY <1>5, StepShape
  <2>2. CASE UNCHANGED <<outQ, yielded, finals, rr>>
    BY <2>1, <2>2 DEF Shape, TtsInv, CallersOK
  <2>3. ASSUME NEW on \in SUBSET (running \ gone), Decodes(gone, on) PROVE CallersOK'
    <3>1. \A r \in Tts!Requests : outQ'[r] \in Seq(Parts)
      <4> SUFFICES ASSUME NEW r \in Tts!Requests PROVE outQ'[r] \in Seq(Parts)
        OBVIOUS
      <4>1. frames'[r] \in 0..MaxFrames /\ yielded[r] \in 0..MaxFrames
        BY <2>1, TtsConstants DEF Shape, TtsInv, FramesOK
      <4>2. Sends(r, gone, on) /\ (r \in on => frames'[r] > yielded[r] + Holdback)
        BY <2>3 DEF Decodes
      <4>3. Tts!Item("done") \in Parts /\ Tts!Stretch("audio", yielded[r], frames'[r]) \in Parts
        BY <4>1, TtsConstants DEF Tts!Item, Tts!Stretch, Parts
      <4>4. r \in on => Tts!Stretch("audio", yielded[r], frames'[r] - Holdback) \in Parts
        BY <4>1, <4>2, TtsConstants DEF Tts!Stretch, Parts
      <4>5. outQ[r] \in Seq(Parts)
        BY DEF TtsInv, CallersOK
      <4>6. \A q \in Seq(Parts), x \in Parts : Append(q, x) \in Seq(Parts)
        OBVIOUS
      <4> QED
        BY <4>2, <4>3, <4>4, <4>5, <4>6 DEF Sends
    <3>2. outQ' = [r \in Tts!Requests |-> outQ'[r]]
      BY <2>3 DEF Decodes
    <3>3. UNCHANGED <<client, got>>
      BY <2>1 DEF Shape
    <3> QED
      BY <3>1, <3>2, <3>3 DEF TtsInv, CallersOK
  <2> QED
    BY <2>1, <2>2, <2>3 DEF Shape
<1>6. ASSUME Tts!WorkerDies PROVE CallersOK'
  <2>1. Tts!Item("error") \in Parts
    BY TtsConstants DEF Tts!Item, Parts
  <2>2. \A r \in Tts!Requests : outQ'[r] \in Seq(Parts)
    BY <1>6, <2>1 DEF Tts!WorkerDies, TtsInv, CallersOK
  <2> QED
    BY <1>6, <2>2 DEF Tts!WorkerDies, Tts!clients, TtsInv, CallersOK
<1>7. CASE \E r \in Tts!Requests : Tts!Speech(r) \/ Tts!Stream(r) \/ Tts!BargeIn(r)
  BY <1>7, <1>1, <1>2, <1>3
<1>8. CASE Tts!Worker
  BY <1>8, <1>0, <1>4, <1>5 DEF Tts!Worker, Tts!Prefilled, Tts!clients, Tts!runner,
     Tts!Cancel, Tts!Cancelled
<1>9. CASE Tts!WorkerDies
  BY <1>9, <1>6
<1> QED
  BY <1>7, <1>8, <1>9 DEF Tts!Next

\* The worker's loop keeps its types, and whoever runs is told.
LEMMA LoopStep ==
  ASSUME TtsInv, Tts!Next
  PROVE  LoopOK'
<1>1. ASSUME NEW r \in Tts!Requests, Tts!Speech(r) PROVE LoopOK'
  BY <1>1, TtsConstants DEF TtsInv, LoopOK, Tts!Speech, Tts!runner
<1>2. ASSUME NEW r \in Tts!Requests, Tts!Stream(r) PROVE LoopOK'
  <2>1. cancelQ' \in Seq(Tts!Requests)
    BY <1>2 DEF Tts!Stream, TtsInv, LoopOK
  <2> QED
    BY <1>2, <2>1 DEF Tts!Stream, Tts!runner, TtsInv, LoopOK
<1>3. ASSUME NEW r \in Tts!Requests, Tts!BargeIn(r) PROVE LoopOK'
  BY <1>3, TtsConstants DEF TtsInv, LoopOK, Tts!BargeIn, Tts!runner
<1>4. ASSUME Tts!Prefill PROVE LoopOK'
  <2>1. Head(prefillQ) \in Tts!Requests /\ prefillQ' = Tail(prefillQ) /\ pc = "prefill"
        /\ Tail(prefillQ) \in Seq(Tts!Requests) /\ UNCHANGED <<cancelQ, pc, steps, rr>>
    BY <1>4, HeadTailProperties DEF Tts!Prefill, TtsInv, LoopOK
  <2>2. /\ failures' \in 0..MaxFailures
        /\ \/ running' = running \cup {Head(prefillQ)} /\ pending' = pending \cup {Head(prefillQ)}
           \/ UNCHANGED <<running, pending>>
    BY <1>4, TtsConstants DEF Tts!Prefill, TtsInv, LoopOK
  <2> QED
    BY <2>1, <2>2 DEF TtsInv, LoopOK
<1>5. ASSUME Tts!Prefilled PROVE LoopOK'
  BY <1>5, TtsConstants DEF TtsInv, LoopOK, Tts!Prefilled, Tts!clients, Tts!runner
<1>6. ASSUME Tts!Cancel PROVE LoopOK'
  <2>1. cancelQ' \in Seq(Tts!Requests) /\ pc = "cancel" /\ running' \in SUBSET Tts!Requests
    BY <1>6, HeadTailProperties DEF Tts!Cancel, Tts!Evict, TtsInv, LoopOK
  <2>2. pending = running /\ pending' = running'
    BY <1>6, <2>1 DEF Tts!Cancel, Tts!Evict, TtsInv, LoopOK
  <2> QED
    BY <1>6, <2>1, <2>2 DEF Tts!Cancel, TtsInv, LoopOK
<1>7. ASSUME Tts!Cancelled PROVE LoopOK'
  BY <1>7, TtsConstants DEF TtsInv, LoopOK, Tts!Cancelled, Tts!clients, Tts!runner
<1>8. ASSUME Tts!Step PROVE LoopOK'
  <2>1. PICK gone \in SUBSET running : Shape(gone)
    BY <1>8, StepShape
  <2>2. /\ pc' = "prefill" /\ pc = "step" /\ running' = running \ gone
        /\ pending' = pending \ gone /\ steps' = (steps + 1) % DecodeEvery
        /\ UNCHANGED <<prefillQ, cancelQ, failures>>
    BY <2>1 DEF Shape
  <2>3. rr' \in 0..Slots
    BY <2>1 DEF Shape, Decodes, TtsInv, LoopOK
  <2>4. steps' \in 0..(DecodeEvery - 1)
    BY <2>2, TtsConstants DEF TtsInv, LoopOK
  <2> QED
    BY <2>2, <2>3, <2>4 DEF TtsInv, LoopOK
<1>9. ASSUME Tts!WorkerDies PROVE LoopOK'
  BY <1>9, TtsConstants DEF TtsInv, LoopOK, Tts!WorkerDies, Tts!clients, Tts!runner,
     Tts!Item
<1>10. CASE \E r \in Tts!Requests : Tts!Speech(r) \/ Tts!Stream(r) \/ Tts!BargeIn(r)
  BY <1>10, <1>1, <1>2, <1>3
<1>11. CASE Tts!Worker
  BY <1>11, <1>4, <1>5, <1>6, <1>7, <1>8 DEF Tts!Worker
<1>12. CASE Tts!WorkerDies
  BY <1>12, <1>9
<1> QED
  BY <1>10, <1>11, <1>12 DEF Tts!Next

\* Whoever runs has room for a frame, and who is through does not run.
LEMMA FramesStep ==
  ASSUME TtsInv, Tts!Next
  PROVE  FramesOK'
\* The steps that are about something else.
<1>0. ASSUME UNCHANGED <<running, frames, yielded, finals>> PROVE FramesOK'
  BY <1>0 DEF TtsInv, FramesOK
<1>1. ASSUME Tts!Prefill PROVE FramesOK'
  <2>1. Fresh(Head(prefillQ)) /\ Head(prefillQ) \in Tts!Requests
    <3>1. prefillQ \in Seq(Tts!Requests) /\ prefillQ # <<>>
      BY <1>1 DEF Tts!Prefill, TtsInv, LoopOK
    <3>2. 1 \in 1..Len(prefillQ) /\ prefillQ[1] = Head(prefillQ) /\ prefillQ[1] \in Tts!Requests
      BY <3>1
    <3> QED
      BY <3>2 DEF Fresh
  <2>2. frames[Head(prefillQ)] = 0 /\ \A i \in 1..Len(finals) : finals[i] # Head(prefillQ)
    BY <2>1 DEF TtsInv, ArrivalsOK
  <2>3. UNCHANGED <<frames, yielded, finals>> /\ running' \subseteq running \cup {Head(prefillQ)}
    BY <1>1 DEF Tts!Prefill
  <2>4. \A r \in running' : frames[r] < MaxFrames
    BY <2>2, <2>3, TtsConstants DEF TtsInv, FramesOK
  <2>5. \A i \in 1..Len(finals) : finals[i] \notin running'
    BY <2>2, <2>3 DEF TtsInv, FramesOK
  <2> QED
    BY <2>3, <2>4, <2>5 DEF TtsInv, FramesOK
<1>2. ASSUME Tts!Cancel PROVE FramesOK'
  <2>1. UNCHANGED <<frames, yielded, finals>> /\ running' \subseteq running
    BY <1>2 DEF Tts!Cancel, Tts!Evict
  <2> QED
    BY <2>1 DEF TtsInv, FramesOK
<1>3. ASSUME Tts!Step PROVE FramesOK'
  <2>1. PICK gone \in SUBSET running : Shape(gone)
    BY <1>3, StepShape
  <2>2. /\ frames' \in [Tts!Requests -> 0..MaxFrames] /\ running' = running \ gone
        /\ \A r \in running' : frames'[r] < MaxFrames
    <3>1. \A r \in running : frames[r] + 1 \in 0..MaxFrames
      BY TtsConstants DEF TtsInv, FramesOK, LoopOK
    <3>2. frames' \in [Tts!Requests -> 0..MaxFrames]
      BY <2>1, <3>1 DEF Shape, TtsInv, FramesOK
    <3>3. running' \subseteq Tts!Requests /\ running' = running \ gone
      BY <2>1 DEF Shape, TtsInv, LoopOK
    <3>4. \A r \in running' : frames'[r] < MaxFrames
      <4> SUFFICES ASSUME NEW r \in running' PROVE frames'[r] < MaxFrames
        OBVIOUS
      <4>1. ~(frames'[r] >= MaxFrames) /\ frames'[r] \in 0..MaxFrames
        BY <2>1, <3>2, <3>3 DEF Shape
      <4> QED
        BY <4>1, TtsConstants
    <3> QED
      BY <3>2, <3>3, <3>4
  <2>3. CASE UNCHANGED <<outQ, yielded, finals, rr>>
    BY <2>2, <2>3 DEF TtsInv, FramesOK
  <2>4. ASSUME NEW on \in SUBSET (running \ gone), Decodes(gone, on) PROVE FramesOK'
    <3>1. \A r \in on : frames'[r] - Holdback \in 0..MaxFrames
      <4> SUFFICES ASSUME NEW r \in on PROVE frames'[r] - Holdback \in 0..MaxFrames
        OBVIOUS
      <4>1. /\ frames'[r] > yielded[r] + Holdback /\ frames'[r] \in 0..MaxFrames
            /\ yielded[r] \in 0..MaxFrames
        BY <2>2, <2>4 DEF Decodes, TtsInv, FramesOK, LoopOK
      <4> QED
        BY <4>1, TtsConstants
    <3>2. yielded' \in [Tts!Requests -> 0..MaxFrames]
      BY <2>4, <3>1 DEF Decodes, TtsInv, FramesOK
    <3>3. finals' \in Seq(Tts!Requests) /\ \A i \in 1..Len(finals') : finals'[i] \notin running'
      BY <2>2, <2>4 DEF Decodes, TtsInv, FramesOK
    <3> QED
      BY <2>2, <3>2, <3>3 DEF FramesOK
  <2> QED
    BY <2>1, <2>3, <2>4 DEF Shape
<1>4. CASE \E r \in Tts!Requests : Tts!Speech(r) \/ Tts!Stream(r) \/ Tts!BargeIn(r)
  BY <1>4, <1>0 DEF Tts!Speech, Tts!runner, Tts!Stream, Tts!BargeIn
<1>5. CASE Tts!Worker
  BY <1>5, <1>0, <1>1, <1>2, <1>3 DEF Tts!Worker, Tts!Prefilled, Tts!clients,
     Tts!runner, Tts!Cancelled
<1>6. CASE Tts!WorkerDies
  BY <1>6, <1>0 DEF Tts!WorkerDies, Tts!clients, Tts!runner
<1> QED
  BY <1>4, <1>5, <1>6 DEF Tts!Next

\* Both caches go on holding the running requests in the same slots.
LEMMA SlotsStep ==
  ASSUME TtsInv, Tts!Next
  PROVE  SlotsOK'
\* The steps that are about something else.
<1>0. ASSUME UNCHANGED <<running, selfSlot, crossSlot>> PROVE SlotsOK'
  BY <1>0 DEF TtsInv, SlotsOK
<1>1. ASSUME Tts!Prefill PROVE SlotsOK'
  <2>0. IsFiniteSet(running) /\ Numbers(selfSlot, running) /\ crossSlot = selfSlot
        /\ Cardinality(running) <= Slots /\ Cardinality(running) \in Nat
    BY TtsConstants DEF TtsInv, SlotsOK, LoopOK
  <2> DEFINE r == Head(prefillQ)
  <2>1. r \notin running
    <3>1. prefillQ \in Seq(Tts!Requests) /\ prefillQ # <<>>
      BY <1>1 DEF Tts!Prefill, TtsInv, LoopOK
    <3>2. 1 \in 1..Len(prefillQ) /\ prefillQ[1] = r /\ r \in Tts!Requests
      BY <3>1
    <3> QED
      BY <3>2 DEF Fresh, TtsInv, ArrivalsOK
  <2>2. \/ /\ Tts!FreeSlots(selfSlot) # {} /\ running' = running \cup {r}
           /\ selfSlot' = Tts!Alloc(selfSlot, r) /\ crossSlot' = Tts!Alloc(crossSlot, r)
        \/ /\ running' = running /\ crossSlot' = Tts!Free(crossSlot, {r})
           /\ \/ selfSlot' = Tts!Free(selfSlot, {r})
              \/ selfSlot' = Tts!Free(Tts!Alloc(selfSlot, r), {r})
    BY <1>1 DEF Tts!Prefill, Tts!AbortPrefill
  <2> HIDE DEF r
  <2>3. CASE /\ Tts!FreeSlots(selfSlot) # {} /\ running' = running \cup {r}
             /\ selfSlot' = Tts!Alloc(selfSlot, r) /\ crossSlot' = Tts!Alloc(crossSlot, r)
    <3>1. Numbers(selfSlot', running') /\ Cardinality(running) < Slots
      BY <2>0, <2>1, <2>3, AllocNumbers
    <3>2. Cardinality(running') = Cardinality(running) + 1
      BY <2>0, <2>1, <2>3, FS_AddElement
    <3> QED
      BY <2>0, <2>3, <3>1, <3>2, TtsConstants DEF SlotsOK
  <2>4. CASE /\ running' = running /\ crossSlot' = Tts!Free(crossSlot, {r})
             /\ \/ selfSlot' = Tts!Free(selfSlot, {r})
                \/ selfSlot' = Tts!Free(Tts!Alloc(selfSlot, r), {r})
    <3>1. selfSlot' = Tts!Free(selfSlot, {r})
      BY <2>0, <2>1, <2>4, AllocFree DEF Numbers
    <3>2. running \ {r} = running
      BY <2>1
    <3>3. Numbers(selfSlot', running \ {r})
      BY <2>0, <3>1, FreeNumbers
    <3> QED
      BY <2>0, <2>4, <3>1, <3>2, <3>3 DEF SlotsOK
  <2> QED
    BY <2>2, <2>3, <2>4
<1>2. ASSUME Tts!Cancel PROVE SlotsOK'
  <2>0. IsFiniteSet(running) /\ Numbers(selfSlot, running) /\ crossSlot = selfSlot
        /\ Cardinality(running) <= Slots /\ Cardinality(running) \in Nat
    BY TtsConstants DEF TtsInv, SlotsOK, LoopOK
  <2>9. \A S \in SUBSET running : Cardinality(S) <= Slots
    BY <2>0, FS_Subset, FS_CardinalityType, TtsConstants
  <2>1. CASE Head(cancelQ) \in running
    <3> DEFINE r == Head(cancelQ)
    <3>1. /\ running' = running \ {r} /\ selfSlot' = Tts!Free(selfSlot, {r})
          /\ crossSlot' = Tts!Free(crossSlot, {r})
      BY <1>2, <2>1 DEF Tts!Cancel, Tts!Evict
    <3> HIDE DEF r
    <3>2. Numbers(selfSlot', running')
      BY <2>0, <3>1, FreeNumbers
    <3> QED
      BY <2>0, <2>9, <3>1, <3>2 DEF SlotsOK
  <2>2. CASE Head(cancelQ) \notin running
    BY <1>2, <2>2 DEF Tts!Cancel, TtsInv, SlotsOK
  <2> QED
    BY <2>1, <2>2
<1>3. ASSUME Tts!Step PROVE SlotsOK'
  <2>1. PICK gone \in SUBSET running : Shape(gone)
    BY <1>3, StepShape
  <2>0. IsFiniteSet(running) /\ Numbers(selfSlot, running) /\ crossSlot = selfSlot
        /\ Cardinality(running) <= Slots /\ Cardinality(running) \in Nat
    BY TtsConstants DEF TtsInv, SlotsOK, LoopOK
  <2>9. \A S \in SUBSET running : Cardinality(S) <= Slots
    BY <2>0, FS_Subset, FS_CardinalityType, TtsConstants
  <2>2. /\ running' = running \ gone /\ selfSlot' = Tts!Free(selfSlot, gone)
        /\ crossSlot' = Tts!Free(crossSlot, gone)
    BY <2>1 DEF Shape
  <2>3. Numbers(selfSlot', running')
    BY <2>0, <2>2, FreeNumbers
  <2> QED
    BY <2>0, <2>2, <2>3, <2>9 DEF SlotsOK
<1>4. CASE \E r \in Tts!Requests : Tts!Speech(r) \/ Tts!Stream(r) \/ Tts!BargeIn(r)
  BY <1>4, <1>0 DEF Tts!Speech, Tts!runner, Tts!Stream, Tts!BargeIn
<1>5. CASE Tts!Worker
  BY <1>5, <1>0, <1>1, <1>2, <1>3 DEF Tts!Worker, Tts!Prefilled, Tts!clients,
     Tts!runner, Tts!Cancelled
<1>6. CASE Tts!WorkerDies
  BY <1>6, <1>0 DEF Tts!WorkerDies, Tts!clients, Tts!runner
<1> QED
  BY <1>4, <1>5, <1>6 DEF Tts!Next

\* A request that has not reached the worker stays as it came.
LEMMA ArrivalsStep ==
  ASSUME TtsInv, Tts!Next
  PROVE  ArrivalsOK'
\* The steps that are about something else.
<1>0. ASSUME UNCHANGED <<client, got, outQ, prefillQ, running, frames, yielded, finals>> PROVE ArrivalsOK'
  BY <1>0 DEF TtsInv, ArrivalsOK, Fresh
<1>1. ASSUME NEW r \in Tts!Requests, Tts!Speech(r) PROVE ArrivalsOK'
  <2>1. /\ prefillQ \in Seq(Tts!Requests) /\ prefillQ' = Append(prefillQ, r)
        /\ client' = [client EXCEPT ![r] = "waiting"] /\ client[r] = "new"
        /\ client \in [Tts!Requests -> {"new", "waiting", "done", "ended", "cut"}]
        /\ UNCHANGED <<got, outQ, running, frames, yielded, finals>>
    BY <1>1 DEF Tts!Speech, Tts!runner, TtsInv, LoopOK, CallersOK
  <2>2. /\ Len(prefillQ) \in Nat /\ Len(prefillQ') = Len(prefillQ) + 1
        /\ prefillQ'[Len(prefillQ) + 1] = r
        /\ \A i \in 1..Len(prefillQ) : prefillQ'[i] = prefillQ[i]
        /\ \A i \in 1..Len(prefillQ) : prefillQ[i] \in Tts!Requests
    BY <2>1, AppendProperties
  <2>3. \A i \in 1..Len(prefillQ) : prefillQ[i] # r
    BY <2>1 DEF TtsInv, ArrivalsOK
  <2>4. \A i, j \in 1..Len(prefillQ') : prefillQ'[i] = prefillQ'[j] => i = j
    BY <2>2, <2>3 DEF TtsInv, ArrivalsOK
  <2>5. \A i \in 1..Len(prefillQ') : client'[prefillQ'[i]] # "new"
    BY <2>1, <2>2, <2>3 DEF TtsInv, ArrivalsOK
  <2>6. \A q \in Tts!Requests : Fresh(q)' => Fresh(q)
    BY <2>1, <2>2 DEF Fresh
  <2> QED
    BY <2>1, <2>4, <2>5, <2>6 DEF TtsInv, ArrivalsOK
<1>2. ASSUME NEW r \in Tts!Requests, Tts!Stream(r) PROVE ArrivalsOK'
  <2>1. /\ UNCHANGED <<prefillQ, running, frames, yielded, finals>>
        /\ client[r] = "waiting" /\ outQ[r] # <<>>
        /\ \A q \in Tts!Requests \ {r} : got'[q] = got[q] /\ outQ'[q] = outQ[q]
        /\ client' \in [Tts!Requests -> {"new", "waiting", "done", "ended", "cut"}]
        /\ \A q \in Tts!Requests : client'[q] = "new" <=> client[q] = "new"
    BY <1>2 DEF Tts!Stream, Tts!runner, TtsInv, CallersOK
  <2>2. \A q \in Tts!Requests : Fresh(q)' => Fresh(q) /\ q # r
    BY <2>1 DEF Fresh, TtsInv, ArrivalsOK
  <2>3. \A i \in 1..Len(prefillQ) : prefillQ[i] \in Tts!Requests
    BY ElementOfSeq DEF TtsInv, LoopOK
  <2> QED
    BY <2>1, <2>2, <2>3 DEF TtsInv, ArrivalsOK
<1>3. ASSUME NEW r \in Tts!Requests, Tts!BargeIn(r) PROVE ArrivalsOK'
  <2>1. /\ UNCHANGED <<prefillQ, running, frames, yielded, finals, got>>
        /\ client[r] = "waiting" /\ client' = [client EXCEPT ![r] = "cut"]
        /\ outQ' = [outQ EXCEPT ![r] = <<>>]
        /\ outQ \in [Tts!Requests -> Seq(Parts)]
        /\ client \in [Tts!Requests -> {"new", "waiting", "done", "ended", "cut"}]
    BY <1>3 DEF Tts!BargeIn, Tts!runner, TtsInv, CallersOK
  <2>2. \A q \in Tts!Requests : Fresh(q)' => Fresh(q)
    BY <2>1 DEF Fresh
  <2>3. \A i \in 1..Len(prefillQ) : prefillQ[i] \in Tts!Requests
    BY ElementOfSeq DEF TtsInv, LoopOK
  <2> QED
    BY <2>1, <2>2, <2>3 DEF TtsInv, ArrivalsOK
<1>4. ASSUME Tts!Prefill PROVE ArrivalsOK'
  <2> DEFINE h == Head(prefillQ)
  <2>1. /\ prefillQ \in Seq(Tts!Requests) /\ prefillQ # <<>> /\ prefillQ' = Tail(prefillQ)
        /\ UNCHANGED <<client, got, frames, yielded, finals>>
        /\ running' \subseteq running \cup {h}
        /\ \A r \in Tts!Requests \ {h} : outQ'[r] = outQ[r]
    BY <1>4 DEF Tts!Prefill, Tts!clients, Tts!Put, TtsInv, LoopOK, CallersOK
  <2>2. /\ Len(prefillQ) \in Nat /\ Len(prefillQ') = Len(prefillQ) - 1 /\ h = prefillQ[1]
        /\ \A i \in 1..Len(prefillQ') : prefillQ'[i] = prefillQ[i + 1]
        /\ 1 \in 1..Len(prefillQ)
    BY <2>1, HeadTailProperties
  <2>3. \A i \in 1..Len(prefillQ') : i + 1 \in 1..Len(prefillQ) /\ prefillQ'[i] # h
    BY <2>2 DEF TtsInv, ArrivalsOK
  <2>4. \A r \in Tts!Requests : Fresh(r)' => Fresh(r) /\ r # h
    BY <2>1, <2>2, <2>3 DEF Fresh, TtsInv, ArrivalsOK
  <2>5. \A i, j \in 1..Len(prefillQ') : prefillQ'[i] = prefillQ'[j] => i = j
    BY <2>2, <2>3 DEF TtsInv, ArrivalsOK
  <2>6. \A i \in 1..Len(prefillQ') : client'[prefillQ'[i]] # "new"
    BY <2>1, <2>2, <2>3 DEF TtsInv, ArrivalsOK
  <2> HIDE DEF h
  <2>7. \A r \in Tts!Requests : Fresh(r)' =>
          /\ r \notin running' /\ frames'[r] = 0 /\ yielded'[r] = 0 /\ got'[r] = 0
          /\ outQ'[r] = <<>> /\ \A i \in 1..Len(finals') : finals'[i] # r
    BY <2>1, <2>4 DEF TtsInv, ArrivalsOK
  <2> QED
    BY <2>5, <2>6, <2>7 DEF ArrivalsOK
<1>5. ASSUME Tts!Cancel PROVE ArrivalsOK'
  <2>1. /\ UNCHANGED <<client, prefillQ, frames, yielded, got, outQ, finals>>
        /\ running' \subseteq running
    BY <1>5 DEF Tts!Cancel, Tts!Evict, Tts!clients
  <2> QED
    BY <2>1 DEF TtsInv, ArrivalsOK, Fresh
<1>6. ASSUME Tts!Step PROVE ArrivalsOK'
  <2>1. PICK gone \in SUBSET running : Shape(gone)
    BY <1>6, StepShape
  <2>2. UNCHANGED <<client, prefillQ, got>> /\ running' \subseteq running
    BY <2>1 DEF Shape
  <2>3. \A r \in Tts!Requests \ running : frames'[r] = frames[r]
    BY <2>1 DEF Shape
  <2>4. \A r \in Tts!Requests \ running :
          /\ yielded'[r] = yielded[r] /\ outQ'[r] = outQ[r]
          /\ \A i \in 1..Len(finals') : finals'[i] = r =>
               \E j \in 1..Len(finals) : finals[j] = r
    BY <2>1 DEF Shape, Decodes, Sends
  <2>5. \A r \in Tts!Requests : Fresh(r)' => Fresh(r)
    BY <2>2 DEF Fresh
  <2> QED
    BY <2>2, <2>3, <2>4, <2>5 DEF TtsInv, ArrivalsOK
<1>7. ASSUME Tts!WorkerDies PROVE ArrivalsOK'
  <2>1. UNCHANGED <<client, got, prefillQ, running, frames, yielded, finals>>
    BY <1>7 DEF Tts!WorkerDies, Tts!clients, Tts!runner
  <2>2. \A r \in Tts!Requests : r \notin running => outQ'[r] = outQ[r]
    BY <1>7 DEF Tts!WorkerDies, TtsInv, LoopOK, CallersOK
  <2> QED
    BY <2>1, <2>2 DEF TtsInv, ArrivalsOK, Fresh
<1>8. CASE \E r \in Tts!Requests : Tts!Speech(r) \/ Tts!Stream(r) \/ Tts!BargeIn(r)
  BY <1>8, <1>1, <1>2, <1>3
<1>9. CASE Tts!Worker
  BY <1>9, <1>0, <1>4, <1>5, <1>6 DEF Tts!Worker, Tts!Prefilled, Tts!clients,
     Tts!runner, Tts!Cancelled
<1>10. CASE Tts!WorkerDies
  BY <1>10, <1>7
<1> QED
  BY <1>8, <1>9, <1>10 DEF Tts!Next

\* What is on the way to a caller goes on without a gap.
LEMMA StreamsStep ==
  ASSUME TtsInv, Tts!Next
  PROVE  StreamsOK'
\* The steps that are about something else.
<1>0. ASSUME UNCHANGED <<client, got, outQ, pending, yielded>> PROVE StreamsOK'
  BY <1>0 DEF TtsInv, StreamsOK
<1>1. ASSUME NEW r \in Tts!Requests, Tts!Speech(r) PROVE StreamsOK'
  <2>1. /\ UNCHANGED <<outQ, got, pending, yielded>>
        /\ \A q \in Tts!Requests \ {r} : client'[q] = client[q]
    BY <1>1 DEF Tts!Speech, Tts!runner, TtsInv, CallersOK
  <2>2. r \notin pending
    BY <1>1 DEF Tts!Speech, TtsInv, LoopOK, ArrivalsOK, Fresh
  <2> QED
    BY <2>1, <2>2 DEF TtsInv, StreamsOK
<1>2. ASSUME NEW r \in Tts!Requests, Tts!Stream(r) PROVE StreamsOK'
  <2> DEFINE head == Head(outQ[r])
             now == IF head.kind = "audio" THEN head.to ELSE got[r]
  <2>1. /\ outQ[r] \in Seq(Parts) /\ outQ[r] # <<>> /\ outQ' = [outQ EXCEPT ![r] = Tail(@)]
        /\ UNCHANGED <<pending, yielded>> /\ client[r] = "waiting"
        /\ got' = IF head.kind = "audio" THEN [got EXCEPT ![r] = head.to] ELSE got
        /\ \A q \in Tts!Requests \ {r} : client'[q] = client[q]
    BY <1>2 DEF Tts!Stream, Tts!runner, TtsInv, CallersOK
  <2>2. got'[r] = now /\ outQ'[r] = Tail(outQ[r])
        /\ \A q \in Tts!Requests \ {r} : got'[q] = got[q] /\ outQ'[q] = outQ[q]
    BY <2>1 DEF TtsInv, CallersOK
  <2>3. Chained(outQ[r], got[r])
    BY DEF TtsInv, StreamsOK
  <2>4. /\ Chained(Tail(outQ[r]), now)
        /\ \A t : Stands(outQ[r], got[r], Len(outQ[r]), t) =>
                    Stands(Tail(outQ[r]), now, Len(outQ[r]) - 1, t)
    BY <2>1, <2>3, TailAudio
  <2>5. Len(Tail(outQ[r])) = Len(outQ[r]) - 1
    BY <2>1, HeadTailProperties
  <2> HIDE DEF now, head
  <2>6. /\ Chained(outQ'[r], got'[r])
        /\ client'[r] = "waiting" /\ r \in pending' =>
             Stands(outQ'[r], got'[r], Len(outQ'[r]), yielded'[r])
    BY <2>1, <2>2, <2>4, <2>5 DEF TtsInv, StreamsOK
  <2>7. ASSUME NEW q \in Tts!Requests \ {r}
        PROVE  /\ Chained(outQ'[q], got'[q])
               /\ client'[q] = "waiting" /\ q \in pending' =>
                    Stands(outQ'[q], got'[q], Len(outQ'[q]), yielded'[q])
    BY <2>1, <2>2 DEF TtsInv, StreamsOK
  <2> QED
    BY <2>6, <2>7 DEF StreamsOK
<1>3. ASSUME NEW r \in Tts!Requests, Tts!BargeIn(r) PROVE StreamsOK'
  <2>1. /\ UNCHANGED <<got, pending, yielded>>
        /\ outQ' = [outQ EXCEPT ![r] = <<>>] /\ client'[r] = "cut"
        /\ \A q \in Tts!Requests \ {r} : client'[q] = client[q]
    BY <1>3 DEF Tts!BargeIn, Tts!runner, TtsInv, CallersOK
  <2>2. outQ'[r] = <<>> /\ \A q \in Tts!Requests \ {r} : outQ'[q] = outQ[q]
    BY <2>1 DEF TtsInv, CallersOK
  <2>3. Chained(<<>>, got[r])
    BY DEF Chained
  <2> QED
    BY <2>1, <2>2, <2>3 DEF TtsInv, StreamsOK
<1>4. ASSUME Tts!Prefill PROVE StreamsOK'
  <2> DEFINE h == Head(prefillQ)
             item == Tts!Item("error")
  <2>1. /\ h \in Tts!Requests /\ Fresh(h)
        /\ UNCHANGED <<client, got, yielded>> /\ pending' \subseteq pending \cup {h}
        /\ \/ outQ' = outQ
           \/ outQ' = [outQ EXCEPT ![h] = Append(@, item)] /\ pending' = pending
    <3>1. prefillQ \in Seq(Tts!Requests) /\ prefillQ # <<>>
      BY <1>4 DEF Tts!Prefill, TtsInv, LoopOK
    <3>2. 1 \in 1..Len(prefillQ) /\ prefillQ[1] = h /\ h \in Tts!Requests
      BY <3>1
    <3>3. Fresh(h)
      BY <3>2 DEF Fresh
    <3>4. UNCHANGED <<client, got, yielded>> /\ pending' \subseteq pending \cup {h}
      BY <1>4 DEF Tts!Prefill, Tts!clients
    <3>5. \/ outQ' = outQ
          \/ outQ' = [outQ EXCEPT ![h] = Append(@, item)] /\ pending' = pending
      BY <1>4 DEF Tts!Prefill, Tts!Put
    <3> QED
      BY <3>2, <3>3, <3>4, <3>5
  <2> HIDE DEF h
  <2>2. /\ outQ[h] = <<>> /\ got[h] = 0 /\ yielded[h] = 0 /\ h \notin pending
        /\ outQ \in [Tts!Requests -> Seq(Parts)] /\ item \in Parts /\ item.kind # "audio"
    BY <2>1, TtsConstants DEF TtsInv, ArrivalsOK, LoopOK, CallersOK, Tts!Item, Parts
  <2> HIDE DEF item
  <2>3. Chained(outQ[h], got[h]) /\ Stands(outQ[h], got[h], Len(outQ[h]), yielded[h])
    BY <2>2, EmptySeq DEF Chained, Stands
  <2>4. CASE outQ' = outQ
    BY <2>1, <2>3, <2>4 DEF TtsInv, StreamsOK
  <2>5. CASE outQ' = [outQ EXCEPT ![h] = Append(@, item)] /\ pending' = pending
    <3>1. Chained(outQ'[h], got[h]) /\ \A q \in Tts!Requests \ {h} : outQ'[q] = outQ[q]
      BY <2>1, <2>2, <2>3, <2>5, AppendEnd
    <3> QED
      BY <2>1, <2>2, <2>5, <3>1 DEF TtsInv, StreamsOK
  <2> QED
    BY <2>1, <2>4, <2>5
<1>5. ASSUME Tts!Cancel PROVE StreamsOK'
  <2>1. UNCHANGED <<client, got, outQ, yielded>> /\ pending' \subseteq pending
    BY <1>5 DEF Tts!Cancel, Tts!clients
  <2> QED
    BY <2>1 DEF TtsInv, StreamsOK
<1>6. ASSUME Tts!Step PROVE StreamsOK'
  <2>1. PICK gone \in SUBSET running : Shape(gone)
    BY <1>6, StepShape
  <2>2. /\ UNCHANGED <<client, got>> /\ pending' = pending \ gone /\ pending = running
    BY <2>1 DEF Shape, TtsInv, LoopOK
  <2>3. CASE UNCHANGED <<outQ, yielded, finals, rr>>
    BY <2>2, <2>3 DEF TtsInv, StreamsOK
  <2>4. ASSUME NEW on \in SUBSET (running \ gone), Decodes(gone, on) PROVE StreamsOK'
    <3> SUFFICES ASSUME NEW r \in Tts!Requests
                 PROVE  /\ Chained(outQ'[r], got[r])
                        /\ client[r] = "waiting" /\ r \in pending \ gone =>
                             Stands(outQ'[r], got[r], Len(outQ'[r]), yielded'[r])
      BY <2>2 DEF StreamsOK
    <3> DEFINE done == Tts!Item("done")
               more == Tts!Stretch("audio", yielded[r], frames'[r] - Holdback)
               end == Tts!Stretch("audio", yielded[r], frames'[r])
    <3>1. /\ outQ[r] \in Seq(Parts) /\ Chained(outQ[r], got[r])
          /\ client[r] = "waiting" /\ r \in pending =>
               Stands(outQ[r], got[r], Len(outQ[r]), yielded[r])
          /\ frames'[r] \in 0..MaxFrames /\ yielded[r] \in 0..MaxFrames
      <4>1. frames' \in [Tts!Requests -> 0..MaxFrames]
        BY FramesStep, <1>6 DEF Tts!Next, Tts!Worker, FramesOK
      <4> QED
        BY <4>1 DEF TtsInv, StreamsOK, CallersOK, FramesOK
    <3>2. done \in Parts /\ done.kind # "audio" /\ end \in Parts
          /\ end.kind = "audio" /\ end.from = yielded[r] /\ end.to = frames'[r]
      BY <3>1, TtsConstants DEF Tts!Item, Tts!Stretch, Parts
    <3>3. yielded'[r] = IF r \in on THEN frames'[r] - Holdback ELSE yielded[r]
      BY <2>4 DEF Decodes
    <3>4. r \in on => /\ more \in Parts /\ more.kind = "audio" /\ more.from = yielded[r]
                      /\ more.to = yielded'[r] /\ more.from < more.to
      <4>1. r \in on => frames'[r] > yielded[r] + Holdback
        BY <2>4 DEF Decodes
      <4> QED
        BY <3>1, <3>3, <4>1, TtsConstants DEF Tts!Stretch, Parts
    <3>5. /\ Len(Append(outQ[r], more)) = Len(outQ[r]) + 1
          /\ Append(outQ[r], end) \in Seq(Parts)
      BY <3>1, <3>2
    <3>6. Sends(r, gone, on)
      BY <2>4 DEF Decodes
    <3> HIDE DEF done, more, end
    <3>7. CASE outQ'[r] = outQ[r] /\ (client[r] = "waiting" => r \notin on)
      BY <3>1, <3>3, <3>7
    <3>8. CASE r \in on /\ outQ'[r] = Append(outQ[r], more) /\ client[r] = "waiting"
      <4>1. r \in pending
        BY <2>2, <3>8
      <4> QED
        BY <3>1, <3>4, <3>5, <3>8, <4>1, AppendAudio
    <3>9. CASE r \in gone /\ outQ'[r] = Append(outQ[r], done)
      BY <3>1, <3>2, <3>9, AppendEnd
    <3>10. CASE /\ r \in gone /\ yielded[r] < frames'[r] /\ client[r] = "waiting"
                /\ outQ'[r] = Append(Append(outQ[r], end), done)
      <4>1. r \in pending
        BY <2>2, <3>10
      <4>2. Chained(Append(outQ[r], end), got[r])
        BY <3>1, <3>2, <3>10, <4>1, AppendAudio
      <4>3. Chained(outQ'[r], got[r])
        BY <3>2, <3>5, <3>10, <4>2, AppendEnd
      <4> QED
        BY <3>10, <4>3
    <3> QED
      BY <3>6, <3>7, <3>8, <3>9, <3>10 DEF Sends, done, more, end
  <2> QED
    BY <2>1, <2>3, <2>4 DEF Shape
<1>7. ASSUME Tts!WorkerDies PROVE StreamsOK'
  <2>1. /\ UNCHANGED <<client, got, yielded>> /\ pending' = {}
        /\ \A r \in Tts!Requests : \/ outQ'[r] = outQ[r]
                                    \/ outQ'[r] = Append(outQ[r], Tts!Item("error"))
    BY <1>7 DEF Tts!WorkerDies, Tts!clients, Tts!runner
  <2>2. Tts!Item("error") \in Parts /\ Tts!Item("error").kind # "audio"
    BY TtsConstants DEF Tts!Item, Parts
  <2>3. ASSUME NEW r \in Tts!Requests PROVE Chained(outQ'[r], got[r])
    <3>1. Chained(outQ[r], got[r]) /\ outQ[r] \in Seq(Parts)
      BY DEF TtsInv, StreamsOK, CallersOK
    <3>2. Chained(Append(outQ[r], Tts!Item("error")), got[r])
      BY <2>2, <3>1, AppendEnd
    <3> QED
      BY <2>1, <3>1, <3>2
  <2> QED
    BY <2>1, <2>3 DEF StreamsOK
<1>8. CASE \E r \in Tts!Requests : Tts!Speech(r) \/ Tts!Stream(r) \/ Tts!BargeIn(r)
  BY <1>8, <1>1, <1>2, <1>3
<1>9. CASE Tts!Worker
  BY <1>9, <1>0, <1>4, <1>5, <1>6 DEF Tts!Worker, Tts!Prefilled, Tts!clients,
     Tts!runner, Tts!Cancelled
<1>10. CASE Tts!WorkerDies
  BY <1>10, <1>7
<1> QED
  BY <1>8, <1>9, <1>10 DEF Tts!Next

\* The part begins with the invariant.
LEMMA TtsInit == Tts!Init => TtsInv
<1> SUFFICES ASSUME Tts!Init PROVE TtsInv
  OBVIOUS
<1>1. prefillQ = <<>> /\ Len(prefillQ) = 0 /\ finals = <<>> /\ Len(finals) = 0
  BY EmptySeq DEF Tts!Init
<1>2. CallersOK
  BY TtsConstants DEF Tts!Init, CallersOK
<1>3. LoopOK /\ FramesOK
  BY <1>1, TtsConstants DEF Tts!Init, LoopOK, FramesOK
<1>4. ArrivalsOK
  BY <1>1 DEF Tts!Init, ArrivalsOK
<1>5. SlotsOK
  <2>1. running = {} /\ Cardinality(running) = 0 /\ crossSlot = selfSlot
        /\ selfSlot = [r \in {} |-> 0]
    BY FS_EmptySet DEF Tts!Init, Tts!Empty
  <2>2. 0..(0 - 1) = {}
    OBVIOUS
  <2> QED
    BY <2>1, <2>2, TtsConstants DEF SlotsOK, Numbers
<1>6. StreamsOK
  BY EmptySeq DEF Tts!Init, StreamsOK, Chained, Stands
<1> QED
  BY <1>2, <1>3, <1>4, <1>5, <1>6 DEF TtsInv

\* Every step of it keeps it.
LEMMA TtsStep == TtsInv /\ Tts!Next => TtsInv'
  BY CallersStep, LoopStep, FramesStep, ArrivalsStep, SlotsStep, StreamsStep DEF TtsInv

TtsPart == part = "tts" => TtsInv

\* In every state of the server the part has its invariant.
LEMMA TtsInvariance == Spec => []TtsPart
<1>1. Init => TtsPart
  BY TtsInit DEF Init, TtsPart
<1>2. TtsPart /\ [Next]_vars => TtsPart'
  <2> SUFFICES ASSUME TtsPart, [Next]_vars, part' = "tts" PROVE TtsInv'
    BY DEF TtsPart
  <2>1. part = "tts" /\ TtsInv
    BY DEF Next, vars, TtsPart
  <2>2. CASE UNCHANGED ttsVars
    BY <2>1, <2>2
       DEF ttsVars, TtsInv, CallersOK, LoopOK, FramesOK, ArrivalsOK, Fresh, SlotsOK, StreamsOK
  <2>3. CASE Next /\ ~UNCHANGED ttsVars
    BY <2>1, <2>3, TtsStep DEF Next
  <2> QED
    BY <2>2, <2>3 DEF vars
<1> QED
  BY <1>1, <1>2, PTL DEF Spec

\* Whatever failed, finished or was cancelled in whatever order, both caches hold the
\* running requests and no other, in the same slots, the first ones: for any number of
\* requests, slots, frames and failures.
THEOREM CachesAgree == Spec => []SlotsAgree
<1>1. TtsPart => SlotsAgree
  <2> SUFFICES ASSUME TtsInv PROVE Tts!SlotsAgree
    BY DEF TtsPart, SlotsAgree
  <2> QED
    BY TtsCardinality DEF TtsInv, SlotsOK, Numbers, Tts!SlotsAgree
<1> QED
  BY <1>1, TtsInvariance, PTL

\* However live decodes, the holdback and the end of a speech fall, what a caller is
\* streamed has neither gap nor repetition.
THEOREM SpeechGoesOn == Spec => []AudioInOrder
<1>1. TtsPart => AudioInOrder
  <2> SUFFICES ASSUME TtsInv, NEW r \in Tts!Requests, NEW i \in DOMAIN outQ[r],
                      outQ[r][i].kind = "audio"
               PROVE  LET q == outQ[r]
                          before == {j \in 1..(i - 1) : q[j].kind = "audio"}
                      IN /\ q[i].from = (IF before = {} THEN got[r] ELSE q[Tts!Max(before)].to)
                         /\ q[i].from < q[i].to
    BY DEF TtsPart, AudioInOrder, Tts!AudioInOrder
  <2> DEFINE q == outQ[r]
             before == {j \in 1..(i - 1) : q[j].kind = "audio"}
  <2>1. i \in 1..Len(q) /\ Len(q) \in Nat
    BY LenProperties DEF TtsInv, CallersOK
  <2>2. q[i].from < q[i].to /\ Stands(q, got[r], i - 1, q[i].from)
    BY <2>1 DEF TtsInv, StreamsOK, Chained
  <2> HIDE DEF q
  <2>3. CASE before = {}
    BY <2>2, <2>3 DEF Stands, q
  <2>4. CASE before # {}
    <3>1. PICK j \in 1..(i - 1) : /\ q[j].kind = "audio" /\ q[j].to = q[i].from
                                  /\ \A k \in (j + 1)..(i - 1) : q[k].kind # "audio"
      BY <2>2, <2>4 DEF Stands
    <3>2. j \in before /\ \A k \in before : k <= j
      BY <2>1, <3>1
    <3>3. \A k \in before : k \in Int
      BY <2>1
    <3> HIDE DEF before
    <3>4. \A m \in before : (\A y \in before : m >= y) <=> m = j
      BY <3>2, <3>3
    <3>5. Tts!Max(before) = CHOOSE m \in before : \A y \in before : m >= y
      BY DEF Tts!Max
    <3>6. Tts!Max(before) = j
      BY <3>2, <3>4, <3>5
    <3> QED
      BY <2>2, <2>4, <3>1, <3>6 DEF q, before
  <2> QED
    BY <2>3, <2>4
<1> QED
  BY <1>1, TtsInvariance, PTL

---------------------------------------------------------------------------
(* DeltaEmitter.  The invariant says what has been sent of the snapshot    *)
(* in hand, wherever the debounce falls between its sends.                 *)

Words == STRING \ {"none"}
Texts == Seq(Words) \ {<<>>}
Deltas == [index: Nat, word: Words]

\* Nothing to say is said.
LEMMA NothingWithin == \A deltas, at : Delta!Within(<<>>, deltas, at)
<1> SUFFICES ASSUME NEW deltas, NEW at PROVE Delta!Within(<<>>, deltas, at)
  OBVIOUS
<1> DEFINE f == [i \in DOMAIN <<>> |-> 0]
<1>1. DOMAIN <<>> = {}
  BY EmptySeq
<1>2. f \in [DOMAIN <<>> -> {p \in DOMAIN deltas : deltas[p].index = at}]
  BY <1>1
<1> QED
  BY <1>1, <1>2 DEF Delta!Within

\* Whatever is sent later, what was said stays said.
LEMMA WithinMore ==
  ASSUME NEW words, NEW deltas \in Seq(Deltas), NEW at, NEW delta \in Deltas,
         Delta!Within(words, deltas, at)
  PROVE  Delta!Within(words, Append(deltas, delta), at)
<1> DEFINE more == Append(deltas, delta)
<1>1. /\ DOMAIN deltas = 1..Len(deltas) /\ DOMAIN more = 1..(Len(deltas) + 1)
      /\ Len(deltas) \in Nat /\ \A p \in 1..Len(deltas) : more[p] = deltas[p]
  BY AppendProperties, LenProperties
<1> HIDE DEF more
<1>2. PICK f \in [DOMAIN words -> {p \in DOMAIN deltas : deltas[p].index = at}] :
        /\ \A i, j \in DOMAIN words : i < j => f[i] < f[j]
        /\ \A i \in DOMAIN words : deltas[f[i]].word = words[i]
  BY DEF Delta!Within
<1>3. f \in [DOMAIN words -> {p \in DOMAIN more : more[p].index = at}]
  BY <1>1, <1>2
<1>4. \A i \in DOMAIN words : more[f[i]].word = words[i]
  BY <1>1, <1>2
<1> QED
  BY <1>2, <1>3, <1>4 DEF Delta!Within, more

\* The next word is said by the delta that says it.
LEMMA WithinNext ==
  ASSUME NEW words \in Seq(Words), NEW deltas \in Seq(Deltas), NEW at \in Nat,
         NEW word \in Words, Delta!Within(words, deltas, at)
  PROVE  Delta!Within(Append(words, word), Append(deltas, [index |-> at, word |-> word]), at)
<1> DEFINE delta == [index |-> at, word |-> word]
           more == Append(deltas, delta)
           said == Append(words, word)
           n == Len(deltas) + 1
           k == Len(words) + 1
<1>1. /\ DOMAIN deltas = 1..Len(deltas) /\ DOMAIN more = 1..n /\ Len(deltas) \in Nat
      /\ \A p \in 1..Len(deltas) : more[p] = deltas[p]
      /\ more[n] = delta
  <2>1. delta \in Deltas
    BY DEF Deltas
  <2> HIDE DEF delta
  <2> QED
    BY <2>1, AppendProperties, LenProperties
<1>2. /\ DOMAIN words = 1..Len(words) /\ DOMAIN said = 1..k /\ Len(words) \in Nat
      /\ \A i \in 1..Len(words) : said[i] = words[i]
      /\ said[k] = word
  BY AppendProperties, LenProperties
<1>3. delta.index = at /\ delta.word = word
  OBVIOUS
<1> HIDE DEF more, said, delta
<1>4. PICK f \in [DOMAIN words -> {p \in DOMAIN deltas : deltas[p].index = at}] :
        /\ \A i, j \in DOMAIN words : i < j => f[i] < f[j]
        /\ \A i \in DOMAIN words : deltas[f[i]].word = words[i]
  BY DEF Delta!Within
<1> DEFINE g == [i \in DOMAIN said |-> IF i = k THEN n ELSE f[i]]
<1>5. \A i \in DOMAIN words : /\ i # k /\ i \in DOMAIN said /\ g[i] = f[i]
                              /\ f[i] \in 1..Len(deltas) /\ more[f[i]] = deltas[f[i]]
  BY <1>1, <1>2, <1>4
<1>6. \A i \in DOMAIN said : i = k \/ i \in DOMAIN words
  BY <1>2
<1>7. k \in DOMAIN said /\ g[k] = n /\ \A i \in DOMAIN words : i < k
  BY <1>2
<1>8. \A i \in DOMAIN said : g[i] \in {p \in DOMAIN more : more[p].index = at}
  <2> HIDE DEF g
  <2> SUFFICES ASSUME NEW i \in DOMAIN said
               PROVE  g[i] \in DOMAIN more /\ more[g[i]].index = at
    OBVIOUS
  <2>1. CASE i = k
    BY <1>1, <1>3, <1>7, <2>1
  <2>2. CASE i \in DOMAIN words
    BY <1>1, <1>4, <1>5, <2>2
  <2> QED
    BY <1>6, <2>1, <2>2
<1>9. \A i, j \in DOMAIN said : i < j => g[i] < g[j]
  <2> HIDE DEF g
  <2> SUFFICES ASSUME NEW i \in DOMAIN said, NEW j \in DOMAIN said, i < j PROVE g[i] < g[j]
    OBVIOUS
  <2>1. i \in DOMAIN words
    BY <1>2
  <2>2. CASE j = k
    BY <1>1, <1>5, <1>7, <2>1, <2>2
  <2>3. CASE j \in DOMAIN words
    BY <1>4, <1>5, <2>1, <2>3
  <2> QED
    BY <1>6, <2>2, <2>3
<1>10. \A i \in DOMAIN said : more[g[i]].word = said[i]
  <2> HIDE DEF g
  <2> SUFFICES ASSUME NEW i \in DOMAIN said PROVE more[g[i]].word = said[i]
    OBVIOUS
  <2>1. CASE i = k
    BY <1>1, <1>2, <1>3, <1>7, <2>1
  <2>2. CASE i \in DOMAIN words
    BY <1>2, <1>4, <1>5, <2>2
  <2> QED
    BY <1>6, <2>1, <2>2
<1>11. g \in [DOMAIN said -> {p \in DOMAIN more : more[p].index = at}]
  BY <1>8
<1> HIDE DEF g
<1> QED
  BY <1>9, <1>10, <1>11 DEF Delta!Within, said, more, delta

\* A text is its settled words and its trailing one.
LEMMA FrontAndLast ==
  ASSUME NEW text \in Texts
  PROVE  /\ Delta!Front(text) \in Seq(Words) /\ Delta!Last(text) \in Words
         /\ Len(Delta!Front(text)) = Len(text) - 1 /\ Len(text) \in Nat \ {0}
         /\ Append(Delta!Front(text), Delta!Last(text)) = text
<1> DEFINE n == Len(text)
           front == Delta!Front(text)
           last == Delta!Last(text)
<1>1. text \in Seq(Words) /\ n \in Nat \ {0} /\ \A i \in 1..n : text[i] \in Words
  BY EmptySeq, ElementOfSeq DEF Texts
<1>2. front = SubSeq(text, 1, n - 1) /\ last = text[n]
  BY DEF Delta!Front, Delta!Last
<1> HIDE DEF n, front, last
<1>3. /\ front \in Seq(Words) /\ Len(front) = n - 1
      /\ \A i \in 1..(n - 1) : front[i] = text[i]
  BY <1>1, <1>2, SubSeqProperties
<1>4. last \in Words
  BY <1>1, <1>2
<1>5. /\ Append(front, last) \in Seq(Words) /\ Len(Append(front, last)) = n
      /\ \A i \in 1..(n - 1) : Append(front, last)[i] = front[i]
      /\ Append(front, last)[n] = last
  BY <1>1, <1>3, <1>4, AppendProperties
<1>6. \A i \in 1..n : Append(front, last)[i] = text[i]
  BY <1>1, <1>2, <1>3, <1>5
<1>7. Append(front, last) = text
  BY <1>1, <1>5, <1>6, SeqEqual DEF n
<1> QED
  BY <1>1, <1>3, <1>4, <1>7 DEF n, front, last

\* What was sent of a text that goes on from it, and what is left of its settled words.
LEMMA Released ==
  ASSUME NEW text \in Texts, NEW sofar \in Seq(Words), Delta!IsPrefix(sofar, text)
  PROVE  LET todo == Delta!Drop(Delta!Front(text), Len(sofar)) IN
         /\ todo \in Seq(Words)
         /\ todo # <<>> => sofar \o todo = Delta!Front(text)
         /\ todo = <<>> => \/ sofar = text /\ Len(sofar) >= Len(text)
                           \/ sofar = Delta!Front(text) /\ ~(Len(sofar) >= Len(text))
<1> DEFINE n == Len(text)
           m == Len(sofar)
           front == Delta!Front(text)
           todo == Delta!Drop(front, m)
<1>1. /\ text \in Seq(Words) /\ n \in Nat \ {0} /\ m \in Nat /\ m <= n
      /\ front \in Seq(Words) /\ Len(front) = n - 1
      /\ \A i \in 1..(n - 1) : front[i] = text[i]
  <2>1. text \in Seq(Words) /\ \A i \in 1..n : text[i] \in Words
    BY ElementOfSeq DEF Texts
  <2>2. front = SubSeq(text, 1, n - 1)
    BY DEF Delta!Front
  <2>3. n \in Nat \ {0} /\ m \in Nat /\ m <= n
    BY FrontAndLast, LenProperties DEF Delta!IsPrefix
  <2> HIDE DEF n, front
  <2>4. front \in Seq(Words) /\ Len(front) = n - 1 /\ \A i \in 1..(n - 1) : front[i] = text[i]
    BY <2>1, <2>2, <2>3, SubSeqProperties
  <2> QED
    BY <2>1, <2>3, <2>4
<1>2. \A i \in 1..m : sofar[i] = text[i]
  <2>1. SubSeq(sofar, 1, m) = SubSeq(text, 1, m)
    BY DEF Delta!IsPrefix
  <2> HIDE DEF m, n
  <2>2. (\A i \in 1..m : sofar[i] \in Words) /\ \A i \in 1..n : text[i] \in Words
    BY <1>1, ElementOfSeq DEF m, n
  <2>3. \A i \in 1..m : i <= n
    BY <1>1
  <2>4. \A i \in 1..m : SubSeq(sofar, 1, m)[i] = sofar[i] /\ SubSeq(text, 1, m)[i] = text[i]
    BY <1>1, <2>2, <2>3, SubSeqProperties
  <2> QED
    BY <2>1, <2>4
<1>3. todo = SubSeq(front, m + 1, n - 1)
  BY <1>1 DEF Delta!Drop
<1> HIDE DEF front, todo, m, n
<1>4. /\ todo \in Seq(Words) /\ Len(todo) = IF m < n - 1 THEN n - 1 - m ELSE 0
      /\ \A i \in 1..(n - 1 - m) : todo[i] = front[m + i]
  <2>1. \A i \in (m + 1)..(n - 1) : front[i] \in Words
    BY <1>1, ElementOfSeq
  <2> DEFINE a == m + 1
             b == n - 1
  <2>2. a \in Int /\ b \in Int
    BY <1>1
  <2> HIDE DEF a, b
  <2>3. /\ todo \in Seq(Words) /\ Len(todo) = IF a <= b THEN b - a + 1 ELSE 0
        /\ \A i \in 1..(b - a + 1) : todo[i] = front[a + i - 1]
    BY <1>3, <2>1, <2>2, SubSeqProperties DEF a, b
  <2>4. b - a + 1 = n - 1 - m /\ (a <= b <=> m < n - 1)
    BY <1>1 DEF a, b
  <2>5. Len(todo) = IF m < n - 1 THEN n - 1 - m ELSE 0
    BY <2>3, <2>4
  <2>6. ASSUME NEW i \in 1..(n - 1 - m) PROVE todo[i] = front[m + i]
    <3>1. todo[i] = front[a + i - 1]
      BY <2>3, <2>4
    <3>2. a + i - 1 = m + i
      BY <1>1 DEF a
    <3> QED
      BY <3>1, <3>2
  <2> QED
    BY <2>3, <2>5, <2>6
<1>5. ASSUME todo # <<>> PROVE sofar \o todo = front
  <2>1. m < n - 1 /\ Len(todo) = n - 1 - m
    BY <1>1, <1>4, <1>5, EmptySeq
  <2>2. /\ sofar \o todo \in Seq(Words) /\ Len(sofar \o todo) = n - 1
        /\ \A i \in 1..(n - 1) : (sofar \o todo)[i] =
                                  IF i <= m THEN sofar[i] ELSE todo[i - m]
    BY <1>1, <1>4, <2>1, ConcatProperties DEF m
  <2>3. \A i \in 1..(n - 1) : (sofar \o todo)[i] = front[i]
    <3> SUFFICES ASSUME NEW i \in 1..(n - 1) PROVE (sofar \o todo)[i] = front[i]
      OBVIOUS
    <3>1. CASE i <= m
      BY <1>1, <1>2, <2>2, <3>1
    <3>2. CASE ~(i <= m)
      <4>1. i - m \in 1..(n - 1 - m) /\ m + (i - m) = i
        BY <1>1, <3>2
      <4> QED
        BY <1>4, <2>2, <3>2, <4>1
    <3> QED
      BY <3>1, <3>2
  <2> QED
    BY <1>1, <2>2, <2>3, SeqEqual
<1>6. ASSUME todo = <<>>
      PROVE  (sofar = text /\ m >= n) \/ (sofar = front /\ ~(m >= n))
  <2>1. m = n \/ m = n - 1
    BY <1>1, <1>4, <1>6, EmptySeq
  <2>2. CASE m = n
    BY <1>1, <1>2, <2>2, SeqEqual DEF m, n
  <2>3. CASE m = n - 1
    <3>1. \A i \in 1..m : sofar[i] = front[i]
      BY <1>1, <1>2, <2>3
    <3>2. sofar = front
      BY <1>1, <2>3, <3>1, SeqEqual DEF m
    <3> QED
      BY <1>1, <2>3, <3>2
  <2> QED
    BY <2>1, <2>2, <2>3
<1> QED
  BY <1>4, <1>5, <1>6 DEF todo, front, m, n

\* The transcript of a turn, and what was sent of it under which content index.
Items == [deltas: Seq(Deltas), index: Nat, transcript: Texts]

EmitterOK ==
  /\ emitted \in Seq(Words) /\ pendingFull \in Seq(Words)
  /\ d_pending \in Words \cup {"none"} /\ wire \in Seq(Deltas) /\ index \in Nat
  /\ flush \in BOOLEAN /\ aged \in BOOLEAN

CallOK ==
  /\ call \in [op: {"idle", "update", "completed"}, full: Seq(Words), todo: Seq(Words),
               last: BOOLEAN]
  /\ call.op # "idle" => call.full \in Texts /\ d_turn <= Len(Turns)

TurnsOK ==
  /\ d_turn \in 1..(Len(Turns) + 1) /\ heard \in Nat /\ snapshots \in 0..MaxSnapshots
  /\ items \in Seq(Items)

\* The word held is the trailing one of its snapshot, and the words before it are out.
Holding ==
  d_pending # "none" =>
    /\ pendingFull \in Texts /\ Delta!Last(pendingFull) = d_pending
    /\ Delta!Within(Delta!Front(pendingFull), wire, index)

\* All of the text is out but, maybe, the trailing word, which is held.
Said(text) ==
  \/ d_pending = "none" /\ Delta!Within(text, wire, index)
  \/ d_pending = Delta!Last(text) /\ Delta!Within(Delta!Front(text), wire, index)

\* What is recorded as sent is out; while a call sends, what it has sent of its settled
\* words is; before the turn's end, all but what is held.
Saying ==
  /\ call.op = "idle" => Delta!Within(emitted, wire, index)
  /\ call.op = "update" => \E sofar \in Seq(Words) :
       sofar \o call.todo = Delta!Front(call.full) /\ Delta!Within(sofar, wire, index)
  /\ call.op = "completed" => Said(call.full)

DeltaInv ==
  /\ EmitterOK /\ CallOK /\ TurnsOK /\ Holding /\ Saying /\ Delta!NothingMissing

\* What the decoder says is words.
LEMMA DeltaWords ==
  /\ Turns \in Seq(Texts) /\ Partial \in Words /\ MaxSnapshots \in Nat
  /\ \A k \in 1..Len(Turns) : Turns[k] \in Texts
<1>1. /\ Turns \in Seq(Seq(STRING) \ {<<>>}) /\ Partial \in Words /\ MaxSnapshots \in Nat
      /\ \A k \in DOMAIN Turns : \A i \in DOMAIN Turns[k] : Turns[k][i] # "none"
  BY DeltaAssumption DEF Words
<1>2. Len(Turns) \in Nat /\ DOMAIN Turns = 1..Len(Turns)
      /\ \A k \in 1..Len(Turns) : Turns[k] \in Seq(STRING) \ {<<>>}
  BY <1>1, ElementOfSeq, LenProperties
<1>3. ASSUME NEW k \in 1..Len(Turns) PROVE Turns[k] \in Texts
  <2>1. Turns[k] \in Seq(STRING) /\ Turns[k] # <<>> /\ k \in DOMAIN Turns
    BY <1>2
  <2> DEFINE turn == Turns[k]
  <2>2. \A i \in DOMAIN turn : turn[i] # "none"
    BY <1>1, <2>1
  <2> HIDE DEF turn
  <2>3. turn \in Seq(STRING)
    BY <2>1 DEF turn
  <2>4. DOMAIN turn = 1..Len(turn) /\ \A i \in 1..Len(turn) : turn[i] \in STRING
    BY <2>3, ElementOfSeq, LenProperties
  <2>5. \A i \in 1..Len(turn) : turn[i] \in Words
    BY <2>2, <2>4 DEF Words
  <2>6. Turns[k] \in Seq(Words)
    BY <2>3, <2>5 DEF turn
  <2> QED
    BY <2>1, <2>6 DEF Texts
<1>4. Turns \in Seq(Texts)
  BY <1>1, <1>2, <1>3
<1> QED
  BY <1>1, <1>3, <1>4

\* The end of update(): all of the text is out but what is held.
LEMMA TailHeld ==
  ASSUME EmitterOK, index' \in Nat, NEW text \in Texts, NEW released \in Seq(Words),
         NEW held \in Words \cup {"none"},
         \/ released = text /\ Len(released) >= Len(text)
         \/ released = Delta!Front(text) /\ ~(Len(released) >= Len(text)),
         Delta!Within(released, wire, index'),
         held # "none" => /\ pendingFull \in Texts /\ Delta!Last(pendingFull) = held
                          /\ Delta!Within(Delta!Front(pendingFull), wire, index'),
         Delta!HoldTail(text, released, held)
  PROVE  EmitterOK' /\ Holding' /\ Delta!Within(emitted', wire', index') /\ Said(text)'
<1> DEFINE tail == Delta!Last(text)
           front == Delta!Front(text)
           delta == [index |-> index', word |-> tail]
<1>1. front \in Seq(Words) /\ tail \in Words /\ Append(front, tail) = text /\ tail # "none"
      /\ text \in Seq(Words) /\ delta \in Deltas
  BY FrontAndLast DEF Words, Texts, Deltas
<1>2. CASE Len(released) >= Len(text)
  <2>1. /\ emitted' = text /\ d_pending' = "none" /\ flush' = FALSE /\ released = text
        /\ UNCHANGED <<pendingFull, aged, wire>>
    BY <1>2 DEF Delta!HoldTail, Delta!None, Delta!Silent
  <2> QED
    BY <1>1, <2>1 DEF EmitterOK, Holding, Said
<1>3. CASE ~(Len(released) >= Len(text)) /\ tail # held
  <2>1. /\ emitted' = front /\ d_pending' = tail /\ pendingFull' = text /\ aged' = FALSE
        /\ flush' = TRUE /\ wire' = wire /\ released = front
    BY <1>3 DEF Delta!HoldTail, Delta!Silent
  <2> QED
    BY <1>1, <2>1 DEF EmitterOK, Holding, Said
<1>4. CASE ~(Len(released) >= Len(text)) /\ tail = held /\ aged
  <2>1. /\ emitted' = text /\ d_pending' = "none" /\ flush' = FALSE /\ released = front
        /\ UNCHANGED <<pendingFull, aged>> /\ wire' = Append(wire, delta)
    BY <1>4 DEF Delta!HoldTail, Delta!None, Delta!Emit
  <2>2. wire \in Seq(Deltas)
    BY DEF EmitterOK
  <2>3. Delta!Within(text, wire', index') /\ wire' \in Seq(Deltas)
    <3>1. Delta!Within(front, wire, index')
      BY <2>1
    <3> DEFINE at == index'
    <3>2. at \in Nat /\ Delta!Within(front, wire, at)
      BY <3>1
    <3>3. delta = [index |-> at, word |-> tail]
      OBVIOUS
    <3> HIDE DEF at, front, tail, delta
    <3>4. Delta!Within(Append(front, tail), Append(wire, delta), at)
      BY <1>1, <2>2, <3>2, <3>3, WithinNext
    <3>5. Append(wire, delta) \in Seq(Deltas)
      BY <1>1, <2>2, AppendProperties
    <3> QED
      BY <1>1, <2>1, <3>4, <3>5 DEF at
  <2> QED
    BY <1>1, <2>1, <2>3 DEF EmitterOK, Holding, Said
<1>5. CASE ~(Len(released) >= Len(text)) /\ tail = held /\ ~aged
  <2>1. /\ emitted' = front /\ d_pending' = held /\ released = front
        /\ UNCHANGED <<pendingFull, flush, aged, wire>>
    BY <1>5 DEF Delta!HoldTail, Delta!Silent
  <2> QED
    BY <1>1, <1>5, <2>1 DEF EmitterOK, Holding, Said
<1> QED
  BY <1>2, <1>3, <1>4, <1>5

\* A call runs to its first send, or to its end.
LEMMA CallRuns ==
  ASSUME EmitterOK, CallOK, Holding, Saying, call.op = "idle",
         NEW text \in Texts, NEW last \in BOOLEAN, Delta!Call(text, last)
  PROVE  /\ EmitterOK' /\ Holding' /\ Saying'
         /\ call' \in [op: {"idle", "update", "completed"}, full: Seq(Words),
                       todo: Seq(Words), last: BOOLEAN]
         /\ call'.op # "idle" => call'.full = text
<1> DEFINE extends == Delta!IsPrefix(emitted, text)
           released == IF extends THEN emitted ELSE <<>>
           held == IF extends THEN d_pending ELSE "none"
           todo == Delta!Drop(Delta!Front(text), Len(released))
<1>1. /\ index' = IF extends THEN index ELSE index + 1
      /\ \/ /\ todo = <<>> /\ Delta!HoldTail(text, released, held)
            /\ call' = IF last THEN [Delta!Idle EXCEPT !.op = "completed", !.full = text]
                       ELSE Delta!Idle
         \/ /\ todo # <<>> /\ emitted' = released /\ d_pending' = held
            /\ call' = [op |-> "update", full |-> text, todo |-> todo, last |-> last]
            /\ UNCHANGED <<pendingFull, flush, aged, wire>>
  BY DEF Delta!Call, Delta!None, Delta!Silent
<1>2. released \in Seq(Words) /\ Delta!IsPrefix(released, text) /\ index' \in Nat
      /\ held \in Words \cup {"none"}
  <2>1. CASE extends
    BY <1>1, <2>1 DEF EmitterOK
  <2>2. CASE ~extends
    <3>1. Delta!IsPrefix(<<>>, text)
      <4>1. Len(<<>>) = 0 /\ Len(text) \in Nat /\ SubSeq(<<>>, 1, 0) = <<>> /\ SubSeq(text, 1, 0) = <<>>
        BY EmptySeq, SubSeqEmpty, FrontAndLast
      <4> QED
        BY <4>1 DEF Delta!IsPrefix
    <3> QED
      BY <1>1, <2>2, <3>1, EmptySeq DEF EmitterOK
  <2> QED
    BY <2>1, <2>2
<1>3. Delta!Within(released, wire, index')
  BY <1>1, NothingWithin DEF Saying
<1>4. held # "none" => /\ pendingFull \in Texts /\ Delta!Last(pendingFull) = held
                       /\ Delta!Within(Delta!Front(pendingFull), wire, index')
  BY <1>1 DEF Holding
<1>5. /\ todo \in Seq(Words)
      /\ todo # <<>> => released \o todo = Delta!Front(text)
      /\ todo = <<>> => \/ released = text /\ Len(released) >= Len(text)
                        \/ /\ released = Delta!Front(text)
                           /\ ~(Len(released) >= Len(text))
  <2> HIDE DEF released
  <2> QED
    BY <1>2, Released
<1>6. text \in Seq(Words)
  BY DEF Texts
<1> HIDE DEF released, held, todo
<1>7. CASE todo = <<>>
  <2>1. EmitterOK' /\ Holding' /\ Delta!Within(emitted', wire', index') /\ Said(text)'
    BY <1>1, <1>2, <1>3, <1>4, <1>5, <1>7, TailHeld
  <2>2. CASE last
    <3>1. call' = [op |-> "completed", full |-> text, todo |-> <<>>, last |-> FALSE]
      BY <1>1, <1>7, <2>2 DEF Delta!Idle
    <3>2. call'.op = "completed" /\ call'.full = text
      BY <3>1
    <3>3. Saying'
      BY <2>1, <3>2 DEF Saying, Said
    <3> QED
      BY <1>6, <2>1, <3>1, <3>3, EmptySeq
  <2>3. CASE ~last
    <3>1. call' = [op |-> "idle", full |-> <<>>, todo |-> <<>>, last |-> FALSE]
      BY <1>1, <1>7, <2>3 DEF Delta!Idle
    <3>2. Saying'
      BY <2>1, <3>1 DEF Saying
    <3> QED
      BY <2>1, <3>1, <3>2, EmptySeq
  <2> QED
    BY <2>2, <2>3
<1>8. CASE todo # <<>>
  <2>1. /\ emitted' = released /\ d_pending' = held
        /\ call' = [op |-> "update", full |-> text, todo |-> todo, last |-> last]
        /\ UNCHANGED <<pendingFull, flush, aged, wire>>
    BY <1>1, <1>8
  <2>2. EmitterOK'
    BY <1>2, <2>1 DEF EmitterOK
  <2>3. Holding'
    BY <1>4, <2>1 DEF Holding
  <2>4. Saying'
    BY <1>2, <1>3, <1>5, <1>8, <2>1 DEF Saying
  <2> QED
    BY <1>5, <1>6, <2>1, <2>2, <2>3, <2>4
<1> QED
  BY <1>7, <1>8

\* A snapshot is a text.
LEMMA SnapshotIsText ==
  ASSUME TurnsOK, d_turn <= Len(Turns), NEW n \in 0..Len(Turns[d_turn])
  PROVE  /\ n > 0 => Delta!Transcript(n) \in Texts
         /\ Append(Delta!Transcript(n), Partial) \in Texts
<1> DEFINE before == IF Cumulative /\ items # <<>> THEN Delta!Last(items).transcript ELSE <<>>
           words == SubSeq(Turns[d_turn], 1, n)
           text == Delta!Transcript(n)
<1>1. Turns[d_turn] \in Seq(Words) /\ Len(Turns[d_turn]) \in Nat
  BY DeltaWords, FrontAndLast DEF TurnsOK, Texts
<1>2. words \in Seq(Words) /\ Len(words) = n
  <2>1. \A i \in 1..n : Turns[d_turn][i] \in Words
    BY <1>1, ElementOfSeq
  <2>2. n \in Nat /\ n - 1 + 1 = n /\ (n = 0 => n < 1)
    BY <1>1
  <2> QED
    BY <2>1, <2>2, SubSeqProperties
<1>3. before \in Seq(Words)
  <2>1. CASE items = <<>>
    BY <2>1, EmptySeq
  <2>2. CASE items # <<>>
    <3>1. Len(items) \in 1..Len(items) /\ items \in Seq(Items)
      BY <2>2, EmptySeq DEF TurnsOK
    <3>2. items[Len(items)] \in Items
      BY <3>1, ElementOfSeq
    <3>3. Delta!Last(items).transcript \in Seq(Words)
      BY <3>2 DEF Delta!Last, Items, Texts
    <3> QED
      BY <3>3, EmptySeq
  <2> QED
    BY <2>1, <2>2
<1>4. text = before \o words
  BY DEF Delta!Transcript
<1> HIDE DEF before, words, text
<1>5. text \in Seq(Words) /\ Len(text) = Len(before) + n /\ Len(before) \in Nat
  BY <1>2, <1>3, <1>4, ConcatProperties, LenProperties
<1>6. n > 0 => text # <<>>
  BY <1>1, <1>5, EmptySeq
<1>7. Append(text, Partial) \in Texts
  BY <1>5, DeltaWords, AppendProperties DEF Texts
<1> QED
  BY <1>5, <1>6, <1>7 DEF Texts, text

\* The decoder says more, or all.
LEMMA SnapshotStep ==
  ASSUME DeltaInv, Delta!Update \/ Delta!Final PROVE DeltaInv'
<1>1. /\ call.op = "idle" /\ d_turn <= Len(Turns) /\ UNCHANGED <<d_turn, items>>
  <2>1. call = Delta!Idle /\ d_turn <= Len(Turns) /\ UNCHANGED <<d_turn, items>>
    BY DEF Delta!Update, Delta!Final
  <2> QED
    BY <2>1 DEF Delta!Idle
<1>2. Len(Turns[d_turn]) \in Nat \ {0}
  <2>1. Len(Turns) \in Nat /\ d_turn \in 1..Len(Turns)
    BY <1>1, DeltaWords, LenProperties DEF DeltaInv, TurnsOK
  <2> QED
    BY <2>1, DeltaWords, FrontAndLast
<1>3. /\ heard' \in 0..Len(Turns[d_turn]) /\ snapshots' \in 0..MaxSnapshots
  <2>1. heard \in Nat /\ snapshots \in 0..MaxSnapshots /\ MaxSnapshots \in Nat
    BY DeltaWords DEF DeltaInv, TurnsOK
  <2>2. CASE Delta!Update
    BY <1>2, <2>1, <2>2 DEF Delta!Update
  <2>3. CASE Delta!Final
    BY <1>2, <2>1, <2>3 DEF Delta!Final
  <2> QED
    BY <2>2, <2>3
<1>4. \E text \in Texts, last \in BOOLEAN : Delta!Call(text, last)
  <2>1. CASE Delta!Update
    <3>1. \/ heard' > 0 /\ Delta!Call(Delta!Transcript(heard'), FALSE)
          \/ Delta!Call(Append(Delta!Transcript(heard'), Partial), FALSE)
      BY <2>1 DEF Delta!Update
    <3> QED
      BY <1>1, <1>3, <3>1, SnapshotIsText DEF DeltaInv
  <2>2. CASE Delta!Final
    <3>1. heard' > 0
      BY <1>2, <2>2 DEF Delta!Final
    <3>2. Delta!Call(Delta!Transcript(heard'), TRUE)
      BY <2>2 DEF Delta!Final
    <3> QED
      BY <1>1, <1>3, <3>1, <3>2, SnapshotIsText DEF DeltaInv
  <2> QED
    BY <2>1, <2>2
<1>5. PICK text \in Texts, last \in BOOLEAN : Delta!Call(text, last)
  BY <1>4
<1>6. /\ EmitterOK' /\ Holding' /\ Saying'
      /\ call' \in [op: {"idle", "update", "completed"}, full: Seq(Words),
                    todo: Seq(Words), last: BOOLEAN]
      /\ call'.op # "idle" => call'.full = text
  BY <1>1, <1>5, CallRuns DEF DeltaInv
<1>7. CallOK' /\ TurnsOK' /\ Delta!NothingMissing'
  <2>1. heard' \in Nat
    BY <1>3
  <2> QED
    BY <1>1, <1>3, <1>6, <2>1 DEF DeltaInv, CallOK, TurnsOK, Delta!NothingMissing
<1> QED
  BY <1>6, <1>7 DEF DeltaInv

\* A settled word goes out.
LEMMA SendStep == ASSUME DeltaInv, Delta!SendSettled PROVE DeltaInv'
<1> DEFINE word == Head(call.todo)
           rest == Tail(call.todo)
           delta == [index |-> index, word |-> word]
<1>1. /\ call.op = "update" /\ call.todo # <<>> /\ call' = [call EXCEPT !.todo = rest]
      /\ wire' = Append(wire, delta)
      /\ UNCHANGED <<emitted, d_pending, pendingFull, flush, index, aged, d_turn, heard,
                     snapshots, items>>
  BY DEF Delta!SendSettled, Delta!emitter, Delta!Emit
<1>2. /\ call.todo \in Seq(Words) /\ word \in Words /\ rest \in Seq(Words)
      /\ wire \in Seq(Deltas) /\ index \in Nat /\ call.full \in Texts
  BY <1>1, HeadTailProperties DEF DeltaInv, CallOK, EmitterOK
<1>3. delta \in Deltas
  BY <1>2 DEF Deltas
<1>4. PICK sofar \in Seq(Words) : /\ sofar \o call.todo = Delta!Front(call.full)
                                 /\ Delta!Within(sofar, wire, index)
  BY <1>1 DEF DeltaInv, Saying
<1>5. Append(sofar, word) \in Seq(Words) /\ Delta!Within(Append(sofar, word), wire', index)
  BY <1>1, <1>2, <1>4, AppendProperties, WithinNext
<1>6. Append(sofar, word) \o rest = sofar \o call.todo
  <2> DEFINE a == Append(sofar, word) \o rest
             b == sofar \o call.todo
  <2>1. /\ Len(sofar) \in Nat /\ Len(call.todo) \in Nat \ {0} /\ word = call.todo[1]
        /\ Len(rest) = Len(call.todo) - 1
        /\ \A i \in 1..Len(rest) : rest[i] = call.todo[i + 1]
    BY <1>1, <1>2, HeadTailProperties, EmptySeq, LenProperties
  <2>2. /\ Len(Append(sofar, word)) = Len(sofar) + 1
        /\ \A i \in 1..Len(sofar) : Append(sofar, word)[i] = sofar[i]
        /\ Append(sofar, word)[Len(sofar) + 1] = word
    BY <1>2, AppendProperties
  <2> HIDE DEF word, rest
  <2>3. /\ a \in Seq(Words) /\ Len(a) = Len(sofar) + Len(call.todo)
        /\ \A i \in 1..(Len(sofar) + Len(call.todo)) :
             a[i] = IF i <= Len(sofar) + 1 THEN Append(sofar, word)[i]
                    ELSE rest[i - (Len(sofar) + 1)]
    <3>1. (Len(sofar) + 1) + Len(rest) = Len(sofar) + Len(call.todo)
      <4> DEFINE x == Len(sofar)
                 y == Len(call.todo)
                 z == Len(rest)
      <4>1. x \in Nat /\ y \in Nat /\ z = y - 1
        BY <2>1
      <4> HIDE DEF x, y, z
      <4>2. (x + 1) + z = x + y
        BY <4>1
      <4> QED
        BY <4>2 DEF x, y, z
    <3>2. /\ a \in Seq(Words) /\ Len(a) = Len(Append(sofar, word)) + Len(rest)
          /\ \A i \in 1..(Len(Append(sofar, word)) + Len(rest)) :
               a[i] = IF i <= Len(Append(sofar, word)) THEN Append(sofar, word)[i]
                      ELSE rest[i - Len(Append(sofar, word))]
      BY <1>2, <1>5, ConcatProperties
    <3> HIDE DEF a
    <3> QED
      BY <2>2, <3>1, <3>2
  <2>4. /\ b \in Seq(Words) /\ Len(b) = Len(sofar) + Len(call.todo)
        /\ \A i \in 1..(Len(sofar) + Len(call.todo)) :
             b[i] = IF i <= Len(sofar) THEN sofar[i] ELSE call.todo[i - Len(sofar)]
    BY <1>2, ConcatProperties
  <2> HIDE DEF a, b
  <2>5. ASSUME NEW i \in 1..Len(a) PROVE a[i] = b[i]
    <3>1. CASE i <= Len(sofar)
      <4>1. i \in 1..Len(sofar) /\ i <= Len(sofar) + 1
        BY <2>1, <3>1
      <4> QED
        BY <2>2, <2>3, <2>4, <3>1, <4>1
    <3>2. CASE i = Len(sofar) + 1
      <4>1. i - Len(sofar) = 1 /\ ~(i <= Len(sofar)) /\ i <= Len(sofar) + 1
        BY <2>1, <3>2
      <4> QED
        BY <2>1, <2>2, <2>3, <2>4, <3>2, <4>1
    <3>3. CASE i > Len(sofar) + 1
      <4>1. /\ i - (Len(sofar) + 1) \in 1..Len(rest)
            /\ (i - (Len(sofar) + 1)) + 1 = i - Len(sofar)
            /\ ~(i <= Len(sofar)) /\ ~(i <= Len(sofar) + 1)
        BY <2>1, <2>3, <3>3
      <4> QED
        BY <2>1, <2>3, <2>4, <4>1
    <3> QED
      BY <2>1, <2>3, <3>1, <3>2, <3>3
  <2> QED
    BY <2>3, <2>4, <2>5, SeqEqual DEF a, b
<1> HIDE DEF word, rest, delta
<1>7. EmitterOK'
  BY <1>1, <1>2, <1>3, AppendProperties DEF DeltaInv, EmitterOK
<1>8. CallOK' /\ TurnsOK'
  BY <1>1, <1>2 DEF DeltaInv, CallOK, TurnsOK
<1>9. Holding'
  BY <1>1, <1>2, <1>3, WithinMore DEF DeltaInv, Holding
<1>10. Saying'
  <2>1. call'.op = "update" /\ call'.todo = rest /\ call'.full = call.full
    BY <1>1 DEF DeltaInv, CallOK
  <2> QED
    BY <1>1, <1>4, <1>5, <1>6, <2>1 DEF Saying
<1>11. Delta!NothingMissing'
  BY <1>1 DEF DeltaInv, Delta!NothingMissing
<1> QED
  BY <1>7, <1>8, <1>9, <1>10, <1>11 DEF DeltaInv

\* The settled words are out.
LEMMA SettledStep == ASSUME DeltaInv, Delta!Settled PROVE DeltaInv'
<1>1. /\ call.op = "update" /\ call.todo = <<>> /\ index' = index
      /\ Delta!HoldTail(call.full, Delta!Front(call.full), d_pending)
      /\ call' = IF call.last THEN [call EXCEPT !.op = "completed"] ELSE Delta!Idle
      /\ UNCHANGED <<d_turn, heard, snapshots, items>>
  BY DEF Delta!Settled
<1>2. call.full \in Texts /\ index \in Nat /\ d_pending \in Words \cup {"none"}
  BY <1>1 DEF DeltaInv, CallOK, EmitterOK
<1>3. /\ Delta!Front(call.full) \in Seq(Words)
      /\ ~(Len(Delta!Front(call.full)) >= Len(call.full))
  BY <1>2, FrontAndLast
<1>4. Delta!Within(Delta!Front(call.full), wire, index)
  <2>1. PICK sofar \in Seq(Words) : /\ sofar \o call.todo = Delta!Front(call.full)
                                   /\ Delta!Within(sofar, wire, index)
    BY <1>1 DEF DeltaInv, Saying
  <2>2. sofar \o <<>> = sofar
    BY ConcatEmptySeq
  <2> QED
    BY <1>1, <2>1, <2>2
<1> DEFINE text == call.full
<1>5. EmitterOK' /\ Holding' /\ Delta!Within(emitted', wire', index')
      /\ (\/ d_pending' = "none" /\ Delta!Within(text, wire', index')
          \/ /\ d_pending' = Delta!Last(text)
             /\ Delta!Within(Delta!Front(text), wire', index'))
  <2>1. PICK t \in Texts : t = text
    BY <1>2
  <2>2. EmitterOK' /\ Holding' /\ Delta!Within(emitted', wire', index') /\ Said(t)'
    <3> DEFINE r == Delta!Front(t)
    <3>1. r \in Seq(Words) /\ r = Delta!Front(t) /\ ~(Len(r) >= Len(t))
          /\ Delta!Within(r, wire, index') /\ Delta!HoldTail(t, r, d_pending)
          /\ index' \in Nat /\ EmitterOK
      BY <1>1, <1>2, <1>3, <1>4, <2>1 DEF DeltaInv
    <3>2. d_pending # "none" => /\ pendingFull \in Texts
                                /\ Delta!Last(pendingFull) = d_pending
                                /\ Delta!Within(Delta!Front(pendingFull), wire, index')
      BY <1>1 DEF DeltaInv, Holding
    <3> HIDE DEF r
    <3> QED
      BY <1>2, <3>1, <3>2, TailHeld
  <2> QED
    BY <2>1, <2>2 DEF Said
<1>6. TurnsOK' /\ Delta!NothingMissing'
  BY <1>1 DEF DeltaInv, TurnsOK, Delta!NothingMissing
<1>7. CASE call.last
  <2>1. /\ call'.op = "completed" /\ call'.full = text /\ CallOK'
    BY <1>1, <1>2, <1>7 DEF DeltaInv, CallOK
  <2>2. Saying'
    BY <1>5, <2>1 DEF Saying, Said
  <2> QED
    BY <1>5, <1>6, <2>1, <2>2 DEF DeltaInv
<1>8. CASE ~call.last
  <2>1. call' = [op |-> "idle", full |-> <<>>, todo |-> <<>>, last |-> FALSE]
    BY <1>1, <1>8 DEF Delta!Idle
  <2>2. CallOK' /\ Saying'
    BY <1>5, <2>1, EmptySeq DEF CallOK, Saying
  <2> QED
    BY <1>5, <1>6, <2>2 DEF DeltaInv
<1> QED
  BY <1>7, <1>8

\* The debounce runs out.
LEMMA DebounceStep == ASSUME DeltaInv, Delta!Debounce PROVE DeltaInv'
<1>1. aged' = TRUE /\ UNCHANGED <<d_turn, heard, snapshots, call, emitted, d_pending,
                                  pendingFull, flush, index, wire, items>>
  BY DEF Delta!Debounce, Delta!emitter
<1> QED
  BY <1>1 DEF DeltaInv, EmitterOK, CallOK, TurnsOK, Holding, Saying, Said,
     Delta!NothingMissing

\* The word held goes out by itself, between two sends of a call or outside one.
LEMMA FlushStep == ASSUME DeltaInv, Delta!FlushLater PROVE DeltaInv'
<1>1. /\ call.op # "completed" /\ flush' = FALSE
      /\ UNCHANGED <<index, d_turn, heard, snapshots, call, pendingFull, aged, items>>
  BY DEF Delta!FlushLater
<1>2. CASE d_pending = "none"
  <2>1. UNCHANGED <<emitted, d_pending, wire>>
    BY <1>2 DEF Delta!FlushLater, Delta!None, Delta!Silent
  <2> QED
    BY <1>1, <2>1 DEF DeltaInv, EmitterOK, CallOK, TurnsOK, Holding, Saying, Said,
       Delta!NothingMissing
<1>3. CASE d_pending # "none"
  <2> DEFINE delta == [index |-> index, word |-> d_pending]
  <2>1. /\ d_pending' = "none" /\ emitted' = pendingFull /\ wire' = Append(wire, delta)
    BY <1>1, <1>3 DEF Delta!FlushLater, Delta!None, Delta!Emit
  <2>2. /\ d_pending \in Words /\ index \in Nat /\ wire \in Seq(Deltas)
        /\ pendingFull \in Texts /\ Delta!Last(pendingFull) = d_pending
        /\ Delta!Within(Delta!Front(pendingFull), wire, index)
    BY <1>3 DEF DeltaInv, EmitterOK, Holding
  <2>3. delta \in Deltas
    BY <2>2 DEF Deltas
  <2>4. Delta!Front(pendingFull) \in Seq(Words)
        /\ Append(Delta!Front(pendingFull), d_pending) = pendingFull
    BY <2>2, FrontAndLast
  <2>5. Delta!Within(pendingFull, wire', index)
    BY <2>1, <2>2, <2>4, WithinNext
  <2> HIDE DEF delta
  <2>6. EmitterOK' /\ Holding'
    BY <1>1, <2>1, <2>2, <2>3, AppendProperties DEF DeltaInv, EmitterOK, Holding
  <2>7. Saying'
    BY <1>1, <2>1, <2>2, <2>3, <2>5, WithinMore DEF DeltaInv, Saying
  <2>8. CallOK' /\ TurnsOK' /\ Delta!NothingMissing'
    BY <1>1 DEF DeltaInv, CallOK, TurnsOK, Delta!NothingMissing
  <2> QED
    BY <2>6, <2>7, <2>8 DEF DeltaInv
<1> QED
  BY <1>2, <1>3

\* The turn ends, and the word held goes out with it.
LEMMA CompletedStep == ASSUME DeltaInv, Delta!Completed PROVE DeltaInv'
<1> DEFINE text == call.full
           delta == [index |-> index, word |-> d_pending]
           flushed == IF d_pending = "none" THEN wire ELSE Append(wire, delta)
           item == [deltas |-> flushed, index |-> index, transcript |-> text]
<1>1. /\ call.op = "completed" /\ items' = Append(items, item)
      /\ emitted' = <<>> /\ d_pending' = "none" /\ pendingFull' = <<>> /\ flush' = FALSE
      /\ aged' = FALSE /\ index' = 0 /\ wire' = <<>>
      /\ d_turn' = d_turn + 1 /\ heard' = 0 /\ snapshots' = 0
      /\ call' = [op |-> "idle", full |-> <<>>, todo |-> <<>>, last |-> FALSE]
  BY DEF Delta!Completed, Delta!None, Delta!Idle
<1>2. /\ text \in Texts /\ d_turn <= Len(Turns) /\ index \in Nat /\ wire \in Seq(Deltas)
      /\ d_pending \in Words \cup {"none"} /\ Len(Turns) \in Nat
  BY <1>1, DeltaWords, LenProperties DEF DeltaInv, CallOK, EmitterOK
<1>3. flushed \in Seq(Deltas) /\ Delta!Within(text, flushed, index)
  <2>1. CASE d_pending = "none"
    <3>1. Delta!Last(text) # "none"
      BY <1>2, FrontAndLast DEF Words
    <3> QED
      BY <1>1, <1>2, <2>1, <3>1 DEF DeltaInv, Saying, Said
  <2>2. CASE d_pending # "none"
    <3>1. d_pending = Delta!Last(text) /\ Delta!Within(Delta!Front(text), wire, index)
      BY <1>1, <2>2 DEF DeltaInv, Saying, Said
    <3>2. delta \in Deltas /\ d_pending \in Words
      BY <1>2, <2>2 DEF Deltas
    <3>3. Delta!Front(text) \in Seq(Words) /\ Append(Delta!Front(text), d_pending) = text
      BY <1>2, <3>1, FrontAndLast
    <3>4. Delta!Within(text, Append(wire, delta), index)
      BY <1>2, <3>1, <3>2, <3>3, WithinNext
    <3> HIDE DEF delta
    <3> QED
      BY <1>2, <2>2, <3>2, <3>4, AppendProperties
  <2> QED
    BY <2>1, <2>2
<1> HIDE DEF flushed, text
<1>4. item \in Items /\ items \in Seq(Items)
  BY <1>2, <1>3 DEF DeltaInv, TurnsOK, Items
<1>5. item.deltas = flushed /\ item.index = index /\ item.transcript = text
  OBVIOUS
<1> HIDE DEF item
<1>6. /\ items' \in Seq(Items) /\ Len(items') = Len(items) + 1 /\ Len(items) \in Nat
      /\ \A k \in 1..Len(items) : items'[k] = items[k]
      /\ items'[Len(items) + 1] = item
      /\ DOMAIN items = 1..Len(items) /\ DOMAIN items' = 1..(Len(items) + 1)
  BY <1>1, <1>4, AppendProperties, LenProperties
<1>7. Delta!NothingMissing'
  <2> SUFFICES ASSUME NEW k \in DOMAIN items'
               PROVE  Delta!Within(items'[k].transcript, items'[k].deltas, items'[k].index)
    BY DEF Delta!NothingMissing
  <2>1. CASE k = Len(items) + 1
    BY <1>3, <1>5, <1>6, <2>1
  <2>2. CASE k \in 1..Len(items)
    BY <1>6, <2>2 DEF DeltaInv, Delta!NothingMissing
  <2> QED
    BY <1>6, <2>1, <2>2
<1>8. EmitterOK' /\ Holding'
  BY <1>1, EmptySeq DEF EmitterOK, Holding
<1>9. CallOK' /\ TurnsOK'
  BY <1>1, <1>2, <1>6, DeltaWords, EmptySeq DEF DeltaInv, CallOK, TurnsOK
<1>10. Saying'
  BY <1>1, NothingWithin DEF Saying
<1> QED
  BY <1>7, <1>8, <1>9, <1>10 DEF DeltaInv

\* The part begins with the invariant.
LEMMA DeltaInit == Delta!Init => DeltaInv
<1> SUFFICES ASSUME Delta!Init PROVE DeltaInv
  OBVIOUS
<1>1. /\ call = [op |-> "idle", full |-> <<>>, todo |-> <<>>, last |-> FALSE]
      /\ items = <<>> /\ DOMAIN items = {} /\ d_pending = "none" /\ emitted = <<>>
  BY DEF Delta!Init, Delta!Idle, Delta!None
<1>2. Delta!NothingMissing
  BY <1>1 DEF Delta!NothingMissing
<1>3. Saying
  BY <1>1, NothingWithin DEF Saying
<1>4. Len(Turns) \in Nat /\ MaxSnapshots \in Nat
  BY DeltaWords, LenProperties
<1>5. EmitterOK /\ CallOK /\ TurnsOK /\ Holding
  <2>1. EmitterOK /\ Holding
    BY <1>1, EmptySeq DEF Delta!Init, EmitterOK, Holding
  <2>2. CallOK
    BY <1>1, EmptySeq DEF CallOK
  <2>3. d_turn = 1 /\ heard = 0 /\ snapshots = 0
    BY DEF Delta!Init
  <2>4. TurnsOK
    BY <1>1, <1>4, <2>3, EmptySeq DEF TurnsOK
  <2> QED
    BY <2>1, <2>2, <2>4
<1> QED
  BY <1>2, <1>3, <1>5 DEF DeltaInv

\* Every step of it keeps it.
LEMMA DeltaStep == DeltaInv /\ Delta!Next => DeltaInv'
  BY SnapshotStep, SendStep, SettledStep, DebounceStep, FlushStep, CompletedStep
     DEF Delta!Next

DeltaPart == part = "delta" => DeltaInv

\* In every state of the server the part has its invariant.
LEMMA DeltaInvariance == Spec => []DeltaPart
<1>1. Init => DeltaPart
  BY DeltaInit DEF Init, DeltaPart
<1>2. DeltaPart /\ [Next]_vars => DeltaPart'
  <2> SUFFICES ASSUME DeltaPart, [Next]_vars, part' = "delta" PROVE DeltaInv'
    BY DEF DeltaPart
  <2>1. part = "delta" /\ DeltaInv
    BY DEF Next, vars, DeltaPart
  <2>2. CASE UNCHANGED deltaVars
    BY <2>1, <2>2
       DEF deltaVars, DeltaInv, EmitterOK, CallOK, TurnsOK, Holding, Saying, Said,
           Delta!NothingMissing
  <2>3. CASE Next /\ ~UNCHANGED deltaVars
    BY <2>1, <2>3, DeltaStep DEF Next
  <2> QED
    BY <2>2, <2>3 DEF vars
<1> QED
  BY <1>1, <1>2, PTL DEF Spec

\* A client that reads only deltas misses no word of any transcript, however the
\* debounce falls between the sends, revisions included: for any turns and snapshots.
THEOREM DeltasHoldTranscript == Spec => []NothingMissing
<1>1. DeltaPart => NothingMissing
  BY DEF DeltaPart, DeltaInv, NothingMissing
<1> QED
  BY <1>1, DeltaInvariance, PTL

---------------------------------------------------------------------------
(* The four parts together.                                                *)

LEMMA RealtimeTypes == RealtimeInv => Realtime!TypeOK
  BY DEF RealtimeInv, SocketsOK, AudioOK, InferencesOK, WorkerOK, Realtime!TypeOK

LEMMA TtsTypes == TtsInv => Tts!TypeOK
<1> SUFFICES ASSUME TtsInv PROVE Tts!TypeOK
  OBVIOUS
<1>1. Tts!ToSet(finals) \cap running = {}
  BY LenProperties DEF TtsInv, FramesOK, Tts!ToSet
<1> QED
  BY <1>1 DEF TtsInv, CallersOK, LoopOK, FramesOK, Tts!TypeOK

LEMMA DeltaTypes == DeltaInv => Delta!TypeOK
<1> SUFFICES ASSUME DeltaInv PROVE Delta!TypeOK
  OBVIOUS
<1>1. d_pending # "none" => pendingFull # <<>>
  BY DEF DeltaInv, Holding, Texts
<1>2. call.op \in {"idle", "update", "completed"}
  BY DEF DeltaInv, CallOK
<1> QED
  BY <1>1, <1>2 DEF DeltaInv, EmitterOK, TurnsOK, Delta!TypeOK, Delta!None

LEMMA SttTypes == SttInv => Stt!TypeOK
<1> SUFFICES ASSUME SttInv PROVE Stt!TypeOK
  OBVIOUS
<1>1. \A i \in 1..s_seq : sess[i].owner \in SttClients /\ sess[i].said <= Len(sess[i].heard)
  BY SttNumbers DEF SttInv, Holds, Sound
<1>2. \A n \in DOMAIN due : due[n].sid \in 1..MaxSid
  BY DueIs, LenProperties DEF SttInv, TickOK
<1>3. /\ turns \in [SttClients -> SUBSET (1..MaxSid)]
      /\ cur \in [SttClients -> {0} \cup (1..MaxSid)]
  <2>1. 1..s_seq \subseteq 1..MaxSid /\ 0..s_seq \subseteq {0} \cup (1..MaxSid)
    BY SttNumbers
  <2>2. turns \in [SttClients -> SUBSET (1..s_seq)] /\ cur \in [SttClients -> 0..s_seq]
    BY DEF SttInv, HandlersOK
  <2> QED
    BY <2>1, <2>2
<1> QED
  BY <1>1, <1>2, <1>3, SttConstants
     DEF SttInv, EngineOK, HandlersOK, TickOK, Stt!TypeOK

\* One of the parts runs.
OnePart == part \in {"stt", "delta", "realtime", "tts"}

\* Type correctness of whichever part runs: of the engine's sessions and their handlers,
\* of the emitter, of the sockets and their worker, and of the synthesis and its callers.
THEOREM TypeCorrect == Spec => []TypeOK
<1>1. Init => OnePart
  BY DEF Init, OnePart
<1>2. OnePart /\ [Next]_vars => OnePart'
  BY DEF Next, vars, OnePart
<1>3. OnePart /\ SttPart /\ DeltaPart /\ RealtimePart /\ TtsPart => TypeOK
  BY SttTypes, DeltaTypes, RealtimeTypes, TtsTypes
     DEF OnePart, SttPart, DeltaPart, RealtimePart, TtsPart, TypeOK
<1> QED
  BY <1>1, <1>2, <1>3, SttInvariance, DeltaInvariance, RealtimeInvariance, TtsInvariance,
     PTL DEF Spec
==============================================================================
