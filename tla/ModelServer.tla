----------------------------- MODULE ModelServer -----------------------------
(***************************************************************************)
(* The parts of the model server side by side.  They run in different      *)
(* containers and share no state, so a behaviour here is one of one part:  *)
(* `part` is chosen in the initial state.                                  *)
(***************************************************************************)
EXTENDS Naturals, Sequences, FiniteSets

CONSTANTS
  \* of SttStream
  Streams, Files, Endpointing, MaxSessions, MaxBatch, SoftRoll, HardRoll, MaxBurst,
  MaxSid,
  \* of DeltaEmitter
  Turns, Partial, Cumulative, MaxSnapshots,
  \* of RealtimeStt, whose MaxSessions is MaxRealtime here
  Sockets, MaxRealtime, MinUnits, QueueSize, BatchSize, MaxInterims, MaxSegments,
  \* of ParlerTts
  NRequests, Slots, DecodeEvery, MaxLive, MaxFinals, Holdback, MaxFrames,
  \* of several
  MaxUnits, MaxFailures

\* There is a client, and the engine's configuration is in whole numbers.
ASSUME SttAssumption ==
  /\ Streams \union Files # {}
  /\ {MaxSessions, MaxBatch, SoftRoll, HardRoll, MaxBurst, MaxSid, MaxUnits} \subseteq Nat

\* Every turn has words, and none of them is what stands for no word.
ASSUME DeltaAssumption ==
  /\ Turns \in Seq(Seq(STRING) \ {<<>>})
  /\ \A k \in DOMAIN Turns : \A i \in DOMAIN Turns[k] : Turns[k][i] # "none"
  /\ Partial \in STRING \ {"none"} /\ Cumulative \in BOOLEAN /\ MaxSnapshots \in Nat

\* Finitely many sockets, limits in whole numbers.
ASSUME RealtimeAssumption ==
  /\ IsFiniteSet(Sockets) /\ Sockets # {}
  /\ {MaxRealtime, MinUnits, QueueSize, BatchSize, MaxInterims, MaxSegments,
      MaxFailures} \subseteq Nat

\* A response has room for a frame, and a decode comes round after some steps.
ASSUME TtsAssumption ==
  /\ {NRequests, Slots, MaxLive, MaxFinals, Holdback} \subseteq Nat
  /\ {DecodeEvery, MaxFrames} \subseteq Nat \ {0}

VARIABLES
  part,
  \* SttStream
  s_seq, sess, live, up, s_phase, s_turn, turns, cur, s_sent, outbox, committed,
  step, due, out, hurt, s_failures,
  \* DeltaEmitter
  d_turn, heard, snapshots, call, emitted, d_pending, pendingFull, aged, flush, index,
  wire, items,
  \* RealtimeStt
  phase, ready, audio, sent, seg, inFlight, lock, interim, final, snap, owed, queue,
  batch, replies, requests, interims, r_failures,
  \* ParlerTts
  client, got, outQ, prefillQ, cancelQ, pc, pending, running, selfSlot, crossSlot,
  frames, yielded, finals, steps, rr, failures

sttVars == <<s_seq, sess, live, up, s_phase, s_turn, turns, cur, s_sent, outbox,
             committed, step, due, out, hurt, s_failures>>
deltaVars == <<d_turn, heard, snapshots, call, emitted, d_pending, pendingFull, aged,
               flush, index, wire, items>>
realtimeVars == <<phase, ready, audio, sent, seg, inFlight, lock, interim, final, snap,
                  owed, queue, batch, replies, requests, interims, r_failures>>
ttsVars == <<client, got, outQ, prefillQ, cancelQ, pc, pending, running, selfSlot,
             crossSlot, frames, yielded, finals, steps, rr, failures>>
vars == <<part, sttVars, deltaVars, realtimeVars, ttsVars>>

Stt == INSTANCE SttStream WITH
  seq <- s_seq, phase <- s_phase, turn <- s_turn, sent <- s_sent, failures <- s_failures

Delta == INSTANCE DeltaEmitter WITH turn <- d_turn, pending <- d_pending

Realtime == INSTANCE RealtimeStt WITH MaxSessions <- MaxRealtime, failures <- r_failures

Tts == INSTANCE ParlerTts

Init ==
  /\ part \in {"stt", "delta", "realtime", "tts"}
  /\ Stt!Init /\ Delta!Init /\ Realtime!Init /\ Tts!Init

Next ==
  /\ UNCHANGED part
  /\ \/ /\ part = "stt" /\ Stt!Next
        /\ UNCHANGED <<deltaVars, realtimeVars, ttsVars>>
     \/ /\ part = "delta" /\ Delta!Next
        /\ UNCHANGED <<sttVars, realtimeVars, ttsVars>>
     \/ /\ part = "realtime" /\ Realtime!Next
        /\ UNCHANGED <<sttVars, deltaVars, ttsVars>>
     \/ /\ part = "tts" /\ Tts!Next
        /\ UNCHANGED <<sttVars, deltaVars, realtimeVars>>

Spec == Init /\ [][Next]_vars

\* A part that is not the one running has nothing its fairness would ask for.
FairSpec ==
  Spec /\ Stt!Fairness /\ Delta!Fairness /\ Realtime!Fairness /\ Tts!Fairness

---------------------------------------------------------------------------
\* Type correctness of every part.
TypeOK ==
  CASE part = "stt" -> Stt!TypeOK
    [] part = "delta" -> Delta!TypeOK
    [] part = "realtime" -> Realtime!TypeOK
    [] part = "tts" -> Tts!TypeOK

\* The engine's sessions belong to handlers that will close them.
SessionsAreOwned == part = "stt" => Stt!SessionsAreOwned

\* A committed turn says every unit of speech it was fed.
FinalSaysAll == part = "stt" => Stt!FinalSaysAll

\* The deltas of an item hold its transcript.
NothingMissing == part = "delta" => Delta!NothingMissing

\* No text of a segment reaches the item of the next.
SegmentsApart == part = "realtime" => Realtime!SegmentsApart

\* A commit transcribes everything that was appended.
CommitHearsAll == Realtime!CommitHearsAll

\* Both caches hold the running requests in the same slots.
SlotsAgree == part = "tts" => Tts!SlotsAgree

\* A caller's speech has neither gap nor repetition.
AudioInOrder == part = "tts" => Tts!AudioInOrder

\* Whatever was asked of a part comes to its end: a turn, a held word, a
\* commit, a response.
EveryRequestEnds ==
  /\ Stt!EveryTurnEnds /\ Delta!HeldWordGoesOut
  /\ Realtime!CommitCompletes /\ Tts!EveryResponseEnds
=============================================================================
