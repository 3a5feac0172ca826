---------------------------- MODULE DeltaEmitter ----------------------------
(***************************************************************************)
(* How successive snapshots of a transcript become the append-only deltas  *)
(* of the realtime protocol (realtime_protocol.py, the same file in every  *)
(* speech-to-text model of the slot).                                      *)
(*                                                                         *)
(* A word is sent once a later word exists, once it has been the trailing  *)
(* word unchanged for the debounce, or when the turn ends.  update() and   *)
(* completed() run one after the other in the stream's task; the debounce  *)
(* is a task of its own.  Every send may give way, so the two interleave   *)
(* at each word; a frame is written before its send gives way.             *)
(***************************************************************************)
EXTENDS Naturals, Sequences, SequencesExt

CONSTANTS
  Turns,        \* for each turn, the words the decoder ends up with
  Partial,      \* what the decoder may say for a word it has half heard
  Cumulative,   \* does the stream hand over the text of its earlier turns too?
  MaxSnapshots  \* bound: snapshots in a turn

None == "none"

VARIABLES
  turn,         \* which turn is being spoken
  heard,        \* words of the turn the decoder has reached
  snapshots,    \* history: snapshots given in this turn
  call,         \* the update or completed that is running, and what it has yet to do
  emitted,      \* emitted_text
  pending,      \* pending_word
  pendingFull,  \* _pending_full
  aged,         \* the debounce has run out since pending_since
  flush,        \* _flush_task: is it asleep?
  index,        \* content_index
  wire,         \* the deltas of the item, as the client got them
  items         \* history: for each turn completed, its deltas and its transcript

emitter == <<emitted, pending, pendingFull, flush, index>>
vars == <<turn, heard, snapshots, call, emitter, aged, wire, items>>

Idle == [op |-> "idle", full |-> <<>>, todo |-> <<>>, last |-> FALSE]

Init ==
  /\ turn = 1 /\ heard = 0 /\ snapshots = 0 /\ call = Idle
  /\ emitted = <<>> /\ pending = None /\ pendingFull = <<>> /\ aged = FALSE
  /\ flush = FALSE /\ index = 0 /\ wire = <<>> /\ items = <<>>

\* What a snapshot says: the words of the turn so far, after those of the
\* turns before it where the stream hands over its cumulative transcript.
Transcript(n) ==
  (IF Cumulative /\ items # <<>> THEN Last(items).transcript ELSE <<>>)
    \o SubSeq(Turns[turn], 1, n)

Drop(s, n) == SubSeq(s, n + 1, Len(s))

Emit(word) == wire' = Append(wire, [index |-> index', word |-> word])

Silent == UNCHANGED wire

---------------------------------------------------------------------------
(* update(): withdraw on a revision, send the words that have a successor, *)
(* and hold the trailing one.                                              *)

\* A slip: nothing is scheduled for the word held.
HoldTail_NoFlush(full, released, held) ==
  LET tail == Last(full) IN
  IF Len(released) >= Len(full)
  THEN /\ emitted' = released /\ pending' = None /\ flush' = FALSE
       /\ UNCHANGED <<pendingFull, aged>> /\ Silent
  ELSE IF tail # held
  THEN /\ emitted' = released /\ pending' = tail /\ pendingFull' = full
       /\ aged' = FALSE /\ Silent /\ UNCHANGED flush
  ELSE IF aged
  THEN /\ emitted' = full /\ pending' = None /\ flush' = FALSE
       /\ UNCHANGED <<pendingFull, aged>> /\ Emit(tail)
  ELSE /\ emitted' = released /\ pending' = held
       /\ UNCHANGED <<pendingFull, flush, aged>> /\ Silent

\* The end of update(): `released` is what has gone out, `held` the word held.
HoldTail(full, released, held) ==
  LET tail == Last(full) IN
  IF Len(released) >= Len(full)
  THEN /\ emitted' = released /\ pending' = None /\ flush' = FALSE
       /\ UNCHANGED <<pendingFull, aged>> /\ Silent
  ELSE IF tail # held
  THEN /\ emitted' = released /\ pending' = tail /\ pendingFull' = full
       /\ aged' = FALSE /\ flush' = TRUE /\ Silent
  ELSE IF aged
  THEN /\ emitted' = full /\ pending' = None /\ flush' = FALSE
       /\ UNCHANGED <<pendingFull, aged>> /\ Emit(tail)
  ELSE /\ emitted' = released /\ pending' = held
       /\ UNCHANGED <<pendingFull, flush, aged>> /\ Silent

\* The call runs to its first send, or to its end when it has none to make.
Call(full, last) ==
  LET extends == IsPrefix(emitted, full)
      released == IF extends THEN emitted ELSE <<>>
      held == IF extends THEN pending ELSE None
      todo == Drop(Front(full), Len(released))
  IN
  /\ index' = IF extends THEN index ELSE index + 1
  /\ IF todo = <<>>
     THEN /\ HoldTail(full, released, held)
          /\ call' = IF last THEN [Idle EXCEPT !.op = "completed", !.full = full] ELSE Idle
     ELSE /\ emitted' = released /\ pending' = held
          /\ call' = [op |-> "update", full |-> full, todo |-> todo, last |-> last]
          /\ UNCHANGED <<pendingFull, flush, aged>> /\ Silent

\* The decoder has moved on; the word after may be half heard already.
Update ==
  /\ call = Idle /\ turn <= Len(Turns) /\ snapshots < MaxSnapshots
  /\ heard' \in heard..Len(Turns[turn])
  /\ \/ heard' > 0 /\ Call(Transcript(heard'), FALSE)
     \/ heard' < Len(Turns[turn]) /\ Call(Append(Transcript(heard'), Partial), FALSE)
  /\ snapshots' = snapshots + 1
  /\ UNCHANGED <<turn, items>>

\* The turn ends: its transcript is the last snapshot.
Final ==
  /\ call = Idle /\ turn <= Len(Turns)
  /\ heard' = Len(Turns[turn]) /\ Call(Transcript(heard'), TRUE)
  /\ UNCHANGED <<turn, snapshots, items>>

SendSettled ==
  /\ call.op = "update" /\ call.todo # <<>>
  /\ call' = [call EXCEPT !.todo = Tail(@)]
  /\ UNCHANGED <<emitter, aged>> /\ Emit(Head(call.todo))
  /\ UNCHANGED <<turn, heard, snapshots, items>>

\* A slip: the held word is recorded as sent with the settled ones.
Settled_All ==
  /\ call.op = "update" /\ call.todo = <<>>
  /\ UNCHANGED index /\ HoldTail(call.full, call.full, pending)
  /\ call' = IF call.last THEN [call EXCEPT !.op = "completed"] ELSE Idle
  /\ UNCHANGED <<turn, heard, snapshots, items>>

\* After the last of them: whatever the debounce did meanwhile, what is
\* recorded is the words the snapshot had settled.
Settled ==
  /\ call.op = "update" /\ call.todo = <<>>
  /\ UNCHANGED index /\ HoldTail(call.full, Front(call.full), pending)
  /\ call' = IF call.last THEN [call EXCEPT !.op = "completed"] ELSE Idle
  /\ UNCHANGED <<turn, heard, snapshots, items>>

---------------------------------------------------------------------------
(* The debounce, and the end of a turn.                                    *)

Debounce ==
  /\ pending # None /\ ~aged /\ call.op # "completed"
  /\ aged' = TRUE
  /\ UNCHANGED <<turn, heard, snapshots, call, emitter, wire, items>>

\* _flush_later(): the held word goes out by itself.
FlushLater ==
  /\ flush /\ aged /\ call.op # "completed"
  /\ flush' = FALSE
  /\ UNCHANGED index
  /\ IF pending = None THEN UNCHANGED <<emitted, pending>> /\ Silent
     ELSE pending' = None /\ emitted' = pendingFull /\ Emit(pending)
  /\ UNCHANGED <<turn, heard, snapshots, call, pendingFull, aged, items>>

\* A slip: the turn ends without the word that is still held.
Completed_Held ==
  /\ call.op = "completed"
  /\ items' = Append(items, [deltas |-> wire, index |-> index, transcript |-> call.full])
  /\ emitted' = <<>> /\ pending' = None /\ pendingFull' = <<>> /\ flush' = FALSE
  /\ aged' = FALSE /\ index' = 0 /\ wire' = <<>>
  /\ turn' = turn + 1 /\ heard' = 0 /\ snapshots' = 0 /\ call' = Idle

\* completed() follows its update() without giving way; reset() follows it.
Completed ==
  /\ call.op = "completed"
  /\ LET flushed == IF pending = None THEN wire
                    ELSE Append(wire, [index |-> index, word |-> pending])
     IN items' = Append(items, [deltas |-> flushed, index |-> index, transcript |-> call.full])
  /\ emitted' = <<>> /\ pending' = None /\ pendingFull' = <<>> /\ flush' = FALSE
  /\ aged' = FALSE /\ index' = 0 /\ wire' = <<>>
  /\ turn' = turn + 1 /\ heard' = 0 /\ snapshots' = 0 /\ call' = Idle

---------------------------------------------------------------------------
Next == Update \/ Final \/ SendSettled \/ Settled \/ Debounce \/ FlushLater \/ Completed

\* Time passes, the debounce's task is woken, and a send in progress returns.
Fairness == WF_vars(Debounce) /\ WF_vars(FlushLater) /\ WF_vars(SendSettled \/ Settled \/ Completed)

Spec == Init /\ [][Next]_vars /\ Fairness

---------------------------------------------------------------------------
(* Properties.                                                             *)

\* The words are among the deltas of the content index, in order.
Within(words, deltas, at) ==
  \E f \in [DOMAIN words -> {p \in DOMAIN deltas : deltas[p].index = at}] :
    /\ \A i, j \in DOMAIN words : i < j => f[i] < f[j]
    /\ \A i \in DOMAIN words : deltas[f[i]].word = words[i]

\* Type correctness.
TypeOK ==
  /\ turn \in 1..(Len(Turns) + 1) /\ snapshots \in 0..MaxSnapshots /\ index \in Nat
  /\ call.op \in {"idle", "update", "completed"}
  /\ flush \in BOOLEAN /\ aged \in BOOLEAN
  /\ pending # None => pendingFull # <<>>

\* A client that reads only deltas misses no word: the transcript declared at
\* the end of a turn is within the deltas of its item, in order, however the
\* debounce fell between the sends.
NothingMissing ==
  \A k \in DOMAIN items : Within(items[k].transcript, items[k].deltas, items[k].index)

\* A held word is sent or replaced, even when the decoder says no more.
HeldWordGoesOut == (pending # None) ~> (pending = None)
=============================================================================
