------------------------------ MODULE ParlerTts ------------------------------
(***************************************************************************)
(* Speech synthesis in the indic-parler model server.  A request puts      *)
(* itself on a queue and streams what comes back on a queue of its own.    *)
(* One worker thread prefills what arrived, drops what was cancelled, and  *)
(* steps all running requests together; a step gives each of them a frame. *)
(*                                                                         *)
(* A running request has a slot in two caches, one for its speech and one  *)
(* for its description.  A step orders the requests by the slots of the    *)
(* first and reads the second in the order of its own slots: were the two  *)
(* to differ, a caller would hear its text in another's voice.             *)
(*                                                                         *)
(* Frames become audio in batches: some of the running requests at a time, *)
(* each up to a holdback, and some of the finished ones to their end.      *)
(***************************************************************************)
EXTENDS Naturals, Sequences, FiniteSets, SequencesExt, FiniteSetsExt

CONSTANTS
  NRequests,    \* bound: requests, numbered as they arrive
  Slots,        \* max_batch_size
  DecodeEvery,  \* --decode-every
  MaxLive,      \* _dac_max_live_per_tick
  MaxFinals,    \* _dac_max_finals_per_tick
  Holdback,     \* _audio_stride, in frames
  MaxFrames,    \* max_seq_len, in frames
  MaxFailures   \* bound: steps that raise

Requests == 1..NRequests

VARIABLES
  client,      \* request -> its streaming response: new, waiting, done, ended or cut
  got,         \* history: request -> up to which frame it was streamed
  outQ,        \* out_q
  prefillQ,    \* _prefill_q
  cancelQ,     \* _cancel_q
  pc,          \* where the worker's loop is
  pending,     \* pending_out: who is still told
  running,     \* running_requests
  selfSlot,    \* self_attn_vmem.pid_to_slot
  crossSlot,   \* cross_attn_vmem.pid_to_slot
  frames,      \* frames generated, token_cache
  yielded,     \* audio_to_yield
  finals,      \* _pending_final_tokens, in order
  steps,       \* step_count, modulo DecodeEvery
  rr,          \* _dac_rr
  failures

clients == <<client, got>>
runner == <<running, selfSlot, crossSlot, frames, yielded, finals, rr>>
vars == <<clients, outQ, prefillQ, cancelQ, pc, pending, runner, steps, failures>>

Empty == [r \in {} |-> 0]

Init ==
  /\ client = [r \in Requests |-> "new"] /\ got = [r \in Requests |-> 0]
  /\ outQ = [r \in Requests |-> <<>>] /\ prefillQ = <<>> /\ cancelQ = <<>>
  /\ pc = "prefill" /\ pending = {} /\ running = {}
  /\ selfSlot = Empty /\ crossSlot = Empty
  /\ frames = [r \in Requests |-> 0] /\ yielded = [r \in Requests |-> 0]
  /\ finals = <<>> /\ steps = 0 /\ rr = 0 /\ failures = 0

---------------------------------------------------------------------------
(* The response of one request.                                            *)

Speech(r) ==
  /\ client[r] = "new" /\ \A q \in 1..(r - 1) : client[q] # "new"
  /\ client' = [client EXCEPT ![r] = "waiting"]
  /\ prefillQ' = Append(prefillQ, r)
  /\ UNCHANGED <<got, outQ, cancelQ, pc, pending, runner, steps, failures>>

\* Audio is streamed; done completes the response and an error ends it.
Stream(r) ==
  /\ client[r] = "waiting" /\ outQ[r] # <<>>
  /\ LET item == Head(outQ[r]) IN
     /\ got' = IF item.kind = "audio" THEN [got EXCEPT ![r] = item.to] ELSE got
     /\ client' = CASE item.kind = "done" -> [client EXCEPT ![r] = "done"]
                    [] item.kind = "error" -> [client EXCEPT ![r] = "ended"]
                    [] OTHER -> client
     /\ cancelQ' = IF item.kind = "error" THEN Append(cancelQ, r) ELSE cancelQ
  /\ outQ' = [outQ EXCEPT ![r] = Tail(@)]
  /\ UNCHANGED <<prefillQ, pc, pending, runner, steps, failures>>

\* Barge-in: the client closes the response.
BargeIn(r) ==
  /\ client[r] = "waiting"
  /\ client' = [client EXCEPT ![r] = "cut"] /\ cancelQ' = Append(cancelQ, r)
  /\ outQ' = [outQ EXCEPT ![r] = <<>>]
  /\ UNCHANGED <<got, prefillQ, pc, pending, runner, steps, failures>>

---------------------------------------------------------------------------
(* The caches.                                                             *)

Keep(map, rs) == [r \in DOMAIN map \intersect rs |-> map[r]]

\* compact(): the slots in use become 0..n-1, in the same order.
Compact(map) ==
  [r \in DOMAIN map |-> Cardinality({o \in DOMAIN map : map[o] < map[r]})]

Free(map, rs) == Compact(Keep(map, DOMAIN map \ rs))

FreeSlots(map) == (0..(Slots - 1)) \ {map[r] : r \in DOMAIN map}

Alloc(map, r) ==
  [o \in DOMAIN map \union {r} |-> IF o = r THEN Min(FreeSlots(map)) ELSE map[o]]

\* A slip: only the cache that failed is left alone.
AbortPrefill_Keep(r, self, cross) == selfSlot' = self /\ crossSlot' = Free(cross, {r})

\* abort_prefill(): whatever the prefill had taken is given back.
AbortPrefill(r, self, cross) ==
  selfSlot' = Free(self, {r}) /\ crossSlot' = Free(cross, {r})

---------------------------------------------------------------------------
(* The worker.                                                             *)

\* What is put where nobody listens is dropped with its queue.
Put(q, r, item) == IF client[r] = "waiting" THEN [q EXCEPT ![r] = Append(@, item)] ELSE q

Item(kind) == [kind |-> kind, from |-> 0, to |-> 0]

Prefill ==
  /\ pc = "prefill" /\ prefillQ # <<>>
  /\ LET r == Head(prefillQ) IN
     \/ /\ FreeSlots(selfSlot) # {} /\ FreeSlots(crossSlot) # {}
        /\ running' = running \union {r} /\ pending' = pending \union {r}
        /\ selfSlot' = Alloc(selfSlot, r) /\ crossSlot' = Alloc(crossSlot, r)
        /\ UNCHANGED <<outQ, failures>>
     \* The encoder raises, or the first cache has no slot.
     \/ /\ FreeSlots(selfSlot) # {} => failures < MaxFailures
        /\ failures' = IF FreeSlots(selfSlot) = {} THEN failures ELSE failures + 1
        /\ AbortPrefill(r, selfSlot, crossSlot)
        /\ outQ' = Put(outQ, r, Item("error"))
        /\ UNCHANGED <<running, pending>>
     \* The second cache refuses a description of its own that is too long.
     \/ /\ FreeSlots(selfSlot) # {} /\ failures < MaxFailures
        /\ failures' = failures + 1
        /\ AbortPrefill(r, Alloc(selfSlot, r), crossSlot)
        /\ outQ' = Put(outQ, r, Item("error"))
        /\ UNCHANGED <<running, pending>>
  /\ prefillQ' = Tail(prefillQ)
  /\ UNCHANGED <<clients, cancelQ, pc, frames, yielded, finals, steps, rr>>

Prefilled ==
  /\ pc = "prefill" /\ prefillQ = <<>> /\ (running # {} \/ cancelQ # <<>>)
  /\ pc' = "cancel"
  /\ UNCHANGED <<clients, outQ, prefillQ, cancelQ, pending, runner, steps, failures>>

\* A slip: the cache of the descriptions is not compacted.
Evict_SelfOnly(rs) ==
  /\ running' = running \ rs
  /\ selfSlot' = Free(selfSlot, rs) /\ crossSlot' = Keep(crossSlot, DOMAIN crossSlot \ rs)

\* Every slot is freed, and the caches compacted after the last.
Evict(rs) ==
  /\ running' = running \ rs
  /\ selfSlot' = Free(selfSlot, rs) /\ crossSlot' = Free(crossSlot, rs)

Cancel ==
  /\ pc = "cancel" /\ cancelQ # <<>>
  /\ LET r == Head(cancelQ) IN
     /\ pending' = pending \ {r}
     /\ IF r \in running THEN Evict({r}) ELSE UNCHANGED <<running, selfSlot, crossSlot>>
  /\ cancelQ' = Tail(cancelQ)
  /\ UNCHANGED <<clients, outQ, prefillQ, pc, frames, yielded, finals, steps, rr, failures>>

Cancelled ==
  /\ pc = "cancel" /\ cancelQ = <<>>
  /\ pc' = IF running = {} THEN "prefill" ELSE "step"
  /\ UNCHANGED <<clients, outQ, prefillQ, cancelQ, pending, runner, steps, failures>>

\* The requests in the order of their slots.
OrderedPids(map, rs) ==
  [n \in 1..Cardinality(rs) |-> CHOOSE r \in rs : Compact(Keep(map, rs))[r] = n - 1]

\* The running requests whose turn it is, round robin.
Selected(live) ==
  LET n == Len(live)
      at == IF rr >= n THEN 0 ELSE rr
      rotated == SubSeq(live, at + 1, n) \o SubSeq(live, 1, at)
  IN SubSeq(rotated, 1, Min({n, MaxLive}))

NextRr(n) ==
  IF n = 0 THEN 0 ELSE ((IF rr >= n THEN 0 ELSE rr) + Min({n, MaxLive})) % n

\* A slip: the end of what was streamed takes no account of the holdback.
YieldTo_All(r, n) == n[r]

\* Where a running request's audio is streamed to.
YieldTo(r, n) == n[r] - Holdback

Live(n, now) ==
  LET live == OrderedPids(now, running') IN
  {r \in ToSet(Selected(live)) : n[r] > yielded[r] + Holdback}

\* While others run, so many finished ones are decoded and the rest waits;
\* when none does, all are.
Taken(queued) ==
  IF running' = {} THEN queued ELSE SubSeq(queued, 1, Min({Len(queued), MaxFinals}))

Stretch(kind, from, to) == [kind |-> kind, from |-> from, to |-> to]

\* audio_decode(), what it streams to whom, and the end of who has finished.
AudioDecode(n, done, now) ==
  LET queued == finals \o OrderedPids(selfSlot, done)
      last == ToSet(Taken(queued))
      live == Live(n, now)
      audio(r) == IF r \in last THEN Stretch("audio", yielded[r], n[r])
                  ELSE Stretch("audio", yielded[r], n[r] - Holdback)
      told(r) == r \in pending /\ client[r] = "waiting"
      sent(r) == IF told(r) /\ r \in live \union last /\ audio(r).to > audio(r).from
                 THEN <<audio(r)>> ELSE <<>>
  IN
  /\ outQ' = [r \in Requests |-> outQ[r] \o sent(r) \o
                (IF told(r) /\ r \in done THEN <<Item("done")>> ELSE <<>>)]
  /\ yielded' = [r \in Requests |-> IF r \in live THEN YieldTo(r, n) ELSE yielded[r]]
  /\ finals' = SubSeq(queued, Len(Taken(queued)) + 1, Len(queued))
  /\ rr' = NextRr(Cardinality(running'))

\* One step of the batch: whoever has said it all, or has no room for more,
\* is evicted, and its audio is decoded in this step or a later one.
Step ==
  /\ pc = "step"
  /\ LET n == [r \in Requests |-> IF r \in running THEN frames[r] + 1 ELSE frames[r]]
         full == {r \in running : n[r] >= MaxFrames}
     IN \E done \in SUBSET running :
          /\ full \subseteq done
          /\ frames' = n /\ Evict(done)
          /\ pending' = pending \ done
          /\ steps' = (steps + 1) % DecodeEvery
          /\ IF done # {} \/ steps' = 0
             THEN AudioDecode(n, done, selfSlot')
             ELSE UNCHANGED <<outQ, yielded, finals, rr>>
  /\ pc' = "prefill"
  /\ UNCHANGED <<clients, prefillQ, cancelQ, failures>>

\* A step raises: whoever is pending is told, and nothing runs again.
WorkerDies ==
  /\ pc = "step" /\ failures < MaxFailures
  /\ failures' = failures + 1 /\ pc' = "dead"
  /\ outQ' = [r \in Requests |-> IF r \in pending /\ client[r] = "waiting"
                                 THEN Append(outQ[r], Item("error")) ELSE outQ[r]]
  /\ pending' = {}
  /\ UNCHANGED <<clients, prefillQ, cancelQ, runner, steps>>

---------------------------------------------------------------------------
Worker == Prefill \/ Prefilled \/ Cancel \/ Cancelled \/ Step

Next ==
  \/ \E r \in Requests : Speech(r) \/ Stream(r) \/ BargeIn(r)
  \/ Worker \/ WorkerDies

\* The worker's thread runs, and a response is read by its server.
Fairness == WF_vars(Worker) /\ \A r \in Requests : WF_vars(Stream(r))

Spec == Init /\ [][Next]_vars /\ Fairness

---------------------------------------------------------------------------
(* Properties.                                                             *)

\* Type correctness.
TypeOK ==
  /\ client \in [Requests -> {"new", "waiting", "done", "ended", "cut"}]
  /\ running \subseteq Requests /\ pending \subseteq Requests
  /\ pc \in {"prefill", "cancel", "step", "dead"}
  /\ frames \in [Requests -> 0..MaxFrames] /\ yielded \in [Requests -> 0..MaxFrames]
  /\ ToSet(finals) \intersect running = {}
  /\ steps \in 0..(DecodeEvery - 1) /\ rr \in 0..Slots /\ failures \in 0..MaxFailures

\* Whatever failed, finished or was cancelled, the two caches hold exactly the
\* running requests, both in the same slots, the first ones: a step computes
\* every caller's speech from that caller's own description.
SlotsAgree ==
  /\ DOMAIN selfSlot = running /\ crossSlot = selfSlot
  /\ {selfSlot[r] : r \in running} = 0..(Cardinality(running) - 1)

\* What a caller hears has neither gap nor repetition, however live decodes,
\* the holdback and the end of the speech fell.
AudioInOrder ==
  \A r \in Requests : \A i \in DOMAIN outQ[r] :
    LET q == outQ[r]
        before == {j \in 1..(i - 1) : q[j].kind = "audio"}
    IN q[i].kind = "audio" =>
         /\ q[i].from = (IF before = {} THEN got[r] ELSE q[Max(before)].to)
         /\ q[i].from < q[i].to

\* Every request is answered to its end, with its speech or with an error,
\* as long as the worker lives.
EveryResponseEnds ==
  \A r \in Requests : (client[r] = "waiting") ~> (client[r] # "waiting" \/ pc = "dead")

\* "Always decodes on steps that finish a request": a response that is done
\* has streamed all of its speech.
SpeechIsWhole ==
  \A r \in Requests : client[r] = "done" => got[r] = frames[r]
=============================================================================
