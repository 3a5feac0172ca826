------------------------------ MODULE RunLedger ------------------------------
(***************************************************************************)
(* What a campaign promises about its contacts, with no jobs, commands or  *)
(* failures in sight: a queued run is taken by one batch at a time, may be *)
(* given back, and once it is settled it is never taken again.             *)
(***************************************************************************)
CONSTANT Runs

VARIABLES
  phase,    \* run -> "queued", "processing", "processed" or "failed"
  linked    \* runs that carry the call_id of their call

lvars == <<phase, linked>>

Init ==
  /\ phase = [r \in Runs |-> "queued"]
  /\ linked = {}

Take(r) ==
  /\ phase[r] = "queued"
  /\ phase' = [phase EXCEPT ![r] = "processing"]
  /\ UNCHANGED linked

\* An aborted batch gives back what it has not settled, at once.
GiveBack(S) ==
  /\ \A r \in S : phase[r] = "processing" /\ r \notin linked
  /\ phase' = [r \in Runs |-> IF r \in S THEN "queued" ELSE phase[r]]
  /\ UNCHANGED linked

Succeed(r) ==
  /\ phase[r] = "processing"
  /\ phase' = [phase EXCEPT ![r] = "processed"]
  /\ linked' = linked \cup {r}

\* Also when the bookkeeping after a successful dispatch goes wrong.
Fail(r) ==
  /\ phase[r] \in {"processing", "processed"}
  /\ phase' = [phase EXCEPT ![r] = "failed"]
  /\ UNCHANGED linked

Next ==
  \/ \E r \in Runs : Take(r) \/ Succeed(r) \/ Fail(r)
  \/ \E S \in SUBSET Runs : GiveBack(S)

Spec == Init /\ [][Next]_lvars
==============================================================================
