----------------------------- MODULE CallRecord -----------------------------
(***************************************************************************)
(* What the record of a call promises, with no writers, requests or        *)
(* failures in sight.  Reports of its end may come in any number and       *)
(* order; an end is never taken back, and "answered" is outlived by the    *)
(* failure of the dial only, which happens once.  A campaign is told of    *)
(* its own calls, of ends the record has, and nothing the record           *)
(* contradicts unless it says answered.                                    *)
(***************************************************************************)
CONSTANTS Outcomes, Files

VARIABLES
  stage,    \* "none", "open" or "closed"
  outcome,  \* "none" until the record is made
  ended,    \* it has a time of its end
  dial,     \* "none" (nobody dials), "open", "placed" or "failed"
  owned,    \* it names its campaign
  files,    \* what is linked to it
  told      \* what the campaign was told

rvars == <<stage, outcome, ended, dial, owned, files, told>>

Init ==
  /\ stage = "none" /\ outcome = "none" /\ dial = "none"
  /\ ended = FALSE /\ owned = FALSE
  /\ files = {} /\ told = {}

\* A record is made once: for a call that comes in, or to dial.
Make ==
  /\ stage = "none"
  /\ stage' = "open" /\ outcome' = "pending"
  /\ dial' \in {"none", "open"}
  /\ UNCHANGED <<ended, owned, files, told>>

Refuse ==
  /\ stage = "none"
  /\ stage' = "closed" /\ outcome' = "failed" /\ dial' = "failed"
  /\ UNCHANGED <<ended, owned, files, told>>

\* The answer to the dial comes late, and opens a closed record again.
DialPlaced ==
  /\ dial = "open"
  /\ dial' = "placed" /\ stage' = "open"
  /\ UNCHANGED <<outcome, ended, owned, files, told>>

DialFails ==
  /\ dial = "open"
  /\ dial' = "failed" /\ stage' = "closed" /\ outcome' = "failed"
  /\ UNCHANGED <<ended, owned, files, told>>

Own ==
  /\ dial = "placed"
  /\ owned' = TRUE
  /\ UNCHANGED <<stage, outcome, ended, dial, files, told>>

\* The first report of an answered call closes the record for good; one without a
\* cause leaves the outcome.
Report ==
  /\ stage # "none"
  /\ ended' = TRUE
  /\ \/ outcome = "answered" /\ UNCHANGED <<stage, outcome>>
     \/ outcome # "answered" /\ stage' = "closed"
        /\ outcome' \in {outcome} \cup (Outcomes \ {"none", "pending"})
  /\ UNCHANGED <<dial, owned, files, told>>

Attach(f) ==
  /\ stage # "none"
  /\ files' = files \cup {f}
  /\ UNCHANGED <<stage, outcome, ended, dial, owned, told>>

Tell(r) ==
  /\ owned /\ ended /\ outcome \in {r, "answered"}
  /\ told' = told \cup {r}
  /\ UNCHANGED <<stage, outcome, ended, dial, owned, files>>

Next ==
  \/ Make \/ Refuse \/ DialPlaced \/ DialFails \/ Own \/ Report
  \/ \E f \in Files : Attach(f)
  \/ \E r \in Outcomes : Tell(r)

Spec == Init /\ [][Next]_rvars
=============================================================================
