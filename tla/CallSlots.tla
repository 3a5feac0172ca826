------------------------------ MODULE CallSlots ------------------------------
(***************************************************************************)
(* Concurrency slots for campaign calls: the Redis sorted sets of          *)
(* rate_limiter.py, the slot service on top of them, dispatch_call in the  *)
(* worker that takes a slot before it dials, and the terminal-status       *)
(* handler in the API process that gives the slot back.                    *)
(*                                                                         *)
(* An attempt stands for one dispatch of one queued run.  Its slot_id and  *)
(* its call_id are fresh UUIDs, so the attempt itself names both: a set of *)
(* attempts is a sorted set of slot members, and the three sets share the  *)
(* score, the time of acquisition.  Every Redis command is one step; the   *)
(* Lua scripts are one step each, release_concurrent_slot is three.        *)
(***************************************************************************)
EXTENDS Naturals, FiniteSets

CONSTANTS
  Attempts,      \* dispatch attempts, each by a batch of its own
  OrgOf,         \* attempt -> organisation whose cap it counts against
  CampaignOf,    \* attempt -> campaign, the scope_key of its slot
  OrgLimit,      \* organisation -> concurrent_call_limit
  ScopeLimit,    \* campaign -> max_concurrency
  StaleTimeout,  \* stale_call_timeout, in ticks of the clock
  MaxFaults      \* bound on the failures and cancellations of one behaviour

ASSUME LimitsAssumption ==
  /\ IsFiniteSet(Attempts)
  /\ \A a \in Attempts : /\ OrgLimit[OrgOf[a]] \in Nat \ {0}
                         /\ ScopeLimit[CampaignOf[a]] \in Nat \ {0}

ASSUME BoundsAssumption == StaleTimeout \in Nat \ {0} /\ MaxFaults \in Nat

VARIABLES
  faults,      \* failures and cancellations so far
  orgSlots,    \* members of the sets concurrent_calls:{org_id}
  scopeSlots,  \* members of the sets concurrent_calls:campaign:{id}
  fleetSlots,  \* members of the set concurrent_calls_fleet
  lease,       \* attempt -> ticks until the score of its slot is stale
  ttl,         \* attempt -> ticks until call_slot_mapping:{call_id} expires,
               \* 0 when there is no such hash
  pc,          \* attempt -> where its dispatch_call stands
  call,        \* attempt -> the phone call, as the provider sees it
  report       \* attempt -> where the terminal handler of its call stands

redis == <<orgSlots, scopeSlots, fleetSlots, lease, ttl>>
vars == <<faults, redis, pc, call, report>>

Unwinding == {"unwindOrg", "unwindFleet", "unwindScope", "unwindMapping"}
Steps == {"waiting", "refused", "held", "rejected", "dialing", "dialed",
          "bound", "returned", "unwound", "cancelled"} \cup Unwinding
Calls == {"none", "requested", "live", "ended"}
Reports == {"idle", "zremOrg", "zremFleet", "zremScope", "delMapping"}

TypeOK ==
  /\ faults \in Nat
  /\ orgSlots \subseteq Attempts
  /\ scopeSlots \subseteq Attempts
  /\ fleetSlots \subseteq Attempts
  /\ lease \in [Attempts -> 0..StaleTimeout]
  /\ ttl \in [Attempts -> 0..StaleTimeout]
  /\ pc \in [Attempts -> Steps]
  /\ call \in [Attempts -> Calls]
  /\ report \in [Attempts -> Reports]

Init ==
  /\ faults = 0
  /\ orgSlots = {}
  /\ scopeSlots = {}
  /\ fleetSlots = {}
  /\ lease = [a \in Attempts |-> 0]
  /\ ttl = [a \in Attempts |-> 0]
  /\ pc = [a \in Attempts |-> "waiting"]
  /\ call = [a \in Attempts |-> "none"]
  /\ report = [a \in Attempts |-> "idle"]

InOrg(S, a)   == {b \in S : OrgOf[b] = OrgOf[a]}
InScope(S, a) == {b \in S : CampaignOf[b] = CampaignOf[a]}

\* The call can be looked up by its id.
Mapped(a) == ttl[a] > 0

Goto(a, step) == pc' = [pc EXCEPT ![a] = step]

\* One more thing goes wrong.
Fault == faults < MaxFaults /\ faults' = faults + 1

-----------------------------------------------------------------------------
(* try_acquire_concurrent_slot_details: one EVAL that trims, counts, adds. *)

\* Scored after the cutoff now - stale_call_timeout.
Fresh(b) == lease[b] > 0

\* The script without the trim of the organisation's set.
OrgUntrimmed(a) == orgSlots

\* ZREMRANGEBYSCORE touches the caller's own keys only.
OrgTrimmed(a)   == {b \in orgSlots : OrgOf[b] = OrgOf[a] => Fresh(b)}
ScopeTrimmed(a) == {b \in scopeSlots : CampaignOf[b] = CampaignOf[a] => Fresh(b)}

\* The comparison with ">" in place of ">=".
OrgOverfull(a)   == Cardinality(InOrg(OrgTrimmed(a), a)) > OrgLimit[OrgOf[a]]
ScopeOverfull(a) == Cardinality(InScope(ScopeTrimmed(a), a)) > ScopeLimit[CampaignOf[a]]

OrgFull(a)   == Cardinality(InOrg(OrgTrimmed(a), a)) >= OrgLimit[OrgOf[a]]
ScopeFull(a) == Cardinality(InScope(ScopeTrimmed(a), a)) >= ScopeLimit[CampaignOf[a]]

\* The slot is granted: it joins all three sets with the same score.
Acquire(a) ==
  /\ pc[a] = "waiting"
  /\ ~OrgFull(a)
  /\ ~ScopeFull(a)
  /\ orgSlots' = OrgTrimmed(a) \cup {a}
  /\ scopeSlots' = ScopeTrimmed(a) \cup {a}
  /\ fleetSlots' = {b \in fleetSlots : Fresh(b)} \cup {a}
  /\ lease' = [lease EXCEPT ![a] = StaleTimeout]
  /\ Goto(a, "held")
  /\ UNCHANGED <<faults, ttl, call, report>>

\* nil: the script has trimmed the sets it looked at.  acquire_org_slot sleeps
\* and tries again, or its 120 s are over and it raises.
Refused(a) ==
  /\ pc[a] = "waiting"
  /\ \/ OrgFull(a) /\ UNCHANGED scopeSlots
     \/ ~OrgFull(a) /\ ScopeFull(a) /\ scopeSlots' = ScopeTrimmed(a)
  /\ orgSlots' = OrgTrimmed(a)
  /\ \E step \in {"waiting", "refused"} : Goto(a, step)
  /\ UNCHANGED <<faults, fleetSlots, lease, ttl, call, report>>

-----------------------------------------------------------------------------
(* dispatch_call.                                                          *)

\* ValueError (blank phone number) or PhoneNumberPoolExhaustedError, raised
\* before the try block that gives the slot back.
RejectBeforeDial(a) ==
  /\ pc[a] = "held"
  /\ Goto(a, "rejected")
  /\ Fault
  /\ UNCHANGED <<redis, call, report>>

\* initiate_outbound_call sends the request to the provider.
Dial(a) ==
  /\ pc[a] = "held"
  /\ call' = [call EXCEPT ![a] = "requested"]
  /\ Goto(a, "dialing")
  /\ UNCHANGED <<faults, redis, report>>

\* initiate_outbound_call returns the call_id.
DialReturns(a) ==
  /\ pc[a] = "dialing"
  /\ call[a] \in {"live", "ended"}
  /\ Goto(a, "dialed")
  /\ UNCHANGED <<faults, redis, call, report>>

\* It raises OutboundCallError: the provider refused the call.
DialRefused(a) ==
  /\ pc[a] = "dialing"
  /\ call[a] = "requested"
  /\ call' = [call EXCEPT ![a] = "none"]
  /\ Goto(a, "unwindOrg")
  /\ UNCHANGED <<faults, redis, report>>

\* It raises although the provider places the call: the answer did not come
\* back in time.
DialRaises(a) ==
  /\ pc[a] = "dialing"
  /\ Goto(a, "unwindOrg")
  /\ Fault
  /\ UNCHANGED <<redis, call, report>>

\* update_call_log or the bind script raises after the call was placed.
LinkRaises(a) ==
  /\ pc[a] = "dialed"
  /\ Goto(a, "unwindOrg")
  /\ Fault
  /\ UNCHANGED <<redis, call, report>>

\* The mapping with the longer TTL of call_from_number:{call_id}.
BindLonger(a) ==
  /\ pc[a] = "dialed"
  /\ ttl' = [ttl EXCEPT ![a] = StaleTimeout + 1]
  /\ Goto(a, "bound")
  /\ UNCHANGED <<faults, orgSlots, scopeSlots, fleetSlots, lease, call, report>>

\* bind_call_slot: the script writes the mapping if it is absent.  A call_id
\* is bound once, so it is.
Bind(a) ==
  /\ pc[a] = "dialed"
  /\ ttl' = [ttl EXCEPT ![a] = StaleTimeout]
  /\ Goto(a, "bound")
  /\ UNCHANGED <<faults, orgSlots, scopeSlots, fleetSlots, lease, call, report>>

\* With no number pool, or with the number recorded, the dispatch is over.
Return(a) ==
  /\ pc[a] = "bound"
  /\ Goto(a, "returned")
  /\ UNCHANGED <<faults, redis, call, report>>

\* store_call_from_number_mapping raises; release_call_slot finds the slot
\* through the mapping, if there still is one.
NumberRaises(a) ==
  /\ pc[a] = "bound"
  /\ Goto(a, IF Mapped(a) THEN "unwindOrg" ELSE "unwound")
  /\ Fault
  /\ UNCHANGED <<redis, call, report>>

\* The except branch gives the slot back: three ZREMs, one await each, and the
\* mapping if the slot was bound.
UnwindOrg(a) ==
  /\ pc[a] = "unwindOrg"
  /\ orgSlots' = orgSlots \ {a}
  /\ Goto(a, "unwindFleet")
  /\ UNCHANGED <<faults, scopeSlots, fleetSlots, lease, ttl, call, report>>

UnwindFleet(a) ==
  /\ pc[a] = "unwindFleet"
  /\ fleetSlots' = fleetSlots \ {a}
  /\ Goto(a, "unwindScope")
  /\ UNCHANGED <<faults, orgSlots, scopeSlots, lease, ttl, call, report>>

UnwindScope(a) ==
  /\ pc[a] = "unwindScope"
  /\ scopeSlots' = scopeSlots \ {a}
  /\ Goto(a, IF Mapped(a) THEN "unwindMapping" ELSE "unwound")
  /\ UNCHANGED <<faults, orgSlots, fleetSlots, lease, ttl, call, report>>

UnwindMapping(a) ==
  /\ pc[a] = "unwindMapping"
  /\ ttl' = [ttl EXCEPT ![a] = 0]
  /\ Goto(a, "unwound")
  /\ UNCHANGED <<faults, orgSlots, scopeSlots, fleetSlots, lease, call, report>>

\* Redis fails on one of them, or the job is cancelled there: what is left
\* undone stays undone, and the dispatch raises all the same.
UnwindFails(a) ==
  /\ pc[a] \in Unwinding
  /\ Goto(a, "unwound")
  /\ Fault
  /\ UNCHANGED <<redis, call, report>>

\* CancelledError at an await (job timeout, shutdown) or the death of the
\* worker: "except Exception" does not see it and nothing is given back.
Cancel(a) ==
  /\ pc[a] \in {"held", "dialing", "dialed", "bound"}
  /\ Goto(a, "cancelled")
  /\ Fault
  /\ UNCHANGED <<redis, call, report>>

-----------------------------------------------------------------------------
(* The phone call ends, and POST /campaign/internal/call-status reports it. *)

\* The provider connects the call it was asked for, even when the worker no
\* longer waits for the answer.
ProviderPlaces(a) ==
  /\ call[a] = "requested"
  /\ call' = [call EXCEPT ![a] = "live"]
  /\ UNCHANGED <<faults, redis, pc, report>>

HangUp(a) ==
  /\ call[a] = "live"
  /\ call' = [call EXCEPT ![a] = "ended"]
  /\ UNCHANGED <<faults, redis, pc, report>>

\* A handler that consumes the mapping before it has removed the slot.
ReportTakesMapping(a) ==
  /\ call[a] = "ended"
  /\ report[a] = "idle"
  /\ Mapped(a)
  /\ ttl' = [ttl EXCEPT ![a] = 0]
  /\ report' = [report EXCEPT ![a] = "zremOrg"]
  /\ UNCHANGED <<faults, orgSlots, scopeSlots, fleetSlots, lease, pc, call>>

\* release_call_slot reads the mapping; without one it has nothing to do.
\* The hang-up webhook and the end of the pipeline both report.
ReportTerminal(a) ==
  /\ call[a] = "ended"
  /\ report[a] = "idle"
  /\ Mapped(a)
  /\ report' = [report EXCEPT ![a] = "zremOrg"]
  /\ UNCHANGED <<faults, redis, pc, call>>

\* The campaign's set emptied first, the organisation's last.
ReportZremScopeFirst(a) ==
  /\ report[a] = "zremOrg"
  /\ scopeSlots' = scopeSlots \ {a}
  /\ report' = [report EXCEPT ![a] = "zremFleet"]
  /\ UNCHANGED <<faults, orgSlots, fleetSlots, lease, ttl, pc, call>>

ReportZremOrg(a) ==
  /\ report[a] = "zremOrg"
  /\ orgSlots' = orgSlots \ {a}
  /\ report' = [report EXCEPT ![a] = "zremFleet"]
  /\ UNCHANGED <<faults, scopeSlots, fleetSlots, lease, ttl, pc, call>>

ReportZremFleet(a) ==
  /\ report[a] = "zremFleet"
  /\ fleetSlots' = fleetSlots \ {a}
  /\ report' = [report EXCEPT ![a] = "zremScope"]
  /\ UNCHANGED <<faults, orgSlots, scopeSlots, lease, ttl, pc, call>>

ReportZremScope(a) ==
  /\ report[a] = "zremScope"
  /\ scopeSlots' = scopeSlots \ {a}
  /\ report' = [report EXCEPT ![a] = "delMapping"]
  /\ UNCHANGED <<faults, orgSlots, fleetSlots, lease, ttl, pc, call>>

ReportDelMapping(a) ==
  /\ report[a] = "delMapping"
  /\ ttl' = [ttl EXCEPT ![a] = 0]
  /\ report' = [report EXCEPT ![a] = "idle"]
  /\ UNCHANGED <<faults, orgSlots, scopeSlots, fleetSlots, lease, pc, call>>

\* Redis fails under the handler: release_concurrent_slot returns None and
\* release_call_slot returns before it deletes the mapping.
ReportFails(a) ==
  /\ report[a] # "idle"
  /\ report' = [report EXCEPT ![a] = "idle"]
  /\ Fault
  /\ UNCHANGED <<redis, pc, call>>

-----------------------------------------------------------------------------

\* A second of the clock all processes read.
Countdown(f) == [a \in Attempts |-> IF f[a] > 0 THEN f[a] - 1 ELSE 0]

Tick ==
  /\ lease' = Countdown(lease)
  /\ ttl' = Countdown(ttl)
  /\ UNCHANGED <<faults, orgSlots, scopeSlots, fleetSlots, pc, call, report>>

Worker(a) ==
  \/ Acquire(a) \/ Refused(a) \/ RejectBeforeDial(a) \/ Dial(a)
  \/ DialReturns(a) \/ DialRefused(a) \/ DialRaises(a) \/ LinkRaises(a) \/ Bind(a)
  \/ Return(a) \/ NumberRaises(a) \/ Cancel(a)
  \/ UnwindOrg(a) \/ UnwindFleet(a) \/ UnwindScope(a) \/ UnwindMapping(a)
  \/ UnwindFails(a)

Provider(a) == ProviderPlaces(a) \/ HangUp(a)

Handler(a) ==
  \/ ReportTerminal(a) \/ ReportZremOrg(a) \/ ReportZremFleet(a)
  \/ ReportZremScope(a) \/ ReportDelMapping(a) \/ ReportFails(a)

Next == Tick \/ \E a \in Attempts : Worker(a) \/ Provider(a) \/ Handler(a)

Spec == Init /\ [][Next]_vars

-----------------------------------------------------------------------------
(* What must hold.                                                         *)

\* Calls whose dispatch has not given up on them.
Tracked == {a \in Attempts :
              /\ pc[a] \in {"dialing", "dialed", "bound", "returned", "cancelled"}
              /\ call[a] \in {"requested", "live"}
              /\ Fresh(a)}

\* The cap on the phone: as long as their leases run, the calls that ring or
\* talk are within the organisation's limit and within their campaign's, also
\* when the worker that dialled them has been cancelled.  Dispatch, the trim of
\* the script and a terminal report that runs beside both may not break it.
LiveCallsWithinLimits ==
  \A a \in Tracked :
    /\ Cardinality(InOrg(Tracked, a)) <= OrgLimit[OrgOf[a]]
    /\ Cardinality(InScope(Tracked, a)) <= ScopeLimit[CampaignOf[a]]

\* A terminal report can always find the slot of a dispatched call: while the
\* lease runs, the mapping of a bound call outlives its slot, whatever the
\* order of release, expiry and failures in between.
BoundSlotKeepsMapping ==
  \A a \in orgSlots :
    pc[a] \in {"bound", "returned"} /\ Fresh(a) => Mapped(a)

\* The campaign's set and the fleet gauge never undercount: a slot the
\* organisation is charged for is in both, although the three sets are trimmed
\* at different times and emptied by separate commands.
SlotSetsAgree ==
  \A a \in orgSlots : Fresh(a) => a \in scopeSlots \cap fleetSlots

\* acquire_org_slot gives up only when fresh slots fill a cap: the slots of
\* crashed workers never keep a campaign from dialling past their lease.
RefusedOnlyWhenFull ==
  [][\A a \in Attempts :
       pc[a] = "waiting" /\ pc'[a] = "refused" =>
         \/ Cardinality({b \in InOrg(orgSlots, a) : Fresh(b)}) >= OrgLimit[OrgOf[a]]
         \/ Cardinality({b \in InScope(scopeSlots, a) : Fresh(b)}) >= ScopeLimit[CampaignOf[a]]
    ]_vars

\* The sets implement the abstract cap: a member with a lease is an attempt
\* inside, an attempt that once had one and has it no more has left.
Holding == {a \in orgSlots : lease[a] > 0}
Out == {a \in Attempts : pc[a] \notin {"waiting", "refused"}}
Admission == INSTANCE CallAdmission WITH inside <- Holding, left <- Out \ Holding

ImplementsAdmission == Admission!Spec

==============================================================================
