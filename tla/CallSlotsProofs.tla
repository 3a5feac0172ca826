--------------------------- MODULE CallSlotsProofs ---------------------------
(***************************************************************************)
(* Proofs about CallSlots, for every set of attempts, every assignment of  *)
(* attempts to organisations and campaigns, every pair of limits and every *)
(* number of faults.                                                       *)
(***************************************************************************)
EXTENDS CallSlots, FiniteSetTheorems, TLAPS

\* A fresh member of the campaign's set.
ScopeHolding == {a \in scopeSlots : Fresh(a)}

\* Before its dial an attempt has no call and nothing to find one by; before
\* its acquisition it has no slot either.
NotYetDialled ==
  \A a \in Attempts :
    /\ pc[a] \in {"waiting", "refused", "held", "rejected"} => call[a] = "none"
    /\ pc[a] \in {"waiting", "refused"} => a \notin orgSlots \cup scopeSlots

\* A terminal handler runs for calls that are over.
ReportsOfEndedCalls ==
  \A a \in Attempts : report[a] # "idle" => call[a] = "ended"

\* Past their first ZREM, the two release sequences have freed the slot.
OrgReleasedFirst ==
  \A a \in Attempts :
    \/ pc[a] \in {"unwindFleet", "unwindScope", "unwindMapping"}
    \/ report[a] \in {"zremFleet", "zremScope", "delMapping"}
    => a \notin orgSlots

\* Only the end of the call, the lease or the unwinding dispatch takes a slot.
DialledCallsHold ==
  \A a \in Attempts :
    /\ pc[a] \in {"held", "dialing", "dialed", "bound", "returned", "cancelled"}
    /\ call[a] # "ended"
    /\ Fresh(a)
    => a \in orgSlots

\* The mapping was written after the slot and lives as long.
MappingOutlivesLease ==
  \A a \in orgSlots : pc[a] \in {"bound", "returned"} => ttl[a] >= lease[a]

\* What the script's two comparisons maintain.
OrgWithin ==
  \A a \in Attempts : Cardinality(InOrg(Holding, a)) <= OrgLimit[OrgOf[a]]

ScopeWithin ==
  \A a \in Attempts : Cardinality(InScope(ScopeHolding, a)) <= ScopeLimit[CampaignOf[a]]

Order == NotYetDialled /\ ReportsOfEndedCalls /\ OrgReleasedFirst

IInv ==
  /\ TypeOK
  /\ Order
  /\ DialledCallsHold
  /\ MappingOutlivesLease
  /\ SlotSetsAgree
  /\ OrgWithin
  /\ ScopeWithin

-----------------------------------------------------------------------------
(* Counting.                                                               *)

\* A smaller set has fewer members of an organisation or a campaign.
LEMMA CountSubset ==
  ASSUME NEW S \in SUBSET Attempts, NEW T \in SUBSET S, NEW a \in Attempts
  PROVE  /\ Cardinality(InOrg(S, a)) \in Nat
         /\ Cardinality(InOrg(T, a)) \in Nat
         /\ Cardinality(InOrg(T, a)) <= Cardinality(InOrg(S, a))
         /\ Cardinality(InScope(S, a)) \in Nat
         /\ Cardinality(InScope(T, a)) \in Nat
         /\ Cardinality(InScope(T, a)) <= Cardinality(InScope(S, a))
<1>1. IsFiniteSet(InOrg(S, a)) /\ IsFiniteSet(InScope(S, a))
  <2>1. InOrg(S, a) \in SUBSET Attempts /\ InScope(S, a) \in SUBSET Attempts
    BY DEF InOrg, InScope
  <2>2. IsFiniteSet(Attempts)
    BY LimitsAssumption
  <2> QED  BY <2>1, <2>2, FS_Subset
<1>2. InOrg(T, a) \in SUBSET InOrg(S, a) /\ InScope(T, a) \in SUBSET InScope(S, a)
  BY DEF InOrg, InScope
<1>3. IsFiniteSet(InOrg(T, a)) /\ IsFiniteSet(InScope(T, a))
  BY <1>1, <1>2, FS_Subset
<1> QED  BY <1>1, <1>2, <1>3, FS_Subset, FS_CardinalityType

\* One member more is at most one more.
LEMMA CountAdd ==
  ASSUME NEW S \in SUBSET Attempts, NEW b \in Attempts, NEW a \in Attempts
  PROVE  /\ Cardinality(InOrg(S \cup {b}, a)) <= Cardinality(InOrg(S, a)) + 1
         /\ OrgOf[b] # OrgOf[a] => InOrg(S \cup {b}, a) = InOrg(S, a)
         /\ Cardinality(InScope(S \cup {b}, a)) <= Cardinality(InScope(S, a)) + 1
         /\ CampaignOf[b] # CampaignOf[a] => InScope(S \cup {b}, a) = InScope(S, a)
<1>1. IsFiniteSet(InOrg(S, a)) /\ IsFiniteSet(InScope(S, a))
  <2>1. InOrg(S, a) \in SUBSET Attempts /\ InScope(S, a) \in SUBSET Attempts
    BY DEF InOrg, InScope
  <2>2. IsFiniteSet(Attempts)
    BY LimitsAssumption
  <2> QED  BY <2>1, <2>2, FS_Subset
<1>2. /\ Cardinality(InOrg(S, a)) \in Nat
      /\ Cardinality(InScope(S, a)) \in Nat
  BY <1>1, FS_CardinalityType
<1>3. OrgOf[b] # OrgOf[a] => InOrg(S \cup {b}, a) = InOrg(S, a)
  BY DEF InOrg
<1>4. CampaignOf[b] # CampaignOf[a] => InScope(S \cup {b}, a) = InScope(S, a)
  BY DEF InScope
<1>5. OrgOf[b] = OrgOf[a] => InOrg(S \cup {b}, a) = InOrg(S, a) \cup {b}
  BY DEF InOrg
<1>6. CampaignOf[b] = CampaignOf[a] => InScope(S \cup {b}, a) = InScope(S, a) \cup {b}
  BY DEF InScope
<1>7. /\ Cardinality(InOrg(S, a) \cup {b}) <= Cardinality(InOrg(S, a)) + 1
      /\ Cardinality(InScope(S, a) \cup {b}) <= Cardinality(InScope(S, a)) + 1
  <2>1. \A R : IsFiniteSet(R) => \/ Cardinality(R \cup {b}) = Cardinality(R)
                                 \/ Cardinality(R \cup {b}) = Cardinality(R) + 1
    BY FS_AddElement
  <2> QED  BY <1>1, <1>2, <2>1
<1>8. Cardinality(InOrg(S \cup {b}, a)) <= Cardinality(InOrg(S, a)) + 1
  <2>1. CASE OrgOf[b] = OrgOf[a]
    BY <2>1, <1>5, <1>7
  <2>2. CASE OrgOf[b] # OrgOf[a]
    <3>1. InOrg(S \cup {b}, a) = InOrg(S, a)
      BY <2>2, <1>3
    <3> QED  BY <3>1, <1>2
  <2> QED  BY <2>1, <2>2
<1>9. Cardinality(InScope(S \cup {b}, a)) <= Cardinality(InScope(S, a)) + 1
  <2>1. CASE CampaignOf[b] = CampaignOf[a]
    BY <2>1, <1>6, <1>7
  <2>2. CASE CampaignOf[b] # CampaignOf[a]
    <3>1. InScope(S \cup {b}, a) = InScope(S, a)
      BY <2>2, <1>4
    <3> QED  BY <3>1, <1>2
  <2> QED  BY <2>1, <2>2
<1> QED  BY <1>3, <1>4, <1>8, <1>9

-----------------------------------------------------------------------------
(* Every step but a grant shrinks the sets.                                *)

Shrinks ==
  /\ orgSlots' \subseteq orgSlots
  /\ scopeSlots' \subseteq scopeSlots
  /\ \A b \in Attempts : lease'[b] <= lease[b]
  /\ \A b \in Attempts :
       pc'[b] \in {"waiting", "refused"} <=> pc[b] \in {"waiting", "refused"}

LEMMA StepShrinks ==
  ASSUME TypeOK, [Next]_vars, \A a \in Attempts : ~Acquire(a)
  PROVE  Shrinks
<1>1. CASE Tick
  BY <1>1 DEF Tick, Countdown, TypeOK, Shrinks
<1>2. ASSUME NEW a \in Attempts, Worker(a)  PROVE Shrinks
  <2>1. CASE Refused(a)
    BY <2>1 DEF Refused, OrgTrimmed, ScopeTrimmed, Goto, TypeOK, Shrinks, Steps, Unwinding
  <2>2. CASE RejectBeforeDial(a) \/ Dial(a) \/ DialReturns(a) \/ DialRefused(a) \/ DialRaises(a)
             \/ LinkRaises(a) \/ Return(a) \/ NumberRaises(a) \/ Cancel(a) \/ UnwindFails(a)
    BY <2>2 DEF RejectBeforeDial, Dial, DialReturns, DialRefused, DialRaises, LinkRaises, Return,
                NumberRaises, Cancel, UnwindFails, Unwinding, redis, Goto, TypeOK, Shrinks
  <2>3. CASE Bind(a) \/ UnwindOrg(a) \/ UnwindFleet(a) \/ UnwindScope(a) \/ UnwindMapping(a)
    BY <2>3 DEF Bind, UnwindOrg, UnwindFleet, UnwindScope, UnwindMapping, Goto, TypeOK, Shrinks
  <2> QED  BY <1>2, <2>1, <2>2, <2>3 DEF Worker
<1>3. ASSUME NEW a \in Attempts, Provider(a) \/ Handler(a)  PROVE Shrinks
  BY <1>3 DEF Provider, ProviderPlaces, HangUp, Handler, ReportTerminal, ReportZremOrg,
              ReportZremFleet, ReportZremScope, ReportDelMapping, ReportFails,
              redis, TypeOK, Shrinks
<1>4. CASE UNCHANGED vars
  BY <1>4 DEF vars, redis, TypeOK, Shrinks
<1> QED  BY <1>1, <1>2, <1>3, <1>4 DEF Next

LEMMA GrantStep ==
  ASSUME TypeOK, Order, NEW a \in Attempts, Acquire(a)
  PROVE  /\ Holding' = Holding \cup {a}
         /\ ScopeHolding' = ScopeHolding \cup {a}
         /\ InOrg(OrgTrimmed(a), a) = InOrg(Holding, a)
         /\ InScope(ScopeTrimmed(a), a) = InScope(ScopeHolding, a)
         /\ a \notin Holding \cup ScopeHolding
<1>1. /\ lease' = [lease EXCEPT ![a] = StaleTimeout]
      /\ orgSlots' = OrgTrimmed(a) \cup {a}
      /\ scopeSlots' = ScopeTrimmed(a) \cup {a}
      /\ pc[a] = "waiting"
  BY DEF Acquire
<1>2. a \notin orgSlots \cup scopeSlots
  BY <1>1 DEF Order, NotYetDialled
<1>3. \A b \in Attempts : b # a => Fresh(b)' = Fresh(b)
  BY <1>1 DEF Fresh, TypeOK
<1>4. Fresh(a)'
  BY <1>1, BoundsAssumption DEF Fresh, TypeOK
<1>5. OrgTrimmed(a) \subseteq orgSlots /\ ScopeTrimmed(a) \subseteq scopeSlots
  BY DEF OrgTrimmed, ScopeTrimmed
<1>6. Holding \subseteq OrgTrimmed(a) /\ ScopeHolding \subseteq ScopeTrimmed(a)
  BY DEF Fresh, Holding, ScopeHolding, OrgTrimmed, ScopeTrimmed
<1>7. Holding' = Holding \cup {a}
  BY <1>1, <1>2, <1>3, <1>4, <1>5, <1>6 DEF Holding, Fresh, TypeOK
<1>8. ScopeHolding' = ScopeHolding \cup {a}
  BY <1>1, <1>2, <1>3, <1>4, <1>5, <1>6 DEF ScopeHolding, TypeOK
<1>9. /\ InOrg(OrgTrimmed(a), a) = InOrg(Holding, a)
      /\ InScope(ScopeTrimmed(a), a) = InScope(ScopeHolding, a)
  BY DEF InOrg, InScope, OrgTrimmed, ScopeTrimmed, Fresh, Holding, ScopeHolding
<1> QED  BY <1>2, <1>7, <1>8, <1>9 DEF Holding, ScopeHolding

-----------------------------------------------------------------------------
(* One lemma per part of IInv: a step preserves it.                        *)

LEMMA TypeStep ==
  ASSUME TypeOK, [Next]_vars
  PROVE  TypeOK'
<1> USE DEF TypeOK
<1>1. CASE Tick
  BY <1>1, BoundsAssumption DEF Tick, Countdown
<1>2. ASSUME NEW a \in Attempts, Worker(a)  PROVE TypeOK'
  <2>1. CASE Acquire(a)
    BY <2>1, BoundsAssumption DEF Acquire, OrgTrimmed, ScopeTrimmed, Goto, Steps
  <2>2. CASE Refused(a)
    BY <2>2 DEF Refused, OrgTrimmed, ScopeTrimmed, Goto, Steps
  <2>3. CASE RejectBeforeDial(a) \/ Dial(a) \/ DialReturns(a) \/ DialRefused(a) \/ DialRaises(a)
             \/ LinkRaises(a) \/ Cancel(a)
    BY <2>3 DEF RejectBeforeDial, Dial, DialReturns, DialRefused, DialRaises, LinkRaises, Cancel,
                Fault, redis, Goto, Steps, Calls, Unwinding
  <2>4. CASE Bind(a) \/ Return(a) \/ NumberRaises(a)
    BY <2>4, BoundsAssumption DEF Bind, Return, NumberRaises, Fault, redis, Goto,
                                  Steps, Unwinding
  <2>5. CASE UnwindOrg(a) \/ UnwindFleet(a) \/ UnwindScope(a) \/ UnwindMapping(a)
             \/ UnwindFails(a)
    BY <2>5, BoundsAssumption DEF UnwindOrg, UnwindFleet, UnwindScope, UnwindMapping,
                                  UnwindFails, Fault, redis, Goto, Steps, Unwinding
  <2> QED  BY <1>2, <2>1, <2>2, <2>3, <2>4, <2>5 DEF Worker
<1>3. ASSUME NEW a \in Attempts, Provider(a)  PROVE TypeOK'
  BY <1>3 DEF Provider, ProviderPlaces, HangUp, redis, Calls
<1>4. ASSUME NEW a \in Attempts, Handler(a)  PROVE TypeOK'
  BY <1>4, BoundsAssumption DEF Handler, ReportTerminal, ReportZremOrg, ReportZremFleet,
     ReportZremScope, ReportDelMapping, ReportFails, Fault, redis, Reports
<1>5. CASE UNCHANGED vars
  BY <1>5 DEF vars, redis
<1> QED  BY <1>1, <1>2, <1>3, <1>4, <1>5 DEF Next

LEMMA OrderStep ==
  ASSUME TypeOK, Order, [Next]_vars
  PROVE  Order'
<1> USE DEF Order, NotYetDialled, ReportsOfEndedCalls, OrgReleasedFirst, TypeOK
<1>1. CASE Tick
  BY <1>1 DEF Tick
<1>2. ASSUME NEW a \in Attempts, Worker(a)  PROVE Order'
  <2>1. CASE Acquire(a)
    BY <2>1 DEF Acquire, OrgTrimmed, ScopeTrimmed, Goto
  <2>2. CASE Refused(a)
    BY <2>2 DEF Refused, OrgTrimmed, ScopeTrimmed, Goto
  <2>3. CASE RejectBeforeDial(a) \/ Dial(a) \/ DialReturns(a) \/ DialRefused(a) \/ DialRaises(a)
             \/ LinkRaises(a) \/ Cancel(a)
    BY <2>3 DEF RejectBeforeDial, Dial, DialReturns, DialRefused, DialRaises, LinkRaises, Cancel,
                redis, Goto
  <2>4. CASE Bind(a) \/ Return(a) \/ NumberRaises(a)
    BY <2>4 DEF Bind, Return, NumberRaises, redis, Goto
  <2>5. CASE UnwindOrg(a) \/ UnwindFleet(a) \/ UnwindScope(a) \/ UnwindMapping(a)
             \/ UnwindFails(a)
    BY <2>5 DEF UnwindOrg, UnwindFleet, UnwindScope, UnwindMapping, UnwindFails,
                redis, Goto, Unwinding
  <2> QED  BY <1>2, <2>1, <2>2, <2>3, <2>4, <2>5 DEF Worker
<1>3. ASSUME NEW a \in Attempts, Provider(a)  PROVE Order'
  BY <1>3 DEF Provider, ProviderPlaces, HangUp, redis
<1>4. ASSUME NEW a \in Attempts, Handler(a)  PROVE Order'
  BY <1>4 DEF Handler, ReportTerminal, ReportZremOrg, ReportZremFleet,
     ReportZremScope, ReportDelMapping, ReportFails, redis
<1>5. CASE UNCHANGED vars
  BY <1>5 DEF vars, redis
<1> QED  BY <1>1, <1>2, <1>3, <1>4, <1>5 DEF Next

LEMMA HoldStep ==
  ASSUME TypeOK, Order, DialledCallsHold, [Next]_vars
  PROVE  DialledCallsHold'
<1> USE DEF DialledCallsHold, TypeOK, Fresh
<1>1. CASE Tick
  BY <1>1 DEF Tick, Countdown
<1>2. ASSUME NEW a \in Attempts, Worker(a)  PROVE DialledCallsHold'
  <2>1. CASE Acquire(a)
    BY <2>1 DEF Acquire, OrgTrimmed, Goto
  <2>2. CASE Refused(a)
    BY <2>2 DEF Refused, OrgTrimmed, Goto
  <2>3. CASE RejectBeforeDial(a) \/ Dial(a) \/ DialReturns(a) \/ DialRefused(a) \/ DialRaises(a)
             \/ LinkRaises(a) \/ Cancel(a)
    BY <2>3 DEF RejectBeforeDial, Dial, DialReturns, DialRefused, DialRaises, LinkRaises, Cancel,
                redis, Goto, Order, NotYetDialled
  <2>4. CASE Bind(a) \/ Return(a) \/ NumberRaises(a)
    BY <2>4 DEF Bind, Return, NumberRaises, redis, Goto
  <2>5. CASE UnwindOrg(a) \/ UnwindFleet(a) \/ UnwindScope(a) \/ UnwindMapping(a)
             \/ UnwindFails(a)
    BY <2>5 DEF UnwindOrg, UnwindFleet, UnwindScope, UnwindMapping, UnwindFails,
                redis, Goto, Unwinding
  <2> QED  BY <1>2, <2>1, <2>2, <2>3, <2>4, <2>5 DEF Worker
<1>3. ASSUME NEW a \in Attempts, Provider(a)  PROVE DialledCallsHold'
  BY <1>3 DEF Provider, ProviderPlaces, HangUp, redis
<1>4. ASSUME NEW a \in Attempts, Handler(a)  PROVE DialledCallsHold'
  BY <1>4 DEF Handler, ReportTerminal, ReportZremOrg, ReportZremFleet, ReportZremScope,
     ReportDelMapping, ReportFails, redis, Order, ReportsOfEndedCalls
<1>5. CASE UNCHANGED vars
  BY <1>5 DEF vars, redis
<1> QED  BY <1>1, <1>2, <1>3, <1>4, <1>5 DEF Next

LEMMA MappingStep ==
  ASSUME TypeOK, Order, MappingOutlivesLease, [Next]_vars
  PROVE  MappingOutlivesLease'
<1> USE DEF MappingOutlivesLease, TypeOK
<1>1. CASE Tick
  BY <1>1 DEF Tick, Countdown
<1>2. ASSUME NEW a \in Attempts, Worker(a)  PROVE MappingOutlivesLease'
  <2>1. CASE Acquire(a)
    BY <2>1 DEF Acquire, OrgTrimmed, Goto
  <2>2. CASE Refused(a)
    BY <2>2 DEF Refused, OrgTrimmed, Goto
  <2>3. CASE RejectBeforeDial(a) \/ Dial(a) \/ DialReturns(a) \/ DialRefused(a) \/ DialRaises(a)
             \/ LinkRaises(a) \/ Cancel(a)
    BY <2>3 DEF RejectBeforeDial, Dial, DialReturns, DialRefused, DialRaises, LinkRaises, Cancel,
                redis, Goto
  <2>4. CASE Bind(a) \/ Return(a) \/ NumberRaises(a)
    BY <2>4, BoundsAssumption DEF Bind, Return, NumberRaises, redis, Goto
  <2>5. CASE UnwindOrg(a) \/ UnwindFleet(a) \/ UnwindScope(a) \/ UnwindMapping(a)
             \/ UnwindFails(a)
    BY <2>5 DEF UnwindOrg, UnwindFleet, UnwindScope, UnwindMapping, UnwindFails,
                redis, Goto, Unwinding
  <2> QED  BY <1>2, <2>1, <2>2, <2>3, <2>4, <2>5 DEF Worker
<1>3. ASSUME NEW a \in Attempts, Provider(a)  PROVE MappingOutlivesLease'
  BY <1>3 DEF Provider, ProviderPlaces, HangUp, redis
<1>4. ASSUME NEW a \in Attempts, Handler(a)  PROVE MappingOutlivesLease'
  BY <1>4 DEF Handler, ReportTerminal, ReportZremOrg, ReportZremFleet, ReportZremScope,
     ReportDelMapping, ReportFails, redis, Order, OrgReleasedFirst
<1>5. CASE UNCHANGED vars
  BY <1>5 DEF vars, redis
<1> QED  BY <1>1, <1>2, <1>3, <1>4, <1>5 DEF Next

LEMMA AgreeStep ==
  ASSUME TypeOK, Order, SlotSetsAgree, [Next]_vars
  PROVE  SlotSetsAgree'
<1> USE DEF SlotSetsAgree, TypeOK, Fresh
<1>1. CASE Tick
  BY <1>1 DEF Tick, Countdown
<1>2. ASSUME NEW a \in Attempts, Worker(a)  PROVE SlotSetsAgree'
  <2>1. CASE Acquire(a)
    BY <2>1 DEF Acquire, OrgTrimmed, ScopeTrimmed
  <2>2. CASE Refused(a)
    BY <2>2 DEF Refused, OrgTrimmed, ScopeTrimmed
  <2>3. CASE RejectBeforeDial(a) \/ Dial(a) \/ DialReturns(a) \/ DialRefused(a) \/ DialRaises(a)
             \/ LinkRaises(a) \/ Cancel(a)
    BY <2>3 DEF RejectBeforeDial, Dial, DialReturns, DialRefused, DialRaises, LinkRaises, Cancel, redis
  <2>4. CASE Bind(a) \/ Return(a) \/ NumberRaises(a)
    BY <2>4 DEF Bind, Return, NumberRaises, redis
  <2>5. CASE UnwindOrg(a) \/ UnwindFleet(a) \/ UnwindScope(a) \/ UnwindMapping(a)
             \/ UnwindFails(a)
    BY <2>5 DEF UnwindOrg, UnwindFleet, UnwindScope, UnwindMapping, UnwindFails,
                redis, Order, OrgReleasedFirst
  <2> QED  BY <1>2, <2>1, <2>2, <2>3, <2>4, <2>5 DEF Worker
<1>3. ASSUME NEW a \in Attempts, Provider(a)  PROVE SlotSetsAgree'
  BY <1>3 DEF Provider, ProviderPlaces, HangUp, redis
<1>4. ASSUME NEW a \in Attempts, Handler(a)  PROVE SlotSetsAgree'
  BY <1>4 DEF Handler, ReportTerminal, ReportZremOrg, ReportZremFleet, ReportZremScope,
     ReportDelMapping, ReportFails, redis, Order, OrgReleasedFirst
<1>5. CASE UNCHANGED vars
  BY <1>5 DEF vars, redis
<1> QED  BY <1>1, <1>2, <1>3, <1>4, <1>5 DEF Next

LEMMA ShrinkHolding ==
  ASSUME TypeOK, TypeOK', Shrinks
  PROVE  /\ Holding \in SUBSET Attempts
         /\ ScopeHolding \in SUBSET Attempts
         /\ Holding' \in SUBSET Holding
         /\ ScopeHolding' \in SUBSET ScopeHolding
<1>1. ASSUME NEW b \in Attempts  PROVE Fresh(b)' => Fresh(b)
  BY BoundsAssumption DEF TypeOK, Shrinks, Fresh
<1> QED  BY <1>1 DEF TypeOK, Shrinks, Fresh, Holding, ScopeHolding

\* Only a grant can exceed a limit, and its two comparisons prevent that.
LEMMA LimitsStep ==
  ASSUME TypeOK, Order, OrgWithin, ScopeWithin, [Next]_vars, TypeOK'
  PROVE  OrgWithin' /\ ScopeWithin'
<1>1. Holding \in SUBSET Attempts /\ ScopeHolding \in SUBSET Attempts
  BY DEF Holding, ScopeHolding, TypeOK
<1>2. ASSUME NEW a \in Attempts, Acquire(a)  PROVE OrgWithin' /\ ScopeWithin'
  <2>1. /\ Holding' = Holding \cup {a}
        /\ ScopeHolding' = ScopeHolding \cup {a}
        /\ InOrg(OrgTrimmed(a), a) = InOrg(Holding, a)
        /\ InScope(ScopeTrimmed(a), a) = InScope(ScopeHolding, a)
    BY <1>2, GrantStep
  <2>2. /\ ~(Cardinality(InOrg(Holding, a)) >= OrgLimit[OrgOf[a]])
        /\ ~(Cardinality(InScope(ScopeHolding, a)) >= ScopeLimit[CampaignOf[a]])
    BY <1>2, <2>1 DEF Acquire, OrgFull, ScopeFull
  <2>3. ASSUME NEW b \in Attempts
        PROVE  Cardinality(InOrg(Holding \cup {a}, b)) <= OrgLimit[OrgOf[b]]
    <3>1. Cardinality(InOrg(Holding, b)) \in Nat /\ Cardinality(InOrg(Holding \cup {a}, b)) \in Nat
      BY <1>1, CountSubset
    <3>2. CASE OrgOf[b] = OrgOf[a]
      <4>1. InOrg(Holding, b) = InOrg(Holding, a)
        BY <3>2 DEF InOrg
      <4>2. Cardinality(InOrg(Holding \cup {a}, b)) <= Cardinality(InOrg(Holding, b)) + 1
        BY <1>1, CountAdd
      <4> QED  BY <2>2, <3>1, <3>2, <4>1, <4>2, LimitsAssumption
    <3>3. CASE OrgOf[b] # OrgOf[a]
      <4>1. InOrg(Holding \cup {a}, b) = InOrg(Holding, b)
        BY <1>1, <3>3, CountAdd
      <4> QED  BY <4>1 DEF OrgWithin
    <3> QED  BY <3>2, <3>3
  <2>4. ASSUME NEW b \in Attempts
        PROVE  Cardinality(InScope(ScopeHolding \cup {a}, b)) <= ScopeLimit[CampaignOf[b]]
    <3>1. /\ Cardinality(InScope(ScopeHolding, b)) \in Nat
          /\ Cardinality(InScope(ScopeHolding \cup {a}, b)) \in Nat
      BY <1>1, CountSubset
    <3>2. CASE CampaignOf[b] = CampaignOf[a]
      <4>1. InScope(ScopeHolding, b) = InScope(ScopeHolding, a)
        BY <3>2 DEF InScope
      <4>2. Cardinality(InScope(ScopeHolding \cup {a}, b)) <= Cardinality(InScope(ScopeHolding, b)) + 1
        BY <1>1, CountAdd
      <4> QED  BY <2>2, <3>1, <3>2, <4>1, <4>2, LimitsAssumption
    <3>3. CASE CampaignOf[b] # CampaignOf[a]
      <4>1. InScope(ScopeHolding \cup {a}, b) = InScope(ScopeHolding, b)
        BY <1>1, <3>3, CountAdd
      <4> QED  BY <4>1 DEF ScopeWithin
    <3> QED  BY <3>2, <3>3
  <2>5. OrgWithin'
    BY <2>1, <2>3 DEF OrgWithin, InOrg
  <2>6. ScopeWithin'
    BY <2>1, <2>4 DEF ScopeWithin, InScope
  <2> QED  BY <2>5, <2>6
<1>3. ASSUME \A a \in Attempts : ~Acquire(a)  PROVE OrgWithin' /\ ScopeWithin'
  <2>1. Holding' \in SUBSET Holding /\ ScopeHolding' \in SUBSET ScopeHolding
    BY <1>3, StepShrinks, ShrinkHolding
  <2>2. ASSUME NEW a \in Attempts
        PROVE  /\ Cardinality(InOrg(Holding', a)) <= OrgLimit[OrgOf[a]]
               /\ Cardinality(InScope(ScopeHolding', a)) <= ScopeLimit[CampaignOf[a]]
    <3>1. /\ Cardinality(InOrg(Holding, a)) \in Nat
          /\ Cardinality(InOrg(Holding', a)) \in Nat
          /\ Cardinality(InOrg(Holding', a)) <= Cardinality(InOrg(Holding, a))
      BY <1>1, <2>1, CountSubset
    <3>2. /\ Cardinality(InScope(ScopeHolding, a)) \in Nat
          /\ Cardinality(InScope(ScopeHolding', a)) \in Nat
          /\ Cardinality(InScope(ScopeHolding', a)) <= Cardinality(InScope(ScopeHolding, a))
      BY <1>1, <2>1, CountSubset
    <3>3. /\ Cardinality(InOrg(Holding, a)) <= OrgLimit[OrgOf[a]]
          /\ Cardinality(InScope(ScopeHolding, a)) <= ScopeLimit[CampaignOf[a]]
      BY DEF OrgWithin, ScopeWithin
    <3> QED  BY <3>1, <3>2, <3>3, LimitsAssumption
  <2> QED  BY <2>2 DEF OrgWithin, ScopeWithin, InOrg, InScope
<1> QED  BY <1>2, <1>3

-----------------------------------------------------------------------------

LEMMA InitIInv == Init => IInv
<1> SUFFICES ASSUME Init PROVE IInv
  OBVIOUS
<1>1. TypeOK
  BY BoundsAssumption DEF Init, TypeOK, Steps, Calls, Reports
<1>2. Order /\ DialledCallsHold /\ MappingOutlivesLease /\ SlotSetsAgree
  BY DEF Init, Order, NotYetDialled, ReportsOfEndedCalls, OrgReleasedFirst,
         DialledCallsHold, MappingOutlivesLease, SlotSetsAgree
<1>3. ASSUME NEW a \in Attempts
      PROVE  InOrg(Holding, a) = {} /\ InScope(ScopeHolding, a) = {}
  BY DEF Init, Holding, ScopeHolding, InOrg, InScope
<1>4. OrgWithin /\ ScopeWithin
  BY <1>3, FS_EmptySet, LimitsAssumption DEF OrgWithin, ScopeWithin
<1> QED  BY <1>1, <1>2, <1>4 DEF IInv

LEMMA NextIInv == IInv /\ [Next]_vars => IInv'
<1> SUFFICES ASSUME IInv, [Next]_vars PROVE IInv'
  OBVIOUS
<1>1. TypeOK'
  BY TypeStep DEF IInv
<1>2. Order' /\ DialledCallsHold' /\ MappingOutlivesLease' /\ SlotSetsAgree'
  BY OrderStep, HoldStep, MappingStep, AgreeStep DEF IInv
<1>3. OrgWithin' /\ ScopeWithin'
  BY <1>1, LimitsStep DEF IInv
<1> QED  BY <1>1, <1>2, <1>3 DEF IInv

THEOREM Invariance == Spec => []IInv
BY InitIInv, NextIInv, PTL DEF Spec

\* The state of the slot store and of every dispatch is well-formed.
THEOREM TypeCorrect == Spec => []TypeOK
<1>1. IInv => TypeOK
  BY DEF IInv
<1> QED  BY <1>1, Invariance, PTL

\* No interleaving of dispatches, reports, lease expiry and failures puts more
\* tracked live calls on the phone than the organisation or the campaign may have.
THEOREM LimitsHold == Spec => []LiveCallsWithinLimits
<1>1. IInv => LiveCallsWithinLimits
  <2> SUFFICES ASSUME IInv PROVE LiveCallsWithinLimits
    OBVIOUS
  <2>1. Tracked \in SUBSET Holding
    BY DEF IInv, Tracked, Fresh, Holding, DialledCallsHold
  <2>2. Holding \in SUBSET ScopeHolding
    BY DEF IInv, Fresh, Holding, ScopeHolding, SlotSetsAgree
  <2>3. ScopeHolding \in SUBSET Attempts
    BY DEF IInv, TypeOK, ScopeHolding
  <2>4. ASSUME NEW a \in Attempts
        PROVE  /\ Cardinality(InOrg(Tracked, a)) <= OrgLimit[OrgOf[a]]
               /\ Cardinality(InScope(Tracked, a)) <= ScopeLimit[CampaignOf[a]]
    <3>1. /\ Cardinality(InOrg(Tracked, a)) \in Nat
          /\ Cardinality(InOrg(Holding, a)) \in Nat
          /\ Cardinality(InOrg(Tracked, a)) <= Cardinality(InOrg(Holding, a))
      BY <2>1, <2>2, <2>3, CountSubset
    <3>2. /\ Cardinality(InScope(Tracked, a)) \in Nat
          /\ Cardinality(InScope(ScopeHolding, a)) \in Nat
          /\ Cardinality(InScope(Tracked, a)) <= Cardinality(InScope(ScopeHolding, a))
      BY <2>1, <2>2, <2>3, CountSubset
    <3>3. /\ Cardinality(InOrg(Holding, a)) <= OrgLimit[OrgOf[a]]
          /\ Cardinality(InScope(ScopeHolding, a)) <= ScopeLimit[CampaignOf[a]]
      BY DEF IInv, OrgWithin, ScopeWithin
    <3> QED  BY <3>1, <3>2, <3>3, LimitsAssumption
  <2> QED  BY <2>4 DEF LiveCallsWithinLimits, Tracked
<1> QED  BY <1>1, Invariance, PTL

\* The terminal report of a bound call finds its slot as long as it counts.
THEOREM MappingKept == Spec => []BoundSlotKeepsMapping
<1>1. IInv => BoundSlotKeepsMapping
  BY BoundsAssumption DEF IInv, TypeOK, MappingOutlivesLease, BoundSlotKeepsMapping,
                          Fresh, Mapped
<1> QED  BY <1>1, Invariance, PTL

\* The three sets agree on every slot that counts.
THEOREM SetsAgree == Spec => []SlotSetsAgree
<1>1. IInv => SlotSetsAgree
  BY DEF IInv
<1> QED  BY <1>1, Invariance, PTL

\* A dispatch is turned away only by slots whose lease still runs.
THEOREM RefusalJustified == Spec => RefusedOnlyWhenFull
<1>1. IInv /\ [Next]_vars =>
        [\A a \in Attempts :
           pc[a] = "waiting" /\ pc'[a] = "refused" =>
             \/ Cardinality({b \in InOrg(orgSlots, a) : Fresh(b)}) >= OrgLimit[OrgOf[a]]
             \/ Cardinality({b \in InScope(scopeSlots, a) : Fresh(b)}) >= ScopeLimit[CampaignOf[a]]
        ]_vars
  <2> SUFFICES ASSUME IInv, Next, NEW a \in Attempts, pc[a] = "waiting", pc'[a] = "refused"
               PROVE  \/ Cardinality({b \in InOrg(orgSlots, a) : Fresh(b)}) >= OrgLimit[OrgOf[a]]
                      \/ Cardinality({b \in InScope(scopeSlots, a) : Fresh(b)})
                           >= ScopeLimit[CampaignOf[a]]
    OBVIOUS
  <2>1. Refused(a)
    <3>1. CASE Tick
      BY <3>1 DEF Tick
    <3>2. ASSUME NEW b \in Attempts, Worker(b)  PROVE Refused(a)
      <4>1. b = a \/ pc'[a] = pc[a]
        BY <3>2 DEF Worker, Acquire, Refused, RejectBeforeDial, Dial, DialReturns, DialRefused, DialRaises,
           LinkRaises, Bind, Return, NumberRaises, Cancel, UnwindOrg, UnwindFleet, UnwindScope,
           UnwindMapping, UnwindFails, Goto, IInv, TypeOK
      <4> QED  BY <3>2, <4>1 DEF Worker, Acquire, RejectBeforeDial, Dial, DialReturns, DialRefused, DialRaises,
             LinkRaises, Bind, Return, NumberRaises, Cancel, UnwindOrg, UnwindFleet, UnwindScope,
             UnwindMapping, UnwindFails, Unwinding, Goto, IInv, TypeOK
    <3>3. ASSUME NEW b \in Attempts, Provider(b) \/ Handler(b)  PROVE Refused(a)
      BY <3>3 DEF Provider, ProviderPlaces, HangUp, Handler, ReportTerminal, ReportZremOrg,
         ReportZremFleet, ReportZremScope, ReportDelMapping, ReportFails
    <3> QED  BY <3>1, <3>2, <3>3 DEF Next
  <2>2. /\ {b \in InOrg(orgSlots, a) : Fresh(b)} = InOrg(OrgTrimmed(a), a)
        /\ {b \in InScope(scopeSlots, a) : Fresh(b)} = InScope(ScopeTrimmed(a), a)
    BY DEF InOrg, InScope, OrgTrimmed, ScopeTrimmed
  <2> QED  BY <2>1, <2>2 DEF Refused, OrgFull, ScopeFull
<1> QED  BY <1>1, Invariance, PTL DEF Spec, RefusedOnlyWhenFull

-----------------------------------------------------------------------------
(* The sorted sets implement the abstract cap.                             *)

\* A grant is an admission.
LEMMA GrantEnters ==
  ASSUME IInv, NEW a \in Attempts, Acquire(a)
  PROVE  Admission!Enter(a)
<1>1. /\ Holding' = Holding \cup {a}
      /\ InOrg(OrgTrimmed(a), a) = InOrg(Holding, a)
      /\ InScope(ScopeTrimmed(a), a) = InScope(ScopeHolding, a)
      /\ a \notin Holding
  BY GrantStep DEF IInv
<1>2. /\ Cardinality(InOrg(Holding, a)) < OrgLimit[OrgOf[a]]
      /\ Cardinality(InScope(Holding, a)) < ScopeLimit[CampaignOf[a]]
  <2>1. Holding \in SUBSET ScopeHolding /\ ScopeHolding \in SUBSET Attempts
    BY DEF IInv, TypeOK, Fresh, Holding, ScopeHolding, SlotSetsAgree
  <2>2. /\ Cardinality(InOrg(Holding, a)) \in Nat
        /\ Cardinality(InScope(Holding, a)) \in Nat
        /\ Cardinality(InScope(ScopeHolding, a)) \in Nat
        /\ Cardinality(InScope(Holding, a)) <= Cardinality(InScope(ScopeHolding, a))
    BY <2>1, CountSubset
  <2>3. /\ ~(Cardinality(InOrg(Holding, a)) >= OrgLimit[OrgOf[a]])
        /\ ~(Cardinality(InScope(ScopeHolding, a)) >= ScopeLimit[CampaignOf[a]])
    BY <1>1 DEF Acquire, OrgFull, ScopeFull
  <2> QED  BY <2>2, <2>3, LimitsAssumption
<1>3. a \notin Out /\ Out' = Out \cup {a}
  BY DEF Out, Acquire, Goto, IInv, TypeOK
<1>4. (Out \ Holding)' = Out \ Holding
  BY <1>1, <1>3
<1>5. Admission!HasRoom(Holding, a)
  <2>1. \A S : Admission!Cardinality(S) = Cardinality(S)
    BY DEF Admission!Cardinality, Cardinality
  <2> QED  BY <1>2, <2>1 DEF Admission!HasRoom, Admission!InOrg, Admission!InScope, InOrg, InScope
<1>6. a \notin Holding \cup (Out \ Holding)
  BY <1>1, <1>3
<1> QED  BY <1>1, <1>4, <1>5, <1>6 DEF Admission!Enter

\* Every other step lets leases go, or changes nothing the cap can see.
LEMMA OtherLeaves ==
  ASSUME IInv, [Next]_vars, \A a \in Attempts : ~Acquire(a)
  PROVE  Admission!Leave(Holding \ Holding')
<1>1. Shrinks /\ TypeOK'
  BY StepShrinks, TypeStep DEF IInv
<1>2. Holding' \subseteq Holding
  BY <1>1, ShrinkHolding DEF IInv
<1>3. Out' = Out
  BY <1>1 DEF Out, Shrinks
<1>4. Holding \subseteq Out
  BY DEF IInv, TypeOK, Order, NotYetDialled, Holding, Out
<1> QED  BY <1>2, <1>3, <1>4 DEF Admission!Leave, Out

\* Every behaviour of the slot store is one of the abstract cap: an attempt is
\* admitted once, only when there is room, and never comes back.
THEOREM Refinement == Spec => ImplementsAdmission
<1>1. Init => Admission!Init
  BY DEF Init, Admission!Init, Holding, Out
<1>2. IInv /\ [Next]_vars => [Admission!Next]_Admission!avars
  <2> SUFFICES ASSUME IInv, [Next]_vars PROVE Admission!Next
    OBVIOUS
  <2>1. ASSUME NEW a \in Attempts, Acquire(a)  PROVE Admission!Next
    BY <2>1, GrantEnters DEF Admission!Next
  <2>2. ASSUME \A a \in Attempts : ~Acquire(a)  PROVE Admission!Next
    BY <2>2, OtherLeaves DEF Admission!Next
  <2> QED  BY <2>1, <2>2
<1> QED  BY <1>1, <1>2, Invariance, PTL DEF Spec, ImplementsAdmission, Admission!Spec
==============================================================================
