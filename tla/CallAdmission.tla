---------------------------- MODULE CallAdmission ----------------------------
(***************************************************************************)
(* What the concurrency cap promises, with no trace of how Redis keeps it: *)
(* an attempt to place a call is admitted at most once, it leaves at most  *)
(* once, and at every moment no organisation has more than OrgLimit        *)
(* attempts inside and no campaign more than ScopeLimit.  CallSlots shows  *)
(* that the sorted sets, the leases and the lazy trimming implement this.  *)
(***************************************************************************)
EXTENDS Naturals, FiniteSets

CONSTANTS
  Attempts,     \* attempts to place a call, one per claimed queued run
  OrgOf,        \* the organisation an attempt is charged to
  CampaignOf,   \* the campaign an attempt is charged to
  OrgLimit,     \* organisation -> how many of its attempts may be inside
  ScopeLimit    \* campaign -> how many of its attempts may be inside

VARIABLES
  inside,       \* admitted attempts whose lease still counts
  left          \* attempts whose admission is over for good

avars == <<inside, left>>

-----------------------------------------------------------------------------

InOrg(S, a)   == {b \in S : OrgOf[b] = OrgOf[a]}
InScope(S, a) == {b \in S : CampaignOf[b] = CampaignOf[a]}

\* Both caps have room for a.
HasRoom(S, a) ==
  /\ Cardinality(InOrg(S, a)) < OrgLimit[OrgOf[a]]
  /\ Cardinality(InScope(S, a)) < ScopeLimit[CampaignOf[a]]

Init ==
  /\ inside = {}
  /\ left = {}

Enter(a) ==
  /\ a \notin inside \cup left
  /\ HasRoom(inside, a)
  /\ inside' = inside \cup {a}
  /\ UNCHANGED left

\* Several leases may run out at the same instant.
Leave(S) ==
  /\ inside' = inside \ S
  /\ left' = left \cup S

Next ==
  \/ \E a \in Attempts : Enter(a)
  \/ \E S \in SUBSET inside : Leave(S)

Spec == Init /\ [][Next]_avars

-----------------------------------------------------------------------------

\* The cap itself: no organisation and no campaign is ever over its limit.
WithinLimits ==
  \A a \in inside :
    /\ Cardinality(InOrg(inside, a)) <= OrgLimit[OrgOf[a]]
    /\ Cardinality(InScope(inside, a)) <= ScopeLimit[CampaignOf[a]]
==============================================================================
