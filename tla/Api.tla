-------------------------------- MODULE Api --------------------------------
(***************************************************************************)
(* The parts of the API side by side: CallLog itself, and with it          *)
(* CampaignApi and NumberLinks.  They keep different collections; a        *)
(* behaviour here is one of one part, chosen in the initial state.  What   *)
(* crosses from one part to another is in the parts: the campaign's        *)
(* reports in CampaignApi, the campaign's end of a call in CallLog.        *)
(***************************************************************************)
EXTENDS CallLog

CONSTANTS
  Tasks, None,
  \* of CampaignApi, whose Responses are Endings here
  Contacts, Blank, Window, MinCalls, Requests, Endings, Retried,
  MaxTime, MaxTries, MaxRequests, MaxFaults,
  \* of NumberLinks, whose Numbers are PhoneNumbers here
  Agents, PhoneNumbers, MaxApps, MaxAsked, MaxRefusals

\* A configuration of the breaker asks for some calls over some time; a request is
\* a verb and a campaign; no call ends as one that was not made or goes on.
ASSUME CampaignAssumption ==
  /\ IsFiniteSet(Contacts) /\ None \notin Tasks
  /\ Requests \subseteq
       {"start", "pause", "resume", "delete", "redial"} \X {"parent", "child"}
  /\ Endings \cap {"none", "pending"} = {}
  /\ {Window, MinCalls, MaxTime} \subseteq Nat \ {0}
  /\ {MaxTries, MaxRequests, MaxFaults} \subseteq Nat

\* An agent, a number and an application are three things, and None is none.
ASSUME NumbersAssumption ==
  /\ Agents \cap PhoneNumbers = {}
  /\ (Agents \cup PhoneNumbers) \cap (Nat \cup {"unknown"}) = {}
  /\ None \notin Agents \cup PhoneNumbers \cup Nat \cup {"unknown"}
  /\ {MaxApps, MaxAsked, MaxRefusals} \subseteq Nat

VARIABLES
  part,
  \* CampaignApi
  camp, rows, calls, reports, task, loop, job, tries, fails, succs, source, now, asked,
  faults, outcomes, stranded, late,
  \* NumberLinks
  agents, phones, bound, live, made, req, n_asked, refusals, crossed

campaignVars == <<camp, rows, calls, reports, task, loop, job, tries, fails, succs,
                  source, now, asked, faults, outcomes, stranded, late>>
numberVars   == <<agents, phones, bound, live, made, req, n_asked, refusals, crossed>>
apiVars      == <<part, campaignVars, vars, numberVars>>

Campaign == INSTANCE CampaignApi WITH Responses <- Endings

Numbers == INSTANCE NumberLinks WITH Numbers <- PhoneNumbers, asked <- n_asked

ApiInit ==
  /\ part \in {"campaign", "log", "numbers"}
  /\ Campaign!Init /\ Init /\ Numbers!Init
  /\ part # "log" => kind = "web"
  /\ part # "campaign" => source = {}

ApiNext ==
  /\ UNCHANGED part
  /\ \/ part = "campaign" /\ Campaign!Next /\ UNCHANGED <<vars, numberVars>>
     \/ part = "log" /\ Next /\ UNCHANGED <<campaignVars, numberVars>>
     \/ part = "numbers" /\ Numbers!Next /\ UNCHANGED <<campaignVars, vars>>

ApiSpec == ApiInit /\ [][ApiNext]_apiVars

---------------------------------------------------------------------------
\* Type correctness of every part.
ApiTypeOK ==
  CASE part = "campaign" -> Campaign!TypeOK
    [] part = "log" -> TypeOK
    [] part = "numbers" -> Numbers!TypeOK

\* total_rows is the number of contacts a campaign was given.
TotalMatchesRows == part = "campaign" => Campaign!TotalMatchesRows

\* A campaign that is syncing has its job, or a fault has cost it.
SyncingHasJob == part = "campaign" => Campaign!SyncingHasJob

\* No handler that begins after a campaign's end revives it.
EndedIsLeftAlone == part = "campaign" => Campaign!EndedIsLeftAlone

\* The circuit breaker trips on what happened of late.
TripIsFresh == Campaign!TripIsFresh

\* Agent, inventory and provider say the same of a number.
RoutedAlike == part = "numbers" => Numbers!RoutedAlike
=============================================================================
