---------------------------- MODULE NumberLinks ----------------------------
(***************************************************************************)
(* Which agent a phone number rings: the agent's linked_phone_number, the  *)
(* inventory's agent_id, and the application the provider sends the calls  *)
(* of the number to.  A request holds the API's event loop except while it *)
(* awaits the provider; other requests run in between, and the request     *)
(* goes on with what it read before.                                       *)
(*   A call of the provider's API comes to one of three things: it is      *)
(* carried out; it fails; or it is carried out and its answer is lost,     *)
(* which the client reports as a failure.                                  *)
(*   Numbers are those of one organisation's account with one provider.    *)
(***************************************************************************)
EXTENDS Naturals, FiniteSets

CONSTANTS
  Agents, Numbers,
  Tasks,        \* requests the API may have in hand at once
  None,
  MaxApps,      \* bound: applications made at the providers
  MaxAsked,     \* bound: requests
  MaxRefusals   \* bound: calls of a provider's API, and names, refused

VARIABLES
  agents,    \* the document of each agent, or one that is not there
  phones,    \* number -> agent_id, None, or "unknown" to the inventory
  bound,     \* the provider: number -> application, or None
  live,      \* the applications that exist at the providers
  made,      \* applications made so far
  req,       \* what each task does
  asked, refusals,
  crossed    \* two requests have been under way over one agent or number

links == <<agents, phones, bound>>
vars  == <<agents, phones, bound, live, made, req, asked, refusals, crossed>>

\* The provider of the numbers, another one, one that only streams inbound
\* calls, or no telephony at all.
Kinds == {"vendor", "other", "inbound", "websocket"}
HasApp(kind) == kind \in {"vendor", "other"}

NoAgent == [kind |-> None, app |-> None, linked |-> None]
There(a) == agents[a] # NoAgent

Idle == [op |-> "none", pc |-> "idle", agent |-> None, number |-> None, kind |-> None,
         prev |-> None, app |-> None, known |-> FALSE, touches |-> {}]

Init ==
  /\ agents = [a \in Agents |-> NoAgent]
  /\ phones = [n \in Numbers |-> "unknown"] /\ bound = [n \in Numbers |-> None]
  /\ live = {} /\ made = 0
  /\ req = [t \in Tasks |-> Idle]
  /\ asked = 0 /\ refusals = 0 /\ crossed = FALSE

Refusal == refusals < MaxRefusals /\ refusals' = refusals + 1
Well    == UNCHANGED refusals

At(t, pc) == req[t].pc = pc
Goes(t, pc) == req' = [req EXCEPT ![t].pc = pc]
Returns(t) == req' = [req EXCEPT ![t] = Idle]

---------------------------------------------------------------------------
(* The writes.                                                             *)

Owned(n) == phones[n] \in Agents
NumbersOf(a) == {n \in Numbers : phones[n] = a}

\* _clear_agent_linked_number, when it finds the agent.
Cleared(a) == IF There(a) THEN [agents EXCEPT ![a].linked = None] ELSE agents

\* The write that ends attach.  A number that came to the inventory while this
\* request took it for unknown is refused by the unique index.
Attached(n, a, known) ==
  IF ~known /\ phones[n] # "unknown" THEN UNCHANGED <<agents, phones>>
  ELSE /\ phones' = [phones EXCEPT ![n] = a]
       /\ agents' = IF a # None /\ There(a) THEN [agents EXCEPT ![a].linked = n] ELSE agents

\* detach, once the provider has been told.
Detached(n, a) == phones' = [phones EXCEPT ![n] = None] /\ agents' = Cleared(a)

\* update_agent's update_one; an agent deleted meanwhile stays so.
Changed(a, kind, app) ==
  agents' = IF There(a)
            THEN [agents EXCEPT ![a] = [kind |-> kind, app |-> app, linked |-> None]]
            ELSE agents

---------------------------------------------------------------------------
(* Requests.  r says what is asked; its number and agent bring along the   *)
(* agent and the number they are linked with.                              *)

Reach(r) ==
  LET as == {r.agent} \cap Agents  ns == {r.number} \cap Numbers IN
  as \cup ns \cup UNION {NumbersOf(a) : a \in as}
     \cup {agents[a].linked : a \in as} \cup {phones[n] : n \in ns}

Ask(t, r) ==
  /\ At(t, "idle") /\ asked < MaxAsked
  /\ asked' = asked + 1
  /\ LET touches == Reach(r) \cap (Agents \cup Numbers) IN
     /\ req' = [req EXCEPT ![t] = [r EXCEPT !.touches = touches]]
     /\ crossed' = (crossed \/ \E u \in Tasks : req[u].touches \cap touches # {})
  /\ Well

\* attach, its checks: a dialling agent of the provider without another number.
\* The owner there is, if another, is unlinked first.
AskAttach(t, n, a) ==
  /\ There(a) /\ agents[a].kind = "vendor"
  /\ NumbersOf(a) \subseteq {n}
  /\ Ask(t, [Idle EXCEPT !.op = "attach", !.number = n, !.agent = a,
               !.prev = phones[n], !.app = agents[a].app, !.known = phones[n] # "unknown",
               !.pc = IF Owned(n) /\ phones[n] # a THEN "unlink" ELSE "link"])
  /\ UNCHANGED <<links, live, made>>

\* attach without an agent: the number is imported, and taken from its owner.
AskImport(t, n) ==
  /\ Owned(n)
  /\ Ask(t, [Idle EXCEPT !.op = "attach", !.number = n, !.prev = phones[n],
               !.known = TRUE, !.pc = "unlink"])
  /\ UNCHANGED <<links, live, made>>

Import(n) ==
  /\ ~Owned(n) /\ asked < MaxAsked
  /\ Attached(n, None, TRUE)
  /\ asked' = asked + 1
  /\ Well /\ UNCHANGED <<bound, live, made, req, crossed>>

AskDetach(t, n) ==
  /\ Owned(n)
  /\ Ask(t, [Idle EXCEPT !.op = "detach", !.number = n, !.prev = phones[n], !.pc = "unlink"])
  /\ UNCHANGED <<links, live, made>>

\* create_agent; an agent_id is used once.
AskCreate(t, a, kind) ==
  /\ ~There(a) /\ \A u \in Tasks : req[u].agent # a
  /\ Ask(t, [Idle EXCEPT !.op = "create", !.agent = a, !.kind = kind,
               !.pc = IF HasApp(kind) THEN "provision" ELSE "insert"])
  /\ UNCHANGED <<links, live, made>>

\* detach_from_agent, the number it finds: the inventory's, or else the agent's.
Found(a) ==
  IF NumbersOf(a) # {} THEN NumbersOf(a) ELSE {agents[a].linked}

\* update_agent to another kind, and delete_agent, begin by it.
AskChange(t, a, op, kind) ==
  /\ There(a) /\ agents[a].kind # kind
  /\ \E n \in Found(a) :
       Ask(t, [Idle EXCEPT !.op = op, !.agent = a, !.kind = kind, !.number = n,
                 !.app = agents[a].app,
                 !.prev = IF n # None /\ Owned(n) THEN phones[n] ELSE None,
                 !.pc = CASE n = None -> "delete_app"
                          [] n # None /\ Owned(n) -> "unlink"
                          [] OTHER -> "fallback"])
  /\ UNCHANGED <<links, live, made>>

---------------------------------------------------------------------------
(* The awaits of the provider.                                             *)

\* The provider has let go of the number: what each request does next.
Unlinked(t) ==
  LET r == req[t] IN
  /\ CASE r.op = "attach" ->
            IF r.agent = None
            THEN /\ phones' = [phones EXCEPT ![r.number] = None]
                 /\ agents' = Cleared(r.prev) /\ Returns(t)
            ELSE agents' = Cleared(r.prev) /\ UNCHANGED phones /\ Goes(t, "link")
       [] r.op = "detach" -> Detached(r.number, r.prev) /\ Returns(t)
       [] OTHER -> Detached(r.number, r.prev) /\ Goes(t, "delete_app")

\* A slip: the failure is ignored, and the owner's link left for later.
NotUnlinked_Ignored(t) ==
  LET r == req[t] IN
  /\ CASE r.op = "attach" /\ r.agent # None -> Goes(t, "link")
       [] r.op \in {"attach", "detach"} -> Returns(t)
       [] OTHER -> Goes(t, "fallback")
  /\ UNCHANGED <<agents, phones>>

\* attach goes on whatever became of the unlink; a DELETE /detach goes on only
\* after its success, and what begins by detach_from_agent clears the link anyway.
NotUnlinked(t) ==
  CASE req[t].op = "attach" -> Unlinked(t)
    [] req[t].op = "detach" -> Returns(t) /\ UNCHANGED <<agents, phones>>
    [] OTHER -> Goes(t, "fallback") /\ UNCHANGED <<agents, phones>>

UnlinkNumber(t) ==
  LET freed == [bound EXCEPT ![req[t].number] = None] IN
  /\ At(t, "unlink")
  /\ \/ Well /\ bound' = freed /\ Unlinked(t)
     \/ Refusal /\ bound' \in {bound, freed} /\ NotUnlinked(t)
  /\ UNCHANGED <<live, made, asked, crossed>>

\* detach_from_agent's except clause: the agent it was called for, and the
\* number whosesoever it is by now.
Fallback(t) ==
  /\ At(t, "fallback")
  /\ Detached(req[t].number, req[t].agent)
  /\ Goes(t, "delete_app")
  /\ Well /\ UNCHANGED <<bound, live, made, asked, crossed>>

\* No number is bound to an application that is gone.
LinkNumber(t) ==
  LET r == req[t]
      taken == [bound EXCEPT ![r.number] = r.app]
  IN
  /\ At(t, "link") /\ Returns(t)
  /\ \/ /\ r.app \in live /\ Well /\ bound' = taken
        /\ Attached(r.number, r.agent, r.known)
     \/ /\ r.app \in live /\ Refusal /\ bound' \in {bound, taken}
        /\ UNCHANGED <<agents, phones>>
     \/ r.app \notin live /\ Well /\ UNCHANGED links
  /\ UNCHANGED <<live, made, asked, crossed>>

\* Best effort: update_agent and delete_agent go on whatever came of it.
DeleteApplication(t) ==
  LET r == req[t]
      next == IF r.op = "delete" THEN "remove"
              ELSE IF HasApp(r.kind) THEN "provision" ELSE "write"
  IN
  /\ At(t, "delete_app")
  /\ \/ Well /\ live' = live \ {r.app}
     \/ r.app # None /\ Refusal /\ live' \in {live, live \ {r.app}}
  /\ req' = [req EXCEPT ![t].pc = next, ![t].app = None]
  /\ UNCHANGED <<links, made, asked, crossed>>

\* A failure ends the request: the agent keeps what it had, deleted or not.
ProvisionApplication(t) ==
  LET app == made + 1  r == req[t] IN
  /\ At(t, "provision") /\ made < MaxApps
  /\ \/ /\ Well /\ live' = live \cup {app} /\ made' = app
        /\ req' = [req EXCEPT ![t].app = app,
                     ![t].pc = IF r.op = "create" THEN "insert" ELSE "write"]
     \/ /\ Refusal /\ Returns(t)
        /\ \/ UNCHANGED <<live, made>>
           \/ live' = live \cup {app} /\ made' = app
  /\ UNCHANGED <<links, asked, crossed>>

\* The name is free, or another agent's: the new application is deleted again.
Write(t) ==
  LET r == req[t] IN
  /\ req[t].pc \in {"insert", "write"}
  /\ \/ /\ Well /\ Returns(t) /\ UNCHANGED <<phones, bound>>
        /\ IF r.op = "create"
           THEN agents' = [agents EXCEPT ![r.agent] =
                             [kind |-> r.kind, app |-> r.app, linked |-> None]]
           ELSE Changed(r.agent, r.kind, r.app)
     \/ /\ Refusal /\ UNCHANGED links
        /\ IF r.app # None THEN Goes(t, "undo") ELSE Returns(t)
  /\ UNCHANGED <<live, made, asked, crossed>>

Undo(t) ==
  /\ At(t, "undo") /\ Returns(t)
  /\ \/ Well /\ live' = live \ {req[t].app}
     \/ Refusal /\ live' \in {live, live \ {req[t].app}}
  /\ UNCHANGED <<links, made, asked, crossed>>

Remove(t) ==
  /\ At(t, "remove") /\ Returns(t)
  /\ agents' = [agents EXCEPT ![req[t].agent] = NoAgent]
  /\ Well /\ UNCHANGED <<phones, bound, live, made, asked, crossed>>

---------------------------------------------------------------------------
Attach(t) == \E n \in Numbers : (\E a \in Agents : AskAttach(t, n, a)) \/ AskImport(t, n)
Detach(t) == \E n \in Numbers : AskDetach(t, n)
AgentRequest(t) ==
  \E a \in Agents :
    \/ \E kind \in Kinds : AskCreate(t, a, kind) \/ AskChange(t, a, "update", kind)
    \/ AskChange(t, a, "delete", None)
GoesOn(t) ==
  \/ UnlinkNumber(t) \/ Fallback(t) \/ LinkNumber(t)
  \/ DeleteApplication(t) \/ ProvisionApplication(t) \/ Write(t) \/ Undo(t) \/ Remove(t)

Next ==
  \/ \E t \in Tasks : Attach(t) \/ Detach(t) \/ AgentRequest(t) \/ GoesOn(t)
  \/ \E n \in Numbers : Import(n)

Spec == Init /\ [][Next]_vars

---------------------------------------------------------------------------
Apps == 1 .. MaxApps

\* Type correctness.
TypeOK ==
  /\ agents \in [Agents -> {NoAgent} \cup
                   [kind: Kinds, app: Apps \cup {None}, linked: Numbers \cup {None}]]
  /\ phones \in [Numbers -> Agents \cup {None, "unknown"}]
  /\ bound \in [Numbers -> Apps \cup {None}]
  /\ live \subseteq Apps /\ made \in 0 .. MaxApps
  /\ \A t \in Tasks : req[t].touches \subseteq Agents \cup Numbers
  /\ asked \in 0 .. MaxAsked /\ refusals \in 0 .. MaxRefusals /\ crossed \in BOOLEAN

\* Whatever the provider refused and whichever request broke off half way: the
\* number an agent shows is its own in the inventory, and its calls go to the
\* agent's application or nowhere, never to another agent's.  Requests that
\* cross over one agent or number are promised nothing: no check is made again
\* after an await.
RoutedAlike ==
  ~crossed =>
    \A a \in Agents : LET n == agents[a].linked IN
      n # None => phones[n] = a /\ bound[n] \in {agents[a].app, None}
=============================================================================
