------------------------------ MODULE ApiProofs ------------------------------
(***************************************************************************)
(* Proofs about the parts of the API, for any agents, numbers, contacts,   *)
(* tasks, requests and faults: that agent, inventory and provider say the  *)
(* same of a phone number, as long as no two requests have been under way  *)
(* over one agent or number; and that a campaign keeps its job and its     *)
(* numbers, that its end stands and its breaker trips on what is fresh.    *)
(***************************************************************************)
EXTENDS Api, CallLogProofs, FiniteSetTheorems

---------------------------------------------------------------------------
(* NumberLinks: the inductive invariant.                                   *)

Ops == {"none", "attach", "detach", "create", "update", "delete"}

\* The steps a request of each kind takes.
StepsOf(op) ==
  CASE op = "none"   -> {"idle"}
    [] op = "attach" -> {"unlink", "link"}
    [] op = "detach" -> {"unlink"}
    [] op = "create" -> {"provision", "insert", "undo"}
    [] op = "update" -> {"unlink", "fallback", "delete_app", "provision", "write", "undo"}
    [] op = "delete" -> {"unlink", "fallback", "delete_app", "remove"}

Steps == {"idle", "unlink", "link", "fallback", "delete_app", "provision", "insert",
          "write", "undo", "remove"}

Asked ==
  [op: Ops, pc: Steps, agent: Agents \cup {None}, number: PhoneNumbers \cup {None},
   kind: Numbers!Kinds \cup {None}, prev: Agents \cup {None, "unknown"},
   app: Numbers!Apps \cup {None}, known: BOOLEAN,
    touches: SUBSET (Agents \cup PhoneNumbers)]

\* A request is at one of its own steps, and has what that step uses.
ReqOK(r) ==
  /\ r.pc \in StepsOf(r.op)
  /\ r.op \in {"create", "update", "delete"} => r.agent \in Agents
  /\ r.op \in {"create", "update"} => r.kind \in Numbers!Kinds
  /\ r.pc \in {"unlink", "fallback", "link"} => r.number \in PhoneNumbers
  /\ r.pc = "unlink" => r.prev \in Agents
  /\ r.pc = "link" => r.agent \in Agents

RequestsOK == req \in [Tasks -> Asked] /\ \A t \in Tasks : ReqOK(req[t])

\* A request has reached for its own agent and number, and no other has.
Apart ==
  /\ \A t \in Tasks : {req[t].agent, req[t].number} \ {None} \subseteq req[t].touches
  /\ \A t, u \in Tasks : t # u => req[t].touches \cap req[u].touches = {}

\* What a request read is still so: the owner it unlinks, or the number it frees.
ReadStands(t) ==
  /\ req[t].pc = "unlink" =>
       /\ phones[req[t].number] = req[t].prev
       /\ req[t].op \in {"update", "delete"} => req[t].prev = req[t].agent
  /\ req[t].pc = "fallback" => phones[req[t].number] = req[t].agent

\* The application an attach has read is its agent's, and once the number is
\* about to be linked no other agent shows it.
FreeToLink(t) ==
  /\ req[t].op = "attach" /\ req[t].agent # None => agents[req[t].agent].app = req[t].app
  /\ req[t].pc = "link" =>
       \A b \in Agents : agents[b].linked = req[t].number => b = req[t].agent

\* What the links promise.
Links ==
  \A a \in Agents : LET n == agents[a].linked IN
    n # None => phones[n] = a /\ bound[n] \in {agents[a].app, None}

Uncrossed ==
  Apart /\ Links /\ \A t \in Tasks : ReadStands(t) /\ FreeToLink(t)

LinksInv == Numbers!TypeOK /\ RequestsOK /\ (~crossed => Uncrossed)

NumbersInv == part = "numbers" => LinksInv

---------------------------------------------------------------------------
(* NumberLinks: lemmas about the operators.                                *)

AgentDocs == {Numbers!NoAgent} \cup
  [kind: Numbers!Kinds, app: Numbers!Apps \cup {None}, linked: PhoneNumbers \cup {None}]

USE DEF Numbers!Well, Numbers!Refusal

\* What the assumption says of each constant.
LEMMA NumbersConstants ==
  /\ MaxApps \in Nat /\ MaxAsked \in Nat /\ MaxRefusals \in Nat
  /\ None \notin Agents /\ None \notin PhoneNumbers /\ "unknown" \notin Agents
  /\ None # "unknown" /\ \A n \in Nat : n # None
  /\ \A a \in Agents : a \notin PhoneNumbers
  BY NumbersAssumption

\* A well-typed state, named part by part.
LEMMA NumbersTyped ==
  Numbers!TypeOK =>
    /\ agents \in [Agents -> AgentDocs]
    /\ phones \in [PhoneNumbers -> Agents \cup {None, "unknown"}]
    /\ bound \in [PhoneNumbers -> Numbers!Apps \cup {None}]
    /\ live \subseteq Numbers!Apps /\ made \in 0 .. MaxApps
    /\ n_asked \in 0 .. MaxAsked /\ refusals \in 0 .. MaxRefusals
  BY DEF Numbers!TypeOK, AgentDocs

\* An agent's document has the fields of one, there or not.
LEMMA AgentFields ==
  ASSUME agents \in [Agents -> AgentDocs], NEW a \in Agents
  PROVE  /\ agents[a].app \in Numbers!Apps \cup {None}
         /\ agents[a].linked \in PhoneNumbers \cup {None}
         /\ agents[a].kind \in Numbers!Kinds \cup {None}
  BY DEF AgentDocs, Numbers!NoAgent

\* An idle request is one.
LEMMA IdleIsAsked == Numbers!Idle \in Asked /\ ReqOK(Numbers!Idle)
  BY NumbersConstants DEF Numbers!Idle, Asked, ReqOK, Ops, Steps, StepsOf

\* The clearing of an agent takes at most its number away.
LEMMA ClearedAgents ==
  ASSUME agents \in [Agents -> AgentDocs], NEW a \in Agents
  PROVE  /\ Numbers!Cleared(a) \in [Agents -> AgentDocs]
         /\ \A b \in Agents :
              /\ Numbers!Cleared(a)[b].app = agents[b].app
              /\ Numbers!Cleared(a)[b].linked \in {agents[b].linked, None}
         /\ Numbers!Cleared(a)[a].linked = None
<1>1. CASE Numbers!There(a)
  <2>1. agents[a] \in AgentDocs /\ agents[a] # Numbers!NoAgent
    BY <1>1 DEF Numbers!There
  <2> DEFINE d == [agents[a] EXCEPT !.linked = None]
  <2>2. d \in AgentDocs /\ d.app = agents[a].app /\ d.linked = None
    BY <2>1 DEF AgentDocs
  <2>3. Numbers!Cleared(a) = [agents EXCEPT ![a] = d]
    BY <1>1 DEF Numbers!Cleared
  <2> QED
    BY <2>2, <2>3
<1>2. CASE ~Numbers!There(a)
  BY <1>2 DEF Numbers!Cleared, Numbers!There, Numbers!NoAgent
<1> QED
  BY <1>1, <1>2

\* What a request's await of the provider's unlink comes to.
LEMMA UnlinkComesTo ==
  ASSUME Numbers!TypeOK, RequestsOK, NEW t \in Tasks, Numbers!UnlinkNumber(t)
  PROVE  /\ req[t].pc = "unlink" /\ req[t].number \in PhoneNumbers /\ req[t].prev \in Agents
         /\ bound' \in {bound, [bound EXCEPT ![req[t].number] = None]}
         /\ \/ /\ Numbers!Detached(req[t].number, req[t].prev)
               /\ \/ Numbers!Returns(t)
                  \/ req[t].op \in {"update", "delete"} /\ Numbers!Goes(t, "delete_app")
            \/ /\ agents' = Numbers!Cleared(req[t].prev) /\ phones' = phones
               /\ req[t].op = "attach" /\ req[t].agent \in Agents /\ Numbers!Goes(t, "link")
            \/ /\ agents' = agents /\ phones' = phones
               /\ \/ Numbers!Returns(t)
                  \/ req[t].op \in {"update", "delete"} /\ Numbers!Goes(t, "fallback")
         /\ refusals' \in 0 .. MaxRefusals
         /\ UNCHANGED <<live, made, n_asked, crossed>>
<1>1. req[t] \in Asked /\ ReqOK(req[t]) /\ req[t].pc = "unlink"
  BY DEF RequestsOK, Numbers!UnlinkNumber, Numbers!At
<1>2. /\ req[t].number \in PhoneNumbers /\ req[t].prev \in Agents
      /\ req[t].agent \in Agents \cup {None}
      /\ req[t].op \in {"attach", "detach", "update", "delete"}
  BY <1>1 DEF ReqOK, Asked, Ops, StepsOf
<1>3. bound' \in {bound, [bound EXCEPT ![req[t].number] = None]}
  BY DEF Numbers!UnlinkNumber
<1>4. refusals' \in 0 .. MaxRefusals /\ UNCHANGED <<live, made, n_asked, crossed>>
  BY NumbersTyped, NumbersConstants DEF Numbers!UnlinkNumber
<1>5. Numbers!Unlinked(t) \/ Numbers!NotUnlinked(t)
  BY DEF Numbers!UnlinkNumber
<1>6. CASE Numbers!Unlinked(t)
  BY <1>1, <1>2, <1>3, <1>4, <1>6 DEF Numbers!Unlinked, Numbers!Detached
<1>7. CASE Numbers!NotUnlinked(t) /\ ~Numbers!Unlinked(t)
  BY <1>1, <1>2, <1>3, <1>4, <1>7 DEF Numbers!NotUnlinked
<1> QED
  BY <1>5, <1>6, <1>7

---------------------------------------------------------------------------
(* NumberLinks: type correctness.                                          *)

\* A request replaced by a sound one leaves all of them sound.
LEMMA RequestsStay ==
  ASSUME RequestsOK, NEW t \in Tasks, NEW r \in Asked, ReqOK(r),
         req' = [req EXCEPT ![t] = r]
  PROVE  RequestsOK'
<1>1. \A u \in Tasks : req'[u] = IF u = t THEN r ELSE req[u]
  BY DEF RequestsOK
<1>2. req' \in [Tasks -> Asked]
  BY DEF RequestsOK
<1>3. \A u \in Tasks : ReqOK(req'[u])
  BY <1>1 DEF RequestsOK
<1> QED
  BY <1>2, <1>3 DEF RequestsOK, ReqOK, StepsOf

\* A request that returns, or that goes on to a step it may take.
LEMMA RequestsMove ==
  ASSUME RequestsOK, NEW t \in Tasks
  PROVE  /\ Numbers!Returns(t) => RequestsOK'
         /\ \A pc \in Steps :
              Numbers!Goes(t, pc) /\ ReqOK([req[t] EXCEPT !.pc = pc]) => RequestsOK'
<1>1. req \in [Tasks -> Asked] /\ req[t] \in Asked
  BY DEF RequestsOK
<1>2. ASSUME Numbers!Returns(t) PROVE RequestsOK'
  BY <1>2, RequestsStay, IdleIsAsked DEF Numbers!Returns
<1>3. ASSUME NEW pc \in Steps, Numbers!Goes(t, pc), ReqOK([req[t] EXCEPT !.pc = pc])
      PROVE  RequestsOK'
  <2>1. [req[t] EXCEPT !.pc = pc] \in Asked
    BY <1>1 DEF Asked
  <2>2. req' = [req EXCEPT ![t] = [req[t] EXCEPT !.pc = pc]]
    BY <1>1, <1>3 DEF Numbers!Goes
  <2> QED
    BY <2>1, <2>2, <1>3, RequestsStay
<1> QED
  BY <1>2, <1>3

\* A new request is sound if what is asked is.
LEMMA AskOK ==
  ASSUME Numbers!TypeOK, RequestsOK, NEW t \in Tasks, NEW r \in Asked, ReqOK(r),
         Numbers!Ask(t, r)
  PROVE  RequestsOK' /\ n_asked' \in 0 .. MaxAsked /\ refusals' = refusals
<1> DEFINE s == [r EXCEPT !.touches = Numbers!Reach(r) \cap (Agents \cup PhoneNumbers)]
<1>1. req' = [req EXCEPT ![t] = s] /\ refusals' = refusals
  BY DEF Numbers!Ask
<1>2. s \in Asked /\ ReqOK(s)
  BY DEF Asked, ReqOK, StepsOf
<1>3. n_asked' \in 0 .. MaxAsked
  BY NumbersTyped, NumbersConstants DEF Numbers!Ask
<1> QED
  BY <1>1, <1>2, <1>3, RequestsStay

\* The requests a client may make are sound.
LEMMA RequestsBegin ==
  ASSUME Numbers!TypeOK, RequestsOK, NEW t \in Tasks
  PROVE  /\ Numbers!Attach(t) \/ Numbers!Detach(t) \/ Numbers!AgentRequest(t)
              => /\ RequestsOK' /\ n_asked' \in 0 .. MaxAsked
                 /\ UNCHANGED <<agents, phones, bound, live, made, refusals>>
<1>1. ASSUME NEW n \in PhoneNumbers, NEW a \in Agents, Numbers!AskAttach(t, n, a)
      PROVE  RequestsOK' /\ n_asked' \in 0 .. MaxAsked
  <2> DEFINE r == [Numbers!Idle EXCEPT !.op = "attach", !.number = n, !.agent = a,
                     !.prev = phones[n], !.app = agents[a].app,
                     !.known = phones[n] # "unknown",
                     !.pc = IF Numbers!Owned(n) /\ phones[n] # a THEN "unlink" ELSE "link"]
  <2>1. /\ agents[a].app \in Numbers!Apps \cup {None}
        /\ phones[n] \in Agents \cup {None, "unknown"}
    BY NumbersTyped, AgentFields
  <2>2. r \in Asked
    BY <2>1 DEF Asked, Ops, Steps, Numbers!Idle
  <2>3. ReqOK(r)
    BY NumbersConstants DEF ReqOK, StepsOf, Numbers!Idle, Numbers!Owned
  <2> QED
    BY <1>1, <2>2, <2>3, AskOK DEF Numbers!AskAttach
<1>2. ASSUME NEW n \in PhoneNumbers, Numbers!AskImport(t, n)
      PROVE  RequestsOK' /\ n_asked' \in 0 .. MaxAsked
  <2> DEFINE r == [Numbers!Idle EXCEPT !.op = "attach", !.number = n, !.prev = phones[n],
                     !.known = TRUE, !.pc = "unlink"]
  <2>1. r \in Asked /\ ReqOK(r)
    BY <1>2, NumbersTyped DEF Asked, Ops, Steps, Numbers!Idle, ReqOK, StepsOf,
       Numbers!AskImport,
                Numbers!Owned
  <2> QED
    BY <1>2, <2>1, AskOK DEF Numbers!AskImport
<1>3. ASSUME NEW n \in PhoneNumbers, Numbers!AskDetach(t, n)
      PROVE  RequestsOK' /\ n_asked' \in 0 .. MaxAsked
  <2> DEFINE r == [Numbers!Idle EXCEPT !.op = "detach", !.number = n, !.prev = phones[n],
                     !.pc = "unlink"]
  <2>1. r \in Asked /\ ReqOK(r)
    BY <1>3, NumbersTyped DEF Asked, Ops, Steps, Numbers!Idle, ReqOK, StepsOf,
       Numbers!AskDetach,
                Numbers!Owned
  <2> QED
    BY <1>3, <2>1, AskOK DEF Numbers!AskDetach
<1>4. ASSUME NEW a \in Agents, NEW k \in Numbers!Kinds, Numbers!AskCreate(t, a, k)
      PROVE  RequestsOK' /\ n_asked' \in 0 .. MaxAsked
  <2> DEFINE r == [Numbers!Idle EXCEPT !.op = "create", !.agent = a, !.kind = k,
                     !.pc = IF Numbers!HasApp(k) THEN "provision" ELSE "insert"]
  <2>1. r \in Asked /\ ReqOK(r)
    BY DEF Asked, Ops, Steps, Numbers!Idle, ReqOK, StepsOf
  <2> QED
    BY <1>4, <2>1, AskOK DEF Numbers!AskCreate
<1>5. ASSUME NEW a \in Agents, NEW op \in {"update", "delete"},
             NEW k \in Numbers!Kinds \cup {None}, op = "update" => k \in Numbers!Kinds,
             Numbers!AskChange(t, a, op, k)
      PROVE  RequestsOK' /\ n_asked' \in 0 .. MaxAsked
  <2> DEFINE r(n) ==
        [Numbers!Idle EXCEPT !.op = op, !.agent = a, !.kind = k, !.number = n,
           !.app = agents[a].app,
           !.prev = IF n # None /\ Numbers!Owned(n) THEN phones[n] ELSE None,
           !.pc = CASE n = None -> "delete_app"
                    [] n # None /\ Numbers!Owned(n) -> "unlink"
                    [] OTHER -> "fallback"]
  <2>1. PICK n \in Numbers!Found(a) : Numbers!Ask(t, r(n))
    BY <1>5 DEF Numbers!AskChange
  <2>2. n \in PhoneNumbers \cup {None} /\ agents[a].app \in Numbers!Apps \cup {None}
    BY NumbersTyped, AgentFields DEF Numbers!Found, Numbers!NumbersOf
  <2>3. r(n) \in Asked
    BY <2>2 DEF Asked, Ops, Steps, Numbers!Idle, Numbers!Owned
  <2>4. ReqOK(r(n))
    BY <2>2, <1>5, NumbersConstants DEF ReqOK, StepsOf, Numbers!Idle, Numbers!Owned
  <2> QED
    BY <2>1, <2>3, <2>4, AskOK
<1>6. ASSUME Numbers!Attach(t) \/ Numbers!Detach(t) \/ Numbers!AgentRequest(t)
      PROVE  UNCHANGED <<agents, phones, bound, live, made, refusals>>
  <2>1. \A r : Numbers!Ask(t, r) => refusals' = refusals
    BY DEF Numbers!Ask
  <2>2. CASE Numbers!Attach(t) \/ Numbers!Detach(t)
    BY <2>1, <2>2
       DEF Numbers!Attach, Numbers!Detach, Numbers!AskAttach, Numbers!AskImport,
           Numbers!AskDetach, Numbers!links
  <2>3. CASE Numbers!AgentRequest(t)
    BY <2>1, <2>3
       DEF Numbers!AgentRequest, Numbers!AskCreate, Numbers!AskChange, Numbers!links
  <2> QED
    BY <1>6, <2>2, <2>3
<1>7. Numbers!Attach(t) \/ Numbers!Detach(t) => RequestsOK' /\ n_asked' \in 0 .. MaxAsked
  BY <1>1, <1>2, <1>3 DEF Numbers!Attach, Numbers!Detach
<1>8. Numbers!AgentRequest(t) => RequestsOK' /\ n_asked' \in 0 .. MaxAsked
  BY <1>4, <1>5 DEF Numbers!AgentRequest
<1> QED
  BY <1>6, <1>7, <1>8

\* A step keeps the types.
LEMMA NumbersTypeStep ==
  ASSUME Numbers!TypeOK, RequestsOK, Numbers!Next
  PROVE  Numbers!TypeOK' /\ RequestsOK'
<1> USE NumbersTyped, NumbersConstants, RequestsMove
<1> DEFINE Docs   == agents' \in [Agents -> AgentDocs]
           Phones == phones' \in [PhoneNumbers -> Agents \cup {None, "unknown"}]
           Bound  == bound' \in [PhoneNumbers -> Numbers!Apps \cup {None}]
           Live   == live' \subseteq Numbers!Apps /\ made' \in 0 .. MaxApps
           Counts == n_asked' \in 0 .. MaxAsked /\ refusals' \in 0 .. MaxRefusals
           All    == Docs /\ Phones /\ Bound /\ Live /\ Counts /\ RequestsOK'
<1>a. \A t \in Tasks : req[t] \in Asked /\ ReqOK(req[t])
  BY DEF RequestsOK
<1>1. ASSUME NEW t \in Tasks,
             Numbers!Attach(t) \/ Numbers!Detach(t) \/ Numbers!AgentRequest(t)
      PROVE  All
  BY <1>1, RequestsBegin
<1>2. ASSUME NEW n \in PhoneNumbers, Numbers!Import(n) PROVE All
  <2>1. Docs /\ Phones
    BY <1>2 DEF Numbers!Import, Numbers!Attached
  <2>2. Bound /\ Live /\ Counts /\ req' = req
    BY <1>2 DEF Numbers!Import
  <2> QED
    BY <2>1, <2>2 DEF RequestsOK, ReqOK, StepsOf
<1>3. ASSUME NEW t \in Tasks, Numbers!UnlinkNumber(t) PROVE All
  <2>1. /\ req[t].pc = "unlink" /\ req[t].number \in PhoneNumbers /\ req[t].prev \in Agents
        /\ Numbers!Cleared(req[t].prev) \in [Agents -> AgentDocs]
    BY <1>3, UnlinkComesTo, ClearedAgents
  <2>2. Docs
    BY <1>3, <2>1, UnlinkComesTo DEF Numbers!Detached
  <2>3. Phones /\ Bound /\ Live /\ Counts
    BY <1>3, <2>1, UnlinkComesTo DEF Numbers!Detached
  <2>4. RequestsOK'
    BY <1>3, <1>a, <2>1, UnlinkComesTo DEF ReqOK, StepsOf, Steps, Asked, Ops
  <2> QED
    BY <2>2, <2>3, <2>4
<1>4. ASSUME NEW t \in Tasks, Numbers!Fallback(t) PROVE All
  <2>1. /\ req[t].pc = "fallback" /\ req[t].op \in {"update", "delete"}
        /\ req[t].agent \in Agents /\ req[t].number \in PhoneNumbers
    BY <1>4, <1>a DEF Numbers!Fallback, Numbers!At, Asked, Ops, ReqOK, StepsOf
  <2>2. Docs /\ Phones /\ Bound /\ Live /\ Counts
    BY <1>4, <2>1, ClearedAgents DEF Numbers!Fallback, Numbers!Detached
  <2>3. RequestsOK'
    BY <1>4, <1>a, <2>1 DEF Numbers!Fallback, ReqOK, StepsOf, Steps, Asked
  <2> QED
    BY <2>2, <2>3
<1>5. ASSUME NEW t \in Tasks, Numbers!LinkNumber(t) PROVE All
  <2>1. /\ req[t].number \in PhoneNumbers /\ req[t].agent \in Agents
        /\ req[t].app \in Numbers!Apps \cup {None}
    BY <1>5, <1>a DEF Numbers!LinkNumber, Numbers!At, Asked, ReqOK
  <2>2. Numbers!Attached(req[t].number, req[t].agent, req[t].known) => Phones
    BY <2>1 DEF Numbers!Attached
  <2>3. Numbers!Attached(req[t].number, req[t].agent, req[t].known) => Docs
    <3> DEFINE d == [agents[req[t].agent] EXCEPT !.linked = req[t].number]
    <3>1. Numbers!There(req[t].agent) => d \in AgentDocs
      BY <2>1 DEF Numbers!There, AgentDocs
    <3>2. [agents EXCEPT ![req[t].agent].linked = req[t].number]
            = [agents EXCEPT ![req[t].agent] = d]
      OBVIOUS
    <3> QED
      BY <2>1, <3>1, <3>2 DEF Numbers!Attached
  <2>4. Docs /\ Phones
    BY <1>5, <2>2, <2>3 DEF Numbers!LinkNumber, Numbers!links
  <2>5. Bound /\ Live /\ Counts /\ RequestsOK'
    BY <1>5, <2>1 DEF Numbers!LinkNumber, Numbers!links
  <2> QED
    BY <2>4, <2>5
<1>6. ASSUME NEW t \in Tasks, Numbers!DeleteApplication(t) PROVE All
  <2>1. Docs /\ Phones /\ Bound /\ Live /\ Counts
    BY <1>6 DEF Numbers!DeleteApplication, Numbers!links
  <2>2. req[t].op \in {"update", "delete"} /\ req[t] \in Asked /\ ReqOK(req[t])
    BY <1>6, <1>a DEF Numbers!DeleteApplication, Numbers!At, Asked, Ops, ReqOK, StepsOf
  <2>3. PICK pc \in {"remove", "provision", "write"} :
          /\ (pc = "remove") <=> (req[t].op = "delete")
          /\ req' = [req EXCEPT ![t].pc = pc, ![t].app = None]
    BY <1>6 DEF Numbers!DeleteApplication
  <2> DEFINE r == [req[t] EXCEPT !.pc = pc, !.app = None]
  <2>4. r \in Asked /\ ReqOK(r)
    BY <2>2, <2>3 DEF Asked, ReqOK, StepsOf, Steps
  <2>5. req' = [req EXCEPT ![t] = r]
    BY <2>3 DEF RequestsOK
  <2> QED
    BY <2>1, <2>4, <2>5, RequestsStay
<1>7. ASSUME NEW t \in Tasks, Numbers!ProvisionApplication(t) PROVE All
  <2>1. /\ made + 1 \in Numbers!Apps
        /\ req[t].op \in {"create", "update"} /\ req[t] \in Asked /\ ReqOK(req[t])
    BY <1>7, <1>a DEF Numbers!ProvisionApplication, Numbers!At, Asked, Ops, ReqOK,
                      StepsOf, Numbers!Apps
  <2>2. Docs /\ Phones /\ Bound /\ Counts
    BY <1>7 DEF Numbers!ProvisionApplication, Numbers!links
  <2>3. Live
    BY <1>7, <2>1 DEF Numbers!ProvisionApplication, Numbers!Apps
  <2>4. CASE Numbers!Returns(t)
    BY <2>2, <2>3, <2>4
  <2>5. CASE ~Numbers!Returns(t)
    <3> DEFINE r == [req[t] EXCEPT !.app = made + 1,
                       !.pc = IF req[t].op = "create" THEN "insert" ELSE "write"]
    <3>1. r \in Asked /\ ReqOK(r)
      BY <2>1 DEF Asked, ReqOK, StepsOf, Steps
    <3>2. req' = [req EXCEPT ![t] = r]
      BY <1>7, <2>5 DEF Numbers!ProvisionApplication, RequestsOK
    <3> QED
      BY <2>2, <2>3, <3>1, <3>2, RequestsStay
  <2> QED
    BY <2>4, <2>5
<1>8. ASSUME NEW t \in Tasks, Numbers!Write(t) PROVE All
  <2>1. /\ req[t].op \in {"create", "update"} /\ req[t].agent \in Agents
        /\ req[t].kind \in Numbers!Kinds /\ req[t].app \in Numbers!Apps \cup {None}
    BY <1>8, <1>a DEF Numbers!Write, Asked, Ops, ReqOK, StepsOf
  <2>2. [kind |-> req[t].kind, app |-> req[t].app, linked |-> None] \in AgentDocs
    BY <2>1 DEF AgentDocs
  <2>3. Docs
    BY <1>8, <2>1, <2>2 DEF Numbers!Write, Numbers!Changed, Numbers!links
  <2>4. Phones /\ Bound /\ Live /\ Counts
    BY <1>8 DEF Numbers!Write, Numbers!links
  <2>5. RequestsOK'
    BY <1>8, <1>a, <2>1 DEF Numbers!Write, ReqOK, StepsOf, Steps, Asked
  <2> QED
    BY <2>3, <2>4, <2>5
<1>9. ASSUME NEW t \in Tasks, Numbers!Undo(t) PROVE All
  BY <1>9 DEF Numbers!Undo, Numbers!links
<1>10. ASSUME NEW t \in Tasks, Numbers!Remove(t) PROVE All
  BY <1>10 DEF Numbers!Remove, AgentDocs
<1>11. All
  BY <1>1, <1>2, <1>3, <1>4, <1>5, <1>6, <1>7, <1>8, <1>9, <1>10
     DEF Numbers!Next, Numbers!GoesOn
<1>12. \A t \in Tasks : req'[t].touches \subseteq Agents \cup PhoneNumbers
  BY <1>11 DEF RequestsOK, Asked
<1>13. crossed' \in BOOLEAN
  <2>1. crossed \in BOOLEAN
    BY DEF Numbers!TypeOK
  <2>2. ASSUME NEW t \in Tasks, NEW r, Numbers!Ask(t, r) PROVE crossed' \in BOOLEAN
    BY <2>2 DEF Numbers!Ask
  <2>3. ASSUME NEW t \in Tasks,
               Numbers!Attach(t) \/ Numbers!Detach(t) \/ Numbers!AgentRequest(t)
        PROVE  crossed' \in BOOLEAN
    BY <2>2, <2>3
       DEF Numbers!Attach, Numbers!Detach, Numbers!AgentRequest, Numbers!AskAttach,
           Numbers!AskImport, Numbers!AskDetach, Numbers!AskCreate, Numbers!AskChange
  <2>4. ASSUME NEW t \in Tasks, Numbers!GoesOn(t) PROVE crossed' \in BOOLEAN
    <3>1. crossed' = crossed
      BY <2>4
         DEF Numbers!GoesOn, Numbers!UnlinkNumber, Numbers!Fallback, Numbers!LinkNumber,
             Numbers!DeleteApplication, Numbers!ProvisionApplication, Numbers!Write,
             Numbers!Undo, Numbers!Remove
    <3> QED
      BY <2>1, <3>1
  <2>5. ASSUME NEW n \in PhoneNumbers, Numbers!Import(n) PROVE crossed' \in BOOLEAN
    BY <2>1, <2>5 DEF Numbers!Import
  <2> QED
    BY <2>3, <2>4, <2>5 DEF Numbers!Next
<1> QED
  BY <1>11, <1>12, <1>13 DEF Numbers!TypeOK, AgentDocs

---------------------------------------------------------------------------
(* NumberLinks: the links.                                                 *)

\* A request under way keeps what it was asked; the others keep everything.
LEMMA GoesOnKeeps ==
  ASSUME RequestsOK, NEW t \in Tasks, Numbers!GoesOn(t)
  PROVE  /\ crossed' = crossed
         /\ \A u \in Tasks \ {t} : req'[u] = req[u]
         /\ \/ req'[t] = Numbers!Idle
            \/ /\ req'[t].op = req[t].op /\ req'[t].agent = req[t].agent
               /\ req'[t].number = req[t].number /\ req'[t].prev = req[t].prev
               /\ req'[t].touches = req[t].touches
<1> DEFINE Kept == /\ \A u \in Tasks \ {t} : req'[u] = req[u]
                   /\ \/ req'[t] = Numbers!Idle
                      \/ /\ req'[t].op = req[t].op /\ req'[t].agent = req[t].agent
                         /\ req'[t].number = req[t].number /\ req'[t].prev = req[t].prev
                         /\ req'[t].touches = req[t].touches
<1>1. crossed' = crossed
  BY DEF Numbers!GoesOn, Numbers!UnlinkNumber, Numbers!Fallback, Numbers!LinkNumber,
         Numbers!DeleteApplication, Numbers!ProvisionApplication, Numbers!Write,
         Numbers!Undo, Numbers!Remove
<1>2. req \in [Tasks -> Asked] /\ req[t] \in Asked
  BY DEF RequestsOK
<1>3. ASSUME Numbers!Returns(t) PROVE Kept
  BY <1>2, <1>3 DEF Numbers!Returns
<1>4. ASSUME NEW pc, Numbers!Goes(t, pc) PROVE Kept
  BY <1>2, <1>4 DEF Numbers!Goes, Asked
<1>5. ASSUME Numbers!UnlinkNumber(t) PROVE Kept
  BY <1>3, <1>4, <1>5
     DEF Numbers!UnlinkNumber, Numbers!Unlinked, Numbers!NotUnlinked
<1>6. ASSUME Numbers!Fallback(t) \/ Numbers!LinkNumber(t) \/ Numbers!Undo(t)
               \/ Numbers!Remove(t) \/ Numbers!Write(t)
      PROVE  Kept
  BY <1>3, <1>4, <1>6
     DEF Numbers!Fallback, Numbers!LinkNumber, Numbers!Undo, Numbers!Remove, Numbers!Write
<1>7. ASSUME NEW pc, NEW app, req' = [req EXCEPT ![t].app = app, ![t].pc = pc]
      PROVE  Kept
  BY <1>2, <1>7 DEF Asked
<1>8. ASSUME NEW pc, NEW app, req' = [req EXCEPT ![t].pc = pc, ![t].app = app]
      PROVE  Kept
  BY <1>2, <1>8 DEF Asked
<1>9. ASSUME Numbers!DeleteApplication(t) PROVE Kept
  BY <1>8, <1>9 DEF Numbers!DeleteApplication
<1>10. ASSUME Numbers!ProvisionApplication(t) PROVE Kept
  BY <1>3, <1>7, <1>10 DEF Numbers!ProvisionApplication
<1> QED
  BY <1>1, <1>5, <1>6, <1>9, <1>10 DEF Numbers!GoesOn

\* A request that goes on, or returns, leaves the requests apart.
LEMMA ApartStays ==
  ASSUME RequestsOK, Apart, NEW t \in Tasks, Numbers!GoesOn(t)
  PROVE  Apart'
<1>1. Numbers!Idle.touches = {} /\ {Numbers!Idle.agent, Numbers!Idle.number} = {None}
  BY DEF Numbers!Idle
<1>2. \A u \in Tasks :
        \/ req'[u].touches = {} /\ {req'[u].agent, req'[u].number} = {None}
        \/ /\ req'[u].touches = req[u].touches
           /\ req'[u].agent = req[u].agent /\ req'[u].number = req[u].number
  BY <1>1, GoesOnKeeps
<1> QED
  BY <1>2 DEF Apart

\* Two requests have neither agent nor number in common.
LEMMA NothingShared ==
  ASSUME Apart, NEW t \in Tasks, NEW u \in Tasks, t # u
  PROVE  /\ req[u].number \in PhoneNumbers => req[t].number # req[u].number
         /\ req[u].agent \in Agents => req[t].agent # req[u].agent
  BY NumbersConstants DEF Apart

\* What another request has read stands while the links it is about are left alone.
LEMMA OthersStand ==
  ASSUME RequestsOK, NEW u \in Tasks, ReadStands(u), FreeToLink(u), req'[u] = req[u],
         req[u].pc \in {"unlink", "fallback"} =>
           phones'[req[u].number] = phones[req[u].number],
         req[u].agent \in Agents => agents'[req[u].agent].app = agents[req[u].agent].app,
         \A b \in Agents : agents'[b].linked = req[u].number
                             => agents[b].linked = req[u].number \/ req[u].pc # "link"
  PROVE  (ReadStands(u) /\ FreeToLink(u))'
<1>1. req[u].agent # None => req[u].agent \in Agents
  BY DEF RequestsOK, Asked
<1> QED
  BY <1>1 DEF ReadStands, FreeToLink

\* A request that begins without crossing another finds the links as promised.
LEMMA BeginsUncrossed ==
  ASSUME Numbers!TypeOK, RequestsOK, Uncrossed, ~crossed', RequestsOK',
         NEW t \in Tasks,
         Numbers!Attach(t) \/ Numbers!Detach(t) \/ Numbers!AgentRequest(t)
  PROVE  Uncrossed'
<1> DEFINE Fine(r) ==
      /\ {r.agent, r.number} \ {None} \subseteq Agents \cup PhoneNumbers
      /\ r.pc = "unlink" =>
           /\ phones[r.number] = r.prev
           /\ r.op \in {"update", "delete"} => r.prev = r.agent
      /\ r.pc = "fallback" => phones[r.number] = r.agent
      /\ r.op = "attach" /\ r.agent # None => agents[r.agent].app = r.app
      /\ r.pc = "link" => \A b \in Agents : agents[b].linked = r.number => b = r.agent
<1>1. ASSUME NEW r \in Asked, Fine(r), Numbers!Ask(t, r), agents' = agents,
             phones' = phones, bound' = bound
      PROVE  Uncrossed'
  <2> DEFINE s == [r EXCEPT !.touches = Numbers!Reach(r) \cap (Agents \cup PhoneNumbers)]
  <2>1. /\ req' = [req EXCEPT ![t] = s]
        /\ \A u \in Tasks : req[u].touches \cap s.touches = {}
    BY <1>1 DEF Numbers!Ask, Asked
  <2>2. /\ s.op = r.op /\ s.pc = r.pc /\ s.agent = r.agent /\ s.number = r.number
        /\ s.prev = r.prev /\ s.app = r.app
        /\ {r.agent, r.number} \ {None} \subseteq s.touches
    <3>1. {r.agent, r.number} \ {None} \subseteq Numbers!Reach(r)
      BY <1>1, NumbersConstants DEF Numbers!Reach, Asked
    <3> QED
      BY <1>1, <3>1 DEF Asked
  <2>3. \A u \in Tasks : req'[u] = IF u = t THEN s ELSE req[u]
    BY <2>1 DEF RequestsOK
  <2>4. Apart'
    BY <2>1, <2>2, <2>3 DEF Uncrossed, Apart
  <2>5. Links'
    BY <1>1 DEF Uncrossed, Links
  <2>6. \A u \in Tasks : ReadStands(u)'
    BY <1>1, <2>2, <2>3 DEF Uncrossed, ReadStands
  <2>7. \A u \in Tasks : FreeToLink(u)'
    <3>1. FreeToLink(t)'
      <4>1. req'[t] = s
        BY <2>3
      <4> QED
        BY <1>1, <2>2, <4>1 DEF FreeToLink
    <3>2. ASSUME NEW u \in Tasks, u # t PROVE FreeToLink(u)'
      <4>1. req'[u] = req[u] /\ FreeToLink(u)
        BY <2>3, <3>2 DEF Uncrossed
      <4> QED
        BY <1>1, <4>1 DEF FreeToLink
    <3> QED
      BY <3>1, <3>2
  <2> QED
    BY <2>4, <2>5, <2>6, <2>7 DEF Uncrossed
<1>2. \A a \in Agents : /\ agents[a].app \in Numbers!Apps \cup {None}
                        /\ agents[a].linked \in PhoneNumbers \cup {None}
                        /\ agents[a].linked # None => phones[agents[a].linked] = a
  BY NumbersTyped, AgentFields DEF Uncrossed, Links
<1>3. ASSUME NEW n \in PhoneNumbers, NEW a \in Agents, Numbers!AskAttach(t, n, a)
      PROVE  Uncrossed'
  <2> DEFINE r == [Numbers!Idle EXCEPT !.op = "attach", !.number = n, !.agent = a,
                     !.prev = phones[n], !.app = agents[a].app,
                     !.known = phones[n] # "unknown",
                     !.pc = IF Numbers!Owned(n) /\ phones[n] # a THEN "unlink" ELSE "link"]
  <2>1. r \in Asked
    BY <1>2, NumbersTyped DEF Asked, Ops, Steps, Numbers!Idle
  <2>2. Fine(r)
    BY <1>2, NumbersConstants, NumbersTyped DEF Numbers!Idle, Numbers!Owned
  <2> QED
    BY <1>1, <1>3, <2>1, <2>2 DEF Numbers!AskAttach, Numbers!links
<1>4. ASSUME NEW n \in PhoneNumbers, Numbers!AskImport(t, n) PROVE Uncrossed'
  <2> DEFINE r == [Numbers!Idle EXCEPT !.op = "attach", !.number = n, !.prev = phones[n],
                     !.known = TRUE, !.pc = "unlink"]
  <2>1. r \in Asked /\ Fine(r)
    BY NumbersConstants, NumbersTyped DEF Asked, Ops, Steps, Numbers!Idle
  <2> QED
    BY <1>1, <1>4, <2>1 DEF Numbers!AskImport, Numbers!links
<1>5. ASSUME NEW n \in PhoneNumbers, Numbers!AskDetach(t, n) PROVE Uncrossed'
  <2> DEFINE r == [Numbers!Idle EXCEPT !.op = "detach", !.number = n, !.prev = phones[n],
                     !.pc = "unlink"]
  <2>1. r \in Asked /\ Fine(r)
    BY NumbersConstants, NumbersTyped DEF Asked, Ops, Steps, Numbers!Idle
  <2> QED
    BY <1>1, <1>5, <2>1 DEF Numbers!AskDetach, Numbers!links
<1>6. ASSUME NEW a \in Agents, NEW k \in Numbers!Kinds, Numbers!AskCreate(t, a, k)
      PROVE  Uncrossed'
  <2> DEFINE r == [Numbers!Idle EXCEPT !.op = "create", !.agent = a, !.kind = k,
                     !.pc = IF Numbers!HasApp(k) THEN "provision" ELSE "insert"]
  <2>1. r \in Asked /\ Fine(r)
    BY NumbersConstants, NumbersTyped DEF Asked, Ops, Steps, Numbers!Idle
  <2> QED
    BY <1>1, <1>6, <2>1 DEF Numbers!AskCreate, Numbers!links
<1>7. ASSUME NEW a \in Agents, NEW op \in {"update", "delete"},
             NEW k \in Numbers!Kinds \cup {None}, Numbers!AskChange(t, a, op, k)
      PROVE  Uncrossed'
  <2> DEFINE r(n) ==
        [Numbers!Idle EXCEPT !.op = op, !.agent = a, !.kind = k, !.number = n,
           !.app = agents[a].app,
           !.prev = IF n # None /\ Numbers!Owned(n) THEN phones[n] ELSE None,
           !.pc = CASE n = None -> "delete_app"
                    [] n # None /\ Numbers!Owned(n) -> "unlink"
                    [] OTHER -> "fallback"]
  <2>1. PICK n \in Numbers!Found(a) : Numbers!Ask(t, r(n))
    BY <1>7 DEF Numbers!AskChange
  <2>2. n \in PhoneNumbers \cup {None} /\ (n # None => phones[n] = a)
    BY <1>2, NumbersConstants DEF Numbers!Found, Numbers!NumbersOf
  <2>a. n # None /\ Numbers!Owned(n) => phones[n] \in Agents
    BY DEF Numbers!Owned
  <2>3. r(n) \in Asked
    BY <1>2, <2>2, <2>a DEF Asked, Ops, Steps, Numbers!Idle
  <2>4. Fine(r(n))
    BY <2>2, NumbersConstants DEF Numbers!Idle, Numbers!Owned
  <2> QED
    BY <1>1, <1>7, <2>1, <2>3, <2>4 DEF Numbers!AskChange, Numbers!links
<1>8. Numbers!Attach(t) \/ Numbers!Detach(t) => Uncrossed'
  BY <1>3, <1>4, <1>5 DEF Numbers!Attach, Numbers!Detach
<1>9. Numbers!AgentRequest(t) => Uncrossed'
  BY <1>6, <1>7 DEF Numbers!AgentRequest
<1> QED
  BY <1>8, <1>9

\* Whatever a request does next leaves the links as promised.
LEMMA GoesOnUncrossed ==
  ASSUME Numbers!TypeOK, RequestsOK, RequestsOK', Uncrossed, NEW t \in Tasks,
         Numbers!GoesOn(t)
  PROVE  Uncrossed'
<1> USE NumbersTyped, NumbersConstants
<1> DEFINE r == req[t]
           Mine == ReadStands(t)' /\ FreeToLink(t)'
           Theirs == \A u \in Tasks \ {t} : ReadStands(u)' /\ FreeToLink(u)'
           All  == Links' /\ Mine /\ Theirs
<1>a. /\ r \in Asked /\ ReqOK(r) /\ Apart /\ Links /\ ReadStands(t) /\ FreeToLink(t)
      /\ req \in [Tasks -> Asked]
  BY DEF RequestsOK, Uncrossed
<1>b. \A u \in Tasks \ {t} :
        /\ req'[u] = req[u] /\ ReadStands(u) /\ FreeToLink(u) /\ ReqOK(req[u])
        /\ req[u].number \in PhoneNumbers => r.number # req[u].number
        /\ req[u].agent \in Agents => r.agent # req[u].agent
  BY GoesOnKeeps, NothingShared DEF RequestsOK, Uncrossed
<1>c. \A u \in Tasks : req[u].pc \in {"unlink", "fallback", "link"}
                         => req[u].number \in PhoneNumbers
  BY DEF RequestsOK, ReqOK
<1>d. Numbers!Returns(t) => Mine
  <2>1. Numbers!Returns(t) => req'[t] = Numbers!Idle
    BY <1>a DEF Numbers!Returns
  <2> QED
    BY <2>1 DEF Numbers!Idle, ReadStands, FreeToLink
<1>e. ASSUME NEW pc \in Steps, Numbers!Goes(t, pc)
      PROVE  /\ req'[t].pc = pc /\ req'[t].op = r.op /\ req'[t].number = r.number
             /\ req'[t].agent = r.agent /\ req'[t].app = r.app
  <2>1. req'[t] = [r EXCEPT !.pc = pc]
    BY <1>a, <1>e DEF Numbers!Goes
  <2> QED
    BY <1>a, <2>1 DEF Asked
\* No agent shows more than it did, none shows another's number: the others stand.
<1>f. ASSUME \A b \in Agents : /\ agents'[b].linked \in {agents[b].linked, None}
                               /\ agents'[b].app = agents[b].app,
             phones' \in {phones, [phones EXCEPT ![r.number] = None]}
      PROVE  Theirs
  BY <1>a, <1>b, <1>c, <1>f, OthersStand
<1>1. ASSUME Numbers!UnlinkNumber(t) PROVE All
  <2>1. r.number \in PhoneNumbers /\ r.prev \in Agents /\ r.pc = "unlink"
    BY <1>1, UnlinkComesTo
  <2>2. /\ \A b \in Agents :
             /\ Numbers!Cleared(r.prev)[b].app = agents[b].app
             /\ Numbers!Cleared(r.prev)[b].linked \in {agents[b].linked, None}
        /\ Numbers!Cleared(r.prev)[r.prev].linked = None
    BY <2>1, ClearedAgents
  <2>3. phones[r.number] = r.prev
    BY <1>a, <2>1 DEF ReadStands
  <2>4. /\ agents' \in {agents, Numbers!Cleared(r.prev)}
        /\ phones' \in {phones, [phones EXCEPT ![r.number] = None]}
        /\ phones' # phones => agents' = Numbers!Cleared(r.prev)
        /\ bound' \in {bound, [bound EXCEPT ![r.number] = None]}
    BY <1>1, UnlinkComesTo DEF Numbers!Detached
  <2>5. Theirs
    BY <1>f, <2>2, <2>4
  <2>6. Links'
    <3> SUFFICES ASSUME NEW b \in Agents, agents'[b].linked # None
                 PROVE  /\ phones'[agents'[b].linked] = b
                        /\ bound'[agents'[b].linked] \in {agents'[b].app, None}
      BY DEF Links
    <3>1. /\ agents'[b].linked = agents[b].linked /\ agents'[b].app = agents[b].app
          /\ agents[b].linked \in PhoneNumbers
      BY <2>2, <2>4, AgentFields
    <3>2. phones[agents[b].linked] = b /\ bound[agents[b].linked] \in {agents[b].app, None}
      BY <1>a, <3>1 DEF Links
    <3>3. bound'[agents[b].linked] \in {agents[b].app, None}
      BY <2>4, <3>1, <3>2
    <3>4. phones'[agents[b].linked] = b
      BY <2>1, <2>2, <2>3, <2>4, <3>1, <3>2
    <3> QED
      BY <3>1, <3>3, <3>4
  <2>7. CASE /\ Numbers!Goes(t, "link") /\ agents' = Numbers!Cleared(r.prev)
             /\ r.op = "attach"
    <3>1. /\ req'[t].pc = "link" /\ req'[t].number = r.number /\ req'[t].agent = r.agent
          /\ req'[t].op = r.op /\ req'[t].app = r.app
      BY <1>e, <2>7 DEF Steps
    <3>2. r.agent \in Agents /\ agents[r.agent].app = r.app
      BY <1>1, <1>a, <2>7, <3>1 DEF FreeToLink, RequestsOK, ReqOK
    <3>3. \A b \in Agents : agents'[b].linked # r.number
      <4> SUFFICES ASSUME NEW b \in Agents, agents'[b].linked = r.number PROVE FALSE
        OBVIOUS
      <4>1. agents[b].linked = r.number
        BY <2>1, <2>2, <2>7
      <4>2. b = r.prev
        BY <1>a, <2>1, <2>3, <4>1 DEF Links
      <4> QED
        BY <2>1, <2>2, <2>7, <4>2
    <3>4. agents'[r.agent].app = r.app
      BY <2>2, <2>7, <3>2
    <3> QED
      BY <2>5, <2>6, <3>1, <3>3, <3>4 DEF ReadStands, FreeToLink
  <2>8. CASE Numbers!Goes(t, "delete_app") /\ r.op \in {"update", "delete"}
    <3>1. req'[t].pc = "delete_app" /\ req'[t].op = r.op
      BY <1>e, <2>8 DEF Steps
    <3> QED
      BY <2>5, <2>6, <2>8, <3>1 DEF ReadStands, FreeToLink
  <2>9. CASE /\ Numbers!Goes(t, "fallback")
             /\ r.op \in {"update", "delete"} /\ phones' = phones
    <3>1. /\ req'[t].pc = "fallback" /\ req'[t].op = r.op
          /\ req'[t].number = r.number /\ req'[t].agent = r.agent
      BY <1>e, <2>9 DEF Steps
    <3>2. phones'[r.number] = r.agent
      BY <1>a, <2>1, <2>9 DEF ReadStands
    <3> QED
      BY <2>5, <2>6, <2>9, <3>1, <3>2 DEF ReadStands, FreeToLink
  <2>10. CASE Numbers!Returns(t)
    BY <1>d, <2>5, <2>6, <2>10
  <2> QED
    BY <1>1, <2>7, <2>8, <2>9, <2>10, UnlinkComesTo
<1>2. ASSUME Numbers!Fallback(t) PROVE All
  <2>1. /\ r.pc = "fallback" /\ r.number \in PhoneNumbers /\ r.agent \in Agents
        /\ r.op \in {"update", "delete"}
    BY <1>2, <1>a DEF Numbers!Fallback, Numbers!At, Asked, Ops, ReqOK, StepsOf
  <2>2. /\ \A b \in Agents :
             /\ agents'[b].app = agents[b].app
             /\ agents'[b].linked \in {agents[b].linked, None}
        /\ agents'[r.agent].linked = None
        /\ phones' = [phones EXCEPT ![r.number] = None] /\ bound' = bound
        /\ Numbers!Goes(t, "delete_app")
    BY <1>2, <2>1, ClearedAgents DEF Numbers!Fallback, Numbers!Detached
  <2>3. phones[r.number] = r.agent
    BY <1>a, <2>1 DEF ReadStands
  <2>4. Links'
    BY <1>a, <2>1, <2>2, <2>3, AgentFields DEF Links
  <2>5. req'[t].pc = "delete_app" /\ req'[t].op = r.op
    BY <1>e, <2>2 DEF Steps
  <2>6. Mine
    BY <2>1, <2>5 DEF ReadStands, FreeToLink
  <2> QED
    BY <1>f, <2>2, <2>4, <2>6
<1>3. ASSUME Numbers!LinkNumber(t) PROVE All
  <2>1. /\ r.pc = "link" /\ r.number \in PhoneNumbers /\ r.agent \in Agents
        /\ r.op = "attach" /\ agents[r.agent].app = r.app /\ Numbers!Returns(t)
        /\ \A b \in Agents : agents[b].linked = r.number => b = r.agent
    BY <1>3, <1>a
       DEF Numbers!LinkNumber, Numbers!At, Asked, Ops, ReqOK, StepsOf, FreeToLink
  <2>2. bound' \in {bound, [bound EXCEPT ![r.number] = r.app]}
    BY <1>3 DEF Numbers!LinkNumber, Numbers!links
  <2>3. CASE agents' = agents /\ phones' = phones
    <3>1. Links'
      BY <1>a, <2>1, <2>2, <2>3, AgentFields DEF Links
    <3> QED
      BY <1>d, <1>f, <2>1, <2>3, <3>1
  <2>4. CASE /\ bound' = [bound EXCEPT ![r.number] = r.app]
             /\ phones' = [phones EXCEPT ![r.number] = r.agent]
             /\ agents' = IF Numbers!There(r.agent)
                          THEN [agents EXCEPT ![r.agent].linked = r.number] ELSE agents
    <3>1. \A b \in Agents :
            /\ agents'[b].app = agents[b].app
            /\ b # r.agent => agents'[b].linked = agents[b].linked
      BY <2>1, <2>4, AgentFields DEF Numbers!There, AgentDocs
    <3>2. agents'[r.agent].linked \in {agents[r.agent].linked, r.number}
      BY <2>1, <2>4, AgentFields DEF Numbers!There, AgentDocs
    <3>3. Links'
      BY <1>a, <2>1, <2>4, <3>1, <3>2, AgentFields DEF Links
    <3>4. Theirs
      BY <1>b, <1>c, <2>1, <2>4, <3>1, <3>2, OthersStand
    <3> QED
      BY <1>d, <2>1, <3>3, <3>4
  <2> QED
    BY <1>3, <2>1, <2>3, <2>4 DEF Numbers!LinkNumber, Numbers!Attached, Numbers!links
<1>4. ASSUME \/ Numbers!DeleteApplication(t)
             \/ Numbers!ProvisionApplication(t) \/ Numbers!Undo(t)
      PROVE  All
  <2>1. agents' = agents /\ phones' = phones /\ bound' = bound
    BY <1>4
       DEF Numbers!DeleteApplication, Numbers!ProvisionApplication, Numbers!Undo,
           Numbers!links
  <2>2. /\ req'[t].pc \notin {"unlink", "fallback", "link"}
        /\ req'[t].op # "attach"
    <3>1. CASE Numbers!Returns(t)
      BY <1>a, <3>1 DEF Numbers!Returns, Numbers!Idle
    <3>2. CASE ~Numbers!Returns(t)
      <4>1. r.op \in {"create", "update", "delete"}
        BY <1>4, <1>a, <3>2
           DEF Numbers!DeleteApplication, Numbers!ProvisionApplication, Numbers!Undo,
               Numbers!At, Asked, Ops, ReqOK, StepsOf
      <4> QED
        BY <1>4, <1>a, <3>2, <4>1
           DEF Numbers!DeleteApplication, Numbers!ProvisionApplication, Numbers!Undo, Asked
    <3> QED
      BY <3>1, <3>2
  <2>3. Mine
    BY <2>2 DEF ReadStands, FreeToLink
  <2>4. Links'
    BY <1>a, <2>1 DEF Links
  <2> QED
    BY <1>f, <2>1, <2>3, <2>4
<1>5. ASSUME Numbers!Write(t) \/ Numbers!Remove(t) PROVE All
  <2>1. r.agent \in Agents /\ r.op \in {"create", "update", "delete"}
    BY <1>5, <1>a DEF Numbers!Write, Numbers!Remove, Numbers!At, Asked, Ops, ReqOK, StepsOf
  <2>2. phones' = phones /\ bound' = bound
    BY <1>5 DEF Numbers!Write, Numbers!Remove, Numbers!links
  <2>3. /\ \A b \in Agents : b # r.agent => agents'[b] = agents[b]
        /\ agents' = agents \/ agents'[r.agent].linked = None
    BY <1>5, <2>1 
       DEF Numbers!Write, Numbers!Changed, Numbers!Remove, Numbers!links, Numbers!NoAgent
  <2>4. Links'
    BY <1>a, <2>2, <2>3 DEF Links
  <2>5. Theirs
    <3> SUFFICES ASSUME NEW u \in Tasks, u # t PROVE (ReadStands(u) /\ FreeToLink(u))'
      OBVIOUS
    <3>1. \A b \in Agents : agents'[b].linked \in {agents[b].linked, None}
      BY <2>3
    <3>2. \A b \in Agents : agents'[b].linked = req[u].number
                              => agents[b].linked = req[u].number \/ req[u].pc # "link"
      BY <1>c, <3>1
    <3> QED
      BY <1>b, <2>2, <2>3, <3>2, OthersStand
  <2>6. CASE Numbers!Returns(t)
    BY <1>d, <2>4, <2>5, <2>6
  <2>7. CASE Numbers!Goes(t, "undo")
    <3>1. req'[t].pc = "undo" /\ req'[t].op = r.op
      BY <1>e, <2>7 DEF Steps
    <3> QED
      BY <2>1, <2>4, <2>5, <3>1 DEF ReadStands, FreeToLink
  <2> QED
    BY <1>5, <2>6, <2>7 DEF Numbers!Write, Numbers!Remove
<1>6. All
  BY <1>1, <1>2, <1>3, <1>4, <1>5 DEF Numbers!GoesOn
<1>7. Apart'
  BY <1>a, ApartStays
<1> QED
  BY <1>6, <1>7 DEF Uncrossed

\* Importing a number that has no owner.
LEMMA ImportUncrossed ==
  ASSUME Numbers!TypeOK, RequestsOK, Uncrossed, NEW n \in PhoneNumbers, Numbers!Import(n)
  PROVE  Uncrossed'
<1> USE NumbersTyped, NumbersConstants
<1>1. /\ agents' = agents /\ phones' \in {phones, [phones EXCEPT ![n] = None]}
      /\ bound' = bound /\ req' = req /\ phones[n] \notin Agents
  BY DEF Numbers!Import, Numbers!Attached, Numbers!Owned
<1>2. Apart'
  BY <1>1 DEF Uncrossed, Apart
<1>3. Links'
  BY <1>1, AgentFields DEF Uncrossed, Links
<1>4. ASSUME NEW u \in Tasks PROVE ReadStands(u)' /\ FreeToLink(u)'
  <2>1. ReadStands(u) /\ FreeToLink(u) /\ req[u] \in Asked /\ ReqOK(req[u])
    BY DEF Uncrossed, RequestsOK
  <2>2. req[u].pc \in {"unlink", "fallback"}
          => req[u].number \in PhoneNumbers /\ phones[req[u].number] \in Agents
    BY <2>1 DEF ReadStands, ReqOK, Asked, Ops, StepsOf
  <2> QED
    BY <1>1, <2>1, <2>2, OthersStand
<1> QED
  BY <1>2, <1>3, <1>4 DEF Uncrossed

---------------------------------------------------------------------------
(* NumberLinks as a part of the API.                                       *)

\* Nothing is linked to begin with.
LEMMA NumbersInit == Numbers!Init => LinksInv
<1> SUFFICES ASSUME Numbers!Init PROVE LinksInv
  OBVIOUS
<1> USE NumbersConstants DEF Numbers!Init
<1>1. RequestsOK
  BY IdleIsAsked DEF RequestsOK
<1>2. Numbers!TypeOK
  <2>1. agents \in [Agents -> AgentDocs]
    BY DEF AgentDocs
  <2>2. \A t \in Tasks : req[t].touches \subseteq Agents \cup PhoneNumbers
    BY DEF Numbers!Idle
  <2>3. crossed \in BOOLEAN
    OBVIOUS
  <2> QED
    BY <2>1, <2>2, <2>3 DEF Numbers!TypeOK, AgentDocs
<1>3. Apart /\ Links
  BY DEF Apart, Links, Numbers!Idle, Numbers!NoAgent
<1>4. \A t \in Tasks : ReadStands(t) /\ FreeToLink(t)
  BY DEF ReadStands, FreeToLink, Numbers!Idle
<1> QED
  BY <1>1, <1>2, <1>3, <1>4 DEF LinksInv, Uncrossed

\* Every step of the numbers' part keeps the invariant.
LEMMA NumbersStep == LinksInv /\ Numbers!Next => LinksInv'
<1> SUFFICES ASSUME LinksInv, Numbers!Next PROVE LinksInv'
  OBVIOUS
<1>1. Numbers!TypeOK /\ RequestsOK /\ (~crossed => Uncrossed)
  BY DEF LinksInv
<1>2. Numbers!TypeOK' /\ RequestsOK'
  BY <1>1, NumbersTypeStep
<1>3. ASSUME ~crossed' PROVE Uncrossed'
  <2>1. CASE \E t \in Tasks :
               Numbers!Attach(t) \/ Numbers!Detach(t) \/ Numbers!AgentRequest(t)
    <3>1. PICK t \in Tasks :
            Numbers!Attach(t) \/ Numbers!Detach(t) \/ Numbers!AgentRequest(t)
      BY <2>1
    <3>2. ~crossed
      <4>1. ASSUME NEW r, Numbers!Ask(t, r) PROVE ~crossed
        BY <1>3, <4>1 DEF Numbers!Ask
      <4> QED
        BY <3>1, <4>1
           DEF Numbers!Attach, Numbers!Detach, Numbers!AgentRequest, Numbers!AskAttach,
               Numbers!AskImport, Numbers!AskDetach, Numbers!AskCreate, Numbers!AskChange
    <3> QED
      BY <1>1, <1>2, <1>3, <3>1, <3>2, BeginsUncrossed
  <2>2. CASE \E t \in Tasks : Numbers!GoesOn(t)
    BY <1>1, <1>2, <1>3, <2>2, GoesOnKeeps, GoesOnUncrossed
  <2>3. CASE \E n \in PhoneNumbers : Numbers!Import(n)
    <3>1. crossed' = crossed
      BY <2>3 DEF Numbers!Import
    <3> QED
      BY <1>1, <1>3, <2>3, <3>1, ImportUncrossed
  <2> QED
    BY <2>1, <2>2, <2>3 DEF Numbers!Next
<1> QED
  BY <1>2, <1>3 DEF LinksInv

\* The links are as promised in every behaviour of the API.
LEMMA NumbersInvariance == ApiSpec => []NumbersInv
<1>1. ApiInit => NumbersInv
  BY NumbersInit DEF ApiInit, NumbersInv
<1>2. NumbersInv /\ [ApiNext]_apiVars => NumbersInv'
  <2> SUFFICES ASSUME NumbersInv, [ApiNext]_apiVars, part' = "numbers" PROVE LinksInv'
    BY DEF NumbersInv
  <2>1. CASE UNCHANGED numberVars
    <3>1. part = "numbers"
      BY DEF ApiNext, apiVars
    <3>2. LinksInv
      BY <3>1 DEF NumbersInv
    <3> QED
      BY <2>1, <3>2
         DEF numberVars, LinksInv, Numbers!TypeOK, RequestsOK, ReqOK, Uncrossed, Apart,
             Links, ReadStands, FreeToLink
  <2>2. CASE ApiNext /\ ~UNCHANGED numberVars
    BY <2>2, NumbersStep DEF ApiNext, NumbersInv
  <2> QED
    BY <2>1, <2>2 DEF apiVars
<1> QED
  BY <1>1, <1>2, PTL DEF ApiSpec

\* For any agents, numbers and tasks, and whatever the provider refuses: while no
\* two requests have crossed over one agent or number, the number an agent shows is
\* its own in the inventory and rings its own application or nothing.
THEOREM LinksAgree == ApiSpec => []RoutedAlike
<1>1. NumbersInv => RoutedAlike
  BY DEF NumbersInv, LinksInv, Uncrossed, Links, RoutedAlike, Numbers!RoutedAlike
<1> QED
  BY <1>1, NumbersInvariance, PTL

---------------------------------------------------------------------------
(* CampaignApi: the inductive invariant.                                   *)

Verbs == {"start", "pause", "resume", "delete", "redial"}

\* What a task does: nothing, or a step of a request or of a report.
Doings ==
  [kind: {"idle", "report"} \cup Verbs, on: Campaign!Run \cup Campaign!Camps,
   pc: {"idle", "write", "enqueue", "reset", "campaign",
                             "runs", "total",
        "record", "trip", "retry"}]

\* The steps a handler takes without an await before them.
Held == {"write", "campaign", "runs", "total"}

\* A handler between two of its awaits has the loop for itself.
LoopHeld ==
  /\ task \in [Tasks -> Doings]
  /\ \A t \in Tasks : task[t].pc \in Held => loop = t

\* Nobody takes the campaign from under a handler about to start it; a campaign
\* that is created has no job, on its way or about to be; one whose job is about
\* to be done, or is, has left syncing behind.
JobFollows ==
  /\ \A t \in Tasks :
       Campaign!At(t, "start", "write") /\ task[t].on = "parent"
         => camp["parent"].state = "created"
  /\ camp["parent"].state = "created" =>
       job = "none" /\ \A t \in Tasks : ~Campaign!At(t, "start", "enqueue")
  /\ job \in {"publish", "done"} => camp["parent"].state # "syncing"
  /\ Campaign!SyncingHasJob

Firsts == {r \in rows["parent"] : r[2] = 0}

\* The runs of the campaign's first attempts are those of its source, or none;
\* those of a child are counted last, when it has counted none.
RunsCounted ==
  /\ Firsts \in {{}, Campaign!Valid}
  /\ camp["parent"].total \in {0, Campaign!Cardinality(Campaign!Valid)}
  /\ \A c \in Campaign!Camps : camp[c].state = "absent" => camp[c].total = 0
  /\ \A t \in Tasks : Campaign!At(t, "redial", "runs") => camp["child"].total = 0
  /\ camp["child"].total = 0 \/ rows["child"] = {}
       \/ camp["child"].total = Campaign!Cardinality(rows["child"])

\* A call that was reported has ended.
ReportsKnown ==
  /\ \A t \in Tasks : task[t].kind = "report" => calls[task[t].on] \in Endings
  /\ \A o \in outcomes : calls[o[1]] \in Endings

\* The breaker knows the times of the failures and of the others in its window.
BreakerKnows ==
  \A x \in 1 .. MaxTime : x + Window > now =>
    /\ (x \in fails) <=>
         (\E o \in outcomes : o[2] = x /\ calls[o[1]] \in Campaign!Failure)
    /\ (x \in succs) <=>
         (\E o \in outcomes : o[2] = x /\ calls[o[1]] = "connected")

Typed == Campaign!TypeOK /\ LoopHeld

Known ==
  /\ Typed /\ JobFollows /\ Campaign!EndedIsLeftAlone
  /\ RunsCounted /\ ReportsKnown /\ BreakerKnows

CampaignInv == part = "campaign" => Known

---------------------------------------------------------------------------
(* CampaignApi: lemmas about the operators.                                *)

\* What the assumption says of each constant.
LEMMA CampaignConstants ==
  /\ None \notin Tasks /\ IsFiniteSet(Contacts)
  /\ MaxTries \in Nat /\ MaxRequests \in Nat /\ MaxFaults \in Nat
  /\ Window \in Nat /\ Window >= 1 /\ MinCalls \in Nat /\ MinCalls >= 1
  /\ MaxTime \in Nat /\ MaxTime >= 1
  /\ "none" \notin Endings /\ "pending" \notin Endings
  BY CampaignAssumption

\* The instance of the component brings its own Cardinality; it is the library's.
LEMMA SameCardinality == \A S : Campaign!Cardinality(S) = Cardinality(S)
  BY DEF Campaign!Cardinality, Cardinality

\* The runs of a campaign are twice its contacts at most.
LEMMA RunsAreFinite ==
  ASSUME NEW S \in SUBSET Campaign!Run
  PROVE  Campaign!Cardinality(S) \in 0 .. 2 * Campaign!Cardinality(Contacts)
<1>1. IsFiniteSet({0, 1}) /\ Cardinality({0, 1}) = 2
  <2>1. IsFiniteSet({0}) /\ Cardinality({0}) = 1
    BY FS_Singleton
  <2>2. {0, 1} = {0} \cup {1} /\ 1 \notin {0}
    OBVIOUS
  <2> QED
    BY <2>1, <2>2, FS_AddElement
<1>2. Cardinality(Contacts) \in Nat
  BY CampaignConstants, FS_CardinalityType
<1>3. IsFiniteSet(Campaign!Run) /\ Cardinality(Campaign!Run) = Cardinality(Contacts) * 2
  BY <1>1, CampaignConstants, FS_Product DEF Campaign!Run
<1>4. IsFiniteSet(S) /\ Cardinality(S) <= Cardinality(Campaign!Run)
  BY <1>3, FS_Subset
<1> QED
  BY <1>2, <1>3, <1>4, FS_CardinalityType, SameCardinality

\* And its contacts are counted.
LEMMA ContactsCounted == Campaign!Cardinality(Contacts) \in Nat
  BY CampaignConstants, FS_CardinalityType, SameCardinality

\* A request names a verb and a campaign.
LEMMA RequestsAreVerbs ==
  ASSUME NEW q \in Requests
  PROVE  q[1] \in Verbs /\ q[2] \in Campaign!Camps
  BY CampaignAssumption DEF Verbs, Campaign!Camps

\* What a well-typed state says of the handlers.
TasksOK ==
  /\ LoopHeld /\ loop \in Tasks \cup {None}
  /\ \A t \in Tasks : IF task[t].kind = "report" THEN task[t].on \in Campaign!Run
                      ELSE task[t].on \in Campaign!Camps

\* And of the rest, part by part.
CampDocs ==
  [Campaign!Camps ->
     [state: Campaign!States, total: 0 .. 2 * Campaign!Cardinality(Contacts)]]

CallsOK ==
  /\ calls \in [Campaign!Run -> {"none", "pending"} \cup Endings]
  /\ reports \in [Campaign!Run -> 0 .. 2]

JobOK ==
  /\ job \in {"none", "queued", "fetch", "insert", "count", "empty", "finish",
              "publish", "fail", "done", "dropped"}
  /\ tries \in 0 .. MaxTries /\ source \in SUBSET Contacts /\ stranded \in BOOLEAN

BreakerOK ==
  /\ fails \in SUBSET (1 .. MaxTime) /\ succs \in SUBSET (1 .. MaxTime)
  /\ outcomes \in SUBSET (Campaign!Run \X (1 .. MaxTime))

LimitsOK ==
  now \in 1 .. MaxTime /\ asked \in 0 .. MaxRequests /\ faults \in 0 .. MaxFaults

DataOK ==
  /\ camp \in CampDocs /\ rows \in [Campaign!Camps -> SUBSET Campaign!Run]
  /\ CallsOK /\ JobOK /\ BreakerOK /\ LimitsOK /\ late \in SUBSET Tasks

\* The state of a campaign set is its state, if it is there.
LEMMA StateSet ==
  ASSUME camp \in CampDocs, NEW c \in Campaign!Camps, NEW s \in Campaign!States,
         Campaign!SetState(c, s)
  PROVE  /\ camp' \in CampDocs
         /\ \A d \in Campaign!Camps :
              /\ camp'[d].total = camp[d].total
              /\ d # c \/ camp[d].state = "absent" => camp'[d] = camp[d]
         /\ camp[c].state # "absent" => camp'[c].state = s
<1> DEFINE d == [camp[c] EXCEPT !.state = s]
<1>1. camp[c] \in [state: Campaign!States, total: 0 .. 2 * Campaign!Cardinality(Contacts)]
  BY DEF CampDocs
<1>2. /\ d \in [state: Campaign!States, total: 0 .. 2 * Campaign!Cardinality(Contacts)]
      /\ d.state = s /\ d.total = camp[c].total
  BY <1>1
<1>3. camp' = [camp EXCEPT ![c] = IF camp[c].state = "absent" THEN camp[c] ELSE d]
  BY <1>1 DEF CampDocs, Campaign!SetState, Campaign!Update
<1> QED
  BY <1>1, <1>2, <1>3 DEF CampDocs

\* And so is its total.
LEMMA TotalSet ==
  ASSUME camp \in CampDocs, NEW c \in Campaign!Camps, NEW S \in SUBSET Campaign!Run,
         Campaign!Update(c, [camp[c] EXCEPT !.total = Campaign!Cardinality(S)])
  PROVE  /\ camp' \in CampDocs
         /\ \A d \in Campaign!Camps :
              /\ camp'[d].state = camp[d].state
              /\ d # c \/ camp[d].state = "absent" => camp'[d] = camp[d]
         /\ camp[c].state # "absent" => camp'[c].total = Campaign!Cardinality(S)
<1> DEFINE n == Campaign!Cardinality(S)
           d == [camp[c] EXCEPT !.total = n]
<1>1. /\ camp[c] \in [state: Campaign!States,
                       total: 0 .. 2 * Campaign!Cardinality(Contacts)]
      /\ n \in 0 .. 2 * Campaign!Cardinality(Contacts)
  BY RunsAreFinite DEF CampDocs
<1>2. /\ d \in [state: Campaign!States, total: 0 .. 2 * Campaign!Cardinality(Contacts)]
      /\ d.total = n /\ d.state = camp[c].state
  BY <1>1
<1>3. camp' = [camp EXCEPT ![c] = IF camp[c].state = "absent" THEN camp[c] ELSE d]
  BY <1>1 DEF CampDocs, Campaign!Update
<1> QED
  BY <1>1, <1>2, <1>3 DEF CampDocs

\* The runs of a source are runs.
LEMMA ValidAreRuns ==
  JobOK => Campaign!Valid \in SUBSET Campaign!Run
  BY DEF JobOK, Campaign!Valid, Campaign!Run

\* And so is the next attempt of a run.
LEMMA RetriesAreRuns ==
  ASSUME rows \in [Campaign!Camps -> SUBSET Campaign!Run], NEW r \in Campaign!Run,
         Campaign!NeedsRetry(r)
  PROVE  /\ rows' \in [Campaign!Camps -> SUBSET Campaign!Run]
         /\ rows'["child"] = rows["child"]
         /\ rows["parent"] \subseteq rows'["parent"]
         /\ rows'["parent"] \subseteq rows["parent"] \cup {<<r[1], 1>>}
<1>1. <<r[1], 1>> \in Campaign!Run
  BY DEF Campaign!Run
<1>2. PICK S \in SUBSET {<<r[1], 1>>} : rows' = [rows EXCEPT !["parent"] = @ \cup S]
  BY DEF Campaign!NeedsRetry
<1> QED
  BY <1>1, <1>2 DEF Campaign!Camps

\* A well-typed state is both.
LEMMA TypedParts == Typed <=> TasksOK /\ DataOK
<1>1. Typed => TasksOK /\ DataOK
  BY DEF Typed, Campaign!TypeOK, TasksOK, DataOK, CampDocs, CallsOK, JobOK,
     BreakerOK, LimitsOK
<1>2. ASSUME TasksOK, DataOK PROVE Typed
  <2>1. \A t \in Tasks :
          /\ task[t].kind \in {"idle", "start", "pause", "resume", "delete",
                               "redial", "report"}
          /\ task[t].pc \in {"idle", "write", "enqueue", "reset", "campaign",
                             "runs", "total",
                             "record", "trip", "retry"}
    BY <1>2 DEF TasksOK, LoopHeld, Doings, Verbs
  <2> QED
    BY <1>2, <2>1 DEF Typed, Campaign!TypeOK, TasksOK, DataOK, CampDocs, CallsOK, JobOK,
                      BreakerOK, LimitsOK
<1> QED
  BY <1>1, <1>2

\* A handler moves on, keeping the loop or giving it up; only who holds it, or finds
\* it free, may.
LEMMA TaskMoves ==
  ASSUME TasksOK, NEW t \in Tasks, loop = None \/ task[t].pc \in Held
  PROVE  /\ Campaign!Returns(t) => TasksOK'
         /\ \A pc \in {"enqueue", "reset", "retry"} : Campaign!Goes(t, pc) => TasksOK'
         /\ \A pc \in {"campaign", "runs", "total"} : Campaign!Keeps(t, pc) => TasksOK'
<1> USE CampaignConstants
<1>1. /\ task \in [Tasks -> Doings] /\ loop \in Tasks \cup {None}
      /\ \A u \in Tasks : u # t => task[u].pc \notin Held
  BY DEF TasksOK, LoopHeld
<1>2. ASSUME Campaign!Returns(t) PROVE TasksOK'
  <2>1. task' \in [Tasks -> Doings] /\ loop' = None
    BY <1>1, <1>2 DEF Campaign!Returns, Doings, Campaign!Idle, Campaign!Camps
  <2>2. \A u \in Tasks : task'[u].pc \notin Held
    BY <1>1, <1>2 DEF Campaign!Returns, Campaign!Idle, Held
  <2>3. \A u \in Tasks : task'[u] \in {task[u], Campaign!Idle}
    BY <1>1, <1>2 DEF Campaign!Returns
  <2> QED
    BY <2>1, <2>2, <2>3 DEF TasksOK, LoopHeld, Campaign!Idle, Campaign!Camps
<1>3. ASSUME NEW pc \in {"enqueue", "reset", "retry"}, Campaign!Goes(t, pc)
      PROVE  TasksOK'
  <2>1. task' \in [Tasks -> Doings] /\ loop' = None
    BY <1>1, <1>3 DEF Campaign!Goes, Doings
  <2>2. \A u \in Tasks : task'[u].pc \notin Held
    BY <1>1, <1>3 DEF Campaign!Goes, Doings, Held
  <2>3. \A u \in Tasks : task'[u].kind = task[u].kind /\ task'[u].on = task[u].on
    BY <1>1, <1>3 DEF Campaign!Goes, Doings
  <2> QED
    BY <2>1, <2>2, <2>3 DEF TasksOK, LoopHeld
<1>4. ASSUME NEW pc \in {"campaign", "runs", "total"}, Campaign!Keeps(t, pc)
      PROVE  TasksOK'
  <2>1. task' \in [Tasks -> Doings] /\ loop' = t
    BY <1>1, <1>4 DEF Campaign!Keeps, Doings
  <2>2. \A u \in Tasks : task'[u].pc \in Held => u = t
    BY <1>1, <1>4 DEF Campaign!Keeps
  <2>3. \A u \in Tasks : task'[u].kind = task[u].kind /\ task'[u].on = task[u].on
    BY <1>1, <1>4 DEF Campaign!Keeps, Doings
  <2> QED
    BY <2>1, <2>2, <2>3 DEF TasksOK, LoopHeld
<1> QED
  BY <1>2, <1>3, <1>4

---------------------------------------------------------------------------
(* CampaignApi: type correctness.                                          *)

\* Every step keeps the handlers' types, and the loop with its holder.
LEMMA TaskStep ==
  ASSUME TasksOK, Campaign!Next
  PROVE  TasksOK'
\* The steps that are about something else.
<1>0. ASSUME UNCHANGED <<task, loop>> PROVE TasksOK'
  BY <1>0 DEF TasksOK, LoopHeld
<1>1. ASSUME NEW t \in Tasks, NEW kd \in Verbs, NEW c \in Campaign!Camps,
             Campaign!Request(t, kd, c)
      PROVE  TasksOK'
  BY <1>1, CampaignConstants DEF TasksOK, LoopHeld, Doings, Held, Verbs,
     Campaign!Request, Campaign!Idle, Campaign!Candidates, Campaign!mongo,
     Campaign!breaker, Campaign!phone, Campaign!worker
<1>2. ASSUME NEW t \in Tasks, Campaign!StartWrite(t) PROVE TasksOK'
  BY <1>2, TaskMoves DEF Campaign!StartWrite, Campaign!At, Held
<1>3. ASSUME NEW t \in Tasks, Campaign!Enqueue(t) PROVE TasksOK'
  BY <1>3, TaskMoves DEF Campaign!Enqueue, Campaign!At, Held, Campaign!Resumes
<1>4. ASSUME NEW t \in Tasks, Campaign!EnqueueRaises(t) PROVE TasksOK'
  BY <1>4, TaskMoves DEF Campaign!EnqueueRaises, Campaign!At, Held, Campaign!Resumes
<1>5. ASSUME NEW t \in Tasks, Campaign!PauseWrite(t) PROVE TasksOK'
  BY <1>5, TaskMoves DEF Campaign!PauseWrite, Campaign!At, Held
<1>6. ASSUME NEW t \in Tasks, Campaign!ResumeWrite(t) PROVE TasksOK'
  BY <1>6, TaskMoves DEF Campaign!ResumeWrite, Campaign!At, Held
<1>7. ASSUME NEW t \in Tasks, Campaign!Reset(t) PROVE TasksOK'
  BY <1>7, TaskMoves DEF Campaign!Reset, Campaign!At, Held, Campaign!Resumes
<1>8. ASSUME NEW t \in Tasks, Campaign!ResetRaises(t) PROVE TasksOK'
  BY <1>8, TaskMoves DEF Campaign!ResetRaises, Campaign!At, Held, Campaign!Resumes
<1>9. ASSUME NEW t \in Tasks, Campaign!DeleteRuns(t) PROVE TasksOK'
  BY <1>9, TaskMoves DEF Campaign!DeleteRuns, Campaign!At, Held
<1>10. ASSUME NEW t \in Tasks, Campaign!DeleteCampaign(t) PROVE TasksOK'
  BY <1>10, TaskMoves DEF Campaign!DeleteCampaign, Campaign!At, Held
<1>11. ASSUME NEW t \in Tasks, Campaign!RedialCreate(t) PROVE TasksOK'
  BY <1>11, TaskMoves DEF Campaign!RedialCreate, Campaign!At, Held
<1>12. ASSUME NEW t \in Tasks, Campaign!RedialRuns(t) PROVE TasksOK'
  BY <1>12, TaskMoves DEF Campaign!RedialRuns, Campaign!At, Held
<1>13. ASSUME NEW t \in Tasks, Campaign!RedialTotal(t) PROVE TasksOK'
  BY <1>13, TaskMoves DEF Campaign!RedialTotal, Campaign!At, Held
<1>14. ASSUME NEW t \in Tasks, NEW r \in Campaign!Run, Campaign!Report(t, r)
      PROVE  TasksOK'
  BY <1>14, CampaignConstants DEF TasksOK, LoopHeld, Doings, Held, Verbs,
     Campaign!Report, Campaign!Idle, Campaign!breaker, Campaign!worker,
     Campaign!limits
<1>15. ASSUME NEW t \in Tasks, Campaign!Record(t) PROVE TasksOK'
  BY <1>15, CampaignConstants DEF TasksOK, LoopHeld, Doings, Held, Verbs,
     Campaign!Record, Campaign!At, Campaign!mongo, Campaign!phone, Campaign!worker,
     Campaign!limits
<1>16. ASSUME NEW t \in Tasks, Campaign!RecordRaises(t) PROVE TasksOK'
  BY <1>16, CampaignConstants DEF TasksOK, LoopHeld, Doings, Held, Verbs,
     Campaign!RecordRaises, Campaign!At, Campaign!mongo, Campaign!breaker,
     Campaign!phone, Campaign!worker
<1>17. ASSUME NEW t \in Tasks, Campaign!Trip(t) PROVE TasksOK'
  BY <1>17, TaskMoves DEF Campaign!Trip, Campaign!At, Held, Campaign!Resumes
<1>18. ASSUME NEW t \in Tasks, Campaign!Retry(t) PROVE TasksOK'
  BY <1>18, TaskMoves DEF Campaign!Retry, Campaign!At, Held, Campaign!Resumes
<1>19. ASSUME Campaign!ApiDies PROVE TasksOK'
  <2>1. task' = [u \in Tasks |-> Campaign!Idle] /\ loop' = None
    BY <1>19 DEF Campaign!ApiDies
  <2> QED
    BY <2>1 DEF TasksOK, LoopHeld, Doings, Held, Campaign!Idle, Campaign!Camps
<1>20. ASSUME NEW t \in Tasks, Campaign!Client(t) PROVE TasksOK'
  BY <1>20, <1>1, RequestsAreVerbs DEF Campaign!Client
<1>21. CASE \E t \in Tasks : Campaign!Client(t) \/ Campaign!Lifecycle(t)
  BY <1>21, <1>20, <1>2, <1>3, <1>4, <1>5, <1>6, <1>7, <1>8, <1>9, <1>10, <1>11,
     <1>12, <1>13 DEF Campaign!Lifecycle
<1>22. CASE \E t \in Tasks : Campaign!Terminal(t)
  BY <1>22, <1>14, <1>15, <1>16, <1>17, <1>18 DEF Campaign!Terminal
<1>23. CASE Campaign!Sync
  BY <1>23, <1>0 DEF Campaign!Sync, Campaign!JobStarts, Campaign!mongo,
     Campaign!breaker, Campaign!phone, Campaign!api, Campaign!limits,
     Campaign!Fetched, Campaign!FetchRaises, Campaign!InsertRuns, Campaign!WriteTotal,
     Campaign!SyncEmpty, Campaign!SyncFinish, Campaign!Published,
     Campaign!PublishRaises, Campaign!SyncFails, Campaign!WorkerDies
<1>24. CASE Campaign!Outside
  BY <1>24, <1>0, <1>19 DEF Campaign!Outside, Campaign!Dial, Campaign!mongo,
     Campaign!breaker, Campaign!api, Campaign!worker, Campaign!limits,
     Campaign!CallEnds, Campaign!Ends, Campaign!phone, Campaign!Tick
<1> QED
  BY <1>21, <1>22, <1>23, <1>24 DEF Campaign!Next

\* Every step keeps the campaigns'.
LEMMA CampStep ==
  ASSUME TasksOK, DataOK, Campaign!Next
  PROVE  camp' \in CampDocs
\* The steps that are about something else.
<1>0. ASSUME UNCHANGED <<camp>> PROVE camp' \in CampDocs
  BY <1>0 DEF DataOK
<1>1. ASSUME NEW t \in Tasks, Campaign!StartWrite(t) PROVE camp' \in CampDocs
  BY <1>1, StateSet DEF DataOK, TasksOK, Campaign!StartWrite, Campaign!At,
     Campaign!Camps, Campaign!States
<1>2. ASSUME NEW t \in Tasks, Campaign!PauseWrite(t) PROVE camp' \in CampDocs
  BY <1>2, StateSet DEF DataOK, TasksOK, Campaign!PauseWrite, Campaign!At,
     Campaign!Camps, Campaign!States
<1>3. ASSUME NEW t \in Tasks, Campaign!ResumeWrite(t) PROVE camp' \in CampDocs
  BY <1>3, StateSet DEF DataOK, TasksOK, Campaign!ResumeWrite, Campaign!At,
     Campaign!Camps, Campaign!States
<1>4. ASSUME NEW t \in Tasks, Campaign!DeleteCampaign(t) PROVE camp' \in CampDocs
  BY <1>4, ContactsCounted DEF DataOK, TasksOK, CampDocs, Campaign!At,
     Campaign!DeleteCampaign, Campaign!Camps, Campaign!States
<1>5. ASSUME NEW t \in Tasks, Campaign!RedialCreate(t) PROVE camp' \in CampDocs
  BY <1>5, ContactsCounted DEF DataOK, CampDocs, Campaign!RedialCreate,
     Campaign!Camps, Campaign!States
<1>6. ASSUME NEW t \in Tasks, Campaign!RedialTotal(t) PROVE camp' \in CampDocs
  BY <1>6, TotalSet DEF DataOK, Campaign!RedialTotal, Campaign!Camps
<1>7. ASSUME NEW t \in Tasks, Campaign!Trip(t) PROVE camp' \in CampDocs
  BY <1>7, StateSet DEF DataOK, TasksOK, Campaign!Trip, Campaign!At, Campaign!Camps,
     Campaign!States
<1>8. ASSUME Campaign!WriteTotal PROVE camp' \in CampDocs
  BY <1>8, TotalSet, ValidAreRuns DEF DataOK, Campaign!WriteTotal, Campaign!Camps,
     Campaign!CountRows
<1>9. ASSUME Campaign!SyncEmpty PROVE camp' \in CampDocs
  BY <1>9, StateSet DEF DataOK, TasksOK, Campaign!SyncEmpty, Campaign!Final,
     Campaign!Camps, Campaign!States
<1>10. ASSUME Campaign!SyncFinish PROVE camp' \in CampDocs
  BY <1>10, StateSet DEF DataOK, TasksOK, Campaign!SyncFinish, Campaign!At,
     Campaign!Camps, Campaign!States
<1>11. ASSUME Campaign!SyncFails PROVE camp' \in CampDocs
  BY <1>11, StateSet DEF DataOK, TasksOK, Campaign!SyncFails, Campaign!Final,
     Campaign!Camps, Campaign!States
<1>12. ASSUME NEW s \in {"completed", "failed"}, Campaign!Ends(s)
      PROVE  camp' \in CampDocs
  BY <1>12, StateSet DEF DataOK, TasksOK, Campaign!Ends, Campaign!Final,
     Campaign!Camps, Campaign!States
<1>13. CASE \E t \in Tasks : Campaign!Client(t) \/ Campaign!Lifecycle(t)
  BY <1>13, <1>0, <1>1, <1>2, <1>3, <1>4, <1>5, <1>6 DEF Campaign!Lifecycle,
     Campaign!Request, Campaign!mongo, Campaign!breaker, Campaign!phone,
     Campaign!worker, Campaign!Enqueue, Campaign!limits, Campaign!EnqueueRaises,
     Campaign!Reset, Campaign!ResetRaises, Campaign!DeleteRuns, Campaign!RedialRuns,
     Campaign!Client
<1>14. CASE \E t \in Tasks : Campaign!Terminal(t)
  BY <1>14, <1>0, <1>7 DEF Campaign!Terminal, Campaign!Report, Campaign!breaker,
     Campaign!worker, Campaign!limits, Campaign!Record, Campaign!mongo,
     Campaign!phone, Campaign!RecordRaises, Campaign!Retry
<1>15. CASE Campaign!Sync
  BY <1>15, <1>0, <1>8, <1>9, <1>10, <1>11 DEF Campaign!Sync, Campaign!JobStarts,
     Campaign!mongo, Campaign!breaker, Campaign!phone, Campaign!api, Campaign!limits,
     Campaign!Fetched, Campaign!FetchRaises, Campaign!InsertRuns, Campaign!Published,
     Campaign!PublishRaises, Campaign!WorkerDies
<1>16. CASE Campaign!Outside
  BY <1>16, <1>0, <1>12 DEF Campaign!Outside, Campaign!Dial, Campaign!mongo,
     Campaign!breaker, Campaign!api, Campaign!worker, Campaign!limits,
     Campaign!CallEnds, Campaign!ApiDies, Campaign!phone, Campaign!Tick
<1> QED
  BY <1>13, <1>14, <1>15, <1>16 DEF Campaign!Next

\* The runs'.
LEMMA RowsStep ==
  ASSUME TasksOK, DataOK, Campaign!Next
  PROVE  rows' \in [Campaign!Camps -> SUBSET Campaign!Run]
\* The steps that are about something else.
<1>0. ASSUME UNCHANGED <<rows>> PROVE rows' \in [Campaign!Camps -> SUBSET Campaign!Run]
  BY <1>0 DEF DataOK
<1>1. ASSUME NEW t \in Tasks, Campaign!DeleteRuns(t)
      PROVE  rows' \in [Campaign!Camps -> SUBSET Campaign!Run]
  BY <1>1 DEF DataOK, TasksOK, Campaign!DeleteRuns, Campaign!At, Campaign!Keeps
<1>2. ASSUME NEW t \in Tasks, Campaign!RedialRuns(t)
      PROVE  rows' \in [Campaign!Camps -> SUBSET Campaign!Run]
  BY <1>2 DEF DataOK, Campaign!RedialRuns, Campaign!Candidates, Campaign!Camps
<1>3. ASSUME NEW t \in Tasks, NEW r \in Campaign!Run, Campaign!Report(t, r)
      PROVE  rows' \in [Campaign!Camps -> SUBSET Campaign!Run]
  BY <1>3, RetriesAreRuns DEF DataOK, Campaign!Report
<1>4. ASSUME NEW t \in Tasks, Campaign!Retry(t)
      PROVE  rows' \in [Campaign!Camps -> SUBSET Campaign!Run]
  BY <1>4, RetriesAreRuns DEF DataOK, TasksOK, Campaign!Retry, Campaign!Resumes,
     Campaign!At
<1>5. ASSUME Campaign!InsertRuns PROVE rows' \in [Campaign!Camps -> SUBSET Campaign!Run]
  BY <1>5, ValidAreRuns DEF DataOK, Campaign!InsertRuns, Campaign!Camps
<1>6. CASE \E t \in Tasks : Campaign!Client(t) \/ Campaign!Lifecycle(t)
  BY <1>6, <1>0, <1>1, <1>2 DEF Campaign!Lifecycle, Campaign!Request, Campaign!mongo,
     Campaign!breaker, Campaign!phone, Campaign!worker, Campaign!StartWrite,
     Campaign!limits, Campaign!Enqueue, Campaign!EnqueueRaises, Campaign!PauseWrite,
     Campaign!ResumeWrite, Campaign!Reset, Campaign!ResetRaises,
     Campaign!DeleteCampaign, Campaign!RedialCreate, Campaign!RedialTotal,
     Campaign!Client
<1>7. CASE \E t \in Tasks : Campaign!Terminal(t)
  BY <1>7, <1>0, <1>3, <1>4 DEF Campaign!Terminal, Campaign!Record, Campaign!mongo,
     Campaign!phone, Campaign!worker, Campaign!limits, Campaign!RecordRaises,
     Campaign!breaker, Campaign!Trip
<1>8. CASE Campaign!Sync
  BY <1>8, <1>0, <1>5 DEF Campaign!Sync, Campaign!JobStarts, Campaign!mongo,
     Campaign!breaker, Campaign!phone, Campaign!api, Campaign!limits,
     Campaign!Fetched, Campaign!FetchRaises, Campaign!WriteTotal, Campaign!SyncEmpty,
     Campaign!SyncFinish, Campaign!Published, Campaign!PublishRaises,
     Campaign!SyncFails, Campaign!WorkerDies
<1>9. CASE Campaign!Outside
  BY <1>9, <1>0 DEF Campaign!Outside, Campaign!Dial, Campaign!mongo, Campaign!breaker,
     Campaign!api, Campaign!worker, Campaign!limits, Campaign!CallEnds, Campaign!Ends,
     Campaign!phone, Campaign!ApiDies, Campaign!Tick
<1> QED
  BY <1>6, <1>7, <1>8, <1>9 DEF Campaign!Next

\* The calls'.
LEMMA PhoneStep ==
  ASSUME TasksOK, DataOK, Campaign!Next
  PROVE  CallsOK'
\* The steps that are about something else.
<1>0. ASSUME UNCHANGED <<calls, reports>> PROVE CallsOK'
  BY <1>0 DEF DataOK, CallsOK
<1>1. ASSUME NEW t \in Tasks, NEW r \in Campaign!Run, Campaign!Report(t, r)
      PROVE  CallsOK'
  BY <1>1 DEF DataOK, CallsOK, Campaign!Report, Campaign!Failure, Campaign!Retryable,
     Campaign!Idle, Campaign!Retries, Campaign!NeedsRetry
<1>2. ASSUME NEW r \in Campaign!Run, Campaign!Dial(r) PROVE CallsOK'
  BY <1>2 DEF DataOK, CallsOK, Campaign!Dial
<1>3. ASSUME NEW r \in Campaign!Run, NEW x \in Endings, Campaign!CallEnds(r, x)
      PROVE  CallsOK'
  BY <1>3 DEF DataOK, CallsOK, Campaign!CallEnds
<1>4. CASE \E t \in Tasks : Campaign!Client(t) \/ Campaign!Lifecycle(t)
  BY <1>4, <1>0 DEF Campaign!Lifecycle, Campaign!Request, Campaign!mongo,
     Campaign!breaker, Campaign!phone, Campaign!worker, Campaign!StartWrite,
     Campaign!limits, Campaign!Enqueue, Campaign!EnqueueRaises, Campaign!PauseWrite,
     Campaign!ResumeWrite, Campaign!Reset, Campaign!ResetRaises, Campaign!DeleteRuns,
     Campaign!DeleteCampaign, Campaign!RedialCreate, Campaign!RedialRuns,
     Campaign!RedialTotal, Campaign!Client
<1>5. CASE \E t \in Tasks : Campaign!Terminal(t)
  BY <1>5, <1>0, <1>1 DEF Campaign!Terminal, Campaign!Record, Campaign!mongo,
     Campaign!phone, Campaign!worker, Campaign!limits, Campaign!RecordRaises,
     Campaign!breaker, Campaign!Trip, Campaign!Retry
<1>6. CASE Campaign!Sync
  BY <1>6, <1>0 DEF Campaign!Sync, Campaign!JobStarts, Campaign!mongo,
     Campaign!breaker, Campaign!phone, Campaign!api, Campaign!limits,
     Campaign!Fetched, Campaign!FetchRaises, Campaign!InsertRuns, Campaign!WriteTotal,
     Campaign!SyncEmpty, Campaign!SyncFinish, Campaign!Published,
     Campaign!PublishRaises, Campaign!SyncFails, Campaign!WorkerDies
<1>7. CASE Campaign!Outside
  BY <1>7, <1>0, <1>2, <1>3 DEF Campaign!Outside, Campaign!Ends, Campaign!breaker,
     Campaign!phone, Campaign!api, Campaign!worker, Campaign!limits, Campaign!ApiDies,
     Campaign!mongo, Campaign!Tick
<1> QED
  BY <1>4, <1>5, <1>6, <1>7 DEF Campaign!Next

\* The job's.
LEMMA WorkerStep ==
  ASSUME TasksOK, DataOK, Campaign!Next
  PROVE  JobOK'
\* The steps that are about something else.
<1>0. ASSUME UNCHANGED <<job, tries, source, stranded>> PROVE JobOK'
  BY <1>0 DEF DataOK, JobOK
<1>1. ASSUME NEW t \in Tasks, Campaign!Enqueue(t) PROVE JobOK'
  BY <1>1, CampaignConstants DEF DataOK, JobOK, Campaign!Enqueue
<1>2. ASSUME NEW t \in Tasks, Campaign!EnqueueRaises(t) PROVE JobOK'
  BY <1>2, CampaignConstants DEF DataOK, JobOK, Campaign!EnqueueRaises,
     Campaign!Fault, Campaign!worker
<1>3. ASSUME Campaign!JobStarts PROVE JobOK'
  <2>1. stranded' \in BOOLEAN
    BY <1>3 DEF DataOK, JobOK, Campaign!JobStarts
  <2>2. tries' \in 0 .. MaxTries
    BY <1>3, CampaignConstants DEF DataOK, JobOK, Campaign!JobStarts
  <2> QED
    BY <1>3, <2>1, <2>2 DEF DataOK, JobOK, Campaign!JobStarts
<1>4. ASSUME Campaign!Fetched PROVE JobOK'
  BY <1>4, CampaignConstants DEF DataOK, JobOK, Campaign!Fetched, Campaign!Valid
<1>5. ASSUME Campaign!FetchRaises PROVE JobOK'
  BY <1>5, CampaignConstants DEF DataOK, JobOK, Campaign!FetchRaises, Campaign!Fault
<1>6. ASSUME Campaign!InsertRuns PROVE JobOK'
  BY <1>6, CampaignConstants DEF DataOK, JobOK, Campaign!InsertRuns, Campaign!Valid
<1>7. ASSUME Campaign!WriteTotal PROVE JobOK'
  BY <1>7, CampaignConstants DEF DataOK, JobOK, Campaign!WriteTotal, Campaign!Valid,
     Campaign!Update, Campaign!CountRows
<1>8. ASSUME Campaign!SyncEmpty PROVE JobOK'
  BY <1>8, CampaignConstants DEF DataOK, JobOK, Campaign!SyncEmpty, Campaign!Update,
     Campaign!SetState, Campaign!Final
<1>9. ASSUME Campaign!SyncFinish PROVE JobOK'
  BY <1>9, CampaignConstants DEF DataOK, JobOK, Campaign!SyncFinish, Campaign!Update,
     Campaign!SetState
<1>10. ASSUME Campaign!Published PROVE JobOK'
  BY <1>10, CampaignConstants DEF DataOK, JobOK, Campaign!Published
<1>11. ASSUME Campaign!PublishRaises PROVE JobOK'
  BY <1>11, CampaignConstants DEF DataOK, JobOK, Campaign!PublishRaises,
     Campaign!Fault
<1>12. ASSUME Campaign!SyncFails PROVE JobOK'
  BY <1>12, CampaignConstants DEF DataOK, JobOK, Campaign!SyncFails, Campaign!Update,
     Campaign!SetState, Campaign!Final
<1>13. ASSUME Campaign!WorkerDies PROVE JobOK'
  BY <1>13, CampaignConstants DEF DataOK, JobOK, Campaign!WorkerDies, Campaign!Fault
<1>14. ASSUME Campaign!ApiDies PROVE JobOK'
  <2>1. stranded \in BOOLEAN /\ UNCHANGED <<job, tries, source>>
    BY <1>14 DEF DataOK, JobOK, Campaign!ApiDies, Campaign!worker
  <2>2. stranded' \in BOOLEAN
    BY <1>14, <2>1 DEF Campaign!ApiDies
  <2> QED
    BY <2>1, <2>2 DEF DataOK, JobOK
<1>15. CASE \E t \in Tasks : Campaign!Client(t) \/ Campaign!Lifecycle(t)
  BY <1>15, <1>0, <1>1, <1>2 DEF Campaign!Lifecycle, Campaign!Request, Campaign!mongo,
     Campaign!breaker, Campaign!phone, Campaign!worker, Campaign!StartWrite,
     Campaign!limits, Campaign!PauseWrite, Campaign!ResumeWrite, Campaign!Reset,
     Campaign!ResetRaises, Campaign!DeleteRuns, Campaign!DeleteCampaign,
     Campaign!RedialCreate, Campaign!RedialRuns, Campaign!RedialTotal, Campaign!Client
<1>16. CASE \E t \in Tasks : Campaign!Terminal(t)
  BY <1>16, <1>0 DEF Campaign!Terminal, Campaign!Report, Campaign!breaker,
     Campaign!worker, Campaign!limits, Campaign!Record, Campaign!mongo,
     Campaign!phone, Campaign!RecordRaises, Campaign!Trip, Campaign!Retry
<1>17. CASE Campaign!Sync
  BY <1>17, <1>3, <1>4, <1>5, <1>6, <1>7, <1>8, <1>9, <1>10, <1>11, <1>12, <1>13 DEF
     Campaign!Sync
<1>18. CASE Campaign!Outside
  BY <1>18, <1>0, <1>14 DEF Campaign!Outside, Campaign!Dial, Campaign!mongo,
     Campaign!breaker, Campaign!api, Campaign!worker, Campaign!limits,
     Campaign!CallEnds, Campaign!Ends, Campaign!phone, Campaign!Tick
<1> QED
  BY <1>15, <1>16, <1>17, <1>18 DEF Campaign!Next

\* The breaker's.
LEMMA BreakerStep ==
  ASSUME TasksOK, DataOK, Campaign!Next
  PROVE  BreakerOK'
\* The steps that are about something else.
<1>0. ASSUME UNCHANGED <<fails, succs, outcomes>> PROVE BreakerOK'
  BY <1>0 DEF DataOK, BreakerOK
<1>1. ASSUME NEW t \in Tasks, Campaign!Reset(t) PROVE BreakerOK'
  BY <1>1, CampaignConstants DEF DataOK, TasksOK, BreakerOK, Campaign!Reset,
     Campaign!Idle, Campaign!At, Campaign!Resumes, Campaign!Returns
<1>2. ASSUME NEW t \in Tasks, Campaign!Record(t) PROVE BreakerOK'
  BY <1>2, CampaignConstants DEF DataOK, TasksOK, BreakerOK, LimitsOK,
     Campaign!Record, Campaign!At, Campaign!InWindow
<1>3. CASE \E t \in Tasks : Campaign!Client(t) \/ Campaign!Lifecycle(t)
  BY <1>3, <1>0, <1>1 DEF Campaign!Lifecycle, Campaign!Request, Campaign!mongo,
     Campaign!breaker, Campaign!phone, Campaign!worker, Campaign!StartWrite,
     Campaign!limits, Campaign!Enqueue, Campaign!EnqueueRaises, Campaign!PauseWrite,
     Campaign!ResumeWrite, Campaign!ResetRaises, Campaign!DeleteRuns,
     Campaign!DeleteCampaign, Campaign!RedialCreate, Campaign!RedialRuns,
     Campaign!RedialTotal, Campaign!Client
<1>4. CASE \E t \in Tasks : Campaign!Terminal(t)
  BY <1>4, <1>0, <1>2 DEF Campaign!Terminal, Campaign!Report, Campaign!breaker,
     Campaign!worker, Campaign!limits, Campaign!RecordRaises, Campaign!mongo,
     Campaign!phone, Campaign!Trip, Campaign!Retry
<1>5. CASE Campaign!Sync
  BY <1>5, <1>0 DEF Campaign!Sync, Campaign!JobStarts, Campaign!mongo,
     Campaign!breaker, Campaign!phone, Campaign!api, Campaign!limits,
     Campaign!Fetched, Campaign!FetchRaises, Campaign!InsertRuns, Campaign!WriteTotal,
     Campaign!SyncEmpty, Campaign!SyncFinish, Campaign!Published,
     Campaign!PublishRaises, Campaign!SyncFails, Campaign!WorkerDies
<1>6. CASE Campaign!Outside
  BY <1>6, <1>0 DEF Campaign!Outside, Campaign!Dial, Campaign!mongo, Campaign!breaker,
     Campaign!api, Campaign!worker, Campaign!limits, Campaign!CallEnds, Campaign!Ends,
     Campaign!phone, Campaign!ApiDies, Campaign!Tick
<1> QED
  BY <1>3, <1>4, <1>5, <1>6 DEF Campaign!Next

\* The clock's and the counters'.
LEMMA LimitsStep ==
  ASSUME TasksOK, DataOK, Campaign!Next
  PROVE  LimitsOK'
\* The steps that are about something else.
<1>0. ASSUME UNCHANGED <<now, asked, faults>> PROVE LimitsOK'
  BY <1>0 DEF DataOK, LimitsOK
<1>1. ASSUME NEW t \in Tasks, NEW kd \in Verbs, NEW c \in Campaign!Camps,
             Campaign!Request(t, kd, c)
      PROVE  LimitsOK'
  BY <1>1, CampaignConstants DEF DataOK, LimitsOK, Campaign!Request, Campaign!Failure,
     Campaign!Idle, Campaign!Candidates, Campaign!MayBegin
<1>2. ASSUME NEW t \in Tasks, Campaign!EnqueueRaises(t) PROVE LimitsOK'
  BY <1>2, CampaignConstants DEF DataOK, LimitsOK, Campaign!EnqueueRaises,
     Campaign!Idle, Campaign!Fault, Campaign!At, Campaign!Resumes, Campaign!Returns
<1>3. ASSUME NEW t \in Tasks, Campaign!ResetRaises(t) PROVE LimitsOK'
  BY <1>3, CampaignConstants DEF DataOK, LimitsOK, Campaign!ResetRaises,
     Campaign!Idle, Campaign!Fault, Campaign!At, Campaign!Resumes, Campaign!Returns
<1>4. ASSUME NEW t \in Tasks, Campaign!RecordRaises(t) PROVE LimitsOK'
  BY <1>4, CampaignConstants DEF DataOK, LimitsOK, Campaign!RecordRaises,
     Campaign!Fault, Campaign!At
<1>5. ASSUME Campaign!FetchRaises PROVE LimitsOK'
  BY <1>5, CampaignConstants DEF DataOK, LimitsOK, Campaign!FetchRaises,
     Campaign!Fault
<1>6. ASSUME Campaign!PublishRaises PROVE LimitsOK'
  BY <1>6, CampaignConstants DEF DataOK, LimitsOK, Campaign!PublishRaises,
     Campaign!Fault
<1>7. ASSUME Campaign!WorkerDies PROVE LimitsOK'
  BY <1>7, CampaignConstants DEF DataOK, LimitsOK, Campaign!WorkerDies, Campaign!Fault
<1>8. ASSUME Campaign!ApiDies PROVE LimitsOK'
  BY <1>8, CampaignConstants DEF DataOK, LimitsOK, Campaign!ApiDies, Campaign!Idle,
     Campaign!Fault, Campaign!At
<1>9. ASSUME Campaign!Tick PROVE LimitsOK'
  BY <1>9, CampaignConstants DEF DataOK, LimitsOK, Campaign!Tick
<1>10. ASSUME NEW t \in Tasks, Campaign!Client(t) PROVE LimitsOK'
  BY <1>10, <1>1, RequestsAreVerbs DEF Campaign!Client
<1>11. CASE \E t \in Tasks : Campaign!Client(t) \/ Campaign!Lifecycle(t)
  BY <1>11, <1>0, <1>10, <1>2, <1>3 DEF Campaign!Lifecycle, Campaign!StartWrite,
     Campaign!breaker, Campaign!phone, Campaign!worker, Campaign!limits,
     Campaign!Enqueue, Campaign!mongo, Campaign!PauseWrite, Campaign!ResumeWrite,
     Campaign!Reset, Campaign!DeleteRuns, Campaign!DeleteCampaign,
     Campaign!RedialCreate, Campaign!RedialRuns, Campaign!RedialTotal
<1>12. CASE \E t \in Tasks : Campaign!Terminal(t)
  BY <1>12, <1>0, <1>4 DEF Campaign!Terminal, Campaign!Report, Campaign!breaker,
     Campaign!worker, Campaign!limits, Campaign!Record, Campaign!mongo,
     Campaign!phone, Campaign!Trip, Campaign!Retry
<1>13. CASE Campaign!Sync
  BY <1>13, <1>0, <1>5, <1>6, <1>7 DEF Campaign!Sync, Campaign!JobStarts,
     Campaign!mongo, Campaign!breaker, Campaign!phone, Campaign!api, Campaign!limits,
     Campaign!Fetched, Campaign!InsertRuns, Campaign!WriteTotal, Campaign!SyncEmpty,
     Campaign!SyncFinish, Campaign!Published, Campaign!SyncFails
<1>14. CASE Campaign!Outside
  BY <1>14, <1>0, <1>8, <1>9 DEF Campaign!Outside, Campaign!Dial, Campaign!mongo,
     Campaign!breaker, Campaign!api, Campaign!worker, Campaign!limits,
     Campaign!CallEnds, Campaign!Ends, Campaign!phone
<1> QED
  BY <1>11, <1>12, <1>13, <1>14 DEF Campaign!Next

\* The latecomers'.
LEMMA LateStep ==
  ASSUME TasksOK, DataOK, Campaign!Next
  PROVE  late' \in SUBSET Tasks
\* The steps that are about something else.
<1>0. ASSUME UNCHANGED <<late>> PROVE late' \in SUBSET Tasks
  BY <1>0 DEF DataOK
<1>1. ASSUME NEW t \in Tasks, Campaign!StartWrite(t) PROVE late' \in SUBSET Tasks
  BY <1>1 DEF DataOK, Campaign!StartWrite, Campaign!Idle, Campaign!Update,
     Campaign!SetState, Campaign!Goes, Campaign!Returns
<1>2. ASSUME NEW t \in Tasks, Campaign!Enqueue(t) PROVE late' \in SUBSET Tasks
  BY <1>2 DEF DataOK, Campaign!Enqueue, Campaign!Idle, Campaign!Resumes,
     Campaign!Returns
<1>3. ASSUME NEW t \in Tasks, Campaign!EnqueueRaises(t) PROVE late' \in SUBSET Tasks
  BY <1>3 DEF DataOK, Campaign!EnqueueRaises, Campaign!Idle, Campaign!Resumes,
     Campaign!Returns
<1>4. ASSUME NEW t \in Tasks, Campaign!PauseWrite(t) PROVE late' \in SUBSET Tasks
  BY <1>4 DEF DataOK, Campaign!PauseWrite, Campaign!Idle, Campaign!Update,
     Campaign!SetState, Campaign!Returns
<1>5. ASSUME NEW t \in Tasks, Campaign!ResumeWrite(t) PROVE late' \in SUBSET Tasks
  BY <1>5 DEF DataOK, Campaign!ResumeWrite, Campaign!Idle, Campaign!Update,
     Campaign!SetState, Campaign!Goes, Campaign!Returns
<1>6. ASSUME NEW t \in Tasks, Campaign!Reset(t) PROVE late' \in SUBSET Tasks
  BY <1>6 DEF DataOK, Campaign!Reset, Campaign!Idle, Campaign!Resumes,
     Campaign!Returns
<1>7. ASSUME NEW t \in Tasks, Campaign!ResetRaises(t) PROVE late' \in SUBSET Tasks
  BY <1>7 DEF DataOK, Campaign!ResetRaises, Campaign!Idle, Campaign!Resumes,
     Campaign!Returns
<1>8. ASSUME NEW t \in Tasks, Campaign!DeleteCampaign(t) PROVE late' \in SUBSET Tasks
  BY <1>8 DEF DataOK, Campaign!DeleteCampaign, Campaign!Idle, Campaign!Returns
<1>9. ASSUME NEW t \in Tasks, Campaign!RedialTotal(t) PROVE late' \in SUBSET Tasks
  BY <1>9 DEF DataOK, Campaign!RedialTotal, Campaign!Idle, Campaign!Update,
     Campaign!Returns
<1>10. ASSUME NEW t \in Tasks, Campaign!Retry(t) PROVE late' \in SUBSET Tasks
  BY <1>10 DEF DataOK, Campaign!Retry, Campaign!Failure, Campaign!Retryable,
     Campaign!Idle, Campaign!Resumes, Campaign!Returns, Campaign!Retries,
     Campaign!NeedsRetry
<1>11. ASSUME Campaign!SyncEmpty PROVE late' \in SUBSET Tasks
  BY <1>11 DEF DataOK, Campaign!SyncEmpty, Campaign!Idle, Campaign!Update,
     Campaign!SetState, Campaign!Final
<1>12. ASSUME Campaign!SyncFails PROVE late' \in SUBSET Tasks
  BY <1>12 DEF DataOK, Campaign!SyncFails, Campaign!Idle, Campaign!Update,
     Campaign!SetState, Campaign!Final
<1>13. ASSUME NEW s \in {"completed", "failed"}, Campaign!Ends(s)
      PROVE  late' \in SUBSET Tasks
  BY <1>13 DEF DataOK, Campaign!Ends, Campaign!Idle, Campaign!Update,
     Campaign!SetState, Campaign!Final
<1>14. ASSUME Campaign!ApiDies PROVE late' \in SUBSET Tasks
  BY <1>14 DEF Campaign!ApiDies
<1>15. CASE \E t \in Tasks : Campaign!Client(t) \/ Campaign!Lifecycle(t)
  BY <1>15, <1>0, <1>1, <1>2, <1>3, <1>4, <1>5, <1>6, <1>7, <1>8, <1>9 DEF
     Campaign!Lifecycle, Campaign!Request, Campaign!mongo, Campaign!breaker,
     Campaign!phone, Campaign!worker, Campaign!DeleteRuns, Campaign!Keeps,
     Campaign!limits, Campaign!RedialCreate, Campaign!RedialRuns, Campaign!Client
<1>16. CASE \E t \in Tasks : Campaign!Terminal(t)
  BY <1>16, <1>0, <1>10 DEF Campaign!Terminal, Campaign!Report, Campaign!breaker,
     Campaign!worker, Campaign!limits, Campaign!Record, Campaign!mongo,
     Campaign!phone, Campaign!RecordRaises, Campaign!Trip, Campaign!Goes
<1>17. CASE Campaign!Sync
  BY <1>17, <1>0, <1>11, <1>12 DEF Campaign!Sync, Campaign!JobStarts, Campaign!mongo,
     Campaign!breaker, Campaign!phone, Campaign!api, Campaign!limits,
     Campaign!Fetched, Campaign!FetchRaises, Campaign!InsertRuns, Campaign!WriteTotal,
     Campaign!SyncFinish, Campaign!Published, Campaign!PublishRaises,
     Campaign!WorkerDies
<1>18. CASE Campaign!Outside
  BY <1>18, <1>0, <1>13, <1>14 DEF Campaign!Outside, Campaign!Dial, Campaign!mongo,
     Campaign!breaker, Campaign!api, Campaign!worker, Campaign!limits,
     Campaign!CallEnds, Campaign!Tick, Campaign!phone
<1> QED
  BY <1>15, <1>16, <1>17, <1>18 DEF Campaign!Next

\* Every step keeps the types.
LEMMA CampaignTypes == Typed /\ Campaign!Next => Typed'
<1> SUFFICES ASSUME Typed, Campaign!Next PROVE Typed'
  OBVIOUS
<1>1. TasksOK /\ DataOK
  BY TypedParts
<1>2. TasksOK' /\ camp' \in CampDocs /\ rows' \in [Campaign!Camps -> SUBSET Campaign!Run]
  BY <1>1, TaskStep, CampStep, RowsStep
<1>3. CallsOK' /\ JobOK' /\ BreakerOK' /\ LimitsOK' /\ late' \in SUBSET Tasks
  BY <1>1, PhoneStep, WorkerStep, BreakerStep, LimitsStep, LateStep
<1>4. (TasksOK /\ DataOK)'
  BY <1>2, <1>3 DEF DataOK, CampDocs
<1> QED
  BY <1>4, TypedParts, PTL

---------------------------------------------------------------------------
(* CampaignApi: the campaign and its job.                                  *)

\* Every step keeps the campaign with its job.
LEMMA JobStep ==
  ASSUME TasksOK, DataOK, JobFollows, Campaign!Next
  PROVE  JobFollows'
\* The steps that are about something else.
<1>0. ASSUME UNCHANGED <<camp, task, job, stranded>> PROVE JobFollows'
  BY <1>0 DEF JobFollows, Campaign!SyncingHasJob, Campaign!At
<1>1. ASSUME NEW t \in Tasks, NEW kd \in Verbs, NEW c \in Campaign!Camps,
             Campaign!Request(t, kd, c)
      PROVE  JobFollows'
  <2>1. /\ kd = "start" => camp[c].state = "created"
        /\ task' = [task EXCEPT ![t] = [kind |-> kd, on |-> c, pc |-> "write"]]
        /\ UNCHANGED <<camp, job, stranded>>
    BY <1>1 DEF Campaign!Request, Campaign!MayBegin, Campaign!mongo, Campaign!worker
  <2>2. \A u \in Tasks :
          task'[u] = IF u = t THEN [kind |-> kd, on |-> c, pc |-> "write"] ELSE task[u]
    BY <2>1 DEF TasksOK, LoopHeld
  <2>3. task[t] = Campaign!Idle
    BY <1>1 DEF Campaign!Request
  <2> QED
    BY <2>1, <2>2, <2>3 DEF JobFollows, Campaign!SyncingHasJob, Campaign!At, Campaign!Idle
<1>2. ASSUME NEW t \in Tasks, Campaign!StartWrite(t) PROVE JobFollows'
  BY <1>2, StateSet DEF JobFollows, Campaign!SyncingHasJob, Campaign!At, TasksOK,
     LoopHeld, Held, Campaign!Camps, Doings, DataOK, Campaign!States,
     Campaign!StartWrite, Campaign!Idle, Campaign!Goes, Campaign!Returns,
     Campaign!worker
<1>3. ASSUME NEW t \in Tasks, Campaign!Enqueue(t) PROVE JobFollows'
  BY <1>3 DEF JobFollows, Campaign!SyncingHasJob, Campaign!At, TasksOK, LoopHeld,
     Held, Campaign!Camps, Doings, DataOK, Campaign!Enqueue, Campaign!Idle,
     Campaign!Resumes, Campaign!Returns, Campaign!mongo
<1>4. ASSUME NEW t \in Tasks, Campaign!EnqueueRaises(t) PROVE JobFollows'
  BY <1>4 DEF JobFollows, Campaign!SyncingHasJob, Campaign!At, TasksOK, LoopHeld,
     Held, Campaign!Camps, Doings, DataOK, Campaign!EnqueueRaises, Campaign!Idle,
     Campaign!Resumes, Campaign!Returns, Campaign!mongo, Campaign!worker
<1>5. ASSUME NEW t \in Tasks, Campaign!PauseWrite(t) PROVE JobFollows'
  BY <1>5, StateSet DEF JobFollows, Campaign!SyncingHasJob, Campaign!At, TasksOK,
     LoopHeld, Held, Campaign!Camps, Doings, DataOK, Campaign!States,
     Campaign!PauseWrite, Campaign!Idle, Campaign!Returns, Campaign!worker
<1>6. ASSUME NEW t \in Tasks, Campaign!ResumeWrite(t) PROVE JobFollows'
  BY <1>6, StateSet DEF JobFollows, Campaign!SyncingHasJob, Campaign!At, TasksOK,
     LoopHeld, Held, Campaign!Camps, Doings, DataOK, Campaign!States,
     Campaign!ResumeWrite, Campaign!Idle, Campaign!Goes, Campaign!Returns,
     Campaign!worker
<1>7. ASSUME NEW t \in Tasks, Campaign!Reset(t) PROVE JobFollows'
  BY <1>7 DEF JobFollows, Campaign!SyncingHasJob, Campaign!At, TasksOK, LoopHeld,
     Held, Campaign!Camps, Doings, DataOK, Campaign!Reset, Campaign!Idle,
     Campaign!Resumes, Campaign!Returns, Campaign!mongo, Campaign!worker
<1>8. ASSUME NEW t \in Tasks, Campaign!ResetRaises(t) PROVE JobFollows'
  BY <1>8 DEF JobFollows, Campaign!SyncingHasJob, Campaign!At, TasksOK, LoopHeld,
     Held, Campaign!Camps, Doings, DataOK, Campaign!ResetRaises, Campaign!Idle,
     Campaign!Resumes, Campaign!Returns, Campaign!mongo, Campaign!worker
<1>9. ASSUME NEW t \in Tasks, Campaign!DeleteRuns(t) PROVE JobFollows'
  BY <1>9 DEF JobFollows, Campaign!SyncingHasJob, Campaign!At, TasksOK, LoopHeld,
     Held, Campaign!Camps, Doings, DataOK, Campaign!DeleteRuns, Campaign!Keeps,
     Campaign!worker
<1>10. ASSUME NEW t \in Tasks, Campaign!DeleteCampaign(t) PROVE JobFollows'
  BY <1>10 DEF JobFollows, Campaign!SyncingHasJob, Campaign!At, TasksOK, LoopHeld,
     Held, Campaign!Camps, Doings, DataOK, CampDocs, Campaign!DeleteCampaign,
     Campaign!Idle, Campaign!Returns, Campaign!worker
<1>11. ASSUME NEW t \in Tasks, Campaign!RedialCreate(t) PROVE JobFollows'
  BY <1>11 DEF JobFollows, Campaign!SyncingHasJob, Campaign!At, TasksOK, LoopHeld,
     Held, Campaign!Camps, Doings, DataOK, CampDocs, Campaign!RedialCreate,
     Campaign!Keeps, Campaign!worker
<1>12. ASSUME NEW t \in Tasks, Campaign!RedialRuns(t) PROVE JobFollows'
  BY <1>12 DEF JobFollows, Campaign!SyncingHasJob, Campaign!At, TasksOK, LoopHeld,
     Held, Campaign!Camps, Doings, DataOK, Campaign!RedialRuns, Campaign!Keeps,
     Campaign!worker
<1>13. ASSUME NEW t \in Tasks, Campaign!RedialTotal(t) PROVE JobFollows'
  BY <1>13, TotalSet DEF JobFollows, Campaign!SyncingHasJob, Campaign!At, TasksOK,
     LoopHeld, Held, Campaign!Camps, Doings, DataOK, Campaign!RedialTotal,
     Campaign!Idle, Campaign!Returns, Campaign!worker
<1>14. ASSUME NEW t \in Tasks, NEW r \in Campaign!Run, Campaign!Report(t, r)
      PROVE  JobFollows'
  BY <1>14 DEF JobFollows, Campaign!SyncingHasJob, Campaign!At, TasksOK, LoopHeld,
     Held, Campaign!Camps, Doings, DataOK, Campaign!Report, Campaign!Idle,
     Campaign!worker
<1>15. ASSUME NEW t \in Tasks, Campaign!Record(t) PROVE JobFollows'
  BY <1>15 DEF JobFollows, Campaign!SyncingHasJob, Campaign!At, TasksOK, LoopHeld,
     Held, Campaign!Camps, Doings, DataOK, Campaign!Record, Campaign!mongo,
     Campaign!worker
<1>16. ASSUME NEW t \in Tasks, Campaign!RecordRaises(t) PROVE JobFollows'
  BY <1>16 DEF JobFollows, Campaign!SyncingHasJob, Campaign!At, TasksOK, LoopHeld,
     Held, Campaign!Camps, Doings, DataOK, Campaign!RecordRaises, Campaign!mongo,
     Campaign!worker
<1>17. ASSUME NEW t \in Tasks, Campaign!Trip(t) PROVE JobFollows'
  <2>1. camp'["parent"].state \in {"paused", "absent"}
    BY <1>17, StateSet DEF DataOK, Campaign!Trip, Campaign!Camps, Campaign!States
  <2>2. job' = job /\ task[t].kind = "report" /\ \A u \in Tasks \ {t} : task'[u] = task[u]
    BY <1>17 DEF Campaign!Trip, Campaign!Resumes, Campaign!At, Campaign!Goes,
              Campaign!worker, TasksOK, LoopHeld
  <2>3. task'[t].kind = "report"
    BY <1>17, <2>2 DEF Campaign!Trip, Campaign!Goes, TasksOK, LoopHeld, Doings
  <2>4. \A u \in Tasks : ~(Campaign!At(u, "start", "write") /\ task[u].on = "parent")
    <3>1. loop = None
      BY <1>17 DEF Campaign!Trip, Campaign!Resumes
    <3> QED
      BY <3>1, CampaignConstants DEF TasksOK, LoopHeld, Held, Campaign!At
  <2> QED
    BY <2>1, <2>2, <2>3, <2>4 DEF JobFollows, Campaign!SyncingHasJob, Campaign!At
<1>18. ASSUME NEW t \in Tasks, Campaign!Retry(t) PROVE JobFollows'
  BY <1>18 DEF JobFollows, Campaign!SyncingHasJob, Campaign!At, TasksOK, LoopHeld,
     Held, Campaign!Camps, Doings, DataOK, Campaign!Retry, Campaign!Idle,
     Campaign!Resumes, Campaign!Returns, Campaign!worker
<1>19. ASSUME Campaign!JobStarts PROVE JobFollows'
  BY <1>19 DEF JobFollows, Campaign!SyncingHasJob, Campaign!At, Campaign!Camps,
     DataOK, Campaign!JobStarts, Campaign!mongo, Campaign!api
<1>20. ASSUME Campaign!Fetched PROVE JobFollows'
  BY <1>20 DEF JobFollows, Campaign!SyncingHasJob, Campaign!At, Campaign!Camps,
     DataOK, Campaign!Fetched, Campaign!Valid, Campaign!mongo, Campaign!api
<1>21. ASSUME Campaign!FetchRaises PROVE JobFollows'
  BY <1>21 DEF JobFollows, Campaign!SyncingHasJob, Campaign!At, Campaign!Camps,
     DataOK, Campaign!FetchRaises, Campaign!mongo, Campaign!api
<1>22. ASSUME Campaign!InsertRuns PROVE JobFollows'
  BY <1>22 DEF JobFollows, Campaign!SyncingHasJob, Campaign!At, Campaign!Camps,
     DataOK, Campaign!InsertRuns, Campaign!Valid, Campaign!api
<1>23. ASSUME Campaign!WriteTotal PROVE JobFollows'
  BY <1>23, TotalSet, ValidAreRuns DEF JobFollows, Campaign!SyncingHasJob,
     Campaign!At, Campaign!Camps, DataOK, Campaign!WriteTotal, Campaign!CountRows,
     Campaign!api
<1>24. ASSUME Campaign!SyncEmpty PROVE JobFollows'
  BY <1>24, StateSet DEF JobFollows, Campaign!SyncingHasJob, Campaign!At,
     Campaign!Camps, DataOK, Campaign!States, Campaign!SyncEmpty, Campaign!Idle,
     Campaign!Final, Campaign!api
<1>25. ASSUME Campaign!SyncFinish PROVE JobFollows'
  BY <1>25, StateSet DEF JobFollows, Campaign!SyncingHasJob, Campaign!At,
     Campaign!Camps, DataOK, Campaign!States, Campaign!SyncFinish, Campaign!api
<1>26. ASSUME Campaign!Published PROVE JobFollows'
  BY <1>26 DEF JobFollows, Campaign!SyncingHasJob, Campaign!At, Campaign!Camps,
     DataOK, Campaign!Published, Campaign!mongo, Campaign!api
<1>27. ASSUME Campaign!PublishRaises PROVE JobFollows'
  BY <1>27 DEF JobFollows, Campaign!SyncingHasJob, Campaign!At, Campaign!Camps,
     DataOK, Campaign!PublishRaises, Campaign!mongo, Campaign!api
<1>28. ASSUME Campaign!SyncFails PROVE JobFollows'
  BY <1>28, StateSet DEF JobFollows, Campaign!SyncingHasJob, Campaign!At,
     Campaign!Camps, DataOK, Campaign!States, Campaign!SyncFails, Campaign!Idle,
     Campaign!Final, Campaign!api
<1>29. ASSUME Campaign!WorkerDies PROVE JobFollows'
  BY <1>29 DEF JobFollows, Campaign!SyncingHasJob, Campaign!At, Campaign!Camps,
     DataOK, Campaign!WorkerDies, Campaign!mongo, Campaign!api
<1>30. ASSUME NEW s \in {"completed", "failed"}, Campaign!Ends(s) PROVE JobFollows'
  BY <1>30, StateSet DEF JobFollows, Campaign!SyncingHasJob, Campaign!At,
     Campaign!Camps, DataOK, Campaign!States, Campaign!Ends, Campaign!Idle,
     Campaign!Final, Campaign!api, Campaign!worker
<1>31. ASSUME Campaign!ApiDies PROVE JobFollows'
  BY <1>31 DEF JobFollows, Campaign!SyncingHasJob, Campaign!At, TasksOK, LoopHeld,
     Held, Campaign!Camps, DataOK, Campaign!ApiDies, Campaign!Idle, Campaign!mongo,
     Campaign!worker
<1>32. ASSUME NEW t \in Tasks, Campaign!Client(t) PROVE JobFollows'
  BY <1>32, <1>1, RequestsAreVerbs DEF Campaign!Client
<1>33. CASE \E t \in Tasks : Campaign!Client(t) \/ Campaign!Lifecycle(t)
  BY <1>33, <1>32, <1>2, <1>3, <1>4, <1>5, <1>6, <1>7, <1>8, <1>9, <1>10, <1>11,
     <1>12, <1>13 DEF Campaign!Lifecycle
<1>34. CASE \E t \in Tasks : Campaign!Terminal(t)
  BY <1>34, <1>14, <1>15, <1>16, <1>17, <1>18 DEF Campaign!Terminal
<1>35. CASE Campaign!Sync
  BY <1>35, <1>19, <1>20, <1>21, <1>22, <1>23, <1>24, <1>25, <1>26, <1>27, <1>28,
     <1>29 DEF Campaign!Sync
<1>36. CASE Campaign!Outside
  BY <1>36, <1>0, <1>30, <1>31 DEF Campaign!Outside, Campaign!Dial, Campaign!mongo,
     Campaign!breaker, Campaign!api, Campaign!worker, Campaign!limits,
     Campaign!CallEnds, Campaign!Tick, Campaign!phone
<1> QED
  BY <1>33, <1>34, <1>35, <1>36 DEF Campaign!Next

---------------------------------------------------------------------------
(* CampaignApi: the end of a campaign.                                     *)

\* Every step leaves a campaign that has ended alone, or began before its end.
LEMMA EndedStep ==
  ASSUME TasksOK, DataOK, Campaign!EndedIsLeftAlone, Campaign!Next
  PROVE  Campaign!EndedIsLeftAlone'
\* The steps that are about something else.
<1>0. ASSUME UNCHANGED <<camp, task, late>> PROVE Campaign!EndedIsLeftAlone'
  BY <1>0 DEF Campaign!EndedIsLeftAlone
<1>1. ASSUME NEW t \in Tasks, NEW kd \in Verbs, NEW c \in Campaign!Camps,
             Campaign!Request(t, kd, c)
      PROVE  Campaign!EndedIsLeftAlone'
  <2>1. /\ kd = "start" => camp[c].state = "created"
        /\ kd = "pause" => camp[c].state \in {"running", "syncing"}
        /\ kd = "resume" => camp[c].state = "paused"
        /\ task' = [task EXCEPT ![t] = [kind |-> kd, on |-> c, pc |-> "write"]]
        /\ UNCHANGED <<camp, late>>
    BY <1>1 DEF Campaign!Request, Campaign!MayBegin, Campaign!mongo
  <2>2. \A u \in Tasks :
          task'[u] = IF u = t THEN [kind |-> kd, on |-> c, pc |-> "write"] ELSE task[u]
    BY <2>1 DEF TasksOK, LoopHeld
  <2>3. kd # "report"
    BY DEF Verbs
  <2> QED
    BY <2>1, <2>2, <2>3 DEF Campaign!EndedIsLeftAlone
<1>2. ASSUME NEW t \in Tasks, Campaign!StartWrite(t) PROVE Campaign!EndedIsLeftAlone'
  BY <1>2, StateSet DEF Campaign!EndedIsLeftAlone, Campaign!At, TasksOK, LoopHeld,
     Held, Campaign!Camps, Doings, DataOK, Campaign!States, Campaign!StartWrite,
     Campaign!Idle, Campaign!Goes, Campaign!Returns
<1>3. ASSUME NEW t \in Tasks, Campaign!Enqueue(t) PROVE Campaign!EndedIsLeftAlone'
  BY <1>3 DEF Campaign!EndedIsLeftAlone, Campaign!At, TasksOK, LoopHeld, Held,
     Campaign!Camps, Doings, DataOK, Campaign!Enqueue, Campaign!Idle,
     Campaign!Resumes, Campaign!Returns, Campaign!mongo
<1>4. ASSUME NEW t \in Tasks, Campaign!EnqueueRaises(t) PROVE Campaign!EndedIsLeftAlone'
  BY <1>4 DEF Campaign!EndedIsLeftAlone, Campaign!At, TasksOK, LoopHeld, Held,
     Campaign!Camps, Doings, DataOK, Campaign!EnqueueRaises, Campaign!Idle,
     Campaign!Resumes, Campaign!Returns, Campaign!mongo
<1>5. ASSUME NEW t \in Tasks, Campaign!PauseWrite(t) PROVE Campaign!EndedIsLeftAlone'
  BY <1>5, StateSet DEF Campaign!EndedIsLeftAlone, Campaign!At, TasksOK, LoopHeld,
     Held, Campaign!Camps, Doings, DataOK, Campaign!States, Campaign!PauseWrite,
     Campaign!Idle, Campaign!Returns
<1>6. ASSUME NEW t \in Tasks, Campaign!ResumeWrite(t) PROVE Campaign!EndedIsLeftAlone'
  BY <1>6, StateSet DEF Campaign!EndedIsLeftAlone, Campaign!At, TasksOK, LoopHeld,
     Held, Campaign!Camps, Doings, DataOK, Campaign!States, Campaign!ResumeWrite,
     Campaign!Idle, Campaign!Goes, Campaign!Returns
<1>7. ASSUME NEW t \in Tasks, Campaign!Reset(t) PROVE Campaign!EndedIsLeftAlone'
  BY <1>7 DEF Campaign!EndedIsLeftAlone, Campaign!At, TasksOK, LoopHeld, Held,
     Campaign!Camps, Doings, DataOK, Campaign!Reset, Campaign!Idle, Campaign!Resumes,
     Campaign!Returns, Campaign!mongo
<1>8. ASSUME NEW t \in Tasks, Campaign!ResetRaises(t) PROVE Campaign!EndedIsLeftAlone'
  BY <1>8 DEF Campaign!EndedIsLeftAlone, Campaign!At, TasksOK, LoopHeld, Held,
     Campaign!Camps, Doings, DataOK, Campaign!ResetRaises, Campaign!Idle,
     Campaign!Resumes, Campaign!Returns, Campaign!mongo
<1>9. ASSUME NEW t \in Tasks, Campaign!DeleteRuns(t) PROVE Campaign!EndedIsLeftAlone'
  BY <1>9 DEF Campaign!EndedIsLeftAlone, Campaign!At, TasksOK, LoopHeld, Held,
     Campaign!Camps, Doings, DataOK, Campaign!DeleteRuns, Campaign!Keeps
<1>10. ASSUME NEW t \in Tasks, Campaign!DeleteCampaign(t)
      PROVE  Campaign!EndedIsLeftAlone'
  BY <1>10 DEF Campaign!EndedIsLeftAlone, Campaign!At, TasksOK, LoopHeld, Held,
     Campaign!Camps, Doings, DataOK, CampDocs, Campaign!DeleteCampaign, Campaign!Idle,
     Campaign!Returns
<1>11. ASSUME NEW t \in Tasks, Campaign!RedialCreate(t) PROVE Campaign!EndedIsLeftAlone'
  BY <1>11 DEF Campaign!EndedIsLeftAlone, Campaign!At, TasksOK, LoopHeld, Held,
     Campaign!Camps, Doings, DataOK, CampDocs, Campaign!RedialCreate, Campaign!Keeps
<1>12. ASSUME NEW t \in Tasks, Campaign!RedialRuns(t) PROVE Campaign!EndedIsLeftAlone'
  BY <1>12 DEF Campaign!EndedIsLeftAlone, Campaign!At, TasksOK, LoopHeld, Held,
     Campaign!Camps, Doings, DataOK, Campaign!RedialRuns, Campaign!Keeps
<1>13. ASSUME NEW t \in Tasks, Campaign!RedialTotal(t) PROVE Campaign!EndedIsLeftAlone'
  BY <1>13, TotalSet DEF Campaign!EndedIsLeftAlone, Campaign!At, TasksOK, LoopHeld,
     Held, Campaign!Camps, Doings, DataOK, Campaign!RedialTotal, Campaign!Idle,
     Campaign!Returns
<1>14. ASSUME NEW t \in Tasks, NEW r \in Campaign!Run, Campaign!Report(t, r)
      PROVE  Campaign!EndedIsLeftAlone'
  BY <1>14 DEF Campaign!EndedIsLeftAlone, Campaign!At, TasksOK, LoopHeld, Held,
     Campaign!Camps, Doings, DataOK, Campaign!Report, Campaign!Idle
<1>15. ASSUME NEW t \in Tasks, Campaign!Record(t) PROVE Campaign!EndedIsLeftAlone'
  BY <1>15 DEF Campaign!EndedIsLeftAlone, Campaign!At, TasksOK, LoopHeld, Held,
     Campaign!Camps, Doings, DataOK, Campaign!Record, Campaign!mongo
<1>16. ASSUME NEW t \in Tasks, Campaign!RecordRaises(t) PROVE Campaign!EndedIsLeftAlone'
  BY <1>16 DEF Campaign!EndedIsLeftAlone, Campaign!At, TasksOK, LoopHeld, Held,
     Campaign!Camps, Doings, DataOK, Campaign!RecordRaises, Campaign!mongo
<1>17. ASSUME NEW t \in Tasks, Campaign!Trip(t) PROVE Campaign!EndedIsLeftAlone'
  BY <1>17, StateSet DEF Campaign!EndedIsLeftAlone, Campaign!At, TasksOK, LoopHeld,
     Held, Campaign!Camps, Doings, DataOK, Campaign!States, Campaign!Trip,
     Campaign!Resumes, Campaign!Goes
<1>18. ASSUME NEW t \in Tasks, Campaign!Retry(t) PROVE Campaign!EndedIsLeftAlone'
  BY <1>18 DEF Campaign!EndedIsLeftAlone, Campaign!At, TasksOK, LoopHeld, Held,
     Campaign!Camps, Doings, DataOK, Campaign!Retry, Campaign!Idle, Campaign!Resumes,
     Campaign!Returns
<1>19. ASSUME Campaign!WriteTotal PROVE Campaign!EndedIsLeftAlone'
  BY <1>19, TotalSet, ValidAreRuns DEF Campaign!EndedIsLeftAlone, Campaign!Camps,
     DataOK, Campaign!WriteTotal, Campaign!CountRows, Campaign!api
<1>20. ASSUME Campaign!SyncEmpty PROVE Campaign!EndedIsLeftAlone'
  BY <1>20, StateSet DEF Campaign!EndedIsLeftAlone, Campaign!Camps, DataOK,
     Campaign!States, Campaign!SyncEmpty, Campaign!Idle, Campaign!Final, Campaign!api
<1>21. ASSUME Campaign!SyncFinish PROVE Campaign!EndedIsLeftAlone'
  BY <1>21, StateSet DEF Campaign!EndedIsLeftAlone, Campaign!Camps, DataOK,
     Campaign!States, Campaign!SyncFinish, Campaign!api
<1>22. ASSUME Campaign!SyncFails PROVE Campaign!EndedIsLeftAlone'
  BY <1>22, StateSet DEF Campaign!EndedIsLeftAlone, Campaign!Camps, DataOK,
     Campaign!States, Campaign!SyncFails, Campaign!Idle, Campaign!Final, Campaign!api
<1>23. ASSUME NEW s \in {"completed", "failed"}, Campaign!Ends(s)
      PROVE  Campaign!EndedIsLeftAlone'
  BY <1>23, StateSet DEF Campaign!EndedIsLeftAlone, Campaign!Camps, DataOK,
     Campaign!States, Campaign!Ends, Campaign!Idle, Campaign!Final, Campaign!api
<1>24. ASSUME Campaign!ApiDies PROVE Campaign!EndedIsLeftAlone'
  BY <1>24 DEF Campaign!EndedIsLeftAlone, Campaign!At, TasksOK, LoopHeld, Held,
     Campaign!Camps, DataOK, Campaign!ApiDies, Campaign!Idle, Campaign!mongo
<1>25. ASSUME NEW t \in Tasks, Campaign!Client(t) PROVE Campaign!EndedIsLeftAlone'
  BY <1>25, <1>1, RequestsAreVerbs DEF Campaign!Client
<1>26. CASE \E t \in Tasks : Campaign!Client(t) \/ Campaign!Lifecycle(t)
  BY <1>26, <1>25, <1>2, <1>3, <1>4, <1>5, <1>6, <1>7, <1>8, <1>9, <1>10, <1>11,
     <1>12, <1>13 DEF Campaign!Lifecycle
<1>27. CASE \E t \in Tasks : Campaign!Terminal(t)
  BY <1>27, <1>14, <1>15, <1>16, <1>17, <1>18 DEF Campaign!Terminal
<1>28. CASE Campaign!Sync
  BY <1>28, <1>0, <1>19, <1>20, <1>21, <1>22 DEF Campaign!Sync, Campaign!JobStarts,
     Campaign!mongo, Campaign!breaker, Campaign!phone, Campaign!api, Campaign!limits,
     Campaign!Fetched, Campaign!FetchRaises, Campaign!InsertRuns, Campaign!Published,
     Campaign!PublishRaises, Campaign!WorkerDies
<1>29. CASE Campaign!Outside
  BY <1>29, <1>0, <1>23, <1>24 DEF Campaign!Outside, Campaign!Dial, Campaign!mongo,
     Campaign!breaker, Campaign!api, Campaign!worker, Campaign!limits,
     Campaign!CallEnds, Campaign!Tick, Campaign!phone
<1> QED
  BY <1>26, <1>27, <1>28, <1>29 DEF Campaign!Next

---------------------------------------------------------------------------
(* CampaignApi: the number of a campaign's runs.                           *)

\* The first attempts a queued retry leaves are those there were.
LEMMA RetriesAreNotFirst ==
  ASSUME rows \in [Campaign!Camps -> SUBSET Campaign!Run], NEW r \in Campaign!Run,
         Campaign!NeedsRetry(r)
  PROVE  Firsts' = Firsts /\ rows'["child"] = rows["child"]
<1>1. /\ rows["parent"] \subseteq rows'["parent"]
      /\ rows'["parent"] \subseteq rows["parent"] \cup {<<r[1], 1>>}
      /\ rows'["child"] = rows["child"]
  BY RetriesAreRuns
<1>2. <<r[1], 1>>[2] # 0
  OBVIOUS
<1> QED
  BY <1>1, <1>2 DEF Firsts

\* No contact, no first attempt.
LEMMA NothingCounted == Campaign!Cardinality({}) = 0
  BY FS_EmptySet, SameCardinality

\* Every step keeps the numbers.
LEMMA CountStep ==
  ASSUME TasksOK, DataOK, RunsCounted, Campaign!Next
  PROVE  RunsCounted'
\* The steps that are about something else.
<1>0. ASSUME UNCHANGED <<camp, rows, task, source>> PROVE RunsCounted'
  BY <1>0 DEF RunsCounted, Firsts, Campaign!Valid, Campaign!At
<1>1. ASSUME NEW t \in Tasks, NEW kd \in Verbs, NEW c \in Campaign!Camps,
             Campaign!Request(t, kd, c)
      PROVE  RunsCounted'
  BY <1>1 DEF RunsCounted, Firsts, Campaign!Valid, Campaign!At, TasksOK, LoopHeld,
     Held, Campaign!Camps, Doings, DataOK, Campaign!Request, Campaign!Idle,
     Campaign!mongo, Campaign!worker
<1>2. ASSUME NEW t \in Tasks, Campaign!StartWrite(t) PROVE RunsCounted'
  BY <1>2, StateSet DEF RunsCounted, Firsts, Campaign!Valid, Campaign!At, TasksOK,
     LoopHeld, Held, Campaign!Camps, Doings, DataOK, Campaign!States,
     Campaign!StartWrite, Campaign!Idle, Campaign!Goes, Campaign!Returns,
     Campaign!worker
<1>3. ASSUME NEW t \in Tasks, Campaign!Enqueue(t) PROVE RunsCounted'
  BY <1>3 DEF RunsCounted, Firsts, Campaign!Valid, Campaign!At, TasksOK, LoopHeld,
     Held, Campaign!Camps, Doings, DataOK, Campaign!Enqueue, Campaign!Idle,
     Campaign!Resumes, Campaign!Returns, Campaign!mongo
<1>4. ASSUME NEW t \in Tasks, Campaign!EnqueueRaises(t) PROVE RunsCounted'
  BY <1>4 DEF RunsCounted, Firsts, Campaign!Valid, Campaign!At, TasksOK, LoopHeld,
     Held, Campaign!Camps, Doings, DataOK, Campaign!EnqueueRaises, Campaign!Idle,
     Campaign!Resumes, Campaign!Returns, Campaign!mongo, Campaign!worker
<1>5. ASSUME NEW t \in Tasks, Campaign!PauseWrite(t) PROVE RunsCounted'
  BY <1>5, StateSet DEF RunsCounted, Firsts, Campaign!Valid, Campaign!At, TasksOK,
     LoopHeld, Held, Campaign!Camps, Doings, DataOK, Campaign!States,
     Campaign!PauseWrite, Campaign!Idle, Campaign!Returns, Campaign!worker
<1>6. ASSUME NEW t \in Tasks, Campaign!ResumeWrite(t) PROVE RunsCounted'
  BY <1>6, StateSet DEF RunsCounted, Firsts, Campaign!Valid, Campaign!At, TasksOK,
     LoopHeld, Held, Campaign!Camps, Doings, DataOK, Campaign!States,
     Campaign!ResumeWrite, Campaign!Idle, Campaign!Goes, Campaign!Returns,
     Campaign!worker
<1>7. ASSUME NEW t \in Tasks, Campaign!Reset(t) PROVE RunsCounted'
  BY <1>7 DEF RunsCounted, Firsts, Campaign!Valid, Campaign!At, TasksOK, LoopHeld,
     Held, Campaign!Camps, Doings, DataOK, Campaign!Reset, Campaign!Idle,
     Campaign!Resumes, Campaign!Returns, Campaign!mongo, Campaign!worker
<1>8. ASSUME NEW t \in Tasks, Campaign!ResetRaises(t) PROVE RunsCounted'
  BY <1>8 DEF RunsCounted, Firsts, Campaign!Valid, Campaign!At, TasksOK, LoopHeld,
     Held, Campaign!Camps, Doings, DataOK, Campaign!ResetRaises, Campaign!Idle,
     Campaign!Resumes, Campaign!Returns, Campaign!mongo, Campaign!worker
<1>9. ASSUME NEW t \in Tasks, Campaign!DeleteRuns(t) PROVE RunsCounted'
  BY <1>9, NothingCounted DEF RunsCounted, Firsts, Campaign!Valid, Campaign!At,
     TasksOK, LoopHeld, Held, Campaign!Camps, Doings, DataOK, Campaign!DeleteRuns,
     Campaign!Keeps, Campaign!worker
<1>10. ASSUME NEW t \in Tasks, Campaign!DeleteCampaign(t) PROVE RunsCounted'
  BY <1>10 DEF RunsCounted, Firsts, Campaign!Valid, Campaign!At, TasksOK, LoopHeld,
     Held, Campaign!Camps, Doings, DataOK, CampDocs, Campaign!DeleteCampaign,
     Campaign!Idle, Campaign!Returns, Campaign!worker
<1>11. ASSUME NEW t \in Tasks, Campaign!RedialCreate(t) PROVE RunsCounted'
  BY <1>11 DEF RunsCounted, Firsts, Campaign!Valid, Campaign!At, TasksOK, LoopHeld,
     Held, Campaign!Camps, Doings, DataOK, CampDocs, Campaign!RedialCreate,
     Campaign!Keeps, Campaign!worker
<1>12. ASSUME NEW t \in Tasks, Campaign!RedialRuns(t) PROVE RunsCounted'
  BY <1>12 DEF RunsCounted, Firsts, Campaign!Valid, Campaign!At, TasksOK, LoopHeld,
     Held, Campaign!Camps, Doings, DataOK, Campaign!RedialRuns, Campaign!Keeps,
     Campaign!worker
<1>13. ASSUME NEW t \in Tasks, Campaign!RedialTotal(t) PROVE RunsCounted'
  BY <1>13, TotalSet DEF RunsCounted, Firsts, Campaign!Valid, Campaign!At, TasksOK,
     LoopHeld, Held, Campaign!Camps, Doings, DataOK, Campaign!RedialTotal,
     Campaign!Idle, Campaign!Returns, Campaign!worker
<1>14. ASSUME NEW t \in Tasks, NEW r \in Campaign!Run, Campaign!Report(t, r)
      PROVE  RunsCounted'
  <2>1. Firsts' = Firsts /\ rows'["child"] = rows["child"]
    BY <1>14, RetriesAreNotFirst DEF Campaign!Report, DataOK, Firsts
  <2>2. /\ UNCHANGED <<camp, source>>
        /\ \A u \in Tasks : task'[u] # task[u] => task'[u].kind = "report"
    BY <1>14 DEF Campaign!Report, Campaign!worker, TasksOK, LoopHeld
  <2> QED
    BY <2>1, <2>2 DEF RunsCounted, Campaign!Valid, Campaign!At
<1>15. ASSUME NEW t \in Tasks, Campaign!Record(t) PROVE RunsCounted'
  BY <1>15 DEF RunsCounted, Firsts, Campaign!Valid, Campaign!At, TasksOK, LoopHeld,
     Held, Campaign!Camps, Doings, DataOK, Campaign!Record, Campaign!mongo,
     Campaign!worker
<1>16. ASSUME NEW t \in Tasks, Campaign!RecordRaises(t) PROVE RunsCounted'
  BY <1>16 DEF RunsCounted, Firsts, Campaign!Valid, Campaign!At, TasksOK, LoopHeld,
     Held, Campaign!Camps, Doings, DataOK, Campaign!RecordRaises, Campaign!mongo,
     Campaign!worker
<1>17. ASSUME NEW t \in Tasks, Campaign!Trip(t) PROVE RunsCounted'
  BY <1>17, StateSet DEF RunsCounted, Firsts, Campaign!Valid, Campaign!At, TasksOK,
     LoopHeld, Held, Campaign!Camps, Doings, DataOK, Campaign!States, Campaign!Trip,
     Campaign!Resumes, Campaign!Goes, Campaign!worker
<1>18. ASSUME NEW t \in Tasks, Campaign!Retry(t) PROVE RunsCounted'
  BY <1>18, RetriesAreNotFirst DEF RunsCounted, Campaign!Valid, Campaign!At, TasksOK,
     LoopHeld, Held, Campaign!Camps, Doings, DataOK, Campaign!Retry, Campaign!Idle,
     Campaign!Resumes, Campaign!Returns, Campaign!worker
<1>19. ASSUME Campaign!InsertRuns PROVE RunsCounted'
  <2>1. \/ rows' = rows
        \/ /\ rows' = [rows EXCEPT !["parent"] = @ \cup Campaign!Valid]
           /\ Campaign!Valid \cap rows["parent"] = {}
    BY <1>19 DEF Campaign!InsertRuns
  <2>2. UNCHANGED <<camp, task, source>>
    BY <1>19 DEF Campaign!InsertRuns, Campaign!api
  <2>3. Firsts' \in {{}, Campaign!Valid}
    <3>1. CASE rows' = rows
      BY <3>1 DEF RunsCounted, Firsts
    <3>2. CASE /\ rows' = [rows EXCEPT !["parent"] = @ \cup Campaign!Valid]
               /\ Campaign!Valid \cap rows["parent"] = {}
      <4>1. \A r \in Campaign!Valid : r[2] = 0
        BY DEF Campaign!Valid
      <4>2. rows'["parent"] = rows["parent"] \cup Campaign!Valid
        BY <3>2 DEF DataOK, Campaign!Camps
      <4>3. Firsts' = Firsts \cup Campaign!Valid
        BY <4>1, <4>2 DEF Firsts
      <4> QED
        BY <4>3 DEF RunsCounted
    <3> QED
      BY <2>1, <3>1, <3>2
  <2>4. rows'["child"] = rows["child"]
    BY <2>1 DEF DataOK, Campaign!Camps
  <2> QED
    BY <2>2, <2>3, <2>4 DEF RunsCounted, Campaign!Valid, Campaign!At
<1>20. ASSUME Campaign!WriteTotal PROVE RunsCounted'
  <2>1. /\ \A d \in Campaign!Camps : camp'[d].state = camp[d].state
        /\ camp'["child"] = camp["child"]
        /\ camp'["parent"].total
               \in {camp["parent"].total, Campaign!Cardinality(Campaign!Valid)}
        /\ camp["parent"].state = "absent" => camp'["parent"] = camp["parent"]
    BY <1>20, TotalSet, ValidAreRuns
       DEF DataOK, Campaign!WriteTotal, Campaign!CountRows, Campaign!Camps
  <2>2. UNCHANGED <<rows, task, source>>
    BY <1>20 DEF Campaign!WriteTotal, Campaign!api
  <2> QED
    BY <2>1, <2>2 DEF RunsCounted, Firsts, Campaign!Valid, Campaign!At, Campaign!Camps
<1>21. ASSUME Campaign!SyncEmpty PROVE RunsCounted'
  BY <1>21, StateSet DEF RunsCounted, Firsts, Campaign!Valid, Campaign!At,
     Campaign!Camps, DataOK, Campaign!States, Campaign!SyncEmpty, Campaign!Idle,
     Campaign!Final, Campaign!api
<1>22. ASSUME Campaign!SyncFinish PROVE RunsCounted'
  BY <1>22, StateSet DEF RunsCounted, Firsts, Campaign!Valid, Campaign!At,
     Campaign!Camps, DataOK, Campaign!States, Campaign!SyncFinish, Campaign!api
<1>23. ASSUME Campaign!SyncFails PROVE RunsCounted'
  BY <1>23, StateSet DEF RunsCounted, Firsts, Campaign!Valid, Campaign!At,
     Campaign!Camps, DataOK, Campaign!States, Campaign!SyncFails, Campaign!Idle,
     Campaign!Final, Campaign!api
<1>24. ASSUME NEW s \in {"completed", "failed"}, Campaign!Ends(s) PROVE RunsCounted'
  BY <1>24, StateSet DEF RunsCounted, Firsts, Campaign!Valid, Campaign!At,
     Campaign!Camps, DataOK, Campaign!States, Campaign!Ends, Campaign!Idle,
     Campaign!Final, Campaign!api, Campaign!worker
<1>25. ASSUME Campaign!ApiDies PROVE RunsCounted'
  BY <1>25 DEF RunsCounted, Firsts, Campaign!Valid, Campaign!At, TasksOK, LoopHeld,
     Held, Campaign!Camps, DataOK, Campaign!ApiDies, Campaign!Idle, Campaign!mongo,
     Campaign!worker
<1>26. ASSUME NEW t \in Tasks, Campaign!Client(t) PROVE RunsCounted'
  BY <1>26, <1>1, RequestsAreVerbs DEF Campaign!Client
<1>27. CASE \E t \in Tasks : Campaign!Client(t) \/ Campaign!Lifecycle(t)
  BY <1>27, <1>26, <1>2, <1>3, <1>4, <1>5, <1>6, <1>7, <1>8, <1>9, <1>10, <1>11,
     <1>12, <1>13 DEF Campaign!Lifecycle
<1>28. CASE \E t \in Tasks : Campaign!Terminal(t)
  BY <1>28, <1>14, <1>15, <1>16, <1>17, <1>18 DEF Campaign!Terminal
<1>29. CASE Campaign!Sync
  BY <1>29, <1>0, <1>19, <1>20, <1>21, <1>22, <1>23 DEF Campaign!Sync,
     Campaign!JobStarts, Campaign!mongo, Campaign!breaker, Campaign!phone,
     Campaign!api, Campaign!limits, Campaign!Fetched, Campaign!FetchRaises,
     Campaign!Published, Campaign!PublishRaises, Campaign!WorkerDies
<1>30. CASE Campaign!Outside
  BY <1>30, <1>0, <1>24, <1>25 DEF Campaign!Outside, Campaign!Dial, Campaign!mongo,
     Campaign!breaker, Campaign!api, Campaign!worker, Campaign!limits,
     Campaign!CallEnds, Campaign!Tick, Campaign!phone
<1> QED
  BY <1>27, <1>28, <1>29, <1>30 DEF Campaign!Next

---------------------------------------------------------------------------
(* CampaignApi: the circuit breaker.                                       *)

\* What the script drops is out of the window, and what it adds is the call's.
LEMMA RecordKnows ==
  ASSUME TasksOK, DataOK, ReportsKnown, BreakerKnows, NEW t \in Tasks, Campaign!Record(t)
  PROVE  /\ BreakerKnows'
         /\ fails' \subseteq {x \in 1 .. MaxTime : x + Window > now}
         /\ succs' \subseteq {x \in 1 .. MaxTime : x + Window > now}
<1> DEFINE r == task[t].on
           fail == calls[r] \in Campaign!Failure
<1>1. /\ fails' = Campaign!InWindow(fails) \cup IF fail THEN {now} ELSE {}
      /\ succs' = Campaign!InWindow(succs) \cup IF fail THEN {} ELSE {now}
      /\ outcomes' = outcomes \cup {<<r, now>>}
      /\ UNCHANGED <<calls, now>>
  BY DEF Campaign!Record, Campaign!phone, Campaign!limits
<1>2. ~fail => calls[r] = "connected"
  BY DEF ReportsKnown, Campaign!Record, Campaign!At, Campaign!Failure
<1>3. fail => calls[r] # "connected"
  BY DEF Campaign!Failure
<1>4. now \in 1 .. MaxTime /\ now + Window > now
  BY CampaignConstants DEF DataOK, LimitsOK
<1>5. \A x \in 1 .. MaxTime : x > now - Window <=> x + Window > now
  BY <1>4, CampaignConstants
<1>6. /\ Campaign!InWindow(fails) = {x \in fails : x + Window > now}
      /\ Campaign!InWindow(succs) = {x \in succs : x + Window > now}
  BY <1>5 DEF Campaign!InWindow, DataOK, BreakerOK
<1>7. /\ fails' \subseteq {x \in 1 .. MaxTime : x + Window > now}
      /\ succs' \subseteq {x \in 1 .. MaxTime : x + Window > now}
  BY <1>1, <1>4, <1>6 DEF DataOK, BreakerOK
<1>8. ASSUME NEW x \in 1 .. MaxTime, x + Window > now
      PROVE  /\ (x \in fails')
                  <=> (\E o \in outcomes' : o[2] = x /\ calls[o[1]] \in Campaign!Failure)
             /\ (x \in succs')
                  <=> (\E o \in outcomes' : o[2] = x /\ calls[o[1]] = "connected")
  <2>1. /\ (x \in fails)
             <=> (\E o \in outcomes : o[2] = x /\ calls[o[1]] \in Campaign!Failure)
        /\ (x \in succs) <=>
         (\E o \in outcomes : o[2] = x /\ calls[o[1]] = "connected")
    BY <1>8 DEF BreakerKnows
  <2>2. /\ (x \in fails') <=> (x \in fails \/ (fail /\ x = now))
        /\ (x \in succs') <=> (x \in succs \/ (~fail /\ x = now))
    BY <1>1, <1>6, <1>8
  <2>3. \A o : o \in outcomes' <=> o \in outcomes \/ o = <<r, now>>
    BY <1>1
  <2>4. <<r, now>>[1] = r /\ <<r, now>>[2] = now
    OBVIOUS
  <2>5. (\E o \in outcomes' : o[2] = x /\ calls[o[1]] \in Campaign!Failure)
          <=> \/ \E o \in outcomes : o[2] = x /\ calls[o[1]] \in Campaign!Failure
              \/ x = now /\ fail
    BY <2>3, <2>4
  <2>6. (\E o \in outcomes' : o[2] = x /\ calls[o[1]] = "connected")
          <=> \/ \E o \in outcomes : o[2] = x /\ calls[o[1]] = "connected"
              \/ x = now /\ ~fail
    BY <2>3, <2>4, <1>2, <1>3
  <2> QED
    BY <2>1, <2>2, <2>5, <2>6
<1>9. BreakerKnows'
  BY <1>1, <1>8 DEF BreakerKnows, Campaign!Failure
<1> QED
  BY <1>7, <1>9

\* Every step keeps the breaker informed.
LEMMA KnowsStep ==
  ASSUME TasksOK, DataOK, ReportsKnown, BreakerKnows, Campaign!Next
  PROVE  (ReportsKnown /\ BreakerKnows)'
\* The steps that are about something else.
<1>0. ASSUME UNCHANGED <<calls, task, outcomes, fails, succs, now>>
      PROVE  (ReportsKnown /\ BreakerKnows)'
  BY <1>0 DEF ReportsKnown, BreakerKnows
<1>1. ASSUME NEW t \in Tasks, NEW kd \in Verbs, NEW c \in Campaign!Camps,
             Campaign!Request(t, kd, c)
      PROVE  (ReportsKnown /\ BreakerKnows)'
  <2>1. /\ \A u \in Tasks : task'[u] # task[u] => task'[u].kind = kd
        /\ UNCHANGED <<calls, outcomes, fails, succs, now>>
    BY <1>1 DEF Campaign!Request, Campaign!phone, Campaign!breaker, TasksOK, LoopHeld
  <2>2. kd # "report"
    BY DEF Verbs
  <2> QED
    BY <2>1, <2>2 DEF ReportsKnown, BreakerKnows
<1>2. ASSUME NEW t \in Tasks, Campaign!StartWrite(t)
      PROVE  (ReportsKnown /\ BreakerKnows)'
  BY <1>2 DEF ReportsKnown, BreakerKnows, TasksOK, LoopHeld, Doings,
     Campaign!StartWrite, Campaign!Idle, Campaign!At, Campaign!Goes, Campaign!Returns,
     Campaign!breaker, Campaign!phone, Campaign!limits
<1>3. ASSUME NEW t \in Tasks, Campaign!Enqueue(t) PROVE (ReportsKnown /\ BreakerKnows)'
  BY <1>3 DEF ReportsKnown, BreakerKnows, TasksOK, LoopHeld, Doings, Campaign!Enqueue,
     Campaign!Idle, Campaign!At, Campaign!Resumes, Campaign!Returns, Campaign!breaker,
     Campaign!phone, Campaign!limits
<1>4. ASSUME NEW t \in Tasks, Campaign!EnqueueRaises(t)
      PROVE  (ReportsKnown /\ BreakerKnows)'
  BY <1>4 DEF ReportsKnown, BreakerKnows, TasksOK, LoopHeld, Doings,
     Campaign!EnqueueRaises, Campaign!Idle, Campaign!At, Campaign!Resumes,
     Campaign!Returns, Campaign!breaker, Campaign!phone
<1>5. ASSUME NEW t \in Tasks, Campaign!PauseWrite(t)
      PROVE  (ReportsKnown /\ BreakerKnows)'
  BY <1>5 DEF ReportsKnown, BreakerKnows, TasksOK, LoopHeld, Doings,
     Campaign!PauseWrite, Campaign!Idle, Campaign!At, Campaign!Returns,
     Campaign!breaker, Campaign!phone, Campaign!limits
<1>6. ASSUME NEW t \in Tasks, Campaign!ResumeWrite(t)
      PROVE  (ReportsKnown /\ BreakerKnows)'
  BY <1>6 DEF ReportsKnown, BreakerKnows, TasksOK, LoopHeld, Doings,
     Campaign!ResumeWrite, Campaign!Idle, Campaign!At, Campaign!Goes,
     Campaign!Returns, Campaign!breaker, Campaign!phone, Campaign!limits
<1>7. ASSUME NEW t \in Tasks, Campaign!Reset(t) PROVE (ReportsKnown /\ BreakerKnows)'
  BY <1>7 DEF ReportsKnown, BreakerKnows, TasksOK, LoopHeld, Doings, Campaign!Reset,
     Campaign!Idle, Campaign!At, Campaign!Resumes, Campaign!Returns, Campaign!phone,
     Campaign!limits
<1>8. ASSUME NEW t \in Tasks, Campaign!ResetRaises(t)
      PROVE  (ReportsKnown /\ BreakerKnows)'
  BY <1>8 DEF ReportsKnown, BreakerKnows, TasksOK, LoopHeld, Doings,
     Campaign!ResetRaises, Campaign!Idle, Campaign!At, Campaign!Resumes,
     Campaign!Returns, Campaign!breaker, Campaign!phone
<1>9. ASSUME NEW t \in Tasks, Campaign!DeleteRuns(t)
      PROVE  (ReportsKnown /\ BreakerKnows)'
  BY <1>9 DEF ReportsKnown, BreakerKnows, TasksOK, LoopHeld, Doings,
     Campaign!DeleteRuns, Campaign!At, Campaign!Keeps, Campaign!breaker,
     Campaign!phone, Campaign!limits
<1>10. ASSUME NEW t \in Tasks, Campaign!DeleteCampaign(t)
      PROVE  (ReportsKnown /\ BreakerKnows)'
  BY <1>10 DEF ReportsKnown, BreakerKnows, TasksOK, LoopHeld, Doings,
     Campaign!DeleteCampaign, Campaign!Idle, Campaign!At, Campaign!Returns,
     Campaign!breaker, Campaign!phone, Campaign!limits
<1>11. ASSUME NEW t \in Tasks, Campaign!RedialCreate(t)
      PROVE  (ReportsKnown /\ BreakerKnows)'
  BY <1>11 DEF ReportsKnown, BreakerKnows, TasksOK, LoopHeld, Doings,
     Campaign!RedialCreate, Campaign!At, Campaign!Keeps, Campaign!breaker,
     Campaign!phone, Campaign!limits
<1>12. ASSUME NEW t \in Tasks, Campaign!RedialRuns(t)
      PROVE  (ReportsKnown /\ BreakerKnows)'
  BY <1>12 DEF ReportsKnown, BreakerKnows, TasksOK, LoopHeld, Doings,
     Campaign!RedialRuns, Campaign!At, Campaign!Keeps, Campaign!breaker,
     Campaign!phone, Campaign!limits
<1>13. ASSUME NEW t \in Tasks, Campaign!RedialTotal(t)
      PROVE  (ReportsKnown /\ BreakerKnows)'
  BY <1>13 DEF ReportsKnown, BreakerKnows, TasksOK, LoopHeld, Doings,
     Campaign!RedialTotal, Campaign!Idle, Campaign!At, Campaign!Returns,
     Campaign!breaker, Campaign!phone, Campaign!limits
<1>14. ASSUME NEW t \in Tasks, NEW r \in Campaign!Run, Campaign!Report(t, r)
      PROVE  (ReportsKnown /\ BreakerKnows)'
  BY <1>14 DEF ReportsKnown, BreakerKnows, TasksOK, LoopHeld, Doings, Campaign!Report,
     Campaign!Idle, Campaign!breaker, Campaign!limits
<1>15. ASSUME NEW t \in Tasks, Campaign!Record(t) PROVE (ReportsKnown /\ BreakerKnows)'
  <2>1. /\ ReportsKnown'
    <3>1. UNCHANGED calls /\ task[t].on \in Campaign!Run /\ calls[task[t].on] \in Endings
      BY <1>15 DEF Campaign!Record, Campaign!At, Campaign!phone, TasksOK, ReportsKnown
    <3>2. \A u \in Tasks : task'[u].kind = task[u].kind /\ task'[u].on = task[u].on
      BY <1>15 DEF Campaign!Record, TasksOK, LoopHeld, Doings
    <3>3. \A o \in outcomes' : o \in outcomes \/ o[1] = task[t].on
      BY <1>15 DEF Campaign!Record
    <3> QED
      BY <3>1, <3>2, <3>3 DEF ReportsKnown
  <2> QED
    BY <1>15, <2>1, RecordKnows
<1>16. ASSUME NEW t \in Tasks, Campaign!RecordRaises(t)
      PROVE  (ReportsKnown /\ BreakerKnows)'
  BY <1>16 DEF ReportsKnown, BreakerKnows, TasksOK, LoopHeld, Doings,
     Campaign!RecordRaises, Campaign!At, Campaign!breaker, Campaign!phone
<1>17. ASSUME NEW t \in Tasks, Campaign!Trip(t) PROVE (ReportsKnown /\ BreakerKnows)'
  BY <1>17 DEF ReportsKnown, BreakerKnows, TasksOK, LoopHeld, Doings, Campaign!Trip,
     Campaign!At, Campaign!Resumes, Campaign!Goes, Campaign!breaker, Campaign!phone,
     Campaign!limits
<1>18. ASSUME NEW t \in Tasks, Campaign!Retry(t) PROVE (ReportsKnown /\ BreakerKnows)'
  BY <1>18 DEF ReportsKnown, BreakerKnows, TasksOK, LoopHeld, Doings, Campaign!Retry,
     Campaign!Idle, Campaign!At, Campaign!Resumes, Campaign!Returns, Campaign!breaker,
     Campaign!phone, Campaign!limits
<1>19. ASSUME NEW r \in Campaign!Run, Campaign!Dial(r)
      PROVE  (ReportsKnown /\ BreakerKnows)'
  <2>1. /\ \A q \in Campaign!Run : calls[q] \in Endings => calls'[q] = calls[q]
        /\ UNCHANGED <<task, outcomes, fails, succs, now>>
    BY <1>19, CampaignConstants
       DEF Campaign!Dial, Campaign!api, Campaign!breaker, Campaign!limits,
           DataOK, CallsOK
  <2>2. \A o \in outcomes : calls'[o[1]] = calls[o[1]]
    BY <2>1 DEF ReportsKnown, DataOK, BreakerOK
  <2>3. \A t \in Tasks : task[t].kind = "report" => calls'[task[t].on] = calls[task[t].on]
    BY <2>1 DEF ReportsKnown, TasksOK
  <2> QED
    BY <2>1, <2>2, <2>3 DEF ReportsKnown, BreakerKnows
<1>20. ASSUME NEW r \in Campaign!Run, NEW x \in Endings, Campaign!CallEnds(r, x)
      PROVE  (ReportsKnown /\ BreakerKnows)'
  <2>1. /\ \A q \in Campaign!Run : calls[q] \in Endings => calls'[q] = calls[q]
        /\ UNCHANGED <<task, outcomes, fails, succs, now>>
    BY <1>20, CampaignConstants
       DEF Campaign!CallEnds, Campaign!api, Campaign!breaker, Campaign!limits,
           DataOK, CallsOK
  <2>2. \A o \in outcomes : calls'[o[1]] = calls[o[1]]
    BY <2>1 DEF ReportsKnown, DataOK, BreakerOK
  <2>3. \A t \in Tasks : task[t].kind = "report" => calls'[task[t].on] = calls[task[t].on]
    BY <2>1 DEF ReportsKnown, TasksOK
  <2> QED
    BY <2>1, <2>2, <2>3 DEF ReportsKnown, BreakerKnows
<1>21. ASSUME Campaign!ApiDies PROVE (ReportsKnown /\ BreakerKnows)'
  BY <1>21 DEF ReportsKnown, BreakerKnows, TasksOK, LoopHeld, Campaign!ApiDies,
     Campaign!Idle, Campaign!At, Campaign!breaker, Campaign!phone
<1>22. ASSUME Campaign!Tick PROVE (ReportsKnown /\ BreakerKnows)'
  <2>1. now' = now + 1 /\ UNCHANGED <<task, calls, outcomes, fails, succs>>
    BY <1>22 DEF Campaign!Tick, Campaign!phone, Campaign!api, Campaign!breaker
  <2>2. \A x \in 1 .. MaxTime : x + Window > now + 1 => x + Window > now
    BY CampaignConstants DEF DataOK, LimitsOK
  <2> QED
    BY <2>1, <2>2 DEF ReportsKnown, BreakerKnows
<1>23. ASSUME NEW t \in Tasks, Campaign!Client(t) PROVE (ReportsKnown /\ BreakerKnows)'
  BY <1>23, <1>1, RequestsAreVerbs DEF Campaign!Client
<1>24. CASE \E t \in Tasks : Campaign!Client(t) \/ Campaign!Lifecycle(t)
  BY <1>24, <1>23, <1>2, <1>3, <1>4, <1>5, <1>6, <1>7, <1>8, <1>9, <1>10, <1>11,
     <1>12, <1>13 DEF Campaign!Lifecycle
<1>25. CASE \E t \in Tasks : Campaign!Terminal(t)
  BY <1>25, <1>14, <1>15, <1>16, <1>17, <1>18 DEF Campaign!Terminal
<1>26. CASE Campaign!Sync
  BY <1>26, <1>0 DEF Campaign!Sync, Campaign!JobStarts, Campaign!mongo,
     Campaign!breaker, Campaign!phone, Campaign!api, Campaign!limits,
     Campaign!Fetched, Campaign!FetchRaises, Campaign!InsertRuns, Campaign!WriteTotal,
     Campaign!SyncEmpty, Campaign!SyncFinish, Campaign!Published,
     Campaign!PublishRaises, Campaign!SyncFails, Campaign!WorkerDies
<1>27. CASE Campaign!Outside
  BY <1>27, <1>0, <1>19, <1>20, <1>21, <1>22 DEF Campaign!Outside, Campaign!Ends,
     Campaign!breaker, Campaign!phone, Campaign!api, Campaign!worker, Campaign!limits
<1> QED
  BY <1>24, <1>25, <1>26, <1>27 DEF Campaign!Next

---------------------------------------------------------------------------
(* CampaignApi: the theorems.                                              *)

\* A campaign begins with the invariant.
LEMMA CampaignInit == Campaign!Init => Known
<1> SUFFICES ASSUME Campaign!Init PROVE Known
  OBVIOUS
<1> USE CampaignConstants, ContactsCounted DEF Campaign!Init
<1>1. TasksOK
  BY DEF TasksOK, LoopHeld, Doings, Held, Campaign!Idle, Campaign!Camps
<1>2. camp \in CampDocs /\ rows \in [Campaign!Camps -> SUBSET Campaign!Run]
  BY DEF CampDocs, Campaign!Camps, Campaign!States
<1>3. CallsOK /\ BreakerOK /\ LimitsOK /\ late \in SUBSET Tasks
  BY DEF CallsOK, BreakerOK, LimitsOK
<1>4. JobOK
  <2>1. stranded \in BOOLEAN
    OBVIOUS
  <2> QED
    BY <2>1 DEF JobOK
<1>5. Typed
  BY <1>1, <1>2, <1>3, <1>4, TypedParts DEF DataOK
<1>6. JobFollows
  BY DEF JobFollows, Campaign!SyncingHasJob, Campaign!At, Campaign!Idle, Campaign!Camps
<1>7. Campaign!EndedIsLeftAlone
  BY DEF Campaign!EndedIsLeftAlone, Campaign!Idle, Campaign!Camps
<1>8. RunsCounted
  BY DEF RunsCounted, Firsts, Campaign!At, Campaign!Idle, Campaign!Camps
<1>9. ReportsKnown /\ BreakerKnows
  BY DEF ReportsKnown, BreakerKnows, Campaign!Idle
<1> QED
  BY <1>5, <1>6, <1>7, <1>8, <1>9 DEF Known

\* Every step of the campaign's part keeps it.
LEMMA CampaignStep == Known /\ Campaign!Next => Known'
<1> SUFFICES ASSUME Known, Campaign!Next PROVE Known'
  OBVIOUS
<1>1. /\ TasksOK /\ DataOK /\ Typed /\ JobFollows /\ Campaign!EndedIsLeftAlone
      /\ RunsCounted /\ ReportsKnown /\ BreakerKnows
  BY TypedParts DEF Known
<1>2. Typed'
  BY <1>1, CampaignTypes
<1>3. JobFollows' /\ Campaign!EndedIsLeftAlone' /\ RunsCounted'
  BY <1>1, JobStep, EndedStep, CountStep
<1>4. ReportsKnown' /\ BreakerKnows'
  BY <1>1, KnowsStep
<1> QED
  BY <1>2, <1>3, <1>4 DEF Known

\* And so does every step of the API.
LEMMA CampaignInvariance == ApiSpec => []CampaignInv
<1>1. ApiInit => CampaignInv
  BY CampaignInit DEF ApiInit, CampaignInv
<1>2. CampaignInv /\ [ApiNext]_apiVars => CampaignInv'
  <2> SUFFICES ASSUME CampaignInv, [ApiNext]_apiVars, part' = "campaign" PROVE Known'
    BY DEF CampaignInv
  <2>1. part = "campaign" /\ Known
    BY DEF ApiNext, apiVars, CampaignInv
  <2>2. CASE UNCHANGED campaignVars
    BY <2>1, <2>2
       DEF campaignVars, Known, Typed, Campaign!TypeOK, LoopHeld, JobFollows,
           Campaign!SyncingHasJob, Campaign!At, Campaign!EndedIsLeftAlone, RunsCounted,
           Firsts, Campaign!Valid, ReportsKnown, BreakerKnows
  <2>3. CASE ApiNext /\ ~UNCHANGED campaignVars
    BY <2>1, <2>3, CampaignStep DEF ApiNext
  <2> QED
    BY <2>2, <2>3 DEF apiVars
<1> QED
  BY <1>1, <1>2, PTL DEF ApiSpec

\* For any contacts, tasks, requests and faults: a campaign that is syncing has its
\* job on the way, or a fault has cost it.
THEOREM SyncingKeepsJob == ApiSpec => []SyncingHasJob
<1>1. CampaignInv => SyncingHasJob
  BY DEF CampaignInv, Known, JobFollows, SyncingHasJob
<1> QED
  BY <1>1, CampaignInvariance, PTL

\* For any of them, what begins after the end of a campaign does not revive it.
THEOREM EndStands == ApiSpec => []EndedIsLeftAlone
<1>1. CampaignInv => EndedIsLeftAlone
  BY DEF CampaignInv, Known, EndedIsLeftAlone
<1> QED
  BY <1>1, CampaignInvariance, PTL

\* For any of them, total_rows is the number of the campaign's first attempts.
THEOREM TotalsMatch == ApiSpec => []TotalMatchesRows
<1>1. CampaignInv => TotalMatchesRows
  <2> SUFFICES ASSUME Typed, RunsCounted, NEW c \in Campaign!Camps, camp[c].total > 0,
                      Campaign!FirstAttempts(c) # {}
               PROVE  camp[c].total = Campaign!Cardinality(Campaign!FirstAttempts(c))
    BY DEF CampaignInv, Known, TotalMatchesRows, Campaign!TotalMatchesRows
  <2>1. camp[c].total # 0
    OBVIOUS
  <2>2. CASE c = "child"
    BY <2>1, <2>2 DEF RunsCounted, Campaign!FirstAttempts
  <2>3. CASE c = "parent"
    <3>1. Campaign!FirstAttempts(c) = Firsts
      BY <2>3 DEF Campaign!FirstAttempts, Firsts
    <3> QED
      BY <2>1, <2>3, <3>1 DEF RunsCounted
  <2> QED
    BY <2>2, <2>3 DEF Campaign!Camps
<1> QED
  BY <1>1, CampaignInvariance, PTL

\* Only the script's answer makes a report trip the breaker.
LEMMA TripsByRecord ==
  ASSUME TasksOK, NEW t \in Tasks, Campaign!At(t, "report", "record"), Campaign!Next,
         task'[t].pc = "trip"
  PROVE  Campaign!Record(t)
<1>0. /\ task \in [Tasks -> Doings] /\ task[t].pc = "record" /\ task[t].kind = "report"
      /\ task' # task
  BY DEF TasksOK, LoopHeld, Campaign!At
<1>1. ASSUME NEW u \in Tasks, u # t, NEW d, task' = [task EXCEPT ![u] = d] PROVE FALSE
  BY <1>0, <1>1
<1>2. ASSUME NEW u \in Tasks, u # t, NEW pc, task' = [task EXCEPT ![u].pc = pc]
      PROVE  FALSE
  BY <1>0, <1>2
<1>3. ASSUME NEW d, task' = [task EXCEPT ![t] = d] PROVE d.pc = "trip"
  BY <1>0, <1>3
<1>4. ASSUME NEW u \in Tasks, Campaign!Client(u) PROVE FALSE
  BY <1>4, <1>0, <1>1 DEF Campaign!Client, Campaign!Request, Campaign!Idle
<1>5. ASSUME NEW u \in Tasks, Campaign!Lifecycle(u) PROVE FALSE
  <2>1. u # t
    BY <1>5, <1>0 DEF Campaign!Lifecycle, Campaign!StartWrite, Campaign!At,
       Campaign!Enqueue, Campaign!Resumes, Campaign!EnqueueRaises,
       Campaign!PauseWrite, Campaign!ResumeWrite, Campaign!Reset,
       Campaign!ResetRaises, Campaign!DeleteRuns, Campaign!DeleteCampaign,
       Campaign!RedialCreate, Campaign!RedialRuns, Campaign!RedialTotal
  <2>2. \/ \E pc : task' = [task EXCEPT ![u].pc = pc]
        \/ \E e : task' = [task EXCEPT ![u] = e]
    BY <1>5 DEF Campaign!Lifecycle, Campaign!StartWrite, Campaign!Goes,
       Campaign!Returns, Campaign!Enqueue, Campaign!EnqueueRaises,
       Campaign!PauseWrite, Campaign!ResumeWrite, Campaign!Reset,
       Campaign!ResetRaises, Campaign!DeleteRuns, Campaign!Keeps,
       Campaign!DeleteCampaign, Campaign!RedialCreate, Campaign!RedialRuns,
       Campaign!RedialTotal
  <2> QED
    BY <1>1, <1>2, <2>1, <2>2
<1>6. ASSUME NEW u \in Tasks, Campaign!Terminal(u) PROVE Campaign!Record(t)
  <2>1. CASE u = t
    <3>1. ~Campaign!Retry(t) /\ ~Campaign!Trip(t)
      BY <1>0 DEF Campaign!Retry, Campaign!Trip, Campaign!Resumes, Campaign!At
    <3>2. ~Campaign!RecordRaises(t)
      BY <1>0 DEF Campaign!RecordRaises, Doings
    <3>3. \A r \in Campaign!Run : ~Campaign!Report(t, r)
      BY <1>0 DEF Campaign!Report, Campaign!Idle
    <3> QED
      BY <1>6, <2>1, <3>1, <3>2, <3>3 DEF Campaign!Terminal
  <2>2. CASE u # t
    <3>1. \/ \E pc : task' = [task EXCEPT ![u].pc = pc]
          \/ \E e : task' = [task EXCEPT ![u] = e]
          \/ task' = task
      BY <1>6 DEF Campaign!Terminal, Campaign!Report, Campaign!Record,
         Campaign!RecordRaises, Campaign!Trip, Campaign!Retry, Campaign!Goes,
         Campaign!Returns
    <3> QED
      BY <1>0, <1>1, <1>2, <2>2, <3>1
  <2> QED
    BY <2>1, <2>2
<1>7. ASSUME Campaign!Sync PROVE FALSE
  BY <1>7, <1>0 DEF Campaign!Sync, Campaign!api, Campaign!JobStarts, Campaign!Fetched,
     Campaign!FetchRaises, Campaign!InsertRuns, Campaign!WriteTotal,
     Campaign!SyncEmpty, Campaign!SyncFinish, Campaign!Published,
     Campaign!PublishRaises, Campaign!SyncFails, Campaign!WorkerDies
<1>8. ASSUME Campaign!Outside PROVE FALSE
  <2>1. ~Campaign!ApiDies
    BY <1>0 DEF Campaign!ApiDies, Campaign!Idle
  <2> QED
    BY <1>8, <1>0, <2>1 DEF Campaign!Outside, Campaign!api, Campaign!Dial,
       Campaign!CallEnds, Campaign!Ends, Campaign!Tick
<1> QED
  BY <1>4, <1>5, <1>6, <1>7, <1>8 DEF Campaign!Next

\* When the script trips the breaker, what it counted are the outcomes of its window.
LEMMA TripStep ==
  ASSUME Known, NEW t \in Tasks, Campaign!At(t, "report", "record"),
         Campaign!Next, task'[t].pc = "trip"
  PROVE  LET young == {o \in outcomes' : o[2] + Window > now}
             bad   == {o[2] : o \in {x \in young : calls[x[1]] \in Campaign!Failure}}
             good  == {o[2] : o \in {x \in young : calls[x[1]] = "connected"}}
         IN  /\ Campaign!Cardinality(bad) + Campaign!Cardinality(good) >= MinCalls
             /\ Campaign!Cardinality(bad) >= Campaign!Cardinality(good)
<1>1. TasksOK /\ DataOK /\ ReportsKnown /\ BreakerKnows
  BY TypedParts DEF Known
<1>2. task[t].pc = "record" /\ task[t].kind = "report" /\ task \in [Tasks -> Doings]
  BY <1>1 DEF Campaign!At, TasksOK, LoopHeld
<1>3. Campaign!Record(t)
  BY TripsByRecord, <1>1
<1> DEFINE young == {o \in outcomes' : o[2] + Window > now}
           bad   == {o[2] : o \in {x \in young : calls[x[1]] \in Campaign!Failure}}
           good  == {o[2] : o \in {x \in young : calls[x[1]] = "connected"}}
<1>4. /\ Campaign!Trips(Campaign!Cardinality(fails'), Campaign!Cardinality(succs'))
      /\ UNCHANGED <<calls, now>>
  BY <1>2, <1>3 DEF Campaign!Record, Campaign!phone, Campaign!limits
<1>5. /\ BreakerKnows' /\ BreakerOK'
      /\ fails' \subseteq {x \in 1 .. MaxTime : x + Window > now}
      /\ succs' \subseteq {x \in 1 .. MaxTime : x + Window > now}
  BY <1>1, <1>3, RecordKnows, BreakerStep
<1>6. \A o \in outcomes' : o[2] \in 1 .. MaxTime
  BY <1>5 DEF BreakerOK
<1>7. \A x \in 1 .. MaxTime : x + Window > now =>
        /\ x \in fails' <=>
             \E o \in outcomes' : o[2] = x /\ calls[o[1]] \in Campaign!Failure
        /\ x \in succs' <=>
             \E o \in outcomes' : o[2] = x /\ calls[o[1]] = "connected"
  BY <1>4, <1>5 DEF BreakerKnows, Campaign!Failure
<1>8. bad = fails' /\ good = succs'
  <2>1. \A x : x \in bad <=> \E o \in outcomes' :
              o[2] + Window > now /\ calls[o[1]] \in Campaign!Failure /\ x = o[2]
    BY Zenon
  <2>2. \A x : x \in good <=> \E o \in outcomes' :
              o[2] + Window > now /\ calls[o[1]] = "connected" /\ x = o[2]
    BY Zenon
  <2> HIDE DEF bad, good, young
  <2>3. \A x : x \in bad <=> x \in fails'
    <3>1. ASSUME NEW x \in bad PROVE x \in fails'
      <4>1. PICK o \in outcomes' :
              o[2] + Window > now /\ calls[o[1]] \in Campaign!Failure /\ x = o[2]
        BY <3>1, <2>1, Zenon
      <4> QED
        BY <4>1, <1>6, <1>7
    <3>2. ASSUME NEW x \in fails' PROVE x \in bad
      <4>1. x \in 1 .. MaxTime /\ x + Window > now
        BY <3>2, <1>5
      <4>2. PICK o \in outcomes' : o[2] = x /\ calls[o[1]] \in Campaign!Failure
        BY <3>2, <4>1, <1>7
      <4> QED
        BY <4>1, <4>2, <2>1
    <3> QED
      BY <3>1, <3>2
  <2>4. \A x : x \in good <=> x \in succs'
    <3>1. ASSUME NEW x \in good PROVE x \in succs'
      <4>1. PICK o \in outcomes' :
              o[2] + Window > now /\ calls[o[1]] = "connected" /\ x = o[2]
        BY <3>1, <2>2, Zenon
      <4> QED
        BY <4>1, <1>6, <1>7
    <3>2. ASSUME NEW x \in succs' PROVE x \in good
      <4>1. x \in 1 .. MaxTime /\ x + Window > now
        BY <3>2, <1>5
      <4>2. PICK o \in outcomes' : o[2] = x /\ calls[o[1]] = "connected"
        BY <3>2, <4>1, <1>7
      <4> QED
        BY <4>1, <4>2, <2>2
    <3> QED
      BY <3>1, <3>2
  <2> QED
    BY <2>3, <2>4, Zenon
<1>9. Campaign!Cardinality(fails') \in Nat /\ Campaign!Cardinality(succs') \in Nat
  <2>1. IsFiniteSet(1 .. MaxTime)
    BY CampaignConstants, FS_Interval
  <2>2. IsFiniteSet(fails') /\ IsFiniteSet(succs')
    BY <1>5, <2>1, FS_Subset DEF BreakerOK
  <2> QED
    BY <2>2, FS_CardinalityType, SameCardinality
<1>10. /\ Campaign!Cardinality(bad) + Campaign!Cardinality(good) >= MinCalls
       /\ Campaign!Cardinality(bad) >= Campaign!Cardinality(good)
  <2> HIDE DEF bad, good, young
  <2> DEFINE f == Campaign!Cardinality(fails')
             s == Campaign!Cardinality(succs')
  <2>1. Campaign!Trips(f, s) /\ f \in Nat /\ s \in Nat
    BY <1>4, <1>9
  <2>2. Campaign!Cardinality(bad) = f /\ Campaign!Cardinality(good) = s
    BY <1>8
  <2> HIDE DEF f, s
  <2> QED
    BY <2>1, <2>2, CampaignConstants DEF Campaign!Trips
<1> QED
  BY <1>10

\* What TripIsFresh says of one step.
FreshTrip ==
  \A t \in Tasks :
    (Campaign!At(t, "report", "record") /\ task'[t].pc = "trip") =>
      LET young == {o \in outcomes' : o[2] + Window > now}
          bad   == {o[2] : o \in {x \in young : calls[x[1]] \in Campaign!Failure}}
          good  == {o[2] : o \in {x \in young : calls[x[1]] = "connected"}}
      IN  /\ Campaign!Cardinality(bad) + Campaign!Cardinality(good) >= MinCalls
          /\ Campaign!Cardinality(bad) >= Campaign!Cardinality(good)

\* For any window and any threshold of calls: the breaker trips on enough outcomes of
\* its window, recorded since it was last reset, half of their times failures.
THEOREM TripsOnFresh == ApiSpec => TripIsFresh
<1>1. CampaignInv /\ [ApiNext]_apiVars => [FreshTrip]_(Campaign!vars)
  <2> SUFFICES ASSUME CampaignInv, [ApiNext]_apiVars, ~UNCHANGED Campaign!vars
               PROVE  FreshTrip
    OBVIOUS
  <2>1. Campaign!vars' # Campaign!vars <=> campaignVars' # campaignVars
    BY DEF campaignVars, Campaign!vars, Campaign!mongo, Campaign!phone, Campaign!api,
       Campaign!worker, Campaign!breaker, Campaign!limits
  <2>2. part = "campaign" /\ Campaign!Next
    BY <2>1 DEF ApiNext, apiVars
  <2>3. Known
    BY <2>2 DEF CampaignInv
  <2> QED
    BY <2>2, <2>3, TripStep DEF FreshTrip
<1> QED
  BY <1>1, CampaignInvariance, PTL
     DEF ApiSpec, TripIsFresh, Campaign!TripIsFresh, FreshTrip

---------------------------------------------------------------------------
(* The three parts together.                                               *)

\* What CallLog keeps by itself it keeps as a part of the API.
LogInv == part = "log" => IInv

\* In every state of the API the log has its invariant.
LEMMA LogInvariance == ApiSpec => []LogInv
<1>1. ApiInit => LogInv
  BY InitIInv DEF ApiInit, LogInv
<1>2. LogInv /\ [ApiNext]_apiVars => LogInv'
  <2> SUFFICES ASSUME LogInv, [ApiNext]_apiVars, part' = "log" PROVE IInv'
    BY DEF LogInv
  <2>1. part = "log" /\ [Next]_vars
    BY DEF ApiNext, apiVars
  <2>2. TypeOK' /\ Rest'
    BY <2>1, TypeStep, RestStep DEF LogInv, IInv
  <2> QED
    BY <2>2 DEF IInv, Rest
<1> QED
  BY <1>1, <1>2, PTL DEF ApiSpec

\* The API has the log as CallLog has it, or leaves it alone; so what the record of a
\* call promises holds beside the campaigns and the numbers, too.
THEOREM RecordKept == ApiSpec => ImplementsRecord
<1>1. ApiInit => Init
  BY DEF ApiInit
<1>2. [ApiNext]_apiVars => [Next]_vars
  BY DEF ApiNext, apiVars
<1>3. ApiSpec => Spec
  BY <1>1, <1>2, PTL DEF ApiSpec, Spec
<1> QED
  BY <1>3, Refinement

\* One of the parts runs.
OnePart == part \in {"campaign", "log", "numbers"}

\* Type correctness of whichever part runs: of the campaign's documents and handlers,
\* of the call's log and of the links between agents, numbers and applications.
THEOREM ApiTypeCorrect == ApiSpec => []ApiTypeOK
<1>1. ApiInit => OnePart
  BY DEF ApiInit, OnePart
<1>2. OnePart /\ [ApiNext]_apiVars => OnePart'
  BY DEF ApiNext, apiVars, OnePart
<1>3. OnePart /\ CampaignInv /\ LogInv /\ NumbersInv => ApiTypeOK
  BY DEF OnePart, CampaignInv, Known, Typed, LogInv, IInv, NumbersInv, LinksInv, ApiTypeOK
<1> QED
  BY <1>1, <1>2, <1>3, CampaignInvariance, LogInvariance, NumbersInvariance, PTL
     DEF ApiSpec
==============================================================================
