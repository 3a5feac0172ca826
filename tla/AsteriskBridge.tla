--------------------------- MODULE AsteriskBridge ---------------------------
(***************************************************************************)
(* The bridge process between Asterisk and the runtime: voicera_bridge.py   *)
(* with the parts of ari_client.py and rtp_server.py it uses.  Everything   *)
(* runs on one event loop, so a step reaches from one await to the next.    *)
(*                                                                         *)
(* The tasks of a call are its set-up (pc), the pump that carries the       *)
(* agent's audio (pump) and whoever took the call out of `calls' to clean   *)
(* it up (cl).  Around them: Asterisk, the ARI event stream, the supervisor *)
(* that reconnects it, and the shutdown of the process.                     *)
(***************************************************************************)
EXTENDS Naturals, FiniteSets

CONSTANTS
    MaxChannels, \* bound on the channels Asterisk makes, callers and media legs
    Ports,      \* the UDP ports of the RTP range
    None,
    MaxFaults    \* bound on failed requests, binds, connections and shutdowns

ASSUME MaxChannelsIsNat == MaxChannels \in Nat
ASSUME NoneIsNeither == None \notin Nat \cup Ports
ASSUME MaxFaultsIsNat == MaxFaults \in Nat

VARIABLES
    chan,      \* Asterisk: channel id -> "unused", "up", "gone"
    bridged,   \* Asterisk: the mixing bridges that exist, by the id of their call
    starts,    \* StasisStart events on their way
    ends,      \* ChannelDestroyed events on their way
    known,     \* _known_channel_ids
    calls,     \* keys of self.calls
    pc,        \* where _on_stasis_start stands
    leg,       \* external_channel_id of the call, once the request is answered
    ws,        \* the websocket to the runtime: "none", "open", "closed"
    pump,      \* _pump_ws_to_rtp: "none", "run", "self" (cleans up), "done"
    cl,        \* where the clean-up of the call stands
    sessions,  \* keys of RTPServer.sessions
    sock,      \* port of the socket a call holds open, or None
    alloc,     \* port_allocation: port -> call or None
    link,      \* the listener: "down", "connecting", "up", "backoff", "ended"
    http,      \* there is an HTTP session
    stop,      \* how far VoiceraBridge.stop has come
    todo,      \* the calls it still has to clean up: list(self.calls.keys())
    taken,     \* the call it waits for, or None
    faults

asterisk == <<chan, bridged, starts, ends>>
rtp      == <<sessions, sock, alloc>>
tasks    == <<known, calls, pc, leg, ws, pump, cl>>
ari      == <<link, http>>
halt     == <<stop, todo, taken>>
vars     == <<asterisk, tasks, rtp, ari, halt, faults>>

SetupSteps == {"answer", "media", "answered", "lost", "bridge",
               "addCaller", "addLeg", "connect", "attach"}
\* Channels are numbered in the order Asterisk makes them.
Ids == 1 .. MaxChannels

CleanSteps == {"audio", "rtp", "socket", "asterisk"}
StopSteps  == {"run", "calls", "rtp", "disconnect", "listener", "exit"}

(***************************************************************************)
(* State formulae                                                          *)
(***************************************************************************)
Alive      == stop # "exit"
RtpRunning == stop \in {"run", "calls"}
ShouldReconnect == stop \notin {"listener", "exit"}
FreePorts  == {p \in Ports : alloc[p] = None}

\* A channel id nobody has seen yet
Fresh(i) == chan[i] = "unused" /\ \A j \in 1 .. (i - 1) : chan[j] # "unused"

\* The handler of ChannelDestroyed does nothing for any other channel.
Concerned(i) == i \in calls \cup starts \/ pc[i] \in SetupSteps

\* A channel ends: Asterisk tells whoever listens.
Ended(gone) ==
    /\ chan' = [i \in Ids |-> IF i \in gone THEN "gone" ELSE chan[i]]
    /\ ends' = ends \cup {i \in gone : link = "up" /\ Concerned(i)}

Init ==
    /\ chan = [i \in Ids |-> "unused"]
    /\ bridged = {} /\ starts = {} /\ ends = {}
    /\ known = {} /\ calls = {}
    /\ pc = [i \in Ids |-> "idle"]
    /\ leg = [i \in Ids |-> None]
    /\ ws = [i \in Ids |-> "none"]
    /\ pump = [i \in Ids |-> "none"]
    /\ cl = [i \in Ids |-> "none"]
    /\ sessions = {}
    /\ sock = [i \in Ids |-> None]
    /\ alloc = [p \in Ports |-> None]
    /\ link = "down" /\ http = FALSE
    /\ stop = "run" /\ todo = {} /\ taken = None /\ faults = 0

Fault == faults < MaxFaults /\ faults' = faults + 1

\* A request to Asterisk fails: by chance, or because there is no session.
Misses == IF http THEN Fault ELSE UNCHANGED faults

(***************************************************************************)
(* ARIClient: the supervised listener                                      *)
(***************************************************************************)
\* `connect' opens the HTTP session, asks for /asterisk/info, opens the socket.
ConnectBegins ==
    /\ link = "down" /\ ShouldReconnect
    /\ link' = "connecting" /\ http' = TRUE
    /\ UNCHANGED <<asterisk, tasks, rtp, halt, faults>>

\* Nothing asks again whether a shutdown has begun in the meantime.
ConnectSucceeds ==
    /\ Alive /\ link = "connecting"
    /\ link' = "up"
    /\ UNCHANGED <<asterisk, tasks, rtp, http, halt, faults>>

MarkDisconnected == link' = IF ShouldReconnect THEN "backoff" ELSE "ended"

ConnectFails ==
    /\ Alive /\ link = "connecting"
    /\ IF ShouldReconnect THEN Fault ELSE UNCHANGED faults
    /\ http' = FALSE
    /\ MarkDisconnected
    /\ UNCHANGED <<asterisk, tasks, rtp, halt>>

\* What was on its way is lost, and Asterisk keeps nothing for later.
LinkDrops ==
    /\ Alive /\ link = "up"
    /\ Fault
    /\ MarkDisconnected
    /\ starts' = {} /\ ends' = {}
    /\ UNCHANGED <<chan, bridged, tasks, rtp, http, halt>>

BackoffEnds ==
    /\ Alive /\ link = "backoff"
    /\ link' = IF ShouldReconnect THEN "down" ELSE "ended"
    /\ UNCHANGED <<asterisk, tasks, rtp, http, halt, faults>>

(***************************************************************************)
(* Asterisk and the runtime, as the bridge meets them                      *)
(***************************************************************************)
CallerArrives(c) ==
    /\ link = "up" /\ Fresh(c)
    /\ chan' = [chan EXCEPT ![c] = "up"]
    /\ starts' = starts \cup {c}
    /\ UNCHANGED <<bridged, ends, tasks, rtp, ari, halt, faults>>

\* The end of any other channel is noticed by nobody.
ChannelEnds(i) ==
    /\ Alive /\ chan[i] = "up"
    /\ Concerned(i) \/ \E c \in Ids : leg[c] = i /\ pc[c] \in SetupSteps
    /\ Ended({i})
    /\ UNCHANGED <<bridged, starts, tasks, rtp, ari, halt, faults>>

RuntimeCloses(c) ==
    /\ Alive /\ ws[c] = "open"
    /\ pc[c] = "attach" \/ pump[c] = "run"
    /\ ws' = [ws EXCEPT ![c] = "closed"]
    /\ UNCHANGED <<asterisk, known, calls, pc, leg, pump, cl, rtp, ari, halt, faults>>

(***************************************************************************)
(* Set-up of a call: _on_stasis_start                                      *)
(***************************************************************************)
StasisStart(c) ==
    /\ Alive /\ link = "up" /\ c \in starts
    /\ starts' = starts \ {c}
    /\ known' = known \cup {c}
    /\ pc' = IF c \in known THEN pc ELSE [pc EXCEPT ![c] = "answer"]
    /\ UNCHANGED <<chan, bridged, ends, calls, leg, ws, pump, cl, rtp, ari, halt, faults>>

\* `self.calls.pop': whoever finds the call cleans it up, anyone else returns.
TakeOut(c) ==
    /\ calls' = calls \ {c}
    /\ cl' = IF c \in calls THEN [cl EXCEPT ![c] = "audio"] ELSE cl

\* The set-up ends in `_cleanup_call' and is over.
GiveUp(c) ==
    /\ TakeOut(c)
    /\ pc' = [pc EXCEPT ![c] = "failed"]

Goes(c, s) == pc' = [pc EXCEPT ![c] = s]

\* A refused `answer' goes unnoticed; one that raises does not.
AnswerRaises(c) ==
    /\ Alive /\ pc[c] = "answer"
    /\ Misses
    /\ GiveUp(c)
    /\ UNCHANGED <<asterisk, known, leg, ws, pump, rtp, ari, halt>>

\* RTPServer.allocate_session, without an await in between: reserve a port, bind
\* a socket to it.
Allocate(c) ==
    /\ Alive /\ pc[c] = "answer"
    /\ http /\ RtpRunning
    /\ \E p \in FreePorts :
        /\ alloc' = [alloc EXCEPT ![p] = c]
        /\ sock' = [sock EXCEPT ![c] = p]
    /\ sessions' = sessions \cup {c}
    /\ Goes(c, "media")
    /\ UNCHANGED <<asterisk, known, calls, leg, ws, pump, cl, ari, halt, faults>>

\* `bind' raises after the port has been reserved.
BindFails(c) ==
    /\ Alive /\ pc[c] = "answer"
    /\ http /\ RtpRunning
    /\ Fault
    /\ \E p \in FreePorts : alloc' = [alloc EXCEPT ![p] = c]
    /\ GiveUp(c)
    /\ UNCHANGED <<asterisk, known, leg, ws, pump, sessions, sock, ari, halt>>

AllocateRaises(c) ==
    /\ Alive /\ pc[c] = "answer"
    /\ http /\ (~RtpRunning \/ FreePorts = {})
    /\ GiveUp(c)
    /\ UNCHANGED <<asterisk, known, leg, ws, pump, rtp, ari, halt, faults>>

\* POST channels/externalMedia.  The leg enters the same Stasis application, so
\* it has a StasisStart of its own, on another connection than the answer.
ExternalMedia(c) ==
    /\ Alive /\ pc[c] = "media" /\ http
    /\ \E l \in Ids :
        /\ Fresh(l)
        /\ chan' = [chan EXCEPT ![l] = "up"]
        /\ starts' = starts \cup IF link = "up" THEN {l} ELSE {}
        /\ leg' = [leg EXCEPT ![c] = l]
    /\ \/ Goes(c, "answered") /\ UNCHANGED faults
       \/ Goes(c, "lost") /\ Fault
    /\ UNCHANGED <<bridged, ends, known, calls, ws, pump, cl, rtp, ari, halt>>

MediaAnswered(c) ==
    /\ Alive /\ pc[c] = "answered"
    /\ known' = known \cup {leg[c]}
    /\ Goes(c, "bridge")
    /\ UNCHANGED <<asterisk, calls, leg, ws, pump, cl, rtp, ari, halt, faults>>

\* Refused, or the answer never came: the code has no id of the leg.
MediaFails(c) ==
    /\ Alive
    /\ \/ pc[c] = "lost" /\ UNCHANGED faults
       \/ pc[c] = "media" /\ Misses
    /\ leg' = [leg EXCEPT ![c] = None]
    /\ GiveUp(c)
    /\ UNCHANGED <<asterisk, known, ws, pump, rtp, ari, halt>>

\* POST bridges; from here on the call is in `calls'.
CreateBridge(c) ==
    /\ Alive /\ pc[c] = "bridge" /\ http
    /\ bridged' = bridged \cup {c}
    /\ calls' = calls \cup {c}
    /\ Goes(c, "addCaller")
    /\ UNCHANGED <<chan, starts, ends, known, leg, ws, pump, cl, rtp, ari, halt, faults>>

\* Refused, or the bridge is made and the answer lost.
BridgeFails(c) ==
    /\ Alive /\ pc[c] = "bridge"
    /\ Misses
    /\ bridged' \in {bridged} \cup IF http THEN {bridged \cup {c}} ELSE {}
    /\ GiveUp(c)
    /\ UNCHANGED <<chan, starts, ends, known, leg, ws, pump, rtp, ari, halt>>

\* POST bridges/{id}/addChannel, for the caller and then for the leg.
Joining(c) == IF pc[c] = "addCaller" THEN c ELSE leg[c]

AddChannel(c) ==
    /\ Alive /\ pc[c] \in {"addCaller", "addLeg"} /\ http
    /\ chan[Joining(c)] = "up" /\ c \in bridged
    /\ Goes(c, IF pc[c] = "addCaller" THEN "addLeg" ELSE "connect")
    /\ UNCHANGED <<asterisk, known, calls, leg, ws, pump, cl, rtp, ari, halt, faults>>

AddFails(c) ==
    /\ Alive /\ pc[c] \in {"addCaller", "addLeg"}
    /\ IF http /\ chan[Joining(c)] = "up" /\ c \in bridged THEN Fault ELSE UNCHANGED faults
    /\ GiveUp(c)
    /\ UNCHANGED <<asterisk, known, leg, ws, pump, rtp, ari, halt>>

ConnectRuntime(c) ==
    /\ Alive /\ pc[c] = "connect"
    /\ ws' = [ws EXCEPT ![c] = "open"]
    /\ Goes(c, "attach")
    /\ UNCHANGED <<asterisk, known, calls, leg, pump, cl, rtp, ari, halt, faults>>

\* `connect' raises, or the `start' message can no longer be sent.
RuntimeFails(c) ==
    /\ Alive
    /\ \/ pc[c] = "connect" /\ Fault
       \/ pc[c] = "attach" /\ ws[c] = "closed" /\ UNCHANGED faults
    /\ GiveUp(c)
    /\ UNCHANGED <<asterisk, known, leg, ws, pump, rtp, ari, halt>>

\* `self.calls[channel_id]["ws"] = ws' raises if the call is gone by now: the
\* socket is then in no record any more.
Attach(c) ==
    /\ Alive /\ pc[c] = "attach"
    /\ IF c \in calls
       THEN pump' = [pump EXCEPT ![c] = "run"] /\ Goes(c, "done") /\ UNCHANGED <<calls, cl>>
       ELSE GiveUp(c) /\ UNCHANGED pump
    /\ UNCHANGED <<asterisk, known, leg, ws, rtp, ari, halt, faults>>

(***************************************************************************)
(* The end of a call                                                       *)
(***************************************************************************)
ChannelDestroyed(c) ==
    /\ Alive /\ link = "up" /\ c \in ends \ starts
    /\ ends' = ends \ {c}
    /\ TakeOut(c)
    /\ UNCHANGED <<chan, bridged, starts, known, pc, leg, ws, pump, rtp, ari, halt, faults>>

PumpEnds_NoFinally(c) ==
    /\ Alive /\ pump[c] = "run" /\ ws[c] = "closed"
    /\ pump' = [pump EXCEPT ![c] = "done"]
    /\ UNCHANGED <<asterisk, known, calls, pc, leg, ws, cl, rtp, ari, halt, faults>>

\* The pump ends with its socket, and cleans up if nobody else does.
PumpEnds(c) ==
    /\ Alive /\ pump[c] = "run"
    /\ ws[c] = "closed"
    /\ TakeOut(c)
    /\ pump' = [pump EXCEPT ![c] = IF c \in calls THEN "self" ELSE "done"]
    /\ UNCHANGED <<asterisk, known, pc, leg, ws, rtp, ari, halt, faults>>

StopAudio_NoCancel(c) ==
    /\ Alive /\ cl[c] = "audio"
    /\ ws' = IF pump[c] = "none" THEN ws ELSE [ws EXCEPT ![c] = "closed"]
    /\ cl' = [cl EXCEPT ![c] = "rtp"]
    /\ UNCHANGED <<asterisk, known, calls, pc, leg, pump, rtp, ari, halt, faults>>

\* Close the websocket and cancel the pump.  A pump that cleans up after itself
\* cancels itself, and the await that follows swallows the cancellation.
StopAudio(c) ==
    /\ Alive /\ cl[c] = "audio"
    /\ ws' = IF pump[c] = "none" THEN ws ELSE [ws EXCEPT ![c] = "closed"]
    /\ pump' = IF pump[c] = "run" THEN [pump EXCEPT ![c] = "done"] ELSE pump
    /\ cl' = [cl EXCEPT ![c] = "rtp"]
    /\ UNCHANGED <<asterisk, known, calls, pc, leg, rtp, ari, halt, faults>>

\* alloc without the ports in ps
Released_Zero(ps) == [p \in Ports |-> IF p \in ps THEN 0 ELSE alloc[p]]
Released(ps) == [p \in Ports |-> IF p \in ps THEN None ELSE alloc[p]]

PopSession_Frees(c) ==
    /\ Alive /\ cl[c] = "rtp"
    /\ sessions' = sessions \ {c}
    /\ alloc' = Released({sock[c]})
    /\ cl' = [cl EXCEPT ![c] = IF c \in sessions THEN "socket" ELSE "asterisk"]
    /\ UNCHANGED <<asterisk, known, calls, pc, leg, ws, pump, sock, ari, halt, faults>>

\* RTPServer.cleanup_session takes the session out and waits for its receiver;
\* only then the socket is closed and the port is free again.
PopSession(c) ==
    /\ Alive /\ cl[c] = "rtp"
    /\ sessions' = sessions \ {c}
    /\ cl' = [cl EXCEPT ![c] = IF c \in sessions THEN "socket" ELSE "asterisk"]
    /\ UNCHANGED <<asterisk, known, calls, pc, leg, ws, pump, sock, alloc, ari, halt, faults>>

CloseSocket(c) ==
    /\ Alive /\ cl[c] = "socket"
    /\ sock' = [sock EXCEPT ![c] = None]
    /\ alloc' = Released({sock[c]})
    /\ cl' = [cl EXCEPT ![c] = "asterisk"]
    /\ UNCHANGED <<asterisk, known, calls, pc, leg, ws, pump, sessions, ari, halt, faults>>

\* Destroy the bridge, hang up the leg, hang up the caller.  A request that
\* fails is passed over.
LetGo(c) ==
    /\ Alive /\ cl[c] = "asterisk"
    /\ \E hit \in SUBSET {"bridge", "leg", "caller"} :
        /\ IF http /\ Cardinality(hit) < 3 THEN Fault ELSE UNCHANGED faults
        /\ ~http => hit = {}
        /\ bridged' = IF "bridge" \in hit THEN bridged \ {c} ELSE bridged
        /\ Ended({i \in Ids : /\ chan[i] = "up"
                              /\ \/ i = leg[c] /\ "leg" \in hit
                                 \/ i = c /\ "caller" \in hit})
    /\ cl' = [cl EXCEPT ![c] = "done"]
    /\ pump' = IF pump[c] = "self" THEN [pump EXCEPT ![c] = "done"] ELSE pump
    /\ UNCHANGED <<starts, known, calls, pc, leg, ws, rtp, ari, halt>>

(***************************************************************************)
(* VoiceraBridge.stop                                                      *)
(***************************************************************************)
StopBegins ==
    /\ stop = "run" /\ link # "down"
    /\ Fault
    /\ stop' = "calls" /\ todo' = calls
    /\ UNCHANGED <<asterisk, tasks, rtp, ari, taken>>

StopIsFree == stop = "calls" /\ (taken # None => cl[taken] = "done")

\* One call after the other.  It waits for its own clean-ups, not for those
\* another task has begun, and a call that is new since then is not in the list.
StopTakes(c) ==
    /\ StopIsFree /\ c \in todo
    /\ TakeOut(c)
    /\ todo' = todo \ {c}
    /\ taken' = IF c \in calls THEN c ELSE None
    /\ UNCHANGED <<asterisk, known, pc, leg, ws, pump, rtp, ari, stop, faults>>

\* RTPServer.stop: the tables are emptied, whoever still uses them.
StopRtp ==
    /\ StopIsFree /\ todo = {}
    /\ stop' = "rtp" /\ taken' = None
    /\ UNCHANGED <<asterisk, tasks, rtp, ari, todo, faults>>

RtpStopped ==
    /\ stop = "rtp"
    /\ sock' = [c \in Ids |-> IF c \in sessions THEN None ELSE sock[c]]
    /\ alloc' = [p \in Ports |-> None]
    /\ sessions' = {}
    /\ stop' = "disconnect"
    /\ UNCHANGED <<asterisk, tasks, ari, todo, taken, faults>>

\* ARIClient.disconnect
Disconnect ==
    /\ stop = "disconnect"
    /\ stop' = "listener"
    /\ http' = FALSE
    /\ link' = IF link = "connecting" THEN link ELSE "ended"
    /\ starts' = {} /\ ends' = {}
    /\ UNCHANGED <<chan, bridged, tasks, rtp, todo, taken, faults>>

CancelListener ==
    /\ stop = "listener"
    /\ stop' = "exit"
    /\ link' = "ended"
    /\ starts' = {} /\ ends' = {}
    /\ UNCHANGED <<chan, bridged, tasks, rtp, http, todo, taken, faults>>

(***************************************************************************)
(* Specification                                                           *)
(***************************************************************************)
Setup(c) ==
    \/ AnswerRaises(c) \/ Allocate(c) \/ AllocateRaises(c) \/ ExternalMedia(c)
    \/ MediaAnswered(c) \/ MediaFails(c) \/ CreateBridge(c) \/ BridgeFails(c)
    \/ AddChannel(c) \/ AddFails(c) \/ ConnectRuntime(c) \/ RuntimeFails(c)
    \/ Attach(c) \/ BindFails(c)

CleanUp(c) ==
    \/ StopAudio(c) \/ PopSession(c) \/ CloseSocket(c) \/ LetGo(c)

Supervisor == ConnectBegins \/ ConnectSucceeds \/ ConnectFails \/ BackoffEnds
Shutdown   == StopRtp \/ RtpStopped \/ Disconnect \/ CancelListener

Next ==
    \/ Supervisor \/ LinkDrops \/ StopBegins \/ Shutdown
    \/ \E c \in Ids :
        \/ CallerArrives(c) \/ ChannelEnds(c) \/ RuntimeCloses(c)
        \/ StasisStart(c) \/ ChannelDestroyed(c)
        \/ Setup(c) \/ PumpEnds(c) \/ CleanUp(c) \/ StopTakes(c)

Spec == Init /\ [][Next]_vars

(***************************************************************************)
(* Properties                                                              *)
(***************************************************************************)
\* Every variable keeps its kind of value.
TypeOK ==
    /\ chan \in [Ids -> {"unused", "up", "gone"}]
    /\ bridged \subseteq Ids
    /\ starts \subseteq Ids /\ ends \subseteq Ids
    /\ known \subseteq Ids /\ calls \subseteq Ids
    /\ pc \in [Ids -> {"idle", "failed", "done"} \cup SetupSteps]
    /\ leg \in [Ids -> Ids \cup {None}]
    /\ ws \in [Ids -> {"none", "open", "closed"}]
    /\ pump \in [Ids -> {"none", "run", "self", "done"}]
    /\ cl \in [Ids -> {"none", "done"} \cup CleanSteps]
    /\ sessions \subseteq Ids
    /\ sock \in [Ids -> Ports \cup {None}]
    /\ alloc \in [Ports -> Ids \cup {None}]
    /\ link \in {"down", "connecting", "up", "backoff", "ended"}
    /\ http \in BOOLEAN /\ stop \in StopSteps
    /\ todo \subseteq Ids /\ taken \in Ids \cup {None}
    /\ faults \in 0 .. MaxFaults

\* As long as the RTP server runs, a port with an open socket is allocated to
\* the call that holds the socket: no other call is given a port that is still
\* bound, however clean-ups and new calls interleave (allocate_session,
\* _cleanup_session).
PortsExclusive ==
    RtpRunning => \A c \in Ids : sock[c] # None => alloc[sock[c]] = c

\* A call that has been cleaned up holds nothing of this process any more: no
\* session, no socket, no port, no pump, and no websocket its record knew of
\* (_cleanup_call, run by the set-up, the pump, the event or the shutdown).
CleanedUp ==
    \A c \in Ids : cl[c] = "done" =>
        /\ c \notin calls \cup sessions
        /\ sock[c] = None
        /\ \A p \in Ports : alloc[p] # c
        /\ pump[c] \in {"none", "done"}
        /\ pump[c] = "done" => ws[c] = "closed"

\* No call is forgotten: whatever is in `calls' has a task that will take it
\* out, its set-up or its pump, and whatever pump runs has a call, or somebody
\* who is about to cancel it.
SomeoneInCharge ==
    \A c \in Ids :
        /\ c \in calls => pc[c] \in SetupSteps \/ pump[c] = "run"
        /\ pump[c] = "run" => c \in calls \/ cl[c] = "audio"
=============================================================================
