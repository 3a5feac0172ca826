------------------------ MODULE AsteriskBridgeProofs ------------------------
(***************************************************************************)
(* That ports are exclusive, that a call is cleaned up entirely and that   *)
(* someone is in charge of every call, for any number of channels, ports   *)
(* and faults.                                                             *)
(***************************************************************************)
EXTENDS AsteriskBridge, TLAPS

---------------------------------------------------------------------------
(* The inductive invariant.                                                *)

\* A set-up is one of a channel that has been seen, and it waits for nothing
\* but a leg it has been given.
SetupKnown ==
    \A c \in Ids :
        /\ pc[c] # "idle" => c \in known
        /\ pc[c] = "answered" => leg[c] \in Ids

\* Before it is registered a call is in nobody's hands but its set-up's, and
\* before it has allocated it holds nothing of the RTP server.
NotRegistered ==
    \A c \in Ids :
        /\ pc[c] \in {"idle", "answer", "media", "answered", "lost", "bridge"}
             => c \notin calls /\ cl[c] = "none"
        /\ pc[c] \in {"idle", "answer"}
             => c \notin sessions /\ sock[c] = None /\ \A p \in Ports : alloc[p] # c

\* A call whose clean-up will find what it holds: one that is registered, or
\* on its way there, or being cleaned up.
Accounted(c) ==
    \/ c \in calls
    \/ cl[c] # "none"
    \/ pc[c] \in {"media", "answered", "lost", "bridge"}

\* It holds one port at most, that of its socket; and the socket is in the
\* session, but for the await in which the clean-up has it.
HoldsOnePort ==
    \A c \in Ids : Accounted(c) =>
        /\ \A p \in Ports : alloc[p] = c => sock[c] = p
        /\ cl[c] # "socket" /\ c \notin sessions => sock[c] = None

\* Whoever cleans up has taken the call out, and the session before the socket.
TakenOut ==
    \A c \in Ids :
        /\ cl[c] # "none" => c \notin calls
        /\ cl[c] \in {"socket", "asterisk", "done"} => c \notin sessions

\* A pump is that of a call whose set-up is done; it cleans up after itself or
\* is cancelled with its websocket closed.
Pumps ==
    \A c \in Ids :
        /\ pump[c] # "none" => pc[c] = "done"
        /\ pump[c] = "self" => cl[c] \in CleanSteps
        /\ pump[c] \in {"self", "done"} => ws[c] = "closed"

\* The invariant but for the types.
Rest ==
    /\ PortsExclusive /\ SetupKnown /\ NotRegistered /\ HoldsOnePort /\ TakenOut
    /\ Pumps /\ SomeoneInCharge

IInv == TypeOK /\ Rest

\* The bridge starts with the invariant.
LEMMA InitIInv == Init => IInv
<1> SUFFICES ASSUME Init PROVE IInv
  OBVIOUS
<1>1. TypeOK
  <2>1. /\ chan \in [Ids -> {"unused", "up", "gone"}]
        /\ pc \in [Ids -> {"idle", "failed", "done"} \cup SetupSteps]
        /\ leg \in [Ids -> Ids \cup {None}]
        /\ ws \in [Ids -> {"none", "open", "closed"}]
        /\ pump \in [Ids -> {"none", "run", "self", "done"}]
        /\ cl \in [Ids -> {"none", "done"} \cup CleanSteps]
        /\ sock \in [Ids -> Ports \cup {None}]
        /\ alloc \in [Ports -> Ids \cup {None}]
    BY DEF Init
  <2>2. faults \in 0 .. MaxFaults /\ stop \in StopSteps
    BY MaxFaultsIsNat DEF Init, StopSteps
  <2> QED
    BY <2>1, <2>2 DEF Init, TypeOK
<1>2. PortsExclusive /\ SetupKnown /\ NotRegistered
  BY NoneIsNeither DEF Init, PortsExclusive, SetupKnown, NotRegistered, Ids
<1>3. HoldsOnePort /\ TakenOut
  BY DEF Init, HoldsOnePort, Accounted, TakenOut
<1>4. Pumps /\ SomeoneInCharge
  BY DEF Init, Pumps, SomeoneInCharge
<1> QED
  BY <1>1, <1>2, <1>3, <1>4 DEF IInv, Rest

---------------------------------------------------------------------------
(* Type correctness.                                                       *)

\* Every step keeps the types.
LEMMA TypeStep == IInv /\ [Next]_vars => TypeOK'
<1> SUFFICES ASSUME IInv, [Next]_vars
             PROVE  TypeOK'
  OBVIOUS
<1>1. CASE Supervisor
  <2>1. CASE ConnectBegins
    BY <2>1, MaxFaultsIsNat DEF IInv, TypeOK, ConnectBegins, asterisk, tasks, rtp,
       halt, SetupSteps, CleanSteps, StopSteps
  <2>2. CASE ConnectSucceeds
    BY <2>2, MaxFaultsIsNat DEF IInv, TypeOK, ConnectSucceeds, asterisk, tasks, rtp,
       halt, SetupSteps, CleanSteps, StopSteps
  <2>3. CASE ConnectFails
    <3>1. faults' \in 0 .. MaxFaults
      BY <2>3, MaxFaultsIsNat DEF IInv, TypeOK, ConnectFails, Fault
    <3> QED
      BY <2>3, <3>1 DEF IInv, TypeOK, ConnectFails, MarkDisconnected, asterisk, tasks, rtp, halt
  <2>4. CASE BackoffEnds
    BY <2>4, MaxFaultsIsNat DEF IInv, TypeOK, BackoffEnds, asterisk, tasks, rtp, halt,
       SetupSteps, CleanSteps, StopSteps
  <2> QED
    BY <1>1, <2>1, <2>2, <2>3, <2>4 DEF Supervisor
<1>2. CASE LinkDrops
  BY <1>2, MaxFaultsIsNat DEF IInv, TypeOK, LinkDrops, Fault, MarkDisconnected, tasks,
     rtp, halt, SetupSteps, CleanSteps, StopSteps
<1>3. CASE StopBegins
  BY <1>3, MaxFaultsIsNat DEF IInv, TypeOK, StopBegins, Fault, asterisk, tasks, rtp,
     ari, SetupSteps, CleanSteps, StopSteps
<1>4. CASE Shutdown
  <2>1. CASE StopRtp
    BY <2>1, MaxFaultsIsNat DEF IInv, TypeOK, StopRtp, StopIsFree, asterisk, tasks,
       rtp, ari, SetupSteps, CleanSteps, StopSteps
  <2>2. CASE RtpStopped
    BY <2>2, MaxFaultsIsNat DEF IInv, TypeOK, RtpStopped, asterisk, tasks, ari,
       SetupSteps, CleanSteps, StopSteps
  <2>3. CASE Disconnect
    BY <2>3, MaxFaultsIsNat DEF IInv, TypeOK, Disconnect, tasks, rtp, SetupSteps,
       CleanSteps, StopSteps
  <2>4. CASE CancelListener
    BY <2>4, MaxFaultsIsNat DEF IInv, TypeOK, CancelListener, tasks, rtp, SetupSteps,
       CleanSteps, StopSteps
  <2> QED
    BY <1>4, <2>1, <2>2, <2>3, <2>4 DEF Shutdown
<1>5. ASSUME NEW c \in Ids,
             CallerArrives(c) \/ ChannelEnds(c) \/ RuntimeCloses(c) \/ StasisStart(c)
               \/ ChannelDestroyed(c) \/ PumpEnds(c) \/ StopTakes(c)
      PROVE  TypeOK'
  <2>1. CASE CallerArrives(c)
    BY <2>1, MaxFaultsIsNat DEF IInv, TypeOK, CallerArrives, Fresh, tasks, rtp, ari,
       halt, SetupSteps, CleanSteps, StopSteps
  <2>2. CASE ChannelEnds(c)
    BY <2>2, MaxFaultsIsNat DEF IInv, TypeOK, ChannelEnds, Ended, SetupSteps, tasks,
       rtp, ari, halt, SetupSteps, CleanSteps, StopSteps
  <2>3. CASE RuntimeCloses(c)
    BY <2>3, MaxFaultsIsNat DEF IInv, TypeOK, RuntimeCloses, asterisk, rtp, ari, halt,
       SetupSteps, CleanSteps, StopSteps
  <2>4. CASE StasisStart(c)
    BY <2>4, MaxFaultsIsNat DEF IInv, TypeOK, StasisStart, rtp, ari, halt, SetupSteps,
       CleanSteps, StopSteps
  <2>5. CASE ChannelDestroyed(c)
    BY <2>5, MaxFaultsIsNat DEF IInv, TypeOK, ChannelDestroyed, TakeOut, rtp, ari,
       halt, SetupSteps, CleanSteps, StopSteps
  <2>6. CASE PumpEnds(c)
    BY <2>6, MaxFaultsIsNat DEF IInv, TypeOK, PumpEnds, TakeOut, asterisk, rtp, ari,
       halt, SetupSteps, CleanSteps, StopSteps
  <2>7. CASE StopTakes(c)
    BY <2>7, MaxFaultsIsNat DEF IInv, TypeOK, StopTakes, TakeOut, StopIsFree,
       asterisk, rtp, ari, SetupSteps, CleanSteps, StopSteps
  <2> QED
    BY <1>5, <2>1, <2>2, <2>3, <2>4, <2>5, <2>6, <2>7
<1>6. ASSUME NEW c \in Ids, Setup(c)
      PROVE  TypeOK'
  <2>1. CASE AnswerRaises(c)
    BY <2>1, MaxFaultsIsNat DEF IInv, TypeOK, AnswerRaises, Fault, Misses, TakeOut,
       GiveUp, asterisk, rtp, ari, halt, SetupSteps, CleanSteps, StopSteps
  <2>2. CASE Allocate(c)
    BY <2>2, MaxFaultsIsNat DEF IInv, TypeOK, Allocate, Goes, RtpRunning, FreePorts,
       asterisk, ari, halt, SetupSteps, CleanSteps, StopSteps
  <2>3. CASE AllocateRaises(c)
    BY <2>3, MaxFaultsIsNat DEF IInv, TypeOK, AllocateRaises, TakeOut, GiveUp,
       RtpRunning, FreePorts, asterisk, rtp, ari, halt, SetupSteps, CleanSteps,
       StopSteps
  <2>4. CASE ExternalMedia(c)
    BY <2>4, MaxFaultsIsNat DEF IInv, TypeOK, ExternalMedia, Fault, Goes, Fresh, rtp,
       ari, halt, SetupSteps, CleanSteps, StopSteps
  <2>5. CASE MediaAnswered(c)
    BY <2>5, MaxFaultsIsNat DEF IInv, TypeOK, Rest, SetupKnown, MediaAnswered, Goes,
       asterisk, rtp, ari, halt, SetupSteps, CleanSteps, StopSteps
  <2>6. CASE MediaFails(c)
    BY <2>6, MaxFaultsIsNat DEF IInv, TypeOK, MediaFails, Fault, Misses, TakeOut,
       GiveUp, asterisk, rtp, ari, halt, SetupSteps, CleanSteps, StopSteps
  <2>7. CASE CreateBridge(c)
    BY <2>7, MaxFaultsIsNat DEF IInv, TypeOK, CreateBridge, Goes, rtp, ari, halt,
       SetupSteps, CleanSteps, StopSteps
  <2>8. CASE BridgeFails(c)
    BY <2>8, MaxFaultsIsNat DEF IInv, TypeOK, BridgeFails, Fault, Misses, TakeOut,
       GiveUp, rtp, ari, halt, SetupSteps, CleanSteps, StopSteps
  <2>9. CASE AddChannel(c)
    BY <2>9, MaxFaultsIsNat DEF IInv, TypeOK, AddChannel, Goes, asterisk, rtp, ari,
       halt, SetupSteps, CleanSteps, StopSteps
  <2>10. CASE AddFails(c)
    BY <2>10, MaxFaultsIsNat DEF IInv, TypeOK, AddFails, Fault, TakeOut, GiveUp,
       asterisk, rtp, ari, halt, SetupSteps, CleanSteps, StopSteps
  <2>11. CASE ConnectRuntime(c)
    BY <2>11, MaxFaultsIsNat DEF IInv, TypeOK, ConnectRuntime, Goes, asterisk, rtp,
       ari, halt, SetupSteps, CleanSteps, StopSteps
  <2>12. CASE RuntimeFails(c)
    BY <2>12, MaxFaultsIsNat DEF IInv, TypeOK, RuntimeFails, Fault, TakeOut, GiveUp,
       asterisk, rtp, ari, halt, SetupSteps, CleanSteps, StopSteps
  <2>13. CASE Attach(c)
    BY <2>13, MaxFaultsIsNat DEF IInv, TypeOK, Attach, TakeOut, GiveUp, Goes,
       asterisk, rtp, ari, halt, SetupSteps, CleanSteps, StopSteps
  <2>14. CASE BindFails(c)
    BY <2>14, MaxFaultsIsNat DEF IInv, TypeOK, BindFails, Fault, TakeOut, GiveUp,
       RtpRunning, FreePorts, asterisk, ari, halt, SetupSteps, CleanSteps, StopSteps
  <2> QED
    BY <1>6, <2>1, <2>2, <2>3, <2>4, <2>5, <2>6, <2>7, <2>8, <2>9, <2>10, <2>11,
       <2>12, <2>13, <2>14 DEF Setup
<1>7. ASSUME NEW c \in Ids, CleanUp(c)
      PROVE  TypeOK'
  <2>1. CASE StopAudio(c)
    BY <2>1, MaxFaultsIsNat DEF IInv, TypeOK, StopAudio, asterisk, rtp, ari, halt,
       SetupSteps, CleanSteps, StopSteps
  <2>2. CASE PopSession(c)
    BY <2>2, MaxFaultsIsNat DEF IInv, TypeOK, PopSession, asterisk, ari, halt,
       SetupSteps, CleanSteps, StopSteps
  <2>3. CASE CloseSocket(c)
    BY <2>3, MaxFaultsIsNat DEF IInv, TypeOK, CloseSocket, Released, asterisk, ari,
       halt, SetupSteps, CleanSteps, StopSteps
  <2>4. CASE LetGo(c)
    BY <2>4, MaxFaultsIsNat DEF IInv, TypeOK, LetGo, Fault, Ended, rtp, ari, halt,
       SetupSteps, CleanSteps, StopSteps
  <2> QED
    BY <1>7, <2>1, <2>2, <2>3, <2>4 DEF CleanUp
<1>8. CASE UNCHANGED vars
  BY <1>8 DEF IInv, TypeOK, vars, asterisk, tasks, rtp, ari, halt
<1> QED
  BY <1>1, <1>2, <1>3, <1>4, <1>5, <1>6, <1>7, <1>8 DEF Next

---------------------------------------------------------------------------
(* The other parts.                                                        *)

\* They are about the bridge's tasks and its RTP server.
LEMMA Aside ==
  ASSUME Rest, UNCHANGED <<tasks, rtp>>, RtpRunning' => RtpRunning
  PROVE  Rest'
  BY DEF Rest, tasks, rtp, Accounted, PortsExclusive, SetupKnown, NotRegistered,
     HoldsOnePort, TakenOut, Pumps, SomeoneInCharge

\* Every step keeps the other parts.
LEMMA RestStep == IInv /\ [Next]_vars => Rest'
<1> SUFFICES ASSUME IInv, [Next]_vars
             PROVE  Rest'
  OBVIOUS
<1>1. CASE Supervisor
  <2>1. CASE ConnectBegins
    BY <2>1, Aside DEF IInv, ConnectBegins, RtpRunning, halt
  <2>2. CASE ConnectSucceeds
    BY <2>2, Aside DEF IInv, ConnectSucceeds, RtpRunning, halt
  <2>3. CASE ConnectFails
    BY <2>3, Aside DEF IInv, ConnectFails, RtpRunning, halt
  <2>4. CASE BackoffEnds
    BY <2>4, Aside DEF IInv, BackoffEnds, RtpRunning, halt
  <2> QED
    BY <1>1, <2>1, <2>2, <2>3, <2>4 DEF Supervisor
<1>2. CASE LinkDrops
  BY <1>2, Aside DEF IInv, LinkDrops, RtpRunning, halt
<1>3. CASE StopBegins
  BY <1>3, Aside DEF IInv, StopBegins, RtpRunning
<1>4. CASE Shutdown
  <2>1. CASE StopRtp
    BY <2>1, Aside DEF IInv, StopRtp, RtpRunning, StopIsFree
  <2>2. CASE RtpStopped
    BY <2>2, NoneIsNeither DEF IInv, Rest, TypeOK, PortsExclusive, SetupKnown,
       NotRegistered, HoldsOnePort, TakenOut, Pumps, SomeoneInCharge, Accounted,
       RtpStopped, asterisk, tasks, ari, RtpRunning, SetupSteps, CleanSteps, Ids
  <2>3. CASE Disconnect
    BY <2>3, Aside DEF IInv, Disconnect, RtpRunning
  <2>4. CASE CancelListener
    BY <2>4, Aside DEF IInv, CancelListener, RtpRunning
  <2> QED
    BY <1>4, <2>1, <2>2, <2>3, <2>4 DEF Shutdown
<1>5. ASSUME NEW c \in Ids,
             CallerArrives(c) \/ ChannelEnds(c) \/ RuntimeCloses(c) \/ StasisStart(c)
               \/ ChannelDestroyed(c) \/ PumpEnds(c) \/ StopTakes(c)
      PROVE  Rest'
  <2>1. CASE CallerArrives(c)
    BY <2>1, Aside DEF IInv, CallerArrives, RtpRunning, halt
  <2>2. CASE ChannelEnds(c)
    BY <2>2, Aside DEF IInv, ChannelEnds, RtpRunning, halt
  <2>3. CASE RuntimeCloses(c)
    BY <2>3, NoneIsNeither DEF IInv, Rest, TypeOK, PortsExclusive, SetupKnown,
       NotRegistered, HoldsOnePort, TakenOut, Pumps, SomeoneInCharge, Accounted,
       RuntimeCloses, asterisk, rtp, ari, halt, RtpRunning, SetupSteps, CleanSteps,
       Ids
  <2>4. CASE StasisStart(c)
    BY <2>4, NoneIsNeither DEF IInv, Rest, TypeOK, PortsExclusive, SetupKnown,
       NotRegistered, HoldsOnePort, TakenOut, Pumps, SomeoneInCharge, Accounted,
       StasisStart, rtp, ari, halt, RtpRunning, SetupSteps, CleanSteps, Ids
  <2>5. CASE ChannelDestroyed(c)
    BY <2>5, NoneIsNeither DEF IInv, Rest, TypeOK, PortsExclusive, SetupKnown,
       NotRegistered, HoldsOnePort, TakenOut, Pumps, SomeoneInCharge, Accounted,
       ChannelDestroyed, TakeOut, rtp, ari, halt, RtpRunning, SetupSteps, CleanSteps,
       Ids
  <2>6. CASE PumpEnds(c)
    BY <2>6, NoneIsNeither DEF IInv, Rest, TypeOK, PortsExclusive, SetupKnown,
       NotRegistered, HoldsOnePort, TakenOut, Pumps, SomeoneInCharge, Accounted,
       PumpEnds, TakeOut, asterisk, rtp, ari, halt, RtpRunning, SetupSteps,
       CleanSteps, Ids
  <2>7. CASE StopTakes(c)
    BY <2>7, NoneIsNeither DEF IInv, Rest, TypeOK, PortsExclusive, SetupKnown,
       NotRegistered, HoldsOnePort, TakenOut, Pumps, SomeoneInCharge, Accounted,
       StopTakes, TakeOut, StopIsFree, asterisk, rtp, ari, RtpRunning, SetupSteps,
       CleanSteps, Ids
  <2> QED
    BY <1>5, <2>1, <2>2, <2>3, <2>4, <2>5, <2>6, <2>7
<1>6. ASSUME NEW c \in Ids, Setup(c)
      PROVE  Rest'
  <2>1. CASE AnswerRaises(c)
    BY <2>1, NoneIsNeither DEF IInv, Rest, TypeOK, PortsExclusive, SetupKnown,
       NotRegistered, HoldsOnePort, TakenOut, Pumps, SomeoneInCharge, Accounted,
       AnswerRaises, TakeOut, GiveUp, asterisk, rtp, ari, halt, RtpRunning,
       SetupSteps, CleanSteps, Ids
  <2>2. CASE Allocate(c)
    BY <2>2, NoneIsNeither DEF IInv, Rest, TypeOK, PortsExclusive, SetupKnown,
       NotRegistered, HoldsOnePort, TakenOut, Pumps, SomeoneInCharge, Accounted,
       Allocate, Goes, FreePorts, asterisk, ari, halt, RtpRunning, SetupSteps,
       CleanSteps, Ids
  <2>3. CASE AllocateRaises(c)
    BY <2>3, NoneIsNeither DEF IInv, Rest, TypeOK, PortsExclusive, SetupKnown,
       NotRegistered, HoldsOnePort, TakenOut, Pumps, SomeoneInCharge, Accounted,
       AllocateRaises, TakeOut, GiveUp, FreePorts, asterisk, rtp, ari, halt,
       RtpRunning, SetupSteps, CleanSteps, Ids
  <2>4. CASE ExternalMedia(c)
    <3>1. PortsExclusive'
      BY <2>4 DEF IInv, Rest, TypeOK, PortsExclusive, ExternalMedia, Goes, rtp, ari,
         halt, RtpRunning, CleanSteps, SetupSteps
    <3>2. SetupKnown'
      BY <2>4 DEF IInv, Rest, TypeOK, SetupKnown, ExternalMedia, Goes, rtp, ari, halt,
         CleanSteps, SetupSteps
    <3>3. NotRegistered'
      BY <2>4 DEF IInv, Rest, TypeOK, NotRegistered, ExternalMedia, Goes, rtp, ari,
         halt, CleanSteps, SetupSteps
    <3>4. HoldsOnePort'
      BY <2>4 DEF IInv, Rest, TypeOK, HoldsOnePort, Accounted, ExternalMedia, Goes,
         rtp, ari, halt, CleanSteps, SetupSteps
    <3>5. TakenOut'
      BY <2>4 DEF IInv, Rest, TypeOK, TakenOut, ExternalMedia, Goes, rtp, ari, halt,
         CleanSteps, SetupSteps
    <3>6. Pumps'
      BY <2>4 DEF IInv, Rest, TypeOK, Pumps, SomeoneInCharge, ExternalMedia, Goes,
         rtp, ari, halt, CleanSteps, SetupSteps
    <3>7. SomeoneInCharge'
      BY <2>4 DEF IInv, Rest, TypeOK, SomeoneInCharge, ExternalMedia, Goes, rtp, ari,
         halt, CleanSteps, SetupSteps
    <3> QED
      BY <3>1, <3>2, <3>3, <3>4, <3>5, <3>6, <3>7 DEF Rest
  <2>5. CASE MediaAnswered(c)
    BY <2>5, NoneIsNeither DEF IInv, Rest, TypeOK, PortsExclusive, SetupKnown,
       NotRegistered, HoldsOnePort, TakenOut, Pumps, SomeoneInCharge, Accounted,
       MediaAnswered, Goes, asterisk, rtp, ari, halt, RtpRunning, SetupSteps,
       CleanSteps, Ids
  <2>6. CASE MediaFails(c)
    BY <2>6, NoneIsNeither DEF IInv, Rest, TypeOK, PortsExclusive, SetupKnown,
       NotRegistered, HoldsOnePort, TakenOut, Pumps, SomeoneInCharge, Accounted,
       MediaFails, TakeOut, GiveUp, asterisk, rtp, ari, halt, RtpRunning, SetupSteps,
       CleanSteps, Ids
  <2>7. CASE CreateBridge(c)
    BY <2>7, NoneIsNeither DEF IInv, Rest, TypeOK, PortsExclusive, SetupKnown,
       NotRegistered, HoldsOnePort, TakenOut, Pumps, SomeoneInCharge, Accounted,
       CreateBridge, Goes, rtp, ari, halt, RtpRunning, SetupSteps, CleanSteps, Ids
  <2>8. CASE BridgeFails(c)
    BY <2>8, NoneIsNeither DEF IInv, Rest, TypeOK, PortsExclusive, SetupKnown,
       NotRegistered, HoldsOnePort, TakenOut, Pumps, SomeoneInCharge, Accounted,
       BridgeFails, TakeOut, GiveUp, rtp, ari, halt, RtpRunning, SetupSteps,
       CleanSteps, Ids
  <2>9. CASE AddChannel(c)
    BY <2>9, NoneIsNeither DEF IInv, Rest, TypeOK, PortsExclusive, SetupKnown,
       NotRegistered, HoldsOnePort, TakenOut, Pumps, SomeoneInCharge, Accounted,
       AddChannel, Goes, asterisk, rtp, ari, halt, RtpRunning, SetupSteps, CleanSteps,
       Ids
  <2>10. CASE AddFails(c)
    BY <2>10, NoneIsNeither DEF IInv, Rest, TypeOK, PortsExclusive, SetupKnown,
       NotRegistered, HoldsOnePort, TakenOut, Pumps, SomeoneInCharge, Accounted,
       AddFails, TakeOut, GiveUp, asterisk, rtp, ari, halt, RtpRunning, SetupSteps,
       CleanSteps, Ids
  <2>11. CASE ConnectRuntime(c)
    BY <2>11, NoneIsNeither DEF IInv, Rest, TypeOK, PortsExclusive, SetupKnown,
       NotRegistered, HoldsOnePort, TakenOut, Pumps, SomeoneInCharge, Accounted,
       ConnectRuntime, Goes, asterisk, rtp, ari, halt, RtpRunning, SetupSteps,
       CleanSteps, Ids
  <2>12. CASE RuntimeFails(c)
    BY <2>12, NoneIsNeither DEF IInv, Rest, TypeOK, PortsExclusive, SetupKnown,
       NotRegistered, HoldsOnePort, TakenOut, Pumps, SomeoneInCharge, Accounted,
       RuntimeFails, TakeOut, GiveUp, asterisk, rtp, ari, halt, RtpRunning,
       SetupSteps, CleanSteps, Ids
  <2>13. CASE Attach(c)
    <3>1. PortsExclusive'
      BY <2>13 DEF IInv, Rest, TypeOK, PortsExclusive, TakenOut, NotRegistered,
         Attach, TakeOut, GiveUp, Goes, asterisk, rtp, ari, halt, RtpRunning,
         CleanSteps, SetupSteps
    <3>2. SetupKnown'
      BY <2>13 DEF IInv, Rest, TypeOK, SetupKnown, TakenOut, NotRegistered, Attach,
         TakeOut, GiveUp, Goes, asterisk, rtp, ari, halt, CleanSteps, SetupSteps
    <3>3. NotRegistered'
      BY <2>13 DEF IInv, Rest, TypeOK, NotRegistered, Attach, TakeOut, GiveUp, Goes,
         asterisk, rtp, ari, halt, CleanSteps, SetupSteps
    <3>4. HoldsOnePort'
      BY <2>13 DEF IInv, Rest, TypeOK, HoldsOnePort, TakenOut, NotRegistered,
         Accounted, Attach, TakeOut, GiveUp, Goes, asterisk, rtp, ari, halt,
         CleanSteps, SetupSteps
    <3>5. TakenOut'
      BY <2>13 DEF IInv, Rest, TypeOK, TakenOut, Attach, TakeOut, GiveUp, Goes,
         asterisk, rtp, ari, halt, CleanSteps, SetupSteps
    <3>6. Pumps'
      BY <2>13 DEF IInv, Rest, TypeOK, Pumps, TakenOut, NotRegistered,
         SomeoneInCharge, Attach, TakeOut, GiveUp, Goes, asterisk, rtp, ari, halt,
         CleanSteps, SetupSteps
    <3>7. SomeoneInCharge'
      BY <2>13 DEF IInv, Rest, TypeOK, SomeoneInCharge, TakenOut, NotRegistered,
         Attach, TakeOut, GiveUp, Goes, asterisk, rtp, ari, halt, CleanSteps,
         SetupSteps
    <3> QED
      BY <3>1, <3>2, <3>3, <3>4, <3>5, <3>6, <3>7 DEF Rest
  <2>14. CASE BindFails(c)
    BY <2>14, NoneIsNeither DEF IInv, Rest, TypeOK, PortsExclusive, SetupKnown,
       NotRegistered, HoldsOnePort, TakenOut, Pumps, SomeoneInCharge, Accounted,
       BindFails, TakeOut, GiveUp, FreePorts, asterisk, ari, halt, RtpRunning,
       SetupSteps, CleanSteps, Ids
  <2> QED
    BY <1>6, <2>1, <2>2, <2>3, <2>4, <2>5, <2>6, <2>7, <2>8, <2>9, <2>10, <2>11,
       <2>12, <2>13, <2>14 DEF Setup
<1>7. ASSUME NEW c \in Ids, CleanUp(c)
      PROVE  Rest'
  <2>1. CASE StopAudio(c)
    BY <2>1, NoneIsNeither DEF IInv, Rest, TypeOK, PortsExclusive, SetupKnown,
       NotRegistered, HoldsOnePort, TakenOut, Pumps, SomeoneInCharge, Accounted,
       StopAudio, asterisk, rtp, ari, halt, RtpRunning, SetupSteps, CleanSteps, Ids
  <2>2. CASE PopSession(c)
    BY <2>2, NoneIsNeither DEF IInv, Rest, TypeOK, PortsExclusive, SetupKnown,
       NotRegistered, HoldsOnePort, TakenOut, Pumps, SomeoneInCharge, Accounted,
       PopSession, asterisk, ari, halt, RtpRunning, SetupSteps, CleanSteps, Ids
  <2>3. CASE CloseSocket(c)
    BY <2>3, NoneIsNeither DEF IInv, Rest, TypeOK, PortsExclusive, SetupKnown,
       NotRegistered, HoldsOnePort, TakenOut, Pumps, SomeoneInCharge, Accounted,
       CloseSocket, Released, asterisk, ari, halt, RtpRunning, SetupSteps, CleanSteps,
       Ids
  <2>4. CASE LetGo(c)
    BY <2>4, NoneIsNeither DEF IInv, Rest, TypeOK, PortsExclusive, SetupKnown,
       NotRegistered, HoldsOnePort, TakenOut, Pumps, SomeoneInCharge, Accounted,
       LetGo, rtp, ari, halt, RtpRunning, SetupSteps, CleanSteps, Ids
  <2> QED
    BY <1>7, <2>1, <2>2, <2>3, <2>4 DEF CleanUp
<1>8. CASE UNCHANGED vars
  BY <1>8, Aside DEF IInv, vars, RtpRunning, halt
<1> QED
  BY <1>1, <1>2, <1>3, <1>4, <1>5, <1>6, <1>7, <1>8 DEF Next

---------------------------------------------------------------------------
(* The theorems.                                                           *)

\* The invariant holds at all times.
LEMMA Invariance == Spec => []IInv
<1>1. IInv /\ [Next]_vars => IInv'
  BY TypeStep, RestStep DEF IInv
<1> QED
  BY InitIInv, <1>1, PTL DEF Spec

\* Type correctness: of calls, ports, tasks and the listener.
THEOREM TypeCorrect == Spec => []TypeOK
  BY Invariance, PTL DEF IInv

\* No two calls of the RTP server ever have a socket on the same port.
THEOREM PortsAreExclusive == Spec => []PortsExclusive
  BY Invariance, PTL DEF IInv, Rest

\* A call that has been cleaned up holds nothing of the bridge any more.
THEOREM CleanUpIsWhole == Spec => []CleanedUp
<1>1. IInv => CleanedUp
  BY NoneIsNeither DEF IInv, Rest, TypeOK, HoldsOnePort, Accounted, TakenOut, Pumps, SomeoneInCharge,
     CleanedUp, CleanSteps
<1> QED
  BY Invariance, <1>1, PTL

\* Every registered call has a task that will take it out.
THEOREM SomeoneIsInCharge == Spec => []SomeoneInCharge
  BY Invariance, PTL DEF IInv, Rest
=============================================================================
