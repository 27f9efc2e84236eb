-------------------------- MODULE ConferenceProofs --------------------------
(***************************************************************************)
(* Proofs about Conference, for every room, client, set of participants,   *)
(* of candidates and of labels: the types, and the safety properties, from *)
(* one inductive invariant; and about ConferenceSystem, the client with    *)
(* its server, for any finite set of participants.                         *)
(***************************************************************************)
EXTENDS ConferenceSystem, FiniteSetTheorems, TLAPS

USE DEF session, socket, peers, trackers, server, vars

(***************************************************************************)
(* What the properties rest on and do not say themselves.                  *)
(***************************************************************************)
InCall == phase \in {"running", "leaving"}

(* A server without an open connection to a client in the conference holds *)
(* none of its requests, and before the connection opens no other          *)
(* participant's stream is marked.                                         *)
NoRequestsOffline ==
    InCall => /\ ws # "open" => told = {}
              /\ ws = "connecting" => sendPlay \cap Others = {}

(* The trackers stay clear from the moment cleanupResources clears them,   *)
(* not only once Stop has returned.                                        *)
ClearedSinceLeaving ==
    phase \in {"idle", "clearing"} =>
        /\ pcs = {} /\ isPublisher = {}
        /\ localDataChannels = {} /\ remoteDataChannels = {}
        /\ pendingCandidates = NoPending
        /\ sendPlay \subseteq {Room}

(* A client plays its own stream never. *)
OwnStreamNotPlayed == Play(Self) \notin told

(* Between two sessions there is no socket and no handler runs; between    *)
(* the two parts of onConnected nothing was asked yet, and between those   *)
(* of play_finished for the room the room is not marked.                   *)
HandlerPlaces ==
    /\ phase = "idle" => ws = "none" /\ wsAt = "idle"
    /\ wsAt = "join" => told = {}
    /\ wsAt = "replay" /\ InCall => Room \notin sendPlay

IInv ==
    /\ TypeOK
    /\ PublisherReady
    /\ NoStrandedCandidates
    /\ MarksMatchRequests
    /\ NoRequestsOffline
    /\ ClearedSinceLeaving
    /\ HandlerPlaces
    /\ OwnStreamNotPlayed

-----------------------------------------------------------------------------
(* A new connection, of either role. *)
LEMMA NewPcType ==
    /\ NewPc \in PcState
    /\ \A m \in BOOLEAN : [NewPc EXCEPT !.media = m] \in PcState
    /\ NoPeers \in [Streams -> PcState]
    /\ NoPending \in [Streams -> SUBSET Cands]
  BY DEF NewPc, PcState, SigStates, NoPeers, NoPending

(* A connection object stays one whatever is called on it, keeps its local *)
(* tracks, and knows the remote description it accepted.                   *)
LEMMA PcOperators ==
    ASSUME NEW p \in PcState, NEW type \in SdpTypes
    PROVE  /\ AfterRemote(p, type) \in PcState
           /\ AfterRemote(p, type).media = p.media
           /\ \A q \in AfterLocalAnswer(p) : q \in PcState /\ q.media = p.media
           /\ \A q \in AfterLocalOffer(p) :
                 q \in PcState /\ q.media = p.media /\ q.remote = p.remote
  BY DEF PcState, SigStates, SdpTypes, NewPc, AfterRemote, AfterLocalAnswer,
         AfterLocalOffer

LEMMA RequestTypes ==
    /\ Join \in Requests
    /\ \A m \in BOOLEAN : Publish(m) \in Requests
    /\ \A s \in Streams : Play(s) \in Requests
    /\ Self \in Streams /\ Room \in Streams /\ Others \subseteq Streams
  BY DEF Requests, Streams

-----------------------------------------------------------------------------
(* Type correctness: every variable of the client keeps its type in every  *)
(* session, whatever the server and the connections do.                    *)
LEMMA InitTypeOK == Init => TypeOK
  BY NewPcType DEF Init, TypeOK

LEMMA NextTypeOK == TypeOK /\ [Next]_vars => TypeOK'
<1> SUFFICES ASSUME TypeOK, [Next]_vars PROVE TypeOK'
  OBVIOUS
<1> USE RequestTypes, ConstantsAssumption DEF TypeOK
<1>1. CASE Api
  <2>1. ASSUME NEW isPlayer \in BOOLEAN, StartConnects(isPlayer) PROVE TypeOK'
    BY <2>1, NewPcType DEF StartConnects, SetupPublishPeer
  <2>2. ASSUME NEW isPlayer \in BOOLEAN, StartFails(isPlayer) PROVE TypeOK'
    BY <2>2, NewPcType DEF StartFails, ClearedTrackers
  <2>3. CASE LeaveConference
    BY <2>3 DEF LeaveConference
  <2>4. CASE ClearTrackers
    BY <2>4, NewPcType DEF ClearTrackers, ClearedTrackers
  <2>5. CASE CloseSignaling
    BY <2>5 DEF CloseSignaling
  <2> QED BY <1>1, <2>1, <2>2, <2>3, <2>4, <2>5 DEF Api
<1>2. CASE Signaling
  <2>1. CASE WsOpened
    BY <2>1, NewPcType DEF WsOpened, SetupPublishPeer
  <2>2. CASE SendJoinRoom
    BY <2>2 DEF SendJoinRoom, Sends
  <2>3. CASE WsDrops
    BY <2>3 DEF WsDrops
  <2>4. CASE OnClosed
    BY <2>4 DEF OnClosed
  <2>5. CASE HandlerBlocks
    BY <2>5 DEF HandlerBlocks
  <2>6. ASSUME NEW s \in Streams, NEW type \in SdpTypes, RemoteSDPAccepted(s, type)
        PROVE  TypeOK'
    <3>1. WithPeer(s) \in [Streams -> PcState]
      BY NewPcType DEF WithPeer
    <3>2. AfterRemote(WithPeer(s)[s], type) \in PcState
      BY <3>1, PcOperators
    <3>3. pc' \in [Streams -> PcState]
      BY <2>6, <3>2, PcOperators DEF RemoteSDPAccepted
    <3> QED BY <2>6, <3>3 DEF RemoteSDPAccepted, CreatePeerIfNotExist
  <2>7. ASSUME NEW s \in Streams, RemoteSDPRejected(s) PROVE TypeOK'
    BY <2>7, NewPcType DEF RemoteSDPRejected, CreatePeerIfNotExist, WithPeer
  <2>8. ASSUME NEW s \in Streams, StartOffer(s) PROVE TypeOK'
    <3>1. pc' \in [Streams -> PcState]
      BY <2>8, PcOperators DEF StartOffer, SdpTypes
    <3> QED BY <2>8, <3>1 DEF StartOffer
  <2>9. ASSUME NEW s \in Streams, NEW c \in Cands, AddRemoteCandidate(s, c)
        PROVE  TypeOK'
    BY <2>9 DEF AddRemoteCandidate
  <2>10. CASE JoinedTheRoom
    BY <2>10 DEF JoinedTheRoom, Sends
  <2>11. CASE PublishStarted
    BY <2>11 DEF PublishStarted, Sends
  <2>12. ASSUME NEW s \in Streams \ {Self}, PlayFinished(s) PROVE TypeOK'
    BY <2>12, NewPcType DEF PlayFinished, RemovePeerIfNotExist
  <2>13. CASE SendPlayRoomAgain
    BY <2>13 DEF SendPlayRoomAgain, Sends
  <2>14. ASSUME NEW s \in Streams \ {Room}, SubtrackAdded(s) PROVE TypeOK'
    BY <2>14 DEF SubtrackAdded, Sends
  <2>15. ASSUME NEW s \in Streams \ {Room}, SubtrackRemoved(s) PROVE TypeOK'
    BY <2>15 DEF SubtrackRemoved
  <2> QED BY <1>2, <2>1, <2>2, <2>3, <2>4, <2>5, <2>6, <2>7, <2>8, <2>9, <2>10,
             <2>11, <2>12, <2>13, <2>14, <2>15 DEF Signaling
<1>3. CASE PeerEvents
  <2>1. ASSUME NEW s \in Streams, NEW label \in DcLabels, DataChannelDetected(s, label)
        PROVE  TypeOK'
    BY <2>1 DEF DataChannelDetected
  <2>2. ASSUME NEW s \in Streams, PeerCloses(s) PROVE TypeOK'
    BY <2>2 DEF PeerCloses, PcState
  <2> QED BY <1>3, <2>1, <2>2 DEF PeerEvents
<1>4. CASE UNCHANGED vars
  BY <1>4
<1> QED BY <1>1, <1>2, <1>3, <1>4 DEF Next

THEOREM TypeCorrect == Spec => []TypeOK
  BY InitTypeOK, NextTypeOK, PTL DEF Spec

-----------------------------------------------------------------------------
(* The inductive invariant *)

LEMMA InitIInv == Init => IInv
<1> SUFFICES ASSUME Init PROVE IInv
  OBVIOUS
<1>1. TypeOK
  BY InitTypeOK
<1>2. PublisherReady /\ NoRequestsOffline /\ MarksMatchRequests
  BY DEF Init, PublisherReady, NoRequestsOffline, MarksMatchRequests, InCall
<1>3. NoStrandedCandidates /\ ClearedSinceLeaving /\ HandlerPlaces
  BY DEF Init, NoStrandedCandidates, ClearedSinceLeaving, HandlerPlaces
<1>4. OwnStreamNotPlayed
  BY DEF Init, OwnStreamNotPlayed
<1> QED BY <1>1, <1>2, <1>3, <1>4 DEF IInv

(* The publisher's connection: only Start and onConnected make it, and no  *)
(* play_finished names the client's own stream.                            *)
LEMMA NextPublisherReady == IInv /\ [Next]_vars => PublisherReady'
<1> SUFFICES ASSUME IInv, [Next]_vars PROVE PublisherReady'
  OBVIOUS
<1> USE DEF IInv, TypeOK, PublisherReady
<1> USE RequestTypes, ConstantsAssumption
<1>1. CASE Api
  <2>1. ASSUME NEW isPlayer \in BOOLEAN, StartConnects(isPlayer) PROVE PublisherReady'
    BY <2>1 DEF StartConnects, SetupPublishPeer, ClearedSinceLeaving, NewPc
  <2>2. ASSUME NEW isPlayer \in BOOLEAN, StartFails(isPlayer) PROVE PublisherReady'
    BY <2>2 DEF StartFails
  <2>3. CASE LeaveConference
    BY <2>3 DEF LeaveConference
  <2>4. CASE ClearTrackers
    BY <2>4 DEF ClearTrackers
  <2>5. CASE CloseSignaling
    BY <2>5 DEF CloseSignaling
  <2> QED BY <1>1, <2>1, <2>2, <2>3, <2>4, <2>5 DEF Api
<1>2. CASE Signaling
  <2>1. CASE WsOpened
    BY <2>1 DEF WsOpened, SetupPublishPeer
  <2>2. CASE SendJoinRoom \/ WsDrops \/ OnClosed \/ HandlerBlocks \/ JoinedTheRoom
    BY <2>2 DEF SendJoinRoom, WsDrops, OnClosed, HandlerBlocks, JoinedTheRoom
  <2>3. ASSUME NEW s \in Streams, NEW type \in SdpTypes, RemoteSDPAccepted(s, type)
        PROVE  PublisherReady'
    <3>1. CASE phase \in {"running", "leaving"}
      <4>1. Self \in pcs' \cap isPublisher' \cap localDataChannels'
        BY <2>3, <3>1 DEF RemoteSDPAccepted, CreatePeerIfNotExist
      <4>2. pc'[Self].media = pc[Self].media
        <5>1. CASE s = Self
          <6>1. WithPeer(s)[s] = pc[s] /\ pc[s] \in PcState
            BY <5>1, <3>1 DEF WithPeer
          <6> QED BY <6>1, <5>1, <2>3, PcOperators DEF RemoteSDPAccepted
        <5>2. CASE s # Self
          BY <5>2, <2>3 DEF RemoteSDPAccepted
        <5> QED BY <5>1, <5>2
      <4> QED BY <4>1, <4>2, <3>1, <2>3 DEF RemoteSDPAccepted
    <3> QED BY <3>1, <2>3 DEF RemoteSDPAccepted, DeliversLocked
  <2>4. ASSUME NEW s \in Streams, RemoteSDPRejected(s) PROVE PublisherReady'
    BY <2>4 DEF RemoteSDPRejected, CreatePeerIfNotExist, WithPeer, DeliversLocked
  <2>5. ASSUME NEW s \in Streams, StartOffer(s) PROVE PublisherReady'
    <3>1. pc'[Self].media = pc[Self].media
      <4>1. pc[s] \in PcState
        OBVIOUS
      <4> QED BY <4>1, <2>5, PcOperators DEF StartOffer, SdpTypes
    <3> QED BY <3>1, <2>5 DEF StartOffer
  <2>6. ASSUME NEW s \in Streams, NEW c \in Cands, AddRemoteCandidate(s, c)
        PROVE  PublisherReady'
    BY <2>6 DEF AddRemoteCandidate
  <2>7. CASE PublishStarted \/ SendPlayRoomAgain
    BY <2>7 DEF PublishStarted, SendPlayRoomAgain
  <2>8. ASSUME NEW s \in Streams \ {Self}, PlayFinished(s) PROVE PublisherReady'
    BY <2>8 DEF PlayFinished, RemovePeerIfNotExist
  <2>9. ASSUME NEW s \in Streams \ {Room}, SubtrackAdded(s) \/ SubtrackRemoved(s)
        PROVE  PublisherReady'
    BY <2>9 DEF SubtrackAdded, SubtrackRemoved
  <2> QED BY <1>2, <2>1, <2>2, <2>3, <2>4, <2>5, <2>6, <2>7, <2>8, <2>9 DEF Signaling
<1>3. CASE PeerEvents
  <2>1. ASSUME NEW s \in Streams, NEW label \in DcLabels, DataChannelDetected(s, label)
        PROVE  PublisherReady'
    BY <2>1 DEF DataChannelDetected
  <2>2. ASSUME NEW s \in Streams, PeerCloses(s) PROVE PublisherReady'
    BY <2>2 DEF PeerCloses, PcState
  <2> QED BY <1>3, <2>1, <2>2 DEF PeerEvents
<1>4. CASE UNCHANGED vars
  BY <1>4
<1> QED BY <1>1, <1>2, <1>3, <1>4 DEF Next

(* Candidates: they are kept only for a stream without a connection, and   *)
(* the description that a connection accepts takes them along.             *)
LEMMA NextNoStrandedCandidates == IInv /\ [Next]_vars => NoStrandedCandidates'
<1> SUFFICES ASSUME IInv, [Next]_vars PROVE NoStrandedCandidates'
  OBVIOUS
<1> USE DEF IInv, TypeOK, NoStrandedCandidates
<1> USE RequestTypes
<1>1. CASE Api
  <2>1. ASSUME NEW isPlayer \in BOOLEAN, StartConnects(isPlayer)
        PROVE  NoStrandedCandidates'
    BY <2>1, NewPcType DEF StartConnects, SetupPublishPeer, NewPc, PcState
  <2>2. ASSUME NEW isPlayer \in BOOLEAN, StartFails(isPlayer)
        PROVE  NoStrandedCandidates'
    BY <2>2 DEF StartFails, ClearedTrackers
  <2>3. CASE LeaveConference \/ CloseSignaling
    BY <2>3 DEF LeaveConference, CloseSignaling
  <2>4. CASE ClearTrackers
    BY <2>4 DEF ClearTrackers, ClearedTrackers
  <2> QED BY <1>1, <2>1, <2>2, <2>3, <2>4 DEF Api
<1>2. CASE Signaling
  <2>1. CASE WsOpened
    BY <2>1 DEF WsOpened, SetupPublishPeer, PublisherReady
  <2>2. CASE SendJoinRoom \/ WsDrops \/ OnClosed \/ HandlerBlocks \/ JoinedTheRoom
    BY <2>2 DEF SendJoinRoom, WsDrops, OnClosed, HandlerBlocks, JoinedTheRoom
  <2>3. ASSUME NEW s \in Streams, NEW type \in SdpTypes, RemoteSDPAccepted(s, type)
        PROVE  NoStrandedCandidates'
    BY <2>3 DEF RemoteSDPAccepted, CreatePeerIfNotExist
  <2>4. ASSUME NEW s \in Streams, RemoteSDPRejected(s) PROVE NoStrandedCandidates'
    BY <2>4 DEF RemoteSDPRejected, CreatePeerIfNotExist, WithPeer, NewPc
  <2>5. ASSUME NEW s \in Streams, StartOffer(s) PROVE NoStrandedCandidates'
    <3>1. pc[s] \in PcState
      OBVIOUS
    <3>2. pc'[s].remote = pc[s].remote
      BY <3>1, <2>5, PcOperators DEF StartOffer, SdpTypes
    <3> QED BY <3>2, <2>5 DEF StartOffer
  <2>6. ASSUME NEW s \in Streams, NEW c \in Cands, AddRemoteCandidate(s, c)
        PROVE  NoStrandedCandidates'
    BY <2>6 DEF AddRemoteCandidate
  <2>7. CASE PublishStarted \/ SendPlayRoomAgain
    BY <2>7 DEF PublishStarted, SendPlayRoomAgain
  <2>8. ASSUME NEW s \in Streams \ {Self}, PlayFinished(s) PROVE NoStrandedCandidates'
    BY <2>8 DEF PlayFinished, RemovePeerIfNotExist
  <2>9. ASSUME NEW s \in Streams \ {Room}, SubtrackAdded(s) \/ SubtrackRemoved(s)
        PROVE  NoStrandedCandidates'
    BY <2>9 DEF SubtrackAdded, SubtrackRemoved
  <2> QED BY <1>2, <2>1, <2>2, <2>3, <2>4, <2>5, <2>6, <2>7, <2>8, <2>9 DEF Signaling
<1>3. CASE PeerEvents
  <2>1. ASSUME NEW s \in Streams, NEW label \in DcLabels, DataChannelDetected(s, label)
        PROVE  NoStrandedCandidates'
    BY <2>1 DEF DataChannelDetected
  <2>2. ASSUME NEW s \in Streams, PeerCloses(s) PROVE NoStrandedCandidates'
    BY <2>2 DEF PeerCloses, PcState
  <2> QED BY <1>3, <2>1, <2>2 DEF PeerEvents
<1>4. CASE UNCHANGED vars
  BY <1>4
<1> QED BY <1>1, <1>2, <1>3, <1>4 DEF Next

(* No two of the requests are the same. *)
LEMMA RequestsDiffer ==
    /\ \A s : Play(s) # Join
    /\ \A s, m : Play(s) # Publish(m)
    /\ \A s, t : Play(s) = Play(t) => s = t
    /\ \A o \in Others : Play(o) \notin OwnRequests
<1>1. /\ \A s : Play(s) # Join
      /\ \A s, t : Play(s) = Play(t) => s = t
  BY DEF Play, Join
<1>2. \A s, m : Play(s) # Publish(m)
  BY DEF Play, Publish
<1> QED BY <1>1, <1>2, ConstantsAssumption DEF OwnRequests

(* Marks and requests: a mark and its request are made by one handler and  *)
(* ended by one handler; the leave commands touch no other participant.    *)
LEMMA NextMarks == IInv /\ [Next]_vars => (MarksMatchRequests /\ NoRequestsOffline)'
<1> DEFINE Marks == MarksMatchRequests /\ NoRequestsOffline
<1> SUFFICES ASSUME IInv, [Next]_vars PROVE Marks'
  OBVIOUS
<1> USE DEF IInv, TypeOK, MarksMatchRequests, NoRequestsOffline, InCall
<1> USE RequestsDiffer, ConstantsAssumption
<1>1. CASE Api
  <2>1. ASSUME NEW isPlayer \in BOOLEAN, StartConnects(isPlayer) PROVE Marks'
    BY <2>1 DEF StartConnects, ClearedSinceLeaving
  <2>2. ASSUME NEW isPlayer \in BOOLEAN, StartFails(isPlayer) PROVE Marks'
    BY <2>2 DEF StartFails
  <2>3. CASE LeaveConference
    BY <2>3 DEF LeaveConference
  <2>4. CASE ClearTrackers \/ CloseSignaling
    BY <2>4 DEF ClearTrackers, CloseSignaling
  <2> QED BY <1>1, <2>1, <2>2, <2>3, <2>4 DEF Api
<1>2. CASE Signaling
  <2>1. CASE WsOpened
    BY <2>1 DEF WsOpened
  <2>2. CASE SendJoinRoom
    BY <2>2 DEF SendJoinRoom, Sends
  <2>3. CASE WsDrops
    BY <2>3 DEF WsDrops
  <2>4. CASE OnClosed \/ HandlerBlocks
    BY <2>4 DEF OnClosed, HandlerBlocks
  <2>5. ASSUME NEW s \in Streams,
               \/ \E type \in SdpTypes : RemoteSDPAccepted(s, type)
               \/ RemoteSDPRejected(s)
               \/ StartOffer(s)
               \/ \E c \in Cands : AddRemoteCandidate(s, c)
        PROVE  Marks'
    BY <2>5 DEF RemoteSDPAccepted, RemoteSDPRejected, StartOffer, AddRemoteCandidate
  <2>6. CASE JoinedTheRoom
    BY <2>6 DEF JoinedTheRoom, Sends
  <2>7. CASE PublishStarted
    BY <2>7 DEF PublishStarted, Sends, Delivers
  <2>8. ASSUME NEW s \in Streams \ {Self}, PlayFinished(s) PROVE Marks'
    BY <2>8 DEF PlayFinished, RemovePeerIfNotExist, DeliversLocked, Delivers
  <2>9. CASE SendPlayRoomAgain
    BY <2>9 DEF SendPlayRoomAgain, Sends
  <2>10. ASSUME NEW s \in Streams \ {Room}, SubtrackAdded(s) PROVE Marks'
    BY <2>10 DEF SubtrackAdded, Sends, DeliversLocked, Delivers, Streams
  <2>11. ASSUME NEW s \in Streams \ {Room}, SubtrackRemoved(s) PROVE Marks'
    BY <2>11 DEF SubtrackRemoved, Delivers
  <2> QED BY <1>2, <2>1, <2>2, <2>3, <2>4, <2>5, <2>6, <2>7, <2>8, <2>9, <2>10,
             <2>11 DEF Signaling
<1>3. CASE PeerEvents
  BY <1>3 DEF PeerEvents, DataChannelDetected, PeerCloses
<1>4. CASE UNCHANGED vars
  BY <1>4
<1> QED BY <1>1, <1>2, <1>3, <1>4 DEF Next

(* Once cleared, the trackers stay clear until the next session, except    *)
(* for the room's mark: the other handlers wait for m_stateMutex.          *)
LEMMA NextCleared == IInv /\ [Next]_vars => ClearedSinceLeaving'
<1> SUFFICES ASSUME IInv, [Next]_vars PROVE ClearedSinceLeaving'
  OBVIOUS
<1> USE DEF IInv, TypeOK, ClearedSinceLeaving
<1>1. CASE Api
  BY <1>1 DEF Api, StartConnects, StartFails, LeaveConference, ClearTrackers,
              CloseSignaling, ClearedTrackers
<1>2. CASE Signaling
  <2>1. CASE WsOpened \/ SendJoinRoom \/ WsDrops \/ OnClosed \/ HandlerBlocks
             \/ JoinedTheRoom
    BY <2>1 DEF WsOpened, SendJoinRoom, WsDrops, OnClosed, HandlerBlocks, JoinedTheRoom
  <2>2. ASSUME NEW s \in Streams,
               \/ \E type \in SdpTypes : RemoteSDPAccepted(s, type)
               \/ RemoteSDPRejected(s)
               \/ StartOffer(s)
               \/ \E c \in Cands : AddRemoteCandidate(s, c)
               \/ PlayFinished(s)
               \/ SubtrackAdded(s)
        PROVE  ClearedSinceLeaving'
    BY <2>2 DEF RemoteSDPAccepted, RemoteSDPRejected, StartOffer, AddRemoteCandidate,
                PlayFinished, SubtrackAdded, DeliversLocked
  <2>3. CASE PublishStarted \/ SendPlayRoomAgain
    BY <2>3 DEF PublishStarted, SendPlayRoomAgain
  <2>4. ASSUME NEW s \in Streams, SubtrackRemoved(s) PROVE ClearedSinceLeaving'
    BY <2>4 DEF SubtrackRemoved
  <2> QED BY <1>2, <2>1, <2>2, <2>3, <2>4 DEF Signaling
<1>3. CASE PeerEvents
  BY <1>3 DEF PeerEvents, DataChannelDetected, PeerCloses
<1>4. CASE UNCHANGED vars
  BY <1>4
<1> QED BY <1>1, <1>2, <1>3, <1>4 DEF Next

(* subtrackAdded for the client's own stream asks for nothing. *)
LEMMA NextOwnStreamNotPlayed == IInv /\ [Next]_vars => OwnStreamNotPlayed'
<1> SUFFICES ASSUME IInv, [Next]_vars PROVE OwnStreamNotPlayed'
  OBVIOUS
<1> USE RequestsDiffer, ConstantsAssumption DEF IInv, OwnStreamNotPlayed, Sends
<1>1. CASE Api
  BY <1>1 DEF Api, StartConnects, StartFails, LeaveConference, ClearTrackers, CloseSignaling
<1>2. CASE Signaling
  <2>1. CASE WsOpened \/ WsDrops \/ OnClosed \/ HandlerBlocks
    BY <2>1 DEF WsOpened, WsDrops, OnClosed, HandlerBlocks
  <2>2. CASE SendJoinRoom \/ JoinedTheRoom
    BY <2>2 DEF SendJoinRoom, JoinedTheRoom
  <2>3. CASE PublishStarted \/ SendPlayRoomAgain
    BY <2>3 DEF PublishStarted, SendPlayRoomAgain
  <2>4. ASSUME NEW s \in Streams,
               \/ \E type \in SdpTypes : RemoteSDPAccepted(s, type)
               \/ RemoteSDPRejected(s)
               \/ StartOffer(s)
               \/ \E c \in Cands : AddRemoteCandidate(s, c)
        PROVE  OwnStreamNotPlayed'
    BY <2>4 DEF RemoteSDPAccepted, RemoteSDPRejected, StartOffer, AddRemoteCandidate
  <2>5. ASSUME NEW s \in Streams, PlayFinished(s) \/ SubtrackAdded(s) \/ SubtrackRemoved(s)
        PROVE  OwnStreamNotPlayed'
    BY <2>5 DEF PlayFinished, SubtrackAdded, SubtrackRemoved
  <2> QED BY <1>2, <2>1, <2>2, <2>3, <2>4, <2>5 DEF Signaling
<1>3. CASE PeerEvents
  BY <1>3 DEF PeerEvents, DataChannelDetected, PeerCloses
<1>4. CASE UNCHANGED vars
  BY <1>4
<1> QED BY <1>1, <1>2, <1>3, <1>4 DEF Next

(* Where the handlers are. *)
LEMMA NextHandlerPlaces == IInv /\ [Next]_vars => HandlerPlaces'
<1> SUFFICES ASSUME IInv, [Next]_vars PROVE HandlerPlaces'
  OBVIOUS
<1> USE DEF IInv, TypeOK, HandlerPlaces, InCall
<1>1. CASE Api
  BY <1>1 DEF Api, StartConnects, StartFails, LeaveConference, ClearTrackers,
              CloseSignaling, ClearedTrackers
<1>2. CASE Signaling
  <2>1. CASE SendJoinRoom \/ WsDrops \/ OnClosed \/ HandlerBlocks
             \/ JoinedTheRoom \/ PublishStarted \/ SendPlayRoomAgain
    BY <2>1 DEF SendJoinRoom, WsDrops, OnClosed, HandlerBlocks, JoinedTheRoom,
                PublishStarted, SendPlayRoomAgain, Delivers
  <2>2. ASSUME NEW s \in Streams,
               \/ \E type \in SdpTypes : RemoteSDPAccepted(s, type)
               \/ RemoteSDPRejected(s)
               \/ StartOffer(s)
               \/ \E c \in Cands : AddRemoteCandidate(s, c)
        PROVE  HandlerPlaces'
    BY <2>2 DEF RemoteSDPAccepted, RemoteSDPRejected, StartOffer, AddRemoteCandidate
  <2>3. ASSUME NEW s \in Streams, PlayFinished(s) \/ SubtrackAdded(s) \/ SubtrackRemoved(s)
        PROVE  HandlerPlaces'
    BY <2>3 DEF PlayFinished, RemovePeerIfNotExist, SubtrackAdded, SubtrackRemoved,
                DeliversLocked, Delivers
  <2>4. CASE WsOpened
    BY <2>4 DEF WsOpened, NoRequestsOffline
  <2> QED BY <1>2, <2>1, <2>2, <2>3, <2>4 DEF Signaling
<1>3. CASE PeerEvents
  BY <1>3 DEF PeerEvents, DataChannelDetected, PeerCloses
<1>4. CASE UNCHANGED vars
  BY <1>4
<1> QED BY <1>1, <1>2, <1>3, <1>4 DEF Next

LEMMA InductiveInvariant == Spec => []IInv
<1>1. IInv /\ [Next]_vars => IInv'
  BY NextTypeOK, NextPublisherReady, NextNoStrandedCandidates, NextMarks, NextCleared,
     NextHandlerPlaces, NextOwnStreamNotPlayed
     DEF IInv
<1> QED BY InitIInv, <1>1, PTL DEF Spec

-----------------------------------------------------------------------------
(* In the conference the client's own connection is always there, marked   *)
(* as the publisher's, with its data channel and the media of its role.    *)
THEOREM PublisherReadyHolds == Spec => []PublisherReady
<1>1. IInv => PublisherReady
  BY DEF IInv
<1> QED BY InductiveInvariant, <1>1, PTL

(* handleRemoteSDP strands no candidate that arrived before its offer. *)
THEOREM NoStrandedCandidatesHolds == Spec => []NoStrandedCandidates
<1>1. IInv => NoStrandedCandidates
  BY DEF IInv
<1> QED BY InductiveInvariant, <1>1, PTL

(* The sendPlay marks of other participants are exactly the play requests  *)
(* the server holds, so that no play is forgotten and none is sent twice.  *)
THEOREM MarksMatchRequestsHolds == Spec => []MarksMatchRequests
<1>1. IInv => MarksMatchRequests
  BY DEF IInv
<1> QED BY InductiveInvariant, <1>1, PTL

(* A session leaves nothing behind but, at worst, the room's play mark. *)
THEOREM OnlyRoomMarkSurvivesHolds == Spec => []OnlyRoomMarkSurvives
<1>1. IInv => OnlyRoomMarkSurvives
  BY DEF IInv, ClearedSinceLeaving, OnlyRoomMarkSurvives
<1> QED BY InductiveInvariant, <1>1, PTL

-----------------------------------------------------------------------------
(* The contract: each step of the client is a step that Membership allows, *)
(* or changes nothing of what the server sees.                             *)
LEMMA StepKeepsContract == IInv /\ [Next]_vars => [Contract!Next]_(Contract!vars)
<1> DEFINE Goal == [Contract!Next]_(Contract!vars)
<1> SUFFICES ASSUME IInv, [Next]_vars PROVE Goal
  OBVIOUS
<1> USE RequestTypes, RequestsDiffer, ConstantsAssumption
    DEF IInv, TypeOK, InCall, NoRequestsOffline, HandlerPlaces, MarksMatchRequests,
        Contract!vars
<1>1. CASE Api
  <2>1. ASSUME NEW isPlayer \in BOOLEAN, StartConnects(isPlayer) PROVE Goal
    BY <2>1 DEF StartConnects, Contract!Next, Contract!Enter
  <2>2. ASSUME NEW isPlayer \in BOOLEAN, StartFails(isPlayer) PROVE Goal
    BY <2>2 DEF StartFails, Contract!Next, Contract!FailToEnter
  <2>3. CASE LeaveConference
    <3>1. told' = told \ OwnRequests
      BY <2>3 DEF LeaveConference, PublisherReady
    <3> QED BY <2>3, <3>1 DEF LeaveConference, Contract!Next, Contract!Leave,
               Contract!OwnRequests, OwnRequests, Contract!Join, Join, Contract!Publish,
               Publish, Contract!Play, Play
  <2>4. CASE ClearTrackers
    BY <2>4 DEF ClearTrackers
  <2>5. CASE CloseSignaling
    BY <2>5 DEF CloseSignaling, Contract!Next, Contract!Return
  <2> QED BY <1>1, <2>1, <2>2, <2>3, <2>4, <2>5 DEF Api
<1>2. ASSUME NEW r \in Requests, Sends(r), phase # "idle", UNCHANGED session,
             \/ r = Publish(~m_isOnlyPlayer)
             \/ r = Play(Room) /\ (r \in told => phase # "running")
             \/ r \notin told,
             r # Publish(m_isOnlyPlayer), r # Play(Self)
      PROVE  Goal
  <2>1. CASE ws = "open"
    <3>1. Contract!Ask(r)
      BY <1>2, <2>1 DEF Sends, Contract!Ask, Contract!Join, Join, Contract!Publish,
         Publish, Contract!Play, Play
    <3>2. r \in Contract!Requests
      BY <1>2 DEF Requests, Contract!Requests, Contract!Join, Join, Contract!Publish,
         Publish, Contract!Play, Play, Streams, Contract!Streams
    <3> QED BY <3>1, <3>2 DEF Contract!Next
  <2>2. CASE ws # "open"
    BY <1>2, <2>2 DEF Sends
  <2> QED BY <2>1, <2>2
<1>3. ASSUME NEW s \in Streams \ {Self}, told' = told \ {Play(s)}, UNCHANGED <<session, repeated>>
      PROVE  Goal
  <2>1. Contract!PlayEnds(s)
    BY <1>3 DEF Contract!PlayEnds, Contract!Play, Play
  <2> QED BY <2>1 DEF Contract!Next, Contract!Streams, Streams
<1>4. CASE Signaling
  <2>1. CASE WsOpened \/ OnClosed \/ HandlerBlocks
    BY <2>1 DEF WsOpened, OnClosed, HandlerBlocks
  <2>2. CASE SendJoinRoom
    <3>1. phase # "idle" /\ Sends(Join) /\ UNCHANGED session
      BY <2>2 DEF SendJoinRoom
    <3>2. Join # Publish(m_isOnlyPlayer) /\ Join # Play(Self)
      BY DEF Join, Publish, Play
    <3>3. Join \in Requests
      OBVIOUS
    <3>4. Join \notin told
      BY <2>2 DEF SendJoinRoom
    <3> QED BY ONLY <3>1, <3>2, <3>3, <3>4, <1>2
  <2>3. CASE WsDrops
    BY <2>3 DEF WsDrops, Contract!Next, Contract!ConnectionLost
  <2>4. ASSUME NEW s \in Streams,
               \/ \E type \in SdpTypes : RemoteSDPAccepted(s, type)
               \/ RemoteSDPRejected(s)
               \/ StartOffer(s)
               \/ \E c \in Cands : AddRemoteCandidate(s, c)
        PROVE  Goal
    BY <2>4 DEF RemoteSDPAccepted, RemoteSDPRejected, StartOffer, AddRemoteCandidate
  <2>5. CASE JoinedTheRoom
    <3>1. phase # "idle" /\ Sends(Publish(~m_isOnlyPlayer)) /\ UNCHANGED session
      BY <2>5 DEF JoinedTheRoom, Delivers
    <3>2. /\ Publish(~m_isOnlyPlayer) # Publish(m_isOnlyPlayer)
          /\ Publish(~m_isOnlyPlayer) # Play(Self)
      BY DEF Publish, Play
    <3>3. Publish(~m_isOnlyPlayer) \in Requests
      OBVIOUS
    <3> QED BY ONLY <3>1, <3>2, <3>3, <1>2
  <2>6. CASE PublishStarted
    <3>1. phase # "idle" /\ Sends(Play(Room)) /\ UNCHANGED session
      BY <2>6 DEF PublishStarted, Delivers
    <3>2. Play(Room) \in told => phase # "running"
      BY <2>6 DEF PublishStarted
    <3> QED BY <3>1, <3>2, <1>2
  <2>7. ASSUME NEW s \in Streams \ {Self}, PlayFinished(s) PROVE Goal
    BY <2>7, <1>3 DEF PlayFinished
  <2>8. CASE SendPlayRoomAgain
    <3>1. phase # "idle" /\ Sends(Play(Room)) /\ UNCHANGED session
      BY <2>8 DEF SendPlayRoomAgain
    <3>2. Play(Room) \in told => phase # "running"
      BY <2>8 DEF SendPlayRoomAgain
    <3> QED BY <3>1, <3>2, <1>2
  <2>9. ASSUME NEW s \in Streams \ {Room}, SubtrackAdded(s) PROVE Goal
    <3>1. phase # "idle" /\ Sends(Play(s)) /\ UNCHANGED session /\ s \in Others
      BY <2>9 DEF SubtrackAdded, DeliversLocked, Streams
    <3>2. Play(s) \notin told
      BY <2>9, <3>1 DEF SubtrackAdded, DeliversLocked
    <3> QED BY <3>1, <3>2, <1>2
  <2>10. ASSUME NEW s \in Streams \ {Room}, SubtrackRemoved(s) PROVE Goal
    <3>1. CASE s = Self
      BY <2>10, <3>1 DEF SubtrackRemoved, OwnStreamNotPlayed
    <3>2. CASE s # Self
      BY <2>10, <3>2, <1>3 DEF SubtrackRemoved
    <3> QED BY <3>1, <3>2
  <2> QED BY <1>4, <2>1, <2>2, <2>3, <2>4, <2>5, <2>6, <2>7, <2>8, <2>9, <2>10
      DEF Signaling
<1>5. CASE PeerEvents
  BY <1>5 DEF PeerEvents, DataChannelDetected, PeerCloses
<1>6. CASE UNCHANGED vars
  BY <1>6
<1> QED BY <1>1, <1>4, <1>5, <1>6 DEF Next

(* Conference implements Membership. *)
THEOREM KeepsContractHolds == Spec => KeepsContract
<1>1. Init => Contract!Init
  BY DEF Init, Contract!Init
<1> QED BY InductiveInvariant, <1>1, StepKeepsContract, PTL
        DEF Spec, KeepsContract, Contract!Spec

-----------------------------------------------------------------------------
(***************************************************************************)
(* Counting in the channels: how many messages of a sequence are in T.     *)
(***************************************************************************)
Tokens(q, T) == Cardinality({i \in DOMAIN q : q[i] \in T})

(* Moving a finite set of positions keeps its size. *)
LEMMA ShiftedSize ==
    ASSUME NEW n \in Nat, NEW A \in SUBSET Nat, IsFiniteSet(A)
    PROVE  IsFiniteSet({i + n : i \in A}) /\ Cardinality({i + n : i \in A}) = Cardinality(A)
<1> DEFINE B == {i + n : i \in A}
           f == [i \in A |-> i + n]
<1>1. f \in [A -> B] /\ \A i, j \in A : f[i] = f[j] => i = j
  OBVIOUS
<1>2. \A b \in B : \E i \in A : f[i] = b
  OBVIOUS
<1>3. f \in Bijection(A, B)
  BY <1>1, <1>2 DEF Bijection, Injection, Surjection, IsInjective
<1>4. ExistsBijection(A, B)
  BY <1>3 DEF ExistsBijection
<1> QED BY <1>4, FS_Bijection

LEMMA TokensType ==
    ASSUME NEW M, NEW q \in Seq(M), NEW T
    PROVE  /\ IsFiniteSet({i \in DOMAIN q : q[i] \in T})
           /\ Tokens(q, T) \in Nat
<1>1. DOMAIN q = 1..Len(q) /\ Len(q) \in Nat /\ 1 \in Int
  OBVIOUS
<1>2. IsFiniteSet(1..Len(q))
  BY <1>1, FS_Interval
<1>3. {i \in DOMAIN q : q[i] \in T} \in SUBSET (1..Len(q))
  BY <1>1
<1>4. IsFiniteSet({i \in DOMAIN q : q[i] \in T})
  BY <1>2, <1>3, FS_Subset
<1> QED BY <1>4, FS_CardinalityType DEF Tokens

LEMMA TokensAppend ==
    ASSUME NEW M, NEW q \in Seq(M), NEW m \in M, NEW T
    PROVE  Tokens(Append(q, m), T) = Tokens(q, T) + (IF m \in T THEN 1 ELSE 0)
<1> DEFINE A == {i \in DOMAIN q : q[i] \in T}
           r == Append(q, m)
           B == {i \in DOMAIN r : r[i] \in T}
<1>1. /\ DOMAIN q = 1..Len(q) /\ Len(q) \in Nat /\ DOMAIN r = 1..(Len(q) + 1)
      /\ r[Len(q) + 1] = m /\ \A i \in 1..Len(q) : r[i] = q[i]
  OBVIOUS
<1>2. IsFiniteSet(A) /\ Cardinality(A) \in Nat
  BY TokensType DEF Tokens
<1>3. CASE m \in T
  <2>1. B = A \cup {Len(q) + 1}
    BY <1>1, <1>3
  <2>2. Len(q) + 1 \notin A
    BY <1>1
  <2>3. Cardinality(A \cup {Len(q) + 1}) = Cardinality(A) + 1
    BY <1>2, <2>2, FS_AddElement
  <2> QED BY <1>3, <2>1, <2>3 DEF Tokens
<1>4. CASE m \notin T
  <2>1. B = A
    BY <1>1, <1>4
  <2>2. Tokens(r, T) = Tokens(q, T)
    BY <2>1 DEF Tokens
  <2>3. Tokens(q, T) \in Nat
    BY TokensType
  <2> QED BY <1>4, <2>2, <2>3
<1> QED BY <1>3, <1>4

LEMMA TokensConcat ==
    ASSUME NEW M, NEW q \in Seq(M), NEW r \in Seq(M), NEW T
    PROVE  Tokens(q \o r, T) = Tokens(q, T) + Tokens(r, T)
<1> DEFINE A == {i \in DOMAIN q : q[i] \in T}
           B == {i \in DOMAIN r : r[i] \in T}
           C == {i + Len(q) : i \in B}
           s == q \o r
           D == {i \in DOMAIN s : s[i] \in T}
<1>1. /\ DOMAIN q = 1..Len(q) /\ Len(q) \in Nat /\ DOMAIN r = 1..Len(r) /\ Len(r) \in Nat
      /\ DOMAIN s = 1..(Len(q) + Len(r))
      /\ \A i \in 1..Len(q) : s[i] = q[i]
      /\ \A i \in 1..Len(r) : s[i + Len(q)] = r[i]
  OBVIOUS
<1>2. /\ IsFiniteSet(A) /\ Cardinality(A) \in Nat
      /\ IsFiniteSet(B) /\ Cardinality(B) \in Nat
  BY TokensType DEF Tokens
<1>3. IsFiniteSet(C) /\ Cardinality(C) = Cardinality(B)
  <2>1. B \in SUBSET Nat
    BY <1>1
  <2> QED BY <1>1, <1>2, <2>1, ShiftedSize
<1>4. A \cap C = {}
  BY <1>1
<1>5. D = A \cup C
  <2>1. ASSUME NEW i \in D PROVE i \in A \cup C
    <3>1. CASE i <= Len(q)
      BY <1>1, <2>1, <3>1
    <3>2. CASE i > Len(q)
      <4>1. i - Len(q) \in 1..Len(r) /\ i = (i - Len(q)) + Len(q)
        BY <1>1, <2>1, <3>2
      <4>2. s[i] = r[i - Len(q)]
        BY <1>1, <4>1
      <4>3. i - Len(q) \in B
        BY <1>1, <2>1, <4>1, <4>2
      <4> QED BY <4>1, <4>3
    <3> QED BY <1>1, <2>1, <3>1, <3>2
  <2>2. ASSUME NEW i \in A \cup C PROVE i \in D
    <3>1. CASE i \in A
      BY <1>1, <3>1
    <3>2. CASE i \in C
      BY <1>1, <3>2
    <3> QED BY <2>2, <3>1, <3>2
  <2> QED BY <2>1, <2>2
<1>6. Cardinality(A \cup C) = Cardinality(A) + Cardinality(C) - Cardinality(A \cap C)
  BY <1>2, <1>3, FS_Union
<1>7. Cardinality(A \cap C) = 0
  BY <1>4, FS_EmptySet
<1> HIDE DEF A, B, C, D
<1>8. Cardinality(D) = Cardinality(A) + Cardinality(B)
  BY <1>2, <1>3, <1>5, <1>6, <1>7
<1>9. Tokens(q, T) = Cardinality(A) /\ Tokens(r, T) = Cardinality(B) /\ Tokens(s, T) = Cardinality(D)
  BY DEF Tokens, A, B, D
<1> QED BY <1>8, <1>9

LEMMA TokensOne ==
    ASSUME NEW m, NEW T
    PROVE  Tokens(<<m>>, T) = IF m \in T THEN 1 ELSE 0
<1>1. {i \in DOMAIN <<m>> : <<m>>[i] \in T} = IF m \in T THEN {1} ELSE {}
  OBVIOUS
<1> QED BY <1>1, FS_Singleton, FS_EmptySet DEF Tokens

LEMMA TokensTail ==
    ASSUME NEW M, NEW q \in Seq(M), q # <<>>, NEW T
    PROVE  Tokens(q, T) = Tokens(Tail(q), T) + (IF Head(q) \in T THEN 1 ELSE 0)
<1>1. q = <<Head(q)>> \o Tail(q) /\ <<Head(q)>> \in Seq(M) /\ Tail(q) \in Seq(M)
  OBVIOUS
<1>2. Tokens(q, T) = Tokens(<<Head(q)>>, T) + Tokens(Tail(q), T)
  BY <1>1, TokensConcat
<1>3. Tokens(Tail(q), T) \in Nat
  BY <1>1, TokensType
<1> QED BY <1>2, <1>3, TokensOne

LEMMA TokensNone ==
    ASSUME NEW q, NEW T, \A i \in DOMAIN q : q[i] \notin T
    PROVE  Tokens(q, T) = 0
<1>1. {i \in DOMAIN q : q[i] \in T} = {}
  OBVIOUS
<1> QED BY <1>1, FS_EmptySet DEF Tokens

(* Fewer kinds of messages, fewer messages. *)
LEMMA TokensFewer ==
    ASSUME NEW M, NEW q \in Seq(M), NEW T, NEW m \in T
    PROVE  Count(q, m) <= Tokens(q, T) /\ Count(q, m) \in Nat
<1> DEFINE A == {i \in DOMAIN q : q[i] \in T}
           B == {i \in DOMAIN q : q[i] = m}
<1>1. B \in SUBSET A /\ IsFiniteSet(A)
  BY TokensType
<1>2. Cardinality(B) <= Cardinality(A) /\ IsFiniteSet(B)
  BY <1>1, FS_Subset
<1> QED BY <1>2, FS_CardinalityType DEF Count, Tokens

(* The elements of a finite set, in some order. *)
LEMMA SetToSeqType ==
    ASSUME NEW S, IsFiniteSet(S)
    PROVE  /\ SetToSeq(S) \in Seq(S)
           /\ \A i \in DOMAIN SetToSeq(S) : SetToSeq(S)[i] \in S
<1>1. Cardinality(S) \in Nat /\ ExistsBijection(1..Cardinality(S), S)
  BY FS_CardinalityType
<1>2. \E f \in [1..Cardinality(S) -> S] : IsInjective(f)
  BY <1>1 DEF ExistsBijection, Bijection, Injection
<1>3. SetToSeq(S) \in [1..Cardinality(S) -> S]
  BY <1>2 DEF SetToSeq
<1> QED BY <1>1, <1>3

-----------------------------------------------------------------------------
(* The client with its server *)

(* The types of the client and of the system. *)
SystemTypes == TypeOK /\ SystemTypeOK

(* A client that talks to this server is a client of Conference. *)
LEMMA SystemStepsAreSteps == [SystemNext]_all => [Next]_vars
<1> SUFFICES ASSUME [SystemNext]_all PROVE [Next]_vars
  OBVIOUS
<1> USE DEF Next, Api, Signaling
<1>1. CASE StartsSession \/ ClientGoesOn
  BY <1>1 DEF StartsSession, ClientGoesOn, Connects, JoinsRoom, AsksAgain
<1>2. CASE ClientReceives
  <2>1. CASE ReceivesJoined \/ ReceivesPublishStarted
    BY <2>1 DEF ReceivesJoined, ReceivesPublishStarted
  <2>2. CASE ReceivesStart \/ ReceivesAnswer
    BY <2>2, RequestTypes DEF ReceivesStart, ReceivesAnswer, SdpTypes
  <2>3. ASSUME NEW s \in {Room} \cup Others, ReceivesOffer(s) \/ ReceivesPlayFinished(s)
        PROVE  [Next]_vars
    <3>1. s \in Streams \ {Self}
      BY ConstantsAssumption DEF Streams
    <3> QED BY <2>3, <3>1 DEF ReceivesOffer, ReceivesPlayFinished, SdpTypes
  <2>4. ASSUME NEW s \in Others, ReceivesAdded(s) \/ ReceivesRemoved(s)
        PROVE  [Next]_vars
    <3>1. s \in Streams \ {Room}
      BY ConstantsAssumption DEF Streams
    <3> QED BY <2>4, <3>1 DEF ReceivesAdded, ReceivesRemoved
  <2> QED BY <1>2, <2>1, <2>2, <2>3, <2>4 DEF ClientReceives
<1>3. CASE SendsDescription \/ ServerReceives
  BY <1>3 DEF SendsDescription, ServerReceives, TakesJoin, TakesPublish, TakesOffer,
              TakesAnswer, TakesPlayRoom, TakesPlay, Takes
<1>4. CASE \/ \E o \in Others : Enters(o) \/ Leaves(o)
           \/ \E s \in {Room} \cup Others : Finishes(s)
  BY <1>4 DEF Enters, Leaves, Finishes
<1>5. CASE UNCHANGED all
  BY <1>5 DEF all
<1> QED BY <1>1, <1>2, <1>3, <1>4, <1>5 DEF SystemNext

LEMMA MessageTypes ==
    /\ Msg("joinedTheRoom", Self) \in Messages
    /\ Msg("start", Self) \in Messages
    /\ Msg("publish_started", Self) \in Messages
    /\ Msg("answer", Self) \in Messages
    /\ \A s \in {Room} \cup Others :
          Msg("offer", s) \in Messages /\ Msg("play_finished", s) \in Messages
    /\ \A s \in Others :
          Msg("subtrackAdded", s) \in Messages /\ Msg("subtrackRemoved", s) \in Messages
BY DEF Msg, Messages

LEMMA SendableTypes ==
    /\ Local(Self, "offer") \in Descriptions
    /\ \A s \in {Room} \cup Others : Local(s, "answer") \in Descriptions
    /\ \A d \in Descriptions : d \in Sendable
    /\ Join \in Sendable
    /\ \A media \in BOOLEAN : Publish(media) \in Sendable
    /\ \A s \in {Room} \cup Others : Play(s) \in Sendable
<1>1. \A s \in {Room} \cup Others : s \in Streams /\ Play(s) # Play(Self)
  BY ConstantsAssumption DEF Play, Streams
<1>2. Join # Play(Self) /\ \A media \in BOOLEAN : Publish(media) # Play(Self)
  BY DEF Join, Publish, Play
<1> QED BY <1>1, <1>2, RequestTypes DEF Descriptions, Sendable

(* The announcements of those who are there. *)
Announced(os) == {Msg("subtrackAdded", o) : o \in os}

LEMMA AnnouncedType ==
    ASSUME NEW os \in SUBSET Others
    PROVE  /\ SetToSeq(Announced(os)) \in Seq(Messages)
           /\ \A i \in DOMAIN SetToSeq(Announced(os)) :
                 SetToSeq(Announced(os))[i] \in Announced(os)
<1> DEFINE f == [o \in os |-> Msg("subtrackAdded", o)]
<1>1. IsFiniteSet(os)
  BY SystemAssumption, FS_Subset
<1>2. f \in Surjection(os, Announced(os))
  BY DEF Surjection, Announced
<1>3. IsFiniteSet(Announced(os))
  BY <1>1, <1>2, FS_Surjection
<1>4. Announced(os) \subseteq Messages
  BY MessageTypes DEF Announced
<1>5. SetToSeq(Announced(os)) \in Seq(Announced(os))
  BY <1>3, SetToSeqType
<1>6. SetToSeq(Announced(os)) \in Seq(Messages)
  BY <1>4, <1>5
<1> QED BY <1>3, <1>6, SetToSeqType

(* Types *)

LEMMA SystemInitTypeOK == SystemInit => SystemTypes
BY InitTypeOK, SystemAssumption DEF SystemInit, SystemTypes, SystemTypeOK

LEMMA EmitsType ==
    ASSUME SystemTypes, NEW m \in Sendable, Emits(m)
    PROVE  toServer' \in Seq(Sendable)
BY DEF SystemTypes, SystemTypeOK, Emits

LEMMA ReceivesType ==
    ASSUME SystemTypes, NEW k, NEW s, Receives(k, s)
    PROVE  toClient' \in Seq(Messages) /\ UNCHANGED <<present, serving, finishing, visits, late>>
BY DEF SystemTypes, SystemTypeOK, Receives, room

LEMMA TakesType ==
    ASSUME SystemTypes, NEW m, Takes(m)
    PROVE  /\ toServer' \in Seq(Sendable)
           /\ UNCHANGED <<describing, present, finishing, visits, late>>
BY DEF SystemTypes, SystemTypeOK, Takes

LEMMA AnswersType ==
    ASSUME SystemTypes, NEW ms \in Seq(Messages), Answers(ms)
    PROVE  toClient' \in Seq(Messages)
BY DEF SystemTypes, SystemTypeOK, Answers

LEMMA SystemNextTypeOK == SystemTypes /\ [SystemNext]_all => SystemTypes'
<1> SUFFICES ASSUME SystemTypes, [SystemNext]_all PROVE SystemTypes'
  OBVIOUS
<1>1. TypeOK'
  BY SystemStepsAreSteps, NextTypeOK DEF SystemTypes, SystemTypeOK
<1> DEFINE ServerOK == /\ describing \subseteq Descriptions
                       /\ present \subseteq Others
                       /\ serving \subseteq {Room} \cup Others
                       /\ finishing \subseteq serving
                       /\ visits \in 0..MaxVisits
                       /\ late \subseteq Others
<1>2. /\ toServer \in Seq(Sendable) /\ toClient \in Seq(Messages) /\ ServerOK
      /\ m_isOnlyPlayer \in BOOLEAN
  BY DEF SystemTypes, SystemTypeOK, TypeOK
<1>3. SUFFICES toServer' \in Seq(Sendable) /\ toClient' \in Seq(Messages) /\ ServerOK'
  BY <1>1 DEF SystemTypes, SystemTypeOK
<1> USE <1>2
<1>4. CASE StartsSession \/ Connects
  BY <1>4 DEF StartsSession, Connects, channels, room
<1>5. CASE JoinsRoom \/ AsksAgain
  <2>1. Join \in Sendable /\ Play(Room) \in Sendable
    BY RequestTypes, SendableTypes
  <2>2. toServer' \in Seq(Sendable)
    BY <1>5, <2>1, EmitsType DEF JoinsRoom, AsksAgain
  <2> QED BY <1>5, <2>2 DEF JoinsRoom, AsksAgain, room
<1>6. CASE SendsDescription
  <2>1. PICK d \in describing : Emits(d) /\ describing' = describing \ {d}
    BY <1>6 DEF SendsDescription
  <2>2. toServer' \in Seq(Sendable)
    BY <2>1, SendableTypes, EmitsType
  <2> QED BY <1>6, <2>1, <2>2 DEF SendsDescription, room
<1>7. CASE ClientReceives
  <2>1. CASE ReceivesJoined \/ ReceivesPublishStarted
    <3>1. Publish(~m_isOnlyPlayer) \in Sendable /\ Play(Room) \in Sendable
      BY RequestTypes, SendableTypes
    <3>2. toServer' \in Seq(Sendable)
      BY <2>1, <3>1, EmitsType DEF ReceivesJoined, ReceivesPublishStarted
    <3> QED BY <2>1, <3>2, ReceivesType DEF ReceivesJoined, ReceivesPublishStarted
  <2>2. CASE ReceivesStart \/ ReceivesAnswer
    BY <2>2, ReceivesType, SendableTypes, RequestTypes DEF ReceivesStart, ReceivesAnswer
  <2>3. ASSUME NEW s \in {Room} \cup Others, ReceivesOffer(s) \/ ReceivesPlayFinished(s)
        PROVE  toServer' \in Seq(Sendable) /\ toClient' \in Seq(Messages) /\ ServerOK'
    <3>1. s \in Streams
      BY DEF Streams
    <3> QED BY <2>3, <3>1, ReceivesType, SendableTypes DEF ReceivesOffer, ReceivesPlayFinished
  <2>4. ASSUME NEW s \in Others, ReceivesAdded(s) \/ ReceivesRemoved(s)
        PROVE  toServer' \in Seq(Sendable) /\ toClient' \in Seq(Messages) /\ ServerOK'
    <3>1. Play(s) \in Sendable
      BY RequestTypes, SendableTypes
    <3>2. toServer' \in Seq(Sendable)
      BY <2>4, <3>1, EmitsType DEF ReceivesAdded, ReceivesRemoved
    <3> QED BY <2>4, <3>2, ReceivesType DEF ReceivesAdded, ReceivesRemoved
  <2> QED BY <1>7, <2>1, <2>2, <2>3, <2>4 DEF ClientReceives
<1>8. CASE ServerReceives
  <2>1. CASE TakesJoin
    <3>1. <<Msg("joinedTheRoom", Self)>> \in Seq(Messages)
      BY MessageTypes
    <3>2. toClient' \in Seq(Messages)
      BY <2>1, <3>1, AnswersType DEF TakesJoin
    <3> QED BY <2>1, <3>2, TakesType DEF TakesJoin
  <2>2. CASE TakesPublish
    <3>1. <<Msg("start", Self)>> \in Seq(Messages)
      BY MessageTypes
    <3>2. toClient' \in Seq(Messages)
      BY <2>2, <3>1, AnswersType DEF TakesPublish
    <3> QED BY <2>2, <3>2, TakesType DEF TakesPublish
  <2>3. CASE TakesOffer
    <3>1. <<Msg("answer", Self), Msg("publish_started", Self)>> \in Seq(Messages)
      BY MessageTypes
    <3>2. toClient' \in Seq(Messages)
      BY <2>3, <3>1, AnswersType DEF TakesOffer
    <3> QED BY <2>3, <3>2, TakesType DEF TakesOffer
  <2>4. ASSUME NEW s \in {Room} \cup Others, TakesAnswer(s)
        PROVE  toServer' \in Seq(Sendable) /\ toClient' \in Seq(Messages) /\ ServerOK'
    BY <2>4, TakesType DEF TakesAnswer
  <2>5. CASE TakesPlayRoom
    <3>1. SetToSeq({Msg("subtrackAdded", o) : o \in present}) \in Seq(Messages)
      BY AnnouncedType DEF Announced
    <3>2. /\ <<Msg("play_finished", Room)>> \in Seq(Messages)
          /\ <<Msg("offer", Room)>> \o SetToSeq({Msg("subtrackAdded", o) : o \in present})
                \in Seq(Messages)
      BY <3>1, MessageTypes
    <3>3. toClient' \in Seq(Messages)
      BY <2>5, <3>2, AnswersType DEF TakesPlayRoom
    <3>4. serving' \in {serving, serving \cup {Room}}
      BY <2>5 DEF TakesPlayRoom
    <3> QED BY <2>5, <3>3, <3>4, TakesType DEF TakesPlayRoom
  <2>6. ASSUME NEW s \in Others, TakesPlay(s)
        PROVE  toServer' \in Seq(Sendable) /\ toClient' \in Seq(Messages) /\ ServerOK'
    <3>1. <<Msg("offer", s)>> \in Seq(Messages) /\ <<Msg("play_finished", s)>> \in Seq(Messages)
      BY MessageTypes
    <3>2. toClient' \in Seq(Messages) /\ serving' \in {serving, serving \cup {s}}
      BY <2>6, <3>1, AnswersType DEF TakesPlay
    <3> QED BY <2>6, <3>2, TakesType DEF TakesPlay
  <2> QED BY <1>8, <2>1, <2>2, <2>3, <2>4, <2>5, <2>6 DEF ServerReceives
<1>9. ASSUME NEW o \in Others, Enters(o) \/ Leaves(o)
      PROVE  toServer' \in Seq(Sendable) /\ toClient' \in Seq(Messages) /\ ServerOK'
  <2>1. /\ <<Msg("subtrackAdded", o)>> \in Seq(Messages)
        /\ <<Msg("subtrackRemoved", o)>> \in Seq(Messages)
        /\ <<>> \in Seq(Messages)
    BY MessageTypes
  <2>2. toClient' \in Seq(Messages)
    BY <1>9, <2>1, AnswersType DEF Enters, Leaves
  <2>3. visits' \in 0..MaxVisits
    <3>1. visits' = visits \/ (visits < MaxVisits /\ visits' = visits + 1)
      BY <1>9 DEF Enters, Leaves, room
    <3> QED BY <3>1, SystemAssumption
  <2> QED BY <1>9, <2>2, <2>3 DEF Enters, Leaves
<1>10. ASSUME NEW s \in {Room} \cup Others, Finishes(s)
       PROVE  toServer' \in Seq(Sendable) /\ toClient' \in Seq(Messages) /\ ServerOK'
  <2>1. <<Msg("play_finished", s)>> \in Seq(Messages)
    BY MessageTypes
  <2>2. toClient' \in Seq(Messages)
    BY <1>10, <2>1, AnswersType DEF Finishes
  <2> QED BY <1>10, <2>2 DEF Finishes
<1>11. CASE UNCHANGED all
  BY <1>11 DEF all, channels, room
<1> QED BY <1>4, <1>5, <1>6, <1>7, <1>8, <1>9, <1>10, <1>11 DEF SystemNext, ClientGoesOn


(***************************************************************************)
(* What leads to a request for the room: from joining to publish_started   *)
(* each message brings about the next one, then the request itself, the    *)
(* play, its end and the next request take turns.  At any time there is    *)
(* one of all these at most, wherever it is.                               *)
(***************************************************************************)
AskRequests == {Join, Publish(TRUE), Publish(FALSE), Local(Self, "offer"), Play(Room)}

AskMessages == {Msg("joinedTheRoom", Self), Msg("start", Self),
                Msg("publish_started", Self), Msg("play_finished", Room)}

Sent     == Tokens(toServer, AskRequests)
Received == Tokens(toClient, AskMessages)
Played   == IF Room \in serving THEN 1 ELSE 0
Called   == IF wsAt \in {"join", "replay"} THEN 1 ELSE 0
Offered  == IF Local(Self, "offer") \in describing THEN 1 ELSE 0

Asking == Sent + Received + Played + Called + Offered

OneAsks ==
    /\ Asking <= 1
    /\ ws \in {"none", "connecting"} => Asking = 0
    /\ ws # "closed"

SystemIInv == SystemTypes /\ OneAsks

LEMMA RequestsThatAsk ==
    /\ Join \in AskRequests /\ Play(Room) \in AskRequests
    /\ \A m \in BOOLEAN : Publish(m) \in AskRequests
    /\ \A s \in Streams : /\ Local(s, "offer") \in AskRequests <=> s = Self
                          /\ Local(s, "answer") \notin AskRequests
    /\ \A s \in Others : Play(s) \notin AskRequests
<1>1. /\ \A s, t : Local(s, t) # Join
      /\ \A s, t, r : Local(s, t) # Play(r)
  BY DEF Local, Join, Play
<1>2. \A s, t, m : Local(s, t) # Publish(m)
  BY DEF Local, Publish
<1>3. \A r, s, t, u : Local(r, t) = Local(s, u) => r = s /\ t = u
  BY DEF Local
<1>4. \A s \in Others : s # Room
  BY ConstantsAssumption
<1> QED BY <1>1, <1>2, <1>3, <1>4, RequestsDiffer DEF AskRequests

LEMMA MessagesThatAsk ==
    /\ Msg("joinedTheRoom", Self) \in AskMessages
    /\ Msg("start", Self) \in AskMessages
    /\ Msg("publish_started", Self) \in AskMessages
    /\ Msg("answer", Self) \notin AskMessages
    /\ \A s \in {Room} \cup Others :
          /\ Msg("play_finished", s) \in AskMessages <=> s = Room
          /\ Msg("offer", s) \notin AskMessages
          /\ Msg("subtrackAdded", s) \notin AskMessages
          /\ Msg("subtrackRemoved", s) \notin AskMessages
<1>1. \A k, l, s, t : Msg(k, s) = Msg(l, t) => k = l /\ s = t
  BY DEF Msg
<1> QED BY <1>1 DEF AskMessages

LEMMA EmitsAsk ==
    ASSUME SystemTypes, NEW m \in Sendable, Emits(m)
    PROVE  Sent' = Sent + (IF ws = "open" /\ m \in AskRequests THEN 1 ELSE 0)
<1>1. toServer \in Seq(Sendable)
  BY DEF SystemTypes, SystemTypeOK
<1>2. Tokens(toServer, AskRequests) \in Nat
  BY <1>1, TokensType
<1>3. CASE ws = "open"
  BY <1>1, <1>3, TokensAppend DEF Emits, Sent
<1>4. CASE ws # "open"
  BY <1>2, <1>4 DEF Emits, Sent
<1> QED BY <1>3, <1>4

LEMMA ReceivesAsk ==
    ASSUME SystemTypes, NEW k, NEW s, Receives(k, s)
    PROVE  Received = Received' + (IF Msg(k, s) \in AskMessages THEN 1 ELSE 0)
BY TokensTail DEF SystemTypes, SystemTypeOK, Receives, Received

LEMMA TakesAsk ==
    ASSUME SystemTypes, NEW m, Takes(m)
    PROVE  Sent = Sent' + (IF m \in AskRequests THEN 1 ELSE 0)
BY TokensTail DEF SystemTypes, SystemTypeOK, Takes, Sent

LEMMA AnswersAsk ==
    ASSUME SystemTypes, NEW ms \in Seq(Messages), Answers(ms)
    PROVE  Received' = Received + Tokens(ms, AskMessages)
BY TokensConcat DEF SystemTypes, SystemTypeOK, Answers, Received

(* A message that is not about the room's play, or none at all. *)
LEMMA AnswersNoAsk ==
    ASSUME SystemTypes, NEW m \in Messages, m \notin AskMessages,
           NEW ms \in {<<m>>, <<>>}, Answers(ms)
    PROVE  Received' = Received
<1>1. ms \in Seq(Messages)
  <2>1. <<m>> \in Seq(Messages) /\ <<>> \in Seq(Messages)
    OBVIOUS
  <2> QED BY <2>1
<1>2. Tokens(ms, AskMessages) = 0
  <2>1. CASE ms = <<m>>
    BY <2>1, TokensOne
  <2>2. CASE ms = <<>>
    BY <2>2, TokensNone
  <2> QED BY <2>1, <2>2
<1>3. toClient \in Seq(Messages)
  BY DEF SystemTypes, SystemTypeOK
<1>4. Received \in Nat
  BY <1>3, TokensType DEF Received
<1> QED BY <1>1, <1>2, <1>4, AnswersAsk

LEMMA AnswersOneAsk ==
    ASSUME SystemTypes, NEW m \in AskMessages, m \in Messages, Answers(<<m>>)
    PROVE  Received' = Received + 1
<1>1. <<m>> \in Seq(Messages)
  OBVIOUS
<1> QED BY <1>1, AnswersAsk, TokensOne

LEMMA AskingTypes ==
    ASSUME SystemTypes, SystemTypes'
    PROVE  /\ Sent \in Nat /\ Received \in Nat
           /\ Sent' \in Nat /\ Received' \in Nat
           /\ Played \in 0..1 /\ Called \in 0..1 /\ Offered \in 0..1
           /\ Played' \in 0..1 /\ Called' \in 0..1 /\ Offered' \in 0..1
<1>1. /\ toServer \in Seq(Sendable) /\ toClient \in Seq(Messages)
      /\ toServer' \in Seq(Sendable) /\ toClient' \in Seq(Messages)
  BY DEF SystemTypes, SystemTypeOK
<1>2. /\ Tokens(toServer, AskRequests) \in Nat /\ Tokens(toClient, AskMessages) \in Nat
      /\ Tokens(toServer', AskRequests) \in Nat /\ Tokens(toClient', AskMessages) \in Nat
  BY <1>1, TokensType
<1>3. Sent' = Tokens(toServer', AskRequests) /\ Received' = Tokens(toClient', AskMessages)
  BY DEF Sent, Received, AskRequests, AskMessages
<1>4. /\ Sent \in Nat /\ Received \in Nat /\ Sent' \in Nat /\ Received' \in Nat
  BY <1>2, <1>3 DEF Sent, Received
<1>5. /\ Played \in 0..1 /\ Called \in 0..1 /\ Offered \in 0..1
      /\ Played' \in 0..1 /\ Called' \in 0..1 /\ Offered' \in 0..1
  BY DEF Played, Called, Offered
<1> QED BY <1>4, <1>5

(* The client's steps: a message that asks is answered by one that asks,   *)
(* or by joining or asking again.                                          *)
LEMMA ClientOneAsks ==
    ASSUME SystemIInv, SystemTypes',
           StartsSession \/ ClientGoesOn \/ SendsDescription \/ ClientReceives
    PROVE  OneAsks'
<1>1. OneAsks /\ SystemTypes /\ m_isOnlyPlayer \in BOOLEAN
  BY DEF SystemIInv, SystemTypes, SystemTypeOK, TypeOK
<1>2. PICK sent, received, played, called, offered \in Nat,
           sentN, receivedN, playedN, calledN, offeredN \in Nat :
        /\ Sent = sent /\ Received = received /\ Sent' = sentN /\ Received' = receivedN
        /\ Played = played /\ Called = called /\ Offered = offered
        /\ Played' = playedN /\ Called' = calledN /\ Offered' = offeredN
  <2>1. /\ Sent \in Nat /\ Received \in Nat /\ Sent' \in Nat /\ Received' \in Nat
        /\ Played \in Nat /\ Called \in Nat /\ Offered \in Nat
        /\ Played' \in Nat /\ Called' \in Nat /\ Offered' \in Nat
    BY <1>1, AskingTypes
  <2> QED BY <2>1
<1>n. /\ played \in 0..1 /\ called \in 0..1 /\ offered \in 0..1
      /\ playedN \in 0..1 /\ calledN \in 0..1 /\ offeredN \in 0..1
  BY <1>1, <1>2, AskingTypes
<1> DEFINE before == sent + received + played + called + offered
           afterwards == sentN + receivedN + playedN + calledN + offeredN
<1>3. /\ Asking = before /\ Asking' = afterwards
      /\ before <= 1 /\ (ws \in {"none", "connecting"} => before = 0) /\ ws # "closed"
  BY <1>1, <1>2 DEF OneAsks, Asking
<1> USE <1>1, <1>2, <1>n, <1>3
<1>4. CASE StartsSession
  <2>1. UNCHANGED <<toServer, toClient, serving, describing, wsAt>> /\ ws = "none" /\ ws' = "connecting"
    BY <1>4 DEF StartsSession, StartConnects, channels, room
  <2>2. afterwards = before
    BY <2>1 DEF Sent, Received, Played, Called, Offered
  <2> QED BY <2>1, <2>2 DEF OneAsks
<1>5. CASE Connects
  <2>1. /\ UNCHANGED <<toServer, toClient, serving, describing>>
        /\ ws = "connecting" /\ ws' = "open" /\ wsAt' = "join"
    BY <1>5 DEF Connects, WsOpened, channels, room
  <2>2. sentN = sent /\ receivedN = received /\ playedN = played /\ offeredN = offered /\ calledN = 1
    BY <2>1 DEF Sent, Received, Played, Called, Offered
  <2>3. before = 0
    BY <2>1
  <2>4. afterwards = 1
    BY <2>2, <2>3
  <2> QED BY <2>1, <2>4 DEF OneAsks
<1>6. ASSUME ws' = ws, afterwards <= before PROVE OneAsks'
  <2>1. afterwards <= 1 /\ (before = 0 => afterwards = 0)
    BY <1>6
  <2>2. Asking' <= 1 /\ (before = 0 => Asking' = 0)
    BY <2>1
  <2> QED BY <1>6, <2>2 DEF OneAsks
<1>7. CASE JoinsRoom \/ AsksAgain
  <2>1. wsAt \in {"join", "replay"} /\ wsAt' = "idle"
        /\ UNCHANGED <<ws, toClient, serving, describing>>
    BY <1>7 DEF JoinsRoom, AsksAgain, SendJoinRoom, SendPlayRoomAgain, room
  <2>2. sentN <= sent + 1
    <3>1. Join \in Sendable /\ Play(Room) \in Sendable
      BY RequestTypes, SendableTypes
    <3> QED BY <1>7, <3>1, EmitsAsk DEF JoinsRoom, AsksAgain
  <2>3. receivedN = received /\ playedN = played /\ offeredN = offered /\ called = 1 /\ calledN = 0
    BY <2>1 DEF Received, Played, Called, Offered
  <2>4. afterwards <= before
    BY <2>2, <2>3
  <2> QED BY <1>6, <2>1, <2>4
<1>8. CASE SendsDescription
  <2>1. PICK d \in describing : Emits(d) /\ describing' = describing \ {d}
    BY <1>8 DEF SendsDescription
  <2>2. UNCHANGED <<ws, wsAt, toClient, serving>>
    BY <1>8 DEF SendsDescription, room
  <2>3. PICK s \in Streams, t \in SdpTypes : d = Local(s, t) /\ d \in Descriptions
    BY <2>1 DEF SystemTypes, SystemTypeOK, Descriptions, Streams, SdpTypes
  <2>4. d \in AskRequests => d = Local(Self, "offer")
    BY <2>3, RequestsThatAsk DEF SdpTypes
  <2>5. d \in Sendable
    BY <2>3, SendableTypes DEF SdpTypes
  <2>6. sentN = sent + (IF ws = "open" /\ d \in AskRequests THEN 1 ELSE 0)
    BY <2>1, <2>5, EmitsAsk
  <2>7. receivedN = received /\ playedN = played /\ calledN = called
    BY <2>2 DEF Received, Played, Called
  <2>8. sentN + offeredN <= sent + offered
    <3>1. CASE d = Local(Self, "offer")
      <4>1. offered = 1 /\ offeredN = 0
        BY <2>1, <3>1 DEF Offered
      <4> QED BY <2>6, <4>1
    <3>2. CASE d # Local(Self, "offer")
      <4>1. sentN = sent
        BY <2>4, <2>6, <3>2
      <4>2. offeredN = offered
        BY <2>1, <3>2 DEF Offered
      <4> QED BY <4>1, <4>2
    <3> QED BY <3>1, <3>2
  <2>9. afterwards <= before
    BY <2>7, <2>8
  <2> QED BY <1>6, <2>2, <2>9
<1>9. CASE ReceivesJoined \/ ReceivesPublishStarted
  <2>1. UNCHANGED <<ws, wsAt, describing, serving>>
    BY <1>9 DEF ReceivesJoined, ReceivesPublishStarted, Receives, JoinedTheRoom,
                PublishStarted, room
  <2>2. sentN <= sent + 1
    <3>1. Publish(~m_isOnlyPlayer) \in Sendable /\ Play(Room) \in Sendable
      BY RequestTypes, SendableTypes
    <3> QED BY <1>9, <3>1, EmitsAsk DEF ReceivesJoined, ReceivesPublishStarted
  <2>3. received = receivedN + 1
    BY <1>9, ReceivesAsk, MessagesThatAsk DEF ReceivesJoined, ReceivesPublishStarted
  <2>4. playedN = played /\ calledN = called /\ offeredN = offered
    BY <2>1 DEF Played, Called, Offered
  <2>5. afterwards <= before
    BY <2>2, <2>3, <2>4
  <2> QED BY <1>6, <2>1, <2>5
<1>10. CASE ReceivesStart
  <2>1. UNCHANGED <<ws, wsAt, toServer, serving>>
    BY <1>10 DEF ReceivesStart, Receives, StartOffer, room
  <2>2. sentN = sent /\ playedN = played /\ calledN = called
    BY <2>1 DEF Sent, Played, Called
  <2>3. received = receivedN + 1
    BY <1>10, ReceivesAsk, MessagesThatAsk DEF ReceivesStart
  <2>4. afterwards <= before
    <3>1. offered = 0
      BY <2>3
    <3> QED BY <2>2, <2>3, <3>1
  <2> QED BY <1>6, <2>1, <2>4
<1>11. CASE ReceivesAnswer
  <2>1. UNCHANGED <<ws, wsAt, toServer, serving, describing>>
    BY <1>11 DEF ReceivesAnswer, Receives, RemoteSDPAccepted, room
  <2>2. sentN = sent /\ playedN = played /\ calledN = called /\ offeredN = offered
    BY <2>1 DEF Sent, Played, Called, Offered
  <2>3. received = receivedN
    BY <1>11, ReceivesAsk, MessagesThatAsk DEF ReceivesAnswer
  <2>4. afterwards <= before
    BY <2>2, <2>3
  <2> QED BY <1>6, <2>1, <2>4
<1>12. ASSUME NEW s \in {Room} \cup Others, ReceivesOffer(s) PROVE OneAsks'
  <2>1. UNCHANGED <<ws, wsAt, toServer, serving>> /\ describing' = describing \cup {Local(s, "answer")}
    BY <1>12 DEF ReceivesOffer, Receives, RemoteSDPAccepted, room
  <2>2. Local(s, "answer") # Local(Self, "offer")
    BY RequestsThatAsk DEF Streams
  <2>3. sentN = sent /\ playedN = played /\ calledN = called /\ offeredN = offered
    BY <2>1, <2>2 DEF Sent, Played, Called, Offered
  <2>4. received = receivedN
    BY <1>12, ReceivesAsk, MessagesThatAsk DEF ReceivesOffer
  <2>5. afterwards <= before
    BY <2>3, <2>4
  <2> QED BY <1>6, <2>1, <2>5
<1>13. ASSUME NEW s \in {Room} \cup Others, ReceivesPlayFinished(s) PROVE OneAsks'
  <2>1. UNCHANGED <<ws, toServer, serving>> /\ describing' \subseteq describing /\ wsAt = "idle"
        /\ wsAt' = IF s = Room THEN "replay" ELSE "idle"
    BY <1>13 DEF ReceivesPlayFinished, Receives, PlayFinished, DeliversLocked, Delivers, room
  <2>2. sentN = sent /\ playedN = played /\ offeredN <= offered
    BY <2>1 DEF Sent, Played, Offered
  <2>3. called = 0 /\ calledN = IF s = Room THEN 1 ELSE 0
    BY <2>1 DEF Called
  <2>4. received = receivedN + (IF s = Room THEN 1 ELSE 0)
    BY <1>13, ReceivesAsk, MessagesThatAsk DEF ReceivesPlayFinished
  <2>5. afterwards <= before
    BY <2>2, <2>3, <2>4
  <2> QED BY <1>6, <2>1, <2>5
<1>14. ASSUME NEW s \in Others, ReceivesAdded(s) \/ ReceivesRemoved(s) PROVE OneAsks'
  <2>1. UNCHANGED <<ws, wsAt, serving, describing>>
    BY <1>14 DEF ReceivesAdded, ReceivesRemoved, Receives, SubtrackAdded, SubtrackRemoved, room
  <2>2. sentN = sent
    <3>1. Play(s) \in Sendable /\ Play(s) \notin AskRequests
      BY RequestTypes, SendableTypes, RequestsThatAsk
    <3>2. CASE Emits(Play(s))
      BY <3>1, <3>2, EmitsAsk
    <3>3. CASE UNCHANGED toServer
      BY <3>3 DEF Sent
    <3> QED BY <1>14, <3>2, <3>3 DEF ReceivesAdded, ReceivesRemoved
  <2>3. received = receivedN
    BY <1>14, ReceivesAsk, MessagesThatAsk DEF ReceivesAdded, ReceivesRemoved
  <2>4. playedN = played /\ calledN = called /\ offeredN = offered
    BY <2>1 DEF Played, Called, Offered
  <2>5. afterwards <= before
    BY <2>2, <2>3, <2>4
  <2> QED BY <1>6, <2>1, <2>5
<1> QED BY <1>4, <1>5, <1>7, <1>8, <1>9, <1>10, <1>11, <1>12, <1>13, <1>14
        DEF ClientGoesOn, ClientReceives

(* The server's steps: what asks is answered by what asks, a play of the   *)
(* room stands or ends, and nothing else leads to one.                     *)
LEMMA ServerOneAsks ==
    ASSUME SystemIInv, SystemTypes',
           \/ ServerReceives
           \/ \E o \in Others : Enters(o) \/ Leaves(o)
           \/ \E s \in {Room} \cup Others : Finishes(s)
    PROVE  OneAsks'
<1>1. OneAsks /\ SystemTypes
  BY DEF SystemIInv
<1>2. PICK sent, received, played, called, offered \in Nat,
           sentN, receivedN, playedN, calledN, offeredN \in Nat :
        /\ Sent = sent /\ Received = received /\ Sent' = sentN /\ Received' = receivedN
        /\ Played = played /\ Called = called /\ Offered = offered
        /\ Played' = playedN /\ Called' = calledN /\ Offered' = offeredN
  <2>1. /\ Sent \in Nat /\ Received \in Nat /\ Sent' \in Nat /\ Received' \in Nat
        /\ Played \in Nat /\ Called \in Nat /\ Offered \in Nat
        /\ Played' \in Nat /\ Called' \in Nat /\ Offered' \in Nat
    BY <1>1, AskingTypes
  <2> QED BY <2>1
<1>n. /\ played \in 0..1 /\ called \in 0..1 /\ offered \in 0..1
      /\ playedN \in 0..1 /\ calledN \in 0..1 /\ offeredN \in 0..1
  BY <1>1, <1>2, AskingTypes
<1> DEFINE before == sent + received + played + called + offered
           afterwards == sentN + receivedN + playedN + calledN + offeredN
<1> USE <1>1, <1>2, <1>n
<1>3. UNCHANGED <<ws, wsAt, describing>>
  BY DEF ServerReceives, TakesJoin, TakesPublish, TakesOffer, TakesAnswer, TakesPlayRoom,
         TakesPlay, Takes, Enters, Leaves, Finishes
<1>4. calledN = called /\ offeredN = offered
  BY <1>3 DEF Called, Offered
<1>5. SUFFICES sentN + receivedN + playedN <= sent + received + played
  <2>1. /\ Asking = before /\ Asking' = afterwards
        /\ before <= 1 /\ (ws \in {"none", "connecting"} => before = 0) /\ ws # "closed"
    BY DEF OneAsks, Asking
  <2>2. afterwards <= before
    BY <1>4, <1>5
  <2>3. afterwards <= 1 /\ (before = 0 => afterwards = 0)
    BY <2>1, <2>2
  <2>4. Asking' <= 1 /\ (before = 0 => Asking' = 0)
    BY <2>1, <2>3
  <2> QED BY <1>3, <2>1, <2>4 DEF OneAsks
<1>6. CASE TakesJoin \/ TakesPublish
  <2>1. sent = sentN + 1
    BY <1>6, TakesAsk, RequestsThatAsk DEF TakesJoin, TakesPublish
  <2>2. receivedN = received + 1
    BY <1>6, AnswersOneAsk, MessagesThatAsk, MessageTypes DEF TakesJoin, TakesPublish
  <2>3. playedN = played
    BY <1>6 DEF TakesJoin, TakesPublish, Played
  <2> QED BY <2>1, <2>2, <2>3
<1>7. CASE TakesOffer
  <2>1. sent = sentN + 1
    <3>1. Local(Self, "offer") \in AskRequests
      BY RequestsThatAsk DEF Streams
    <3> QED BY <1>7, <3>1, TakesAsk DEF TakesOffer
  <2>2. receivedN = received + 1
    <3> DEFINE answer == Msg("answer", Self)
               started == Msg("publish_started", Self)
    <3>1. /\ answer \in Messages /\ answer \notin AskMessages
          /\ started \in Messages /\ started \in AskMessages
      BY MessageTypes, MessagesThatAsk
    <3>2. Answers(<<answer, started>>)
      BY <1>7 DEF TakesOffer
    <3> DEFINE q == <<answer>>
    <3> HIDE DEF answer, started
    <3>3. /\ q \in Seq(Messages) /\ <<answer, started>> \in Seq(Messages)
          /\ <<answer, started>> = Append(q, started)
      BY <3>1
    <3>4. Tokens(q, AskMessages) = 0
      BY <3>1, TokensOne
    <3> HIDE DEF q
    <3>5. Tokens(Append(q, started), AskMessages) = 1
      BY <3>1, <3>3, <3>4, TokensAppend
    <3> QED BY <3>2, <3>3, <3>5, AnswersAsk
  <2>3. playedN = played
    BY <1>7 DEF TakesOffer, Played
  <2> QED BY <2>1, <2>2, <2>3
<1>8. ASSUME NEW s \in {Room} \cup Others, TakesAnswer(s)
      PROVE  sentN + receivedN + playedN <= sent + received + played
  <2>1. Local(s, "answer") \notin AskRequests
    BY RequestsThatAsk DEF Streams
  <2>2. sentN = sent
    BY <1>8, <2>1, TakesAsk DEF TakesAnswer
  <2>3. receivedN = received /\ playedN = played
    BY <1>8 DEF TakesAnswer, Received, Played
  <2> QED BY <2>2, <2>3
<1>9. CASE TakesPlayRoom
  <2>1. sent = sentN + 1
    BY <1>9, TakesAsk, RequestsThatAsk DEF TakesPlayRoom
  <2>2. CASE present = {}
    <3>1. receivedN = received + 1
      BY <1>9, <2>2, AnswersOneAsk, MessagesThatAsk, MessageTypes DEF TakesPlayRoom
    <3>2. playedN = played
      BY <1>9, <2>2 DEF TakesPlayRoom, Played
    <3> QED BY <2>1, <3>1, <3>2
  <2>3. CASE present # {}
    <3> DEFINE offer == <<Msg("offer", Room)>>
               tracks == SetToSeq(Announced(present))
    <3>1. present \in SUBSET Others
      BY DEF SystemTypes, SystemTypeOK
    <3>2. offer \in Seq(Messages) /\ tracks \in Seq(Messages)
      BY <3>1, MessageTypes, AnnouncedType
    <3>3. \A m \in Announced(present) : m \notin AskMessages
      BY <3>1, MessagesThatAsk DEF Announced
    <3>4. \A i \in DOMAIN tracks : tracks[i] \in Announced(present)
      BY <3>1, AnnouncedType
    <3>5. Tokens(offer, AskMessages) = 0
      BY TokensOne, MessagesThatAsk
    <3> DEFINE ms == offer \o tracks
    <3>6. Answers(ms)
      BY <1>9, <2>3 DEF TakesPlayRoom, Announced
    <3> HIDE DEF offer, tracks
    <3>7. Tokens(tracks, AskMessages) = 0
      BY <3>3, <3>4, TokensNone
    <3>8. ms \in Seq(Messages)
      BY <3>2
    <3>9. Tokens(ms, AskMessages) = 0
      BY <3>2, <3>5, <3>7, TokensConcat
    <3> HIDE DEF ms
    <3>10. receivedN = received
      BY <3>6, <3>8, <3>9, AnswersAsk
    <3> QED BY <2>1, <3>10
  <2> QED BY <2>2, <2>3
<1>10. ASSUME NEW s \in Others, TakesPlay(s)
       PROVE  sentN + receivedN + playedN <= sent + received + played
  <2>1. s # Room /\ Play(s) \notin AskRequests
    BY ConstantsAssumption, RequestsThatAsk
  <2>2. sentN = sent
    BY <1>10, <2>1, TakesAsk DEF TakesPlay
  <2>3. receivedN = received
    <3>1. /\ Msg("offer", s) \notin AskMessages /\ Msg("offer", s) \in Messages
          /\ Msg("play_finished", s) \notin AskMessages /\ Msg("play_finished", s) \in Messages
      BY <2>1, MessagesThatAsk, MessageTypes
    <3>2. CASE UNCHANGED toClient
      BY <3>2 DEF Received
    <3>3. CASE Answers(<<Msg("offer", s)>>) \/ Answers(<<Msg("play_finished", s)>>)
      BY <3>1, <3>3, AnswersNoAsk
    <3> QED BY <1>10, <3>2, <3>3 DEF TakesPlay
  <2>4. playedN = played
    BY <1>10, <2>1 DEF TakesPlay, Played
  <2> QED BY <2>2, <2>3, <2>4
<1>11. ASSUME NEW o \in Others, Enters(o) \/ Leaves(o)
       PROVE  sentN + receivedN + playedN <= sent + received + played
  <2>1. /\ Msg("subtrackAdded", o) \notin AskMessages /\ Msg("subtrackAdded", o) \in Messages
        /\ Msg("subtrackRemoved", o) \notin AskMessages /\ Msg("subtrackRemoved", o) \in Messages
    BY MessagesThatAsk, MessageTypes
  <2>2. receivedN = received
    BY <1>11, <2>1, AnswersNoAsk DEF Enters, Leaves
  <2>3. sentN = sent /\ playedN = played
    BY <1>11 DEF Enters, Leaves, Sent, Played
  <2> QED BY <2>2, <2>3
<1>12. ASSUME NEW s \in {Room} \cup Others, Finishes(s)
       PROVE  sentN + receivedN + playedN <= sent + received + played
  <2>1. s \in serving /\ serving' = serving \ {s} /\ UNCHANGED toServer
        /\ Answers(<<Msg("play_finished", s)>>)
    BY <1>12 DEF Finishes, SystemTypes, SystemTypeOK
  <2>2. sentN = sent
    BY <2>1 DEF Sent
  <2>3. CASE s = Room
    <3>1. receivedN = received + 1
      BY <2>1, <2>3, AnswersOneAsk, MessagesThatAsk, MessageTypes
    <3>2. played = 1 /\ playedN = 0
      BY <2>1, <2>3 DEF Played
    <3> QED BY <2>2, <3>1, <3>2
  <2>4. CASE s # Room
    <3>1. receivedN = received
      BY <2>1, <2>4, AnswersNoAsk, MessagesThatAsk, MessageTypes
    <3>2. playedN = played
      BY <2>1, <2>4 DEF Played
    <3> QED BY <2>2, <3>1, <3>2
  <2> QED BY <2>3, <2>4
<1> QED BY <1>6, <1>7, <1>8, <1>9, <1>10, <1>11, <1>12 DEF ServerReceives


LEMMA SystemInitOneAsks == SystemInit => OneAsks
<1> SUFFICES ASSUME SystemInit PROVE OneAsks
  OBVIOUS
<1>1. /\ toServer = <<>> /\ toClient = <<>> /\ describing = {} /\ serving = {}
      /\ ws = "none" /\ wsAt = "idle"
  BY DEF SystemInit, Init
<1>2. Sent = 0 /\ Received = 0
  <2>1. Tokens(<<>>, AskRequests) = 0 /\ Tokens(<<>>, AskMessages) = 0
    BY TokensNone
  <2> QED BY <1>1, <2>1 DEF Sent, Received
<1>3. Played = 0 /\ Called = 0 /\ Offered = 0
  BY <1>1 DEF Played, Called, Offered
<1>4. Asking = 0
  BY <1>2, <1>3 DEF Asking
<1> QED BY <1>1, <1>4 DEF OneAsks

LEMMA SystemNextOneAsks == SystemIInv /\ SystemTypes' /\ [SystemNext]_all => OneAsks'
<1> SUFFICES ASSUME SystemIInv, SystemTypes', [SystemNext]_all PROVE OneAsks'
  OBVIOUS
<1>1. CASE SystemNext
  BY <1>1, ClientOneAsks, ServerOneAsks DEF SystemNext
<1>2. CASE UNCHANGED all
  <2>1. Asking' = Asking /\ ws' = ws
    BY <1>2 DEF all, channels, room, Asking, Sent, Received, Played, Called, Offered
  <2> QED BY <2>1 DEF SystemIInv, OneAsks
<1> QED BY <1>1, <1>2

LEMMA OneAsksMeansOnce == SystemIInv => RoomAskedOnce
<1> SUFFICES ASSUME SystemIInv PROVE RoomAskedOnce
  OBVIOUS
<1>1. toServer \in Seq(Sendable) /\ toClient \in Seq(Messages) /\ Asking <= 1
  BY DEF SystemIInv, SystemTypes, SystemTypeOK, OneAsks
<1> DEFINE request == Play(Room)
           over == Msg("play_finished", Room)
           replay == IF wsAt = "replay" THEN 1 ELSE 0
<1>2. request \in AskRequests /\ over \in AskMessages
  BY RequestsThatAsk, MessagesThatAsk
<1> HIDE DEF request, over
<1>3. /\ Count(toServer, request) <= Sent /\ Count(toServer, request) \in Nat
      /\ Count(toClient, over) <= Received /\ Count(toClient, over) \in Nat
  BY <1>1, <1>2, TokensFewer DEF Sent, Received
<1>4. Cardinality(serving \cap {Room}) = Played
  <2>1. serving \cap {Room} = IF Room \in serving THEN {Room} ELSE {}
    OBVIOUS
  <2> QED BY <2>1, FS_Singleton, FS_EmptySet DEF Played
<1>5. replay <= Called /\ replay \in Nat /\ Called \in Nat /\ Played \in Nat /\ Offered \in Nat
  BY DEF Called, Played, Offered
<1>6. Sent \in Nat /\ Received \in Nat
  BY <1>1, TokensType DEF Sent, Received
<1> HIDE DEF replay
<1>7. PICK asked, ended, again, sent, received, played, called, offered \in Nat :
        /\ Count(toServer, request) = asked /\ Count(toClient, over) = ended /\ replay = again
        /\ Sent = sent /\ Received = received
        /\ Played = played /\ Called = called /\ Offered = offered
  BY <1>3, <1>5, <1>6
<1>8. /\ asked <= sent /\ ended <= received /\ again <= called
      /\ sent + received + played + called + offered <= 1
  BY <1>1, <1>3, <1>5, <1>7 DEF Asking
<1>9. asked + played + ended + again <= 1
  BY <1>8
<1> QED BY <1>4, <1>7, <1>9 DEF RoomAskedOnce, request, over, replay

(***************************************************************************)
(* A client that talks to a server that follows the dialogue behaves as    *)
(* Conference lets it, so that what is proved of the client alone holds    *)
(* of it with this server too.                                             *)
(***************************************************************************)
THEOREM ClientOfSystem == SystemSpec => Init /\ [][Next]_vars
<1>1. SystemInit => Init
  BY DEF SystemInit
<1> QED BY <1>1, SystemStepsAreSteps, PTL DEF SystemSpec

(* Each side is only sent what it can take, of all that is under way or    *)
(* still to be sent, and the server's state keeps its types.               *)
THEOREM SystemTypeCorrect == SystemSpec => []SystemTypeOK
<1>1. SystemTypes => SystemTypeOK
  BY DEF SystemTypes
<1> QED BY SystemInitTypeOK, SystemNextTypeOK, <1>1, PTL DEF SystemSpec

LEMMA OneAsksAlways == SystemSpec => []SystemIInv
<1>1. SystemInit => SystemIInv
  BY SystemInitTypeOK, SystemInitOneAsks DEF SystemIInv
<1>2. SystemIInv /\ [SystemNext]_all => SystemIInv'
  BY SystemNextTypeOK, SystemNextOneAsks DEF SystemIInv
<1> QED BY <1>1, <1>2, PTL DEF SystemSpec

(* The room is played once at a time: while it is played, or a request for *)
(* it, the report of its end or the client's asking again is still to      *)
(* come, there is no second one of these.                                  *)
THEOREM RoomAskedOnceHolds == SystemSpec => []RoomAskedOnce
BY OneAsksAlways, OneAsksMeansOnce, PTL
=============================================================================
