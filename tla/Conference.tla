----------------------------- MODULE Conference -----------------------------
(***************************************************************************)
(* One conference client (WebRTCManager.cpp) against an open signaling     *)
(* server: the API calls Start and Stop, the handlers of the signaling     *)
(* WebSocket and the events of the peer connections.                       *)
(*                                                                         *)
(* A handler runs as one step, except where it leaves m_stateMutex and     *)
(* goes on: onConnected and onPlayFinishedNotification are two steps, and  *)
(* cleanupResources is three, because the handlers that take no lock run   *)
(* between its parts.  wsAt says where the WebSocket thread is.            *)
(*                                                                         *)
(* told is the server's side: the requests it was sent on this connection  *)
(* and that were neither withdrawn by the client nor ended by the server;  *)
(* repeated are those it was sent while they stood.                        *)
(*                                                                         *)
(* Left out: played (written, never read), the media state (remoteTracks,  *)
(* midTypeMap, isStreamTalking, m_gstManager), the two callbacks that only *)
(* send (onLocalDescription, onLocalCandidate), and the server URL, whose  *)
(* only effect is that Start fails or goes on.                             *)
(***************************************************************************)
EXTENDS PeerConnection, Requests

CONSTANTS Cands,      \* remote ICE candidates
          DcLabels    \* labels of the data channels the server opens

VARIABLES
    phase,                \* idle: ~m_isCommunicating; leaving, clearing: in Stop
    m_isOnlyPlayer,
    ws,                   \* m_ws, none when there is no signaling context
    m_wsOpen,
    wsAt,                 \* where the WebSocket thread is in a handler
    pcs,                  \* keys of pcs
    pc,                   \* their connections, NewPc for the other streams
    isPublisher,          \* keys mapped to true
    sendPlay,             \* keys mapped to true
    pendingCandidates,
    localDataChannels,    \* keys
    remoteDataChannels,   \* keys
    told,                 \* the server's view of what was asked
    repeated              \* and what was asked again

trackers == <<pcs, pc, isPublisher, sendPlay, pendingCandidates,
              localDataChannels, remoteDataChannels>>
peers    == <<pcs, pc, isPublisher, localDataChannels>>
session  == <<phase, m_isOnlyPlayer>>
socket   == <<ws, m_wsOpen>>
server   == <<told, repeated>>
vars     == <<session, socket, wsAt, trackers, server>>

(* The trackers, the socket and the requests keep their types; the client  *)
(* never marks its own stream as one it plays.                             *)
TypeOK ==
    /\ phase \in {"idle", "running", "leaving", "clearing"}
    /\ m_isOnlyPlayer \in BOOLEAN
    /\ ws \in {"none", "connecting", "open", "closed"}
    /\ m_wsOpen \in BOOLEAN
    /\ wsAt \in {"idle", "join", "replay", "blocked"}
    /\ pcs \subseteq Streams
    /\ pc \in [Streams -> PcState]
    /\ isPublisher \subseteq Streams
    /\ sendPlay \subseteq Streams \ {Self}
    /\ pendingCandidates \in [Streams -> SUBSET Cands]
    /\ localDataChannels \subseteq Streams
    /\ remoteDataChannels \subseteq DcLabels
    /\ told \subseteq Requests
    /\ repeated \subseteq Requests

NoPeers   == [s \in Streams |-> NewPc]
NoPending == [s \in Streams |-> {}]

Init ==
    /\ phase = "idle"
    /\ m_isOnlyPlayer = FALSE
    /\ ws = "none"
    /\ m_wsOpen = FALSE
    /\ wsAt = "idle"
    /\ pcs = {}
    /\ pc = NoPeers
    /\ isPublisher = {}
    /\ sendPlay = {}
    /\ pendingCandidates = NoPending
    /\ localDataChannels = {}
    /\ remoteDataChannels = {}
    /\ told = {}
    /\ repeated = {}

-----------------------------------------------------------------------------
(* Sending: WebSocket::send throws unless the socket is open, and whatever *)
(* the handler did before the call stays done.                             *)
Sends(m) ==
    /\ told' = IF ws = "open" THEN told \cup {m} ELSE told
    /\ repeated' = IF ws = "open" THEN repeated \cup ({m} \cap told) ELSE repeated

(* setupPublishPeer: nothing if the peer exists; otherwise a connection    *)
(* with the local tracks (publisher role only) and the data channel.       *)
SetupPublishPeer(onlyPlayer) ==
    IF Self \in pcs THEN UNCHANGED peers
    ELSE /\ pcs' = pcs \cup {Self}
         /\ pc' = [pc EXCEPT ![Self] = [NewPc EXCEPT !.media = ~onlyPlayer]]
         /\ isPublisher' = isPublisher \cup {Self}
         /\ localDataChannels' = localDataChannels \cup {Self}

-----------------------------------------------------------------------------
(* The API *)

(* Mutant: the role is stored only after the publisher's connection was    *)
(* set up for the role of the session before.                              *)
StartConnects_RoleSetLate(isPlayer) ==
    /\ phase = "idle"
    /\ phase' = "running"
    /\ m_isOnlyPlayer' = isPlayer
    /\ SetupPublishPeer(m_isOnlyPlayer)
    /\ ws' = "connecting"
    /\ m_wsOpen' = FALSE
    /\ told' = {}
    /\ repeated' = {}
    /\ UNCHANGED <<wsAt, sendPlay, pendingCandidates, remoteDataChannels>>

(* Start2WayCommunication: m_ws.open accepts the URL and connects in the   *)
(* background, or throws, and everything set up is cleaned up again.  (A   *)
(* call without a URL or while running returns and changes nothing.)       *)
StartConnects(isPlayer) ==
    /\ phase = "idle"
    /\ phase' = "running"
    /\ m_isOnlyPlayer' = isPlayer
    /\ SetupPublishPeer(isPlayer)
    /\ ws' = "connecting"
    /\ m_wsOpen' = FALSE
    /\ told' = {}
    /\ repeated' = {}
    /\ UNCHANGED <<wsAt, sendPlay, pendingCandidates, remoteDataChannels>>

(* Mutant: the candidates kept for connections to come are not cleared. *)
ClearedTrackers_KeepCandidates ==
    /\ pcs' = {}
    /\ pc' = NoPeers
    /\ isPublisher' = {}
    /\ sendPlay' = {}
    /\ localDataChannels' = {}
    /\ remoteDataChannels' = {}
    /\ UNCHANGED pendingCandidates

ClearedTrackers ==
    /\ pcs' = {}
    /\ pc' = NoPeers
    /\ isPublisher' = {}
    /\ sendPlay' = {}
    /\ pendingCandidates' = NoPending
    /\ localDataChannels' = {}
    /\ remoteDataChannels' = {}

StartFails(isPlayer) ==
    /\ phase = "idle"
    /\ m_isOnlyPlayer' = isPlayer
    /\ ClearedTrackers
    /\ UNCHANGED <<phase, socket, wsAt, server>>

(* Stop2WayCommunication, first part of cleanupResources: the leave        *)
(* commands, sent without m_stateMutex.                                    *)
LeaveConference ==
    /\ phase = "running"
    /\ phase' = "leaving"
    /\ told' = IF Self \in isPublisher /\ ws = "open" THEN told \ OwnRequests ELSE told
    /\ UNCHANGED <<m_isOnlyPlayer, socket, wsAt, trackers, repeated>>

(* Second part: m_stateMutex is taken, and kept, and the trackers cleared. *)
ClearTrackers ==
    /\ phase = "leaving"
    /\ phase' = "clearing"
    /\ ClearedTrackers
    /\ UNCHANGED <<m_isOnlyPlayer, socket, wsAt, server>>

(* Last part, m_stateMutex still held: Disconnect detaches the WebSocket   *)
(* callbacks, which waits for a handler that is running.                   *)
CloseSignaling ==
    /\ phase = "clearing"
    /\ wsAt = "idle"
    /\ phase' = "idle"
    /\ ws' = "none"
    /\ m_wsOpen' = FALSE
    /\ UNCHANGED <<m_isOnlyPlayer, wsAt, trackers, server>>

-----------------------------------------------------------------------------
(* The signaling WebSocket *)

(* m_ws.onOpen, then onConnected up to the end of setupPublishPeer.        *)
WsOpened ==
    /\ ws = "connecting"
    /\ wsAt = "idle"
    /\ phase \in {"running", "leaving"}
    /\ ws' = "open"
    /\ m_wsOpen' = TRUE
    /\ SetupPublishPeer(m_isOnlyPlayer)
    /\ wsAt' = "join"
    /\ UNCHANGED <<session, sendPlay, pendingCandidates, remoteDataChannels, server>>

(* The rest of onConnected, outside m_stateMutex. *)
SendJoinRoom ==
    /\ wsAt = "join"
    /\ wsAt' = "idle"
    /\ Sends(Join)
    /\ UNCHANGED <<session, socket, trackers>>

(* The connection attempt fails or the connection is lost; a server that   *)
(* loses a connection forgets its requests.                                *)
WsDrops ==
    /\ ws \in {"connecting", "open"}
    /\ ws' = "closed"
    /\ told' = {}
    /\ repeated' = {}
    /\ UNCHANGED <<session, m_wsOpen, wsAt, trackers>>

(* m_ws.onClosed; there is no reconnection. *)
OnClosed ==
    /\ ws = "closed"
    /\ wsAt = "idle"
    /\ m_wsOpen
    /\ m_wsOpen' = FALSE
    /\ UNCHANGED <<session, ws, wsAt, trackers, server>>

(* A message is handed to handleMessage: what was received before a close  *)
(* still is, until onClosed ran.                                           *)
Delivers ==
    /\ wsAt = "idle"
    /\ ws \in {"open", "closed"}
    /\ m_wsOpen

(* Handlers that take m_stateMutex run before cleanupResources has it ...  *)
DeliversLocked == Delivers /\ phase \in {"running", "leaving"}

(* ... and wait for it once it has.                                        *)
HandlerBlocks ==
    /\ phase = "clearing"
    /\ wsAt = "idle"
    /\ \/ Delivers /\ UNCHANGED socket
       \/ ws = "connecting" /\ ws' = "open" /\ m_wsOpen' = TRUE
    /\ wsAt' = "blocked"
    /\ UNCHANGED <<session, trackers, server>>

-----------------------------------------------------------------------------
(* Session descriptions and candidates *)

(* createPeerIfNotExist: the connections after it ran for stream s. *)
WithPeer(s) == IF s \in pcs THEN pc ELSE [pc EXCEPT ![s] = NewPc]

CreatePeerIfNotExist(s) ==
    /\ pcs' = pcs \cup {s}
    /\ isPublisher' = IF s \in pcs THEN isPublisher ELSE isPublisher \ {s}

(* Mutant: the candidates that came early are not added. *)
RemoteSDPAccepted_NoFlush(s, type) ==
    /\ DeliversLocked
    /\ AcceptsRemote(WithPeer(s)[s], type)
    /\ CreatePeerIfNotExist(s)
    /\ LET p == AfterRemote(WithPeer(s)[s], type)
       IN  \E q \in IF type = "offer" THEN AfterLocalAnswer(p) ELSE {p} :
               pc' = [pc EXCEPT ![s] = q]
    /\ UNCHANGED <<session, socket, wsAt, sendPlay, pendingCandidates,
                   localDataChannels, remoteDataChannels, server>>

(* handleRemoteSDP when the connection takes the description: candidates   *)
(* that came early are added, and an offer is answered.                    *)
RemoteSDPAccepted(s, type) ==
    /\ DeliversLocked
    /\ AcceptsRemote(WithPeer(s)[s], type)
    /\ CreatePeerIfNotExist(s)
    /\ LET p == AfterRemote(WithPeer(s)[s], type)
       IN  \E q \in IF type = "offer" THEN AfterLocalAnswer(p) ELSE {p} :
               pc' = [pc EXCEPT ![s] = q]
    /\ pendingCandidates' = [pendingCandidates EXCEPT ![s] = {}]
    /\ UNCHANGED <<session, socket, wsAt, sendPlay, localDataChannels,
                   remoteDataChannels, server>>

(* handleRemoteSDP when parsing or the connection throws: the connection   *)
(* just created stays.                                                     *)
RemoteSDPRejected(s) ==
    /\ DeliversLocked
    /\ CreatePeerIfNotExist(s)
    /\ pc' = WithPeer(s)
    /\ UNCHANGED <<session, socket, wsAt, sendPlay, pendingCandidates,
                   localDataChannels, remoteDataChannels, server>>

(* addRemoteCandidate: kept for a stream with no connection; otherwise     *)
(* given to the connection, which throws without a remote description.     *)
AddRemoteCandidate(s, c) ==
    /\ DeliversLocked
    /\ s \notin pcs
    /\ pendingCandidates' = [pendingCandidates EXCEPT ![s] = @ \cup {c}]
    /\ UNCHANGED <<session, socket, wsAt, peers, sendPlay, remoteDataChannels, server>>

StartOffer(s) ==
    /\ DeliversLocked
    /\ s \in pcs
    /\ \E q \in AfterLocalOffer(pc[s]) : pc' = [pc EXCEPT ![s] = q]
    /\ UNCHANGED <<session, socket, wsAt, pcs, isPublisher, sendPlay,
                   pendingCandidates, localDataChannels, remoteDataChannels, server>>

-----------------------------------------------------------------------------
(* Notifications *)

JoinedTheRoom ==
    /\ Delivers
    /\ Sends(Publish(~m_isOnlyPlayer))
    /\ UNCHANGED <<session, socket, wsAt, trackers>>

PublishStarted ==
    /\ Delivers
    /\ Room \notin sendPlay
    /\ sendPlay' = sendPlay \cup {Room}
    /\ Sends(Play(Room))
    /\ UNCHANGED <<session, socket, wsAt, peers, pendingCandidates, remoteDataChannels>>

(* Mutant: the play mark outlives the connection. *)
RemovePeerIfNotExist_KeepMark(s) ==
    /\ localDataChannels' = localDataChannels \ {s}
    /\ remoteDataChannels' = remoteDataChannels \ {s}
    /\ pcs' = pcs \ {s}
    /\ pc' = [pc EXCEPT ![s] = NewPc]
    /\ UNCHANGED sendPlay

(* removePeerIfNotExist: the entries of s go, except isPublisher and the   *)
(* candidates.                                                             *)
RemovePeerIfNotExist(s) ==
    /\ localDataChannels' = localDataChannels \ {s}
    /\ remoteDataChannels' = remoteDataChannels \ {s}
    /\ pcs' = pcs \ {s}
    /\ pc' = [pc EXCEPT ![s] = NewPc]
    /\ sendPlay' = sendPlay \ {s}

(* Mutant: the room is not asked for again. *)
PlayFinished_NoReplay(s) ==
    /\ DeliversLocked
    /\ RemovePeerIfNotExist(s)
    /\ told' = told \ {Play(s)}
    /\ UNCHANGED <<session, socket, wsAt, isPublisher, pendingCandidates, repeated>>

(* Mutant: the room is asked for again whatever has ended. *)
PlayFinished_AlwaysReplay(s) ==
    /\ DeliversLocked
    /\ RemovePeerIfNotExist(s)
    /\ wsAt' = "replay"
    /\ told' = told \ {Play(s)}
    /\ UNCHANGED <<session, socket, isPublisher, pendingCandidates, repeated>>

(* onPlayFinished for a stream the client plays: never its own. *)
PlayFinished(s) ==
    /\ DeliversLocked
    /\ RemovePeerIfNotExist(s)
    /\ wsAt' = IF s = Room THEN "replay" ELSE "idle"
    /\ told' = told \ {Play(s)}
    /\ UNCHANGED <<session, socket, isPublisher, pendingCandidates, repeated>>

(* The rest of it for the room, outside m_stateMutex. *)
SendPlayRoomAgain ==
    /\ wsAt = "replay"
    /\ wsAt' = "idle"
    /\ sendPlay' = sendPlay \cup {Room}
    /\ Sends(Play(Room))
    /\ UNCHANGED <<session, socket, peers, pendingCandidates, remoteDataChannels>>

(* Mutant: a stream whose play is under way is asked for again. *)
SubtrackAdded_NoMarkCheck(s) ==
    /\ DeliversLocked
    /\ s # Self
    /\ ~(s \in pcs /\ ~pc[s].closed)
    /\ sendPlay' = sendPlay \cup {s}
    /\ Sends(Play(s))
    /\ UNCHANGED <<session, socket, wsAt, peers, pendingCandidates, remoteDataChannels>>

(* Mutant: the client's own stream is not excluded. *)
SubtrackAdded_OwnToo(s) ==
    /\ DeliversLocked
    /\ ~(s \in pcs /\ ~pc[s].closed)
    /\ s \notin sendPlay
    /\ sendPlay' = sendPlay \cup {s}
    /\ Sends(Play(s))
    /\ UNCHANGED <<session, socket, wsAt, peers, pendingCandidates, remoteDataChannels>>

(* onSubtrackAdded: asked for unless it is the client's own stream, has a  *)
(* live connection, or is marked.                                          *)
SubtrackAdded(s) ==
    /\ DeliversLocked
    /\ s # Self
    /\ ~(s \in pcs /\ ~pc[s].closed)
    /\ s \notin sendPlay
    /\ sendPlay' = sendPlay \cup {s}
    /\ Sends(Play(s))
    /\ UNCHANGED <<session, socket, wsAt, peers, pendingCandidates, remoteDataChannels>>

(* A track that left the room is played to nobody any more. *)
SubtrackRemoved(s) ==
    /\ Delivers
    /\ sendPlay' = sendPlay \ {s}
    /\ told' = told \ {Play(s)}
    /\ UNCHANGED <<session, socket, wsAt, peers, pendingCandidates,
                   remoteDataChannels, repeated>>

-----------------------------------------------------------------------------
(* Events of the peer connections *)

(* onDataChannel, set on the publisher's and the room's connection. *)
DataChannelDetected(s, label) ==
    /\ phase \in {"running", "leaving"}
    /\ s \in pcs \cap {Self, Room}
    /\ ~pc[s].closed
    /\ remoteDataChannels' = remoteDataChannels \cup {label}
    /\ UNCHANGED <<session, socket, wsAt, peers, sendPlay, pendingCandidates, server>>

(* The remote side or the network ends a connection; nobody is told. *)
PeerCloses(s) ==
    /\ s \in pcs
    /\ ~pc[s].closed
    /\ pc' = [pc EXCEPT ![s].closed = TRUE]
    /\ UNCHANGED <<session, socket, wsAt, pcs, isPublisher, sendPlay,
                   pendingCandidates, localDataChannels, remoteDataChannels, server>>

-----------------------------------------------------------------------------
Api ==
    \/ \E isPlayer \in BOOLEAN : StartConnects(isPlayer) \/ StartFails(isPlayer)
    \/ LeaveConference
    \/ ClearTrackers
    \/ CloseSignaling

Signaling ==
    \/ WsOpened
    \/ SendJoinRoom
    \/ WsDrops
    \/ OnClosed
    \/ HandlerBlocks
    \/ \E s \in Streams, type \in SdpTypes : RemoteSDPAccepted(s, type)
    \/ \E s \in Streams : RemoteSDPRejected(s) \/ StartOffer(s)
    \/ \E s \in Streams, c \in Cands : AddRemoteCandidate(s, c)
    \/ JoinedTheRoom
    \/ PublishStarted
    \/ \E s \in Streams \ {Self} : PlayFinished(s)
    \/ SendPlayRoomAgain
    \/ \E s \in Streams \ {Room} : SubtrackAdded(s) \/ SubtrackRemoved(s)

PeerEvents ==
    \/ \E s \in Streams, label \in DcLabels : DataChannelDetected(s, label)
    \/ \E s \in Streams : PeerCloses(s)

Next == Api \/ Signaling \/ PeerEvents

(* The API thread gets the locks it waits for and a handler that runs goes *)
(* on; nothing makes the application or the server do anything.            *)
Fairness ==
    /\ WF_vars(ClearTrackers)
    /\ WF_vars(CloseSignaling)
    /\ WF_vars(SendJoinRoom)
    /\ WF_vars(SendPlayRoomAgain)

Spec == Init /\ [][Next]_vars /\ Fairness

-----------------------------------------------------------------------------
(* Correctness *)

(* While the client is in the conference its own connection is tracked as  *)
(* the publisher's, with a data channel, and carries media exactly when    *)
(* the role says so: what cleanupResources, SendChatMessage and the        *)
(* publish command each assume on their own.                               *)
PublisherReady ==
    phase \in {"running", "leaving"} =>
        /\ Self \in pcs \cap isPublisher \cap localDataChannels
        /\ pc[Self].media = ~m_isOnlyPlayer

(* Candidates that came before their connection are not stranded: none     *)
(* waits once the connection has its remote description.                   *)
NoStrandedCandidates ==
    \A s \in pcs : pc[s].remote => pendingCandidates[s] = {}

(* The play marks agree with the server: another participant's stream is   *)
(* marked exactly while the server holds a play request for it, and the    *)
(* room's request is always marked.                                        *)
MarksMatchRequests ==
    phase \in {"running", "leaving"} /\ ws = "open" =>
        /\ \A o \in Others : o \in sendPlay <=> Play(o) \in told
        /\ Play(Room) \in told => Room \in sendPlay

(* After Stop nothing of the session is left, except a play mark of the    *)
(* room that a handler set behind cleanupResources' back.                  *)
OnlyRoomMarkSurvives ==
    phase = "idle" =>
        /\ pcs = {} /\ isPublisher = {}
        /\ localDataChannels = {} /\ remoteDataChannels = {}
        /\ pendingCandidates = NoPending
        /\ sendPlay \subseteq {Room}

(* What the server sees of the client. *)
Contract == INSTANCE Membership WITH
    call   <- CASE phase = "idle" -> "idle" [] phase = "running" -> "in" [] OTHER -> "leaving",
    player <- m_isOnlyPlayer,
    asked  <- told,
    again  <- repeated

(* The client keeps its promises to the server: every step of the handlers *)
(* and of Start and Stop is one that Membership allows, or unseen.         *)
KeepsContract == Contract!Spec

(* README.md, "quit": leave the conference and end all connections.        *)
StopReturns == phase = "leaving" ~> phase = "idle"
=============================================================================
