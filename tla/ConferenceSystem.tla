--------------------------- MODULE ConferenceSystem ---------------------------
(***************************************************************************)
(* The client of Conference with a signaling server that follows the       *)
(* dialogue, the participants of the room, and the WebSocket between them, *)
(* which delivers in order.                                                *)
(*                                                                         *)
(* The server is not part of this repository: what it answers is taken     *)
(* from what the client's handlers and commands expect of it.  The client  *)
(* stays in the room, its socket and its connections hold, and the         *)
(* server's descriptions are good; Conference covers what happens          *)
(* otherwise.                                                              *)
(***************************************************************************)
EXTENDS Conference, SequencesExt

CONSTANT MaxVisits    \* bound: how often participants enter the room

(* A room has finitely many participants.                                 *)
ASSUME SystemAssumption == MaxVisits \in Nat /\ IsFiniteSet(Others)

VARIABLES
    toServer, toClient,    \* messages under way
    describing,            \* local descriptions not yet handed to the client
    present,               \* the participants in the room
    serving,               \* what the server plays to the client
    finishing,             \* of that, what has ended and was not reported
    visits,
    late                   \* who came back before the end was reported

channels == <<toServer, toClient>>
room     == <<present, serving, finishing, visits, late>>
all      == <<vars, channels, describing, room>>

Local(s, type) == <<"takeConfiguration", s, type>>

(* The client offers its own connection and answers for the others. *)
Descriptions == {Local(Self, "offer")} \cup {Local(s, "answer") : s \in {Room} \cup Others}

Sendable == (Requests \ {Play(Self)}) \cup Descriptions

Messages ==
    [kind : {"joinedTheRoom", "start", "answer", "publish_started"}, stream : {Self}]
    \cup [kind : {"offer", "play_finished"}, stream : {Room} \cup Others]
    \cup [kind : {"subtrackAdded", "subtrackRemoved"}, stream : Others]

Msg(k, s) == [kind |-> k, stream |-> s]

(* Each side is sent what it can take: no offer of a connection the server *)
(* offers, no play of the client's own stream, no track of the room's own; *)
(* and the server's state keeps its types.                                 *)
SystemTypeOK ==
    /\ toServer \in Seq(Sendable)
    /\ toClient \in Seq(Messages)
    /\ describing \subseteq Descriptions
    /\ present \subseteq Others
    /\ serving \subseteq {Room} \cup Others
    /\ finishing \subseteq serving
    /\ visits \in 0..MaxVisits
    /\ late \subseteq Others

SystemInit ==
    /\ Init
    /\ toServer = <<>> /\ toClient = <<>>
    /\ describing = {}
    /\ present \in SUBSET Others
    /\ serving = {} /\ finishing = {}
    /\ visits = 0
    /\ late = {}

-----------------------------------------------------------------------------
(* The client *)

Emits(m) == toServer' = IF ws = "open" THEN Append(toServer, m) ELSE toServer

StartsSession ==
    /\ ws = "none"
    /\ \E isPlayer \in BOOLEAN : StartConnects(isPlayer)
    /\ UNCHANGED <<channels, describing, room>>

Connects == WsOpened /\ UNCHANGED <<channels, describing, room>>

JoinsRoom == SendJoinRoom /\ Emits(Join) /\ UNCHANGED <<toClient, describing, room>>

AsksAgain == SendPlayRoomAgain /\ Emits(Play(Room)) /\ UNCHANGED <<toClient, describing, room>>

(* onLocalDescription *)
SendsDescription ==
    /\ \E d \in describing : Emits(d) /\ describing' = describing \ {d}
    /\ UNCHANGED <<vars, toClient, room>>

(* The next message is of kind k and concerns s. *)
Receives(k, s) ==
    /\ toClient # <<>>
    /\ Head(toClient) = Msg(k, s)
    /\ toClient' = Tail(toClient)
    /\ UNCHANGED room

ReceivesJoined ==
    /\ Receives("joinedTheRoom", Self)
    /\ JoinedTheRoom
    /\ Emits(Publish(~m_isOnlyPlayer))
    /\ UNCHANGED describing

ReceivesStart ==
    /\ Receives("start", Self)
    /\ StartOffer(Self)
    /\ describing' = describing \cup {Local(Self, "offer")}
    /\ UNCHANGED toServer

(* Mutant: onLocalDescription names the type of an answer wrongly. *)
ReceivesOffer_Offers(s) ==
    /\ Receives("offer", s)
    /\ RemoteSDPAccepted(s, "offer")
    /\ describing' = describing \cup {Local(s, "offer")}
    /\ UNCHANGED toServer

ReceivesOffer(s) ==
    /\ Receives("offer", s)
    /\ RemoteSDPAccepted(s, "offer")
    /\ describing' = describing \cup {Local(s, "answer")}
    /\ UNCHANGED toServer

ReceivesAnswer ==
    /\ Receives("answer", Self)
    /\ RemoteSDPAccepted(Self, "answer")
    /\ UNCHANGED <<toServer, describing>>

ReceivesPublishStarted ==
    /\ Receives("publish_started", Self)
    /\ PublishStarted
    /\ Emits(Play(Room))
    /\ UNCHANGED describing

(* The connection is gone, and its description with it. *)
ReceivesPlayFinished(s) ==
    /\ Receives("play_finished", s)
    /\ PlayFinished(s)
    /\ describing' = describing \ {Local(s, "answer")}
    /\ UNCHANGED toServer

(* A stream that is marked or has a connection is not asked for. *)
ReceivesAdded(s) ==
    /\ Receives("subtrackAdded", s)
    /\ \/ SubtrackAdded(s) /\ Emits(Play(s))
       \/ /\ DeliversLocked
          /\ s \in sendPlay \/ (s \in pcs /\ ~pc[s].closed)
          /\ UNCHANGED <<vars, toServer>>
    /\ UNCHANGED describing

ReceivesRemoved(s) ==
    /\ Receives("subtrackRemoved", s)
    /\ SubtrackRemoved(s)
    /\ UNCHANGED <<toServer, describing>>

ClientReceives ==
    \/ ReceivesJoined \/ ReceivesStart \/ ReceivesAnswer \/ ReceivesPublishStarted
    \/ \E s \in {Room} \cup Others : ReceivesOffer(s) \/ ReceivesPlayFinished(s)
    \/ \E s \in Others : ReceivesAdded(s) \/ ReceivesRemoved(s)

(* What the WebSocket thread does once it runs: one of the three at a time. *)
ClientGoesOn == Connects \/ JoinsRoom \/ AsksAgain

-----------------------------------------------------------------------------
(* The server and the room *)

Answers(ms) == toClient' = toClient \o ms

Takes(m) ==
    /\ toServer # <<>>
    /\ Head(toServer) = m
    /\ toServer' = Tail(toServer)
    /\ UNCHANGED <<vars, describing, present, finishing, visits, late>>

TakesJoin == Takes(Join) /\ Answers(<<Msg("joinedTheRoom", Self)>>) /\ UNCHANGED serving

TakesPublish ==
    /\ \E media \in BOOLEAN : Takes(Publish(media))
    /\ Answers(<<Msg("start", Self)>>)
    /\ UNCHANGED serving

TakesOffer ==
    /\ Takes(Local(Self, "offer"))
    /\ Answers(<<Msg("answer", Self), Msg("publish_started", Self)>>)
    /\ UNCHANGED serving

TakesAnswer(s) == Takes(Local(s, "answer")) /\ UNCHANGED <<toClient, serving>>

(* With others the room is played, and their tracks are announced; alone   *)
(* it ends at once.                                                        *)
TakesPlayRoom ==
    /\ Takes(Play(Room))
    /\ IF present = {} THEN Answers(<<Msg("play_finished", Room)>>) /\ UNCHANGED serving
       ELSE /\ serving' = serving \cup {Room}
            /\ Answers(<<Msg("offer", Room)>>
                       \o SetToSeq({Msg("subtrackAdded", o) : o \in present}))

(* A play that stands is not begun again. *)
TakesPlay(s) ==
    /\ Takes(Play(s))
    /\ CASE s \in serving -> UNCHANGED <<toClient, serving>>
         [] s \in present \ serving ->
              serving' = serving \cup {s} /\ Answers(<<Msg("offer", s)>>)
         [] OTHER -> Answers(<<Msg("play_finished", s)>>) /\ UNCHANGED serving

Enters(o) ==
    /\ o \notin present
    /\ visits < MaxVisits
    /\ visits' = visits + 1
    /\ present' = present \cup {o}
    /\ late' = late \cup ({o} \cap finishing)
    /\ Answers(IF Room \in serving THEN <<Msg("subtrackAdded", o)>> ELSE <<>>)
    /\ UNCHANGED <<vars, toServer, describing, serving, finishing>>

Leaves(o) ==
    /\ o \in present
    /\ present' = present \ {o}
    /\ finishing' = finishing \cup (serving \cap {o})
                              \cup (IF present = {o} THEN serving \cap {Room} ELSE {})
    /\ Answers(IF Room \in serving THEN <<Msg("subtrackRemoved", o)>> ELSE <<>>)
    /\ UNCHANGED <<vars, toServer, describing, serving, visits, late>>

(* The end of a play is reported. *)
Finishes(s) ==
    /\ s \in finishing
    /\ finishing' = finishing \ {s}
    /\ serving' = serving \ {s}
    /\ Answers(<<Msg("play_finished", s)>>)
    /\ UNCHANGED <<vars, toServer, describing, present, visits, late>>

ServerReceives ==
    \/ TakesJoin \/ TakesPublish \/ TakesOffer \/ TakesPlayRoom
    \/ \E s \in {Room} \cup Others : TakesAnswer(s)
    \/ \E s \in Others : TakesPlay(s)

SystemNext ==
    \/ StartsSession
    \/ ClientGoesOn
    \/ SendsDescription
    \/ ClientReceives
    \/ ServerReceives
    \/ \E o \in Others : Enters(o) \/ Leaves(o)
    \/ \E s \in {Room} \cup Others : Finishes(s)

(* Messages arrive and are answered; nobody has to come or to leave. *)
SystemFairness ==
    /\ WF_all(ClientGoesOn)
    /\ WF_all(SendsDescription)
    /\ WF_all(ClientReceives)
    /\ WF_all(ServerReceives)
    /\ WF_all(\E s \in {Room} \cup Others : Finishes(s))

SystemSpec == SystemInit /\ [][SystemNext]_all /\ SystemFairness

-----------------------------------------------------------------------------
(* Correctness *)

Count(q, m) == Cardinality({i \in DOMAIN q : q[i] = m})

(* The room is asked for again and again while the client is alone, but    *)
(* never while it is played or another request for it is under way.        *)
RoomAskedOnce ==
    Count(toServer, Play(Room)) + Cardinality(serving \cap {Room})
      + Count(toClient, Msg("play_finished", Room)) + (IF wsAt = "replay" THEN 1 ELSE 0) <= 1

Connected(s) == s \in pcs /\ pc[s].remote

(* The client's connections follow the room: a participant who stays is    *)
(* played in the end, and one who has left is not, unless the report of an *)
(* earlier leaving comes after the return.                                 *)
RosterFollowsRoom ==
    \A o \in Others :
        /\ <>[](phase = "running" /\ o \in present \ late) => <>[]Connected(o)
        /\ <>[](o \notin present) => <>[](o \notin pcs)
=============================================================================
