------------------------------ MODULE Requests ------------------------------
(***************************************************************************)
(* The requests a client sends the signaling server                        *)
(* (AMS_SFU_ConferenceSignalingCommand.cpp).                               *)
(***************************************************************************)

CONSTANTS Room,       \* m_roomId, also the stream id of the room's play
          Self,       \* m_publishStreamId
          Others      \* stream ids of the other participants

ASSUME ConstantsAssumption ==
    /\ Room # Self
    /\ Room \notin Others
    /\ Self \notin Others

Streams == {Room, Self} \cup Others

Join       == <<"joinRoom">>
Publish(m) == <<"publish", m>>     \* m: with video and audio
Play(s)    == <<"play", s>>

Requests == {Join} \cup {Publish(m) : m \in BOOLEAN} \cup {Play(s) : s \in Streams}

(* What sendStopPublish, sendStopPlayRoom and sendLeaveRoom withdraw. *)
OwnRequests == {Join, Publish(TRUE), Publish(FALSE), Play(Room)}
=============================================================================
