------------------------------ MODULE ChatAudio ------------------------------
(***************************************************************************)
(* The data channels and the audio of one client (WebRTCManager.cpp): the  *)
(* channels the server opens on the publisher's and the room's connection, *)
(* kept by their label; the chat messages on them, of which iamtalking and *)
(* iammute set a flag for their sender; and the audio of the tracks.       *)
(*                                                                         *)
(* Every action runs under m_stateMutex, or is an event of the network.    *)
(* Left out: what a message says otherwise, sending, and the binary        *)
(* messages, which are not handled.                                        *)
(***************************************************************************)
EXTENDS Naturals, Sequences

CONSTANTS
    Room,         \* m_roomId
    Self,         \* m_publishStreamId
    Speakers,     \* stream ids of those who speak
    Labels,       \* labels of channels
    MaxChannels   \* bound: channels opened in a session

ASSUME ChatAssumption ==
    Room # Self /\ Room \notin Speakers /\ Self \notin Speakers /\ MaxChannels \in Nat

VARIABLES
    pcs,                   \* the connections that take channels
    channels,              \* every channel the server opened
    remoteDataChannels,    \* its number by label, 0 for none
    localOpen,             \* the client's own channel is open
    isStreamTalking,       \* unset, talking or mute
    remoteTracks,          \* streams with an audio track that is open
    pushed                 \* the stream whose audio was played last

vars == <<pcs, channels, remoteDataChannels, localOpen, isStreamTalking,
          remoteTracks, pushed>>

Channels == [pc : {Room, Self}, label : Labels, open : BOOLEAN, heard : BOOLEAN]

(* The channels, the flags and the audio keep their types. *)
TypeOK ==
    /\ pcs \subseteq {Room, Self}
    /\ channels \in Seq(Channels)
    /\ remoteDataChannels \in [Labels -> 0..Len(channels)]
    /\ localOpen \in BOOLEAN
    /\ isStreamTalking \in [Speakers -> {"unset", "talking", "mute"}]
    /\ remoteTracks \subseteq Speakers
    /\ pushed \in Speakers \cup {Self}

Cleared ==
    /\ channels' = <<>>
    /\ remoteDataChannels' = [l \in Labels |-> 0]
    /\ localOpen' = FALSE
    /\ isStreamTalking' = [s \in Speakers |-> "unset"]
    /\ remoteTracks' = {}
    /\ pushed' = Self

Init ==
    /\ pcs = {}
    /\ channels = <<>>
    /\ remoteDataChannels = [l \in Labels |-> 0]
    /\ localOpen = FALSE
    /\ isStreamTalking = [s \in Speakers |-> "unset"]
    /\ remoteTracks = {}
    /\ pushed = Self

-----------------------------------------------------------------------------
SetupPublishPeer ==
    /\ pcs = {}
    /\ pcs' = {Self}
    /\ UNCHANGED <<channels, remoteDataChannels, localOpen, isStreamTalking,
                   remoteTracks, pushed>>

LocalChannelOpens ==
    /\ Self \in pcs
    /\ ~localOpen
    /\ localOpen' = TRUE
    /\ UNCHANGED <<pcs, channels, remoteDataChannels, isStreamTalking, remoteTracks, pushed>>

CreateRoomPeer ==
    /\ Self \in pcs
    /\ Room \notin pcs
    /\ pcs' = pcs \cup {Room}
    /\ UNCHANGED <<channels, remoteDataChannels, localOpen, isStreamTalking,
                   remoteTracks, pushed>>

Kept(l) == remoteDataChannels[l] # 0

(* onDataChannel: a channel is kept, and heard, if its label is new. *)
DataChannelDetected(p, l) ==
    /\ p \in pcs
    /\ Len(channels) < MaxChannels
    /\ channels' = Append(channels, [pc |-> p, label |-> l, open |-> TRUE, heard |-> ~Kept(l)])
    /\ remoteDataChannels' = [remoteDataChannels EXCEPT ![l] = IF Kept(l) THEN @ ELSE Len(channels')]
    /\ UNCHANGED <<pcs, localOpen, isStreamTalking, remoteTracks, pushed>>

(* The other side ends a channel; its entry stays. *)
ChannelCloses(i) ==
    /\ channels[i].open
    /\ channels' = [channels EXCEPT ![i].open = FALSE]
    /\ UNCHANGED <<pcs, remoteDataChannels, localOpen, isStreamTalking, remoteTracks, pushed>>

Closing(gone) ==
    channels' = [i \in DOMAIN channels |->
                   IF i \in gone THEN [channels[i] EXCEPT !.open = FALSE] ELSE channels[i]]

ChannelsOf(s) == {i \in DOMAIN channels : channels[i].pc = s}

KeptOf(s) == {i \in DOMAIN channels : s \in Labels /\ i = remoteDataChannels[s]}

Forgetting(s) ==
    remoteDataChannels' = [l \in Labels |-> IF l = s THEN 0 ELSE remoteDataChannels[l]]

(* Mutant: the channel is forgotten and not closed. *)
RemovePeer_NoClose(s) ==
    /\ pcs # {}
    /\ pcs' = pcs \ {s}
    /\ Forgetting(s)
    /\ Closing(ChannelsOf(s))
    /\ remoteTracks' = remoteTracks \ {s}
    /\ UNCHANGED <<localOpen, isStreamTalking, pushed>>

(* Mutant: the entry is left in the map. *)
RemovePeer_KeepEntry(s) ==
    /\ pcs # {}
    /\ pcs' = pcs \ {s}
    /\ Closing(ChannelsOf(s) \cup KeptOf(s))
    /\ remoteTracks' = remoteTracks \ {s}
    /\ UNCHANGED <<remoteDataChannels, localOpen, isStreamTalking, pushed>>

(* removePeerIfNotExist: the channel kept under the stream's id is closed  *)
(* and forgotten, whichever connection it is on, and the connection of the *)
(* stream goes with its channels and its track.                            *)
RemovePeer(s) ==
    /\ pcs # {}
    /\ pcs' = pcs \ {s}
    /\ Forgetting(s)
    /\ Closing(ChannelsOf(s) \cup KeptOf(s))
    /\ remoteTracks' = remoteTracks \ {s}
    /\ UNCHANGED <<localOpen, isStreamTalking, pushed>>

(* Somebody's text can reach handleDataChannelText. *)
Heard == localOpen \/ \E i \in DOMAIN channels : channels[i].open /\ channels[i].heard

HandleDataChannelText(s, state) ==
    /\ Heard
    /\ isStreamTalking' = [isStreamTalking EXCEPT ![s] = state]
    /\ UNCHANGED <<pcs, channels, remoteDataChannels, localOpen, remoteTracks, pushed>>

(* The participant's own connection, which takes no channels, brings it. *)
AddRemoteTrack(s) ==
    /\ pcs # {}
    /\ s \notin remoteTracks
    /\ remoteTracks' = remoteTracks \cup {s}
    /\ UNCHANGED <<pcs, channels, remoteDataChannels, localOpen, isStreamTalking, pushed>>

(* The track's onMessage: playStream is computed, and nothing asks for it. *)
PushAudioFrame(s) ==
    /\ s \in remoteTracks
    /\ pushed' = s
    /\ UNCHANGED <<pcs, channels, remoteDataChannels, localOpen, isStreamTalking, remoteTracks>>

CleanupResources ==
    /\ pcs # {}
    /\ pcs' = {}
    /\ Cleared

Next ==
    \/ SetupPublishPeer \/ LocalChannelOpens \/ CreateRoomPeer
    \/ CleanupResources
    \/ \E s \in {Room} \cup Speakers : RemovePeer(s)
    \/ \E p \in {Room, Self}, l \in Labels : DataChannelDetected(p, l)
    \/ \E i \in DOMAIN channels : ChannelCloses(i)
    \/ \E s \in Speakers, state \in {"talking", "mute"} : HandleDataChannelText(s, state)
    \/ \E s \in Speakers : AddRemoteTrack(s) \/ PushAudioFrame(s)

Spec == Init /\ [][Next]_vars

-----------------------------------------------------------------------------
(* Correctness *)

(* No message is handled twice: of the open channels of one label at most  *)
(* the one that is kept is heard, through any number of room connections.  *)
HeardIsKept ==
    \A i \in DOMAIN channels :
        channels[i].open =>
            (channels[i].heard <=> remoteDataChannels[channels[i].label] = i)

(* What is kept under the room's id belongs to a connection that is there, *)
(* and if a channel of that name on the room's connection is not heard,    *)
(* what hid it is still kept: a play of the room that has ended hides no   *)
(* channel of the next one.  (A closed channel, or one of that name on the *)
(* client's own connection, does hide it.)                                 *)
RoomEntryCurrent ==
    Room \in Labels =>
        /\ Kept(Room) => channels[remoteDataChannels[Room]].pc \in pcs
        /\ \A i \in DOMAIN channels :
              channels[i].pc = Room /\ channels[i].label = Room
                /\ channels[i].open /\ ~channels[i].heard => Kept(Room)

(* README.md:14, iamtalking and iammute: the audio of a stream that is     *)
(* muted is not played.                                                    *)
MutedIsSilent ==
    [][\A s \in Speakers : PushAudioFrame(s) => isStreamTalking[s] # "mute"]_vars
=============================================================================
