--------------------------- MODULE ChatAudioProofs ---------------------------
(***************************************************************************)
(* Proofs about ChatAudio: its types, that of the channels of one label    *)
(* only the one that is kept is heard, and that the room's entry is        *)
(* current, for any number of labels, speakers and channels.               *)
(***************************************************************************)
EXTENDS ChatAudio, TLAPS

USE DEF vars

(* The entry of a label is a channel of that label, and heard. *)
EntriesHeard ==
    \A l \in Labels : Kept(l) =>
        /\ channels[remoteDataChannels[l]].label = l
        /\ channels[remoteDataChannels[l]].heard

(* Without a session there is no channel, and channels that are open are   *)
(* on a connection that is there.                                          *)
OpenOnPeers == \A i \in DOMAIN channels : channels[i].open => channels[i].pc \in pcs

(* The publisher's connection stays as long as there is any. *)
SelfStays == pcs # {} => Self \in pcs

NoneWithoutPeers == pcs = {} => channels = <<>>

IInv ==
    /\ TypeOK
    /\ HeardIsKept
    /\ RoomEntryCurrent
    /\ EntriesHeard
    /\ OpenOnPeers
    /\ SelfStays
    /\ NoneWithoutPeers

(* What is the same for a channel whether it is open or not. *)
LEMMA ChannelFields ==
    ASSUME NEW ch \in Channels
    PROVE  /\ [ch EXCEPT !.open = FALSE] \in Channels
           /\ [ch EXCEPT !.open = FALSE].pc = ch.pc
           /\ [ch EXCEPT !.open = FALSE].label = ch.label
           /\ [ch EXCEPT !.open = FALSE].heard = ch.heard
           /\ [ch EXCEPT !.open = FALSE].open = FALSE
BY DEF Channels

LEMMA InitIInv == Init => IInv
<1> SUFFICES ASSUME Init PROVE IInv
  OBVIOUS
<1>1. TypeOK
  <2>1. channels \in Seq(Channels) /\ remoteDataChannels \in [Labels -> 0..Len(channels)]
    BY DEF Init
  <2> QED BY <2>1 DEF Init, TypeOK
<1>2. HeardIsKept /\ RoomEntryCurrent /\ EntriesHeard
  BY DEF Init, HeardIsKept, RoomEntryCurrent, EntriesHeard, Kept
<1>3. OpenOnPeers /\ SelfStays /\ NoneWithoutPeers
  BY DEF Init, OpenOnPeers, SelfStays, NoneWithoutPeers
<1> QED BY <1>1, <1>2, <1>3 DEF IInv

LEMMA DetectedKeeps ==
    ASSUME IInv, NEW p \in {Room, Self}, NEW k \in Labels, DataChannelDetected(p, k)
    PROVE  IInv'
<1> DEFINE n == Len(channels)
           new == [pc |-> p, label |-> k, open |-> TRUE, heard |-> ~Kept(k)]
<1>1. /\ channels \in Seq(Channels) /\ n \in Nat
      /\ remoteDataChannels \in [Labels -> 0..n]
      /\ new \in Channels
  BY DEF IInv, TypeOK, Channels
<1>n. /\ new.pc = p /\ new.label = k /\ new.open
      /\ new.heard <=> ~Kept(k)
  OBVIOUS
<1>2. /\ channels' = Append(channels, new)
      /\ p \in pcs
      /\ remoteDataChannels' = [remoteDataChannels EXCEPT ![k] = IF Kept(k) THEN @ ELSE Len(channels')]
      /\ UNCHANGED <<pcs, localOpen, isStreamTalking, remoteTracks, pushed>>
  BY DEF DataChannelDetected
<1> HIDE DEF new
<1>3. /\ channels' \in Seq(Channels) /\ Len(channels') = n + 1
      /\ DOMAIN channels = 1..n /\ DOMAIN channels' = 1..(n + 1)
      /\ \A i \in 1..n : channels'[i] = channels[i]
      /\ channels'[n + 1] = new
  BY <1>1, <1>2
<1>4. /\ remoteDataChannels' \in [Labels -> 0..(n + 1)]
      /\ \A l \in Labels : l # k => remoteDataChannels'[l] = remoteDataChannels[l]
      /\ remoteDataChannels'[k] = IF Kept(k) THEN remoteDataChannels[k] ELSE n + 1
  BY <1>1, <1>2, <1>3
<1>5. \A l \in Labels : Kept(l) => remoteDataChannels[l] \in 1..n /\ remoteDataChannels'[l] = remoteDataChannels[l]
  BY <1>1, <1>4 DEF Kept
<1>6. TypeOK'
  BY <1>2, <1>3, <1>4 DEF IInv, TypeOK
<1>7. HeardIsKept'
  <2> SUFFICES ASSUME NEW i \in 1..(n + 1), channels'[i].open
               PROVE  channels'[i].heard <=> remoteDataChannels'[channels'[i].label] = i
    BY <1>3 DEF HeardIsKept
  <2>1. CASE i = n + 1
    <3>1. channels'[i].label = k /\ (channels'[i].heard <=> ~Kept(k))
      BY <1>n, <1>3, <2>1
    <3>2. Kept(k) => remoteDataChannels'[k] # n + 1
      BY <1>1, <1>5
    <3> QED BY <1>4, <2>1, <3>1, <3>2
  <2>2. CASE i # n + 1
    <3>1. i \in 1..n /\ channels'[i] = channels[i] /\ channels[i] \in Channels
      BY <1>1, <1>3, <2>2
    <3>l. channels[i].label \in Labels
      BY <3>1 DEF Channels
    <3>2. channels[i].heard <=> remoteDataChannels[channels[i].label] = i
      BY <1>3, <3>1 DEF IInv, HeardIsKept
    <3>3. remoteDataChannels'[channels[i].label] = i <=> remoteDataChannels[channels[i].label] = i
      BY <1>1, <1>4, <1>5, <3>1, <3>l DEF Kept
    <3> QED BY <3>1, <3>2, <3>3
  <2> QED BY <2>1, <2>2
<1>8. ASSUME NEW l \in Labels, Kept(l)'
      PROVE  /\ channels'[remoteDataChannels'[l]].label = l
             /\ channels'[remoteDataChannels'[l]].heard
             /\ l = Room => channels'[remoteDataChannels'[l]].pc \in pcs'
  <2>1. CASE Kept(l)
    <3>1. remoteDataChannels'[l] = remoteDataChannels[l] /\ remoteDataChannels[l] \in 1..n
      BY <1>5, <2>1
    <3>2. channels'[remoteDataChannels'[l]] = channels[remoteDataChannels[l]]
      BY <1>3, <3>1
    <3>3. /\ channels[remoteDataChannels[l]].label = l
          /\ channels[remoteDataChannels[l]].heard
          /\ l = Room => channels[remoteDataChannels[l]].pc \in pcs
      BY <2>1 DEF IInv, EntriesHeard, RoomEntryCurrent
    <3> QED BY <1>2, <3>2, <3>3
  <2>2. CASE ~Kept(l)
    <3>1. l = k /\ remoteDataChannels'[l] = n + 1
      BY <1>4, <1>8, <2>2 DEF Kept
    <3> QED BY <1>n, <1>2, <1>3, <2>2, <3>1
  <2> QED BY <2>1, <2>2
<1>h. ASSUME Room \in Labels, NEW i \in 1..(n + 1), channels'[i].pc = Room,
             channels'[i].label = Room, channels'[i].open, ~channels'[i].heard
      PROVE  Kept(Room)'
  <2>1. Kept(Room)
    <3>1. CASE i = n + 1
      BY <1>n, <1>3, <1>h, <3>1
    <3>2. CASE i # n + 1
      <4>1. i \in 1..n /\ channels'[i] = channels[i]
        BY <1>1, <1>3, <3>2
      <4> QED BY <1>3, <1>h, <4>1 DEF IInv, RoomEntryCurrent
    <3> QED BY <3>1, <3>2
  <2> QED BY <1>5, <1>h, <2>1 DEF Kept
<1>9. EntriesHeard' /\ RoomEntryCurrent'
  BY <1>3, <1>8, <1>h DEF EntriesHeard, RoomEntryCurrent
<1>10. OpenOnPeers'
  <2> SUFFICES ASSUME NEW i \in 1..(n + 1), channels'[i].open
               PROVE  channels'[i].pc \in pcs'
    BY <1>3 DEF OpenOnPeers
  <2>1. CASE i = n + 1
    BY <1>n, <1>2, <1>3, <2>1
  <2>2. CASE i # n + 1
    <3>1. i \in 1..n
      BY <1>1, <2>2
    <3> QED BY <1>2, <1>3, <3>1 DEF IInv, OpenOnPeers
  <2> QED BY <2>1, <2>2
<1>11. SelfStays' /\ NoneWithoutPeers'
  BY <1>2 DEF IInv, SelfStays, NoneWithoutPeers
<1> QED BY <1>6, <1>7, <1>9, <1>10, <1>11 DEF IInv

(* Channels that are closed, by the other side or with the room's          *)
(* connection: nothing else about them changes.                            *)
LEMMA ClosedKeeps ==
    ASSUME IInv, NEW closed \in SUBSET (DOMAIN channels),
           channels' = [i \in DOMAIN channels |->
                          IF i \in closed THEN [channels[i] EXCEPT !.open = FALSE]
                          ELSE channels[i]]
    PROVE  /\ channels' \in Seq(Channels) /\ Len(channels') = Len(channels)
           /\ DOMAIN channels' = DOMAIN channels
           /\ \A i \in DOMAIN channels :
                /\ channels'[i].pc = channels[i].pc
                /\ channels'[i].label = channels[i].label
                /\ channels'[i].heard = channels[i].heard
                /\ channels'[i].open => channels[i].open /\ i \notin closed
<1>1. channels \in Seq(Channels) /\ DOMAIN channels = 1..Len(channels) /\ Len(channels) \in Nat
  BY DEF IInv, TypeOK
<1>2. \A i \in DOMAIN channels : channels[i] \in Channels /\ channels'[i] \in Channels
  BY <1>1, ChannelFields
<1>3. channels' \in Seq(Channels) /\ Len(channels') = Len(channels)
  BY <1>1, <1>2
<1>4. DOMAIN channels' = DOMAIN channels
  OBVIOUS
<1> QED BY <1>1, <1>2, <1>3, <1>4, ChannelFields

LEMMA ChannelClosesKeeps ==
    ASSUME IInv, NEW j \in DOMAIN channels, ChannelCloses(j)
    PROVE  IInv'
<1>1. channels \in Seq(Channels) /\ DOMAIN channels = 1..Len(channels)
  BY DEF IInv, TypeOK
<1>2. channels' = [i \in DOMAIN channels |->
                     IF i \in {j} THEN [channels[i] EXCEPT !.open = FALSE] ELSE channels[i]]
  BY <1>1 DEF ChannelCloses
<1>3. /\ channels' \in Seq(Channels) /\ Len(channels') = Len(channels)
      /\ DOMAIN channels' = DOMAIN channels
      /\ \A i \in DOMAIN channels :
           /\ channels'[i].pc = channels[i].pc
           /\ channels'[i].label = channels[i].label
           /\ channels'[i].heard = channels[i].heard
           /\ channels'[i].open => channels[i].open
  BY <1>2, ClosedKeeps
<1>4. UNCHANGED <<pcs, remoteDataChannels, localOpen, isStreamTalking, remoteTracks, pushed>>
  BY DEF ChannelCloses
<1>5. TypeOK' /\ SelfStays'
  BY <1>3, <1>4 DEF IInv, TypeOK, SelfStays
<1>6. HeardIsKept' /\ OpenOnPeers'
  BY <1>3, <1>4 DEF IInv, HeardIsKept, OpenOnPeers
<1>7. \A l \in Labels : Kept(l) => remoteDataChannels[l] \in DOMAIN channels
  BY <1>1 DEF IInv, TypeOK, Kept
<1>8. EntriesHeard' /\ RoomEntryCurrent'
  BY <1>3, <1>4, <1>7 DEF IInv, EntriesHeard, RoomEntryCurrent, Kept
<1>9. NoneWithoutPeers'
  BY <1>3, <1>4 DEF IInv, NoneWithoutPeers
<1> QED BY <1>5, <1>6, <1>8, <1>9 DEF IInv

LEMMA RemovePeerKeeps ==
    ASSUME IInv, NEW s \in {Room} \cup Speakers, RemovePeer(s)
    PROVE  IInv'
<1> DEFINE closed == ChannelsOf(s) \cup KeptOf(s)
<1>1. channels \in Seq(Channels) /\ DOMAIN channels = 1..Len(channels) /\ Len(channels) \in Nat
  BY DEF IInv, TypeOK
<1>c. \A i \in DOMAIN channels : channels[i].pc = s => i \in closed
  BY DEF ChannelsOf
<1>k. \A i \in DOMAIN channels : s \in Labels /\ remoteDataChannels[s] = i => i \in closed
  BY DEF KeptOf
<1>2. /\ closed \subseteq DOMAIN channels
      /\ channels' = [i \in DOMAIN channels |->
                     IF i \in closed THEN [channels[i] EXCEPT !.open = FALSE] ELSE channels[i]]
  BY DEF RemovePeer, Closing, ChannelsOf, KeptOf
<1> HIDE DEF closed
<1>3. /\ channels' \in Seq(Channels) /\ Len(channels') = Len(channels)
      /\ DOMAIN channels' = DOMAIN channels
      /\ \A i \in DOMAIN channels :
           /\ channels'[i].pc = channels[i].pc
           /\ channels'[i].label = channels[i].label
           /\ channels'[i].heard = channels[i].heard
           /\ channels'[i].open => channels[i].open /\ i \notin closed
  BY <1>2, ClosedKeeps
<1>4. /\ pcs' = pcs \ {s} /\ pcs # {}
      /\ remoteDataChannels' = [l \in Labels |-> IF l = s THEN 0 ELSE remoteDataChannels[l]]
      /\ remoteTracks' \subseteq remoteTracks
      /\ UNCHANGED <<localOpen, isStreamTalking, pushed>>
  BY DEF RemovePeer, Forgetting
<1>5. remoteDataChannels' \in [Labels -> 0..Len(channels')]
  BY <1>1, <1>3, <1>4 DEF IInv, TypeOK
<1>6. TypeOK'
  BY <1>3, <1>4, <1>5 DEF IInv, TypeOK
<1>7. HeardIsKept'
  <2> SUFFICES ASSUME NEW i \in DOMAIN channels, channels'[i].open
               PROVE  channels'[i].heard <=> remoteDataChannels'[channels'[i].label] = i
    BY <1>3 DEF HeardIsKept
  <2>0. channels[i] \in Channels
    BY <1>1
  <2>1. channels[i].open /\ i \notin closed /\ channels[i].label \in Labels
    BY <1>3, <2>0 DEF Channels
  <2>2. channels[i].heard <=> remoteDataChannels[channels[i].label] = i
    BY <2>1 DEF IInv, HeardIsKept
  <2>3. channels[i].label = s => remoteDataChannels[s] # i
    BY <1>k, <2>1
  <2>4. channels[i].label = s => remoteDataChannels'[s] = 0 /\ i # 0
    BY <1>1, <1>4, <2>1
  <2> QED BY <1>3, <1>4, <2>1, <2>2, <2>3, <2>4
<1>8. \A l \in Labels : Kept(l)' => /\ l # s /\ Kept(l)
                                    /\ remoteDataChannels'[l] = remoteDataChannels[l]
                                    /\ remoteDataChannels[l] \in DOMAIN channels
  BY <1>1, <1>4 DEF IInv, TypeOK, Kept
<1>9. EntriesHeard'
  BY <1>3, <1>8 DEF IInv, EntriesHeard
<1>10. RoomEntryCurrent'
  <2>1. ASSUME Room \in Labels, Kept(Room)'
        PROVE  channels'[remoteDataChannels'[Room]].pc \in pcs'
    <3> DEFINE e == remoteDataChannels[Room]
    <3>1. s # Room /\ Kept(Room) /\ remoteDataChannels'[Room] = e /\ e \in DOMAIN channels
      BY <1>8, <2>1
    <3>2. channels[e].pc \in pcs
      BY <2>1, <3>1 DEF IInv, RoomEntryCurrent
    <3>3. channels[e].pc \in {Room, Self}
      <4>1. channels[e] \in Channels
        BY <1>1, <3>1
      <4> QED BY <4>1 DEF Channels
    <3>4. channels[e].pc # s
      BY <3>1, <3>3, ChatAssumption
    <3> QED BY <1>3, <1>4, <3>1, <3>2, <3>4
  <2>2. ASSUME Room \in Labels, NEW i \in DOMAIN channels, channels'[i].pc = Room,
               channels'[i].label = Room, channels'[i].open, ~channels'[i].heard
        PROVE  Kept(Room)'
    <3>1. s # Room
      <4>1. channels[i].pc = Room /\ i \notin closed
        BY <1>3, <2>2
      <4> QED BY <1>c, <4>1
    <3>2. Kept(Room)
      BY <1>3, <2>2 DEF IInv, RoomEntryCurrent
    <3> QED BY <1>4, <2>2, <3>1, <3>2 DEF Kept
  <2> QED BY <1>3, <2>1, <2>2 DEF RoomEntryCurrent
<1>11. OpenOnPeers'
  <2> SUFFICES ASSUME NEW i \in DOMAIN channels, channels'[i].open
               PROVE  channels'[i].pc \in pcs'
    BY <1>3 DEF OpenOnPeers
  <2>1. channels[i].open /\ i \notin closed /\ channels'[i].pc = channels[i].pc
    BY <1>3
  <2>2. channels[i].pc \in pcs /\ channels[i].pc # s
    BY <1>c, <2>1 DEF IInv, OpenOnPeers
  <2> QED BY <1>4, <2>1, <2>2
<1>12. SelfStays' /\ NoneWithoutPeers'
  BY <1>4, ChatAssumption DEF IInv, SelfStays, NoneWithoutPeers
<1> QED BY <1>6, <1>7, <1>9, <1>10, <1>11, <1>12 DEF IInv

(* The other actions leave the channels alone, or clear all. *)
LEMMA OtherKeep ==
    ASSUME IInv,
           \/ SetupPublishPeer \/ LocalChannelOpens \/ CreateRoomPeer \/ CleanupResources
           \/ \E s \in Speakers, state \in {"talking", "mute"} : HandleDataChannelText(s, state)
           \/ \E s \in Speakers : AddRemoteTrack(s) \/ PushAudioFrame(s)
    PROVE  IInv'
<1> USE DEF IInv
<1>1. CASE CleanupResources
  <2>1. channels' \in Seq(Channels) /\ remoteDataChannels' \in [Labels -> 0..Len(channels')]
    BY <1>1 DEF CleanupResources, Cleared
  <2>2. (HeardIsKept /\ RoomEntryCurrent /\ EntriesHeard)'
    BY <1>1 DEF CleanupResources, Cleared, HeardIsKept, RoomEntryCurrent, EntriesHeard, Kept
  <2>3. (OpenOnPeers /\ SelfStays /\ NoneWithoutPeers)'
    BY <1>1 DEF CleanupResources, Cleared, OpenOnPeers, SelfStays, NoneWithoutPeers
  <2>4. TypeOK'
    BY <1>1, <2>1 DEF CleanupResources, Cleared, TypeOK
  <2> QED BY <2>2, <2>3, <2>4
<1>2. CASE SetupPublishPeer \/ LocalChannelOpens \/ CreateRoomPeer
  <2> USE DEF SetupPublishPeer, LocalChannelOpens, CreateRoomPeer
  <2>1. TypeOK'
    BY <1>2 DEF TypeOK
  <2>2. (HeardIsKept /\ RoomEntryCurrent /\ EntriesHeard)'
    BY <1>2 DEF HeardIsKept, RoomEntryCurrent, EntriesHeard, Kept, NoneWithoutPeers
  <2>3. (OpenOnPeers /\ SelfStays /\ NoneWithoutPeers)'
    BY <1>2 DEF OpenOnPeers, SelfStays, NoneWithoutPeers
  <2> QED BY <2>1, <2>2, <2>3
<1>3. CASE \E s \in Speakers :
             \/ \E state \in {"talking", "mute"} : HandleDataChannelText(s, state)
             \/ AddRemoteTrack(s) \/ PushAudioFrame(s)
  <2> USE DEF HandleDataChannelText, AddRemoteTrack, PushAudioFrame
  <2>1. TypeOK'
    BY <1>3 DEF TypeOK
  <2>2. (HeardIsKept /\ RoomEntryCurrent /\ EntriesHeard)'
    BY <1>3 DEF HeardIsKept, RoomEntryCurrent, EntriesHeard, Kept
  <2>3. (OpenOnPeers /\ SelfStays /\ NoneWithoutPeers)'
    BY <1>3 DEF OpenOnPeers, SelfStays, NoneWithoutPeers
  <2> QED BY <2>1, <2>2, <2>3
<1> QED BY <1>1, <1>2, <1>3

LEMMA NextIInv == IInv /\ [Next]_vars => IInv'
<1> SUFFICES ASSUME IInv, [Next]_vars PROVE IInv'
  OBVIOUS
<1>1. CASE UNCHANGED vars
  BY <1>1 DEF IInv, TypeOK, HeardIsKept, RoomEntryCurrent, EntriesHeard, OpenOnPeers,
              SelfStays, NoneWithoutPeers, Kept
<1>2. CASE \E s \in {Room} \cup Speakers : RemovePeer(s)
  BY <1>2, RemovePeerKeeps
<1>3. CASE \E p \in {Room, Self}, l \in Labels : DataChannelDetected(p, l)
  BY <1>3, DetectedKeeps
<1>4. CASE \E i \in DOMAIN channels : ChannelCloses(i)
  BY <1>4, ChannelClosesKeeps
<1> QED BY <1>1, <1>2, <1>3, <1>4, OtherKeep DEF Next

LEMMA AlwaysIInv == Spec => []IInv
<1> QED BY InitIInv, NextIInv, PTL DEF Spec

(* The variables of channels and audio keep their types. *)
THEOREM TypeCorrect == Spec => []TypeOK
<1>1. IInv => TypeOK
  BY DEF IInv
<1> QED BY <1>1, AlwaysIInv, PTL

(* WebRTCManager.cpp:417: a message is handled at most once. *)
THEOREM HeardIsKeptHolds == Spec => []HeardIsKept
<1>1. IInv => HeardIsKept
  BY DEF IInv
<1> QED BY <1>1, AlwaysIInv, PTL

(* WebRTCManager.cpp:309-316: the room's entry goes with its connection,   *)
(* and with both whatever the entry has hidden there.                      *)
THEOREM RoomEntryCurrentHolds == Spec => []RoomEntryCurrent
<1>1. IInv => RoomEntryCurrent
  BY DEF IInv
<1> QED BY <1>1, AlwaysIInv, PTL
=============================================================================
