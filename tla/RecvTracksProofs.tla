-------------------------- MODULE RecvTracksProofs --------------------------
(***************************************************************************)
(* Proof that the loops of prepareRecvTracksFromSDP add the tracks an      *)
(* offer asks for, for offers of any length.                               *)
(***************************************************************************)
EXTENDS RecvTracks, TLAPS

(* What the inner loop has found: nothing yet, or the first codec that is  *)
(* wanted, after which it is over.                                         *)
Searched ==
    LET rtp == media[m].rtp
        wanted == Wanted(media[m].type)
    IN  \/ /\ payloadType = -1
           /\ r \in 1..Len(rtp) + 1
           /\ \A k \in 1..r - 1 : rtp[k].codec # wanted
        \/ /\ r = Len(rtp) + 1
           /\ \E j \in FirstOf(media[m]) : payloadType = rtp[j].payload

(* What the sections of s at the places in D ask for. *)
Asked(s, D) == UNION {Offered(s[i]) : i \in D}

(* What the outer loop has done: the sections before m. *)
TracksSoFar == tracks = Asked(media, 1..m - 1)

IInv ==
    /\ TypeOK
    /\ m <= Len(media) => (r = 1 /\ payloadType = -1) \/ Searched
    /\ m <= Len(media) /\ Skipped(media[m]) => r = 1
    /\ TracksSoFar

(* There is one first codec. *)
LEMMA OneFirst ==
    ASSUME NEW s \in Section, NEW j \in FirstOf(s), NEW k \in FirstOf(s)
    PROVE  j = k
<1>1. s.rtp \in Seq(Rtp) /\ DOMAIN s.rtp = 1..Len(s.rtp) /\ Len(s.rtp) \in Nat
  BY DEF Section
<1>2. j \in 1..Len(s.rtp) /\ k \in 1..Len(s.rtp)
  BY <1>1 DEF FirstOf
<1>3. ~(j < k) /\ ~(k < j)
  BY <1>2 DEF FirstOf
<1> QED BY <1>2, <1>3

(* What a section asks for, by its first codec. *)
LEMMA OfferedByFirst ==
    ASSUME NEW s \in Section, ~Skipped(s), NEW j \in FirstOf(s)
    PROVE  Offered(s) = IF s.rtp[j].payload >= 0 THEN {Mid(s.type, s.rtp[j].payload)} ELSE {}
<1>1. FirstOf(s) = {j}
  BY OneFirst
<1>2. {k \in FirstOf(s) : s.rtp[k].payload >= 0} = IF s.rtp[j].payload >= 0 THEN {j} ELSE {}
  BY <1>1
<1>3. Offered(s) = {Mid(s.type, s.rtp[i].payload) : i \in {k \in FirstOf(s) : s.rtp[k].payload >= 0}}
  BY DEF Offered, Skipped
<1> QED BY <1>2, <1>3

LEMMA OfferedNothing ==
    ASSUME NEW s \in Section, Skipped(s) \/ FirstOf(s) = {}
    PROVE  Offered(s) = {}
BY DEF Offered, Skipped

LEMMA InitIInv == Init => IInv
<1> SUFFICES ASSUME Init PROVE IInv
  OBVIOUS
<1>1. media \in Seq(Section) /\ Len(media) \in Nat
  BY OffersAssumption DEF Init
<1>2. TypeOK
  BY <1>1 DEF Init, TypeOK
<1>3. TracksSoFar
  BY DEF Init, TracksSoFar, Asked
<1> QED BY <1>2, <1>3 DEF Init, IInv

(* One section more. *)
LEMMA OneMore ==
    ASSUME NEW n \in Nat
    PROVE  n + 1 - 1 = n /\ \A i : i \in 1..n <=> i \in 1..n - 1 \/ (i = n /\ n > 0)
OBVIOUS

LEMMA AskedOneMore ==
    ASSUME NEW s, NEW D, NEW E, NEW k, \A i : i \in E <=> i = k \/ i \in D
    PROVE  Asked(s, E) = Asked(s, D) \cup Offered(s[k])
<1>1. \A t, F : t \in Asked(s, F) <=> \E i \in F : t \in Offered(s[i])
  BY DEF Asked
<1>2. \A t : t \in Asked(s, E) <=> t \in Asked(s, D) \/ t \in Offered(s[k])
  BY <1>1
<1> QED BY <1>2

(* The next section: nothing is searched in it yet. *)
LEMMA NextSectionKeeps ==
    ASSUME IInv, m <= Len(media), NextSection, TracksSoFar',
           tracks' \subseteq {"audio", "video"} \X Payloads
    PROVE  IInv'
<1>1. media \in Seq(Section) /\ Len(media) \in Nat /\ m \in 1..Len(media)
  BY DEF IInv, TypeOK
<1>2. media' = media /\ m' = m + 1 /\ r' = 1 /\ payloadType' = -1
  BY DEF NextSection
<1>3. TypeOK'
  BY <1>1, <1>2 DEF TypeOK
<1> QED BY <1>2, <1>3 DEF IInv

LEMMA SkipSectionKeeps ==
    ASSUME IInv, SkipSection
    PROVE  IInv'
<1>1. /\ m \in 1..Len(media) /\ Len(media) \in Nat /\ media[m] \in Section
      /\ Skipped(media[m]) /\ NextSection /\ tracks' = tracks /\ TracksSoFar
  BY DEF IInv, TypeOK, SkipSection
<1>2. Offered(media[m]) = {}
  BY <1>1, OfferedNothing
<1>m. m \in Nat /\ m > 0
  BY <1>1
<1>3. /\ media' = media /\ m' - 1 = m
      /\ \A i : i \in 1..m' - 1 <=> i = m \/ i \in 1..m - 1
  BY <1>1, <1>m, OneMore DEF NextSection
<1>4. TracksSoFar'
  <2>1. Asked(media, 1..m' - 1) = Asked(media, 1..m - 1) \cup Offered(media[m])
    BY <1>3, AskedOneMore
  <2> QED BY <1>1, <1>2, <1>3, <2>1 DEF TracksSoFar
<1>5. tracks' \subseteq {"audio", "video"} \X Payloads
  BY <1>1 DEF IInv, TypeOK
<1> QED BY <1>1, <1>4, <1>5, NextSectionKeeps

(* In a section that is searched. *)
LEMMA SectionFacts ==
    ASSUME IInv, m <= Len(media), ~Skipped(media[m])
    PROVE  /\ m \in 1..Len(media) /\ Len(media) \in Nat
           /\ media[m] \in Section
           /\ media[m].rtp \in Seq(Rtp) /\ Len(media[m].rtp) \in Nat
           /\ DOMAIN media[m].rtp = 1..Len(media[m].rtp)
           /\ \A j \in 1..Len(media[m].rtp) :
                 media[m].rtp[j].payload \in Payloads /\ media[m].rtp[j].payload \in Int
           /\ Searched
<1>1. m \in 1..Len(media) /\ Len(media) \in Nat /\ media[m] \in Section
  BY DEF IInv, TypeOK
<1>2. /\ media[m].rtp \in Seq(Rtp) /\ Len(media[m].rtp) \in Nat
      /\ DOMAIN media[m].rtp = 1..Len(media[m].rtp)
  BY <1>1 DEF Section
<1>3. \A j \in 1..Len(media[m].rtp) : media[m].rtp[j] \in Rtp
  BY <1>2
<1>4. \A j \in 1..Len(media[m].rtp) :
          media[m].rtp[j].payload \in Payloads /\ media[m].rtp[j].payload \in Int
  BY <1>3, OffersAssumption DEF Rtp
<1>5. Searched
  BY <1>2 DEF IInv, Searched
<1> QED BY <1>1, <1>2, <1>4, <1>5

LEMMA FoundKeeps ==
    ASSUME IInv, Found
    PROVE  IInv'
<1> DEFINE rtp == media[m].rtp
<1>1. /\ m <= Len(media) /\ ~Skipped(media[m]) /\ r <= Len(rtp)
      /\ rtp[r].codec = Wanted(media[m].type)
      /\ payloadType' = rtp[r].payload /\ r' = Len(rtp) + 1
      /\ UNCHANGED <<media, m, tracks>>
  BY DEF Found, InRtp
<1>2. /\ Len(rtp) \in Nat /\ DOMAIN rtp = 1..Len(rtp)
      /\ \A j \in 1..Len(rtp) : rtp[j].payload \in Payloads
      /\ Searched /\ r \in Nat
  BY <1>1, SectionFacts DEF IInv, TypeOK
<1>3. r \in 1..Len(rtp) /\ \A k \in 1..r - 1 : rtp[k].codec # Wanted(media[m].type)
  BY <1>1, <1>2 DEF Searched
<1>4. r \in FirstOf(media[m])
  BY <1>1, <1>2, <1>3 DEF FirstOf
<1>5. Searched'
  BY <1>1, <1>4 DEF Searched, FirstOf
<1>6. TypeOK'
  BY <1>1, <1>2, <1>3 DEF IInv, TypeOK
<1>7. TracksSoFar'
  BY <1>1 DEF IInv, TracksSoFar
<1> QED BY <1>1, <1>5, <1>6, <1>7 DEF IInv

LEMMA OtherCodecKeeps ==
    ASSUME IInv, OtherCodec
    PROVE  IInv'
<1> DEFINE rtp == media[m].rtp
<1>1. /\ m <= Len(media) /\ ~Skipped(media[m]) /\ r <= Len(rtp)
      /\ rtp[r].codec # Wanted(media[m].type) /\ r' = r + 1
      /\ UNCHANGED <<media, m, payloadType, tracks>>
  BY DEF OtherCodec, InRtp
<1>2. Len(rtp) \in Nat /\ Searched /\ r \in Nat
  BY <1>1, SectionFacts DEF IInv, TypeOK
<1>3. /\ payloadType = -1 /\ r \in 1..Len(rtp)
      /\ \A k \in 1..r - 1 : rtp[k].codec # Wanted(media[m].type)
  BY <1>1, <1>2 DEF Searched
<1>4. \A k \in 1..r' - 1 : k = r \/ k \in 1..r - 1
  BY <1>1, <1>3
<1>5. Searched'
  BY <1>1, <1>2, <1>3, <1>4 DEF Searched
<1>6. r' \in Nat
  BY <1>1, <1>2
<1>7. TypeOK'
  BY <1>1, <1>6 DEF IInv, TypeOK
<1>8. TracksSoFar'
  BY <1>1 DEF IInv, TracksSoFar
<1> QED BY <1>1, <1>5, <1>7, <1>8 DEF IInv

LEMMA AddTrackKeeps ==
    ASSUME IInv, AddTrack
    PROVE  IInv'
<1> DEFINE rtp == media[m].rtp
           mid == Mid(media[m].type, payloadType)
<1>1. /\ m <= Len(media) /\ ~Skipped(media[m]) /\ r > Len(rtp) /\ NextSection
      /\ tracks' = IF payloadType < 0 THEN tracks ELSE tracks \cup {mid}
  BY DEF AddTrack
<1>2. /\ m \in 1..Len(media) /\ Len(media) \in Nat /\ media[m] \in Section
      /\ Len(rtp) \in Nat /\ DOMAIN rtp = 1..Len(rtp)
      /\ \A j \in 1..Len(rtp) : rtp[j].payload \in Payloads /\ rtp[j].payload \in Int
      /\ Searched
  BY <1>1, SectionFacts
<1>3. /\ payloadType < 0 => Offered(media[m]) = {}
      /\ payloadType >= 0 => payloadType \in Payloads /\ Offered(media[m]) = {mid}
      /\ payloadType \in Int
  <2>1. CASE \E j \in FirstOf(media[m]) : payloadType = rtp[j].payload
    <3>1. PICK j \in FirstOf(media[m]) : payloadType = rtp[j].payload
      BY <2>1
    <3>2. j \in 1..Len(rtp)
      BY <1>2 DEF FirstOf
    <3>3. Offered(media[m]) = IF payloadType >= 0 THEN {mid} ELSE {}
      BY <1>1, <1>2, <3>1, OfferedByFirst
    <3> QED BY <1>2, <3>1, <3>2, <3>3
  <2>2. CASE /\ payloadType = -1
             /\ r \in 1..Len(rtp) + 1
             /\ \A k \in 1..r - 1 : rtp[k].codec # Wanted(media[m].type)
    <3>1. \A k \in 1..Len(rtp) : rtp[k].codec # Wanted(media[m].type)
      BY <1>1, <1>2, <2>2
    <3>2. FirstOf(media[m]) = {}
      BY <1>2, <3>1 DEF FirstOf
    <3> QED BY <1>2, <2>2, <3>2, OfferedNothing
  <2> QED BY <1>2, <2>1, <2>2 DEF Searched
<1>m. m \in Nat /\ m > 0
  BY <1>2
<1>4. /\ media' = media /\ m' - 1 = m
      /\ \A i : i \in 1..m' - 1 <=> i = m \/ i \in 1..m - 1
  BY <1>1, <1>m, OneMore DEF NextSection
<1>5. tracks = Asked(media, 1..m - 1)
      /\ tracks \subseteq {"audio", "video"} \X Payloads
  BY DEF IInv, TypeOK, TracksSoFar
<1>6. tracks' = tracks \cup Offered(media[m])
  BY <1>1, <1>3
<1>7. TracksSoFar'
  <2>1. Asked(media, 1..m' - 1) = Asked(media, 1..m - 1) \cup Offered(media[m])
    BY <1>4, AskedOneMore
  <2>2. tracks' = Asked(media, 1..m' - 1)
    BY <1>5, <1>6, <2>1
  <2> QED BY <1>4, <2>2 DEF TracksSoFar
<1>8. mid \in {"audio", "video"} \X Payloads \/ payloadType < 0
  BY <1>1, <1>3 DEF Skipped, Mid
<1>9. tracks' \subseteq {"audio", "video"} \X Payloads
  BY <1>1, <1>5, <1>8
<1> QED BY <1>1, <1>7, <1>9, NextSectionKeeps

LEMMA NextIInv == IInv /\ [Next]_vars => IInv'
<1> SUFFICES ASSUME IInv, [Next]_vars PROVE IInv'
  OBVIOUS
<1>1. CASE UNCHANGED vars
  <2>1. UNCHANGED <<media, m, r, payloadType, tracks>>
    BY <1>1 DEF vars
  <2>2. TypeOK' /\ TracksSoFar'
    BY <2>1 DEF IInv, TypeOK, TracksSoFar
  <2>3. Searched => Searched'
    BY <2>1 DEF Searched
  <2> QED BY <2>1, <2>2, <2>3 DEF IInv
<1> QED BY <1>1, SkipSectionKeeps, FoundKeeps, OtherCodecKeeps, AddTrackKeeps DEF Next

LEMMA AlwaysIInv == Spec => []IInv
<1> QED BY InitIInv, NextIInv, PTL DEF Spec

(* The variables of the loops keep their types. *)
THEOREM TypeCorrect == Spec => []TypeOK
<1>1. IInv => TypeOK
  BY DEF IInv
<1> QED BY <1>1, AlwaysIInv, PTL

(* WebRTCManager.cpp:347-375: the tracks are those the sections ask for,   *)
(* and sections that ask for the same share one.                           *)
THEOREM TracksAsOfferedHolds == Spec => []TracksAsOffered
<1>1. IInv => TracksAsOffered
  <2> SUFFICES ASSUME IInv, m > Len(media) PROVE TracksAsOffered
    BY DEF TracksAsOffered
  <2>1. DOMAIN media = 1..Len(media) /\ m - 1 = Len(media)
    BY DEF IInv, TypeOK
  <2> QED BY <2>1 DEF IInv, TracksSoFar, Asked, TracksAsOffered
<1> QED BY <1>1, AlwaysIInv, PTL
=============================================================================
