------------------------------ MODULE RecvTracks ------------------------------
(***************************************************************************)
(* prepareRecvTracksFromSDP (WebRTCManager.cpp): the tracks a client adds  *)
(* to a connection for an offer, found by two nested loops over the        *)
(* offer's media sections and their codecs.                                *)
(*                                                                         *)
(* A parsed offer is a sequence of sections; a codec is its name and its   *)
(* payload type, -1 where the offer gives none.  A track is known by its   *)
(* mid, which is made of the section's type and the payload type: a        *)
(* section that repeats both gets the track that is there, and its entry   *)
(* in midTypeMap.                                                          *)
(***************************************************************************)
EXTENDS Integers, Sequences

CONSTANTS
    Types, Directions, Codecs,    \* strings in an offer
    Payloads,                     \* payload types, -1 for none
    Offers                        \* parsed offers

Rtp     == [codec : Codecs, payload : Payloads]
Section == [type : Types, direction : Directions, rtp : Seq(Rtp)]

ASSUME OffersAssumption == Payloads \subseteq Int /\ Offers \subseteq Seq(Section)

VARIABLES
    media,          \* the offer
    m,              \* the section looked at
    r,              \* and its codec
    payloadType,    \* what was found in it, -1 for nothing
    tracks          \* the mids of the tracks, also the keys of midTypeMap

vars == <<media, m, r, payloadType, tracks>>

(* The codec a section of this type is received with. *)
Wanted(type) == CASE type = "video" -> "H264" [] type = "audio" -> "opus" [] OTHER -> "none"

(* remote-<type>-<payload> *)
Mid(type, payload) == <<type, payload>>

Skipped(s) ==
    \/ s.direction \notin {"sendrecv", "sendonly"}
    \/ s.type \notin {"audio", "video"}

(* The loops' variables keep their types. *)
TypeOK ==
    /\ media \in Seq(Section)
    /\ m \in 1..Len(media) + 1
    /\ r \in Nat
    /\ payloadType \in Payloads \cup {-1}
    /\ tracks \subseteq {"audio", "video"} \X Payloads

Init ==
    /\ media \in Offers
    /\ m = 1
    /\ r = 1
    /\ payloadType = -1
    /\ tracks = {}

NextSection == m' = m + 1 /\ r' = 1 /\ payloadType' = -1 /\ UNCHANGED media

SkipSection ==
    /\ m <= Len(media)
    /\ Skipped(media[m])
    /\ NextSection
    /\ UNCHANGED tracks

InRtp ==
    /\ m <= Len(media)
    /\ ~Skipped(media[m])
    /\ r <= Len(media[m].rtp)

(* Mutant: the loop goes on, and the last codec of the name wins. *)
Found_NoBreak ==
    /\ InRtp
    /\ media[m].rtp[r].codec = Wanted(media[m].type)
    /\ payloadType' = media[m].rtp[r].payload
    /\ r' = r + 1
    /\ UNCHANGED <<media, m, tracks>>

(* The first codec of the name ends the loop, with or without a payload.   *)
Found ==
    /\ InRtp
    /\ media[m].rtp[r].codec = Wanted(media[m].type)
    /\ payloadType' = media[m].rtp[r].payload
    /\ r' = Len(media[m].rtp) + 1
    /\ UNCHANGED <<media, m, tracks>>

OtherCodec ==
    /\ InRtp
    /\ media[m].rtp[r].codec # Wanted(media[m].type)
    /\ r' = r + 1
    /\ UNCHANGED <<media, m, payloadType, tracks>>

AddTrack ==
    /\ m <= Len(media)
    /\ ~Skipped(media[m])
    /\ r > Len(media[m].rtp)
    /\ tracks' = IF payloadType < 0 THEN tracks
                 ELSE tracks \cup {Mid(media[m].type, payloadType)}
    /\ NextSection

Next == SkipSection \/ Found \/ OtherCodec \/ AddTrack

Spec == Init /\ [][Next]_vars

-----------------------------------------------------------------------------
(* Correctness *)

(* What a section asks for: if it sends audio or video, a track with the   *)
(* payload type of the first codec the client knows, if that has one.      *)
FirstOf(s) ==
    {j \in DOMAIN s.rtp : /\ s.rtp[j].codec = Wanted(s.type)
                          /\ \A k \in 1..j - 1 : s.rtp[k].codec # Wanted(s.type)}

Offered(s) ==
    IF s.direction \in {"sendrecv", "sendonly"} /\ s.type \in {"audio", "video"}
    THEN {Mid(s.type, s.rtp[j].payload) : j \in {k \in FirstOf(s) : s.rtp[k].payload >= 0}}
    ELSE {}

(* When the loops are done the connection has the tracks that its sections *)
(* ask for and no other.  Sections that ask for the same share one: there  *)
(* is not a track for each section.                                        *)
TracksAsOffered ==
    m > Len(media) => tracks = UNION {Offered(media[i]) : i \in DOMAIN media}
=============================================================================
