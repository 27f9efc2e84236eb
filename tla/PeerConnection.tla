--------------------------- MODULE PeerConnection ---------------------------
(***************************************************************************)
(* rtc::PeerConnection as WebRTCManager uses it: the offer/answer state,   *)
(* whether a remote description is known, whether the connection closed,   *)
(* and whether the local media tracks were added.                          *)
(*                                                                         *)
(* The library is a prebuilt binary; what its calls do to this state is    *)
(* taken from how the manager calls it and from the library's messages.    *)
(* A connection that closed never opens again; a description given to it   *)
(* may still be recorded or may be refused, so both outcomes are allowed.  *)
(***************************************************************************)

SigStates == {"stable", "haveLocalOffer", "haveRemoteOffer"}

PcState == [sig : SigStates, remote : BOOLEAN, closed : BOOLEAN, media : BOOLEAN]

NewPc == [sig |-> "stable", remote |-> FALSE, closed |-> FALSE, media |-> FALSE]

(* The type argument of a remote description: any type but "offer" is      *)
(* turned into an answer by the manager.                                   *)
SdpTypes == {"offer", "answer"}

(* setRemoteDescription accepts an offer unless one is being answered (an  *)
(* own offer is rolled back), and an answer only to an own offer.          *)
AcceptsRemote(p, type) ==
    \/ type = "offer"  /\ p.sig # "haveRemoteOffer"
    \/ type = "answer" /\ p.sig = "haveLocalOffer"

AfterRemote(p, type) ==
    [p EXCEPT !.remote = TRUE,
              !.sig = IF type = "offer" THEN "haveRemoteOffer" ELSE "stable"]

(* setLocalDescription(Answer) completes the exchange; on a connection     *)
(* that closed it may return without doing so.                             *)
AfterLocalAnswer(p) ==
    {[p EXCEPT !.sig = "stable"]} \cup (IF p.closed THEN {p} ELSE {})

(* setLocalDescription(Offer) starts an exchange from the stable state and *)
(* is ignored in any other.                                                *)
AfterLocalOffer(p) ==
    IF p.sig # "stable" THEN {p}
    ELSE {[p EXCEPT !.sig = "haveLocalOffer"]} \cup (IF p.closed THEN {p} ELSE {})
=============================================================================
