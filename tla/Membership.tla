----------------------------- MODULE Membership -----------------------------
(***************************************************************************)
(* What a client promises the signaling server, with nothing of how it     *)
(* keeps the promise: it joins once on a connection and publishes in one   *)
(* role, it asks for another participant's stream, and while it stays for  *)
(* the room, only if that request does not stand already, and when it      *)
(* leaves it withdraws what it asked for itself.                           *)
(***************************************************************************)
EXTENDS Requests

VARIABLES call,      \* idle, in the conference, or leaving it
          player,    \* the role of the session
          asked,     \* the requests that stand
          again      \* the requests made while they stood

vars == <<call, player, asked, again>>

Init ==
    /\ call = "idle"
    /\ player = FALSE
    /\ asked = {}
    /\ again = {}

Enter ==
    /\ call = "idle"
    /\ call' = "in"
    /\ player' \in BOOLEAN
    /\ asked' = {}
    /\ again' = {}

FailToEnter ==
    /\ call = "idle"
    /\ player' \in BOOLEAN
    /\ UNCHANGED <<call, asked, again>>

Ask(r) ==
    /\ r \in asked =>
          \/ r = Publish(~player)
          \/ r = Play(Room) /\ call = "leaving"
    /\ r \notin {Publish(player), Play(Self)}
    /\ asked' = asked \cup {r}
    /\ again' = again \cup ({r} \cap asked)
    /\ call # "idle"
    /\ UNCHANGED <<call, player>>

(* The server stops playing a stream. *)
PlayEnds(s) ==
    /\ asked' = asked \ {Play(s)}
    /\ UNCHANGED <<call, player, again>>

ConnectionLost ==
    /\ asked' = {}
    /\ again' = {}
    /\ UNCHANGED <<call, player>>

Leave ==
    /\ call = "in"
    /\ call' = "leaving"
    /\ asked' = asked \ OwnRequests
    /\ UNCHANGED <<player, again>>

Return ==
    /\ call = "leaving"
    /\ call' = "idle"
    /\ UNCHANGED <<player, asked, again>>

Next ==
    \/ Enter
    \/ FailToEnter
    \/ \E r \in Requests : Ask(r)
    \/ \E s \in Streams \ {Self} : PlayEnds(s)
    \/ ConnectionLost
    \/ Leave
    \/ Return

Spec == Init /\ [][Next]_vars
=============================================================================
