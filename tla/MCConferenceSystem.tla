------------------------- MODULE MCConferenceSystem -------------------------
(* ConferenceSystem with one or two other participants, given in the .cfg. *)
EXTENDS ConferenceSystem
=============================================================================
