---------------------------- MODULE MCConference ----------------------------
(* Conference on small instances: see the .cfg files for the constants. *)
EXTENDS Conference
=============================================================================
