----------------------------- MODULE MCChatAudio -----------------------------
(* ChatAudio with one speaker and three labels, given in the .cfg. *)
EXTENDS ChatAudio
=============================================================================
