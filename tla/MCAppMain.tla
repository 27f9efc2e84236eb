------------------------------ MODULE MCAppMain ------------------------------
(* AppMain with few lines and signals, given in the .cfg. *)
EXTENDS AppMain
=============================================================================
