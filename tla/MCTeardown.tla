----------------------------- MODULE MCTeardown -----------------------------
(* Teardown with few callbacks at the same time, given in the .cfg. *)
EXTENDS Teardown
=============================================================================
