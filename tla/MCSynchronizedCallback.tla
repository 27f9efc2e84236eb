------------------------ MODULE MCSynchronizedCallback ------------------------
(* SynchronizedCallback with three threads and two functions, in the .cfg. *)
EXTENDS SynchronizedCallback
=============================================================================
