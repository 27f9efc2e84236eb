---------------------------- MODULE MCLogFolders ----------------------------
(* LogFolders with few threads, entries and days, all given in the .cfg. *)
EXTENDS LogFolders
=============================================================================
