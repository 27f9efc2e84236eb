---------------------------- MODULE MCLogRotation ----------------------------
(* LogRotation with few backups: see the .cfg file for the constants.  The *)
(* callers are threads, which come between each other anywhere, so what a  *)
(* signal handler does is among it.                                        *)
EXTENDS LogRotation, TLC

Symmetry == Permutations(Callers)
=============================================================================
