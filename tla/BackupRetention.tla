--------------------------- MODULE BackupRetention ---------------------------
(***************************************************************************)
(* What the rotation of a log file promises, with nothing of file names,   *)
(* of archives and of the index file: the files put away are numbered in   *)
(* the order of time; one goes only when MaxLogFileNum newer ones were put *)
(* away, less one for each interruption, or it is lost, which costs an     *)
(* interruption; and all bets are off once the index file itself was       *)
(* unreadable.                                                             *)
(***************************************************************************)
EXTENDS Naturals

CONSTANT MaxLogFileNum

VARIABLES kept,       \* the files put away that exist
          made,       \* how many were ever put away
          failed,     \* interruptions so far
          lost,       \* files lost so far
          trusted     \* the index file was never unreadable

vars == <<kept, made, failed, lost, trusted>>

Init ==
    /\ kept = {}
    /\ made = 0
    /\ failed = 0
    /\ lost = 0
    /\ trusted = TRUE

DropOld ==
    /\ \E g \in kept : g + MaxLogFileNum <= made + failed /\ kept' = kept \ {g}
    /\ UNCHANGED <<made, failed, lost, trusted>>

Put ==
    /\ kept' = kept \cup {made}
    /\ made' = made + 1
    /\ UNCHANGED <<failed, lost, trusted>>

Interrupt ==
    /\ failed' = failed + 1
    /\ UNCHANGED <<kept, made, lost, trusted>>

(* A file is lost: to the one put away now, to an interruption now, or to  *)
(* one before.                                                             *)
Lose ==
    /\ \E g \in kept :
          \/ kept' = (kept \ {g}) \cup {made} /\ made' = made + 1 /\ failed' = failed
          \/ kept' = kept \ {g} /\ made' = made /\ failed' \in {failed, failed + 1}
    /\ lost' = lost + 1
    /\ lost' <= failed'
    /\ UNCHANGED trusted

Distrust == trusted /\ ~trusted' /\ UNCHANGED <<kept, made, failed, lost>>

Next == DropOld \/ Put \/ Interrupt \/ Lose \/ Distrust \/ (~trusted /\ ~trusted')

Spec == Init /\ [][Next]_vars
=============================================================================
