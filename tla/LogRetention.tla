---------------------------- MODULE LogRetention ----------------------------
(***************************************************************************)
(* What the log folders promise, with nothing of folders, archives and     *)
(* locks: an entry that was written stays, on the day it was written, and  *)
(* only whole days that are over are dropped, the oldest first.  Once      *)
(* there was a fault, nothing is promised.                                 *)
(***************************************************************************)
EXTENDS Naturals

CONSTANTS Entries, Days

VARIABLES today,
          written,   \* the day of each entry, 0 before it is written
          kept,      \* the entries that can still be read
          faults     \* crashes, clock corrections, failed archives so far

vars == <<today, written, kept, faults>>

Init ==
    /\ today = 1
    /\ written = [e \in Entries |-> 0]
    /\ kept = {}
    /\ faults = 0

Midnight ==
    /\ today' = today + 1
    /\ UNCHANGED <<written, kept, faults>>

Write(e, d) ==
    /\ written[e] = 0
    /\ written' = [written EXCEPT ![e] = d]
    /\ kept' = kept \cup {e}
    /\ UNCHANGED <<today, faults>>

(* What is kept of the oldest day, which is over, is dropped. *)
DropOldest(d) ==
    /\ d < today
    /\ \A e \in kept : d <= written[e]
    /\ kept' = {e \in kept : written[e] # d}
    /\ UNCHANGED <<today, written, faults>>

Next ==
    \/ Midnight
    \/ \E e \in Entries, d \in Days : Write(e, d)
    \/ \E d \in Days : DropOldest(d)
    \/ faults' > 0

Spec == Init /\ [][Next]_vars
=============================================================================
