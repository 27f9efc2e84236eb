----------------------------- MODULE LogFolders -----------------------------
(***************************************************************************)
(* The folders of the log, one for a day (Log.cpp): DBGLogAndPublish and   *)
(* DataLogAndPublish write into today's; DBGHandleOldLog compresses those  *)
(* of earlier days and drops the oldest when they need too much space.     *)
(* All hold gDebugLock, but DBGHandleOldLog reads the clock before it has  *)
(* it.                                                                     *)
(*                                                                         *)
(* tar and rm -rf are programs that run for a while: a crash may come      *)
(* between any two of their steps.  The size of the log is the number of   *)
(* its entries, each is a file of its own.  Left out: what today's folder  *)
(* goes through (LogRotation), and the maintenance's own entries.          *)
(***************************************************************************)
EXTENDS Naturals, FiniteSets

CONSTANTS
    Threads,
    Entries,        \* what there is to log
    MaxDay,         \* bound: days
    MaxReserved,    \* MAX_APLOG_RESERVED_SIZE
    MaxFaults       \* bound: crashes, clock corrections, failed archives

ASSUME BoundsAssumption == MaxDay \in Nat \ {0} /\ MaxReserved \in Nat /\ MaxFaults \in Nat

Days == 1..MaxDay

VARIABLES
    today,       \* what the clock says
    folders,     \* days that have a folder
    entries,     \* what is in it
    archives,    \* days that have a .tgz
    archived,    \* what is in it
    lock,        \* threads that hold gDebugLock
    at,          \* where each thread is
    date,        \* the time it read
    old,         \* the day HandleOldLog is working on
    written,     \* the day each entry was written to, 0 before
    expired,     \* entries dropped as the oldest
    faults

disk    == <<folders, entries, archives, archived>>
history == <<written, expired>>
vars    == <<today, disk, lock, at, date, old, history, faults>>

(* The clock, the disk and the threads keep their types. *)
TypeOK ==
    /\ today \in Days
    /\ folders \subseteq Days /\ archives \subseteq Days
    /\ entries \in [Days -> SUBSET Entries]
    /\ archived \in [Days -> SUBSET Entries]
    /\ lock \subseteq Threads
    /\ at \in [Threads -> {"idle", "log", "handle", "compress", "tar", "rm", "expire"}]
    /\ date \in [Threads -> Days]
    /\ old \in Days
    /\ written \in [Entries -> 0..MaxDay]
    /\ expired \subseteq Entries
    /\ faults \in 0..MaxFaults

Init ==
    /\ today = 1
    /\ folders = {} /\ archives = {}
    /\ entries = [d \in Days |-> {}]
    /\ archived = [d \in Days |-> {}]
    /\ lock = {}
    /\ at = [t \in Threads |-> "idle"]
    /\ date = [t \in Threads |-> 1]
    /\ old = 1
    /\ written = [e \in Entries |-> 0]
    /\ expired = {}
    /\ faults = 0

Goes(t, from, to) == at[t] = from /\ at' = [at EXCEPT ![t] = to]

-----------------------------------------------------------------------------
(* DBGLogAndPublish, DataLogAndPublish *)

(* Mutant: the clock is read before the lock is taken. *)
LogTakesTime_Unlocked(t) ==
    /\ Goes(t, "idle", "log")
    /\ date' = [date EXCEPT ![t] = today]
    /\ UNCHANGED <<today, disk, lock, old, history, faults>>

(* Mutant: the lock is not given back when the file cannot be opened. *)
LogFails_KeepsLock(t) ==
    /\ Goes(t, "log", "idle")
    /\ folders' \in {folders, folders \cup {date[t]}}
    /\ UNCHANGED <<today, entries, archives, archived, lock, date, old, history, faults>>

LogTakesTime(t) ==
    /\ lock = {}
    /\ lock' = {t}
    /\ Goes(t, "idle", "log")
    /\ date' = [date EXCEPT ![t] = today]
    /\ UNCHANGED <<today, disk, old, history, faults>>

LogWrites(t) ==
    /\ Goes(t, "log", "idle")
    /\ lock' = {}
    /\ folders' = folders \cup {date[t]}
    /\ \E e \in Entries :
          /\ written[e] = 0
          /\ entries' = [entries EXCEPT ![date[t]] = @ \cup {e}]
          /\ written' = [written EXCEPT ![e] = date[t]]
    /\ UNCHANGED <<today, archives, archived, date, old, expired, faults>>

(* The folder or the file cannot be made. *)
LogFails(t) ==
    /\ Goes(t, "log", "idle")
    /\ lock' = {}
    /\ folders' \in {folders, folders \cup {date[t]}}
    /\ UNCHANGED <<today, entries, archives, archived, date, old, history, faults>>

-----------------------------------------------------------------------------
(* DBGHandleOldLog *)

(* Mutant: the date is off by one. *)
HandleTakesTime_Yesterday(t) ==
    /\ Goes(t, "idle", "handle")
    /\ date' = [date EXCEPT ![t] = today - 1]
    /\ UNCHANGED <<today, disk, lock, old, history, faults>>

HandleTakesTime(t) ==
    /\ Goes(t, "idle", "handle")
    /\ date' = [date EXCEPT ![t] = today]
    /\ UNCHANGED <<today, disk, lock, old, history, faults>>

HandleLocks(t) ==
    /\ lock = {}
    /\ date[t] \in folders
    /\ Goes(t, "handle", "compress")
    /\ lock' = {t}
    /\ UNCHANGED <<today, disk, date, old, history, faults>>

(* Without a folder for its time there is no log to report to, and no      *)
(* maintenance.                                                            *)
HandleRefuses(t) ==
    /\ lock = {}
    /\ date[t] \notin folders
    /\ Goes(t, "handle", "idle")
    /\ UNCHANGED <<today, disk, lock, date, old, history, faults>>

(* Mutant: the folder that is written to counts as old, too. *)
TarStarts_Today(t) ==
    /\ Goes(t, "compress", "tar")
    /\ old' \in {d \in folders : d <= date[t]}
    /\ archives' = archives \cup {old'}
    /\ archived' = [archived EXCEPT ![old'] = {}]
    /\ UNCHANGED <<today, folders, entries, lock, date, history, faults>>

(* HandleOldLog: tar opens a new archive in place of any earlier one ...   *)
TarStarts(t) ==
    /\ Goes(t, "compress", "tar")
    /\ old' \in {d \in folders : d < date[t]}
    /\ archives' = archives \cup {old'}
    /\ archived' = [archived EXCEPT ![old'] = {}]
    /\ UNCHANGED <<today, folders, entries, lock, date, history, faults>>

TarEnds(t) ==
    /\ Goes(t, "tar", "rm")
    /\ archived' = [archived EXCEPT ![old] = entries[old]]
    /\ UNCHANGED <<today, folders, entries, archives, lock, date, old, history, faults>>

(* ... nobody looks at its result ...                                      *)
TarFails(t) ==
    /\ faults < MaxFaults
    /\ faults' = faults + 1
    /\ Goes(t, "tar", "rm")
    /\ archived' \in {[archived EXCEPT ![old] = s] : s \in SUBSET entries[old]}
    /\ UNCHANGED <<today, folders, entries, archives, lock, date, old, history>>

(* ... and rm removes what is in the folder, and then the folder.          *)
RmEntry(t) ==
    /\ at[t] = "rm"
    /\ \E e \in entries[old] : entries' = [entries EXCEPT ![old] = @ \ {e}]
    /\ UNCHANGED <<today, folders, archives, archived, lock, at, date, old, history, faults>>

RmFolder(t) ==
    /\ entries[old] = {}
    /\ Goes(t, "rm", "compress")
    /\ folders' = folders \ {old}
    /\ UNCHANGED <<today, entries, archives, archived, lock, date, old, history, faults>>

Compressed(t) == \A d \in folders : d >= date[t]

(* GetTotalFolderSizeMb *)
Size == Cardinality({f \in Days \X Entries : f[2] \in entries[f[1]]})
        + Cardinality({f \in Days \X Entries : f[2] \in archived[f[1]]})

EnoughSpace(t) ==
    /\ Compressed(t)
    /\ Size <= MaxReserved
    /\ Goes(t, "compress", "idle")
    /\ lock' = {}
    /\ UNCHANGED <<today, disk, date, old, history, faults>>

TooLarge(t) ==
    /\ Compressed(t)
    /\ Size > MaxReserved
    /\ Goes(t, "compress", "expire")
    /\ UNCHANGED <<today, disk, lock, date, old, history, faults>>

(* RemoveTheOldestLog: the first folder or archive found with the earliest *)
(* date, if that is not today's.                                           *)
RemoveTheOldestLog(t) ==
    /\ Goes(t, "expire", "idle")
    /\ lock' = {}
    /\ LET dates == folders \cup archives
           Oldest(d) == d < today /\ \A c \in dates : d <= c
       IN  \/ /\ \E d \in folders :
                    /\ Oldest(d)
                    /\ folders' = folders \ {d}
                    /\ entries' = [entries EXCEPT ![d] = {}]
                    /\ expired' = expired \cup entries[d]
              /\ UNCHANGED <<archives, archived>>
           \/ /\ \E d \in archives :
                    /\ Oldest(d)
                    /\ archives' = archives \ {d}
                    /\ archived' = [archived EXCEPT ![d] = {}]
                    /\ expired' = expired \cup archived[d]
              /\ UNCHANGED <<folders, entries>>
           \/ /\ \A d \in dates : ~Oldest(d)
              /\ UNCHANGED <<disk, expired>>
    /\ UNCHANGED <<today, date, old, written, faults>>

-----------------------------------------------------------------------------
(* The clock and the machine *)

Midnight ==
    /\ today < MaxDay
    /\ today' = today + 1
    /\ UNCHANGED <<disk, lock, at, date, old, history, faults>>

ClockSetBack ==
    /\ today > 1 /\ faults < MaxFaults
    /\ today' = today - 1
    /\ faults' = faults + 1
    /\ UNCHANGED <<disk, lock, at, date, old, history>>

Crash ==
    /\ faults < MaxFaults
    /\ faults' = faults + 1
    /\ lock' = {}
    /\ at' = [t \in Threads |-> "idle"]
    /\ UNCHANGED <<today, disk, date, old, history>>

-----------------------------------------------------------------------------
DBGLogAndPublish(t) == LogTakesTime(t) \/ LogWrites(t) \/ LogFails(t)

HandleOldLog(t) == TarStarts(t) \/ TarEnds(t) \/ RmEntry(t) \/ RmFolder(t)

DBGHandleOldLog(t) ==
    \/ HandleLocks(t) \/ HandleRefuses(t)
    \/ HandleOldLog(t)
    \/ EnoughSpace(t) \/ TooLarge(t) \/ RemoveTheOldestLog(t)

Next ==
    \/ \E t \in Threads :
          DBGLogAndPublish(t) \/ HandleTakesTime(t) \/ DBGHandleOldLog(t) \/ TarFails(t)
    \/ Midnight
    \/ ClockSetBack
    \/ Crash

(* A thread in a call goes on; it gets the lock though others want it too. *)
Fairness ==
    \A t \in Threads : /\ SF_vars(DBGHandleOldLog(t))
                       /\ WF_vars(LogWrites(t) \/ LogFails(t))

Spec == Init /\ [][Next]_vars /\ Fairness

-----------------------------------------------------------------------------
(* Correctness *)

Kept == UNION {entries[d] \cup archived[d] : d \in Days}

(* Until something fails an entry stays until its whole day is dropped,    *)
(* whenever midnight comes.                                                *)
Retention == INSTANCE LogRetention WITH kept <- Kept

KeepsRetention == Retention!Spec

(* Every call comes to its end: the lock is never left held. *)
CallsReturn == \A t \in Threads : at[t] # "idle" ~> at[t] = "idle"

Lost(d) == \E e \in Entries : written[e] = d /\ e \notin Kept \cup expired

(* A fault costs entries of one day at most. *)
DamageBounded == Cardinality({d \in Days : Lost(d)}) <= faults
=============================================================================
