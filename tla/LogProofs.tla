----------------------------- MODULE LogProofs -----------------------------
(***************************************************************************)
(* Proofs about the log.  LogFolders, for any number of threads, entries   *)
(* and days, whenever midnight comes: its types, whatever fails, that the  *)
(* folders and archives implement LogRetention until something does, and   *)
(* that each fault costs the entries of one day at most.                   *)
(*                                                                         *)
(* LogRotation, for any finite set of threads and handlers, any limit and  *)
(* any number of rotations and interruptions: its types, that the backups  *)
(* implement BackupRetention, that of the newest ones at most as many are  *)
(* missing as there were interruptions, and that not more than the limit,  *)
(* and one for each interruption, are uncompressed.                        *)
(***************************************************************************)
EXTENDS LogFolders, LogRotation, FiniteSetTheorems, TLAPS

USE DEF disk, history, vars, storage, thread, rotationVars

-----------------------------------------------------------------------------
(* Types *)

LEMMA InitTypeOK == Init => TypeOK
BY BoundsAssumption DEF Init, TypeOK, Days

LEMMA NextTypeOK == TypeOK /\ [Next]_vars => TypeOK'
<1> SUFFICES ASSUME TypeOK, [Next]_vars PROVE TypeOK'
  OBVIOUS
<1> USE BoundsAssumption DEF TypeOK, Goes
<1>1. ASSUME NEW t \in Threads, DBGLogAndPublish(t) PROVE TypeOK'
  <2>1. CASE LogTakesTime(t)
    BY <2>1 DEF LogTakesTime
  <2>2. CASE LogWrites(t)
    <3>1. date[t] \in Days /\ date[t] \in 0..MaxDay
      BY DEF Days
    <3>2. PICK e \in Entries : /\ entries' = [entries EXCEPT ![date[t]] = @ \cup {e}]
                               /\ written' = [written EXCEPT ![e] = date[t]]
      BY <2>2 DEF LogWrites
    <3>3. entries' \in [Days -> SUBSET Entries] /\ written' \in [Entries -> 0..MaxDay]
      BY <3>1, <3>2
    <3> QED BY <2>2, <3>1, <3>3 DEF LogWrites
  <2>3. CASE LogFails(t)
    BY <2>3 DEF LogFails
  <2> QED BY <1>1, <2>1, <2>2, <2>3 DEF DBGLogAndPublish
<1>2. ASSUME NEW t \in Threads, HandleTakesTime(t) \/ HandleLocks(t) \/ HandleRefuses(t)
      PROVE TypeOK'
  BY <1>2 DEF HandleTakesTime, HandleLocks, HandleRefuses
<1>3. ASSUME NEW t \in Threads, HandleOldLog(t) \/ TarFails(t) PROVE TypeOK'
  <2>1. CASE TarStarts(t)
    BY <2>1 DEF TarStarts
  <2>2. CASE TarEnds(t)
    BY <2>2 DEF TarEnds
  <2>3. CASE TarFails(t)
    BY <2>3 DEF TarFails
  <2>4. CASE RmEntry(t)
    BY <2>4 DEF RmEntry
  <2>5. CASE RmFolder(t)
    BY <2>5 DEF RmFolder
  <2> QED BY <1>3, <2>1, <2>2, <2>3, <2>4, <2>5 DEF HandleOldLog
<1>4. ASSUME NEW t \in Threads, EnoughSpace(t) \/ TooLarge(t) PROVE TypeOK'
  BY <1>4 DEF EnoughSpace, TooLarge
<1>5. ASSUME NEW t \in Threads, RemoveTheOldestLog(t) PROVE TypeOK'
  BY <1>5 DEF RemoveTheOldestLog
<1>6. CASE Midnight
  BY <1>6 DEF Midnight, Days
<1>7. CASE ClockSetBack
  BY <1>7 DEF ClockSetBack, Days
<1>8. CASE Crash
  BY <1>8 DEF Crash
<1>9. CASE UNCHANGED vars
  BY <1>9
<1> QED BY <1>1, <1>2, <1>3, <1>4, <1>5, <1>6, <1>7, <1>8, <1>9 DEF Next, DBGHandleOldLog

(* The clock, the disk and the threads keep their types. *)
THEOREM TypeCorrect == Spec => []TypeOK
<1> QED BY InitTypeOK, NextTypeOK, PTL DEF Spec

-----------------------------------------------------------------------------
(* The inductive invariant of the folders while nothing fails *)

(* Who is past the lock holds it. *)
Locked == \A t \in Threads : at[t] \notin {"idle", "handle"} => lock = {t}

(* Times that were read are past; an archive is of a day that is over, also *)
(* for the one who writes now, whenever he looked at the clock.            *)
Dates ==
    /\ \A t \in Threads : date[t] <= today
    /\ \A d \in archives : d < today
    /\ \A t \in Threads : at[t] = "log" => \A d \in archives : d < date[t]

(* Entries are in folders and archives that are there, of their own day.   *)
FilesThere ==
    \A d \in Days :
        /\ entries[d] # {} => d \in folders
        /\ archived[d] # {} => d \in archives
        /\ \A e \in entries[d] \cup archived[d] : written[e] = d

(* A day has both only while it is packed; what rm removes is archived.    *)
Packing ==
    /\ \A d \in folders \cap archives :
          \E t \in Threads : at[t] \in {"tar", "rm"} /\ old = d
    /\ \A t \in Threads : at[t] = "tar" => archived[old] = {} /\ old \in archives
    /\ \A t \in Threads : at[t] = "rm" => entries[old] \subseteq archived[old]

IInv == TypeOK /\ Locked /\ Dates /\ FilesThere /\ Packing

(* A step of the abstract specification, or none. *)
Refines == [Retention!Next]_(Retention!vars)

LEMMA KeptMembers ==
    \A e : e \in Kept <=> \E d \in Days : e \in entries[d] \cup archived[d]
BY DEF Kept

LEMMA KeptMembersNext ==
    \A e : e \in Kept' <=> \E d \in Days : e \in entries'[d] \cup archived'[d]
BY DEF Kept

(* A step that leaves every day what it has, refines by a stutter. *)
LEMMA Stutters ==
    ASSUME UNCHANGED <<today, written, faults>>,
           \A d \in Days : entries'[d] \cup archived'[d] = entries[d] \cup archived[d]
    PROVE  Refines
<1>1. Kept' = Kept
  BY KeptMembers, KeptMembersNext
<1> QED BY <1>1 DEF Refines, Retention!vars

LEMMA OthersOut ==
    ASSUME IInv, NEW t \in Threads, at[t] \notin {"idle", "handle"}
    PROVE  lock = {t} /\ \A s \in Threads \ {t} : at[s] \in {"idle", "handle"}
BY DEF IInv, TypeOK, Locked

LEMMA InitIInv == Init => IInv
<1> SUFFICES ASSUME Init PROVE IInv
  OBVIOUS
<1>1. Locked /\ Dates /\ Packing
  BY DEF Init, Locked, Dates, Packing
<1>2. FilesThere
  BY DEF Init, FilesThere
<1> QED BY <1>1, <1>2, InitTypeOK DEF IInv

(* Writing: a new entry of the writer's day. *)
LEMMA WriterKeeps ==
    ASSUME IInv, TypeOK', UNCHANGED faults, NEW t \in Threads, DBGLogAndPublish(t)
    PROVE  IInv' /\ Refines
<1> USE DEF Goes
<1>1. CASE LogTakesTime(t)
  <2>1. Locked'
    BY <1>1 DEF LogTakesTime, IInv, TypeOK, Locked
  <2>2. Dates'
    BY <1>1 DEF LogTakesTime, IInv, TypeOK, Dates, Days
  <2>3. FilesThere' /\ Packing'
    BY <1>1 DEF LogTakesTime, IInv, TypeOK, FilesThere, Packing
  <2>4. Refines
    BY <1>1, Stutters DEF LogTakesTime
  <2> QED BY <2>1, <2>2, <2>3, <2>4 DEF IInv
<1>2. ASSUME LogWrites(t) \/ LogFails(t)
      PROVE  /\ at[t] = "log" /\ at' = [at EXCEPT ![t] = "idle"]
             /\ Locked' /\ Dates'
             /\ date[t] \in Days /\ date[t] \notin archives
             /\ \A s \in Threads : at[s] \notin {"tar", "rm"} /\ at'[s] \notin {"tar", "rm"}
  <2>1. /\ at[t] = "log" /\ at' = [at EXCEPT ![t] = "idle"]
        /\ UNCHANGED <<today, archives, date>>
    BY <1>2 DEF LogWrites, LogFails
  <2>2. \A s \in Threads : at'[s] \in {"idle", "handle"} /\ at[s] \in {"idle", "handle", "log"}
    BY <2>1, OthersOut DEF IInv, TypeOK
  <2>3. Locked' /\ Dates'
    BY <2>1, <2>2 DEF IInv, Locked, Dates
  <2>4. date[t] \in Days /\ date[t] \notin archives
    BY <2>1 DEF IInv, TypeOK, Dates, Days
  <2> QED BY <2>1, <2>2, <2>3, <2>4
<1>3. CASE LogFails(t)
  <2>1. folders' \in {folders, folders \cup {date[t]}} /\ UNCHANGED <<today, entries, archives, archived, date, old, written>>
    BY <1>3 DEF LogFails
  <2>2. FilesThere'
    BY <2>1 DEF IInv, FilesThere
  <2>3. Packing'
    BY <1>2, <1>3, <2>1 DEF IInv, TypeOK, Packing
  <2>4. Refines
    BY <2>1, Stutters
  <2> QED BY <1>2, <1>3, <2>2, <2>3, <2>4 DEF IInv
<1>4. CASE LogWrites(t)
  <2>1. PICK e \in Entries : /\ written[e] = 0
                             /\ entries' = [entries EXCEPT ![date[t]] = @ \cup {e}]
                             /\ written' = [written EXCEPT ![e] = date[t]]
    BY <1>4 DEF LogWrites
  <2>2. folders' = folders \cup {date[t]} /\ UNCHANGED <<today, archives, archived, old>>
    BY <1>4 DEF LogWrites
  <2>3. \A d \in Days : e \notin entries[d] \cup archived[d]
    <3>1. \A d \in Days : d # 0
      BY DEF Days
    <3> QED BY <2>1, <3>1 DEF IInv, FilesThere
  <2>4. /\ \A d \in Days : d # date[t] => entries'[d] = entries[d]
        /\ entries'[date[t]] = entries[date[t]] \cup {e}
        /\ written'[e] = date[t] /\ \A f \in Entries : f # e => written'[f] = written[f]
    BY <1>2, <1>4, <2>1 DEF IInv, TypeOK
  <2>5. \A d \in Days : entries[d] \cup archived[d] \subseteq Entries
    BY DEF IInv, TypeOK
  <2>6. FilesThere'
    BY <2>2, <2>3, <2>4, <2>5 DEF IInv, FilesThere
  <2>7. Packing'
    BY <1>2, <1>4, <2>2 DEF IInv, Packing
  <2>8. Kept' = Kept \cup {e}
    BY <1>2, <1>4, <2>2, <2>4, KeptMembers, KeptMembersNext
  <2>9. Retention!Write(e, date[t])
    BY <2>1, <2>2, <2>8 DEF Retention!Write
  <2>10. Refines
    BY <1>2, <1>4, <2>9 DEF Refines, Retention!Next
  <2> QED BY <1>2, <1>4, <2>6, <2>7, <2>10 DEF IInv
<1> QED BY <1>1, <1>3, <1>4 DEF DBGLogAndPublish

(* The maintenance comes and goes. *)
LEMMA HandlerComesAndGoes ==
    ASSUME IInv, TypeOK', UNCHANGED faults, NEW t \in Threads,
           \/ HandleTakesTime(t) \/ HandleLocks(t) \/ HandleRefuses(t)
           \/ EnoughSpace(t) \/ TooLarge(t)
    PROVE  IInv' /\ Refines
<1> USE DEF Goes
<1>1. UNCHANGED <<today, folders, entries, archives, archived, written, old>>
  BY DEF HandleTakesTime, HandleLocks, HandleRefuses, EnoughSpace, TooLarge
<1>2. \E to \in {"idle", "handle", "compress", "expire"} : at' = [at EXCEPT ![t] = to]
  BY DEF HandleTakesTime, HandleLocks, HandleRefuses, EnoughSpace, TooLarge
<1>3. at[t] \notin {"log", "tar", "rm"}
  BY DEF HandleTakesTime, HandleLocks, HandleRefuses, EnoughSpace, TooLarge
<1>4. Locked'
  <2>1. CASE HandleTakesTime(t) \/ HandleLocks(t) \/ HandleRefuses(t)
    BY <2>1 DEF HandleTakesTime, HandleLocks, HandleRefuses, IInv, TypeOK, Locked
  <2>2. CASE EnoughSpace(t) \/ TooLarge(t)
    BY <2>2, OthersOut DEF EnoughSpace, TooLarge, IInv, TypeOK, Locked
  <2> QED BY <2>1, <2>2
<1>5. date' = date \/ date' = [date EXCEPT ![t] = today]
  BY DEF HandleTakesTime, HandleLocks, HandleRefuses, EnoughSpace, TooLarge
<1>d. \A s \in Threads : at'[s] = "log" => s # t /\ at[s] = "log" /\ date'[s] = date[s]
  BY <1>2, <1>3, <1>5 DEF IInv, TypeOK
<1>6. Dates'
  <2>1. \A s \in Threads : date'[s] = date[s] \/ date'[s] = today
    BY <1>5 DEF IInv, TypeOK
  <2>2. today <= today
    BY BoundsAssumption DEF IInv, TypeOK, Days
  <2> QED BY <1>1, <1>d, <2>1, <2>2 DEF IInv, Dates
<1>7. FilesThere'
  BY <1>1 DEF IInv, FilesThere
<1>8. Packing'
  BY <1>1, <1>2, <1>3 DEF IInv, TypeOK, Packing
<1>9. Refines
  BY <1>1, Stutters
<1> QED BY <1>4, <1>6, <1>7, <1>8, <1>9 DEF IInv

(* Packing a day. *)
LEMMA HandleOldLogKeeps ==
    ASSUME IInv, TypeOK', UNCHANGED faults, NEW t \in Threads, HandleOldLog(t)
    PROVE  IInv' /\ Refines
<1> USE DEF Goes
<1>1. /\ at[t] \in {"compress", "tar", "rm"}
      /\ \E to \in {"compress", "tar", "rm"} : at' = [at EXCEPT ![t] = to]
      /\ UNCHANGED <<today, lock, date, written>>
  BY DEF HandleOldLog, TarStarts, TarEnds, RmEntry, RmFolder, IInv, TypeOK
<1>2. lock = {t} /\ \A s \in Threads \ {t} : at[s] \in {"idle", "handle"}
  BY <1>1, OthersOut
<1>3. /\ at'[t] \in {"compress", "tar", "rm"}
      /\ \A s \in Threads \ {t} : at'[s] = at[s] /\ at'[s] \in {"idle", "handle"}
  BY <1>1, <1>2 DEF IInv, TypeOK
<1>4. Locked'
  BY <1>1, <1>2, <1>3 DEF Locked
<1>5. CASE TarStarts(t)
  <2>1. /\ at[t] = "compress" /\ at'[t] = "tar"
        /\ old' \in folders /\ old' \in Days /\ old' < date[t]
        /\ archives' = archives \cup {old'}
        /\ archived' = [archived EXCEPT ![old'] = {}]
        /\ UNCHANGED <<folders, entries>>
    BY <1>5 DEF TarStarts, IInv, TypeOK
  <2>2. folders \cap archives = {}
    BY <1>2, <2>1 DEF IInv, Packing
  <2>3. archived[old'] = {}
    BY <2>1, <2>2 DEF IInv, FilesThere
  <2>4. archived' = archived
    BY <2>1, <2>3 DEF IInv, TypeOK
  <2>5. Dates'
    <3>1. old' < today
      BY <2>1 DEF IInv, TypeOK, Dates, Days
    <3> QED BY <1>1, <1>3, <2>1, <3>1 DEF IInv, Dates
  <2>6. FilesThere'
    BY <1>1, <2>1, <2>4 DEF IInv, FilesThere
  <2>7. Packing'
    BY <1>3, <2>1, <2>2, <2>3, <2>4 DEF Packing
  <2>8. Refines
    BY <1>1, <2>1, <2>4, Stutters
  <2> QED BY <1>4, <2>5, <2>6, <2>7, <2>8 DEF IInv
<1>6. CASE TarEnds(t)
  <2>1. /\ at[t] = "tar" /\ at'[t] = "rm" /\ old \in Days
        /\ archived' = [archived EXCEPT ![old] = entries[old]]
        /\ UNCHANGED <<folders, entries, archives, old>>
    BY <1>6 DEF TarEnds, IInv, TypeOK
  <2>2. archived[old] = {} /\ old \in archives
    BY <2>1 DEF IInv, Packing
  <2>3. /\ archived'[old] = entries[old]
        /\ \A d \in Days : d # old => archived'[d] = archived[d]
    BY <2>1 DEF IInv, TypeOK
  <2>4. Dates'
    BY <1>1, <1>3, <2>1 DEF IInv, Dates
  <2>5. FilesThere'
    BY <1>1, <2>1, <2>2, <2>3 DEF IInv, FilesThere
  <2>6. Packing'
    BY <1>3, <2>1, <2>3 DEF IInv, Packing
  <2>7. Refines
    BY <1>1, <2>1, <2>2, <2>3, Stutters
  <2> QED BY <1>4, <2>4, <2>5, <2>6, <2>7 DEF IInv
<1>7. CASE RmEntry(t)
  <2>1. /\ at[t] = "rm" /\ old \in Days
        /\ UNCHANGED <<folders, archives, archived, at, old>>
    BY <1>7 DEF RmEntry, IInv, TypeOK
  <2>2. PICK e \in entries[old] : entries' = [entries EXCEPT ![old] = @ \ {e}]
    BY <1>7 DEF RmEntry
  <2>3. /\ entries'[old] = entries[old] \ {e}
        /\ \A d \in Days : d # old => entries'[d] = entries[d]
        /\ entries[old] \subseteq archived[old]
    BY <2>1, <2>2 DEF IInv, TypeOK, Packing
  <2>4. Dates'
    BY <1>1, <2>1 DEF IInv, Dates
  <2>5. FilesThere'
    BY <1>1, <2>1, <2>3 DEF IInv, FilesThere
  <2>6. Packing'
    BY <1>3, <2>1, <2>3 DEF IInv, Packing
  <2>7. Refines
    BY <1>1, <2>1, <2>3, Stutters
  <2> QED BY <1>4, <2>4, <2>5, <2>6, <2>7 DEF IInv
<1>8. CASE RmFolder(t)
  <2>1. /\ at[t] = "rm" /\ at'[t] = "compress" /\ entries[old] = {}
        /\ folders' = folders \ {old}
        /\ UNCHANGED <<entries, archives, archived, old>>
    BY <1>8 DEF RmFolder, IInv, TypeOK
  <2>2. Dates'
    BY <1>1, <1>3, <2>1 DEF IInv, Dates
  <2>3. FilesThere'
    BY <1>1, <2>1 DEF IInv, FilesThere
  <2>4. Packing'
    BY <1>3, <2>1 DEF IInv, Packing
  <2>5. Refines
    BY <1>1, <2>1, Stutters
  <2> QED BY <1>4, <2>2, <2>3, <2>4, <2>5 DEF IInv
<1> QED BY <1>5, <1>6, <1>7, <1>8 DEF HandleOldLog

(* A day is dropped whole, and it is the oldest. *)
LEMMA RemoveTheOldestLogKeeps ==
    ASSUME IInv, TypeOK', UNCHANGED faults, NEW t \in Threads, RemoveTheOldestLog(t)
    PROVE  IInv' /\ Refines
<1> USE DEF Goes
<1> DEFINE dates == folders \cup archives
           Oldest(d) == d < today /\ \A c \in dates : d <= c
<1>1. /\ at[t] = "expire" /\ at' = [at EXCEPT ![t] = "idle"]
      /\ UNCHANGED <<today, date, old, written>>
  BY DEF RemoveTheOldestLog
<1>2. \A s \in Threads : at[s] \in {"idle", "handle", "expire"} /\ at'[s] \in {"idle", "handle"}
  BY <1>1, OthersOut DEF IInv, TypeOK
<1>3. folders \cap archives = {}
  BY <1>2 DEF IInv, Packing
<1>4. \A d \in Days : entries[d] = {} \/ archived[d] = {}
  BY <1>3 DEF IInv, FilesThere
<1>5. \A e \in Kept : written[e] \in dates
  BY KeptMembers DEF IInv, FilesThere
<1>6. ASSUME NEW d \in Days, Oldest(d),
             folders' \subseteq folders, archives' \subseteq archives,
             \A c \in Days : c # d => /\ entries'[c] = entries[c] /\ archived'[c] = archived[c]
                                      /\ c \in folders => c \in folders'
                                      /\ c \in archives => c \in archives',
             entries'[d] = {}, archived'[d] = {}
      PROVE  IInv' /\ Refines
  <2>1. Locked'
    BY <1>2 DEF Locked
  <2>2. Dates'
    BY <1>1, <1>2, <1>6 DEF IInv, Dates
  <2>3. FilesThere'
    BY <1>1, <1>6 DEF IInv, FilesThere
  <2>4. Packing'
    BY <1>2, <1>3, <1>6 DEF Packing
  <2>5. Kept' = {e \in Kept : written[e] # d}
    BY <1>6, KeptMembers, KeptMembersNext DEF IInv, FilesThere
  <2>6. Retention!DropOldest(d)
    BY <1>1, <1>5, <1>6, <2>5 DEF Retention!DropOldest
  <2>7. Refines
    BY <1>6, <2>6 DEF Refines, Retention!Next
  <2> QED BY <2>1, <2>2, <2>3, <2>4, <2>7 DEF IInv
<1>7. CASE UNCHANGED <<folders, entries, archives, archived>>
  <2>1. Locked'
    BY <1>2 DEF Locked
  <2>2. Dates' /\ FilesThere' /\ Packing'
    BY <1>1, <1>2, <1>3, <1>7 DEF IInv, Dates, FilesThere, Packing
  <2>3. Refines
    BY <1>1, <1>7, Stutters
  <2> QED BY <2>1, <2>2, <2>3 DEF IInv
<1>8. ASSUME NEW d \in folders, Oldest(d),
             folders' = folders \ {d}, entries' = [entries EXCEPT ![d] = {}],
             UNCHANGED <<archives, archived>>
      PROVE  IInv' /\ Refines
  <2>1. d \in Days /\ archived[d] = {}
    BY <1>3, <1>8 DEF IInv, TypeOK, FilesThere
  <2>2. entries'[d] = {} /\ \A c \in Days : c # d => entries'[c] = entries[c]
    BY <1>8, <2>1 DEF IInv, TypeOK
  <2> QED BY <1>6, <1>8, <2>1, <2>2
<1>9. ASSUME NEW d \in archives, Oldest(d),
             archives' = archives \ {d}, archived' = [archived EXCEPT ![d] = {}],
             UNCHANGED <<folders, entries>>
      PROVE  IInv' /\ Refines
  <2>1. d \in Days /\ entries[d] = {}
    BY <1>3, <1>9 DEF IInv, TypeOK, FilesThere
  <2>2. archived'[d] = {} /\ \A c \in Days : c # d => archived'[c] = archived[c]
    BY <1>9, <2>1 DEF IInv, TypeOK
  <2> QED BY <1>6, <1>9, <2>1, <2>2
<1> QED BY <1>7, <1>8, <1>9 DEF RemoveTheOldestLog

(* While nothing fails. *)
LEMMA StepKeeps ==
    ASSUME IInv, TypeOK', faults = 0, faults' = 0, [Next]_vars
    PROVE  IInv' /\ Refines
<1>1. UNCHANGED faults
  OBVIOUS
<1>2. ~(\E t \in Threads : TarFails(t)) /\ ~ClockSetBack /\ ~Crash
  BY DEF TarFails, ClockSetBack, Crash
<1>3. CASE Midnight
  <2>1. /\ today' = today + 1
        /\ UNCHANGED <<folders, entries, archives, archived, lock, at, date, old, written>>
    BY <1>3 DEF Midnight
  <2>2. Dates'
    BY <2>1 DEF IInv, TypeOK, Dates, Days
  <2>3. Locked' /\ FilesThere' /\ Packing'
    BY <2>1 DEF IInv, Locked, FilesThere, Packing
  <2>4. Kept' = Kept
    BY <2>1 DEF Kept
  <2>5. Retention!Midnight
    BY <1>1, <2>1, <2>4 DEF Retention!Midnight
  <2> QED BY <2>2, <2>3, <2>5 DEF IInv, Refines, Retention!Next
<1>4. CASE UNCHANGED vars
  <2>1. Locked' /\ Dates' /\ FilesThere' /\ Packing'
    BY <1>4 DEF IInv, Locked, Dates, FilesThere, Packing
  <2>2. Refines
    BY <1>4, Stutters
  <2> QED BY <2>1, <2>2 DEF IInv
<1>5. ASSUME NEW t \in Threads,
             DBGLogAndPublish(t) \/ HandleTakesTime(t) \/ DBGHandleOldLog(t)
      PROVE  IInv' /\ Refines
  BY <1>1, <1>5, WriterKeeps, HandlerComesAndGoes, HandleOldLogKeeps, RemoveTheOldestLogKeeps
     DEF DBGHandleOldLog
<1> QED BY <1>2, <1>3, <1>4, <1>5 DEF Next

(* A step takes no fault back. *)
LEMMA FaultsCount == TypeOK /\ [Next]_vars => faults' = faults \/ faults' = faults + 1
BY DEF Next, DBGLogAndPublish, DBGHandleOldLog, HandleOldLog, LogTakesTime, LogWrites,
       LogFails, HandleTakesTime, HandleLocks, HandleRefuses, TarStarts, TarEnds, TarFails,
       RmEntry, RmFolder, EnoughSpace, TooLarge, RemoveTheOldestLog, Midnight,
       ClockSetBack, Crash

UntilFault == TypeOK /\ (faults = 0 => IInv)

LEMMA NextUntilFault == UntilFault /\ [Next]_vars => UntilFault' /\ Refines
<1> SUFFICES ASSUME UntilFault, [Next]_vars PROVE UntilFault' /\ Refines
  OBVIOUS
<1>1. TypeOK' /\ faults \in Nat /\ faults' \in Nat
  BY NextTypeOK, BoundsAssumption DEF UntilFault, TypeOK
<1>2. CASE faults' = 0
  <2>1. faults = 0
    BY <1>1, <1>2, FaultsCount DEF UntilFault
  <2> QED BY <1>1, <1>2, <2>1, StepKeeps DEF UntilFault
<1>3. CASE faults' > 0
  BY <1>1, <1>3 DEF UntilFault, Refines, Retention!Next
<1> QED BY <1>1, <1>2, <1>3

(* Log.cpp:240-468: until something fails the folders, the archives and    *)
(* the lock do what LogRetention says.                                     *)
THEOREM KeepsRetentionHolds == Spec => KeepsRetention
<1>1. Init => Retention!Init
  <2> SUFFICES ASSUME Init PROVE Retention!Init
    OBVIOUS
  <2>1. Kept = {}
    BY KeptMembers DEF Init
  <2> QED BY <2>1 DEF Init, Retention!Init
<1>2. Init => UntilFault
  BY InitIInv, InitTypeOK DEF UntilFault
<1>3. UntilFault /\ [Next]_vars => UntilFault' /\ [Retention!Next]_(Retention!vars)
  BY NextUntilFault DEF Refines
<1> QED BY <1>1, <1>2, <1>3, PTL DEF Spec, KeepsRetention, Retention!Spec
-----------------------------------------------------------------------------
(* What the faults cost *)

(* Every archive in the making is there. *)
Opened == \A t \in Threads : at[t] = "tar" => old \in archives

Files == TypeOK /\ Locked /\ FilesThere /\ Opened

(* No fault has struck day d: nothing of it is lost, whoever read a later  *)
(* time did so when it was over, nobody writes to it once it is archived,  *)
(* and it is packed as if nothing ever failed.                             *)
Intact(d) ==
    /\ ~Lost(d)
    /\ \A t \in Threads : date[t] > d => today > d
    /\ d \in archives => d < today /\ \A t \in Threads : at[t] = "log" => date[t] # d
    /\ d \in folders \cap archives => \E t \in Threads : at[t] \in {"tar", "rm"} /\ old = d
    /\ \A t \in Threads : at[t] = "tar" /\ old = d => archived[d] = {}
    /\ \A t \in Threads : at[t] = "rm" /\ old = d => entries[d] \subseteq archived[d]

(* Each fault strikes one day. *)
Struck ==
    \E struck \in SUBSET Days :
        /\ Cardinality(struck) <= faults
        /\ \A d \in Days \ struck : Intact(d)

LEMMA HolderAlone ==
    ASSUME TypeOK, Locked, NEW t \in Threads, at[t] \notin {"idle", "handle"}
    PROVE  lock = {t} /\ \A s \in Threads \ {t} : at[s] \in {"idle", "handle"}
BY DEF TypeOK, Locked

(* An entry of day d is nowhere else, so that nothing of the day is lost   *)
(* while what it has stays or expires.                                     *)
LEMMA StaysUnlost ==
    ASSUME Files, NEW d \in Days, ~Lost(d),
           entries[d] \cup archived[d] \subseteq entries'[d] \cup archived'[d] \cup expired',
           expired \subseteq expired',
           \A e \in Entries : written'[e] = d => written[e] = d \/ e \in entries'[d]
    PROVE  ~Lost(d)'
<1> SUFFICES ASSUME NEW e \in Entries, written'[e] = d, e \notin Kept', e \notin expired'
             PROVE  FALSE
  BY DEF Lost
<1>1. e \notin entries'[d] \cup archived'[d]
  BY KeptMembersNext
<1>2. written[e] = d /\ e \notin expired /\ e \notin entries[d] \cup archived[d]
  BY <1>1
<1>3. PICK c \in Days : e \in entries[c] \cup archived[c]
  BY <1>2, KeptMembers DEF Lost
<1>4. c = d
  BY <1>2, <1>3 DEF Files, FilesThere
<1> QED BY <1>2, <1>3, <1>4

-----------------------------------------------------------------------------
(* The threads and the files, whatever fails. *)

LEMMA WriterKeepsFiles ==
    ASSUME Files, TypeOK', NEW t \in Threads, DBGLogAndPublish(t)
    PROVE  Files'
<1> USE DEF Goes
<1>1. CASE LogTakesTime(t)
  <2>1. Locked'
    BY <1>1 DEF LogTakesTime, Files, TypeOK, Locked
  <2>2. FilesThere' /\ Opened'
    BY <1>1 DEF LogTakesTime, Files, TypeOK, FilesThere, Opened
  <2> QED BY <2>1, <2>2 DEF Files
<1>2. CASE LogFails(t)
  <2>1. Locked' /\ Opened'
    BY <1>2, HolderAlone DEF LogFails, Files, TypeOK, Locked, Opened
  <2>2. FilesThere'
    BY <1>2 DEF LogFails, Files, FilesThere
  <2> QED BY <2>1, <2>2 DEF Files
<1>3. CASE LogWrites(t)
  <2>1. Locked' /\ Opened'
    BY <1>3, HolderAlone DEF LogWrites, Files, TypeOK, Locked, Opened
  <2>2. PICK e \in Entries : /\ written[e] = 0
                             /\ entries' = [entries EXCEPT ![date[t]] = @ \cup {e}]
                             /\ written' = [written EXCEPT ![e] = date[t]]
    BY <1>3 DEF LogWrites
  <2>3. \A d \in Days : e \notin entries[d] \cup archived[d]
    <3>1. \A d \in Days : d # 0
      BY DEF Days
    <3> QED BY <2>2, <3>1 DEF Files, FilesThere
  <2>4. /\ date[t] \in Days
        /\ \A d \in Days : d # date[t] => entries'[d] = entries[d]
        /\ entries'[date[t]] = entries[date[t]] \cup {e}
        /\ written'[e] = date[t] /\ \A f \in Entries : f # e => written'[f] = written[f]
    BY <2>2 DEF Files, TypeOK
  <2>5. \A d \in Days : entries[d] \cup archived[d] \subseteq Entries
    BY DEF Files, TypeOK
  <2>6. folders' = folders \cup {date[t]} /\ UNCHANGED <<archives, archived>>
    BY <1>3 DEF LogWrites
  <2>7. FilesThere'
    BY <2>3, <2>4, <2>5, <2>6 DEF Files, FilesThere
  <2> QED BY <2>1, <2>7 DEF Files
<1> QED BY <1>1, <1>2, <1>3 DEF DBGLogAndPublish

LEMMA MaintenanceKeepsFiles ==
    ASSUME Files, TypeOK', NEW t \in Threads,
           HandleTakesTime(t) \/ DBGHandleOldLog(t) \/ TarFails(t)
    PROVE  Files'
<1> USE DEF Goes
<1>1. CASE HandleTakesTime(t) \/ HandleLocks(t) \/ HandleRefuses(t)
  BY <1>1 DEF HandleTakesTime, HandleLocks, HandleRefuses, Files, TypeOK, Locked, FilesThere,
              Opened
<1>2. CASE EnoughSpace(t) \/ TooLarge(t) \/ RemoveTheOldestLog(t)
  <2>1. /\ at[t] \in {"compress", "expire"}
        /\ \/ at' = [at EXCEPT ![t] = "idle"]
           \/ at' = [at EXCEPT ![t] = "expire"] /\ lock' = lock
        /\ UNCHANGED <<old, written>>
    BY <1>2 DEF EnoughSpace, TooLarge, RemoveTheOldestLog
  <2>2. Locked' /\ Opened'
    BY <2>1, HolderAlone DEF Files, TypeOK, Locked, Opened
  <2>3. FilesThere'
    BY <1>2 DEF EnoughSpace, TooLarge, RemoveTheOldestLog, Files, TypeOK, FilesThere
  <2> QED BY <2>2, <2>3 DEF Files
<1>3. CASE HandleOldLog(t) \/ TarFails(t)
  <2>1. /\ at[t] \in {"compress", "tar", "rm"}
        /\ \E to \in {"compress", "tar", "rm"} : at' = [at EXCEPT ![t] = to]
        /\ UNCHANGED <<lock, written>>
    BY <1>3 DEF HandleOldLog, TarStarts, TarEnds, TarFails, RmEntry, RmFolder, Files, TypeOK
  <2>2. Locked'
    BY <2>1, HolderAlone DEF Files, TypeOK, Locked
  <2>3. CASE TarStarts(t)
    BY <2>2, <2>3, HolderAlone DEF TarStarts, Files, TypeOK, FilesThere, Opened
  <2>4. CASE TarEnds(t)
    BY <2>2, <2>4, HolderAlone DEF TarEnds, Files, TypeOK, FilesThere, Opened
  <2>5. CASE TarFails(t)
    <3>1. PICK s \in SUBSET entries[old] : archived' = [archived EXCEPT ![old] = s]
      BY <2>5 DEF TarFails
    <3>2. archived'[old] = s /\ \A d \in Days : d # old => archived'[d] = archived[d]
      BY <3>1 DEF Files, TypeOK
    <3>3. old \in archives /\ UNCHANGED <<folders, entries, archives, written, old>>
      BY <2>5 DEF TarFails, Files, Opened
    <3>4. FilesThere'
      BY <3>1, <3>2, <3>3 DEF Files, FilesThere
    <3>5. Opened'
      BY <2>5, <3>3 DEF TarFails, Files, TypeOK, Opened
    <3> QED BY <2>2, <3>4, <3>5 DEF Files
  <2>6. CASE RmEntry(t)
    BY <2>2, <2>6 DEF RmEntry, Files, TypeOK, FilesThere, Opened
  <2>7. CASE RmFolder(t)
    BY <2>2, <2>7, HolderAlone DEF RmFolder, Files, TypeOK, FilesThere, Opened
  <2> QED BY <1>3, <2>3, <2>4, <2>5, <2>6, <2>7 DEF HandleOldLog
<1> QED BY <1>1, <1>2, <1>3 DEF DBGHandleOldLog

LEMMA NextFiles == Files /\ [Next]_vars => Files'
<1> SUFFICES ASSUME Files, [Next]_vars PROVE Files'
  OBVIOUS
<1>1. TypeOK'
  BY NextTypeOK DEF Files
<1>2. CASE Midnight \/ ClockSetBack \/ UNCHANGED vars
  BY <1>1, <1>2 DEF Midnight, ClockSetBack, Files, Locked, FilesThere, Opened
<1>3. CASE Crash
  BY <1>1, <1>3 DEF Crash, Files, TypeOK, Locked, FilesThere, Opened
<1> QED BY <1>1, <1>2, <1>3, WriterKeepsFiles, MaintenanceKeepsFiles DEF Next

-----------------------------------------------------------------------------
(* A day that no fault has struck stays intact, unless one strikes it now. *)

LEMMA WriterKeepsIntact ==
    ASSUME Files, NEW t \in Threads, DBGLogAndPublish(t), NEW d \in Days, Intact(d)
    PROVE  Intact(d)'
<1> USE DEF Goes
<1>1. CASE LogTakesTime(t)
  <2>1. ~Lost(d)'
    BY <1>1, StaysUnlost DEF LogTakesTime, Intact
  <2>2. /\ at' = [at EXCEPT ![t] = "log"] /\ date' = [date EXCEPT ![t] = today]
        /\ UNCHANGED <<today, folders, entries, archives, archived, old>>
    BY <1>1 DEF LogTakesTime
  <2>3. \A s \in Threads : date'[s] > d => today' > d
    BY <2>2 DEF Files, TypeOK, Intact
  <2>4. d \in archives' => d < today' /\ \A s \in Threads : at'[s] = "log" => date'[s] # d
    BY <2>2 DEF Files, TypeOK, Intact, Days
  <2>5. \A s \in Threads : at'[s] \in {"tar", "rm"} <=> at[s] \in {"tar", "rm"}
    BY <1>1, <2>2 DEF LogTakesTime, Files, TypeOK
  <2>6. \A s \in Threads : (at'[s] = "tar" => at[s] = "tar") /\ (at'[s] = "rm" => at[s] = "rm")
    BY <2>2 DEF Files, TypeOK
  <2> QED BY <2>1, <2>2, <2>3, <2>4, <2>5, <2>6 DEF Intact
<1>2. ASSUME LogWrites(t) \/ LogFails(t)
      PROVE  /\ at[t] = "log" /\ date[t] \in Days
             /\ folders' \in {folders, folders \cup {date[t]}}
             /\ UNCHANGED <<today, archives, archived, date, old, expired>>
             /\ \A s \in Threads : at[s] \notin {"tar", "rm"}
             /\ \A s \in Threads : at'[s] \notin {"log", "tar", "rm"}
  <2>1. /\ at[t] = "log" /\ at' = [at EXCEPT ![t] = "idle"]
        /\ folders' \in {folders, folders \cup {date[t]}}
        /\ UNCHANGED <<today, archives, archived, date, old, expired>>
    BY <1>2 DEF LogWrites, LogFails
  <2> QED BY <2>1, HolderAlone DEF Files, TypeOK
<1>3. ASSUME LogWrites(t) \/ LogFails(t) PROVE ~Lost(d)'
  <2>1. CASE LogFails(t)
    BY <2>1, StaysUnlost DEF LogFails, Intact
  <2>2. CASE LogWrites(t)
    <3>1. PICK e \in Entries : /\ entries' = [entries EXCEPT ![date[t]] = @ \cup {e}]
                               /\ written' = [written EXCEPT ![e] = date[t]]
      BY <2>2 DEF LogWrites
    <3>2. /\ entries[d] \subseteq entries'[d]
          /\ \A f \in Entries : written'[f] = d => written[f] = d \/ f \in entries'[d]
      BY <3>1, <1>2, <2>2 DEF Files, TypeOK
    <3> QED BY <1>2, <2>2, <3>2, StaysUnlost DEF Intact
  <2> QED BY <1>3, <2>1, <2>2
<1>4. ASSUME LogWrites(t) \/ LogFails(t) PROVE Intact(d)'
  <2>1. d \in archives => d # date[t] /\ d \notin folders'
    BY <1>2, <1>4 DEF Intact
  <2> QED BY <1>2, <1>3, <1>4, <2>1 DEF Intact
<1> QED BY <1>1, <1>4 DEF DBGLogAndPublish

LEMMA HandlerKeepsIntact ==
    ASSUME Files, NEW t \in Threads, NEW d \in Days, Intact(d),
           \/ HandleTakesTime(t) \/ HandleLocks(t) \/ HandleRefuses(t)
           \/ EnoughSpace(t) \/ TooLarge(t)
    PROVE  Intact(d)'
<1> USE DEF Goes
<1>1. /\ UNCHANGED <<today, folders, entries, archives, archived, old, written, expired>>
      /\ at[t] \notin {"log", "tar", "rm"}
      /\ \E to \in {"idle", "handle", "compress", "expire"} : at' = [at EXCEPT ![t] = to]
      /\ date' = date \/ date' = [date EXCEPT ![t] = today]
  BY DEF HandleTakesTime, HandleLocks, HandleRefuses, EnoughSpace, TooLarge
<1>2. ~Lost(d)'
  BY <1>1, StaysUnlost DEF Intact
<1>3. \A s \in Threads :
         /\ at'[s] \in {"log", "tar", "rm"} \/ at[s] \in {"log", "tar", "rm"} =>
               s # t /\ at'[s] = at[s] /\ date'[s] = date[s]
         /\ date'[s] \in {date[s], today}
  BY <1>1 DEF Files, TypeOK
<1>4. \A s \in Threads : date'[s] > d => today' > d
  BY <1>1, <1>3 DEF Intact
<1> QED BY <1>1, <1>2, <1>3, <1>4 DEF Intact

(* Packing a day; nothing is archived twice, as it would be after a crash  *)
(* in between or after the clock was set back to that day.                 *)
LEMMA HandleOldLogKeepsIntact ==
    ASSUME Files, NEW t \in Threads, NEW d \in Days, Intact(d),
           HandleOldLog(t) \/ (TarFails(t) /\ d # old)
    PROVE  Intact(d)'
<1> USE DEF Goes
<1>1. /\ at[t] \in {"compress", "tar", "rm"}
      /\ \E to \in {"compress", "tar", "rm"} : at' = [at EXCEPT ![t] = to]
      /\ UNCHANGED <<today, date, written, expired>>
  BY DEF HandleOldLog, TarStarts, TarEnds, TarFails, RmEntry, RmFolder, Files, TypeOK
<1>2. /\ at'[t] \in {"compress", "tar", "rm"}
      /\ \A s \in Threads \ {t} : at'[s] = at[s] /\ at'[s] \in {"idle", "handle"}
  BY <1>1, HolderAlone DEF Files, TypeOK
<1>3. CASE TarStarts(t)
  <2>1. /\ at[t] = "compress" /\ at'[t] = "tar"
        /\ old' \in folders /\ old' \in Days /\ old' < date[t]
        /\ archives' = archives \cup {old'}
        /\ archived' = [archived EXCEPT ![old'] = {}]
        /\ UNCHANGED <<folders, entries>>
    BY <1>3 DEF TarStarts, Files, TypeOK
  <2>2. d \notin folders \cap archives
    BY <1>2, <2>1 DEF Intact
  <2>3. d = old' => archived[d] = {} /\ d < today
    <3>1. d = old' => date[t] > d
      BY <2>1 DEF Files, TypeOK, Days
    <3> QED BY <2>1, <2>2, <3>1 DEF Files, FilesThere, Intact
  <2>4. archived'[d] = archived[d]
    BY <2>1, <2>3 DEF Files, TypeOK
  <2>5. ~Lost(d)'
    BY <1>1, <2>1, <2>4, StaysUnlost DEF Intact
  <2> QED BY <1>1, <1>2, <2>1, <2>2, <2>3, <2>4, <2>5 DEF Intact
<1>4. CASE TarEnds(t)
  <2>1. /\ at[t] = "tar" /\ at'[t] = "rm" /\ old \in Days
        /\ archived'[old] = entries[old]
        /\ \A c \in Days : c # old => archived'[c] = archived[c]
        /\ UNCHANGED <<folders, entries, archives, old>>
    BY <1>4 DEF TarEnds, Files, TypeOK
  <2>2. d = old => archived[d] = {}
    BY <2>1 DEF Intact
  <2>3. ~Lost(d)'
    BY <1>1, <2>1, <2>2, StaysUnlost DEF Intact
  <2> QED BY <1>1, <1>2, <2>1, <2>3 DEF Intact
<1>5. CASE TarFails(t) /\ d # old
  <2>1. /\ at[t] = "tar" /\ at'[t] = "rm"
        /\ archived'[d] = archived[d]
        /\ UNCHANGED <<folders, entries, archives, old>>
    BY <1>5 DEF TarFails, Files, TypeOK
  <2>2. ~Lost(d)'
    BY <1>1, <2>1, StaysUnlost DEF Intact
  <2> QED BY <1>1, <1>2, <1>5, <2>1, <2>2 DEF Intact
<1>6. CASE RmEntry(t)
  <2>1. /\ at[t] = "rm" /\ old \in Days
        /\ UNCHANGED <<folders, archives, archived, at, old>>
    BY <1>6 DEF RmEntry, Files, TypeOK
  <2>2. /\ entries'[d] \subseteq entries[d]
        /\ d # old => entries'[d] = entries[d]
    BY <1>6 DEF RmEntry, Files, TypeOK
  <2>3. d = old => entries[d] \subseteq archived[d]
    BY <2>1 DEF Intact
  <2>4. ~Lost(d)'
    BY <1>1, <2>1, <2>2, <2>3, StaysUnlost DEF Intact
  <2> QED BY <1>1, <2>1, <2>2, <2>4 DEF Intact
<1>7. CASE RmFolder(t)
  <2>1. /\ at[t] = "rm" /\ at'[t] = "compress"
        /\ folders' = folders \ {old}
        /\ UNCHANGED <<entries, archives, archived, old>>
    BY <1>7 DEF RmFolder, Files, TypeOK
  <2>2. d \in folders' \cap archives' => FALSE
    BY <1>2, <2>1 DEF Intact
  <2>3. ~Lost(d)'
    BY <1>1, <2>1, StaysUnlost DEF Intact
  <2> QED BY <1>1, <1>2, <2>1, <2>2, <2>3 DEF Intact
<1> QED BY <1>3, <1>4, <1>5, <1>6, <1>7 DEF HandleOldLog

(* What is dropped is expired, not lost. *)
LEMMA RemoveTheOldestLogKeepsIntact ==
    ASSUME Files, NEW t \in Threads, NEW d \in Days, Intact(d), RemoveTheOldestLog(t)
    PROVE  Intact(d)'
<1> USE DEF Goes
<1>1. /\ at[t] = "expire" /\ at' = [at EXCEPT ![t] = "idle"]
      /\ UNCHANGED <<today, date, old, written>>
  BY DEF RemoveTheOldestLog
<1>2. \A s \in Threads : at[s] \notin {"log", "tar", "rm"} /\ at'[s] \notin {"log", "tar", "rm"}
  BY <1>1, HolderAlone DEF Files, TypeOK
<1>3. /\ folders' \subseteq folders /\ archives' \subseteq archives
      /\ expired \subseteq expired'
      /\ entries[d] \subseteq entries'[d] \cup expired'
      /\ archived[d] \subseteq archived'[d] \cup expired'
  BY DEF RemoveTheOldestLog, Files, TypeOK
<1>4. ~Lost(d)'
  BY <1>1, <1>3, StaysUnlost DEF Intact
<1> QED BY <1>1, <1>2, <1>3, <1>4 DEF Intact

(* Midnight, and the other faults: the clock that is set back strikes the  *)
(* day it comes to, a crash the day that was packed.                       *)
LEMMA WorldKeepsIntact ==
    ASSUME Files, NEW d \in Days, Intact(d),
           Midnight \/ (ClockSetBack /\ d # today') \/ (Crash /\ d # old) \/ UNCHANGED vars
    PROVE  Intact(d)'
<1>1. UNCHANGED <<folders, entries, archives, archived, date, old, written, expired>>
  BY DEF Midnight, ClockSetBack, Crash
<1>2. ~Lost(d)'
  BY <1>1, StaysUnlost DEF Intact
<1>3. d < today => d < today'
  <2>1. today \in Nat /\ d \in Nat
    BY BoundsAssumption DEF Files, TypeOK, Days
  <2>2. \/ today' = today + 1
        \/ today' = today - 1 /\ d # today'
        \/ today' = today
    BY DEF Midnight, ClockSetBack, Crash
  <2> QED BY <2>1, <2>2
<1>4. today > d => today' > d
  BY <1>3
<1>5. CASE Crash /\ d # old
  <2>1. \A s \in Threads : at'[s] = "idle"
    BY <1>5 DEF Crash
  <2>2. d \notin folders \cap archives
    BY <1>5 DEF Intact
  <2> QED BY <1>1, <1>2, <1>3, <1>4, <2>1, <2>2 DEF Intact
<1>6. CASE Midnight \/ (ClockSetBack /\ d # today') \/ UNCHANGED vars
  <2>1. UNCHANGED at
    BY <1>6 DEF Midnight, ClockSetBack
  <2> QED BY <1>1, <1>2, <1>3, <1>4, <2>1 DEF Intact
<1> QED BY <1>5, <1>6

LEMMA NextIntact ==
    ASSUME Files, [Next]_vars
    PROVE  \/ UNCHANGED faults /\ \A d \in Days : Intact(d) => Intact(d)'
           \/ /\ faults' = faults + 1
              /\ \E hit \in Days : \A d \in Days \ {hit} : Intact(d) => Intact(d)'
<1>1. CASE \E t \in Threads : DBGLogAndPublish(t) \/ HandleTakesTime(t) \/ DBGHandleOldLog(t)
  <2>1. PICK t \in Threads : DBGLogAndPublish(t) \/ HandleTakesTime(t) \/ DBGHandleOldLog(t)
    BY <1>1
  <2>2. UNCHANGED faults
    BY <2>1 DEF DBGLogAndPublish, LogTakesTime, LogWrites, LogFails, HandleTakesTime,
                DBGHandleOldLog, HandleLocks, HandleRefuses, HandleOldLog, TarStarts, TarEnds,
                RmEntry, RmFolder, EnoughSpace, TooLarge, RemoveTheOldestLog
  <2>3. \A d \in Days : Intact(d) => Intact(d)'
    BY <2>1, WriterKeepsIntact, HandlerKeepsIntact, HandleOldLogKeepsIntact,
       RemoveTheOldestLogKeepsIntact DEF DBGHandleOldLog
  <2> QED BY <2>2, <2>3
<1>2. CASE \E t \in Threads : TarFails(t)
  <2>1. \A d \in Days \ {old} : Intact(d) => Intact(d)'
    BY <1>2, HandleOldLogKeepsIntact
  <2> QED BY <1>2, <2>1 DEF TarFails, Files, TypeOK
<1>3. CASE Midnight \/ UNCHANGED vars
  BY <1>3, WorldKeepsIntact DEF Midnight
<1>4. CASE ClockSetBack
  <2>1. today' \in Days
    BY <1>4, BoundsAssumption DEF ClockSetBack, Files, TypeOK, Days
  <2>2. \A d \in Days \ {today'} : Intact(d) => Intact(d)'
    BY <1>4, WorldKeepsIntact
  <2> QED BY <1>4, <2>1, <2>2 DEF ClockSetBack
<1>5. CASE Crash
  <2>1. \A d \in Days \ {old} : Intact(d) => Intact(d)'
    BY <1>5, WorldKeepsIntact
  <2> QED BY <1>5, <2>1 DEF Crash, Files, TypeOK
<1> QED BY <1>1, <1>2, <1>3, <1>4, <1>5 DEF Next

LEMMA DaysFinite == IsFiniteSet(Days)
<1>1. 1 \in Int /\ MaxDay \in Int
  BY BoundsAssumption
<1>2. IsFiniteSet(1..MaxDay)
  BY <1>1, FS_Interval
<1> QED BY <1>2 DEF Days

LEMMA NextStruck == Files /\ Struck /\ [Next]_vars => Struck'
<1> SUFFICES ASSUME Files, Struck, [Next]_vars PROVE Struck'
  OBVIOUS
<1>1. PICK struck \in SUBSET Days : /\ Cardinality(struck) <= faults
                                    /\ \A d \in Days \ struck : Intact(d)
  BY DEF Struck
<1>2. CASE UNCHANGED faults /\ \A d \in Days : Intact(d) => Intact(d)'
  BY <1>1, <1>2 DEF Struck
<1>3. ASSUME faults' = faults + 1,
             NEW hit \in Days, \A d \in Days \ {hit} : Intact(d) => Intact(d)'
      PROVE  Struck'
  <2>1. IsFiniteSet(struck)
    BY DaysFinite, FS_Subset
  <2>2. Cardinality(struck) \in Nat /\ faults \in Nat
    BY <2>1, FS_CardinalityType, BoundsAssumption DEF Files, TypeOK
  <2>3. Cardinality(struck \cup {hit}) <= Cardinality(struck) + 1
    BY <2>1, <2>2, FS_AddElement
  <2>4. Cardinality(struck \cup {hit}) <= faults'
    <3>1. Cardinality(struck \cup {hit}) \in Nat
      BY <2>1, FS_AddElement, FS_CardinalityType
    <3> QED BY <1>1, <1>3, <2>2, <2>3, <3>1
  <2>5. \A d \in Days \ (struck \cup {hit}) : Intact(d)'
    BY <1>1, <1>3
  <2> QED BY <2>4, <2>5 DEF Struck
<1> QED BY <1>2, <1>3, NextIntact

LEMMA InitDamage == Init => Files /\ Struck
<1> SUFFICES ASSUME Init PROVE Files /\ Struck
  OBVIOUS
<1>1. Files
  BY InitTypeOK DEF Init, Files, Locked, FilesThere, Opened
<1>2. ASSUME NEW d \in Days PROVE Intact(d)
  <2>1. ~Lost(d) /\ ~(1 > d)
    BY BoundsAssumption DEF Init, Lost, Days
  <2> QED BY <2>1 DEF Init, Intact
<1>3. Struck
  BY <1>2, FS_EmptySet DEF Init, Struck
<1> QED BY <1>1, <1>3

(* A fault costs entries of one day at most, whenever it strikes: a crash  *)
(* between two steps of tar and rm, an archive that fails, a clock that is *)
(* set back.                                                               *)
THEOREM DamageBoundedHolds == Spec => []DamageBounded
<1>1. Files /\ Struck => DamageBounded
  <2> SUFFICES ASSUME Files, Struck PROVE DamageBounded
    OBVIOUS
  <2>1. PICK struck \in SUBSET Days : /\ Cardinality(struck) <= faults
                                      /\ \A d \in Days \ struck : Intact(d)
    BY DEF Struck
  <2>2. IsFiniteSet(struck)
    BY DaysFinite, FS_Subset
  <2> DEFINE gone == {d \in Days : Lost(d)}
  <2>3. gone \subseteq struck
    BY <2>1 DEF Intact
  <2>4. /\ Cardinality(gone) <= Cardinality(struck)
        /\ Cardinality(gone) \in Nat /\ Cardinality(struck) \in Nat /\ faults \in Nat
    BY <2>2, <2>3, FS_Subset, FS_CardinalityType, BoundsAssumption DEF Files, TypeOK
  <2>5. Cardinality(gone) <= faults
    BY <2>1, <2>4
  <2> QED BY <2>5 DEF DamageBounded
<1> QED BY InitDamage, NextFiles, NextStruck, <1>1, PTL DEF Spec

-----------------------------------------------------------------------------
(* The rotation of a file: types *)

Finite ==
    /\ IsFiniteSet(DOMAIN plain)
    /\ IsFiniteSet(DOMAIN tgz)
    /\ IsFiniteSet(packing)

RotationTypes == RotationTypeOK /\ Finite

(* The values of a function on a finite set are finitely many. *)
LEMMA RangeFinite ==
    ASSUME NEW f, IsFiniteSet(DOMAIN f)
    PROVE  IsFiniteSet({f[i] : i \in DOMAIN f})
<1> DEFINE T == {f[i] : i \in DOMAIN f}
           h == [i \in DOMAIN f |-> f[i]]
<1>1. h \in Surjection(DOMAIN f, T)
  BY DEF Surjection
<1> QED BY <1>1, FS_Surjection

LEMMA BackupsFinite == Finite => IsFiniteSet(Backups)
BY RangeFinite, FS_Union DEF Finite, Backups

(* What a step loses can be counted. *)
LEMMA LostCounts ==
    ASSUME Finite, lost \in Nat, NEW excess, Loses(excess)
    PROVE  lost' \in Nat
<1>1. IsFiniteSet(Backups \ (Backups' \cup excess))
  BY BackupsFinite, FS_Difference
<1> QED BY <1>1, FS_CardinalityType DEF Loses

LEMMA InitRotationTypes == RotationInit => RotationTypes
<1> SUFFICES ASSUME RotationInit PROVE RotationTypes
  OBVIOUS
<1>1. DOMAIN plain = {} /\ DOMAIN tgz = {} /\ packing = {}
  BY DEF RotationInit
<1> QED BY <1>1, FS_EmptySet DEF RotationInit, RotationTypes, RotationTypeOK, Finite,
     LogInfos, NewInfo, Calls

(* What one more backup does to the types. *)
LEMMA RenameTypes ==
    ASSUME RotationTypes, NEW p \in Nat, Rename(p)
    PROVE  /\ file' \in {"none", "small", "large"} /\ made' \in Nat /\ lost' \in Nat
           /\ DOMAIN plain' \subseteq Nat /\ DOMAIN tgz' \subseteq Nat
           /\ \A i \in DOMAIN plain' : plain'[i] \in Nat
           /\ \A i \in DOMAIN tgz' : tgz'[i] \in Nat
           /\ IsFiniteSet(DOMAIN plain') /\ IsFiniteSet(DOMAIN tgz')
<1>1. CASE file = "none"
  BY <1>1 DEF Rename, RotationTypes, RotationTypeOK, Finite
<1>2. CASE file # "none"
  <2>1. lost' \in Nat
    BY <1>2, LostCounts DEF Rename, RotationTypes, RotationTypeOK
  <2>2. /\ DOMAIN plain' = DOMAIN plain \cup {p}
        /\ \A i \in DOMAIN plain' : plain'[i] = IF i = p THEN made ELSE plain[i]
        /\ tgz' = tgz /\ file' = "none" /\ made' = made + 1
    BY <1>2 DEF Rename
  <2>3. IsFiniteSet(DOMAIN plain')
    BY <2>2, FS_AddElement DEF RotationTypes, Finite
  <2> QED BY <2>1, <2>2, <2>3 DEF RotationTypes, RotationTypeOK, Finite
<1> QED BY <1>1, <1>2

(* A step of a caller keeps the types, whatever it found in the index. *)
LEMMA CallerTypes ==
    ASSUME RotationTypes, NEW c \in Callers,
           \/ \E f \in Calls : Begin(c, f)
           \/ Touch(c) \/ FindsSmall(c) \/ FindsLarge(c) \/ Append(c) \/ BackupLogFile(c)
    PROVE  RotationTypes'
<1>a. IsFiniteSet(DOMAIN plain)
  BY DEF RotationTypes, Finite
<1> USE NumbersAssumption DEF RotationTypes, RotationTypeOK, Finite, Moves
<1>1. ASSUME NEW f \in Calls, Begin(c, f) PROVE RotationTypes'
  BY <1>1 DEF Begin
<1>2. CASE Touch(c)
  BY <1>2 DEF Touch
<1>3. CASE FindsSmall(c)
  BY <1>3 DEF FindsSmall
<1>4. CASE FindsLarge(c)
  BY <1>4 DEF FindsLarge
<1>5. CASE Append(c)
  BY <1>5 DEF Append
<1>6. CASE CreateLogInfo(c)
  BY <1>6 DEF CreateLogInfo
<1>7. CASE FillLogInfo(c)
  BY <1>7 DEF FillLogInfo, LogInfos, NewInfo
<1>8. CASE ReadLogInfo(c)
  BY <1>8 DEF ReadLogInfo
<1>9. CASE ReadNothing(c)
  <2>1. Garbage \subseteq LogInfos
    BY DEF Garbage, LogInfos
  <2> QED BY <1>9, <2>1 DEF ReadNothing
<1>10. CASE RenameNext(c)
  <2>1. logInfo[c].count \in Nat /\ logInfo[c] \in LogInfos
    BY DEF LogInfos
  <2>2. logInfo' \in [Callers -> LogInfos]
    BY <1>10, <2>1 DEF RenameNext, LogInfos
  <2> HIDE DEF RotationTypes
  <2>3. RotationTypes /\ Rename(logInfo[c].count)
    BY <1>10 DEF RenameNext
  <2> QED BY <1>10, <2>1, <2>2, <2>3, RenameTypes DEF RenameNext, RotationTypes
<1>11. CASE UnlinkOldest(c)
  <2>1. lost' \in Nat
    BY <1>11, LostCounts DEF UnlinkOldest
  <2>2. /\ DOMAIN plain' = DOMAIN plain \ {logInfo[c].oldestIndex}
        /\ \A i \in DOMAIN plain' : plain'[i] = plain[i]
    BY <1>11 DEF UnlinkOldest
  <2>3. IsFiniteSet(DOMAIN plain')
    <3> HIDE DEF RotationTypes
    <3> QED BY <1>a, <2>2, FS_RemoveElement
  <2> QED BY <1>11, <2>1, <2>2, <2>3 DEF UnlinkOldest
<1>12. CASE RenameLatest(c)
  <2>1. logInfo[c].count \in Nat /\ logInfo[c].oldestIndex \in Nat /\ logInfo[c] \in LogInfos
    BY DEF LogInfos
  <2>2. logInfo' \in [Callers -> LogInfos]
    BY <1>12, <2>1 DEF RenameLatest, LogInfos
  <2> HIDE DEF RotationTypes
  <2>3. RotationTypes /\ Rename(logInfo[c].oldestIndex + logInfo[c].count)
    BY <1>12 DEF RenameLatest
  <2> QED BY <1>12, <2>1, <2>2, <2>3, RenameTypes DEF RenameLatest, RotationTypes
<1>13. CASE WriteLogInfo(c)
  <2>1. AfterBackup(c) \in {"check", "append", "idle"}
    BY DEF AfterBackup, Calls
  <2> QED BY <1>13, <2>1 DEF WriteLogInfo, LogInfos, NewInfo
<1>14. CASE WriteLogInfoFails(c)
  <2>1. AfterBackup(c) \in {"check", "append", "idle"}
    BY DEF AfterBackup, Calls
  <2> QED BY <1>14, <2>1 DEF WriteLogInfoFails, LogInfos, NewInfo
<1> QED BY <1>1, <1>2, <1>3, <1>4, <1>5, <1>6, <1>7, <1>8, <1>9, <1>10, <1>11, <1>12, <1>13, <1>14
     DEF BackupLogFile

(* So do tar and rm. *)
LEMMA PackTypes ==
    ASSUME RotationTypes, NEW i, i \in DOMAIN plain \/ i \in packing,
           PackTar(i) \/ PackTarFails(i) \/ PackRm(i)
    PROVE  RotationTypes'
<1>a. IsFiniteSet(DOMAIN plain) /\ IsFiniteSet(DOMAIN tgz)
  BY DEF RotationTypes, Finite
<1> USE DEF RotationTypes, RotationTypeOK, Finite
<1>0. lost' \in Nat
  BY LostCounts DEF PackTar, PackTarFails, PackRm
<1>1. CASE PackTar(i)
  <2>1. /\ DOMAIN tgz' = DOMAIN tgz \cup {i}
        /\ \A j \in DOMAIN tgz' : tgz'[j] = IF j = i THEN plain[i] ELSE tgz[j]
        /\ i \in DOMAIN plain /\ packing' = {i}
    BY <1>1 DEF PackTar
  <2>2. IsFiniteSet(DOMAIN tgz') /\ IsFiniteSet(packing')
    <3> HIDE DEF RotationTypes
    <3>1. IsFiniteSet(DOMAIN tgz')
      BY <1>a, <2>1, FS_AddElement
    <3> QED BY <2>1, <3>1, FS_Singleton
  <2> QED BY <1>0, <1>1, <2>1, <2>2 DEF PackTar
<1>2. CASE PackTarFails(i)
  <2>1. /\ DOMAIN tgz' = DOMAIN tgz \ {i}
        /\ \A j \in DOMAIN tgz' : tgz'[j] = tgz[j]
        /\ i \in DOMAIN plain /\ packing' = {i}
    BY <1>2 DEF PackTarFails
  <2>2. IsFiniteSet(DOMAIN tgz') /\ IsFiniteSet(packing')
    <3> HIDE DEF RotationTypes
    <3>1. IsFiniteSet(DOMAIN tgz')
      BY <1>a, <2>1, FS_RemoveElement
    <3> QED BY <2>1, <3>1, FS_Singleton
  <2> QED BY <1>0, <1>2, <2>1, <2>2 DEF PackTarFails
<1>3. CASE PackRm(i)
  <2>1. /\ DOMAIN plain' = DOMAIN plain \ {i}
        /\ \A j \in DOMAIN plain' : plain'[j] = plain[j]
        /\ packing' = {}
    BY <1>3 DEF PackRm
  <2>2. IsFiniteSet(DOMAIN plain') /\ IsFiniteSet(packing')
    <3> HIDE DEF RotationTypes
    <3> QED BY <1>a, <2>1, FS_RemoveElement, FS_EmptySet
  <2> QED BY <1>0, <1>3, <2>1, <2>2 DEF PackRm
<1> QED BY <1>1, <1>2, <1>3

LEMMA NextRotationTypes == RotationTypes /\ [RotationNext]_rotationVars => RotationTypes'
<1> SUFFICES ASSUME RotationTypes, [RotationNext]_rotationVars PROVE RotationTypes'
  OBVIOUS
<1>1. CASE ProcessEnds
  <2>1. packing' = {} /\ IsFiniteSet(packing')
    BY <1>1, FS_EmptySet DEF ProcessEnds
  <2> QED BY <1>1, <2>1 DEF ProcessEnds, RotationTypes, RotationTypeOK, Finite, LogInfos,
        NewInfo, Calls
<1>2. CASE UNCHANGED rotationVars
  BY <1>2 DEF RotationTypes, RotationTypeOK, Finite
<1> QED BY <1>1, <1>2, CallerTypes, PackTypes DEF RotationNext

(* Log.cpp:48-169: whatever interrupts a rotation, and whatever is read    *)
(* from an empty index file, files, index and callers keep their types.    *)
THEOREM RotationTypeCorrect == RotationSpec => []RotationTypeOK
<1>1. RotationTypes => RotationTypeOK
  BY DEF RotationTypes
<1> QED BY <1>1, InitRotationTypes, NextRotationTypes, PTL DEF RotationSpec

-----------------------------------------------------------------------------
(* The rotation of a file: the numbers that callers hold *)

(* Where the next backup goes according to l. *)
Pointer(l) == l.oldestIndex + l.count

(* Callers that will still put the file away, ... *)
Pending == {c \in Callers : place[c] \in {"read", "create", "backup", "renameLatest"}}

(* ... that have read the index file, ... *)
Holds(c) == place[c] \in {"backup", "renameLatest", "write"}

(* ... where they and the next one put it, ...  *)
Pointers == {Pointer(stored)} \cup {Pointer(logInfo[c]) : c \in {d \in Callers : Holds(d)}}

(* ... and where those that have unlinked, or put it away already. *)
Unlinked == {Pointer(logInfo[c]) : c \in {d \in Callers : place[d] = "renameLatest"}}
Written  == {Pointer(logInfo[c]) : c \in {d \in Callers : place[d] = "write"}}

(* Only when there are as many backups as allowed the oldest index counts. *)
Sound(l) == l.count <= MaxLogFileNum /\ (l.count < MaxLogFileNum => l.oldestIndex = 0)

(* Backups carry numbers given already. *)
Earlier ==
    /\ \A i \in DOMAIN plain : plain[i] < made
    /\ \A i \in DOMAIN tgz : tgz[i] < made

(* While nothing but what was written is read, the index file and those    *)
(* who hold what it said count up to the limit, and who removes the oldest *)
(* has reached it.                                                         *)
IndexFile ==
    /\ index # "written" => stored = NewInfo /\ \A c \in Callers : ~Holds(c)
    /\ \A c \in Callers : place[c] = "create" =>
          index = "empty" /\ \A d \in Callers : place[d] = "create" => d = c
    /\ Sound(stored)
    /\ \A c \in Callers : Holds(c) => Sound(logInfo[c])
    /\ \A c \in Callers : place[c] = "renameLatest" => logInfo[c].count = MaxLogFileNum

(* rename, told apart by whether there is a file. *)
LEMMA Renamed ==
    ASSUME NEW p, Rename(p)
    PROVE  \/ file = "none" /\ UNCHANGED <<file, made, plain, tgz, lost>>
           \/ /\ file # "none" /\ file' = "none" /\ made' = made + 1 /\ tgz' = tgz
              /\ DOMAIN plain' = DOMAIN plain \cup {p}
              /\ \A i \in DOMAIN plain' : plain'[i] = IF i = p THEN made ELSE plain[i]
              /\ Loses({})
BY DEF Rename

LEMMA InitNumbers == RotationInit => Earlier /\ IndexFile
BY NumbersAssumption DEF RotationInit, Earlier, IndexFile, Holds, Sound, NewInfo

LEMMA NextEarlier == RotationTypes /\ Earlier /\ [RotationNext]_rotationVars => Earlier'
<1> SUFFICES ASSUME RotationTypes, Earlier, [RotationNext]_rotationVars PROVE Earlier'
  OBVIOUS
<1> USE DEF Earlier
<1>1. /\ made \in Nat
      /\ \A i \in DOMAIN plain : plain[i] \in Nat
      /\ \A i \in DOMAIN tgz : tgz[i] \in Nat
  BY DEF RotationTypes, RotationTypeOK
<1>2. ASSUME NEW p, Rename(p) PROVE Earlier'
  <2>1. CASE file = "none"
    BY <1>2, <2>1, Renamed
  <2>2. CASE file # "none"
    <3>1. /\ made' = made + 1 /\ tgz' = tgz /\ DOMAIN plain' = DOMAIN plain \cup {p}
          /\ \A i \in DOMAIN plain' : plain'[i] = IF i = p THEN made ELSE plain[i]
      BY <1>2, <2>2, Renamed
    <3>2. \A i \in DOMAIN plain' : plain'[i] < made'
      BY <1>1, <3>1
    <3>3. \A i \in DOMAIN tgz' : tgz'[i] < made'
      BY <1>1, <3>1
    <3> QED BY <3>2, <3>3
  <2> QED BY <2>1, <2>2
<1>3. ASSUME NEW i, PackTar(i) \/ PackTarFails(i) \/ PackRm(i) PROVE Earlier'
  BY <1>3 DEF PackTar, PackTarFails, PackRm
<1>4. ASSUME NEW c, UnlinkOldest(c) PROVE Earlier'
  BY <1>4 DEF UnlinkOldest
<1>5. ASSUME UNCHANGED <<made, plain, tgz>> PROVE Earlier'
  BY <1>5
<1>6. ASSUME NEW c, RenameNext(c) \/ RenameLatest(c) PROVE Earlier'
  BY <1>2, <1>6 DEF RenameNext, RenameLatest
<1>7. ASSUME NEW c, \/ \E f \in Calls : Begin(c, f)
                    \/ Touch(c) \/ FindsSmall(c) \/ FindsLarge(c) \/ Append(c)
                    \/ CreateLogInfo(c) \/ FillLogInfo(c) \/ ReadLogInfo(c) \/ ReadNothing(c)
                    \/ WriteLogInfo(c) \/ WriteLogInfoFails(c)
      PROVE Earlier'
  BY <1>5, <1>7 DEF Begin, Touch, FindsSmall, FindsLarge, Append, CreateLogInfo, FillLogInfo,
     ReadLogInfo, ReadNothing, WriteLogInfo, WriteLogInfoFails
<1>8. ProcessEnds \/ UNCHANGED rotationVars => Earlier'
  BY <1>5 DEF ProcessEnds
<1> HIDE DEF Earlier
<1> QED BY <1>3, <1>4, <1>6, <1>7, <1>8 DEF RotationNext, BackupLogFile

(* An index file that was unreadable once is never trusted again. *)
LEMMA StaysUntrusted == [RotationNext]_rotationVars => (trusted' => trusted)
BY DEF RotationNext, BackupLogFile, Begin, Touch, FindsSmall, FindsLarge, Append,
   CreateLogInfo, FillLogInfo, ReadLogInfo, ReadNothing, RenameNext, UnlinkOldest,
   RenameLatest, WriteLogInfo, WriteLogInfoFails, PackTar, PackTarFails, PackRm, ProcessEnds

LEMMA NextIndexFile ==
    RotationTypes /\ (trusted => IndexFile) /\ [RotationNext]_rotationVars
        => (trusted' => IndexFile')
<1> SUFFICES ASSUME RotationTypes, trusted => IndexFile, [RotationNext]_rotationVars, trusted'
             PROVE  IndexFile'
  OBVIOUS
<1>1. trusted
  BY StaysUntrusted
<1>t. /\ stored \in LogInfos /\ logInfo \in [Callers -> LogInfos]
      /\ place \in [Callers -> {"idle", "check", "append", "read", "create", "backup",
                                "renameLatest", "write"}]
      /\ call \in [Callers -> Calls]
  BY DEF RotationTypes, RotationTypeOK
<1> USE <1>1, <1>t, NumbersAssumption DEF IndexFile, Holds, Sound, Moves, LogInfos
<1>2. ASSUME NEW c \in Callers,
             \/ \E f \in Calls : Begin(c, f)
             \/ Touch(c) \/ FindsSmall(c) \/ FindsLarge(c) \/ Append(c)
      PROVE  IndexFile'
  BY <1>2 DEF Begin, Touch, FindsSmall, FindsLarge, Append
<1>3. ASSUME NEW c \in Callers, CreateLogInfo(c) PROVE IndexFile'
  BY <1>3 DEF CreateLogInfo
<1>4. ASSUME NEW c \in Callers, FillLogInfo(c) PROVE IndexFile'
  BY <1>4 DEF FillLogInfo, NewInfo
<1>5. ASSUME NEW c \in Callers, ReadLogInfo(c) PROVE IndexFile'
  BY <1>5 DEF ReadLogInfo
<1>6. ASSUME NEW c \in Callers, ReadNothing(c) PROVE IndexFile'
  BY <1>6 DEF ReadNothing
<1>7. ASSUME NEW c \in Callers, RenameNext(c) PROVE IndexFile'
  BY <1>7 DEF RenameNext
<1>8. ASSUME NEW c \in Callers, UnlinkOldest(c) PROVE IndexFile'
  <2>1. logInfo[c].count \in Nat /\ logInfo[c].count >= MaxLogFileNum /\ place[c] = "backup"
    BY <1>8 DEF UnlinkOldest
  <2>2. logInfo[c].count <= MaxLogFileNum
    BY <2>1
  <2>3. logInfo[c].count = MaxLogFileNum
    <3> HIDE <1>t DEF IndexFile, LogInfos
    <3> QED BY <2>1, <2>2
  <2> QED BY <1>8, <2>3 DEF UnlinkOldest
<1>9. ASSUME NEW c \in Callers, RenameLatest(c) PROVE IndexFile'
  BY <1>9 DEF RenameLatest
<1>10. ASSUME NEW c \in Callers, WriteLogInfo(c) \/ WriteLogInfoFails(c) PROVE IndexFile'
  <2>1. AfterBackup(c) \in {"check", "append", "idle"}
    BY DEF AfterBackup, Calls
  <2> QED BY <1>10, <2>1 DEF WriteLogInfo, WriteLogInfoFails, NewInfo
<1>11. ASSUME NEW i, PackTar(i) \/ PackTarFails(i) \/ PackRm(i) PROVE IndexFile'
  BY <1>11 DEF PackTar, PackTarFails, PackRm
<1>12. ASSUME ProcessEnds PROVE IndexFile'
  BY <1>12 DEF ProcessEnds
<1>13. ASSUME UNCHANGED rotationVars PROVE IndexFile'
  BY <1>13
<1> HIDE DEF IndexFile
<1> QED BY <1>2, <1>3, <1>4, <1>5, <1>6, <1>7, <1>8, <1>9, <1>10, <1>11, <1>12, <1>13
     DEF RotationNext, BackupLogFile

-----------------------------------------------------------------------------
(* What each step does to the pointers, and to who follows them *)

(* Only a caller's place or the index file changes. *)
Same == UNCHANGED <<made, plain, tgz, lost, packing>>

(* Every pointer is an index. *)
LEMMA PointerTypes ==
    ASSUME RotationTypes
    PROVE  /\ Pointer(stored) \in Nat
           /\ \A c \in Callers : Pointer(logInfo[c]) \in Nat
           /\ Pointers \subseteq Nat
BY DEF RotationTypes, RotationTypeOK, LogInfos, Pointer, Pointers

(* A caller outside a rotation takes a step. *)
LEMMA OutsideView ==
    ASSUME RotationTypes, NEW c \in Callers,
           \/ \E f \in Calls : Begin(c, f)
           \/ Touch(c) \/ FindsSmall(c) \/ Append(c)
    PROVE  /\ Same /\ stored' = stored /\ failed' = failed
           /\ file = "large" => file' = "large"
           /\ Pending' = Pending /\ Pointers' = Pointers
           /\ Unlinked' = Unlinked /\ Written' = Written
<1>1. \A d \in Callers : place'[d] = place[d]
                         \/ (place[d] \in {"idle", "check", "append"}
                             /\ place'[d] \in {"idle", "check", "append"})
  BY DEF RotationTypes, RotationTypeOK, Begin, Touch, FindsSmall, Append, Moves
<1>2. logInfo' = logInfo /\ stored' = stored
  BY DEF Begin, Touch, FindsSmall, Append
<1>3. Pending' = Pending
  BY <1>1 DEF Pending
<1>4. Pointers' = Pointers
  BY <1>1, <1>2 DEF Pointers, Holds
<1>5. Unlinked' = Unlinked /\ Written' = Written
  BY <1>1, <1>2 DEF Unlinked, Written
<1> QED BY <1>2, <1>3, <1>4, <1>5 DEF Same, Begin, Touch, FindsSmall, Append

(* A caller begins a rotation: an interruption if there is one already. *)
LEMMA EnterView ==
    ASSUME RotationTypes, NEW c \in Callers, FindsLarge(c)
    PROVE  /\ Same /\ stored' = stored /\ file = "large" /\ file' = "large"
           /\ c \notin Pending /\ Pending' = Pending \cup {c}
           /\ Pointers' = Pointers /\ Unlinked' = Unlinked /\ Written' = Written
           /\ IF Pending = {} /\ Written = {} THEN failed' = failed ELSE failed' = failed + 1
<1>1. /\ place[c] = "check" /\ place'[c] = "read"
      /\ \A d \in Callers : d # c => place'[d] = place[d]
  BY DEF RotationTypes, RotationTypeOK, FindsLarge, Moves
<1>2. logInfo' = logInfo /\ stored' = stored
  BY DEF FindsLarge
<1>3. c \notin Pending /\ Pending' = Pending \cup {c}
  BY <1>1 DEF Pending
<1>4. Pointers' = Pointers
  BY <1>1, <1>2 DEF Pointers, Holds
<1>5. Unlinked' = Unlinked /\ Written' = Written
  BY <1>1, <1>2 DEF Unlinked, Written
<1>6. (\E d \in Callers : place[d] \in Inside) <=> ~(Pending = {} /\ Written = {})
  BY DEF Inside, Pending, Written
<1> QED BY <1>2, <1>3, <1>4, <1>5, <1>6 DEF Same, FindsLarge

(* Whoever reads the index file holds the pointer that is stored. *)
LEMMA ReadView ==
    ASSUME RotationTypes, IndexFile, NEW c \in Callers,
           CreateLogInfo(c) \/ FillLogInfo(c) \/ ReadLogInfo(c)
    PROVE  /\ Same /\ stored' = stored /\ failed' = failed /\ file' = file
           /\ Pending' = Pending /\ Pointers' \subseteq Pointers
           /\ Unlinked' = Unlinked /\ Written' = Written
<1>1. /\ place[c] \in {"read", "create"} /\ place'[c] \in {"create", "backup"}
      /\ \A d \in Callers : d # c => place'[d] = place[d]
  BY DEF RotationTypes, RotationTypeOK, CreateLogInfo, FillLogInfo, ReadLogInfo, Moves
<1>2. stored' = stored
  BY DEF CreateLogInfo, FillLogInfo, ReadLogInfo, IndexFile, Moves
<1>3. /\ \A d \in Callers : d # c => logInfo'[d] = logInfo[d]
      /\ place'[c] = "backup" => logInfo'[c] = stored
  BY <1>2 DEF RotationTypes, RotationTypeOK, CreateLogInfo, FillLogInfo, ReadLogInfo, Moves
<1>4. Pending' = Pending
  BY <1>1 DEF Pending
<1>5. Pointers' \subseteq Pointers
  BY <1>1, <1>2, <1>3 DEF Pointers, Holds
<1>6. Unlinked' = Unlinked /\ Written' = Written
  BY <1>1, <1>3 DEF Unlinked, Written
<1> QED BY <1>2, <1>4, <1>5, <1>6 DEF Same, CreateLogInfo, FillLogInfo, ReadLogInfo

(* What unlink removes is as far behind the pointer as the limit. *)
LEMMA UnlinkView ==
    ASSUME RotationTypes, IndexFile, NEW c \in Callers, UnlinkOldest(c)
    PROVE  /\ stored' = stored /\ failed' = failed /\ file' = file /\ made' = made /\ tgz' = tgz
           /\ packing' = packing
           /\ c \in Pending /\ Pending' = Pending /\ Pointers' = Pointers
           /\ Unlinked' = Unlinked \cup {Pointer(logInfo[c])} /\ Written' = Written
           /\ Pointer(logInfo[c]) \in Pointers
           /\ logInfo[c].oldestIndex + MaxLogFileNum = Pointer(logInfo[c])
<1>1. /\ place[c] = "backup" /\ place'[c] = "renameLatest"
      /\ \A d \in Callers : d # c => place'[d] = place[d]
  BY DEF RotationTypes, RotationTypeOK, UnlinkOldest, Moves
<1>2. stored' = stored /\ logInfo' = logInfo
  BY DEF UnlinkOldest
<1>3. logInfo[c].count \in Nat /\ logInfo[c].oldestIndex \in Nat /\ logInfo[c].count >= MaxLogFileNum
  BY DEF RotationTypes, RotationTypeOK, UnlinkOldest, LogInfos
<1>4. logInfo[c].count <= MaxLogFileNum
  BY <1>1 DEF IndexFile, Holds, Sound
<1>5. logInfo[c].oldestIndex + MaxLogFileNum = Pointer(logInfo[c])
  BY <1>3, <1>4, NumbersAssumption DEF Pointer
<1>6. c \in Pending /\ Pending' = Pending
  BY <1>1 DEF Pending
<1>7. Pointers' = Pointers /\ Pointer(logInfo[c]) \in Pointers
  BY <1>1, <1>2 DEF Pointers, Holds
<1>8. Unlinked' = Unlinked \cup {Pointer(logInfo[c])} /\ Written' = Written
  BY <1>1, <1>2 DEF Unlinked, Written
<1> QED BY <1>2, <1>5, <1>6, <1>7, <1>8 DEF UnlinkOldest

(* The file goes where the caller's pointer says, and the pointer counts. *)
LEMMA RenameView ==
    ASSUME RotationTypes, IndexFile, NEW c \in Callers, RenameNext(c) \/ RenameLatest(c)
    PROVE  \E p \in Nat :
              /\ Rename(p)
              /\ stored' = stored /\ failed' = failed /\ packing' = packing
              /\ c \in Pending /\ Pending' = Pending \ {c}
              /\ p \in Pointers /\ Pointers' \subseteq Pointers \cup {p + 1}
              /\ Unlinked' \subseteq Unlinked
              /\ Written' = Written \cup {p + 1}
              /\ p \in Unlinked \/ p < MaxLogFileNum
<1> DEFINE p == Pointer(logInfo[c])
<1>1. /\ place[c] \in {"backup", "renameLatest"} /\ place'[c] = "write"
      /\ \A d \in Callers : d # c => place'[d] = place[d]
  BY DEF RotationTypes, RotationTypeOK, RenameNext, RenameLatest, Moves
<1>2. logInfo[c].count \in Nat /\ logInfo[c].oldestIndex \in Nat
  BY DEF RotationTypes, RotationTypeOK, LogInfos
<1>3. /\ \A d \in Callers : d # c => logInfo'[d] = logInfo[d]
      /\ stored' = stored /\ failed' = failed /\ packing' = packing
  BY DEF RotationTypes, RotationTypeOK, RenameNext, RenameLatest
<1>4. Pointer(logInfo'[c]) = p + 1
  <2>1. CASE RenameNext(c)
    <3>1. logInfo'[c] = [logInfo[c] EXCEPT !.count = @ + 1]
      BY <2>1 DEF RotationTypes, RotationTypeOK, RenameNext
    <3>2. logInfo[c] \in LogInfos
      BY DEF RotationTypes, RotationTypeOK
    <3>3. logInfo'[c].count = logInfo[c].count + 1 /\ logInfo'[c].oldestIndex = logInfo[c].oldestIndex
      BY <3>1, <3>2 DEF LogInfos
    <3> QED BY <1>2, <3>3 DEF Pointer
  <2>2. CASE RenameLatest(c)
    <3>1. logInfo'[c] = [logInfo[c] EXCEPT !.oldestIndex = @ + 1]
      BY <2>2 DEF RotationTypes, RotationTypeOK, RenameLatest
    <3>2. logInfo[c] \in LogInfos
      BY DEF RotationTypes, RotationTypeOK
    <3>3. logInfo'[c].count = logInfo[c].count /\ logInfo'[c].oldestIndex = logInfo[c].oldestIndex + 1
      BY <3>1, <3>2 DEF LogInfos
    <3> QED BY <1>2, <3>3 DEF Pointer
  <2> QED BY <2>1, <2>2
<1>5. Rename(p) /\ (place[c] = "renameLatest" \/ p < MaxLogFileNum)
  <2>1. CASE RenameNext(c)
    <3>1. logInfo[c].count < MaxLogFileNum
      BY <2>1 DEF RenameNext
    <3>2. logInfo[c].oldestIndex = 0
      BY <1>1, <3>1 DEF IndexFile, Holds, Sound
    <3>3. p = logInfo[c].count
      BY <1>2, <3>2 DEF Pointer
    <3> QED BY <2>1, <3>1, <3>3 DEF RenameNext
  <2>2. CASE RenameLatest(c)
    BY <2>2 DEF RenameLatest, Moves, Pointer
  <2> QED BY <2>1, <2>2
<1>6. c \in Pending /\ Pending' = Pending \ {c}
  BY <1>1 DEF Pending
<1>7. p \in Pointers /\ Pointers' \subseteq Pointers \cup {p + 1}
  BY <1>1, <1>3, <1>4 DEF Pointers, Holds
<1>8. Unlinked' \subseteq Unlinked /\ (place[c] = "renameLatest" => p \in Unlinked)
  BY <1>1, <1>3 DEF Unlinked
<1>9. Written' = Written \cup {p + 1}
  BY <1>1, <1>3, <1>4 DEF Written
<1>10. p \in Nat
  BY <1>2 DEF Pointer
<1> QED BY <1>3, <1>5, <1>6, <1>7, <1>8, <1>9, <1>10

(* The caller's pointer is stored, or forgotten. *)
LEMMA WriteView ==
    ASSUME RotationTypes, NEW c \in Callers, WriteLogInfo(c) \/ WriteLogInfoFails(c)
    PROVE  /\ Same /\ file' = file
           /\ Pending' = Pending /\ Pointers' \subseteq Pointers
           /\ Unlinked' = Unlinked /\ Written' \subseteq Written /\ Written # {}
           /\ \/ Pointer(stored') \in Written /\ failed' = failed
              \/ stored' = stored /\ failed' = failed + 1
<1>0. AfterBackup(c) \in {"check", "append", "idle"}
  BY DEF RotationTypes, RotationTypeOK, AfterBackup, Calls
<1>1. /\ place[c] = "write" /\ place'[c] \in {"check", "append", "idle"}
      /\ \A d \in Callers : d # c => place'[d] = place[d]
  BY <1>0 DEF RotationTypes, RotationTypeOK, WriteLogInfo, WriteLogInfoFails, Moves
<1>2. /\ \A d \in Callers : d # c => logInfo'[d] = logInfo[d]
      /\ \/ stored' = logInfo[c] /\ failed' = failed
         \/ stored' = stored /\ failed' = failed + 1
  BY DEF RotationTypes, RotationTypeOK, WriteLogInfo, WriteLogInfoFails
<1>3. Pending' = Pending
  BY <1>1 DEF Pending
<1>4. Pointers' \subseteq Pointers
  BY <1>1, <1>2 DEF Pointers, Holds
<1>5. Unlinked' = Unlinked /\ Written' \subseteq Written /\ Pointer(logInfo[c]) \in Written
  BY <1>1, <1>2 DEF Unlinked, Written
<1> QED BY <1>2, <1>3, <1>4, <1>5 DEF Same, WriteLogInfo, WriteLogInfoFails

(* Only the stored pointer survives the process. *)
LEMMA EndView ==
    ASSUME ProcessEnds
    PROVE  /\ UNCHANGED <<file, made, plain, tgz, lost, stored>> /\ packing' = {}
           /\ failed' = failed + 1
           /\ Pending' = {} /\ Unlinked' = {} /\ Written' = {} /\ Pointers' = {Pointer(stored)}
<1>1. \A d \in Callers : place'[d] = "idle"
  BY DEF ProcessEnds
<1>2. stored' = stored
  BY DEF ProcessEnds
<1>3. Pending' = {} /\ Unlinked' = {} /\ Written' = {}
  BY <1>1 DEF Pending, Unlinked, Written
<1>4. Pointers' = {Pointer(stored)}
  BY <1>1, <1>2 DEF Pointers, Holds
<1> QED BY <1>3, <1>4 DEF ProcessEnds

(* tar and rm touch no pointer. *)
LEMMA PackView ==
    ASSUME NEW i, PackTar(i) \/ PackTarFails(i) \/ PackRm(i)
    PROVE  /\ stored' = stored /\ file' = file /\ made' = made
           /\ Pending' = Pending /\ Pointers' = Pointers
           /\ Unlinked' = Unlinked /\ Written' = Written
<1>1. stored' = stored /\ place' = place /\ logInfo' = logInfo /\ file' = file /\ made' = made
  BY DEF PackTar, PackTarFails, PackRm
<1> QED BY <1>1 DEF Pending, Pointers, Unlinked, Written, Holds

-----------------------------------------------------------------------------
(* Counting indices *)

(* The indices from x on, those that unlink has left behind x, and those   *)
(* between x and q.                                                        *)
From(S, x)  == {i \in S : x <= i}
Below(S, x) == {i \in S : i + MaxLogFileNum < x}
Gap(x, q)   == (x + 1)..(q - 1)

(* A part of a finite set is finite and not larger. *)
LEMMA PartFinite ==
    ASSUME NEW S, IsFiniteSet(S), NEW T, T \subseteq S
    PROVE  IsFiniteSet(T) /\ Cardinality(T) \in Nat /\ Cardinality(T) <= Cardinality(S)
BY FS_Subset, FS_CardinalityType

LEMMA FromFinite ==
    ASSUME NEW S, IsFiniteSet(S), NEW x
    PROVE  /\ IsFiniteSet(From(S, x)) /\ Cardinality(From(S, x)) \in Nat
           /\ IsFiniteSet(Below(S, x)) /\ Cardinality(Below(S, x)) \in Nat
<1>1. From(S, x) \subseteq S /\ Below(S, x) \subseteq S
  BY DEF From, Below
<1> QED BY <1>1, PartFinite

LEMMA Disjoint ==
    ASSUME NEW S, IsFiniteSet(S), NEW T, IsFiniteSet(T), S \cap T = {}
    PROVE  /\ IsFiniteSet(S \cup T)
           /\ Cardinality(S \cup T) = Cardinality(S) + Cardinality(T)
<1>1. Cardinality(S \cap T) = 0
  BY FS_EmptySet
<1>2. Cardinality(S) \in Nat /\ Cardinality(T) \in Nat
  BY FS_CardinalityType
<1>3. /\ IsFiniteSet(S \cup T)
      /\ Cardinality(S \cup T) = Cardinality(S) + Cardinality(T) - Cardinality(S \cap T)
  BY FS_Union
<1> QED BY <1>1, <1>2, <1>3

LEMMA UnionBound ==
    ASSUME NEW S, IsFiniteSet(S), NEW T, IsFiniteSet(T)
    PROVE  /\ IsFiniteSet(S \cup T)
           /\ Cardinality(S \cup T) <= Cardinality(S) + Cardinality(T)
<1>1. Cardinality(S \cap T) \in Nat
  BY PartFinite
<1>2. Cardinality(S) \in Nat /\ Cardinality(T) \in Nat
  BY FS_CardinalityType
<1>3. /\ IsFiniteSet(S \cup T)
      /\ Cardinality(S \cup T) = Cardinality(S) + Cardinality(T) - Cardinality(S \cap T)
  BY FS_Union
<1> QED BY <1>1, <1>2, <1>3

LEMMA GapFinite ==
    ASSUME NEW x \in Nat, NEW q \in Nat
    PROVE  IsFiniteSet(Gap(x, q)) /\ (x < q => Cardinality(Gap(x, q)) = q - x - 1)
<1>1. x + 1 \in Int /\ q - 1 \in Int
  OBVIOUS
<1>2. /\ IsFiniteSet((x + 1)..(q - 1))
      /\ Cardinality((x + 1)..(q - 1)) = IF x + 1 > q - 1 THEN 0 ELSE (q - 1) - (x + 1) + 1
  BY <1>1, FS_Interval
<1> QED BY <1>2 DEF Gap

(* Between x and q every index is in S or is not. *)
LEMMA GapParts ==
    ASSUME NEW S, NEW x \in Nat, NEW q \in Nat
    PROVE  /\ IsFiniteSet(Gap(x, q) \cap S) /\ Cardinality(Gap(x, q) \cap S) \in Nat
           /\ IsFiniteSet(Gap(x, q) \ S) /\ Cardinality(Gap(x, q) \ S) \in Nat
           /\ x < q => q = x + 1 + Cardinality(Gap(x, q) \cap S) + Cardinality(Gap(x, q) \ S)
<1>1. /\ IsFiniteSet(Gap(x, q) \cap S) /\ Cardinality(Gap(x, q) \cap S) \in Nat
      /\ IsFiniteSet(Gap(x, q) \ S) /\ Cardinality(Gap(x, q) \ S) \in Nat
  BY GapFinite, PartFinite
<1>2. ASSUME x < q
      PROVE  q = x + 1 + Cardinality(Gap(x, q) \cap S) + Cardinality(Gap(x, q) \ S)
  <2>1. Gap(x, q) = (Gap(x, q) \cap S) \cup (Gap(x, q) \ S)
        /\ (Gap(x, q) \cap S) \cap (Gap(x, q) \ S) = {}
    OBVIOUS
  <2>2. Cardinality(Gap(x, q)) = Cardinality(Gap(x, q) \cap S) + Cardinality(Gap(x, q) \ S)
    BY <1>1, <2>1, Disjoint
  <2>3. Cardinality(Gap(x, q)) = q - x - 1
    BY <1>2, GapFinite
  <2>4. PICK a, b \in Nat : a = Cardinality(Gap(x, q) \cap S) /\ b = Cardinality(Gap(x, q) \ S)
    BY <1>1
  <2>5. q - x - 1 = a + b
    BY <2>2, <2>3, <2>4
  <2>6. q = x + 1 + a + b
    BY <2>5
  <2> QED BY <2>4, <2>6
<1> QED BY <1>1, <1>2

(* From x on: first up to q, then from q on. *)
LEMMA FromSplit ==
    ASSUME NEW S, IsFiniteSet(S), S \subseteq Nat, NEW x \in Nat, NEW q \in Nat, x < q
    PROVE  Cardinality(From(S, x + 1)) = Cardinality(Gap(x, q) \cap S) + Cardinality(From(S, q))
<1>1. From(S, x + 1) = (Gap(x, q) \cap S) \cup From(S, q)
      /\ (Gap(x, q) \cap S) \cap From(S, q) = {}
  <2>1. ASSUME NEW i
        PROVE  /\ i \in From(S, x + 1) <=> i \in Gap(x, q) \cap S \/ i \in From(S, q)
               /\ ~(i \in Gap(x, q) \cap S /\ i \in From(S, q))
    <3>1. CASE i \in S
      <4>1. i \in Nat
        BY <3>1
      <4> QED BY <3>1, <4>1 DEF From, Gap
    <3> QED BY <3>1 DEF From, Gap
  <2> QED BY <2>1
<1>2. IsFiniteSet(Gap(x, q) \cap S) /\ IsFiniteSet(From(S, q))
  BY GapParts, FromFinite
<1> QED BY <1>1, <1>2, Disjoint

(* x itself counts if it is in S. *)
LEMMA FromOne ==
    ASSUME NEW S, IsFiniteSet(S), S \subseteq Nat, NEW x \in Nat
    PROVE  Cardinality(From(S, x)) = Cardinality(From(S, x + 1)) + (IF x \in S THEN 1 ELSE 0)
<1>1. CASE x \in S
  <2>1. \A i \in Nat : x <= i <=> (i = x \/ x + 1 <= i)
    OBVIOUS
  <2>2. From(S, x) = From(S, x + 1) \cup {x}
    BY <1>1, <2>1 DEF From
  <2>3. x \notin From(S, x + 1)
    BY DEF From
  <2> QED BY <1>1, <2>2, <2>3, FromFinite, FS_AddElement
<1>2. CASE x \notin S
  <2>0. \A i \in Nat : x <= i <=> (i = x \/ x + 1 <= i)
    OBVIOUS
  <2>1. From(S, x) = From(S, x + 1)
    BY <1>2, <2>0 DEF From
  <2> QED BY <1>2, <2>1, FromFinite
<1> QED BY <1>1, <1>2

(* One more index is at most one more ahead. *)
LEMMA FromAdd ==
    ASSUME NEW S, IsFiniteSet(S), S \subseteq Nat, NEW x \in Nat, NEW p \in Nat
    PROVE  /\ Cardinality(From(S \cup {p}, x)) <= Cardinality(From(S, x)) + 1
           /\ p \in S \/ p < x => Cardinality(From(S \cup {p}, x)) = Cardinality(From(S, x))
<1>1. CASE p \in S \/ p < x
  <2>1. From(S \cup {p}, x) = From(S, x)
    BY <1>1 DEF From
  <2> QED BY <2>1, FromFinite
<1>2. CASE ~(p \in S \/ p < x)
  <2>1. From(S \cup {p}, x) = From(S, x) \cup {p}
    BY <1>2 DEF From
  <2>2. p \notin From(S, x)
    BY <1>2 DEF From
  <2>3. Cardinality(From(S, x) \cup {p}) = Cardinality(From(S, x)) + 1
    BY <2>2, FromFinite, FS_AddElement
  <2>4. Cardinality(From(S, x)) \in Nat
    BY FromFinite
  <2> QED BY <1>2, <2>1, <2>3, <2>4
<1> QED BY <1>1, <1>2

(* Where an index goes there is one less ahead or one more free. *)
LEMMA Removal ==
    ASSUME NEW S, IsFiniteSet(S), S \subseteq Nat, NEW i, NEW x \in Nat, NEW e \in Nat
    PROVE  \E h \in Nat :
              /\ e <= h
              /\ h + Cardinality(From(S \ {i}, x + 1)) <= e + Cardinality(From(S, x + 1))
              /\ \A q \in Nat : Cardinality(Gap(x, q) \ S) <= e
                                   => Cardinality(Gap(x, q) \ (S \ {i})) <= h
<1>0. Cardinality(From(S, x + 1)) \in Nat
  BY FromFinite
<1>1. CASE i \in From(S, x + 1)
  <2>1. From(S \ {i}, x + 1) = From(S, x + 1) \ {i}
    BY DEF From
  <2>2. Cardinality(From(S \ {i}, x + 1)) = Cardinality(From(S, x + 1)) - 1
    BY <1>1, <2>1, FromFinite, FS_RemoveElement
  <2>3. ASSUME NEW q \in Nat, Cardinality(Gap(x, q) \ S) <= e
        PROVE  Cardinality(Gap(x, q) \ (S \ {i})) <= e + 1
    <3>1. Gap(x, q) \ (S \ {i}) \subseteq (Gap(x, q) \ S) \cup {i}
      OBVIOUS
    <3>2. IsFiniteSet(Gap(x, q) \ S) /\ Cardinality(Gap(x, q) \ S) \in Nat
      BY GapParts
    <3>3. /\ IsFiniteSet((Gap(x, q) \ S) \cup {i})
          /\ Cardinality((Gap(x, q) \ S) \cup {i}) <= Cardinality(Gap(x, q) \ S) + 1
      <4> DEFINE T == Gap(x, q) \ S
      <4>1. IsFiniteSet(T) /\ Cardinality(T) \in Nat
        BY <3>2
      <4> HIDE DEF T
      <4>2. /\ IsFiniteSet(T \cup {i})
            /\ Cardinality(T \cup {i}) \in {Cardinality(T), Cardinality(T) + 1}
        BY <4>1, FS_AddElement
      <4>3. Cardinality(T \cup {i}) <= Cardinality(T) + 1
        BY <4>1, <4>2
      <4> QED BY <4>2, <4>3 DEF T
    <3>4. /\ Cardinality(Gap(x, q) \ (S \ {i})) <= Cardinality((Gap(x, q) \ S) \cup {i})
          /\ Cardinality(Gap(x, q) \ (S \ {i})) \in Nat
          /\ Cardinality((Gap(x, q) \ S) \cup {i}) \in Nat
      BY <3>1, <3>3, PartFinite
    <3> QED BY <2>3, <3>2, <3>3, <3>4
  <2>4. e + 1 \in Nat /\ e <= e + 1
        /\ e + 1 + Cardinality(From(S \ {i}, x + 1)) <= e + Cardinality(From(S, x + 1))
    BY <1>0, <2>2
  <2> QED BY <2>3, <2>4
<1>2. CASE i \notin From(S, x + 1)
  <2>1. From(S \ {i}, x + 1) = From(S, x + 1)
    BY <1>2 DEF From
  <2>2. ASSUME NEW q \in Nat PROVE Gap(x, q) \ (S \ {i}) = Gap(x, q) \ S
    BY <1>2 DEF Gap, From
  <2>3. \A q \in Nat : Cardinality(Gap(x, q) \ S) <= e => Cardinality(Gap(x, q) \ (S \ {i})) <= e
    BY <2>2
  <2>4. e + Cardinality(From(S \ {i}, x + 1)) <= e + Cardinality(From(S, x + 1))
    BY <1>0, <2>1
  <2> QED BY <2>3, <2>4
<1> QED BY <1>1, <1>2

-----------------------------------------------------------------------------
(* How many backups are not compressed *)

(* There is an index x such that all but a few uncompressed backups lie in *)
(* the window of the limit that ends at x, and each one outside of it was  *)
(* paid for by an interruption.  When nobody rotates, x is the stored      *)
(* pointer; when somebody does and the file is still there, whoever comes  *)
(* first will fill x; after that x is filled, and e counts the indices     *)
(* that callers who found the file gone have left free behind it.          *)
Outside(x, y) == Cardinality(Below(DOMAIN plain, x)) + Cardinality(From(DOMAIN plain, y))

PlainIdle ==
    /\ Pending = {} /\ Written = {}
    /\ Outside(Pointer(stored), Pointer(stored)) <= failed

PlainFresh ==
    /\ Pending # {} /\ Written = {} /\ file = "large"
    /\ \A q \in Pointers : q = Pointer(stored)
    /\ \A q \in Unlinked : \A i \in DOMAIN plain : i + MaxLogFileNum # q
    /\ Outside(Pointer(stored), Pointer(stored)) + Cardinality(Pending) <= failed + 1

PlainPassed(x, e) ==
    /\ Pending # {} \/ Written # {}
    /\ \A q \in Pointers :
          /\ x <= q
          /\ Cardinality(Gap(x, q) \ DOMAIN plain) <= e
          /\ \A i \in DOMAIN plain : i < x /\ x <= i + MaxLogFileNum => q <= i + MaxLogFileNum
    /\ \A q \in Written : x < q
    /\ \A q \in Unlinked : \A i \in DOMAIN plain : i < x => i + MaxLogFileNum # q
    /\ \A i \in DOMAIN plain : i + MaxLogFileNum # x
    /\ Outside(x, x + 1) + e + Cardinality(Pending) <= failed

PlainInv == PlainIdle \/ PlainFresh \/ \E x, e \in Nat : PlainPassed(x, e)

(* When all have gone on to q, the window that ends there leaves no more   *)
(* outside than the one that ended at x, but for the indices left free.    *)
LEMMA Settle ==
    ASSUME NEW S, IsFiniteSet(S), S \subseteq Nat, NEW x \in Nat, NEW e \in Nat, NEW q \in Nat,
           x < q, Cardinality(Gap(x, q) \ S) <= e,
           \A i \in S : i < x /\ x <= i + MaxLogFileNum => q <= i + MaxLogFileNum
    PROVE  Cardinality(Below(S, q)) + Cardinality(From(S, q))
              <= Cardinality(Below(S, x)) + Cardinality(From(S, x + 1)) + e
<1> USE NumbersAssumption
<1>1. PICK g, h \in Nat : /\ g = Cardinality(Gap(x, q) \cap S) /\ h = Cardinality(Gap(x, q) \ S)
                          /\ q = x + 1 + g + h
  <2>1. /\ Cardinality(Gap(x, q) \cap S) \in Nat /\ Cardinality(Gap(x, q) \ S) \in Nat
        /\ q = x + 1 + Cardinality(Gap(x, q) \cap S) + Cardinality(Gap(x, q) \ S)
    BY GapParts
  <2> QED BY <2>1
<1>2. PICK bq, fq, bx, fx \in Nat :
          /\ bq = Cardinality(Below(S, q)) /\ fq = Cardinality(From(S, q))
          /\ bx = Cardinality(Below(S, x)) /\ fx = Cardinality(From(S, x + 1))
  BY FromFinite
<1>3. fx = g + fq
  <2>1. Cardinality(From(S, x + 1)) = Cardinality(Gap(x, q) \cap S) + Cardinality(From(S, q))
    BY FromSplit
  <2> QED BY <1>1, <1>2, <2>1
<1>4. CASE q <= x + MaxLogFileNum
  <2>1. ASSUME NEW i \in Below(S, q) PROVE i \in Below(S, x)
    <3>1. i \in S /\ i \in Nat /\ i + MaxLogFileNum < q
      BY DEF Below
    <3>2. i < x
      BY <1>4, <3>1
    <3>3. ~(x <= i + MaxLogFileNum)
      BY <3>1, <3>2
    <3> QED BY <3>1, <3>3 DEF Below
  <2>2. Below(S, q) \subseteq Below(S, x)
    BY <2>1
  <2>3. bq <= bx
    BY <1>2, <2>2, FromFinite, PartFinite
  <2>4. bq + fq <= bx + fx + e
    BY <1>3, <2>3
  <2> QED BY <1>2, <2>4
<1>5. CASE x + MaxLogFileNum < q
  <2> DEFINE T == x..(q - MaxLogFileNum - 1)
  <2>1. IsFiniteSet(T) /\ Cardinality(T) = q - MaxLogFileNum - x
    <3>1. q - MaxLogFileNum - 1 \in Int /\ ~(x > q - MaxLogFileNum - 1)
      BY <1>5
    <3>2. IsFiniteSet(T) /\ Cardinality(T) = (q - MaxLogFileNum - 1) - x + 1
      BY <3>1, FS_Interval
    <3> QED BY <3>2
  <2>2. ASSUME NEW i \in Below(S, q) PROVE i \in Below(S, x) \cup T
    <3>1. i \in S /\ i \in Nat /\ i + MaxLogFileNum < q
      BY DEF Below
    <3>2. CASE i < x
      <4>1. ~(x <= i + MaxLogFileNum)
        BY <3>1, <3>2
      <4> QED BY <3>1, <4>1 DEF Below
    <3>3. CASE x <= i
      BY <3>1, <3>3
    <3> QED BY <3>1, <3>2, <3>3
  <2> HIDE DEF T
  <2>3. /\ IsFiniteSet(Below(S, x) \cup T)
        /\ Cardinality(Below(S, x) \cup T) <= bx + Cardinality(T)
    BY <1>2, <2>1, FromFinite, UnionBound
  <2>4. Cardinality(Below(S, x) \cup T) \in Nat /\ bq <= Cardinality(Below(S, x) \cup T)
    BY <1>2, <2>2, <2>3, PartFinite
  <2>5. bq <= bx + (q - MaxLogFileNum - x)
    BY <2>1, <2>3, <2>4
  <2>6. bq + x + MaxLogFileNum <= bx + q
    BY <1>1, <2>5
  <2>7. h <= e
    BY <1>1
  <2>8. bq + MaxLogFileNum <= bx + 1 + g + h
    BY <1>1, <2>6
  <2>9. bq + fq <= bx + fx + e
    <3>1. MaxLogFileNum \in Nat /\ 1 <= MaxLogFileNum
      OBVIOUS
    <3>2. bq \in Nat /\ bx \in Nat /\ fq \in Nat /\ g \in Nat /\ h \in Nat
      OBVIOUS
    <3>3. bq <= bx + g + h
      BY <2>8, <3>1, <3>2
    <3>4. bq <= bx + g + e
      BY <2>7, <3>2, <3>3
    <3> QED BY <1>3, <3>2, <3>4
  <2> QED BY <1>2, <2>9
<1> QED BY <1>4, <1>5

(* How many are going to put the file away. *)
LEMMA PendingCount == IsFiniteSet(Pending) /\ Cardinality(Pending) \in Nat
<1>1. Pending \subseteq Callers
  BY DEF Pending
<1> QED BY <1>1, NumbersAssumption, PartFinite

LEMMA PendingLess ==
    ASSUME NEW c \in Pending, Pending' = Pending \ {c}
    PROVE  /\ Cardinality(Pending') \in Nat /\ Cardinality(Pending) = Cardinality(Pending') + 1
<1>1. Cardinality(Pending \ {c}) = Cardinality(Pending) - 1
  BY PendingCount, FS_RemoveElement
<1>2. Cardinality(Pending \ {c}) \in Nat
  BY PendingCount, FS_RemoveElement, FS_CardinalityType
<1> QED BY <1>1, <1>2, PendingCount

LEMMA PendingMore ==
    ASSUME NEW c, c \notin Pending, Pending' = Pending \cup {c}
    PROVE  /\ Cardinality(Pending') \in Nat /\ Cardinality(Pending') = Cardinality(Pending) + 1
BY PendingCount, FS_AddElement

LEMMA PendingSome ==
    ASSUME NEW c \in Pending
    PROVE  Cardinality(Pending) >= 1
<1>1. Cardinality(Pending \ {c}) = Cardinality(Pending) - 1
  BY PendingCount, FS_RemoveElement
<1>2. Cardinality(Pending \ {c}) \in Nat
  BY PendingCount, FS_RemoveElement, FS_CardinalityType
<1> QED BY <1>1, <1>2, PendingCount

LEMMA PlainTypes ==
    ASSUME RotationTypes
    PROVE  /\ IsFiniteSet(DOMAIN plain) /\ DOMAIN plain \subseteq Nat /\ failed \in Nat
           /\ \A x, y : Outside(x, y) \in Nat
<1>1. IsFiniteSet(DOMAIN plain) /\ DOMAIN plain \subseteq Nat /\ failed \in Nat
  BY DEF RotationTypes, RotationTypeOK, Finite
<1>2. ASSUME NEW x, NEW y PROVE Outside(x, y) \in Nat
  <2>1. Cardinality(Below(DOMAIN plain, x)) \in Nat /\ Cardinality(From(DOMAIN plain, y)) \in Nat
    BY <1>1, FromFinite
  <2> QED BY <2>1 DEF Outside
<1> QED BY <1>1, <1>2

(* A step that neither touches the backups nor changes who follows which   *)
(* pointer.                                                                *)
LEMMA PlainSteady ==
    ASSUME RotationTypes, RotationTypes', PlainInv, DOMAIN plain' = DOMAIN plain, stored' = stored,
           failed <= failed', file = "large" => file' = "large",
           Pending' = Pending, Pointers' \subseteq Pointers,
           Unlinked' = Unlinked, Written' = Written
    PROVE  PlainInv'
<1>0. /\ Pointer(stored)' = Pointer(stored)
      /\ \A x, y : Outside(x, y)' = Outside(x, y)
  BY DEF Outside
<1>1. failed \in Nat /\ failed' \in Nat /\ Cardinality(Pending) \in Nat
      /\ \A x, y : Outside(x, y) \in Nat
  BY PlainTypes, PendingCount DEF RotationTypes, RotationTypeOK
<1>2. CASE PlainIdle
  <2>1. PlainIdle'
    BY <1>0, <1>1, <1>2 DEF PlainIdle
  <2> QED BY <2>1 DEF PlainInv
<1>3. CASE PlainFresh
  <2>1. PlainFresh'
    BY <1>0, <1>1, <1>3 DEF PlainFresh
  <2> QED BY <2>1 DEF PlainInv
<1>4. ASSUME NEW x \in Nat, NEW e \in Nat, PlainPassed(x, e) PROVE PlainInv'
  <2>1. Outside(x, x + 1) + e + Cardinality(Pending) <= failed'
    <3>1. PICK a \in Nat : a = Outside(x, x + 1) + e + Cardinality(Pending)
      BY <1>1
    <3>2. a <= failed
      BY <1>4, <3>1 DEF PlainPassed
    <3>3. a <= failed'
      BY <1>1, <3>2
    <3> QED BY <3>1, <3>3
  <2>2. Outside(x, x + 1)' + e + Cardinality(Pending') <= failed'
    BY <1>0, <2>1
  <2>3. PlainPassed(x, e)'
    BY <1>0, <1>4, <2>2 DEF PlainPassed
  <2> QED BY <2>3 DEF PlainInv
<1> QED BY <1>2, <1>3, <1>4 DEF PlainInv

(* One more caller follows the stored pointer. *)
LEMMA PlainEnter ==
    ASSUME RotationTypes, RotationTypes', PlainInv, NEW c \in Callers, FindsLarge(c)
    PROVE  PlainInv'
<1>0. /\ Pointer(stored)' = Pointer(stored)
      /\ \A x, y : Outside(x, y)' = Outside(x, y)
      /\ file' = "large" /\ Pointers' = Pointers /\ Unlinked' = Unlinked /\ Written' = Written
      /\ plain' = plain
  BY EnterView DEF Outside, Same
<1>1. failed \in Nat /\ failed' \in Nat /\ Cardinality(Pending) \in Nat
      /\ \A x, y : Outside(x, y) \in Nat
  BY PlainTypes, PendingCount DEF RotationTypes, RotationTypeOK
<1>2. Cardinality(Pending') = Cardinality(Pending) + 1 /\ Pending' # {}
  BY EnterView, PendingMore
<1>3. CASE PlainIdle
  <2>1. failed' = failed /\ Pending = {} /\ Written = {}
    BY <1>3, EnterView DEF PlainIdle
  <2>2. Pointers = {Pointer(stored)} /\ Unlinked = {}
    BY <2>1 DEF Pointers, Unlinked, Pending, Written, Holds
  <2>3. Cardinality(Pending') = 1
    BY <1>2, <2>1, FS_EmptySet
  <2>4. PlainFresh'
    BY <1>0, <1>1, <1>2, <1>3, <2>1, <2>2, <2>3 DEF PlainFresh, PlainIdle
  <2> QED BY <2>4 DEF PlainInv
<1>4. CASE PlainFresh
  <2>1. failed' = failed + 1
    BY <1>4, EnterView DEF PlainFresh
  <2>2. PlainFresh'
    BY <1>0, <1>1, <1>2, <1>4, <2>1 DEF PlainFresh
  <2> QED BY <2>2 DEF PlainInv
<1>5. ASSUME NEW x \in Nat, NEW e \in Nat, PlainPassed(x, e) PROVE PlainInv'
  <2>1. failed' = failed + 1
    BY <1>5, EnterView DEF PlainPassed
  <2>2. PlainPassed(x, e)'
    BY <1>0, <1>1, <1>2, <1>5, <2>1 DEF PlainPassed
  <2> QED BY <2>2 DEF PlainInv
<1> QED BY <1>3, <1>4, <1>5 DEF PlainInv

(* The process ends: the stored pointer may be behind what was written. *)
LEMMA PlainEnd ==
    ASSUME RotationTypes, RotationTypes', PlainInv, ProcessEnds
    PROVE  PlainInv'
<1>0. /\ Pointer(stored)' = Pointer(stored) /\ failed' = failed + 1
      /\ \A x, y : Outside(x, y)' = Outside(x, y)
      /\ Pending' = {} /\ Written' = {}
  BY EndView DEF Outside
<1>1. failed \in Nat /\ Cardinality(Pending) \in Nat /\ Pointer(stored) \in Nat
      /\ IsFiniteSet(DOMAIN plain) /\ DOMAIN plain \subseteq Nat
      /\ \A x, y : Outside(x, y) \in Nat
  BY PlainTypes, PendingCount, PointerTypes
<1> DEFINE s == Pointer(stored)
<1>2. Outside(s, s) <= failed + 1
  <2>1. CASE PlainIdle
    BY <1>1, <2>1 DEF PlainIdle
  <2>2. CASE PlainFresh
    BY <1>1, <2>2 DEF PlainFresh
  <2>3. ASSUME NEW x \in Nat, NEW e \in Nat, PlainPassed(x, e) PROVE Outside(s, s) <= failed + 1
    <3>1. s \in Pointers
      BY DEF Pointers
    <3>2. CASE s = x
      <4>1. PICK b, f, g \in Nat : /\ b = Cardinality(Below(DOMAIN plain, x))
                                   /\ f = Cardinality(From(DOMAIN plain, x))
                                   /\ g = Cardinality(From(DOMAIN plain, x + 1))
        BY <1>1, FromFinite
      <4>2. f <= g + 1
        BY <1>1, <4>1, FromOne
      <4>3. b + g <= failed
        BY <1>1, <2>3, <4>1 DEF PlainPassed, Outside
      <4>4. b + f <= failed + 1
        BY <1>1, <4>2, <4>3
      <4> QED BY <3>2, <4>1, <4>4 DEF Outside
    <3>3. CASE x < s
      <4>1. Outside(s, s) <= Outside(x, x + 1) + e
        BY <1>1, <2>3, <3>1, <3>3, Settle DEF PlainPassed, Outside
      <4> QED BY <1>1, <2>3, <4>1 DEF PlainPassed
    <3>4. x <= s
      BY <2>3, <3>1 DEF PlainPassed
    <3>5. s = x \/ x < s
      BY <1>1, <3>4
    <3> QED BY <3>2, <3>3, <3>5
  <2> QED BY <2>1, <2>2, <2>3 DEF PlainInv
<1>3. PlainIdle'
  BY <1>0, <1>2 DEF PlainIdle
<1> QED BY <1>3 DEF PlainInv

(* A set with one element more. *)
LEMMA OneMore ==
    ASSUME NEW S, IsFiniteSet(S), NEW p, NEW T, T \subseteq S \cup {p}, NEW e \in Nat,
           Cardinality(S) <= e
    PROVE  IsFiniteSet(T) /\ Cardinality(T) \in Nat /\ Cardinality(T) <= e + 1
<1>1. IsFiniteSet(S \cup {p}) /\ Cardinality(S \cup {p}) \in {Cardinality(S), Cardinality(S) + 1}
  BY FS_AddElement
<1>2. Cardinality(S) \in Nat
  BY FS_CardinalityType
<1>3. IsFiniteSet(T) /\ Cardinality(T) \in Nat /\ Cardinality(T) <= Cardinality(S \cup {p})
  BY <1>1, PartFinite
<1> QED BY <1>1, <1>2, <1>3

(* An uncompressed backup goes. *)
LEMMA PlainGoes ==
    ASSUME RotationTypes, RotationTypes', PlainInv, NEW i \in Nat, DOMAIN plain' = DOMAIN plain \ {i},
           stored' = stored, failed' = failed, file' = file,
           Pending' = Pending, Pointers' = Pointers, Written' = Written,
           \A q \in Unlinked' : q \in Unlinked \/ q = i + MaxLogFileNum
    PROVE  PlainInv'
<1>1. /\ IsFiniteSet(DOMAIN plain) /\ DOMAIN plain \subseteq Nat /\ failed \in Nat
      /\ Cardinality(Pending) \in Nat
      /\ \A x, y : Outside(x, y) \in Nat /\ Outside(x, y)' \in Nat
  <2>1. \A x, y : Outside(x, y)' \in Nat
    <3>1. ASSUME NEW x, NEW y PROVE Outside(x, y)' \in Nat
      <4>1. IsFiniteSet(DOMAIN plain')
        BY DEF RotationTypes, Finite
      <4>2. Cardinality(Below(DOMAIN plain', x)) \in Nat /\ Cardinality(From(DOMAIN plain', y)) \in Nat
        BY <4>1, FromFinite
      <4> QED BY <4>2 DEF Outside
    <3> QED BY <3>1
  <2> QED BY <2>1, PlainTypes, PendingCount
<1>2. \A x, y : Outside(x, y)' <= Outside(x, y)
  <2>1. ASSUME NEW x, NEW y PROVE Outside(x, y)' <= Outside(x, y)
    <3>1. Below(DOMAIN plain', x) \subseteq Below(DOMAIN plain, x)
          /\ From(DOMAIN plain', y) \subseteq From(DOMAIN plain, y)
      BY DEF Below, From
    <3>2. /\ Cardinality(Below(DOMAIN plain', x)) <= Cardinality(Below(DOMAIN plain, x))
          /\ Cardinality(From(DOMAIN plain', y)) <= Cardinality(From(DOMAIN plain, y))
          /\ Cardinality(Below(DOMAIN plain', x)) \in Nat /\ Cardinality(Below(DOMAIN plain, x)) \in Nat
          /\ Cardinality(From(DOMAIN plain', y)) \in Nat /\ Cardinality(From(DOMAIN plain, y)) \in Nat
      BY <1>1, <3>1, FromFinite, PartFinite
    <3> QED BY <3>2 DEF Outside
  <2> QED BY <2>1
<1>3. Pointer(stored)' = Pointer(stored)
  OBVIOUS
<1> DEFINE s == Pointer(stored)
<1>6. \A j \in DOMAIN plain' : j \in DOMAIN plain /\ j + MaxLogFileNum # i + MaxLogFileNum
  BY <1>1, NumbersAssumption
<1>4. CASE PlainIdle
  <2>1. Outside(s, s)' <= failed
    BY <1>1, <1>2, <1>4 DEF PlainIdle
  <2>2. PlainIdle'
    BY <1>3, <1>4, <2>1 DEF PlainIdle
  <2> QED BY <2>2 DEF PlainInv
<1>5. CASE PlainFresh
  <2>1. Outside(s, s)' + Cardinality(Pending) <= failed + 1
    BY <1>1, <1>2, <1>5 DEF PlainFresh
  <2>2. \A q \in Unlinked' : \A j \in DOMAIN plain' : j + MaxLogFileNum # q
    BY <1>5, <1>6 DEF PlainFresh
  <2>3. PlainFresh'
    BY <1>3, <1>5, <2>1, <2>2 DEF PlainFresh
  <2> QED BY <2>3 DEF PlainInv
<1>7. ASSUME NEW x \in Nat, NEW e \in Nat, PlainPassed(x, e) PROVE PlainInv'
  <2>1. PICK h \in Nat :
           /\ h + Cardinality(From(DOMAIN plain \ {i}, x + 1)) <= e + Cardinality(From(DOMAIN plain, x + 1))
           /\ \A q \in Nat : Cardinality(Gap(x, q) \ DOMAIN plain) <= e
                                => Cardinality(Gap(x, q) \ (DOMAIN plain \ {i})) <= h
    BY <1>1, Removal
  <2>2. Outside(x, x + 1)' + h + Cardinality(Pending) <= failed
    <3>1. PICK b, f, n \in Nat : /\ b = Cardinality(Below(DOMAIN plain, x))
                                 /\ f = Cardinality(From(DOMAIN plain, x + 1))
                                 /\ n = Cardinality(Pending)
      BY <1>1, FromFinite
    <3>2. b + f + e + n <= failed
      BY <1>7, <3>1 DEF PlainPassed, Outside
    <3>3. PICK b1, f1 \in Nat : /\ b1 = Cardinality(Below(DOMAIN plain', x))
                                /\ f1 = Cardinality(From(DOMAIN plain', x + 1))
      <4>1. IsFiniteSet(DOMAIN plain')
        BY DEF RotationTypes, Finite
      <4> QED BY <4>1, FromFinite
    <3>4. b1 <= b
      <4>1. Below(DOMAIN plain', x) \subseteq Below(DOMAIN plain, x)
        BY DEF Below
      <4> QED BY <1>1, <3>1, <3>3, <4>1, FromFinite, PartFinite
    <3>5. h + f1 <= e + f
      BY <2>1, <3>1, <3>3
    <3>6. b1 + f1 + h + n <= failed
      BY <1>1, <3>2, <3>4, <3>5
    <3> QED BY <3>1, <3>3, <3>6 DEF Outside
  <2>3. \A q \in Pointers : Cardinality(Gap(x, q) \ DOMAIN plain') <= h
    BY <1>7, <2>1, PointerTypes DEF PlainPassed
  <2>4. PlainPassed(x, h)'
    BY <1>6, <1>7, <2>2, <2>3 DEF PlainPassed
  <2> QED BY <2>4 DEF PlainInv
<1> QED BY <1>4, <1>5, <1>7 DEF PlainInv

(* A caller renames the file, or finds that it is gone. *)
LEMMA PlainRename ==
    ASSUME RotationTypes, RotationTypes', PlainInv, NEW p \in Nat, NEW c, Rename(p),
           stored' = stored, failed' = failed,
           c \in Pending, Pending' = Pending \ {c},
           p \in Pointers, Pointers' \subseteq Pointers \cup {p + 1},
           Unlinked' \subseteq Unlinked, Written' = Written \cup {p + 1},
           p \in Unlinked \/ p < MaxLogFileNum
    PROVE  PlainInv'
<1>1. /\ IsFiniteSet(DOMAIN plain) /\ DOMAIN plain \subseteq Nat /\ failed \in Nat
      /\ IsFiniteSet(DOMAIN plain') /\ DOMAIN plain' \subseteq Nat
      /\ MaxLogFileNum \in Nat /\ 1 <= MaxLogFileNum
  BY PlainTypes, NumbersAssumption DEF RotationTypes, RotationTypeOK, Finite
<1>2. PICK n \in Nat : n = Cardinality(Pending') /\ Cardinality(Pending) = n + 1
  BY PendingLess
<1>3. Written' # {} /\ Pending # {}
  OBVIOUS
<1>4. ASSUME PlainFresh PROVE PlainInv'
  <2>1. p = Pointer(stored) /\ file = "large"
    BY <1>4 DEF PlainFresh
  <2>2. DOMAIN plain' = DOMAIN plain \cup {p}
    BY <2>1, Renamed
  <2>3. \A i \in DOMAIN plain' : i + MaxLogFileNum # p
    BY <1>1, <1>4, <2>2 DEF PlainFresh
  <2>4. PICK b, f, g \in Nat : /\ b = Cardinality(Below(DOMAIN plain, p))
                               /\ f = Cardinality(From(DOMAIN plain, p))
                               /\ g = Cardinality(From(DOMAIN plain, p + 1))
    BY <1>1, FromFinite
  <2>5. g <= f
    BY <1>1, <2>4, FromOne
  <2>6. b + f + n <= failed
    BY <1>1, <1>2, <1>4, <2>1, <2>4 DEF PlainFresh, Outside
  <2>7. Below(DOMAIN plain', p) = Below(DOMAIN plain, p)
    BY <1>1, <2>2 DEF Below
  <2>8. Cardinality(From(DOMAIN plain', p + 1)) = g
    BY <1>1, <2>2, <2>4, FromAdd
  <2>9. Outside(p, p + 1)' + 0 + Cardinality(Pending') <= failed
    <3>1. b + g + 0 + n <= failed
      BY <1>1, <2>5, <2>6
    <3> QED BY <1>2, <2>4, <2>7, <2>8, <3>1 DEF Outside
  <2>10. ASSUME NEW q \in Pointers'
         PROVE  /\ p <= q
                /\ Cardinality(Gap(p, q) \ DOMAIN plain') <= 0
                /\ \A i \in DOMAIN plain' :
                      i < p /\ p <= i + MaxLogFileNum => q <= i + MaxLogFileNum
    <3>1. q = p \/ q = p + 1
      BY <1>4, <2>1 DEF PlainFresh
    <3>2. Gap(p, q) = {}
      BY <3>1 DEF Gap
    <3>3. \A i \in DOMAIN plain' : i < p /\ p <= i + MaxLogFileNum => q <= i + MaxLogFileNum
      BY <1>1, <2>3, <3>1
    <3> QED BY <3>1, <3>2, <3>3, FS_EmptySet
  <2>11. \A q \in Written' : p < q
    BY <1>4 DEF PlainFresh
  <2>12. \A q \in Unlinked' : \A i \in DOMAIN plain' : i < p => i + MaxLogFileNum # q
    <3>1. \A i \in DOMAIN plain' : i < p => i \in DOMAIN plain
      BY <1>1, <2>2
    <3> QED BY <1>4, <3>1 DEF PlainFresh
  <2>13. PlainPassed(p, 0)'
    BY <1>3, <2>3, <2>9, <2>10, <2>11, <2>12 DEF PlainPassed
  <2> QED BY <2>13 DEF PlainInv
<1>5. ASSUME NEW x \in Nat, NEW e \in Nat, PlainPassed(x, e) PROVE PlainInv'
  <2>1. x <= p
    BY <1>5 DEF PlainPassed
  <2>2. /\ Pointers \subseteq Nat
        /\ \A i \in DOMAIN plain : i < x => i + MaxLogFileNum # p
    BY <1>1, <1>5, PointerTypes DEF PlainPassed
  <2>3. PICK b, f \in Nat : /\ b = Cardinality(Below(DOMAIN plain, x))
                            /\ f = Cardinality(From(DOMAIN plain, x + 1))
    BY <1>1, FromFinite
  <2>4. b + f + e + n + 1 <= failed
    BY <1>1, <1>2, <1>5, <2>3 DEF PlainPassed, Outside
  <2>5. CASE file = "none"
    <3>1. plain' = plain
      BY <2>5, Renamed
    <3>2. Outside(x, x + 1)' + (e + 1) + Cardinality(Pending') <= failed
      <4>1. b + f + (e + 1) + n <= failed
        BY <1>1, <2>4
      <4> QED BY <1>2, <2>3, <3>1, <4>1 DEF Outside
    <3>3. ASSUME NEW q \in Pointers'
          PROVE  /\ x <= q
                 /\ Cardinality(Gap(x, q) \ DOMAIN plain') <= e + 1
                 /\ \A i \in DOMAIN plain' :
                       i < x /\ x <= i + MaxLogFileNum => q <= i + MaxLogFileNum
      <4>1. ASSUME NEW r \in Pointers PROVE Cardinality(Gap(x, r) \ DOMAIN plain) \in Nat
        BY <2>2, GapParts
      <4>2. CASE q \in Pointers
        BY <1>5, <3>1, <4>1, <4>2 DEF PlainPassed
      <4>3. CASE q = p + 1
        <5>1. Gap(x, q) \ DOMAIN plain \subseteq (Gap(x, p) \ DOMAIN plain) \cup {p}
          BY <4>3 DEF Gap
        <5>2. /\ IsFiniteSet(Gap(x, p) \ DOMAIN plain)
              /\ Cardinality(Gap(x, p) \ DOMAIN plain) \in Nat
              /\ Cardinality(Gap(x, p) \ DOMAIN plain) <= e
          BY <1>5, <4>1, GapParts DEF PlainPassed
        <5>3. Cardinality(Gap(x, q) \ DOMAIN plain) <= e + 1
          BY <5>1, <5>2, OneMore
        <5>4. \A i \in DOMAIN plain : i < x /\ x <= i + MaxLogFileNum => p <= i + MaxLogFileNum
          BY <1>5 DEF PlainPassed
        <5> QED BY <1>1, <2>1, <2>2, <3>1, <4>3, <5>3, <5>4
      <4> QED BY <4>2, <4>3
    <3>4. PlainPassed(x, e + 1)'
      BY <1>3, <1>5, <2>1, <3>1, <3>2, <3>3 DEF PlainPassed
    <3> QED BY <3>4 DEF PlainInv
  <2>6. CASE file # "none"
    <3>1. DOMAIN plain' = DOMAIN plain \cup {p}
      BY <2>6, Renamed
    <3>2. Below(DOMAIN plain', x) = Below(DOMAIN plain, x)
      BY <1>1, <2>1, <3>1 DEF Below
    <3>3. Cardinality(From(DOMAIN plain', x + 1)) <= f + 1
          /\ Cardinality(From(DOMAIN plain', x + 1)) \in Nat
      BY <1>1, <2>3, <3>1, FromAdd, FromFinite
    <3>4. Outside(x, x + 1)' + e + Cardinality(Pending') <= failed
      <4>1. PICK f1 \in Nat : f1 = Cardinality(From(DOMAIN plain', x + 1))
        BY <3>3
      <4>2. f1 <= f + 1
        BY <3>3, <4>1
      <4>3. b + f1 + e + n <= failed
        BY <1>1, <2>4, <4>2
      <4> QED BY <1>2, <2>3, <3>2, <4>1, <4>3 DEF Outside
    <3>5. ASSUME NEW q \in Pointers'
          PROVE  /\ x <= q
                 /\ Cardinality(Gap(x, q) \ DOMAIN plain') <= e
                 /\ \A i \in DOMAIN plain' :
                       i < x /\ x <= i + MaxLogFileNum => q <= i + MaxLogFileNum
      <4>1. ASSUME NEW r \in Pointers
            PROVE  /\ Cardinality(Gap(x, r) \ DOMAIN plain') <= e
                   /\ \A i \in DOMAIN plain' :
                         i < x /\ x <= i + MaxLogFileNum => r <= i + MaxLogFileNum
        <5>1. Gap(x, r) \ DOMAIN plain' \subseteq Gap(x, r) \ DOMAIN plain
          BY <3>1
        <5>2. /\ IsFiniteSet(Gap(x, r) \ DOMAIN plain)
              /\ Cardinality(Gap(x, r) \ DOMAIN plain) \in Nat
              /\ Cardinality(Gap(x, r) \ DOMAIN plain) <= e
          BY <1>5, <2>2, GapParts DEF PlainPassed
        <5>3. /\ Cardinality(Gap(x, r) \ DOMAIN plain') \in Nat
              /\ Cardinality(Gap(x, r) \ DOMAIN plain') <= Cardinality(Gap(x, r) \ DOMAIN plain)
          BY <5>1, <5>2, PartFinite
        <5> QED BY <1>1, <1>5, <2>1, <3>1, <5>2, <5>3 DEF PlainPassed
      <4>2. CASE q \in Pointers
        BY <1>5, <4>1, <4>2 DEF PlainPassed
      <4>3. CASE q = p + 1
        <5>1. Gap(x, q) \ DOMAIN plain' = Gap(x, p) \ DOMAIN plain'
          BY <3>1, <4>3 DEF Gap
        <5> QED BY <1>1, <2>1, <2>2, <3>1, <4>1, <4>3, <5>1
      <4> QED BY <4>2, <4>3
    <3>6. /\ \A q \in Unlinked' : \A i \in DOMAIN plain' : i < x => i + MaxLogFileNum # q
          /\ \A i \in DOMAIN plain' : i + MaxLogFileNum # x
      BY <1>1, <1>5, <2>1, <3>1 DEF PlainPassed
    <3>7. PlainPassed(x, e)'
      BY <1>3, <1>5, <2>1, <3>4, <3>5, <3>6 DEF PlainPassed
    <3> QED BY <3>7 DEF PlainInv
  <2> QED BY <2>5, <2>6
<1>6. ~PlainIdle
  BY <1>3 DEF PlainIdle
<1> QED BY <1>4, <1>5, <1>6 DEF PlainInv

(* A pointer is stored; with the last caller the rotation is over. *)
LEMMA PlainWrite ==
    ASSUME RotationTypes, RotationTypes', PlainInv, NEW c \in Callers,
           WriteLogInfo(c) \/ WriteLogInfoFails(c)
    PROVE  PlainInv'
<1>1. /\ plain' = plain /\ file' = file
      /\ Pending' = Pending /\ Pointers' \subseteq Pointers
      /\ Unlinked' = Unlinked /\ Written' \subseteq Written /\ Written # {}
      /\ \/ Pointer(stored') \in Written /\ failed' = failed
         \/ stored' = stored /\ failed' = failed + 1
  BY WriteView DEF Same
<1>2. failed \in Nat /\ Cardinality(Pending) \in Nat
      /\ IsFiniteSet(DOMAIN plain) /\ DOMAIN plain \subseteq Nat
      /\ \A x, y : Outside(x, y) \in Nat /\ Outside(x, y)' = Outside(x, y)
  BY <1>1, PlainTypes, PendingCount DEF Outside
<1>3. PICK s \in Nat : s = Pointer(stored') /\ s \in Pointers
  <2>1. Pointer(stored') \in Pointers'
    BY DEF Pointers
  <2> QED BY <1>1, <2>1, PointerTypes
<1>4. ~PlainIdle /\ ~PlainFresh
  BY <1>1 DEF PlainIdle, PlainFresh
<1>5. PICK x, e \in Nat : PlainPassed(x, e)
  BY <1>4 DEF PlainInv
<1>6. PICK a, n \in Nat : /\ a = Outside(x, x + 1) /\ n = Cardinality(Pending)
                          /\ a + e + n <= failed
  BY <1>2, <1>5 DEF PlainPassed
<1>7. CASE Pending # {} \/ Written' # {}
  <2>1. a + e + n <= failed'
    BY <1>1, <1>2, <1>6
  <2>2. Outside(x, x + 1)' + e + Cardinality(Pending') <= failed'
    BY <1>1, <1>2, <1>6, <2>1
  <2>3. PlainPassed(x, e)'
    BY <1>1, <1>5, <1>7, <2>2 DEF PlainPassed
  <2> QED BY <2>3 DEF PlainInv
<1>8. CASE Pending = {} /\ Written' = {}
  <2>1. x <= s
    BY <1>3, <1>5 DEF PlainPassed
  <2>2. CASE x < s
    <3>1. Outside(s, s) <= Outside(x, x + 1) + e
      BY <1>2, <1>3, <1>5, <2>2, Settle DEF PlainPassed, Outside
    <3>2. Outside(s, s) <= failed'
      <4>1. PICK k \in Nat : k = Outside(s, s)
        BY <1>2
      <4>2. k <= a + e
        BY <1>6, <3>1, <4>1
      <4>3. k <= failed
        BY <1>2, <1>6, <4>2
      <4> QED BY <1>1, <1>2, <4>1, <4>3
    <3>3. Outside(s, s)' <= failed'
      BY <1>2, <3>2
    <3>4. PlainIdle'
      BY <1>1, <1>3, <1>8, <3>3 DEF PlainIdle
    <3> QED BY <3>4 DEF PlainInv
  <2>3. CASE s = x
    <3>1. failed' = failed + 1
      BY <1>1, <1>2, <1>3, <1>5, <2>3 DEF PlainPassed
    <3>2. PICK b, f, g \in Nat : /\ b = Cardinality(Below(DOMAIN plain, x))
                                 /\ f = Cardinality(From(DOMAIN plain, x))
                                 /\ g = Cardinality(From(DOMAIN plain, x + 1))
      BY <1>2, FromFinite
    <3>3. f <= g + 1
      BY <1>2, <3>2, FromOne
    <3>4. b + g <= failed
      BY <1>2, <1>6, <3>2 DEF Outside
    <3>5. b + f <= failed'
      BY <1>2, <3>1, <3>3, <3>4
    <3>6. Outside(s, s)' <= failed'
      BY <1>2, <2>3, <3>2, <3>5 DEF Outside
    <3>7. PlainIdle'
      BY <1>1, <1>3, <1>8, <3>6 DEF PlainIdle
    <3> QED BY <3>7 DEF PlainInv
  <2> QED BY <1>3, <2>1, <2>2, <2>3
<1> QED BY <1>7, <1>8

(* Every step keeps the window. *)
LEMMA NextPlainInv ==
    ASSUME RotationTypes, RotationTypes', IndexFile, PlainInv, trusted',
           [RotationNext]_rotationVars
    PROVE  PlainInv'
<1>0. failed \in Nat /\ failed' \in Nat
  BY DEF RotationTypes, RotationTypeOK
<1>1. ASSUME NEW c \in Callers,
             \/ \E f \in Calls : Begin(c, f)
             \/ Touch(c) \/ FindsSmall(c) \/ Append(c)
      PROVE  PlainInv'
  BY <1>0, <1>1, OutsideView, PlainSteady DEF Same
<1>2. ASSUME NEW c \in Callers, FindsLarge(c) PROVE PlainInv'
  BY <1>2, PlainEnter
<1>3. ASSUME NEW c \in Callers, CreateLogInfo(c) \/ FillLogInfo(c) \/ ReadLogInfo(c)
      PROVE  PlainInv'
  BY <1>0, <1>3, ReadView, PlainSteady DEF Same
<1>4. ASSUME NEW c \in Callers, ReadNothing(c) PROVE PlainInv'
  BY <1>4 DEF ReadNothing
<1>5. ASSUME NEW c \in Callers, RenameNext(c) \/ RenameLatest(c) PROVE PlainInv'
  <2>1. PICK p \in Nat :
              /\ Rename(p)
              /\ stored' = stored /\ failed' = failed
              /\ c \in Pending /\ Pending' = Pending \ {c}
              /\ p \in Pointers /\ Pointers' \subseteq Pointers \cup {p + 1}
              /\ Unlinked' \subseteq Unlinked
              /\ Written' = Written \cup {p + 1}
              /\ p \in Unlinked \/ p < MaxLogFileNum
    BY <1>5, RenameView
  <2> QED BY <2>1, PlainRename
<1>6. ASSUME NEW c \in Callers, UnlinkOldest(c) PROVE PlainInv'
  <2>1. /\ stored' = stored /\ failed' = failed /\ file' = file
        /\ Pending' = Pending /\ Pointers' = Pointers
        /\ Unlinked' = Unlinked \cup {Pointer(logInfo[c])} /\ Written' = Written
        /\ logInfo[c].oldestIndex + MaxLogFileNum = Pointer(logInfo[c])
    BY <1>6, UnlinkView
  <2>2. DOMAIN plain' = DOMAIN plain \ {logInfo[c].oldestIndex}
    BY <1>6 DEF UnlinkOldest
  <2>3. logInfo[c].oldestIndex \in Nat
    BY DEF RotationTypes, RotationTypeOK, LogInfos
  <2> QED BY <2>1, <2>2, <2>3, PlainGoes
<1>7. ASSUME NEW c \in Callers, WriteLogInfo(c) \/ WriteLogInfoFails(c) PROVE PlainInv'
  BY <1>7, PlainWrite
<1>8. ASSUME NEW i, PackTar(i) \/ PackTarFails(i) PROVE PlainInv'
  <2>1. DOMAIN plain' = DOMAIN plain /\ failed <= failed'
    <3>1. plain' = plain /\ failed' \in {failed, failed + 1}
      BY <1>8 DEF PackTar, PackTarFails
    <3> QED BY <1>0, <3>1
  <2> QED BY <1>8, <2>1, PackView, PlainSteady
<1>9. ASSUME NEW i \in packing, PackRm(i) PROVE PlainInv'
  <2>1. DOMAIN plain' = DOMAIN plain \ {i} /\ failed' = failed
    BY <1>9 DEF PackRm
  <2>2. i \in Nat
    BY DEF RotationTypes, RotationTypeOK
  <2> QED BY <1>9, <2>1, <2>2, PackView, PlainGoes
<1>10. CASE ProcessEnds
  BY <1>10, PlainEnd
<1>11. CASE UNCHANGED rotationVars
  <2>1. /\ Pending' = Pending /\ Pointers' = Pointers /\ Unlinked' = Unlinked
        /\ Written' = Written
    BY <1>11 DEF Pending, Pointers, Unlinked, Written, Holds
  <2> QED BY <1>0, <1>11, <2>1, PlainSteady
<1> QED BY <1>1, <1>2, <1>3, <1>4, <1>5, <1>6, <1>7, <1>8, <1>9, <1>10, <1>11
     DEF RotationNext, BackupLogFile

(* The window holds as many as the limit. *)
LEMMA PlainInvBounds ==
    ASSUME RotationTypes, PlainInv
    PROVE  Cardinality(DOMAIN plain) <= MaxLogFileNum + failed
<1> USE NumbersAssumption
<1>1. /\ failed \in Nat /\ Pointer(stored) \in Nat
      /\ IsFiniteSet(DOMAIN plain) /\ DOMAIN plain \subseteq Nat
      /\ MaxLogFileNum \in Nat /\ 1 <= MaxLogFileNum
  BY PlainTypes, PointerTypes
<1>2. ASSUME NEW lo \in Int, NEW x \in Nat, NEW y \in Nat, NEW m \in Nat,
             \A i \in DOMAIN plain : i + MaxLogFileNum < x \/ y <= i \/ i \in lo..(y - 1),
             Cardinality(lo..(y - 1)) <= m
      PROVE  Cardinality(DOMAIN plain) <= Outside(x, y) + m
  <2> DEFINE B == Below(DOMAIN plain, x)
             F == From(DOMAIN plain, y)
             W == lo..(y - 1)
  <2>1. IsFiniteSet(B) /\ IsFiniteSet(F) /\ Cardinality(B) \in Nat /\ Cardinality(F) \in Nat
    BY <1>1, FromFinite
  <2>2. IsFiniteSet(W) /\ Cardinality(W) \in Nat
    <3>1. y - 1 \in Int
      OBVIOUS
    <3> QED BY <3>1, FS_Interval, FS_CardinalityType
  <2>3. DOMAIN plain \subseteq (B \cup F) \cup W
    BY <1>1, <1>2 DEF Below, From
  <2>4. Cardinality(W) <= m
    BY <1>2
  <2>5. Outside(x, y) = Cardinality(B) + Cardinality(F)
    BY DEF Outside
  <2> HIDE DEF B, F, W
  <2>6. IsFiniteSet(B \cup F) /\ Cardinality(B \cup F) <= Cardinality(B) + Cardinality(F)
    BY <2>1, UnionBound
  <2>7. /\ IsFiniteSet((B \cup F) \cup W)
        /\ Cardinality((B \cup F) \cup W) <= Cardinality(B \cup F) + Cardinality(W)
    BY <2>2, <2>6, UnionBound
  <2>8. PICK u, v, w, z \in Nat : /\ u = Cardinality(DOMAIN plain) /\ v = Cardinality(B \cup F)
                                  /\ w = Cardinality(W) /\ z = Cardinality((B \cup F) \cup W)
    BY <1>1, <2>2, <2>6, <2>7, FS_CardinalityType
  <2>9. u <= z
    BY <2>3, <2>7, <2>8, PartFinite
  <2>10. PICK b, f \in Nat : b = Cardinality(B) /\ f = Cardinality(F)
    BY <2>1
  <2>11. v <= b + f /\ z <= v + w /\ w <= m
    BY <2>4, <2>6, <2>7, <2>8, <2>10
  <2>12. u <= b + f + m
    BY <2>9, <2>11
  <2> QED BY <2>5, <2>8, <2>10, <2>12
<1> DEFINE s == Pointer(stored)
<1>3. Outside(s, s) \in Nat /\ Cardinality(Pending) \in Nat
  BY PlainTypes, PendingCount
<1>4. Cardinality(DOMAIN plain) <= Outside(s, s) + MaxLogFileNum
  <2>1. s - MaxLogFileNum \in Int /\ s - 1 \in Int
    BY <1>1
  <2>2. Cardinality((s - MaxLogFileNum)..(s - 1)) <= MaxLogFileNum
    BY <1>1, <2>1, FS_Interval
  <2>3. \A i \in DOMAIN plain : \/ i + MaxLogFileNum < s \/ s <= i
                                \/ i \in (s - MaxLogFileNum)..(s - 1)
    BY <1>1
  <2> QED BY <1>1, <1>2, <2>1, <2>2, <2>3
<1>5. Cardinality(DOMAIN plain) \in Nat
  BY <1>1, FS_CardinalityType
<1>6. CASE PlainIdle
  BY <1>1, <1>3, <1>4, <1>5, <1>6 DEF PlainIdle
<1>7. CASE PlainFresh
  <2>1. Cardinality(Pending) >= 1
    BY <1>7, PendingSome DEF PlainFresh
  <2>2. Outside(s, s) + Cardinality(Pending) <= failed + 1
    BY <1>7 DEF PlainFresh
  <2> QED BY <1>1, <1>3, <1>4, <1>5, <2>1, <2>2
<1>8. ASSUME NEW x \in Nat, NEW e \in Nat, PlainPassed(x, e)
      PROVE  Cardinality(DOMAIN plain) <= MaxLogFileNum + failed
  <2>1. x + 1 - MaxLogFileNum \in Int /\ x \in Int
    BY <1>1
  <2>2. Cardinality((x + 1 - MaxLogFileNum)..((x + 1) - 1)) <= MaxLogFileNum
    <3>1. (x + 1) - 1 = x
      OBVIOUS
    <3> QED BY <1>1, <2>1, <3>1, FS_Interval
  <2>3. \A i \in DOMAIN plain : \/ i + MaxLogFileNum < x \/ x + 1 <= i
                                \/ i \in (x + 1 - MaxLogFileNum)..((x + 1) - 1)
    <3>1. \A i \in DOMAIN plain : i \in Nat /\ i + MaxLogFileNum # x
      BY <1>1, <1>8 DEF PlainPassed
    <3> QED BY <1>1, <3>1
  <2>4. Cardinality(DOMAIN plain) <= Outside(x, x + 1) + MaxLogFileNum
    BY <1>1, <1>2, <2>1, <2>2, <2>3
  <2>5. Outside(x, x + 1) \in Nat /\ Outside(x, x + 1) + e + Cardinality(Pending) <= failed
    BY <1>8, PlainTypes DEF PlainPassed
  <2>6. Outside(x, x + 1) <= failed
    BY <1>1, <1>3, <2>5
  <2> QED BY <1>1, <1>5, <2>4, <2>5, <2>6
<1> QED BY <1>6, <1>7, <1>8 DEF PlainInv

(* The invariant of the rotation. *)
PlainIndInv == RotationTypes /\ (trusted => IndexFile /\ PlainInv)

(* Log.cpp:48-169: while the index file can be read, at most               *)
(* MaxLogFileNum backups are uncompressed, and one more for each           *)
(* interruption.                                                           *)
THEOREM PlainBoundedHolds == RotationSpec => []PlainBounded
<1>1. RotationInit => PlainIndInv
  <2> SUFFICES ASSUME RotationInit PROVE PlainInv
    BY InitRotationTypes, InitNumbers DEF PlainIndInv
  <2>1. DOMAIN plain = {} /\ Pending = {} /\ Written = {} /\ failed = 0
    BY DEF RotationInit, Pending, Written
  <2>2. Below(DOMAIN plain, Pointer(stored)) = {} /\ From(DOMAIN plain, Pointer(stored)) = {}
    BY <2>1 DEF Below, From
  <2>3. Outside(Pointer(stored), Pointer(stored)) = 0
    BY <2>2, FS_EmptySet DEF Outside
  <2> QED BY <2>1, <2>3 DEF PlainInv, PlainIdle
<1>2. PlainIndInv /\ [RotationNext]_rotationVars => PlainIndInv'
  <2> SUFFICES ASSUME PlainIndInv, [RotationNext]_rotationVars PROVE PlainIndInv'
    OBVIOUS
  <2>1. RotationTypes' /\ (trusted' => IndexFile')
    BY NextRotationTypes, NextIndexFile DEF PlainIndInv
  <2>2. trusted' => trusted
    BY StaysUntrusted
  <2>3. trusted' => PlainInv'
    BY <2>1, <2>2, NextPlainInv DEF PlainIndInv
  <2> QED BY <2>1, <2>3 DEF PlainIndInv
<1>3. PlainIndInv => PlainBounded
  BY PlainInvBounds DEF PlainIndInv, PlainBounded
<1> QED BY <1>1, <1>2, <1>3, PTL DEF RotationSpec

-----------------------------------------------------------------------------
(* How many backups are lost *)

(* Indices with a backup of either kind. *)
Numbered == DOMAIN plain \cup DOMAIN tgz

(* Indices with two backups, or one that rm is about to remove. *)
AtRisk == {i \in DOMAIN plain \cap DOMAIN tgz : plain[i] # tgz[i]} \cup (packing \ DOMAIN tgz)

(* What the interruptions have cost so far. *)
Spent == lost + Cardinality(AtRisk)

(* What is a backup, before a step and after it. *)
LEMMA InBackups ==
    \A g : g \in Backups <=> \/ \E i \in DOMAIN plain : g = plain[i]
                             \/ \E i \in DOMAIN tgz : g = tgz[i]
BY DEF Backups

LEMMA InBackupsNext ==
    \A g : g \in Backups' <=> \/ \E i \in DOMAIN plain' : g = plain'[i]
                              \/ \E i \in DOMAIN tgz' : g = tgz'[i]
BY DEF Backups

LEMMA RiskFinite ==
    ASSUME RotationTypes
    PROVE  /\ IsFiniteSet(AtRisk) /\ Cardinality(AtRisk) \in Nat
           /\ IsFiniteSet(Numbered) /\ Numbered \subseteq Nat
<1>1. /\ IsFiniteSet(DOMAIN plain) /\ IsFiniteSet(DOMAIN tgz) /\ IsFiniteSet(packing)
      /\ Numbered \subseteq Nat
  BY DEF RotationTypes, RotationTypeOK, Finite, Numbered
<1>2. IsFiniteSet(DOMAIN plain \cup packing) /\ IsFiniteSet(Numbered)
  BY <1>1, FS_Union DEF Numbered
<1>3. AtRisk \subseteq DOMAIN plain \cup packing
  BY DEF AtRisk
<1> QED BY <1>1, <1>2, <1>3, PartFinite

LEMMA RiskFiniteNext ==
    ASSUME RotationTypes'
    PROVE  /\ IsFiniteSet(AtRisk') /\ Cardinality(AtRisk') \in Nat
           /\ IsFiniteSet(Numbered') /\ Numbered' \subseteq Nat
<1>1. /\ IsFiniteSet(DOMAIN plain') /\ IsFiniteSet(DOMAIN tgz') /\ IsFiniteSet(packing')
      /\ Numbered' \subseteq Nat
  BY DEF RotationTypes, RotationTypeOK, Finite, Numbered
<1>2. IsFiniteSet(DOMAIN plain' \cup packing') /\ IsFiniteSet(Numbered')
  BY <1>1, FS_Union DEF Numbered
<1>3. AtRisk' \subseteq DOMAIN plain' \cup packing'
  BY DEF AtRisk
<1> QED BY <1>1, <1>2, <1>3, PartFinite

(* Nothing but excess goes, or one more backup does. *)
LEMMA NoneGone ==
    ASSUME RotationTypes, NEW excess, Loses(excess),
           \A b \in Backups : b \in Backups' \/ b \in excess
    PROVE  lost' = lost
<1>1. Backups \ (Backups' \cup excess) = {}
  OBVIOUS
<1>2. lost' = lost + 0
  BY <1>1, FS_EmptySet DEF Loses
<1> QED BY <1>2 DEF RotationTypes, RotationTypeOK

LEMMA OneGone ==
    ASSUME RotationTypes, NEW excess, Loses(excess), NEW g,
           \A b \in Backups : b \in Backups' \/ b \in excess \/ b = g
    PROVE  \/ lost' = lost /\ \A b \in Backups : b \in Backups' \/ b \in excess
           \/ lost' = lost + 1 /\ g \in Backups /\ g \notin Backups'
<1>1. CASE \A b \in Backups : b \in Backups' \/ b \in excess
  BY <1>1, NoneGone
<1>2. CASE \E b \in Backups : ~(b \in Backups' \/ b \in excess)
  <2>1. Backups \ (Backups' \cup excess) = {g} /\ g \in Backups /\ g \notin Backups'
    BY <1>2
  <2>2. Cardinality({g}) = 1
    BY FS_Singleton
  <2> QED BY <2>1, <2>2 DEF Loses
<1> QED BY <1>1, <1>2

(* What is lost was at risk. *)
LEMMA RiskSpent ==
    ASSUME RotationTypes, RotationTypes', NEW i, AtRisk' \subseteq AtRisk \ {i},
           \/ lost' = lost
           \/ lost' = lost + 1 /\ i \in AtRisk
    PROVE  Spent' <= Spent
<1>1. lost \in Nat /\ lost' \in Nat
  BY DEF RotationTypes, RotationTypeOK
<1>2. IsFiniteSet(AtRisk) /\ Cardinality(AtRisk) \in Nat
  BY RiskFinite
<1>3. /\ IsFiniteSet(AtRisk \ {i})
      /\ Cardinality(AtRisk \ {i}) = IF i \in AtRisk THEN Cardinality(AtRisk) - 1
                                                     ELSE Cardinality(AtRisk)
  BY <1>2, FS_RemoveElement
<1>4. Cardinality(AtRisk') \in Nat /\ Cardinality(AtRisk') <= Cardinality(AtRisk \ {i})
  BY <1>3, PartFinite
<1>5. PICK r, r1, r2 \in Nat : /\ r = Cardinality(AtRisk) /\ r1 = Cardinality(AtRisk')
                               /\ r2 = Cardinality(AtRisk \ {i})
  BY <1>2, <1>3, <1>4, FS_CardinalityType
<1>6. r1 <= r2 /\ r2 = IF i \in AtRisk THEN r - 1 ELSE r
  BY <1>3, <1>4, <1>5
<1>7. lost' + r1 <= lost + r
  <2>1. CASE i \in AtRisk
    <3>1. r1 + 1 <= r
      BY <1>6, <2>1
    <3>2. PICK a, b \in Nat : a = lost /\ b = lost' /\ b <= a + 1
      BY <1>1
    <3>3. b <= a + 1
      BY <3>2
    <3>4. b + r1 <= a + r
      BY <3>1, <3>3
    <3> QED BY <3>2, <3>4
  <2>2. CASE i \notin AtRisk
    <3>1. r1 <= r /\ lost' = lost
      BY <1>6, <2>2
    <3> QED BY <1>1, <3>1
  <2> QED BY <2>1, <2>2
<1> QED BY <1>5, <1>7 DEF Spent

(* One is lost, or at risk. *)
LEMMA RiskOne ==
    ASSUME RotationTypes, RotationTypes', NEW i,
           \/ lost' = lost /\ AtRisk' \subseteq AtRisk \cup {i}
           \/ lost' \in {lost, lost + 1} /\ AtRisk' \subseteq AtRisk
    PROVE  Spent' <= Spent + 1
<1>1. lost \in Nat /\ lost' \in Nat
  BY DEF RotationTypes, RotationTypeOK
<1>2. IsFiniteSet(AtRisk)
  BY RiskFinite
<1>3. PICK r \in Nat : r = Cardinality(AtRisk)
  BY RiskFinite
<1>4. CASE lost' = lost /\ AtRisk' \subseteq AtRisk \cup {i}
  <2>1. Cardinality(AtRisk') \in Nat /\ Cardinality(AtRisk') <= r + 1
    <3>1. Cardinality(AtRisk) <= r
      BY <1>3
    <3> QED BY <1>2, <1>4, <3>1, OneMore
  <2> QED BY <1>1, <1>3, <1>4, <2>1 DEF Spent
<1>5. CASE lost' \in {lost, lost + 1} /\ AtRisk' \subseteq AtRisk
  <2>1. Cardinality(AtRisk') \in Nat /\ Cardinality(AtRisk') <= r
    BY <1>2, <1>3, <1>5, PartFinite
  <2> QED BY <1>1, <1>3, <1>5, <2>1 DEF Spent
<1> QED BY <1>4, <1>5

-----------------------------------------------------------------------------
(* What each step loses: at most one backup, and what was not at risk is   *)
(* paid for.                                                               *)

LEMMA RenameLoses ==
    ASSUME RotationTypes, RotationTypes', NEW p \in Nat, Rename(p), file # "none", packing' = packing
    PROVE  /\ made' = made + 1 /\ Numbered' = Numbered \cup {p}
           /\ \A i \in DOMAIN plain' : i # p => i \in DOMAIN plain /\ plain'[i] = plain[i]
           /\ made \in Backups' /\ \A g \in Backups' : g \in Backups \/ g = made
           /\ Loses({})
           /\ \E g : \/ lost' = lost /\ \A b \in Backups : b \in Backups'
                     \/ /\ lost' = lost + 1 /\ g \in Backups /\ g \notin Backups'
                        /\ \A b \in Backups : b \in Backups' \/ b = g
           /\ p \notin Numbered => Spent' <= Spent
           /\ Spent' <= Spent + 1
<1>1. /\ made' = made + 1 /\ tgz' = tgz
      /\ DOMAIN plain' = DOMAIN plain \cup {p}
      /\ \A i \in DOMAIN plain' : plain'[i] = IF i = p THEN made ELSE plain[i]
      /\ Loses({})
  BY Renamed
<1>2. made \in Backups' /\ \A g \in Backups' : g \in Backups \/ g = made
  BY <1>1, InBackups, InBackupsNext
<1>3. \A b \in Backups : b \in Backups' \/ (p \in DOMAIN plain /\ b = plain[p])
  BY <1>1, InBackups, InBackupsNext
<1>4. \/ lost' = lost /\ \A b \in Backups : b \in Backups'
      \/ lost' = lost + 1 /\ plain[p] \in Backups /\ plain[p] \notin Backups'
  BY <1>1, <1>3, OneGone
<1>5. \A i \in AtRisk' : i # p => i \in AtRisk
  BY <1>1 DEF AtRisk
<1>6. p \notin Numbered => Spent' <= Spent
  <2> SUFFICES ASSUME p \notin Numbered
               PROVE  Spent' <= Spent
    OBVIOUS
  <2>1. \A b \in Backups : b \in Backups'
    BY <1>3 DEF Numbered
  <2>2. lost' = lost
    BY <1>1, <2>1, NoneGone
  <2>3. AtRisk' \subseteq AtRisk
    <3>1. p \in AtRisk' => p \in AtRisk
      BY <1>1 DEF AtRisk, Numbered
    <3> QED BY <1>5, <3>1
  <2>4. /\ Cardinality(AtRisk') \in Nat /\ Cardinality(AtRisk) \in Nat
        /\ Cardinality(AtRisk') <= Cardinality(AtRisk)
    BY <2>3, RiskFinite, PartFinite
  <2> QED BY <2>2, <2>4 DEF Spent, RotationTypes, RotationTypeOK
<1>7. Spent' <= Spent + 1
  <2>1. CASE p \in DOMAIN plain /\ (p \notin DOMAIN tgz \/ p \in AtRisk)
    <3>1. p \in AtRisk' => p \in AtRisk
      BY <1>1, <2>1 DEF AtRisk
    <3> QED BY <1>4, <1>5, <3>1, RiskOne
  <2>2. CASE p \notin DOMAIN plain \/ (p \in DOMAIN tgz /\ p \notin AtRisk)
    <3>1. p \in DOMAIN plain => p \in DOMAIN tgz /\ plain[p] = tgz[p]
      BY <2>2 DEF AtRisk
    <3>2. \A b \in Backups : b \in Backups'
      BY <1>1, <1>3, <3>1, InBackupsNext
    <3>3. lost' = lost
      BY <1>1, <3>2, NoneGone
    <3> QED BY <1>5, <3>3, RiskOne
  <2> QED BY <2>1, <2>2
<1> QED BY <1>1, <1>2, <1>3, <1>4, <1>6, <1>7 DEF Numbered

LEMMA TarLoses ==
    ASSUME RotationTypes, RotationTypes', NEW i, PackTar(i)
    PROVE  /\ made' = made /\ plain' = plain /\ failed' = failed /\ Numbered' = Numbered
           /\ \A g \in Backups' : g \in Backups
           /\ \E g : \/ lost' = lost /\ \A b \in Backups : b \in Backups'
                     \/ /\ lost' = lost + 1 /\ g \in Backups /\ g \notin Backups'
                        /\ \A b \in Backups : b \in Backups' \/ b = g
           /\ Spent' <= Spent
<1>1. /\ i \in DOMAIN plain /\ plain' = plain /\ made' = made /\ failed' = failed
      /\ DOMAIN tgz' = DOMAIN tgz \cup {i}
      /\ \A j \in DOMAIN tgz' : tgz'[j] = IF j = i THEN plain[i] ELSE tgz[j]
      /\ packing = {} /\ packing' = {i} /\ Loses({})
  BY DEF PackTar
<1>2. \A g \in Backups' : g \in Backups
  BY <1>1, InBackups, InBackupsNext
<1>3. \A b \in Backups : b \in Backups' \/ (i \in AtRisk /\ b = tgz[i])
  BY <1>1, InBackups, InBackupsNext DEF AtRisk
<1>4. AtRisk' \subseteq AtRisk \ {i}
  BY <1>1 DEF AtRisk
<1>5. \/ lost' = lost /\ \A b \in Backups : b \in Backups'
      \/ lost' = lost + 1 /\ tgz[i] \in Backups /\ tgz[i] \notin Backups'
  BY <1>1, <1>3, OneGone
<1>6. Spent' <= Spent
  <2>1. CASE lost' = lost
    BY <1>4, <2>1, RiskSpent
  <2>2. CASE lost' = lost + 1 /\ tgz[i] \in Backups /\ tgz[i] \notin Backups'
    BY <1>3, <1>4, <2>2, RiskSpent
  <2> QED BY <1>5, <2>1, <2>2
<1> QED BY <1>1, <1>2, <1>3, <1>5, <1>6 DEF Numbered

LEMMA TarFailsLoses ==
    ASSUME RotationTypes, RotationTypes', NEW i, PackTarFails(i)
    PROVE  /\ made' = made /\ plain' = plain /\ failed' = failed + 1 /\ Numbered' = Numbered
           /\ \A g \in Backups' : g \in Backups
           /\ \E g : \/ lost' = lost /\ \A b \in Backups : b \in Backups'
                     \/ /\ lost' = lost + 1 /\ g \in Backups /\ g \notin Backups'
                        /\ \A b \in Backups : b \in Backups' \/ b = g
           /\ Spent' <= Spent + 1
<1>1. /\ i \in DOMAIN plain /\ plain' = plain /\ made' = made /\ failed' = failed + 1
      /\ DOMAIN tgz' = DOMAIN tgz \ {i}
      /\ \A j \in DOMAIN tgz' : tgz'[j] = tgz[j]
      /\ packing = {} /\ packing' = {i} /\ Loses({})
  BY DEF PackTarFails
<1>2. \A g \in Backups' : g \in Backups
  BY <1>1, InBackups, InBackupsNext
<1>3. \A b \in Backups : b \in Backups' \/ (i \in AtRisk /\ b = tgz[i])
  BY <1>1, InBackups, InBackupsNext DEF AtRisk
<1>4. AtRisk' \subseteq AtRisk \cup {i}
  BY <1>1 DEF AtRisk
<1>5. \/ lost' = lost /\ \A b \in Backups : b \in Backups'
      \/ lost' = lost + 1 /\ tgz[i] \in Backups /\ tgz[i] \notin Backups'
  BY <1>1, <1>3, OneGone
<1>6. Spent' <= Spent + 1
  <2>1. CASE lost' = lost
    BY <1>4, <2>1, RiskOne
  <2>2. CASE lost' = lost + 1 /\ tgz[i] \in Backups /\ tgz[i] \notin Backups'
    <3>1. i \in AtRisk
      BY <1>3, <2>2
    <3> QED BY <1>4, <2>2, <3>1, RiskOne
  <2> QED BY <1>5, <2>1, <2>2
<1> QED BY <1>1, <1>2, <1>3, <1>5, <1>6 DEF Numbered

LEMMA RmLoses ==
    ASSUME RotationTypes, RotationTypes', NEW i, PackRm(i)
    PROVE  /\ made' = made /\ tgz' = tgz /\ failed' = failed
           /\ DOMAIN plain' = DOMAIN plain \ {i}
           /\ \A j \in DOMAIN plain' : plain'[j] = plain[j]
           /\ \A g \in Backups' : g \in Backups
           /\ Loses({})
           /\ \E g : \/ lost' = lost /\ \A b \in Backups : b \in Backups'
                     \/ /\ lost' = lost + 1 /\ g \in Backups /\ g \notin Backups'
                        /\ \A b \in Backups : b \in Backups' \/ b = g
           /\ Spent' <= Spent
<1>1. /\ i \in packing /\ packing' = {} /\ tgz' = tgz /\ made' = made /\ failed' = failed
      /\ DOMAIN plain' = DOMAIN plain \ {i}
      /\ \A j \in DOMAIN plain' : plain'[j] = plain[j]
      /\ Loses({})
  BY DEF PackRm
<1>2. \A g \in Backups' : g \in Backups
  BY <1>1, InBackups, InBackupsNext
<1>3. \A b \in Backups : b \in Backups' \/ (i \in AtRisk /\ b = plain[i])
  BY <1>1, InBackups, InBackupsNext DEF AtRisk
<1>4. AtRisk' \subseteq AtRisk \ {i}
  BY <1>1 DEF AtRisk
<1>5. \/ lost' = lost /\ \A b \in Backups : b \in Backups'
      \/ lost' = lost + 1 /\ plain[i] \in Backups /\ plain[i] \notin Backups'
  BY <1>1, <1>3, OneGone
<1>6. Spent' <= Spent
  <2>1. CASE lost' = lost
    BY <1>4, <2>1, RiskSpent
  <2>2. CASE lost' = lost + 1 /\ plain[i] \in Backups /\ plain[i] \notin Backups'
    BY <1>3, <1>4, <2>2, RiskSpent
  <2> QED BY <1>5, <2>1, <2>2
<1> QED BY <1>1, <1>2, <1>3, <1>5, <1>6

-----------------------------------------------------------------------------
(* How the pointers bound what is lost *)

(* The backups that the next rotations would overwrite. *)
Ahead(x) == Cardinality(From(Numbered, x))

(* The backups before x are not much older than their indices say. *)
Late(q, x, e) == \A i \in DOMAIN plain : i < x => q + plain[i] <= i + made + e

(* As above there is an index x, the stored pointer or the one filled      *)
(* first; e counts the indices left free for good.  All this, and who is   *)
(* on his way to overwrite something, was paid for by interruptions.       *)
LossIdle(e) ==
    /\ Pending = {} /\ Written = {}
    /\ Late(Pointer(stored), Pointer(stored), e)
    /\ Spent + e + Ahead(Pointer(stored)) <= failed

LossFresh(e) ==
    /\ Pending # {} /\ Written = {} /\ file = "large"
    /\ \A q \in Pointers : q = Pointer(stored)
    /\ Late(Pointer(stored), Pointer(stored), e)
    /\ Spent + e + Ahead(Pointer(stored)) + Cardinality(Pending) <= failed + 1

LossPassed(x, e) ==
    /\ Pending # {} \/ Written # {}
    /\ \A q \in Pointers : /\ x <= q
                           /\ Cardinality(Gap(x, q) \ Numbered) <= e
                           /\ Late(q, x, e)
    /\ \A q \in Written : x < q
    /\ Spent + e + Ahead(x + 1) + Cardinality(Pending) <= failed

LossAt(e) == LossIdle(e) \/ LossFresh(e) \/ \E x \in Nat : LossPassed(x, e)

LEMMA LossTypes ==
    ASSUME RotationTypes
    PROVE  /\ Spent \in Nat /\ failed \in Nat /\ Cardinality(Pending) \in Nat
           /\ \A x : Ahead(x) \in Nat
<1>1. lost \in Nat /\ failed \in Nat
  BY DEF RotationTypes, RotationTypeOK
<1>2. Cardinality(AtRisk) \in Nat
  BY RiskFinite
<1>3. Spent \in Nat
  BY <1>1, <1>2 DEF Spent
<1>4. ASSUME NEW x PROVE Ahead(x) \in Nat
  BY RiskFinite, FromFinite DEF Ahead
<1> QED BY <1>1, <1>3, <1>4, PendingCount

(* A step that keeps the backups' indices and who follows which pointer,   *)
(* and pays for what it costs.                                             *)
LEMMA LossSteady ==
    ASSUME RotationTypes, RotationTypes', NEW e \in Nat, LossAt(e),
           plain' = plain, made' = made, Numbered' = Numbered, stored' = stored,
           file = "large" => file' = "large",
           Pending' = Pending, Pointers' \subseteq Pointers, Written' = Written,
           Spent' + failed <= Spent + failed'
    PROVE  LossAt(e)'
<1>1. PICK a, a1, f, f1, n \in Nat : /\ a = Spent /\ a1 = Spent' /\ f = failed /\ f1 = failed'
                                     /\ n = Cardinality(Pending)
  <2>1. Spent' \in Nat /\ failed' \in Nat
    <3>1. lost' \in Nat /\ failed' \in Nat /\ IsFiniteSet(AtRisk')
      BY RiskFiniteNext DEF RotationTypes, RotationTypeOK
    <3>2. Cardinality(AtRisk') \in Nat
      BY <3>1, FS_CardinalityType
    <3> QED BY <3>1, <3>2 DEF Spent
  <2> QED BY <2>1, LossTypes
<1>2. a1 + f <= a + f1
  BY <1>1
<1>3. /\ Pointer(stored)' = Pointer(stored)
      /\ \A x : Ahead(x)' = Ahead(x) /\ Ahead(x) \in Nat
      /\ \A q, x : Late(q, x, e)' = Late(q, x, e)
  <2>1. \A x : Ahead(x)' = Ahead(x)
    BY DEF Ahead
  <2>2. \A q, x : Late(q, x, e)' = Late(q, x, e)
    BY DEF Late
  <2> QED BY <2>1, <2>2, LossTypes
<1>4. ASSUME NEW k \in Nat, a + e + k + n <= f PROVE a1 + e + k + n <= f1
  BY <1>2, <1>4
<1>5. ASSUME NEW k \in Nat, a + e + k + n <= f + 1 PROVE a1 + e + k + n <= f1 + 1
  BY <1>2, <1>5
<1>6. ASSUME NEW k \in Nat, a + e + k <= f PROVE a1 + e + k <= f1
  BY <1>2, <1>6
<1>7. CASE LossIdle(e)
  <2>1. PICK k \in Nat : k = Ahead(Pointer(stored))
    BY <1>3
  <2>2. a1 + e + k <= f1
    BY <1>1, <1>6, <1>7, <2>1 DEF LossIdle
  <2>3. LossIdle(e)'
    BY <1>1, <1>3, <1>7, <2>1, <2>2 DEF LossIdle
  <2> QED BY <2>3 DEF LossAt
<1>8. CASE LossFresh(e)
  <2>1. PICK k \in Nat : k = Ahead(Pointer(stored))
    BY <1>3
  <2>2. a1 + e + k + n <= f1 + 1
    BY <1>1, <1>5, <1>8, <2>1 DEF LossFresh
  <2>3. LossFresh(e)'
    BY <1>1, <1>3, <1>8, <2>1, <2>2 DEF LossFresh
  <2> QED BY <2>3 DEF LossAt
<1>9. ASSUME NEW x \in Nat, LossPassed(x, e) PROVE LossAt(e)'
  <2>1. PICK k \in Nat : k = Ahead(x + 1)
    BY <1>3
  <2>2. a1 + e + k + n <= f1
    BY <1>1, <1>4, <1>9, <2>1 DEF LossPassed
  <2>3. LossPassed(x, e)'
    BY <1>1, <1>3, <1>9, <2>1, <2>2 DEF LossPassed
  <2> QED BY <2>3 DEF LossAt
<1> QED BY <1>7, <1>8, <1>9 DEF LossAt

LEMMA LossTypesNext ==
    ASSUME RotationTypes'
    PROVE  /\ Spent' \in Nat /\ failed' \in Nat
           /\ \A x : Ahead(x)' \in Nat
<1>1. lost' \in Nat /\ failed' \in Nat
  BY DEF RotationTypes, RotationTypeOK
<1>2. Spent' \in Nat
  BY <1>1, RiskFiniteNext DEF Spent
<1>3. ASSUME NEW x PROVE Ahead(x)' \in Nat
  BY RiskFiniteNext, FromFinite DEF Ahead
<1> QED BY <1>1, <1>2, <1>3

(* Nothing changes for the files. *)
LEMMA SameLoss ==
    ASSUME Same
    PROVE  /\ Spent' = Spent /\ Numbered' = Numbered
           /\ \A x : Ahead(x)' = Ahead(x)
           /\ \A q, x, e : Late(q, x, e)' = Late(q, x, e)
<1>1. Numbered' = Numbered /\ AtRisk' = AtRisk /\ lost' = lost
  BY DEF Same, Numbered, AtRisk
<1>2. \A q, x, e : Late(q, x, e)' = Late(q, x, e)
  BY DEF Same, Late
<1> QED BY <1>1, <1>2 DEF Spent, Ahead

(* One more caller, who is paid for unless he is alone. *)
LEMMA LossEnter ==
    ASSUME RotationTypes, RotationTypes', NEW e \in Nat, LossAt(e),
           NEW c \in Callers, FindsLarge(c)
    PROVE  LossAt(e)'
<1>1. /\ Pointer(stored)' = Pointer(stored) /\ Spent' = Spent
      /\ \A x : Ahead(x)' = Ahead(x)
      /\ \A q, x : Late(q, x, e)' = Late(q, x, e)
      /\ file' = "large" /\ Pointers' = Pointers /\ Written' = Written /\ Numbered' = Numbered
  BY EnterView, SameLoss
<1>2. PICK a, f, n \in Nat : /\ a = Spent /\ f = failed /\ n = Cardinality(Pending)
                             /\ Cardinality(Pending') = n + 1
  BY LossTypes, EnterView, PendingMore
<1>3. Pending' # {}
  BY EnterView
<1>4. CASE LossIdle(e)
  <2>1. failed' = f /\ Pending = {} /\ Written = {}
    BY <1>2, <1>4, EnterView DEF LossIdle
  <2>2. Pointers = {Pointer(stored)}
    BY <2>1 DEF Pointers, Pending, Written, Holds
  <2>3. n = 0
    BY <1>2, <2>1, FS_EmptySet
  <2>4. PICK k \in Nat : k = Ahead(Pointer(stored))
    BY LossTypes
  <2>5. a + e + k <= f
    BY <1>2, <1>4, <2>4 DEF LossIdle
  <2>6. a + e + k + (n + 1) <= f + 1
    BY <2>3, <2>5
  <2>7. Late(Pointer(stored), Pointer(stored), e)
    BY <1>4 DEF LossIdle
  <2>8. LossFresh(e)'
    BY <1>1, <1>2, <1>3, <2>1, <2>2, <2>4, <2>6, <2>7 DEF LossFresh
  <2> QED BY <2>8 DEF LossAt
<1>5. CASE LossFresh(e)
  <2>1. failed' = f + 1
    BY <1>2, <1>5, EnterView DEF LossFresh
  <2>2. PICK k \in Nat : k = Ahead(Pointer(stored))
    BY LossTypes
  <2>3. a + e + k + n <= f + 1
    BY <1>2, <1>5, <2>2 DEF LossFresh
  <2>4. a + e + k + (n + 1) <= (f + 1) + 1
    BY <2>3
  <2>5. LossFresh(e)'
    BY <1>1, <1>2, <1>3, <1>5, <2>1, <2>2, <2>4 DEF LossFresh
  <2> QED BY <2>5 DEF LossAt
<1>6. ASSUME NEW x \in Nat, LossPassed(x, e) PROVE LossAt(e)'
  <2>1. failed' = f + 1
    BY <1>2, <1>6, EnterView DEF LossPassed
  <2>2. PICK k \in Nat : k = Ahead(x + 1)
    BY LossTypes
  <2>3. a + e + k + n <= f
    BY <1>2, <1>6, <2>2 DEF LossPassed
  <2>4. a + e + k + (n + 1) <= f + 1
    BY <2>3
  <2>5. LossPassed(x, e)'
    BY <1>1, <1>2, <1>3, <1>6, <2>1, <2>2, <2>4 DEF LossPassed
  <2> QED BY <2>5 DEF LossAt
<1> QED BY <1>4, <1>5, <1>6 DEF LossAt

(* The last one leaves: what is ahead of x but behind q has been skipped. *)
LEMMA LossLeaves ==
    ASSUME RotationTypes, Earlier, NEW x \in Nat, NEW e \in Nat, LossPassed(x, e),
           NEW q \in Pointers
    PROVE  \E h \in Nat : /\ e <= h /\ Late(q, q, h)
                          /\ Spent + h + Ahead(q) <= failed + (IF q = x THEN 1 ELSE 0)
<1>1. /\ q \in Nat /\ IsFiniteSet(Numbered) /\ Numbered \subseteq Nat
      /\ made \in Nat /\ \A i \in DOMAIN plain : plain[i] \in Nat /\ plain[i] < made /\ i \in Nat
  BY PointerTypes, RiskFinite DEF RotationTypes, RotationTypeOK, Earlier
<1>2. PICK a, f, n, k, kq \in Nat :
         /\ a = Spent /\ f = failed /\ n = Cardinality(Pending)
         /\ k = Ahead(x + 1) /\ kq = Ahead(q)
  BY LossTypes
<1>3. a + e + k + n <= f
  BY <1>2 DEF LossPassed
<1>4. x <= q /\ Late(q, x, e) /\ Cardinality(Gap(x, q) \ Numbered) <= e
  BY DEF LossPassed
<1>5. CASE q = x
  <2>0. Ahead(x) = Ahead(x + 1) + (IF x \in Numbered THEN 1 ELSE 0)
    BY <1>1, FromOne DEF Ahead
  <2>1. kq <= k + 1
    BY <1>2, <1>5, <2>0
  <2>2. a + e + kq <= f + 1
    BY <1>3, <2>1
  <2>3. Late(q, q, e)
    BY <1>4, <1>5
  <2> QED BY <1>2, <1>5, <2>2, <2>3
<1>6. CASE x < q
  <2>1. PICK g, h \in Nat : /\ g = Cardinality(Gap(x, q) \cap Numbered)
                            /\ h = Cardinality(Gap(x, q) \ Numbered)
                            /\ q = x + 1 + g + h
    <3>1. /\ Cardinality(Gap(x, q) \cap Numbered) \in Nat
          /\ Cardinality(Gap(x, q) \ Numbered) \in Nat
          /\ q = x + 1 + Cardinality(Gap(x, q) \cap Numbered) + Cardinality(Gap(x, q) \ Numbered)
      BY <1>1, <1>6, GapParts
    <3> QED BY <3>1
  <2>2. k = g + kq
    <3>1. Ahead(x + 1) = Cardinality(Gap(x, q) \cap Numbered) + Ahead(q)
      BY <1>1, <1>6, FromSplit DEF Ahead
    <3> QED BY <1>2, <2>1, <3>1
  <2>3. h <= e
    BY <1>4, <2>1
  <2>4. a + (e + g) + kq <= f
    BY <1>3, <2>2
  <2>5. ASSUME NEW i \in DOMAIN plain, i < q PROVE q + plain[i] <= i + made + (e + g)
    <3>1. PICK j, p, m \in Nat : j = i /\ p = plain[i] /\ m = made /\ p + 1 <= m
      BY <1>1
    <3>2. CASE j < x
      <4>1. q + p <= j + m + e
        BY <1>4, <3>1, <3>2 DEF Late
      <4>2. q + p <= j + m + (e + g)
        BY <1>1, <4>1
      <4> QED BY <3>1, <4>2
    <3>3. CASE x <= j
      <4>1. p + 1 <= m
        BY <3>1
      <4>2. q <= j + 1 + g + e
        BY <2>1, <2>3, <3>3
      <4>3. q + p <= j + m + (e + g)
        BY <1>1, <4>1, <4>2
      <4> QED BY <3>1, <4>3
    <3> QED BY <3>1, <3>2, <3>3
  <2>6. Late(q, q, e + g)
    BY <2>5 DEF Late
  <2>7. e + g \in Nat /\ e <= e + g
    OBVIOUS
  <2>8. Spent + (e + g) + Ahead(q) <= failed + 0
    BY <1>2, <2>4
  <2> QED BY <1>6, <2>6, <2>7, <2>8
<1>7. x = q \/ x < q
  BY <1>1, <1>4
<1> QED BY <1>5, <1>6, <1>7

(* A pointer is stored; with the last caller the rotation is over. *)
LEMMA LossWrite ==
    ASSUME RotationTypes, RotationTypes', Earlier, NEW e \in Nat, LossAt(e),
           NEW c \in Callers, WriteLogInfo(c) \/ WriteLogInfoFails(c)
    PROVE  \E h \in Nat : e <= h /\ LossAt(h)'
<1>1. /\ Pending' = Pending /\ Pointers' \subseteq Pointers
      /\ Written' \subseteq Written /\ Written # {}
      /\ \/ Pointer(stored') \in Written /\ failed' = failed
         \/ stored' = stored /\ failed' = failed + 1
  BY WriteView
<1>2. /\ Spent' = Spent /\ Numbered' = Numbered
      /\ \A x : Ahead(x)' = Ahead(x)
      /\ \A q, x, h : Late(q, x, h)' = Late(q, x, h)
  BY WriteView, SameLoss
<1>3. PICK s \in Nat : s = Pointer(stored') /\ s \in Pointers
  <2>1. Pointer(stored') \in Pointers'
    BY DEF Pointers
  <2> QED BY <1>1, <2>1, PointerTypes
<1>4. PICK x \in Nat : LossPassed(x, e)
  BY <1>1 DEF LossAt, LossIdle, LossFresh
<1>5. PICK a, f, n, k \in Nat : /\ a = Spent /\ f = failed /\ n = Cardinality(Pending)
                                /\ k = Ahead(x + 1)
  BY LossTypes
<1>6. CASE Pending # {} \/ Written' # {}
  <2>1. a + e + k + n <= f
    BY <1>4, <1>5 DEF LossPassed
  <2>2. failed' \in {f, f + 1}
    BY <1>1, <1>5
  <2>3. a + e + k + n <= failed'
    BY <2>1, <2>2
  <2>4. Spent' + e + Ahead(x + 1)' + Cardinality(Pending') <= failed'
    BY <1>1, <1>2, <1>5, <2>3
  <2>5. LossPassed(x, e)'
    BY <1>1, <1>2, <1>4, <1>6, <2>4 DEF LossPassed
  <2>6. LossAt(e)' /\ e <= e
    BY <2>5 DEF LossAt
  <2> QED BY <2>6
<1>7. CASE Pending = {} /\ Written' = {}
  <2>1. PICK h \in Nat : /\ e <= h /\ Late(s, s, h)
                         /\ Spent + h + Ahead(s) <= failed + (IF s = x THEN 1 ELSE 0)
    BY <1>3, <1>4, LossLeaves
  <2>2. failed' = failed + 1 \/ (failed' = failed /\ s # x)
    BY <1>1, <1>3, <1>4 DEF LossPassed
  <2>3. PICK kq \in Nat : kq = Ahead(s)
    BY LossTypes
  <2>4. a + h + kq <= f + (IF s = x THEN 1 ELSE 0)
    BY <1>5, <2>1, <2>3
  <2>5. failed' = f + 1 \/ (failed' = f /\ s # x)
    BY <1>5, <2>2
  <2>6. a + h + kq <= failed'
    BY <2>4, <2>5
  <2>7. Spent' + h + Ahead(s)' <= failed'
    BY <1>2, <1>5, <2>3, <2>6
  <2>8. Late(s, s, h)'
    BY <1>2, <2>1
  <2>9. LossIdle(h)'
    BY <1>1, <1>3, <1>7, <2>7, <2>8 DEF LossIdle
  <2> QED BY <2>1, <2>9 DEF LossAt
<1> QED BY <1>6, <1>7

(* The process ends, and x is the stored pointer again. *)
LEMMA LossEnd ==
    ASSUME RotationTypes, RotationTypes', Earlier, NEW e \in Nat, LossAt(e), ProcessEnds
    PROVE  \E h \in Nat : e <= h /\ LossAt(h)'
<1>1. /\ UNCHANGED <<made, plain, tgz, lost, stored>> /\ failed' = failed + 1
      /\ Pending' = {} /\ Written' = {} /\ Pointers' = {Pointer(stored)} /\ packing' = {}
  BY EndView
<1> DEFINE s == Pointer(stored)
<1>2. /\ \A x : Ahead(x)' = Ahead(x)
      /\ \A q, x, h : Late(q, x, h)' = Late(q, x, h)
  BY <1>1 DEF Ahead, Numbered, Late
<1>3. AtRisk' \subseteq AtRisk
  BY <1>1 DEF AtRisk
<1>4. PICK a, a1, f, n, k \in Nat : /\ a = Spent /\ a1 = Spent' /\ f = failed
                                    /\ n = Cardinality(Pending) /\ k = Ahead(s)
  BY LossTypes, LossTypesNext
<1>5. a1 <= a
  <2>1. PICK u, v, l \in Nat : u = Cardinality(AtRisk) /\ v = Cardinality(AtRisk') /\ l = lost
    BY RiskFinite, RiskFiniteNext DEF RotationTypes, RotationTypeOK
  <2>2. v <= u
    BY <1>3, <2>1, RiskFinite, PartFinite
  <2>3. a = l + u /\ a1 = l + v
    BY <1>1, <1>4, <2>1 DEF Spent
  <2> QED BY <2>2, <2>3
<1>6. PICK h \in Nat : e <= h /\ Late(s, s, h) /\ a + h + k <= f + 1
  <2>1. CASE LossIdle(e)
    <3>1. Late(s, s, e) /\ a + e + k <= f
      BY <1>4, <2>1 DEF LossIdle
    <3>2. a + e + k <= f + 1
      BY <3>1
    <3> QED BY <3>1, <3>2
  <2>2. CASE LossFresh(e)
    <3>1. Late(s, s, e) /\ a + e + k + n <= f + 1
      BY <1>4, <2>2 DEF LossFresh
    <3>2. a + e + k <= f + 1
      BY <3>1
    <3> QED BY <3>1, <3>2
  <2>3. ASSUME NEW x \in Nat, LossPassed(x, e)
        PROVE  \E h \in Nat : e <= h /\ Late(s, s, h) /\ a + h + k <= f + 1
    <3>1. s \in Pointers
      BY DEF Pointers
    <3>2. PICK h \in Nat : /\ e <= h /\ Late(s, s, h)
                           /\ Spent + h + Ahead(s) <= failed + (IF s = x THEN 1 ELSE 0)
      BY <2>3, <3>1, LossLeaves
    <3>3. a + h + k <= f + (IF s = x THEN 1 ELSE 0)
      BY <1>4, <3>2
    <3>4. a + h + k <= f + 1
      BY <3>3
    <3> QED BY <3>2, <3>4
  <2> QED BY <2>1, <2>2, <2>3 DEF LossAt
<1>7. a1 + h + k <= f + 1
  BY <1>5, <1>6
<1>8. LossIdle(h)'
  BY <1>1, <1>2, <1>4, <1>6, <1>7 DEF LossIdle
<1> QED BY <1>6, <1>8 DEF LossAt

(* An uncompressed backup goes. *)
LEMMA LossGoes ==
    ASSUME RotationTypes, RotationTypes', NEW e \in Nat, LossAt(e), NEW i \in Nat,
           DOMAIN plain' = DOMAIN plain \ {i}, \A j \in DOMAIN plain' : plain'[j] = plain[j],
           tgz' = tgz, made' = made, stored' = stored, file' = file, failed' = failed,
           Pending' = Pending, Pointers' = Pointers, Written' = Written, Spent' <= Spent
    PROVE  \E h \in Nat : e <= h /\ LossAt(h)'
<1>1. Numbered' = Numbered \/ Numbered' = Numbered \ {i}
  <2>1. CASE i \in DOMAIN tgz
    BY <2>1 DEF Numbered
  <2>2. CASE i \notin DOMAIN tgz
    BY <2>2 DEF Numbered
  <2> QED BY <2>1, <2>2
<1>2. /\ Pointer(stored)' = Pointer(stored) /\ Pointers \subseteq Nat
      /\ \A q, x, h : Late(q, x, h) => Late(q, x, h)'
      /\ IsFiniteSet(Numbered) /\ Numbered \subseteq Nat
      /\ failed \in Nat
  BY PointerTypes, RiskFinite, LossTypes DEF Late
<1>3. PICK a, a1, n \in Nat : a = Spent /\ a1 = Spent' /\ n = Cardinality(Pending) /\ a1 <= a
  BY LossTypes, LossTypesNext
<1>4. PICK k, k1 \in Nat : k = Ahead(Pointer(stored)) /\ k1 = Ahead(Pointer(stored))'
  BY LossTypes, LossTypesNext, <1>2
<1>f. failed \in Nat /\ a1 <= a
  BY <1>2, <1>3
<1>5. k1 <= k
  <2>1. From(Numbered', Pointer(stored)) \subseteq From(Numbered, Pointer(stored))
    BY <1>1 DEF From
  <2> QED BY <1>2, <1>4, <2>1, FromFinite, PartFinite DEF Ahead
<1>6. CASE LossIdle(e)
  <2>1. a + e + k <= failed
    BY <1>3, <1>4, <1>6 DEF LossIdle
  <2>2. a1 + e + k1 <= failed
    BY <1>f, <1>5, <2>1
  <2>3. LossIdle(e)'
    BY <1>2, <1>3, <1>4, <1>6, <2>2 DEF LossIdle
  <2> QED BY <2>3 DEF LossAt
<1>7. CASE LossFresh(e)
  <2>1. a + e + k + n <= failed + 1
    BY <1>3, <1>4, <1>7 DEF LossFresh
  <2>2. a1 + e + k1 + n <= failed + 1
    BY <1>f, <1>5, <2>1
  <2>3. LossFresh(e)'
    BY <1>2, <1>3, <1>4, <1>7, <2>2 DEF LossFresh
  <2> QED BY <2>3 DEF LossAt
<1>8. ASSUME NEW x \in Nat, LossPassed(x, e) PROVE \E h \in Nat : e <= h /\ LossAt(h)'
  <2>1. PICK h \in Nat :
           /\ e <= h
           /\ h + Cardinality(From(Numbered', x + 1)) <= e + Cardinality(From(Numbered, x + 1))
           /\ \A q \in Nat : Cardinality(Gap(x, q) \ Numbered) <= e
                                => Cardinality(Gap(x, q) \ Numbered') <= h
    <3>1. CASE Numbered' = Numbered
      <4>1. e + Cardinality(From(Numbered, x + 1)) \in Nat
        BY <1>2, FromFinite
      <4>2. e + Cardinality(From(Numbered, x + 1)) <= e + Cardinality(From(Numbered, x + 1))
        BY <4>1
      <4> QED BY <3>1, <4>2
    <3>2. CASE Numbered' = Numbered \ {i}
      BY <1>2, <3>2, Removal
    <3> QED BY <1>1, <3>1, <3>2
  <2>2. PICK l, l1 \in Nat : l = Ahead(x + 1) /\ l1 = Ahead(x + 1)' /\ h + l1 <= e + l
    <3>1. Ahead(x + 1) \in Nat /\ Ahead(x + 1)' \in Nat
      BY LossTypes, LossTypesNext
    <3> QED BY <2>1, <3>1 DEF Ahead
  <2>3. a + e + l + n <= failed
    BY <1>3, <1>8, <2>2 DEF LossPassed
  <2>4. a1 + h + l1 + n <= failed
    BY <1>2, <1>3, <2>2, <2>3
  <2>5. Spent' + h + Ahead(x + 1)' + Cardinality(Pending') <= failed'
    BY <1>3, <2>2, <2>4
  <2>6. ASSUME NEW q \in Pointers
        PROVE  Late(q, x, h)' /\ x <= q /\ Cardinality(Gap(x, q) \ Numbered') <= h
    <3>1. Late(q, x, e)
      BY <1>8 DEF LossPassed
    <3>2. Late(q, x, h)
      <4>1. made \in Nat /\ \A j \in DOMAIN plain : j \in Nat /\ plain[j] \in Nat
        BY DEF RotationTypes, RotationTypeOK
      <4>2. q \in Nat /\ e <= h
        BY <1>2, <2>1
      <4> QED BY <3>1, <4>1, <4>2 DEF Late
    <3> QED BY <1>2, <1>8, <2>1, <3>2 DEF LossPassed
  <2>7. LossPassed(x, h)'
    BY <1>8, <2>5, <2>6 DEF LossPassed
  <2> QED BY <2>1, <2>7 DEF LossAt
<1> QED BY <1>6, <1>7, <1>8 DEF LossAt

(* The first one puts the file away where the next backup belongs, and    *)
(* whoever follows has been counted.                                      *)
LEMMA LossRenameFresh ==
    ASSUME RotationTypes, RotationTypes', NEW e \in Nat, LossFresh(e), NEW p \in Nat, NEW c,
           Rename(p), packing' = packing, stored' = stored, failed' = failed,
           c \in Pending, Pending' = Pending \ {c},
           p \in Pointers, Pointers' \subseteq Pointers \cup {p + 1},
           Written' = Written \cup {p + 1}
    PROVE  LossPassed(p, e)'
<1>1. p = Pointer(stored) /\ file # "none" /\ Written = {}
  BY DEF LossFresh
<1>2. /\ made' = made + 1 /\ Numbered' = Numbered \cup {p}
      /\ \A i \in DOMAIN plain' : i # p => i \in DOMAIN plain /\ plain'[i] = plain[i]
      /\ p \notin Numbered => Spent' <= Spent
      /\ Spent' <= Spent + 1
  BY <1>1, RenameLoses
<1>3. PICK n \in Nat : n = Cardinality(Pending') /\ Cardinality(Pending) = n + 1
  BY PendingLess
<1>4. IsFiniteSet(Numbered) /\ Numbered \subseteq Nat /\ failed \in Nat /\ made \in Nat
  BY RiskFinite DEF RotationTypes, RotationTypeOK
<1>5. PICK a, a1, k, l \in Nat : /\ a = Spent /\ a1 = Spent' /\ k = Ahead(p) /\ l = Ahead(p + 1)
  BY LossTypes, LossTypesNext
<1>6. Ahead(p) = Ahead(p + 1) + (IF p \in Numbered THEN 1 ELSE 0)
  BY <1>4, FromOne DEF Ahead
<1>7. k = l + (IF p \in Numbered THEN 1 ELSE 0)
  BY <1>5, <1>6
<1>8. a1 <= a + (IF p \in Numbered THEN 1 ELSE 0)
  BY <1>2, <1>5
<1>9. a + e + k + (n + 1) <= failed + 1
  BY <1>1, <1>3, <1>5 DEF LossFresh
<1>10. a1 + e + l + n <= failed
  <2>1. a1 + l <= a + k
    BY <1>7, <1>8
  <2> QED BY <1>4, <1>9, <2>1
<1>11. Ahead(p + 1)' = l
  <2>1. Cardinality(From(Numbered \cup {p}, p + 1)) = Cardinality(From(Numbered, p + 1))
    <3>1. p + 1 \in Nat /\ p < p + 1
      OBVIOUS
    <3> QED BY <1>4, <3>1, FromAdd
  <2> QED BY <1>2, <1>5, <2>1 DEF Ahead
<1>12. Spent' + e + Ahead(p + 1)' + Cardinality(Pending') <= failed'
  BY <1>3, <1>5, <1>10, <1>11
<1>13. ASSUME NEW q \in Pointers'
       PROVE  p <= q /\ Cardinality(Gap(p, q) \ Numbered') <= e /\ Late(q, p, e)'
  <2>1. q = p \/ q = p + 1
    BY <1>1 DEF LossFresh
  <2>2. Gap(p, q) \ Numbered' = {}
    BY <2>1 DEF Gap
  <2>3. Cardinality(Gap(p, q) \ Numbered') <= e
    BY <2>2, FS_EmptySet
  <2>4. Late(p, p, e)
    BY <1>1 DEF LossFresh
  <2>5. ASSUME NEW i \in DOMAIN plain', i < p PROVE q + plain'[i] <= i + made' + e
    <3>1. i \in DOMAIN plain /\ plain'[i] = plain[i] /\ i \in Nat /\ plain[i] \in Nat
      <4>1. i # p
        BY <2>5
      <4> QED BY <1>2, <4>1 DEF RotationTypes, RotationTypeOK
    <3>2. p + plain[i] <= i + made + e
      BY <2>4, <2>5, <3>1 DEF Late
    <3> QED BY <1>2, <1>4, <2>1, <3>1, <3>2
  <2> QED BY <2>1, <2>3, <2>5 DEF Late
<1>14. \A q \in Written' : p < q
  BY <1>1
<1>15. Written' # {}
  OBVIOUS
<1> QED BY <1>12, <1>13, <1>14, <1>15 DEF LossPassed

(* A later one puts it away further on, or finds it gone and leaves a gap. *)
LEMMA LossRenamePassed ==
    ASSUME RotationTypes, RotationTypes', NEW e \in Nat, NEW x \in Nat, LossPassed(x, e),
           NEW p \in Nat, NEW c,
           Rename(p), packing' = packing, stored' = stored, failed' = failed,
           c \in Pending, Pending' = Pending \ {c},
           p \in Pointers, Pointers' \subseteq Pointers \cup {p + 1},
           Written' = Written \cup {p + 1}
    PROVE  \E h \in Nat : e <= h /\ LossPassed(x, h)'
<1>1. PICK n \in Nat : n = Cardinality(Pending') /\ Cardinality(Pending) = n + 1
  BY PendingLess
<1>2. /\ IsFiniteSet(Numbered) /\ Numbered \subseteq Nat /\ failed \in Nat /\ made \in Nat
      /\ Pointers \subseteq Nat
  BY RiskFinite, PointerTypes DEF RotationTypes, RotationTypeOK
<1>3. PICK a, a1, l, l1 \in Nat : /\ a = Spent /\ a1 = Spent'
                                  /\ l = Ahead(x + 1) /\ l1 = Ahead(x + 1)'
  BY LossTypes, LossTypesNext
<1>4. a + e + l + (n + 1) <= failed
  BY <1>1, <1>3 DEF LossPassed
<1>5. ASSUME NEW q \in Pointers
      PROVE  /\ x <= q /\ Late(q, x, e)
             /\ IsFiniteSet(Gap(x, q) \ Numbered) /\ Cardinality(Gap(x, q) \ Numbered) \in Nat
             /\ Cardinality(Gap(x, q) \ Numbered) <= e
  <2>1. q \in Nat
    BY <1>2
  <2> QED BY <2>1, GapParts DEF LossPassed
<1>6. /\ Written' # {} /\ \A q \in Written' : x < q
  <2>0. x <= p
    BY <1>5
  <2>1. x < p + 1
    BY <2>0
  <2> QED BY <2>1 DEF LossPassed
<1>7. /\ \A i \in DOMAIN plain : i \in Nat /\ plain[i] \in Nat
      /\ \A i \in DOMAIN plain' : i \in Nat
  BY DEF RotationTypes, RotationTypeOK
<1>8. CASE file = "none"
  <2>1. UNCHANGED <<made, plain, tgz, lost>>
    BY <1>8, Renamed
  <2>2. Numbered' = Numbered /\ Spent' = Spent /\ Ahead(x + 1)' = Ahead(x + 1)
    BY <2>1 DEF Numbered, AtRisk, Spent, Ahead
  <2>3. a1 + (e + 1) + l1 + n <= failed
    BY <1>2, <1>3, <1>4, <2>2
  <2>4. ASSUME NEW q \in Pointers'
        PROVE  x <= q /\ Cardinality(Gap(x, q) \ Numbered) <= e + 1 /\ Late(q, x, e + 1)
    <3>1. CASE q \in Pointers
      <4>1. q \in Nat /\ x <= q /\ Late(q, x, e) /\ Cardinality(Gap(x, q) \ Numbered) <= e + 1
        BY <1>2, <1>5, <3>1
      <4> QED BY <1>2, <1>7, <4>1 DEF Late
    <3>2. CASE q = p + 1
      <4>1. Gap(x, q) \ Numbered \subseteq (Gap(x, p) \ Numbered) \cup {p}
        BY <3>2 DEF Gap
      <4>2. Cardinality(Gap(x, q) \ Numbered) <= e + 1
        BY <1>5, <4>1, OneMore
      <4>3. x <= p /\ Late(p, x, e)
        BY <1>5
      <4> QED BY <1>2, <1>7, <3>2, <4>2, <4>3 DEF Late
    <3> QED BY <3>1, <3>2
  <2>5. \A q \in Pointers' : Late(q, x, e + 1)'
    BY <2>1, <2>4 DEF Late
  <2>6. Spent' + (e + 1) + Ahead(x + 1)' + Cardinality(Pending') <= failed'
    BY <1>1, <1>3, <2>3
  <2>7. LossPassed(x, e + 1)'
    BY <1>6, <2>2, <2>4, <2>5, <2>6 DEF LossPassed
  <2> QED BY <2>7
<1>9. CASE file # "none"
  <2>1. /\ made' = made + 1 /\ Numbered' = Numbered \cup {p}
        /\ \A i \in DOMAIN plain' : i # p => i \in DOMAIN plain /\ plain'[i] = plain[i]
        /\ p \notin Numbered => Spent' <= Spent
        /\ Spent' <= Spent + 1
    BY <1>9, RenameLoses
  <2>2. a1 + l1 <= a + l + 1
    <3>1. CASE p \in Numbered
      <4>1. l1 = l
        BY <1>3, <2>1, <3>1 DEF Ahead
      <4>2. a1 <= a + 1
        BY <1>3, <2>1
      <4> QED BY <4>1, <4>2
    <3>2. CASE p \notin Numbered
      <4>1. Cardinality(From(Numbered \cup {p}, x + 1)) <= Cardinality(From(Numbered, x + 1)) + 1
        <5>1. x + 1 \in Nat
          OBVIOUS
        <5> QED BY <1>2, <5>1, FromAdd
      <4>2. l1 <= l + 1
        BY <1>3, <2>1, <4>1 DEF Ahead
      <4>3. a1 <= a
        BY <1>3, <2>1, <3>2
      <4> QED BY <4>2, <4>3
    <3> QED BY <3>1, <3>2
  <2>3. a1 + e + l1 + n <= failed
    BY <1>2, <1>4, <2>2
  <2>4. ASSUME NEW q \in Pointers
        PROVE  Cardinality(Gap(x, q) \ Numbered') <= e
    <3>1. Gap(x, q) \ Numbered' \subseteq Gap(x, q) \ Numbered
      BY <2>1
    <3>2. /\ Cardinality(Gap(x, q) \ Numbered') \in Nat
          /\ Cardinality(Gap(x, q) \ Numbered') <= Cardinality(Gap(x, q) \ Numbered)
      BY <1>5, <3>1, PartFinite
    <3> QED BY <1>5, <3>2
  <2>5. ASSUME NEW q \in Nat, NEW r \in Pointers, q <= r + 1, Late(r, x, e)
        PROVE  Late(q, x, e)'
    <3>1. x <= p /\ r \in Nat
      BY <1>2, <1>5
    <3>2. ASSUME NEW i \in DOMAIN plain', i < x PROVE q + plain'[i] <= i + made' + e
      <4>1. i \in Nat /\ i \in DOMAIN plain /\ plain'[i] = plain[i] /\ plain[i] \in Nat
        <5>1. i \in Nat /\ i # p
          BY <1>7, <3>1, <3>2
        <5> QED BY <1>7, <2>1, <5>1
      <4>2. r + plain[i] <= i + made + e
        BY <2>5, <3>2, <4>1 DEF Late
      <4> QED BY <1>2, <2>1, <2>5, <3>1, <4>1, <4>2
    <3> QED BY <3>2 DEF Late
  <2>6. ASSUME NEW q \in Pointers'
        PROVE  x <= q /\ Cardinality(Gap(x, q) \ Numbered') <= e /\ Late(q, x, e)'
    <3>1. CASE q \in Pointers
      <4>1. q \in Nat /\ q <= q + 1
        BY <1>2, <3>1
      <4> QED BY <1>5, <2>4, <2>5, <3>1, <4>1
    <3>2. CASE q = p + 1
      <4>1. Gap(x, q) \ Numbered' = Gap(x, p) \ Numbered'
        BY <2>1, <3>2 DEF Gap
      <4>2. x <= q /\ q \in Nat /\ q <= p + 1
        <5>1. x <= p
          BY <1>5
        <5> QED BY <3>2, <5>1
      <4> QED BY <1>5, <2>4, <2>5, <4>1, <4>2
    <3> QED BY <3>1, <3>2
  <2>7. Spent' + e + Ahead(x + 1)' + Cardinality(Pending') <= failed'
    BY <1>1, <1>3, <2>3
  <2>8. LossPassed(x, e)'
    BY <1>6, <2>6, <2>7 DEF LossPassed
  <2> QED BY <2>8
<1> QED BY <1>8, <1>9

(* A caller renames the file, or finds that it is gone. *)
LEMMA LossRename ==
    ASSUME RotationTypes, RotationTypes', NEW e \in Nat, LossAt(e), NEW p \in Nat, NEW c,
           Rename(p), packing' = packing, stored' = stored, failed' = failed,
           c \in Pending, Pending' = Pending \ {c},
           p \in Pointers, Pointers' \subseteq Pointers \cup {p + 1},
           Written' = Written \cup {p + 1}
    PROVE  \E h \in Nat : e <= h /\ LossAt(h)'
<1>1. CASE LossFresh(e)
  <2>1. LossPassed(p, e)'
    BY <1>1, LossRenameFresh
  <2> QED BY <2>1 DEF LossAt
<1>2. ASSUME NEW x \in Nat, LossPassed(x, e) PROVE \E h \in Nat : e <= h /\ LossAt(h)'
  <2>1. \E h \in Nat : e <= h /\ LossPassed(x, h)'
    BY <1>2, LossRenamePassed
  <2> QED BY <2>1 DEF LossAt
<1> QED BY <1>1, <1>2 DEF LossAt, LossIdle

(* What unlink removes is old, or there were as many interruptions as the  *)
(* limit.                                                                  *)
LEMMA UnlinkOld ==
    ASSUME RotationTypes, Earlier, NEW e \in Nat, LossAt(e), NEW c \in Pending,
           NEW i \in DOMAIN plain, i + MaxLogFileNum \in Pointers
    PROVE  /\ plain[i] + MaxLogFileNum <= made + failed
           /\ failed < MaxLogFileNum => plain[i] + MaxLogFileNum <= made + e
<1>1. /\ i \in Nat /\ plain[i] \in Nat /\ made \in Nat /\ failed \in Nat /\ plain[i] + 1 <= made
      /\ MaxLogFileNum \in Nat /\ 1 <= MaxLogFileNum
  BY NumbersAssumption DEF RotationTypes, RotationTypeOK, Earlier
<1>2. PICK q \in Nat : q = i + MaxLogFileNum
  BY <1>1
<1>3. PICK n \in Nat : n = Cardinality(Pending) /\ 1 <= n
  BY PendingCount, PendingSome
<1>4. PICK a \in Nat : a = Spent
  BY LossTypes
<1>5. CASE LossFresh(e)
  <2>1. PICK k \in Nat : k = Ahead(Pointer(stored))
    BY LossTypes
  <2>2. a + e + k + n <= failed + 1
    BY <1>3, <1>4, <1>5, <2>1 DEF LossFresh
  <2>3. q = Pointer(stored) /\ Late(q, q, e)
    BY <1>2, <1>5 DEF LossFresh
  <2>4. q + plain[i] <= i + made + e
    <3>1. i < q
      BY <1>1, <1>2
    <3> QED BY <2>3, <3>1 DEF Late
  <2>5. plain[i] + MaxLogFileNum <= made + e
    BY <1>1, <1>2, <2>4
  <2>6. e <= failed
    BY <1>1, <1>3, <2>2
  <2> QED BY <1>1, <2>5, <2>6
<1>6. ASSUME NEW x \in Nat, LossPassed(x, e)
      PROVE  /\ plain[i] + MaxLogFileNum <= made + failed
             /\ failed < MaxLogFileNum => plain[i] + MaxLogFileNum <= made + e
  <2>1. PICK k \in Nat : k = Ahead(x + 1)
    BY LossTypes
  <2>2. a + e + k + n <= failed
    BY <1>3, <1>4, <1>6, <2>1 DEF LossPassed
  <2>3. x <= q /\ Late(q, x, e) /\ Cardinality(Gap(x, q) \ Numbered) <= e
    BY <1>2, <1>6 DEF LossPassed
  <2>4. CASE i < x
    <3>1. q + plain[i] <= i + made + e
      BY <2>3, <2>4 DEF Late
    <3>2. plain[i] + MaxLogFileNum <= made + e
      BY <1>1, <1>2, <3>1
    <3>3. e <= failed
      BY <1>1, <1>3, <2>2
    <3> QED BY <1>1, <3>2, <3>3
  <2>5. CASE x <= i
    <3>1. x < q
      BY <1>1, <1>2, <2>5
    <3>2. PICK g, h \in Nat : g <= k /\ h <= e /\ q = x + 1 + g + h
      <4>1. IsFiniteSet(Numbered) /\ Numbered \subseteq Nat
        BY RiskFinite
      <4>2. /\ Cardinality(Gap(x, q) \cap Numbered) \in Nat
            /\ Cardinality(Gap(x, q) \ Numbered) \in Nat
            /\ q = x + 1 + Cardinality(Gap(x, q) \cap Numbered) + Cardinality(Gap(x, q) \ Numbered)
        BY <3>1, GapParts
      <4>3. Cardinality(From(Numbered, x + 1)) = Cardinality(Gap(x, q) \cap Numbered) + Cardinality(From(Numbered, q))
        BY <3>1, <4>1, FromSplit
      <4>4. Cardinality(From(Numbered, q)) \in Nat
        BY <4>1, FromFinite
      <4>5. Cardinality(Gap(x, q) \cap Numbered) <= k
        BY <2>1, <4>2, <4>3, <4>4 DEF Ahead
      <4> QED BY <2>3, <4>2, <4>5
    <3>3. MaxLogFileNum <= 1 + g + h
      BY <1>1, <1>2, <2>5, <3>2
    <3>4. 1 + g + h <= failed
      <4>1. 1 + k + e <= failed
        BY <1>1, <1>3, <2>2
      <4>2. g <= k /\ h <= e
        BY <3>2
      <4> QED BY <1>1, <4>1, <4>2
    <3>5. MaxLogFileNum <= failed
      BY <1>1, <3>3, <3>4
    <3> QED BY <1>1, <3>5
  <2> QED BY <1>1, <2>4, <2>5
<1> QED BY <1>5, <1>6 DEF LossAt, LossIdle

-----------------------------------------------------------------------------
(* Which backups are missing *)

(* The ones that are not old, when e rotations left their index free. *)
Missing(e) == {g \in 0..made - 1 : g \notin Backups /\ g + MaxLogFileNum > made + e}

(* With as many interruptions as the limit nothing is promised. *)
MissingFew(e) == failed < MaxLogFileNum => Cardinality(Missing(e)) <= lost

(* Of the ones that are not old no more are missing than were lost. *)
LossInv == \E e \in Nat : MissingFew(e) /\ LossAt(e)

LEMMA MissingFinite ==
    ASSUME RotationTypes, NEW e
    PROVE  IsFiniteSet(Missing(e)) /\ Cardinality(Missing(e)) \in Nat
<1>1. 0 \in Int /\ made - 1 \in Int
  BY DEF RotationTypes, RotationTypeOK
<1>2. IsFiniteSet(0..made - 1)
  BY <1>1, FS_Interval
<1>3. Missing(e) \subseteq 0..made - 1
  BY DEF Missing
<1> QED BY <1>2, <1>3, PartFinite

(* What a step may do to the backups. *)
LEMMA MissKeeps ==
    ASSUME RotationTypes, RotationTypes', NEW e \in Nat, NEW h \in Nat, e <= h,
           MissingFew(e), failed <= failed',
           made' = made \/ (made' = made + 1 /\ made \in Backups'),
           \/ /\ lost' = lost
              /\ failed < MaxLogFileNum =>
                    \A b \in Backups : b \in Backups' \/ b + MaxLogFileNum <= made + e
           \/ /\ lost' = lost + 1
              /\ \E g : \A b \in Backups : b \in Backups' \/ b = g
    PROVE  MissingFew(h)'
<1> SUFFICES ASSUME failed' < MaxLogFileNum
             PROVE  Cardinality(Missing(h))' <= lost'
  BY DEF MissingFew
<1>1. /\ made \in Nat /\ made' \in Nat /\ lost \in Nat /\ failed \in Nat /\ failed' \in Nat
      /\ MaxLogFileNum \in Nat
  BY NumbersAssumption DEF RotationTypes, RotationTypeOK
<1>2. failed < MaxLogFileNum
  BY <1>1
<1>3. /\ Cardinality(Missing(e)) <= lost /\ IsFiniteSet(Missing(e))
      /\ Cardinality(Missing(e)) \in Nat
  BY <1>2, MissingFinite DEF MissingFew
<1>m. PICK m, m1, l \in Nat : m = made /\ m1 = made' /\ (m1 = m \/ m1 = m + 1) /\ l = MaxLogFileNum
  BY <1>1
<1>4. ASSUME NEW g \in Missing(h)'
      PROVE  /\ g \in Nat /\ g < made /\ g + MaxLogFileNum > made + e /\ g \notin Backups'
             /\ g \notin Backups => g \in Missing(e)
  <2>1. g \in 0..made' - 1 /\ g \notin Backups' /\ g + MaxLogFileNum > made' + h
    BY DEF Missing
  <2>2. g \in Nat /\ g < made'
    <3>1. g \in 0..m1 - 1
      BY <1>m, <2>1
    <3>2. g \in Nat /\ g < m1
      BY <3>1
    <3> QED BY <1>m, <3>2
  <2>3. g # made \/ made' = made
    BY <2>1
  <2>4. g < made /\ g + MaxLogFileNum > made + e
    <3>1. g + l > m1 + h /\ g < m1 /\ (g # m \/ m1 = m)
      BY <1>m, <2>1, <2>2, <2>3
    <3>2. m1 = m \/ m1 = m + 1
      BY <1>m
    <3>3. g < m
      BY <2>2, <3>1, <3>2
    <3>4. g + l > m1 + h
      BY <3>1
    <3>5. g + l > m + e
      BY <2>2, <3>2, <3>4
    <3> QED BY <1>m, <3>3, <3>5
  <2>5. g \in 0..made - 1
    BY <1>1, <2>2, <2>4
  <2> QED BY <2>1, <2>2, <2>4, <2>5 DEF Missing
<1>5. CASE lost' = lost /\ \A b \in Backups : b \in Backups' \/ b + MaxLogFileNum <= made + e
  <2>1. \A g \in Missing(h)' : g \notin Backups
    BY <1>1, <1>4, <1>5
  <2>2. Missing(h)' \subseteq Missing(e)
    BY <1>4, <2>1
  <2>3. /\ Cardinality(Missing(h)') \in Nat
        /\ Cardinality(Missing(h)') <= Cardinality(Missing(e))
    BY <1>3, <2>2, PartFinite
  <2> QED BY <1>1, <1>3, <1>5, <2>3
<1>6. ASSUME lost' = lost + 1, NEW b0, \A b \in Backups : b \in Backups' \/ b = b0
      PROVE  Cardinality(Missing(h))' <= lost'
  <2>1. Missing(h)' \subseteq Missing(e) \cup {b0}
    BY <1>4, <1>6
  <2>2. Cardinality(Missing(h)') <= lost + 1
    BY <1>1, <1>3, <2>1, OneMore
  <2> QED BY <1>6, <2>2
<1> QED BY <1>2, <1>5, <1>6

(* The oldest goes. *)
LEMMA UnlinkLoses ==
    ASSUME RotationTypes, RotationTypes', IndexFile, Earlier, NEW e \in Nat, LossAt(e),
           NEW c \in Callers, UnlinkOldest(c)
    PROVE  /\ lost' = lost /\ Spent' <= Spent
           /\ \A b \in Backups' : b \in Backups
           /\ \/ \A b \in Backups : b \in Backups'
              \/ \E g \in Backups : /\ g + MaxLogFileNum <= made + failed
                                    /\ g \notin Backups'
                                    /\ \A b \in Backups : b \in Backups' \/ b = g
           /\ failed < MaxLogFileNum =>
                 \A b \in Backups : b \in Backups' \/ b + MaxLogFileNum <= made + e
<1> DEFINE i == logInfo[c].oldestIndex
<1>1. /\ i \in Nat /\ c \in Pending /\ i + MaxLogFileNum \in Pointers
      /\ tgz' = tgz /\ packing' = packing
  BY UnlinkView DEF RotationTypes, RotationTypeOK, LogInfos
<1>2. /\ DOMAIN plain' = DOMAIN plain \ {i}
      /\ \A j \in DOMAIN plain' : plain'[j] = plain[j]
      /\ Loses({g \in Backups : g + MaxLogFileNum <= made + failed})
  BY DEF UnlinkOldest
<1> HIDE DEF i
<1>3. i \in DOMAIN plain => /\ plain[i] + MaxLogFileNum <= made + failed
                            /\ failed < MaxLogFileNum => plain[i] + MaxLogFileNum <= made + e
  BY <1>1, UnlinkOld
<1>4. \A b \in Backups' : b \in Backups
  BY <1>1, <1>2, InBackups, InBackupsNext
<1>5. \A b \in Backups : b \in Backups' \/ (i \in DOMAIN plain /\ b = plain[i])
  BY <1>1, <1>2, InBackups, InBackupsNext
<1>6. lost' = lost
  <2>1. \A b \in Backups : \/ b \in Backups'
                           \/ b \in {g \in Backups : g + MaxLogFileNum <= made + failed}
    BY <1>3, <1>5
  <2> QED BY <1>2, <2>1, NoneGone
<1>7. Spent' <= Spent
  <2>1. AtRisk' \subseteq AtRisk
    BY <1>1, <1>2 DEF AtRisk
  <2>2. /\ Cardinality(AtRisk') \in Nat /\ Cardinality(AtRisk) \in Nat
        /\ Cardinality(AtRisk') <= Cardinality(AtRisk)
    BY <2>1, RiskFinite, PartFinite
  <2> QED BY <1>6, <2>2 DEF Spent, RotationTypes, RotationTypeOK
<1>8. \/ \A b \in Backups : b \in Backups'
      \/ \E g \in Backups : /\ g + MaxLogFileNum <= made + failed
                            /\ g \notin Backups'
                            /\ \A b \in Backups : b \in Backups' \/ b = g
  <2>1. CASE \E b \in Backups : b \notin Backups'
    BY <1>3, <1>5, <2>1
  <2> QED BY <2>1
<1>9. failed < MaxLogFileNum =>
         \A b \in Backups : b \in Backups' \/ b + MaxLogFileNum <= made + e
  BY <1>3, <1>5
<1> QED BY <1>4, <1>6, <1>7, <1>8, <1>9

(* Nothing happens to the files. *)
LEMMA LossStays ==
    ASSUME RotationTypes, RotationTypes', NEW e \in Nat, NEW h \in Nat, e <= h, MissingFew(e),
           LossAt(h)', failed <= failed', UNCHANGED <<made, plain, tgz, lost>>
    PROVE  LossInv'
<1>1. Backups' = Backups
  BY DEF Backups
<1>2. MissingFew(h)'
  BY <1>1, MissKeeps
<1> QED BY <1>2 DEF LossInv

(* At most one backup is lost. *)
LEMMA LossOne ==
    ASSUME RotationTypes, RotationTypes', NEW e \in Nat, NEW h \in Nat, e <= h, MissingFew(e),
           LossAt(h)', failed <= failed',
           made' = made \/ (made' = made + 1 /\ made \in Backups'),
           \E g : \/ lost' = lost /\ \A b \in Backups : b \in Backups'
                  \/ /\ lost' = lost + 1 /\ g \in Backups /\ g \notin Backups'
                     /\ \A b \in Backups : b \in Backups' \/ b = g
    PROVE  LossInv'
<1>1. MissingFew(h)'
  <2>1. \/ lost' = lost /\ \A b \in Backups : b \in Backups'
        \/ lost' = lost + 1 /\ \E g : \A b \in Backups : b \in Backups' \/ b = g
    OBVIOUS
  <2> QED BY <2>1, MissKeeps
<1> QED BY <1>1 DEF LossInv

(* Every step keeps the account. *)
LEMMA NextLossInv ==
    ASSUME RotationTypes, RotationTypes', IndexFile, Earlier, LossInv, trusted',
           [RotationNext]_rotationVars
    PROVE  LossInv'
<1> PICK e \in Nat : MissingFew(e) /\ LossAt(e)
  BY DEF LossInv
<1>0. failed \in Nat /\ failed' \in Nat /\ Spent \in Nat /\ e <= e
  BY LossTypes DEF RotationTypes, RotationTypeOK
<1>s. ASSUME Same, stored' = stored, failed' = failed, file = "large" => file' = "large",
             Pending' = Pending, Pointers' \subseteq Pointers, Written' = Written
      PROVE  LossInv'
  <2>1. Spent' = Spent /\ Numbered' = Numbered
    BY <1>s, SameLoss
  <2>2. plain' = plain /\ made' = made /\ Spent' + failed <= Spent + failed' /\ failed <= failed'
    BY <1>0, <1>s, <2>1 DEF Same
  <2>3. LossAt(e)'
    BY <1>s, <2>1, <2>2, LossSteady
  <2> QED BY <1>0, <1>s, <2>2, <2>3, LossStays DEF Same
<1>1. ASSUME NEW c \in Callers,
             \/ \E f \in Calls : Begin(c, f)
             \/ Touch(c) \/ FindsSmall(c) \/ Append(c)
      PROVE  LossInv'
  <2>1. /\ Same /\ stored' = stored /\ failed' = failed
        /\ file = "large" => file' = "large"
        /\ Pending' = Pending /\ Pointers' = Pointers /\ Written' = Written
    BY <1>1, OutsideView
  <2> QED BY <1>s, <2>1
<1>2. ASSUME NEW c \in Callers, FindsLarge(c) PROVE LossInv'
  <2>1. LossAt(e)'
    BY <1>2, LossEnter
  <2>2. Same /\ failed' \in {failed, failed + 1}
    BY <1>2, EnterView
  <2>3. failed <= failed'
    BY <1>0, <2>2
  <2> QED BY <1>0, <2>1, <2>2, <2>3, LossStays DEF Same
<1>3. ASSUME NEW c \in Callers, CreateLogInfo(c) \/ FillLogInfo(c) \/ ReadLogInfo(c)
      PROVE  LossInv'
  <2>1. /\ Same /\ stored' = stored /\ failed' = failed /\ file' = file
        /\ Pending' = Pending /\ Pointers' \subseteq Pointers /\ Written' = Written
    BY <1>3, ReadView
  <2> QED BY <1>s, <2>1
<1>4. ASSUME NEW c \in Callers, ReadNothing(c) PROVE LossInv'
  BY <1>4 DEF ReadNothing
<1>5. ASSUME NEW c \in Callers, RenameNext(c) \/ RenameLatest(c) PROVE LossInv'
  <2>1. PICK p \in Nat :
              /\ Rename(p)
              /\ stored' = stored /\ failed' = failed /\ packing' = packing
              /\ c \in Pending /\ Pending' = Pending \ {c}
              /\ p \in Pointers /\ Pointers' \subseteq Pointers \cup {p + 1}
              /\ Written' = Written \cup {p + 1}
    BY <1>5, RenameView
  <2>2. PICK h \in Nat : e <= h /\ LossAt(h)'
    BY <2>1, LossRename
  <2>3. failed <= failed'
    BY <1>0, <2>1
  <2>4. CASE file = "none"
    <3>1. UNCHANGED <<made, plain, tgz, lost>>
      BY <2>1, <2>4, Renamed
    <3> QED BY <2>2, <2>3, <3>1, LossStays
  <2>5. CASE file # "none"
    <3>1. /\ made' = made + 1 /\ made \in Backups'
          /\ \E g : \/ lost' = lost /\ \A b \in Backups : b \in Backups'
                    \/ /\ lost' = lost + 1 /\ g \in Backups /\ g \notin Backups'
                       /\ \A b \in Backups : b \in Backups' \/ b = g
      BY <2>1, <2>5, RenameLoses
    <3> QED BY <2>2, <2>3, <3>1, LossOne
  <2> QED BY <2>4, <2>5
<1>6. ASSUME NEW c \in Callers, UnlinkOldest(c) PROVE LossInv'
  <2>1. /\ stored' = stored /\ failed' = failed /\ file' = file /\ made' = made /\ tgz' = tgz
        /\ Pending' = Pending /\ Pointers' = Pointers /\ Written' = Written
    BY <1>6, UnlinkView
  <2>2. /\ DOMAIN plain' = DOMAIN plain \ {logInfo[c].oldestIndex}
        /\ \A j \in DOMAIN plain' : plain'[j] = plain[j]
    BY <1>6 DEF UnlinkOldest
  <2>3. logInfo[c].oldestIndex \in Nat
    BY DEF RotationTypes, RotationTypeOK, LogInfos
  <2>4. /\ lost' = lost /\ Spent' <= Spent
        /\ failed < MaxLogFileNum =>
              \A b \in Backups : b \in Backups' \/ b + MaxLogFileNum <= made + e
    BY <1>6, UnlinkLoses
  <2>5. PICK h \in Nat : e <= h /\ LossAt(h)'
    BY <2>1, <2>2, <2>3, <2>4, LossGoes
  <2>6. MissingFew(h)'
    BY <1>0, <2>1, <2>4, <2>5, MissKeeps
  <2> QED BY <2>5, <2>6 DEF LossInv
<1>7. ASSUME NEW c \in Callers, WriteLogInfo(c) \/ WriteLogInfoFails(c) PROVE LossInv'
  <2>1. PICK h \in Nat : e <= h /\ LossAt(h)'
    BY <1>7, LossWrite
  <2>2. Same /\ failed' \in {failed, failed + 1}
    BY <1>7, WriteView
  <2>3. failed <= failed'
    BY <1>0, <2>2
  <2> QED BY <2>1, <2>2, <2>3, LossStays DEF Same
<1>8. ASSUME NEW i, PackTar(i) \/ PackTarFails(i) PROVE LossInv'
  <2>1. /\ made' = made /\ plain' = plain /\ Numbered' = Numbered
        /\ \E g : \/ lost' = lost /\ \A b \in Backups : b \in Backups'
                  \/ /\ lost' = lost + 1 /\ g \in Backups /\ g \notin Backups'
                     /\ \A b \in Backups : b \in Backups' \/ b = g
    BY <1>8, TarLoses, TarFailsLoses
  <2>2. Spent' + failed <= Spent + failed' /\ failed <= failed'
    <3>1. \/ failed' = failed /\ Spent' <= Spent
          \/ failed' = failed + 1 /\ Spent' <= Spent + 1
      BY <1>8, TarLoses, TarFailsLoses
    <3>2. PICK a, a1, f, f1 \in Nat : a = Spent /\ a1 = Spent' /\ f = failed /\ f1 = failed'
      BY <1>0, LossTypesNext
    <3>3. (f1 = f /\ a1 <= a) \/ (f1 = f + 1 /\ a1 <= a + 1)
      BY <3>1, <3>2
    <3>4. a1 + f <= a + f1 /\ f <= f1
      BY <3>3
    <3> QED BY <3>2, <3>4
  <2>3. LossAt(e)'
    <3>1. stored' = stored /\ file' = file /\ Pending' = Pending /\ Pointers' = Pointers
          /\ Written' = Written
      BY <1>8, PackView
    <3> QED BY <2>1, <2>2, <3>1, LossSteady
  <2> QED BY <1>0, <2>1, <2>2, <2>3, LossOne
<1>9. ASSUME NEW i \in packing, PackRm(i) PROVE LossInv'
  <2>1. /\ made' = made /\ tgz' = tgz /\ failed' = failed
        /\ DOMAIN plain' = DOMAIN plain \ {i}
        /\ \A j \in DOMAIN plain' : plain'[j] = plain[j]
        /\ \E g : \/ lost' = lost /\ \A b \in Backups : b \in Backups'
                  \/ /\ lost' = lost + 1 /\ g \in Backups /\ g \notin Backups'
                     /\ \A b \in Backups : b \in Backups' \/ b = g
        /\ Spent' <= Spent
    BY <1>9, RmLoses
  <2>2. i \in Nat
    BY DEF RotationTypes, RotationTypeOK
  <2>3. PICK h \in Nat : e <= h /\ LossAt(h)'
    <3>1. stored' = stored /\ file' = file /\ Pending' = Pending /\ Pointers' = Pointers
          /\ Written' = Written
      BY <1>9, PackView
    <3> QED BY <2>1, <2>2, <3>1, LossGoes
  <2> QED BY <1>0, <2>1, <2>3, LossOne
<1>10. CASE ProcessEnds
  <2>1. PICK h \in Nat : e <= h /\ LossAt(h)'
    BY <1>10, LossEnd
  <2>2. UNCHANGED <<made, plain, tgz, lost>> /\ failed' = failed + 1
    BY <1>10, EndView
  <2>3. failed <= failed'
    BY <1>0, <2>2
  <2> QED BY <2>1, <2>2, <2>3, LossStays
<1>11. CASE UNCHANGED rotationVars
  <2>1. Pending' = Pending /\ Pointers' = Pointers /\ Written' = Written
    BY <1>11 DEF Pending, Pointers, Written, Holds
  <2> QED BY <1>s, <1>11, <2>1 DEF Same
<1> QED BY <1>1, <1>2, <1>3, <1>4, <1>5, <1>6, <1>7, <1>8, <1>9, <1>10, <1>11
     DEF RotationNext, BackupLogFile

(* Nothing is lost in the beginning. *)
LEMMA InitLossInv == RotationInit => LossInv
<1> SUFFICES ASSUME RotationInit PROVE LossInv
  OBVIOUS
<1>1. /\ DOMAIN plain = {} /\ DOMAIN tgz = {} /\ packing = {} /\ made = 0 /\ lost = 0 /\ failed = 0
      /\ Pending = {} /\ Written = {}
  BY DEF RotationInit, Pending, Written
<1>2. AtRisk = {} /\ From(Numbered, Pointer(stored)) = {} /\ Missing(0) = {}
  BY <1>1 DEF AtRisk, Numbered, From, Missing
<1>3. Spent = 0 /\ Ahead(Pointer(stored)) = 0 /\ Cardinality(Missing(0)) = 0
  BY <1>1, <1>2, FS_EmptySet DEF Spent, Ahead
<1>4. LossIdle(0)
  BY <1>1, <1>3 DEF LossIdle, Late
<1>5. MissingFew(0)
  BY <1>1, <1>3 DEF MissingFew
<1> QED BY <1>4, <1>5 DEF LossInv, LossAt

(* The invariant of what is lost. *)
LossIndInv == RotationTypes /\ (trusted => IndexFile /\ Earlier /\ LossInv)

LEMMA LossInduction ==
    /\ RotationInit => LossIndInv
    /\ LossIndInv /\ [RotationNext]_rotationVars => LossIndInv'
<1>1. RotationInit => LossIndInv
  BY InitRotationTypes, InitNumbers, InitLossInv DEF LossIndInv
<1>2. LossIndInv /\ [RotationNext]_rotationVars => LossIndInv'
  <2> SUFFICES ASSUME LossIndInv, [RotationNext]_rotationVars PROVE LossIndInv'
    OBVIOUS
  <2>1. RotationTypes' /\ (trusted' => IndexFile')
    BY NextRotationTypes, NextIndexFile DEF LossIndInv
  <2>2. trusted' => trusted
    BY StaysUntrusted
  <2>3. trusted' => Earlier' /\ LossInv'
    BY <2>1, <2>2, NextEarlier, NextLossInv DEF LossIndInv
  <2> QED BY <2>1, <2>3 DEF LossIndInv
<1> QED BY <1>1, <1>2

-----------------------------------------------------------------------------
(* The newest are kept *)

(* What is lost, and the indices left free, were paid for. *)
LEMMA LossCost ==
    ASSUME RotationTypes, NEW e \in Nat, LossAt(e)
    PROVE  lost + e <= failed
<1>1. PICK r, n, l, f \in Nat : /\ r = Cardinality(AtRisk) /\ n = Cardinality(Pending)
                                /\ l = lost /\ f = failed
  BY RiskFinite, PendingCount DEF RotationTypes, RotationTypeOK
<1>2. Spent = l + r
  BY <1>1 DEF Spent
<1>3. CASE LossIdle(e)
  <2>1. PICK k \in Nat : k = Ahead(Pointer(stored))
    BY LossTypes
  <2>2. (l + r) + e + k <= f
    BY <1>1, <1>2, <1>3, <2>1 DEF LossIdle
  <2>3. l + e <= f
    BY <2>2
  <2> QED BY <1>1, <2>3
<1>4. CASE LossFresh(e)
  <2>1. PICK k \in Nat : k = Ahead(Pointer(stored))
    BY LossTypes
  <2>2. (l + r) + e + k + n <= f + 1
    BY <1>1, <1>2, <1>4, <2>1 DEF LossFresh
  <2>3. 1 <= n
    BY <1>1, <1>4, PendingSome DEF LossFresh
  <2>4. l + e <= f
    BY <2>2, <2>3
  <2> QED BY <1>1, <2>4
<1>5. ASSUME NEW x \in Nat, LossPassed(x, e) PROVE lost + e <= failed
  <2>1. PICK k \in Nat : k = Ahead(x + 1)
    BY LossTypes
  <2>2. (l + r) + e + k + n <= f
    BY <1>1, <1>2, <1>5, <2>1 DEF LossPassed
  <2>3. l + e <= f
    BY <2>2
  <2> QED BY <1>1, <2>3
<1> QED BY <1>3, <1>4, <1>5 DEF LossAt

(* Missing are lost ones, and ones that an index left free made old early. *)
LEMMA LossInvKeeps ==
    ASSUME RotationTypes, LossInv
    PROVE  Cardinality({g \in 0..made - 1 : g + MaxLogFileNum > made} \ Backups) <= failed
<1> DEFINE X == {g \in 0..made - 1 : g + MaxLogFileNum > made} \ Backups
<1>1. PICK e \in Nat : MissingFew(e) /\ LossAt(e)
  BY DEF LossInv
<1>2. PICK m, l, f, n \in Nat : m = made /\ l = lost /\ f = failed /\ n = MaxLogFileNum /\ 1 <= n
  BY NumbersAssumption DEF RotationTypes, RotationTypeOK
<1>3. l + e <= f
  BY <1>1, <1>2, LossCost
<1>4. \A g \in X : g \in 0..m - 1 /\ g + n > m /\ g \notin Backups
  BY <1>2
<1> HIDE DEF X
<1>5. ASSUME NEW a \in Int, NEW b \in Int, NEW k \in Nat, b - a + 1 <= k
      PROVE  IsFiniteSet(a..b) /\ Cardinality(a..b) \in Nat /\ Cardinality(a..b) <= k
  <2>1. IsFiniteSet(a..b) /\ Cardinality(a..b) = IF a > b THEN 0 ELSE b - a + 1
    BY FS_Interval
  <2> QED BY <1>5, <2>1
<1>6. CASE n <= f + 1
  <2>1. \A g \in X : g \in (m - n + 1)..(m - 1)
    BY <1>4
  <2>2. m - n + 1 \in Int /\ m - 1 \in Int /\ (m - 1) - (m - n + 1) + 1 <= f
    BY <1>6
  <2>3. /\ IsFiniteSet((m - n + 1)..(m - 1)) /\ Cardinality((m - n + 1)..(m - 1)) \in Nat
        /\ Cardinality((m - n + 1)..(m - 1)) <= f
    BY <1>5, <2>2
  <2>4. Cardinality(X) \in Nat /\ Cardinality(X) <= Cardinality((m - n + 1)..(m - 1))
    BY <2>1, <2>3, PartFinite
  <2>5. Cardinality(X) <= f
    BY <2>3, <2>4
  <2> QED BY <1>2, <2>5 DEF X
<1>7. CASE f < n
  <2> DEFINE W == (m - n + 1)..(m - n + e)
  <2>1. \A g \in X : g \in Missing(e) \cup W
    <3>1. ASSUME NEW g \in X PROVE g \in Missing(e) \cup W
      <4>1. g \in Nat /\ g \in 0..m - 1 /\ g + n > m /\ g \notin Backups
        BY <1>4
      <4>2. CASE g + n > m + e
        BY <1>2, <4>1, <4>2 DEF Missing
      <4>3. CASE g + n <= m + e
        BY <4>1, <4>3
      <4> QED BY <4>1, <4>2, <4>3
    <3> QED BY <3>1
  <2>2. m - n + 1 \in Int /\ m - n + e \in Int /\ (m - n + e) - (m - n + 1) + 1 <= e
    OBVIOUS
  <2>3. IsFiniteSet(W) /\ Cardinality(W) \in Nat /\ Cardinality(W) <= e
    BY <1>5, <2>2
  <2> HIDE DEF W
  <2>4. /\ IsFiniteSet(Missing(e)) /\ Cardinality(Missing(e)) \in Nat
        /\ Cardinality(Missing(e)) <= l
    BY <1>1, <1>2, <1>7, MissingFinite DEF MissingFew
  <2>5. /\ IsFiniteSet(Missing(e) \cup W)
        /\ Cardinality(Missing(e) \cup W) <= Cardinality(Missing(e)) + Cardinality(W)
    BY <2>3, <2>4, UnionBound
  <2>6. /\ Cardinality(X) \in Nat /\ Cardinality(Missing(e) \cup W) \in Nat
        /\ Cardinality(X) <= Cardinality(Missing(e) \cup W)
    BY <2>1, <2>5, PartFinite
  <2>7. Cardinality(X) <= f
    BY <1>3, <2>3, <2>4, <2>5, <2>6
  <2> QED BY <1>2, <2>7 DEF X
<1>8. n <= f + 1 \/ f < n
  OBVIOUS
<1> QED BY <1>6, <1>7, <1>8

(* Log.cpp:48-169: while the index file can be read, of the newest         *)
(* backups, one less than the limit, no more are missing than there were   *)
(* interruptions.                                                          *)
THEOREM NewestKeptHolds == RotationSpec => []NewestKept
<1>1. LossIndInv => NewestKept
  BY LossInvKeeps DEF LossIndInv, NewestKept
<1> QED BY <1>1, LossInduction, PTL DEF RotationSpec

-----------------------------------------------------------------------------
(* The rotation keeps the promise *)

LEMMA LossInvCost ==
    ASSUME RotationTypes, LossInv
    PROVE  lost \in Nat /\ failed \in Nat /\ lost <= failed
<1>1. lost \in Nat /\ failed \in Nat
  BY DEF RotationTypes, RotationTypeOK
<1>2. PICK e \in Nat : lost + e <= failed
  BY LossCost DEF LossInv
<1> QED BY <1>1, <1>2

(* A step of BackupRetention, or none. *)
PromiseStep == [Promise!Next]_(Promise!vars)

(* The backups stay as they are. *)
LEMMA PromiseStays ==
    ASSUME UNCHANGED <<made, plain, tgz, lost, trusted>>, failed' = failed \/ failed' = failed + 1
    PROVE  PromiseStep
<1>1. Backups' = Backups
  BY DEF Backups
<1> QED BY <1>1 DEF PromiseStep, Promise!Next, Promise!Interrupt, Promise!vars

(* A backup is lost, or nothing is. *)
LEMMA PromiseLose ==
    ASSUME made' = made, trusted' = trusted, failed' \in {failed, failed + 1},
           lost' <= failed', NEW g, \A b \in Backups' : b \in Backups,
           \/ lost' = lost /\ \A b \in Backups : b \in Backups'
           \/ /\ lost' = lost + 1 /\ g \in Backups /\ g \notin Backups'
              /\ \A b \in Backups : b \in Backups' \/ b = g
    PROVE  PromiseStep
<1>1. CASE lost' = lost /\ \A b \in Backups : b \in Backups'
  <2>1. Backups' = Backups
    BY <1>1
  <2> QED BY <1>1, <2>1 DEF PromiseStep, Promise!Next, Promise!Interrupt, Promise!vars
<1>2. CASE /\ lost' = lost + 1 /\ g \in Backups /\ g \notin Backups'
           /\ \A b \in Backups : b \in Backups' \/ b = g
  <2>1. Backups' = Backups \ {g}
    BY <1>2
  <2>2. Promise!Lose
    BY <1>2, <2>1 DEF Promise!Lose
  <2> QED BY <2>2 DEF PromiseStep, Promise!Next
<1> QED BY <1>1, <1>2

(* The file is put away, at the cost of a backup or at none. *)
LEMMA PromisePut ==
    ASSUME made' = made + 1, trusted' = trusted, failed' = failed, lost' <= failed',
           made \in Backups', \A b \in Backups' : b \in Backups \/ b = made, NEW g,
           \/ lost' = lost /\ \A b \in Backups : b \in Backups'
           \/ /\ lost' = lost + 1 /\ g \in Backups /\ g \notin Backups'
              /\ \A b \in Backups : b \in Backups' \/ b = g
    PROVE  PromiseStep
<1>1. CASE lost' = lost /\ \A b \in Backups : b \in Backups'
  <2>1. Backups' = Backups \cup {made}
    BY <1>1
  <2> QED BY <1>1, <2>1 DEF PromiseStep, Promise!Next, Promise!Put
<1>2. CASE /\ lost' = lost + 1 /\ g \in Backups /\ g \notin Backups'
           /\ \A b \in Backups : b \in Backups' \/ b = g
  <2>1. Backups' = (Backups \ {g}) \cup {made}
    BY <1>2
  <2>2. Promise!Lose
    BY <1>2, <2>1 DEF Promise!Lose
  <2> QED BY <2>2 DEF PromiseStep, Promise!Next
<1> QED BY <1>1, <1>2

(* Every step of a rotation is one of the promise while the index file is  *)
(* trusted.                                                                *)
LEMMA NextPromise ==
    ASSUME RotationTypes, RotationTypes', IndexFile, Earlier, LossInv, LossInv',
           trusted, trusted', trusted \in BOOLEAN, trusted' \in BOOLEAN, [RotationNext]_rotationVars
    PROVE  PromiseStep
<1> PICK e \in Nat : MissingFew(e) /\ LossAt(e)
  BY DEF LossInv
<1>0. trusted' = trusted /\ lost' <= failed' /\ failed \in Nat
  <2>1. lost' <= failed'
    <3>1. (RotationTypes /\ LossInv => lost <= failed)'
      BY LossInvCost, PTL
    <3> QED BY <3>1
  <2> QED BY <2>1, LossInvCost
<1>1. ASSUME NEW c \in Callers,
             \/ \E f \in Calls : Begin(c, f)
             \/ Touch(c) \/ FindsSmall(c) \/ Append(c)
      PROVE  PromiseStep
  BY <1>0, <1>1, OutsideView, PromiseStays DEF Same
<1>2. ASSUME NEW c \in Callers, FindsLarge(c) PROVE PromiseStep
  BY <1>0, <1>2, EnterView, PromiseStays DEF Same
<1>3. ASSUME NEW c \in Callers, CreateLogInfo(c) \/ FillLogInfo(c) \/ ReadLogInfo(c)
      PROVE  PromiseStep
  BY <1>0, <1>3, ReadView, PromiseStays DEF Same
<1>4. ASSUME NEW c \in Callers, ReadNothing(c) PROVE PromiseStep
  BY <1>4 DEF ReadNothing
<1>5. ASSUME NEW c \in Callers, RenameNext(c) \/ RenameLatest(c) PROVE PromiseStep
  <2>1. PICK p \in Nat : Rename(p) /\ failed' = failed /\ packing' = packing
    BY <1>5, RenameView
  <2>2. CASE file = "none"
    <3>1. UNCHANGED <<made, plain, tgz, lost>>
      BY <2>1, <2>2, Renamed
    <3> QED BY <1>0, <2>1, <3>1, PromiseStays
  <2>3. CASE file # "none"
    <3>1. /\ made' = made + 1 /\ made \in Backups' /\ \A g \in Backups' : g \in Backups \/ g = made
          /\ \E g : \/ lost' = lost /\ \A b \in Backups : b \in Backups'
                    \/ /\ lost' = lost + 1 /\ g \in Backups /\ g \notin Backups'
                       /\ \A b \in Backups : b \in Backups' \/ b = g
      BY <2>1, <2>3, RenameLoses
    <3> QED BY <1>0, <2>1, <3>1, PromisePut
  <2> QED BY <2>2, <2>3
<1>6. ASSUME NEW c \in Callers, UnlinkOldest(c) PROVE PromiseStep
  <2>1. failed' = failed /\ made' = made
    BY <1>6, UnlinkView
  <2>2. /\ lost' = lost
        /\ \A b \in Backups' : b \in Backups
        /\ \/ \A b \in Backups : b \in Backups'
           \/ \E g \in Backups : /\ g + MaxLogFileNum <= made + failed
                                 /\ g \notin Backups'
                                 /\ \A b \in Backups : b \in Backups' \/ b = g
    BY <1>6, UnlinkLoses
  <2>3. CASE \A b \in Backups : b \in Backups'
    <3>1. Backups' = Backups
      BY <2>2, <2>3
    <3> QED BY <1>0, <2>1, <2>2, <3>1 DEF PromiseStep, Promise!vars
  <2>4. CASE \E g \in Backups : /\ g + MaxLogFileNum <= made + failed
                                /\ g \notin Backups'
                                /\ \A b \in Backups : b \in Backups' \/ b = g
    <3>1. PICK g \in Backups : /\ g + MaxLogFileNum <= made + failed
                               /\ g \notin Backups'
                               /\ \A b \in Backups : b \in Backups' \/ b = g
      BY <2>4
    <3>2. Backups' = Backups \ {g}
      BY <2>2, <3>1
    <3>3. Promise!DropOld
      BY <1>0, <2>1, <2>2, <3>1, <3>2 DEF Promise!DropOld
    <3> QED BY <3>3 DEF PromiseStep, Promise!Next
  <2> QED BY <2>2, <2>3, <2>4
<1>7. ASSUME NEW c \in Callers, WriteLogInfo(c) \/ WriteLogInfoFails(c) PROVE PromiseStep
  BY <1>0, <1>7, WriteView, PromiseStays DEF Same
<1>8. ASSUME NEW i, PackTar(i) PROVE PromiseStep
  <2>1. /\ made' = made /\ failed' = failed /\ \A g \in Backups' : g \in Backups
        /\ \E g : \/ lost' = lost /\ \A b \in Backups : b \in Backups'
                  \/ /\ lost' = lost + 1 /\ g \in Backups /\ g \notin Backups'
                     /\ \A b \in Backups : b \in Backups' \/ b = g
    BY <1>8, TarLoses
  <2> QED BY <1>0, <2>1, PromiseLose
<1>9. ASSUME NEW i, PackTarFails(i) PROVE PromiseStep
  <2>1. /\ made' = made /\ failed' = failed + 1 /\ \A g \in Backups' : g \in Backups
        /\ \E g : \/ lost' = lost /\ \A b \in Backups : b \in Backups'
                  \/ /\ lost' = lost + 1 /\ g \in Backups /\ g \notin Backups'
                     /\ \A b \in Backups : b \in Backups' \/ b = g
    BY <1>9, TarFailsLoses
  <2> QED BY <1>0, <2>1, PromiseLose
<1>10. ASSUME NEW i, PackRm(i) PROVE PromiseStep
  <2>1. /\ made' = made /\ failed' = failed /\ \A g \in Backups' : g \in Backups
        /\ \E g : \/ lost' = lost /\ \A b \in Backups : b \in Backups'
                  \/ /\ lost' = lost + 1 /\ g \in Backups /\ g \notin Backups'
                     /\ \A b \in Backups : b \in Backups' \/ b = g
    BY <1>10, RmLoses
  <2> QED BY <1>0, <2>1, PromiseLose
<1>11. CASE ProcessEnds
  <2>1. UNCHANGED <<made, plain, tgz, lost>> /\ failed' = failed + 1
    BY <1>11, EndView
  <2> QED BY <1>0, <2>1, PromiseStays
<1>12. CASE UNCHANGED rotationVars
  BY <1>12, PromiseStays
<1> QED BY <1>1, <1>2, <1>3, <1>4, <1>5, <1>6, <1>7, <1>8, <1>9, <1>10, <1>11, <1>12
     DEF RotationNext, BackupLogFile

(* Log.cpp:48-169: the rotation of a log file implements BackupRetention:  *)
(* a backup goes when it has become old, or it is lost to an interruption. *)
THEOREM KeepsNewestHolds == RotationSpec => KeepsNewest
<1>1. RotationInit => Promise!Init
  <2> SUFFICES ASSUME RotationInit PROVE Promise!Init
    OBVIOUS
  <2>1. DOMAIN plain = {} /\ DOMAIN tgz = {}
    BY DEF RotationInit
  <2>2. Backups = {}
    BY <2>1, InBackups
  <2> QED BY <2>2 DEF RotationInit, Promise!Init
<1>2. LossIndInv /\ LossIndInv' /\ [RotationNext]_rotationVars => PromiseStep
  <2> SUFFICES ASSUME LossIndInv, LossIndInv', [RotationNext]_rotationVars PROVE PromiseStep
    OBVIOUS
  <2>1. trusted' => trusted
    BY StaysUntrusted
  <2>t. trusted \in BOOLEAN /\ trusted' \in BOOLEAN /\ RotationTypes /\ RotationTypes'
    BY DEF LossIndInv, RotationTypes, RotationTypeOK
  <2>2. CASE trusted /\ trusted'
    BY <2>t, <2>2, NextPromise DEF LossIndInv
  <2>3. CASE trusted /\ ~trusted'
    <3>1. PICK c \in Callers : ReadNothing(c)
      BY <2>3 DEF RotationNext, BackupLogFile, Begin, Touch, FindsSmall, FindsLarge, Append,
         CreateLogInfo, FillLogInfo, ReadLogInfo, RenameNext, UnlinkOldest,
         RenameLatest, WriteLogInfo, WriteLogInfoFails, PackTar, PackTarFails, PackRm, ProcessEnds
    <3>2. Backups' = Backups /\ UNCHANGED <<made, failed, lost>>
      BY <3>1 DEF ReadNothing, Backups
    <3> QED BY <2>3, <3>2 DEF PromiseStep, Promise!Next, Promise!Distrust
  <2>4. CASE ~trusted /\ ~trusted'
    BY <2>4 DEF PromiseStep, Promise!Next
  <2> QED BY <2>1, <2>2, <2>3, <2>4
<1> QED BY <1>1, <1>2, LossInduction, PTL DEF RotationSpec, KeepsNewest, Promise!Spec, PromiseStep
=============================================================================
