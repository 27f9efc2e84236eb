----------------------------- MODULE LogRotation -----------------------------
(***************************************************************************)
(* The rotation of one log file (Log.cpp): dbg_log, DBG_signal_safe and    *)
(* HandleCurrentApLogFolder put the file away as a numbered backup when it *)
(* is too large (BackupLogFile), and the folder's maintenance compresses   *)
(* the backups.  The next number is kept in an index file.                 *)
(*                                                                         *)
(* BackupLogFile is one system call a step: a crash, or another caller -   *)
(* none of them takes a lock against the others - comes between any two.   *)
(* A file's content is its number in the order of rotation.  Left out: the *)
(* lines, and how the paths are put together.  Appending (open, write,     *)
(* close) is one step.                                                     *)
(***************************************************************************)
EXTENDS Naturals, FiniteSets

CONSTANTS
    Callers,          \* threads, and signal handlers that interrupt them
    Handlers,         \* the handlers among them
    MaxLogFileNum,    \* MAX_LOG_FILE_NUM
    MaxMade,          \* bound: backups made
    MaxFailed         \* bound: crashes, overlaps, failed writes of index or archive

ASSUME NumbersAssumption ==
    /\ IsFiniteSet(Callers)
    /\ MaxLogFileNum \in Nat \ {0}
    /\ MaxMade \in Nat
    /\ MaxFailed \in Nat

VARIABLES
    file,       \* none, small, or large: over DBG_LOG_SIZE_MAX
    made,       \* its number
    plain,      \* backups by index, not compressed
    tgz,        \* the compressed ones
    index,      \* the index file: none, empty or written
    stored,     \* the LogInfo written in it
    place,      \* where each caller is
    call,       \* in which function
    logInfo,    \* its LogInfo
    packing,    \* HandleCurrentApLogFolder: the backups between tar and rm
    failed,     \* how often a crash, another rotation or a full disk interrupted
    lost,       \* how many backups are gone before their time
    trusted     \* no LogInfo was ever left uninitialised

storage      == <<file, made, plain, tgz, index, stored, lost>>
thread       == <<place, call, logInfo>>
rotationVars == <<storage, thread, packing, failed, trusted>>

Calls    == {"dbg_log", "DBG_signal_safe", "HandleCurrentApLogFolder"}
LogInfos == [count : Nat, oldestIndex : Nat]
NewInfo  == [count |-> 0, oldestIndex |-> 0]

(* What an uninitialised LogInfo may hold (bounded): one value for each     *)
(* branch of BackupLogFile.                                                *)
Garbage == [count : {0, MaxLogFileNum}, oldestIndex : {1}]

(* The files, the index and the callers keep their types. *)
RotationTypeOK ==
    /\ file \in {"none", "small", "large"}
    /\ made \in Nat
    /\ DOMAIN plain \subseteq Nat
    /\ \A i \in DOMAIN plain : plain[i] \in Nat
    /\ DOMAIN tgz \subseteq Nat
    /\ \A i \in DOMAIN tgz : tgz[i] \in Nat
    /\ index \in {"none", "empty", "written"}
    /\ stored \in LogInfos
    /\ place \in [Callers -> {"idle", "check", "append", "read", "create", "backup",
                           "renameLatest", "write"}]
    /\ call \in [Callers -> Calls]
    /\ logInfo \in [Callers -> LogInfos]
    /\ packing \subseteq Nat
    /\ failed \in Nat
    /\ lost \in Nat
    /\ trusted \in BOOLEAN

RotationInit ==
    /\ file = "none"
    /\ made = 0
    /\ plain = [i \in {} |-> 0]
    /\ tgz = plain
    /\ index = "none"
    /\ stored = NewInfo
    /\ place = [c \in Callers |-> "idle"]
    /\ call = [c \in Callers |-> "dbg_log"]
    /\ logInfo = [c \in Callers |-> NewInfo]
    /\ packing = {}
    /\ failed = 0
    /\ lost = 0
    /\ trusted = TRUE

(* A thread stands still while a handler interrupts it. *)
Runs(c) == c \in Handlers \/ \A h \in Handlers : place[h] = "idle"

(* Caller c goes from one place to the next. *)
Moves(c, from, to) ==
    /\ Runs(c)
    /\ place[c] = from
    /\ place' = [place EXCEPT ![c] = to]

Inside == {"read", "create", "backup", "renameLatest", "write"}

(* The files put away that still exist, compressed or not. *)
Backups == {plain[i] : i \in DOMAIN plain} \cup {tgz[i] : i \in DOMAIN tgz}

(* Of those that go in this step, all but the ones in excess are lost.     *)
Loses(excess) == lost' = lost + Cardinality(Backups \ (Backups' \cup excess))

-----------------------------------------------------------------------------
(* The callers of BackupLogFile *)

Begin(c, f) ==
    /\ c \in Handlers => f = "DBG_signal_safe"
    /\ Moves(c, "idle", "check")
    /\ call' = [call EXCEPT ![c] = f]
    /\ UNCHANGED <<storage, logInfo, packing, failed, trusted>>

(* dbg_log touches a file that is not there ... *)
Touch(c) ==
    /\ file = "none" /\ call[c] = "dbg_log"
    /\ Runs(c) /\ place[c] = "check"
    /\ file' = "small"
    /\ UNCHANGED <<made, plain, tgz, index, stored, lost, thread, packing, failed, trusted>>

(* ... which has size 0 for the others, and HandleCurrentApLogFolder adds  *)
(* no line.                                                                *)
FindsSmall(c) ==
    /\ file = "none" => call[c] # "dbg_log"
    /\ file # "large"
    /\ Moves(c, "check", IF call[c] = "HandleCurrentApLogFolder" THEN "idle" ELSE "append")
    /\ UNCHANGED <<storage, call, logInfo, packing, failed, trusted>>

(* It may do so in the middle of another rotation. *)
FindsLarge(c) ==
    /\ file = "large"
    /\ Moves(c, "check", "read")
    /\ IF \E d \in Callers : place[d] \in Inside
       THEN failed < MaxFailed /\ failed' = failed + 1
       ELSE UNCHANGED failed
    /\ UNCHANGED <<storage, call, logInfo, packing, trusted>>

Append(c) ==
    /\ Moves(c, "append", "idle")
    /\ file' \in IF file = "large" THEN {"large"}
                 ELSE {"small"} \cup (IF made < MaxMade THEN {"large"} ELSE {})
    /\ UNCHANGED <<made, plain, tgz, index, stored, lost, call, logInfo, packing, failed, trusted>>

-----------------------------------------------------------------------------
(* ReadLogInfo *)

CreateLogInfo(c) ==
    /\ index = "none"
    /\ Moves(c, "read", "create")
    /\ index' = "empty"
    /\ UNCHANGED <<file, made, plain, tgz, stored, lost, call, logInfo, packing, failed, trusted>>

FillLogInfo(c) ==
    /\ Moves(c, "create", "backup")
    /\ index' = "written"
    /\ stored' = NewInfo
    /\ logInfo' = [logInfo EXCEPT ![c] = NewInfo]
    /\ UNCHANGED <<file, made, plain, tgz, lost, call, packing, failed, trusted>>

ReadLogInfo(c) ==
    /\ index = "written"
    /\ Moves(c, "read", "backup")
    /\ logInfo' = [logInfo EXCEPT ![c] = stored]
    /\ UNCHANGED <<storage, call, packing, failed, trusted>>

(* read returns nothing and logInfo was never initialised. *)
ReadNothing(c) ==
    /\ index = "empty"
    /\ Moves(c, "read", "backup")
    /\ \E g \in Garbage : logInfo' = [logInfo EXCEPT ![c] = g]
    /\ trusted' = FALSE
    /\ UNCHANGED <<storage, call, packing, failed>>

-----------------------------------------------------------------------------
(* BackupLogFile *)

(* rename: nothing without a file, and whatever is at the target is gone.  *)
Rename(i) ==
    IF file = "none" THEN UNCHANGED <<file, made, plain, tgz, lost>>
    ELSE /\ file' = "none"
         /\ made' = made + 1
         /\ plain' = [j \in DOMAIN plain \cup {i} |-> IF j = i THEN made ELSE plain[j]]
         /\ tgz' = tgz
         /\ Loses({})

(* Mutant: the number of backups is counted down. *)
RenameNext_Down(c) ==
    /\ logInfo[c].count < MaxLogFileNum
    /\ Moves(c, "backup", "write")
    /\ Rename(logInfo[c].count)
    /\ logInfo' = [logInfo EXCEPT ![c].count = @ - 1]
    /\ UNCHANGED <<index, stored, call, packing, failed, trusted>>

(* Mutant: the limit is compared with <=. *)
RenameNext_OffByOne(c) ==
    /\ logInfo[c].count <= MaxLogFileNum
    /\ Moves(c, "backup", "write")
    /\ Rename(logInfo[c].count)
    /\ logInfo' = [logInfo EXCEPT ![c].count = @ + 1]
    /\ UNCHANGED <<index, stored, call, packing, failed, trusted>>

RenameNext(c) ==
    /\ logInfo[c].count < MaxLogFileNum
    /\ Moves(c, "backup", "write")
    /\ Rename(logInfo[c].count)
    /\ logInfo' = [logInfo EXCEPT ![c].count = @ + 1]
    /\ UNCHANGED <<index, stored, call, packing, failed, trusted>>

(* Mutant: the latest backup is removed instead of the oldest. *)
UnlinkOldest_Latest(c) ==
    /\ logInfo[c].count >= MaxLogFileNum
    /\ Moves(c, "backup", "renameLatest")
    /\ LET i == logInfo[c].oldestIndex + logInfo[c].count - 1
       IN  plain' = [j \in DOMAIN plain \ {i} |-> plain[j]]
    /\ tgz' = tgz
    /\ Loses({g \in Backups : g + MaxLogFileNum <= made + failed})
    /\ UNCHANGED <<file, made, index, stored, call, logInfo, packing, failed, trusted>>

UnlinkOldest(c) ==
    /\ logInfo[c].count >= MaxLogFileNum
    /\ Moves(c, "backup", "renameLatest")
    /\ plain' = [j \in DOMAIN plain \ {logInfo[c].oldestIndex} |-> plain[j]]
    /\ tgz' = tgz
    /\ Loses({g \in Backups : g + MaxLogFileNum <= made + failed})
    /\ UNCHANGED <<file, made, index, stored, call, logInfo, packing, failed, trusted>>

(* Mutant: the oldest index is not counted on. *)
RenameLatest_SameOldest(c) ==
    /\ Moves(c, "renameLatest", "write")
    /\ Rename(logInfo[c].oldestIndex + logInfo[c].count)
    /\ UNCHANGED <<tgz, index, stored, call, logInfo, packing, failed, trusted>>

RenameLatest(c) ==
    /\ Moves(c, "renameLatest", "write")
    /\ Rename(logInfo[c].oldestIndex + logInfo[c].count)
    /\ logInfo' = [logInfo EXCEPT ![c].oldestIndex = @ + 1]
    /\ UNCHANGED <<index, stored, call, packing, failed, trusted>>

(* dbg_log looks at the file again, DBG_signal_safe appends. *)
AfterBackup(c) == CASE call[c] = "dbg_log" -> "check"
                    [] call[c] = "DBG_signal_safe" -> "append"
                    [] OTHER -> "idle"

WriteLogInfo(c) ==
    /\ Moves(c, "write", AfterBackup(c))
    /\ index' = "written"
    /\ stored' = logInfo[c]
    /\ logInfo' = [logInfo EXCEPT ![c] = NewInfo]
    /\ UNCHANGED <<file, made, plain, tgz, lost, call, packing, failed, trusted>>

(* The index file cannot be opened for writing, and nobody is told. *)
WriteLogInfoFails(c) ==
    /\ failed < MaxFailed
    /\ Moves(c, "write", AfterBackup(c))
    /\ failed' = failed + 1
    /\ logInfo' = [logInfo EXCEPT ![c] = NewInfo]
    /\ UNCHANGED <<storage, call, packing, trusted>>

-----------------------------------------------------------------------------
(* HandleCurrentApLogFolder: tar, and then rm, of a backup *)

PackTar(i) ==
    /\ packing = {}
    /\ i \in DOMAIN plain
    /\ tgz' = [j \in DOMAIN tgz \cup {i} |-> IF j = i THEN plain[i] ELSE tgz[j]]
    /\ plain' = plain
    /\ packing' = {i}
    /\ Loses({})
    /\ UNCHANGED <<file, made, index, stored, thread, failed, trusted>>

(* Nobody looks at tar's result: an archive that is not complete does not  *)
(* keep rm from running.                                                   *)
PackTarFails(i) ==
    /\ failed < MaxFailed
    /\ packing = {}
    /\ i \in DOMAIN plain
    /\ tgz' = [j \in DOMAIN tgz \ {i} |-> tgz[j]]
    /\ packing' = {i}
    /\ plain' = plain
    /\ failed' = failed + 1
    /\ Loses({})
    /\ UNCHANGED <<file, made, index, stored, thread, trusted>>

PackRm(i) ==
    /\ i \in packing
    /\ plain' = [j \in DOMAIN plain \ {i} |-> plain[j]]
    /\ tgz' = tgz
    /\ packing' = {}
    /\ Loses({})
    /\ UNCHANGED <<file, made, index, stored, thread, failed, trusted>>

(* The process ends between two calls and is started again. *)
ProcessEnds ==
    /\ failed < MaxFailed
    /\ failed' = failed + 1
    /\ place' = [c \in Callers |-> "idle"]
    /\ call' = [c \in Callers |-> "dbg_log"]
    /\ logInfo' = [c \in Callers |-> NewInfo]
    /\ packing' = {}
    /\ UNCHANGED <<storage, trusted>>

-----------------------------------------------------------------------------
BackupLogFile(c) ==
    \/ CreateLogInfo(c) \/ FillLogInfo(c) \/ ReadLogInfo(c) \/ ReadNothing(c)
    \/ RenameNext(c) \/ UnlinkOldest(c) \/ RenameLatest(c)
    \/ WriteLogInfo(c) \/ WriteLogInfoFails(c)

RotationNext ==
    \/ \E c \in Callers :
          \/ \E f \in Calls : Begin(c, f)
          \/ Touch(c) \/ FindsSmall(c) \/ FindsLarge(c) \/ Append(c) \/ BackupLogFile(c)
    \/ \E i \in DOMAIN plain : PackTar(i) \/ PackTarFails(i)
    \/ \E i \in packing : PackRm(i)
    \/ ProcessEnds

RotationSpec == RotationInit /\ [][RotationNext]_rotationVars

-----------------------------------------------------------------------------
(* Correctness *)

(* Compressed or not, of the newest backups at most as many are missing as *)
(* there were interruptions: crashes, failed writes, and rotations in the  *)
(* middle of another (of a signal handler, or of a thread, without a lock  *)
(* in common) - while the index file can be read.                          *)
NewestKept ==
    trusted =>
        Cardinality({g \in 0..made - 1 : g + MaxLogFileNum > made} \ Backups) <= failed

(* Of uncompressed backups there are at most the limit, and one more for   *)
(* each interruption: a rotation that goes on with counters read before    *)
(* others rotated puts them back, and what those wrote is not removed.     *)
PlainBounded == trusted => Cardinality(DOMAIN plain) <= MaxLogFileNum + failed

(* Only what has become old goes, but for what interruptions cost. *)
Promise == INSTANCE BackupRetention WITH kept <- Backups

KeepsNewest == Promise!Spec
=============================================================================
