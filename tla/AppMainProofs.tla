---------------------------- MODULE AppMainProofs ----------------------------
(***************************************************************************)
(* Proofs about AppMain: its types, that the client is started configured, *)
(* and that the console thread is done when the client is stopped.         *)
(***************************************************************************)
EXTENDS AppMain, TLAPS

USE DEF api, vars

Session == {"started", "running", "joining", "stopping", "exiting"}

(* What main has told the client, by where it is. *)
Configured ==
    /\ mainAt \notin {"env", "noUrl", "init", "failed", "done"} => created
    /\ mainAt = "ids" => "url" \in settings
    /\ mainAt \in {"start"} \cup Session => settings = Settings

(* The console thread logs while it handles lines only, and main goes on   *)
(* when it has ended.                                                      *)
ConsoleQuiet ==
    /\ consoleAt \in {"none", "ended"} => log[Body("console")] = "out"
    /\ mainAt \in {"stopping", "exiting"} => consoleAt = "ended"

IInv == TypeOK /\ Configured /\ ConsoleQuiet

LogStates == {"out", "waits", "holds", "hung"}

LEMMA ContextTypes ==
    /\ \A t \in Threads : Body(t) \in Contexts
    /\ \A h \in Handlers : h \in Contexts /\ h # Body("console")
    /\ \A c \in Contexts, sig \in Signals : <<c[1], sig>> \in Handlers
    /\ Body("main") # Body("console") /\ Body("library") # Body("console")
    /\ {"main", "console", "library"} \subseteq Threads
BY DEF Threads, Contexts, Body, Handlers, Signals

LEMMA InitIInv == Init => IInv
<1> SUFFICES ASSUME Init PROVE IInv
  OBVIOUS
<1>1. TypeOK /\ Configured
  BY DEF Init, TypeOK, Configured, Session, Settings
<1>2. ConsoleQuiet
  BY ContextTypes DEF Init, ConsoleQuiet
<1> QED BY <1>1, <1>2 DEF IInv

(* A context begins to wait for the lock. *)
LEMMA LogsKeeps ==
    ASSUME IInv, NEW c \in Contexts, Logs(c)
    PROVE  /\ log' \in [Contexts -> LogStates]
           /\ \A d \in Contexts : d # c => log'[d] = log[d]
BY DEF IInv, TypeOK, Logs, LogStates

(* main leaves the threads alone ... *)
LEMMA MainKeeps ==
    ASSUME IInv, MainSteps
    PROVE  IInv'
<1> DEFINE m == Body("main")
<1>1. m \in Contexts /\ m # Body("console")
  BY ContextTypes
<1>2. UNCHANGED <<lock, interrupted, signals, g_appRunning, lines>>
      /\ (UNCHANGED log \/ (log[m] = "out" /\ Logs(m)))
  BY DEF MainSteps, NoServerURL, InstallHandlers, WebRTC_Init, WebRTC_SetSignalingServerURL,
         WebRTC_SetIds, WebRTC_Start2WayCommunication, StartConsoleInputThread, StopsRunning,
         WebRTC_Stop2WayCommunication, LogsExited, Returns, Main, Ready
<1>3. /\ log' \in [Contexts -> LogStates]
      /\ \A d \in Contexts : d # m => log'[d] = log[d]
  <2>1. CASE UNCHANGED log
    BY <1>2, <2>1 DEF IInv, TypeOK, LogStates
  <2>2. CASE log[m] = "out" /\ Logs(m)
    BY <1>1, <1>2, <2>2, LogsKeeps
  <2> QED BY <1>2, <2>1, <2>2
<1>5. log'[Body("console")] = log[Body("console")]
  BY <1>1, <1>3, ContextTypes
<1>6. ASSUME MainSteps
      PROVE  /\ mainAt' \in {"env", "noUrl", "init", "url", "ids", "start", "started",
                             "running", "joining", "stopping", "exiting", "failed", "done"}
             /\ consoleAt' \in {"none", "polling", "lines", "ended"}
             /\ created' \in BOOLEAN /\ settings' \subseteq Settings
             /\ Configured' /\ ConsoleQuiet'
  <2> USE <1>5 DEF IInv, TypeOK, Configured, ConsoleQuiet, Session, Settings, Main
  <2>1. CASE NoServerURL \/ InstallHandlers \/ WebRTC_Init
    BY <2>1 DEF NoServerURL, InstallHandlers, WebRTC_Init
  <2>2. CASE WebRTC_SetSignalingServerURL
    BY <2>2 DEF WebRTC_SetSignalingServerURL
  <2>3. CASE WebRTC_SetIds
    BY <2>3 DEF WebRTC_SetIds, SetIds
  <2>4. CASE WebRTC_Start2WayCommunication
    BY <2>4 DEF WebRTC_Start2WayCommunication
  <2>5. CASE StartConsoleInputThread \/ StopsRunning
    BY <2>5 DEF StartConsoleInputThread, StopsRunning
  <2>6. CASE WebRTC_Stop2WayCommunication \/ LogsExited \/ Returns
    BY <2>6 DEF WebRTC_Stop2WayCommunication, LogsExited, Returns
  <2> QED BY <1>6, <2>1, <2>2, <2>3, <2>4, <2>5, <2>6 DEF MainSteps
<1> QED BY <1>2, <1>3, <1>6 DEF IInv, TypeOK, LogStates

(* ... as does the console thread, ... *)
LEMMA ConsoleKeeps ==
    ASSUME IInv, ConsoleSteps
    PROVE  IInv'
<1> DEFINE c == Body("console")
<1>1. c \in Contexts
  BY ContextTypes
<1>2. /\ UNCHANGED <<lock, interrupted, signals, mainAt, created, settings>>
      /\ log[c] = "out" /\ (UNCHANGED log \/ Logs(c))
  BY DEF ConsoleSteps, LineSteps, Polls, ConsoleEnds, OnLine, LinesDone, Console, Ready
<1>3. /\ log' \in [Contexts -> LogStates]
      /\ \A d \in Contexts : d # c => log'[d] = log[d]
  <2>1. CASE UNCHANGED log
    BY <1>2, <2>1 DEF IInv, TypeOK, LogStates
  <2>2. CASE Logs(c)
    BY <1>1, <1>2, <2>2, LogsKeeps
  <2> QED BY <1>2, <2>1, <2>2
<1>4. Configured'
  BY <1>2 DEF IInv, Configured
<1>5. ConsoleQuiet'
  BY <1>2 DEF IInv, ConsoleQuiet, ConsoleSteps, LineSteps, Polls, ConsoleEnds, OnLine,
              LinesDone, Console
<1>6. lines' \in Nat
  <2>1. CASE Polls
    BY <2>1, BoundsAssumption DEF Polls
  <2>2. ASSUME NEW isQuit \in BOOLEAN, OnLine(isQuit) PROVE lines' \in Nat
    <3>1. lines \in Nat /\ lines > 0 /\ lines' = lines - 1
      BY <2>2 DEF OnLine, IInv, TypeOK
    <3> QED BY <3>1
  <2>3. CASE ConsoleEnds \/ LinesDone
    BY <2>3 DEF ConsoleEnds, LinesDone, IInv, TypeOK
  <2> QED BY <2>1, <2>2, <2>3 DEF ConsoleSteps, LineSteps
<1>7. g_appRunning' \in BOOLEAN
  BY DEF IInv, TypeOK, ConsoleSteps, LineSteps, Polls, ConsoleEnds, OnLine, LinesDone
<1>8. consoleAt' \in {"none", "polling", "lines", "ended"}
  BY DEF IInv, TypeOK, ConsoleSteps, LineSteps, Polls, ConsoleEnds, OnLine, LinesDone, Console
<1> QED BY <1>2, <1>3, <1>4, <1>5, <1>6, <1>7, <1>8 DEF IInv, TypeOK, LogStates

(* ... the library, ... *)
LEMMA LibraryKeeps ==
    ASSUME IInv, LibraryLogs
    PROVE  IInv'
<1> DEFINE l == Body("library")
<1>1. l \in Contexts /\ l # Body("console")
  BY ContextTypes
<1>2. /\ UNCHANGED <<g_appRunning, mainAt, consoleAt, lines, api, lock, interrupted, signals>>
      /\ log[l] = "out" /\ Logs(l)
  BY DEF LibraryLogs, Ready
<1>3. /\ log' \in [Contexts -> LogStates]
      /\ \A d \in Contexts : d # l => log'[d] = log[d]
  BY <1>1, <1>2, LogsKeeps
<1>4. Configured' /\ ConsoleQuiet'
  BY <1>1, <1>2, <1>3, ContextTypes DEF IInv, Configured, ConsoleQuiet
<1> QED BY <1>2, <1>3, <1>4 DEF IInv, TypeOK, LogStates

(* ... and a signal.  Who takes and gives back the lock is the same for    *)
(* all.                                                                    *)
LEMMA LockKeeps ==
    ASSUME IInv, NEW c \in Contexts, Lock(c) \/ Unlock(c)
    PROVE  IInv'
<1>1. /\ UNCHANGED <<g_appRunning, mainAt, consoleAt, lines, api, interrupted, signals>>
      /\ log[c] # "out"
      /\ \A d \in Contexts : d # c => log'[d] = log[d]
  BY DEF Lock, Unlock, IInv, TypeOK
<1>2. TypeOK'
  BY <1>1 DEF IInv, TypeOK, Lock, Unlock
<1>3. ConsoleQuiet'
  BY <1>1, ContextTypes DEF IInv, ConsoleQuiet
<1>4. Configured'
  BY <1>1 DEF IInv, Configured
<1> QED BY <1>2, <1>3, <1>4 DEF IInv

LEMMA SignalKeeps ==
    ASSUME IInv, NEW c \in Contexts, NEW sig \in Signals, Signal(c, sig)
    PROVE  IInv'
<1> DEFINE h == <<c[1], sig>>
<1>1. h \in Contexts /\ h # Body("console")
  BY ContextTypes
<1>2. /\ UNCHANGED <<g_appRunning, mainAt, consoleAt, lines, api, lock>>
      /\ signals' = signals + 1
      /\ interrupted' = [interrupted EXCEPT ![c] = sig]
      /\ Logs(h)
  BY DEF Signal
<1>3. /\ log' \in [Contexts -> LogStates]
      /\ \A d \in Contexts : d # h => log'[d] = log[d]
  BY <1>1, <1>2, LogsKeeps
<1>4. Configured' /\ ConsoleQuiet'
  BY <1>1, <1>2, <1>3, ContextTypes DEF IInv, Configured, ConsoleQuiet
<1>5. interrupted' \in [Contexts -> Signals \cup {"none"}] /\ signals' \in Nat
  BY <1>2 DEF IInv, TypeOK
<1> QED BY <1>2, <1>3, <1>4, <1>5 DEF IInv, TypeOK, LogStates

LEMMA HandlerKeeps ==
    ASSUME IInv, NEW h \in Handlers, HandlerEnds(h) \/ AllocatorHangs(h)
    PROVE  IInv'
<1>1. h \in Contexts /\ h # Body("console")
  BY ContextTypes
<1>2. CASE HandlerEnds(h)
  <2>1. PICK d \in Of(h[1]) : interrupted' = [interrupted EXCEPT ![d] = "none"]
    BY <1>2 DEF HandlerEnds
  <2>2. /\ interrupted' \in [Contexts -> Signals \cup {"none"}]
        /\ g_appRunning' \in BOOLEAN
        /\ UNCHANGED <<mainAt, consoleAt, lines, api, lock, log, signals>>
    BY <1>2, <2>1 DEF HandlerEnds, IInv, TypeOK
  <2> QED BY <2>2 DEF IInv, TypeOK, Configured, ConsoleQuiet
<1>3. CASE AllocatorHangs(h)
  <2>1. /\ UNCHANGED <<g_appRunning, mainAt, consoleAt, lines, api, lock, interrupted, signals>>
        /\ log' \in [Contexts -> LogStates]
        /\ \A d \in Contexts : d # h => log'[d] = log[d]
    BY <1>1, <1>3 DEF AllocatorHangs, IInv, TypeOK, LogStates
  <2>2. Configured' /\ ConsoleQuiet'
    BY <1>1, <2>1, ContextTypes DEF IInv, Configured, ConsoleQuiet
  <2> QED BY <2>1, <2>2 DEF IInv, TypeOK, LogStates
<1> QED BY <1>2, <1>3

LEMMA NextIInv == IInv /\ [Next]_vars => IInv'
<1> SUFFICES ASSUME IInv, [Next]_vars PROVE IInv'
  OBVIOUS
<1>1. CASE MainSteps
  BY <1>1, MainKeeps
<1>2. CASE ConsoleSteps
  BY <1>2, ConsoleKeeps
<1>3. CASE LibraryLogs
  BY <1>3, LibraryKeeps
<1>4. CASE \E c \in Contexts : Lock(c) \/ Unlock(c)
  BY <1>4, LockKeeps
<1>5. CASE \E c \in Contexts, sig \in Signals : Signal(c, sig)
  BY <1>5, SignalKeeps
<1>6. CASE \E c \in Handlers : HandlerEnds(c) \/ AllocatorHangs(c)
  BY <1>6, HandlerKeeps
<1>7. CASE UNCHANGED vars
  BY <1>7 DEF IInv, TypeOK, Configured, ConsoleQuiet
<1> QED BY <1>1, <1>2, <1>3, <1>4, <1>5, <1>6, <1>7 DEF Next

LEMMA AlwaysIInv == Spec => []IInv
<1> QED BY InitIInv, NextIInv, PTL DEF Spec

(* The variables of the process keep their types. *)
THEOREM TypeCorrect == Spec => []TypeOK
<1>1. IInv => TypeOK
  BY DEF IInv
<1> QED BY <1>1, AlwaysIInv, PTL

(* main.cpp:70-83: the client is started with its server, room and name.   *)
THEOREM StartsConfiguredHolds == Spec => []StartsConfigured
<1>1. IInv => StartsConfigured
  BY DEF IInv, Configured, StartsConfigured, Session
<1> QED BY <1>1, AlwaysIInv, PTL

(* main.cpp:101-106: nobody sends through the client while it is stopped.  *)
THEOREM ConsoleEndsFirstHolds == Spec => []ConsoleEndsFirst
<1>1. IInv => ConsoleEndsFirst
  BY DEF IInv, ConsoleQuiet, ConsoleEndsFirst
<1> QED BY <1>1, AlwaysIInv, PTL
=============================================================================
