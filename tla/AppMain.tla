------------------------------- MODULE AppMain -------------------------------
(***************************************************************************)
(* The application: main.cpp from its start to its exit, the console       *)
(* thread, the threads of the libraries, the signal handler that runs on   *)
(* any of them, and what they share: g_appRunning, the client's single     *)
(* instance (WebRTC_API.cpp) and the log's gDebugLock (Log.cpp), which is  *)
(* not recursive.                                                          *)
(*                                                                         *)
(* A call of the client is one entry in the log here (its own steps are    *)
(* Conference's), and ends.  A signal interrupts what its thread runs, the *)
(* other signal's handler too: signal() masks only the signal itself.      *)
(***************************************************************************)
EXTENDS Naturals

CONSTANTS MaxLines,      \* bound: lines of one read of the console
          MaxSignals     \* bound: signals

ASSUME BoundsAssumption == MaxLines \in Nat /\ MaxSignals \in Nat

Threads  == {"main", "console", "library"}
Signals  == {"SIGINT", "SIGTERM"}
Body(t)  == <<t, "body">>            \* what a thread runs
Handlers == Threads \X Signals       \* nativeSignalHandler on top of it
Contexts == Threads \X ({"body"} \cup Signals)

VARIABLES
    g_appRunning,
    mainAt,       \* where main is
    consoleAt,    \* where the console thread is
    lines,        \* lines read and not yet handled
    created,      \* g_webrtcManager is there
    settings,     \* what it was told
    lock,         \* who holds gDebugLock
    log,          \* each context in DBG: out, waits, holds, or hung for good
    interrupted,  \* the signal whose handler runs right on top of each context
    signals       \* signals so far

api  == <<created, settings>>
vars == <<g_appRunning, mainAt, consoleAt, lines, api, lock, log, interrupted, signals>>

Settings == {"url", "roomId", "streamId"}

(* The threads, the instance and the lock keep their types. *)
TypeOK ==
    /\ g_appRunning \in BOOLEAN
    /\ mainAt \in {"env", "noUrl", "init", "url", "ids", "start", "started",
                   "running", "joining", "stopping", "exiting", "failed", "done"}
    /\ consoleAt \in {"none", "polling", "lines", "ended"}
    /\ lines \in Nat
    /\ created \in BOOLEAN
    /\ settings \subseteq Settings
    /\ lock \subseteq Contexts
    /\ log \in [Contexts -> {"out", "waits", "holds", "hung"}]
    /\ interrupted \in [Contexts -> Signals \cup {"none"}]
    /\ signals \in Nat

Init ==
    /\ g_appRunning = TRUE
    /\ mainAt = "env"
    /\ consoleAt = "none"
    /\ lines = 0
    /\ created = FALSE
    /\ settings = {}
    /\ lock = {}
    /\ log = [c \in Contexts |-> "out"]
    /\ interrupted = [c \in Contexts |-> "none"]
    /\ signals = 0

-----------------------------------------------------------------------------
(* The log *)

Of(t) == {c \in Contexts : c[1] = t}

(* A context is there as a thread's body, or as the handler of a signal    *)
(* that interrupts one.  It runs unless a handler is on top of it; all end *)
(* with main.                                                              *)
Active(c) == c \in Handlers => \E d \in Of(c[1]) : interrupted[d] = c[2]

Runs(c) == mainAt # "done" /\ Active(c) /\ interrupted[c] = "none"

Ready(c) == Runs(c) /\ log[c] = "out"

Logs(c) == log' = [log EXCEPT ![c] = "waits"]

(* DBGLogAndPublish *)
Lock(c) ==
    /\ Runs(c)
    /\ log[c] = "waits"
    /\ lock = {}
    /\ lock' = {c}
    /\ log' = [log EXCEPT ![c] = "holds"]
    /\ UNCHANGED <<g_appRunning, mainAt, consoleAt, lines, api, interrupted, signals>>

Unlock(c) ==
    /\ Runs(c)
    /\ log[c] = "holds"
    /\ lock' = {}
    /\ log' = [log EXCEPT ![c] = "out"]
    /\ UNCHANGED <<g_appRunning, mainAt, consoleAt, lines, api, interrupted, signals>>

(* DBG allocates before the log and frees after it: a handler on top of a  *)
(* context that was in the allocator waits for it for good.  Who else then *)
(* needs the allocator may wait too; here the others go on.                *)
AllocatorHangs(c) ==
    /\ Runs(c)
    /\ log[c] \in {"out", "waits"}
    /\ log' = [log EXCEPT ![c] = "hung"]
    /\ UNCHANGED <<g_appRunning, mainAt, consoleAt, lines, api, lock, interrupted, signals>>

-----------------------------------------------------------------------------
(* main *)

Main(from, to) == Ready(Body("main")) /\ mainAt = from /\ mainAt' = to

(* Mutant: the test for the instance is reversed. *)
SetIds_Reversed ==
    settings' = IF created THEN settings ELSE settings \cup {"roomId", "streamId"}

(* WebRTC_SetRoomId and WebRTC_SetStreamId do nothing without an instance, *)
(* WebRTC_SetSignalingServerURL makes one.                                 *)
SetIds == settings' = IF created THEN settings \cup {"roomId", "streamId"} ELSE settings

NoServerURL ==
    /\ Main("env", "noUrl")
    /\ Logs(Body("main"))
    /\ UNCHANGED <<g_appRunning, consoleAt, lines, api, lock, interrupted, signals>>

InstallHandlers ==
    /\ Main("env", "init")
    /\ UNCHANGED <<g_appRunning, consoleAt, lines, api, lock, log, interrupted, signals>>

WebRTC_Init ==
    /\ Main("init", "url")
    /\ created' = TRUE
    /\ UNCHANGED <<g_appRunning, consoleAt, lines, settings, lock, log, interrupted, signals>>

WebRTC_SetSignalingServerURL ==
    /\ Main("url", "ids")
    /\ created' = TRUE
    /\ settings' = settings \cup {"url"}
    /\ Logs(Body("main"))
    /\ UNCHANGED <<g_appRunning, consoleAt, lines, lock, interrupted, signals>>

WebRTC_SetIds ==
    /\ Main("ids", "start")
    /\ SetIds
    /\ UNCHANGED <<g_appRunning, consoleAt, lines, created, lock, log, interrupted, signals>>

WebRTC_Start2WayCommunication ==
    /\ \/ "url" \in settings /\ Main("start", "started")
       \/ Main("start", "failed")
    /\ Logs(Body("main"))
    /\ UNCHANGED <<g_appRunning, consoleAt, lines, api, lock, interrupted, signals>>

StartConsoleInputThread ==
    /\ Main("started", "running")
    /\ consoleAt' = "polling"
    /\ UNCHANGED <<g_appRunning, lines, api, lock, log, interrupted, signals>>

StopsRunning ==
    /\ ~g_appRunning
    /\ Main("running", "joining")
    /\ UNCHANGED <<g_appRunning, consoleAt, lines, api, lock, log, interrupted, signals>>

(* Mutant: the console thread is not waited for. *)
WebRTC_Stop2WayCommunication_NoJoin ==
    /\ Main("joining", "stopping")
    /\ Logs(Body("main"))
    /\ UNCHANGED <<g_appRunning, consoleAt, lines, api, lock, interrupted, signals>>

(* The console thread is joined, and the client stopped. *)
WebRTC_Stop2WayCommunication ==
    /\ consoleAt = "ended"
    /\ Main("joining", "stopping")
    /\ Logs(Body("main"))
    /\ UNCHANGED <<g_appRunning, consoleAt, lines, api, lock, interrupted, signals>>

LogsExited ==
    /\ Main("stopping", "exiting")
    /\ Logs(Body("main"))
    /\ UNCHANGED <<g_appRunning, consoleAt, lines, api, lock, interrupted, signals>>

Returns ==
    /\ Main("exiting", "done") \/ Main("failed", "done") \/ Main("noUrl", "done")
    /\ UNCHANGED <<g_appRunning, consoleAt, lines, api, lock, log, interrupted, signals>>

-----------------------------------------------------------------------------
(* The console thread *)

Console(from, to) == Ready(Body("console")) /\ consoleAt = from /\ consoleAt' = to

Polls ==
    /\ g_appRunning
    /\ Console("polling", "lines")
    /\ lines' \in 1..MaxLines
    /\ UNCHANGED <<g_appRunning, mainAt, api, lock, log, interrupted, signals>>

(* Mutant: the test is reversed. *)
ConsoleEnds_Reversed ==
    /\ g_appRunning
    /\ Console("polling", "ended")
    /\ UNCHANGED <<g_appRunning, mainAt, lines, api, lock, log, interrupted, signals>>

ConsoleEnds ==
    /\ ~g_appRunning
    /\ Console("polling", "ended")
    /\ UNCHANGED <<g_appRunning, mainAt, lines, api, lock, log, interrupted, signals>>

(* quit, or a message to send.  What follows a quit in one read is still   *)
(* sent.                                                                   *)
OnLine(isQuit) ==
    /\ lines > 0
    /\ Console("lines", "lines")
    /\ lines' = lines - 1
    /\ IF isQuit THEN g_appRunning' = FALSE /\ UNCHANGED log
       ELSE Logs(Body("console")) /\ UNCHANGED g_appRunning
    /\ UNCHANGED <<mainAt, api, lock, interrupted, signals>>

LinesDone ==
    /\ lines = 0
    /\ Console("lines", "polling")
    /\ UNCHANGED <<g_appRunning, mainAt, lines, api, lock, log, interrupted, signals>>

-----------------------------------------------------------------------------
(* Library threads and signals *)

LibraryLogs ==
    /\ mainAt \in {"started", "running", "joining", "stopping", "exiting"}
    /\ Ready(Body("library"))
    /\ Logs(Body("library"))
    /\ UNCHANGED <<g_appRunning, mainAt, consoleAt, lines, api, lock, interrupted, signals>>

Alive(t) == CASE t = "main" -> TRUE
              [] t = "console" -> consoleAt \in {"polling", "lines"}
              [] OTHER -> mainAt \notin {"env", "noUrl", "init", "url", "ids", "start", "failed"}

(* A handler begins with its log; its signal is masked in its thread while *)
(* it runs.                                                                *)
Signal(c, sig) ==
    /\ mainAt \notin {"env", "noUrl"}
    /\ Alive(c[1])
    /\ Runs(c)
    /\ signals < MaxSignals
    /\ \A d \in Of(c[1]) : interrupted[d] # sig
    /\ signals' = signals + 1
    /\ interrupted' = [interrupted EXCEPT ![c] = sig]
    /\ Logs(<<c[1], sig>>)
    /\ UNCHANGED <<g_appRunning, mainAt, consoleAt, lines, api, lock>>

HandlerEnds(c) ==
    /\ Ready(c)
    /\ g_appRunning' = FALSE
    /\ \E d \in Of(c[1]) :
          /\ interrupted[d] = c[2]
          /\ interrupted' = [interrupted EXCEPT ![d] = "none"]
    /\ UNCHANGED <<mainAt, consoleAt, lines, api, lock, log, signals>>

-----------------------------------------------------------------------------
MainSteps ==
    \/ NoServerURL \/ InstallHandlers \/ WebRTC_Init
    \/ WebRTC_SetSignalingServerURL \/ WebRTC_SetIds
    \/ WebRTC_Start2WayCommunication \/ StartConsoleInputThread
    \/ StopsRunning \/ WebRTC_Stop2WayCommunication \/ LogsExited \/ Returns

LineSteps == (\E isQuit \in BOOLEAN : OnLine(isQuit)) \/ LinesDone

ConsoleSteps == Polls \/ ConsoleEnds \/ LineSteps

Next ==
    \/ MainSteps
    \/ ConsoleSteps
    \/ LibraryLogs
    \/ \E c \in Contexts : Lock(c) \/ Unlock(c)
    \/ \E c \in Contexts, sig \in Signals : Signal(c, sig)
    \/ \E c \in Handlers : HandlerEnds(c) \/ AllocatorHangs(c)

(* Every thread that can go on does, and gets the lock in the end; nobody  *)
(* has to type, to log or to send a signal.                                *)
Fairness ==
    /\ WF_vars(MainSteps)
    /\ WF_vars(ConsoleEnds) /\ WF_vars(LineSteps)
    /\ \A c \in Contexts : SF_vars(Lock(c))
    /\ WF_vars(\E c \in Contexts : Unlock(c))
    /\ WF_vars(\E c \in Handlers : HandlerEnds(c))

Spec == Init /\ [][Next]_vars /\ Fairness

-----------------------------------------------------------------------------
(* Correctness *)

(* The client is started only with its server, its room and its name: the  *)
(* setters that need an instance find one.                                 *)
StartsConfigured ==
    mainAt \in {"started", "running", "joining", "stopping", "exiting"} =>
        created /\ settings = Settings

(* While the client is stopped, nobody sends through it any more. *)
ConsoleEndsFirst ==
    mainAt \in {"stopping", "exiting"} =>
        consoleAt = "ended" /\ log[Body("console")] = "out"

(* A handler waits for the lock that what it interrupts holds, ... *)
SelfLocked == \E c \in lock : interrupted[c] # "none"

(* ... or for the allocator. *)
AllocatorHung == \E c \in Handlers : log[c] = "hung"

(* Once quit or a signal has cleared g_appRunning, or the start failed, the *)
(* process ends, unless a handler waits for its own thread.                *)
ExitsUnlessHandlerHangs ==
    []~(SelfLocked \/ AllocatorHung) =>
        (~g_appRunning \/ mainAt \in {"noUrl", "failed"} ~> mainAt = "done")
=============================================================================
