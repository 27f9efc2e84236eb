------------------------------ MODULE Teardown ------------------------------
(***************************************************************************)
(* The locks of a session (WebRTCManager.cpp): m_stateMutex, and the mutex *)
(* that the library holds while a callback runs and while it is set or     *)
(* reset.  Conference takes a handler as one step; here its thread enters  *)
(* the callback, waits for m_stateMutex, and leaves, and cleanupResources  *)
(* and removePeerIfNotExist reset one callback after the other.            *)
(*                                                                         *)
(* A callback is what it is set on and its kind.  There are the client's   *)
(* own connection, made by Start, and one remote connection, which stands  *)
(* for all; "candidate" is onLocalDescription as well.  "text" is a chat   *)
(* message on the client's own data channel or on one the server opened,   *)
(* "media" an audio frame of a remote track, "open" the onOpen of a local  *)
(* track, and Ws the callbacks of the signaling socket.  Callbacks that do *)
(* nothing but log are left out, except onIceStateChange ("ice"), which    *)
(* nothing resets.                                                         *)
(***************************************************************************)
EXTENDS Naturals, Sequences, FiniteSets

CONSTANT MaxRunning      \* bound: callbacks that run at the same time

ASSUME RunningAssumption == MaxRunning \in Nat

Own(kind)    == <<"own", kind>>
Remote(kind) == <<"remote", kind>>
Open         == Own("open")
Media        == Remote("media")
Ws           == <<"socket", "message">>
Api          == <<"api", "cleanup">>         \* holds m_stateMutex in Stop
Nobody       == <<"nobody", "none">>

PcKinds == {"track", "candidate", "channel", "ice"}

OwnPc    == {Own(k) : k \in PcKinds}
RemotePc == {Remote(k) : k \in PcKinds}

(* What goes with the remote connection when play_finished removes it. *)
Removed == RemotePc \cup {Remote("text")}

Callbacks == OwnPc \cup {Own("text"), Open} \cup Removed \cup {Media, Ws}

Unlocked == {c \in Callbacks : c[2] \in {"candidate", "ice", "open"}}

(* The handlers of the socket: onJoinedRoomNotification and the like take  *)
(* no lock, an offer makes a connection, play_finished removes it, the     *)
(* others take m_stateMutex for a while.                                   *)
Jobs == {"plain", "brief", "offer", "finish"}

VARIABLES
    stop,         \* where the API thread is
    next,         \* cleanupResources: the callback it resets next
    owner,        \* who holds m_stateMutex
    at,           \* where the thread of each callback is
    job,          \* the socket handler that runs
    attached,     \* the callbacks that are set
    gst,          \* m_gstManager points to its object
    mainLoop,     \* the main loop of that object
    ctx           \* m_signalingContext exists

vars == <<stop, next, owner, at, job, attached, gst, mainLoop, ctx>>

(* Mutant of the next definition: remoteTracks.clear() is missing. *)
ResetOrder_NoTracks ==
    <<Own("track"), Own("candidate"), Remote("track"), Remote("candidate"),
      Own("channel"), Own("ice"), Remote("channel"), Remote("ice"),
      Own("text"), Remote("text"), Ws>>

(* cleanupResources: onTrack(nullptr), onLocalCandidate(nullptr) and       *)
(* onLocalDescription(nullptr) for each connection, pcs.clear() with what  *)
(* is left on them, the data channels' clear(), remoteTracks.clear(),      *)
(* Disconnect().  The local tracks' onOpen is not in it.                   *)
ResetOrder ==
    <<Own("track"), Own("candidate"), Remote("track"), Remote("candidate"),
      Own("channel"), Own("ice"), Remote("channel"), Remote("ice"),
      Own("text"), Remote("text"), Media, Ws>>

(* The threads, the callbacks and the lock keep their types: a callback    *)
(* that takes no lock is never behind one.                                 *)
TypeOK ==
    /\ stop \in {"idle", "running", "leave", "gst", "release", "join", "lock", "reset"}
    /\ next \in 1..(Len(ResetOrder) + 1)
    /\ owner \in {Nobody, Api} \cup Callbacks
    /\ at \in [Callbacks -> {"idle", "entered", "locked", "checked", "pushing"}]
    /\ \A c \in Unlocked : at[c] \in {"idle", "entered"}
    /\ job \in Jobs
    /\ attached \subseteq Callbacks
    /\ gst \in BOOLEAN
    /\ mainLoop \in {"none", "starting", "running", "quit"}
    /\ ctx \in BOOLEAN

Init ==
    /\ stop = "idle"
    /\ next = 1
    /\ owner = Nobody
    /\ at = [c \in Callbacks |-> "idle"]
    /\ job = "plain"
    /\ attached = {}
    /\ gst = FALSE
    /\ mainLoop = "none"
    /\ ctx = FALSE

-----------------------------------------------------------------------------
(* The API thread *)

(* The manager with its main loop, the publisher's connection with its     *)
(* data channel and, unless the client only plays, local tracks, and the   *)
(* socket's handlers.                                                      *)
Start ==
    /\ stop = "idle"
    /\ stop' = "running"
    /\ next' = 1
    /\ gst' = TRUE
    /\ mainLoop' = "starting"
    /\ ctx' = TRUE
    /\ \E tracks \in SUBSET {Open} :
          attached' = attached \cup OwnPc \cup {Own("text"), Ws} \cup tracks
    /\ UNCHANGED <<owner, at, job>>

(* The leave commands, without a lock. *)
Leave ==
    /\ stop = "running"
    /\ stop' = "leave"
    /\ UNCHANGED <<next, owner, at, job, attached, gst, mainLoop, ctx>>

(* stopAudioPlayer waits for a frame that is being pushed (mutex_). *)
StopAudioPlayer ==
    /\ stop = "leave"
    /\ at[Media] # "pushing"
    /\ stop' = "gst"
    /\ UNCHANGED <<next, owner, at, job, attached, gst, mainLoop, ctx>>

(* Mutant: the signaling context is destroyed here already. *)
ResetGstManager_AndContext ==
    /\ stop = "gst"
    /\ stop' = "release"
    /\ gst' = FALSE
    /\ ctx' = FALSE
    /\ UNCHANGED <<next, owner, at, job, attached, mainLoop>>

(* m_gstManager.reset(): the pointer goes first, then ~GstManager runs. *)
ResetGstManager ==
    /\ stop = "gst"
    /\ stop' = "release"
    /\ gst' = FALSE
    /\ UNCHANGED <<next, owner, at, job, attached, mainLoop, ctx>>

(* ~GstManager: stopAudioPlayer once more, and g_main_loop_quit, which a   *)
(* loop that does not run yet does not notice.                             *)
QuitMainLoop ==
    /\ stop = "release"
    /\ at[Media] # "pushing"
    /\ stop' = "join"
    /\ mainLoop' = IF mainLoop = "running" THEN "quit" ELSE mainLoop
    /\ UNCHANGED <<next, owner, at, job, attached, gst, ctx>>

(* mainThread_.join() *)
JoinMainThread ==
    /\ stop = "join"
    /\ mainLoop = "quit"
    /\ stop' = "lock"
    /\ mainLoop' = "none"
    /\ UNCHANGED <<next, owner, at, job, attached, gst, ctx>>

(* Mutant: the lock_guard of the second part is missing. *)
LockState_Free ==
    /\ stop = "lock"
    /\ owner' = Api
    /\ stop' = "reset"
    /\ next' = 1
    /\ UNCHANGED <<at, job, attached, gst, mainLoop, ctx>>

LockState ==
    /\ stop = "lock"
    /\ owner = Nobody
    /\ owner' = Api
    /\ stop' = "reset"
    /\ next' = 1
    /\ UNCHANGED <<at, job, attached, gst, mainLoop, ctx>>

(* Resetting a callback waits until it does not run. *)
ResetNext ==
    /\ stop = "reset"
    /\ next <= Len(ResetOrder)
    /\ at[ResetOrder[next]] = "idle"
    /\ attached' = attached \ {ResetOrder[next]}
    /\ next' = next + 1
    /\ UNCHANGED <<stop, owner, at, job, gst, mainLoop, ctx>>

(* m_signalingContext.reset(), and the locks go. *)
Finish ==
    /\ stop = "reset"
    /\ next > Len(ResetOrder)
    /\ ctx' = FALSE
    /\ owner' = Nobody
    /\ stop' = "idle"
    /\ UNCHANGED <<next, at, job, attached, gst, mainLoop>>

(* The main loop's thread gets to g_main_loop_run. *)
RunMainLoop ==
    /\ mainLoop = "starting"
    /\ mainLoop' = "running"
    /\ UNCHANGED <<stop, next, owner, at, job, attached, gst, ctx>>

-----------------------------------------------------------------------------
(* The callbacks *)

Running == {c \in Callbacks : at[c] # "idle"}

(* A connection runs its callbacks one at a time. *)
Enter(c) ==
    /\ c \in attached \ {Ws}
    /\ at[c] = "idle"
    /\ c \in OwnPc => \A d \in OwnPc : at[d] = "idle"
    /\ c \in RemotePc => \A d \in RemotePc : at[d] = "idle"
    /\ Cardinality(Running) < MaxRunning
    /\ at' = [at EXCEPT ![c] = "entered"]
    /\ UNCHANGED <<stop, next, owner, job, attached, gst, mainLoop, ctx>>

Receive(j) ==
    /\ Ws \in attached
    /\ at[Ws] = "idle"
    /\ at' = [at EXCEPT ![Ws] = "entered"]
    /\ job' = j
    /\ UNCHANGED <<stop, next, owner, attached, gst, mainLoop, ctx>>

(* Mutant: onLocalCandidate takes m_stateMutex, which Stop holds when it   *)
(* resets it.                                                              *)
TakesLock_Candidate(c) == c[2] \notin {"ice", "open"} /\ ~(c = Ws /\ job = "plain")

TakesLock(c) == c \notin Unlocked /\ ~(c = Ws /\ job = "plain")

LockInCallback(c) ==
    /\ at[c] = "entered"
    /\ TakesLock(c)
    /\ owner = Nobody
    /\ owner' = c
    /\ at' = [at EXCEPT ![c] = "locked"]
    /\ UNCHANGED <<stop, next, job, attached, gst, mainLoop, ctx>>

(* onLocalCandidate and the plain handlers use m_signalingContext, onOpen  *)
(* uses m_gstManager (see GstPipelines), and they end.                     *)
EndUnlocked(c) ==
    /\ at[c] = "entered"
    /\ ~TakesLock(c)
    /\ at' = [at EXCEPT ![c] = "idle"]
    /\ UNCHANGED <<stop, next, owner, job, attached, gst, mainLoop, ctx>>

EndLocked(c) ==
    /\ owner' = Nobody
    /\ at' = [at EXCEPT ![c] = "idle"]
    /\ UNCHANGED <<stop, next, job, gst, mainLoop, ctx>>

(* addRemoteTrack sets the track's onMessage, onDataChannel the channel's, *)
(* an offer those of the new connection; the others set none.              *)
Sets(c) ==
    CASE c[2] = "track" -> {Media}
      [] c[2] = "channel" -> {Remote("text")}
      [] c = Ws /\ job = "offer" -> RemotePc
      [] OTHER -> {}

EndCallback(c) ==
    /\ at[c] = "locked"
    /\ c # Media
    /\ ~(c = Ws /\ job = "finish")
    /\ attached' = attached \cup Sets(c)
    /\ EndLocked(c)

(* onMessage of a remote track: if (m_gstManager) ... pushAudioFrame. *)
CheckGst ==
    /\ at[Media] = "locked"
    /\ gst
    /\ at' = [at EXCEPT ![Media] = "checked"]
    /\ UNCHANGED <<stop, next, owner, job, attached, gst, mainLoop, ctx>>

(* Mutant: a return that does not release m_stateMutex. *)
NoGst_KeepsLock ==
    /\ at[Media] = "locked"
    /\ ~gst
    /\ at' = [at EXCEPT ![Media] = "idle"]
    /\ UNCHANGED <<stop, next, owner, job, attached, gst, mainLoop, ctx>>

NoGst ==
    /\ at[Media] = "locked"
    /\ ~gst
    /\ EndLocked(Media)
    /\ UNCHANGED attached

PushAudioFrame ==
    /\ at[Media] = "checked"
    /\ at' = [at EXCEPT ![Media] = "pushing"]
    /\ UNCHANGED <<stop, next, owner, job, attached, gst, mainLoop, ctx>>

EndMedia ==
    /\ at[Media] = "pushing"
    /\ EndLocked(Media)
    /\ UNCHANGED attached

(* removePeerIfNotExist in play_finished: the data channel's callback goes *)
(* first, then, in any order, those of the connection that is destroyed.   *)
RemoveCallback(c) ==
    /\ at[Ws] = "locked"
    /\ job = "finish"
    /\ c \in attached \cap Removed
    /\ c # Remote("text") => Remote("text") \notin attached
    /\ at[c] = "idle"
    /\ attached' = attached \ {c}
    /\ UNCHANGED <<stop, next, owner, at, job, gst, mainLoop, ctx>>

EndFinish ==
    /\ at[Ws] = "locked"
    /\ job = "finish"
    /\ attached \cap Removed = {}
    /\ EndLocked(Ws)
    /\ UNCHANGED attached

-----------------------------------------------------------------------------
Cleanup ==
    \/ StopAudioPlayer \/ ResetGstManager \/ QuitMainLoop \/ JoinMainThread
    \/ LockState \/ ResetNext \/ Finish

ApiSteps == Start \/ Leave \/ Cleanup

MediaSteps == CheckGst \/ NoGst \/ PushAudioFrame \/ EndMedia

(* What the thread of a callback does once it runs. *)
Thread(c) ==
    \/ LockInCallback(c) \/ EndUnlocked(c) \/ EndCallback(c)
    \/ c = Media /\ MediaSteps
    \/ c = Ws /\ (EndFinish \/ \E d \in Removed : RemoveCallback(d))

Next ==
    \/ ApiSteps
    \/ RunMainLoop
    \/ \E j \in Jobs : Receive(j)
    \/ \E c \in Callbacks : Enter(c) \/ Thread(c)

Holder == \E c \in Callbacks : owner = c /\ Thread(c)

(* Stop and the socket's thread get a mutex that is free again and again;  *)
(* a callback that has m_stateMutex, or needs none, goes on.  Nothing makes *)
(* the network call back or the application start and stop.                *)
Fairness ==
    /\ SF_vars(Cleanup)
    /\ SF_vars(Thread(Ws))
    /\ WF_vars(Holder)
    /\ WF_vars(\E c \in OwnPc : EndUnlocked(c))
    /\ WF_vars(\E c \in RemotePc : EndUnlocked(c))

Spec == Init /\ [][Next]_vars /\ Fairness

-----------------------------------------------------------------------------
(* Correctness *)

(* When Stop has returned, nothing of the session is set or runs any more  *)
(* but, if the client published, the onOpen of its local tracks, for which *)
(* no step of Stop waits: whatever else captures this is done with it.     *)
OnlyOpenOutlivesStop ==
    stop = "idle" =>
        /\ attached \subseteq {Open}
        /\ \A c \in Callbacks \ {Open} : at[c] = "idle"

(* Callbacks use m_signalingContext without a lock; it outlives them.  (An *)
(* onOpen that outlives Stop does not use it.)                             *)
ContextOutlivesCallbacks ==
    (\E c \in Callbacks \ {Open} : at[c] # "idle") => ctx

(* The holder of m_stateMutex resets a callback whose thread waits for     *)
(* m_stateMutex.                                                           *)
Inversion ==
    \E c \in Callbacks :
        /\ at[c] = "entered"
        /\ TakesLock(c)
        /\ \/ stop = "reset" /\ next <= Len(ResetOrder) /\ ResetOrder[next] = c
           \/ at[Ws] = "locked" /\ job = "finish" /\ c \in Removed

(* The destructor of the manager waits for a main loop that was told to    *)
(* quit before it ran.                                                     *)
QuitLost == stop = "join" /\ mainLoop # "quit"

(* Stop returns, unless the two locks are taken in the two orders or the   *)
(* main loop has missed its quit: there is no third way for it to hang.    *)
StopReturnsUnlessBlocked ==
    []~(Inversion \/ QuitLost) => (stop = "leave" ~> stop = "idle")

(* A handler of the signaling socket, play_finished among them, gets done  *)
(* unless the two locks are taken in the two orders; a Stop that waits for *)
(* the main loop for ever does not keep it from that.                      *)
HandlersEndUnlessInverted == []~Inversion => (at[Ws] # "idle" ~> at[Ws] = "idle")

(* Stop destroys m_gstManager without m_stateMutex: a callback that checked *)
(* it before may push into it after.  That is over before Stop has          *)
(* m_stateMutex: none of the callbacks it resets uses a destroyed manager.  *)
StalePushOverAtLock ==
    at[Media] \in {"checked", "pushing"} /\ ~gst => stop \in {"release", "join", "lock"}
=============================================================================
