--------------------------- MODULE TeardownProofs ---------------------------
(***************************************************************************)
(* Proofs about Teardown: whatever the callbacks do meanwhile, a Stop that *)
(* returns leaves nothing running but the onOpen of a local track, and the *)
(* signaling context is destroyed after the last callback that could use   *)
(* it.  However many callbacks run at the same time.                       *)
(***************************************************************************)
EXTENDS Teardown, TLAPS

USE DEF vars

(* A callback is under m_stateMutex exactly while its thread holds it. *)
HoldsState ==
    \A c \in Callbacks : at[c] \in {"locked", "checked", "pushing"} <=> owner = c

(* The API thread holds m_stateMutex exactly while it resets callbacks. *)
ApiHolds == owner = Api <=> stop = "reset"

(* Only a callback that is set runs: resetting it waits for it. *)
RunningIsSet == \A c \in Callbacks : at[c] # "idle" => c \in attached

(* What was reset stays reset: setting a callback needs m_stateMutex. *)
ResetStays ==
    stop = "reset" =>
        \A c \in attached \ {Open} : \E i \in next..Len(ResetOrder) : ResetOrder[i] = c

IInv ==
    /\ TypeOK
    /\ HoldsState
    /\ ApiHolds
    /\ RunningIsSet
    /\ ResetStays
    /\ StalePushOverAtLock
    /\ stop = "idle" => attached \subseteq {Open}
    /\ stop # "idle" => ctx

-----------------------------------------------------------------------------
(* The names of the callbacks, apart from each other. *)
LEMMA Names ==
    /\ Ws \in Callbacks /\ Media \in Callbacks /\ Open \in Callbacks
    /\ Media # Ws
    /\ Media # Open /\ Media \notin Unlocked
    /\ Ws # Open /\ Ws \notin Unlocked
    /\ Open \in Unlocked
    /\ Api \notin Callbacks /\ Nobody \notin Callbacks /\ Api # Nobody
    /\ OwnPc \subseteq Callbacks /\ Removed \subseteq Callbacks
    /\ Own("text") \in Callbacks
  BY DEF Callbacks, OwnPc, Removed, RemotePc, PcKinds, Own, Remote, Open, Media, Ws,
         Unlocked, Api, Nobody

(* cleanupResources resets every callback but the local tracks' onOpen. *)
LEMMA ResetOrderFacts ==
    /\ Len(ResetOrder) = 12
    /\ \A i \in 1..12 : ResetOrder[i] \in Callbacks
    /\ \A c \in Callbacks \ {Open} : \E i \in 1..12 : ResetOrder[i] = c
<1>1. /\ ResetOrder[1] = Own("track") /\ ResetOrder[2] = Own("candidate")
      /\ ResetOrder[3] = Remote("track") /\ ResetOrder[4] = Remote("candidate")
      /\ ResetOrder[5] = Own("channel") /\ ResetOrder[6] = Own("ice")
      /\ ResetOrder[7] = Remote("channel") /\ ResetOrder[8] = Remote("ice")
      /\ ResetOrder[9] = Own("text") /\ ResetOrder[10] = Remote("text")
      /\ ResetOrder[11] = Media /\ ResetOrder[12] = Ws
      /\ Len(ResetOrder) = 12
  BY DEF ResetOrder
<1>2. \A i \in 1..12 : \/ i = 1 \/ i = 2 \/ i = 3 \/ i = 4 \/ i = 5 \/ i = 6
                       \/ i = 7 \/ i = 8 \/ i = 9 \/ i = 10 \/ i = 11 \/ i = 12
  OBVIOUS
<1>3. \A k \in PcKinds : Own(k) \in Callbacks /\ Remote(k) \in Callbacks
  BY DEF Callbacks, OwnPc, Removed, RemotePc
<1>4. Own("text") \in Callbacks /\ Remote("text") \in Callbacks
      /\ Media \in Callbacks /\ Ws \in Callbacks
  BY DEF Callbacks, Removed
<1>5. \A i \in 1..12 : ResetOrder[i] \in Callbacks
  BY <1>1, <1>2, <1>3, <1>4 DEF PcKinds
<1>6. \A c \in Callbacks \ {Open} :
         \/ \E k \in PcKinds : c = Own(k) \/ c = Remote(k)
         \/ c \in {Own("text"), Remote("text"), Media, Ws}
  BY DEF Callbacks, OwnPc, Removed, RemotePc
<1>7. \A c \in Callbacks \ {Open} : \E i \in 1..12 : ResetOrder[i] = c
  BY <1>1, <1>6 DEF PcKinds
<1> QED BY <1>1, <1>5, <1>7

LEMMA SetsType == \A c \in Callbacks : Sets(c) \subseteq Callbacks
  BY DEF Sets, Callbacks, Removed

(* Type correctness of the locks, the callbacks and the API thread. *)
LEMMA NextTypeOK == TypeOK /\ [Next]_vars => TypeOK'
<1> SUFFICES ASSUME TypeOK, [Next]_vars PROVE TypeOK'
  OBVIOUS
<1> USE ResetOrderFacts, Names DEF TypeOK
<1>1. CASE ApiSteps
  <2>1. CASE Start
    <3>1. attached' \subseteq Callbacks
      BY <2>1 DEF Start
    <3> QED BY <2>1, <3>1 DEF Start
  <2>2. CASE Leave
    BY <2>2 DEF Leave
  <2>3. CASE StopAudioPlayer
    BY <2>3 DEF StopAudioPlayer
  <2>4. CASE ResetGstManager
    BY <2>4 DEF ResetGstManager
  <2>5. CASE QuitMainLoop
    BY <2>5 DEF QuitMainLoop
  <2>6. CASE JoinMainThread
    BY <2>6 DEF JoinMainThread
  <2>7. CASE LockState
    BY <2>7 DEF LockState
  <2>8. CASE ResetNext
    BY <2>8 DEF ResetNext
  <2>9. CASE Finish
    BY <2>9 DEF Finish
  <2> QED BY <1>1, <2>1, <2>2, <2>3, <2>4, <2>5, <2>6, <2>7, <2>8, <2>9
          DEF ApiSteps, Cleanup
<1>2. CASE RunMainLoop
  BY <1>2 DEF RunMainLoop
<1>3. ASSUME NEW j \in Jobs, Receive(j) PROVE TypeOK'
  BY <1>3 DEF Receive
<1>4. ASSUME NEW c \in Callbacks, Enter(c) PROVE TypeOK'
  BY <1>4 DEF Enter
<1>5. ASSUME NEW c \in Callbacks, Thread(c) PROVE TypeOK'
  <2>1. CASE LockInCallback(c)
    BY <2>1 DEF LockInCallback, TakesLock
  <2>2. CASE EndUnlocked(c)
    BY <2>2 DEF EndUnlocked
  <2>3. CASE EndCallback(c)
    BY <2>3, SetsType DEF EndCallback, EndLocked
  <2>4. CASE MediaSteps
    <3>0. \A d \in Unlocked : d \in Callbacks /\ d # Media
      BY DEF Unlocked
    <3>1. CASE CheckGst
      BY <3>0, <3>1 DEF CheckGst
    <3>2. CASE PushAudioFrame
      BY <3>0, <3>2 DEF PushAudioFrame
    <3>3. CASE NoGst
      BY <3>0, <3>3 DEF NoGst, EndLocked
    <3>4. CASE EndMedia
      BY <3>0, <3>4 DEF EndMedia, EndLocked
    <3> QED BY <2>4, <3>1, <3>2, <3>3, <3>4 DEF MediaSteps
  <2>5. CASE EndFinish
    BY <2>5 DEF EndFinish, EndLocked
  <2>6. ASSUME NEW d \in Removed, RemoveCallback(d) PROVE TypeOK'
    BY <2>6 DEF RemoveCallback
  <2> QED BY <1>5, <2>1, <2>2, <2>3, <2>4, <2>5, <2>6 DEF Thread
<1>6. CASE UNCHANGED vars
  BY <1>6
<1> QED BY <1>1, <1>2, <1>3, <1>4, <1>5, <1>6 DEF Next

-----------------------------------------------------------------------------
LEMMA InitIInv == Init => IInv
<1> SUFFICES ASSUME Init PROVE IInv
  OBVIOUS
<1>1. at \in [Callbacks -> {"idle", "entered", "locked", "checked", "pushing"}]
  BY DEF Init
<1>2. next \in 1..(Len(ResetOrder) + 1)
  BY ResetOrderFacts DEF Init
<1>3. job \in Jobs /\ stop = "idle" /\ owner = Nobody /\ attached = {}
      /\ gst = FALSE /\ mainLoop = "none" /\ ctx = FALSE
  BY DEF Init, Jobs
<1>4. \A c \in Callbacks : at[c] = "idle" /\ owner # c
  BY Names DEF Init
<1>5. TypeOK
  BY <1>1, <1>2, <1>3, <1>4 DEF TypeOK, Unlocked
<1> QED BY <1>3, <1>4, <1>5, Names
    DEF IInv, HoldsState, ApiHolds, RunningIsSet, ResetStays, StalePushOverAtLock

LEMMA NextIInv == IInv /\ [Next]_vars => IInv'
<1> SUFFICES ASSUME IInv, [Next]_vars PROVE IInv'
  OBVIOUS
<1>t. TypeOK'
  BY NextTypeOK DEF IInv
<1> USE <1>t, ResetOrderFacts, Names
    DEF IInv, TypeOK, HoldsState, ApiHolds, RunningIsSet, ResetStays, StalePushOverAtLock
<1>1. CASE ApiSteps
  <2>1. CASE Start
    <3>1. attached \subseteq attached'
      BY <2>1 DEF Start
    <3> QED BY <2>1, <3>1 DEF Start
  <2>2. CASE Leave
    BY <2>2 DEF Leave
  <2>3. CASE StopAudioPlayer
    BY <2>3 DEF StopAudioPlayer
  <2>4. CASE ResetGstManager
    BY <2>4 DEF ResetGstManager
  <2>5. CASE QuitMainLoop
    BY <2>5 DEF QuitMainLoop
  <2>6. CASE JoinMainThread
    BY <2>6 DEF JoinMainThread
  <2>7. CASE LockState
    BY <2>7 DEF LockState
  <2>8. CASE ResetNext
    <3>1. \A c \in attached' \ {Open} : \E i \in next'..Len(ResetOrder) : ResetOrder[i] = c
      BY <2>8 DEF ResetNext
    <3> QED BY <2>8, <3>1 DEF ResetNext
  <2>9. CASE Finish
    <3>1. attached \subseteq {Open}
      BY <2>9 DEF Finish
    <3> QED BY <2>9, <3>1 DEF Finish
  <2> QED BY <1>1, <2>1, <2>2, <2>3, <2>4, <2>5, <2>6, <2>7, <2>8, <2>9
          DEF ApiSteps, Cleanup
<1>2. CASE RunMainLoop
  BY <1>2 DEF RunMainLoop
<1>3. ASSUME NEW j \in Jobs, Receive(j) PROVE IInv'
  BY <1>3 DEF Receive
<1>4. ASSUME NEW c \in Callbacks, Enter(c) PROVE IInv'
  BY <1>4 DEF Enter
<1>5. ASSUME NEW c \in Callbacks, Thread(c) PROVE IInv'
  <2>1. CASE LockInCallback(c)
    BY <2>1 DEF LockInCallback
  <2>2. CASE EndUnlocked(c)
    BY <2>2 DEF EndUnlocked
  <2>3. CASE EndCallback(c)
    <3>1. owner = c /\ stop # "reset" /\ stop # "idle"
      BY <2>3 DEF EndCallback
    <3> QED BY <2>3, <3>1 DEF EndCallback, EndLocked
  <2>4. CASE CheckGst \/ PushAudioFrame
    BY <2>4 DEF CheckGst, PushAudioFrame
  <2>5. CASE NoGst \/ EndMedia
    <3>1. owner = Media /\ stop # "reset"
      BY <2>5 DEF NoGst, EndMedia
    <3> QED BY <2>5, <3>1 DEF NoGst, EndMedia, EndLocked
  <2>6. CASE EndFinish
    <3>1. owner = Ws /\ stop # "reset"
      BY <2>6 DEF EndFinish
    <3> QED BY <2>6, <3>1 DEF EndFinish, EndLocked
  <2>7. ASSUME NEW d \in Removed, RemoveCallback(d) PROVE IInv'
    BY <2>7 DEF RemoveCallback
  <2> QED BY <1>5, <2>1, <2>2, <2>3, <2>4, <2>5, <2>6, <2>7 DEF Thread, MediaSteps
<1>6. CASE UNCHANGED vars
  BY <1>6
<1> QED BY <1>1, <1>2, <1>3, <1>4, <1>5, <1>6 DEF Next

LEMMA InductiveInvariant == Spec => []IInv
  BY InitIInv, NextIInv, PTL DEF Spec

-----------------------------------------------------------------------------
(* The locks, the callbacks and the API thread keep their types. *)
THEOREM TypeCorrect == Spec => []TypeOK
<1>1. IInv => TypeOK
  BY DEF IInv
<1> QED BY InductiveInvariant, <1>1, PTL

(* A Stop that returns leaves no callback set and none running but the     *)
(* local tracks' onOpen, whatever the callbacks set meanwhile.             *)
THEOREM OnlyOpenOutlivesStopHolds == Spec => []OnlyOpenOutlivesStop
<1>1. IInv => OnlyOpenOutlivesStop
  BY DEF IInv, RunningIsSet, OnlyOpenOutlivesStop
<1> QED BY InductiveInvariant, <1>1, PTL

(* m_signalingContext, used without a lock, outlives its users. *)
THEOREM ContextOutlivesCallbacksHolds == Spec => []ContextOutlivesCallbacks
<1>1. IInv => ContextOutlivesCallbacks
  BY DEF IInv, RunningIsSet, ContextOutlivesCallbacks
<1> QED BY InductiveInvariant, <1>1, PTL

(* A frame is pushed into a destroyed GstManager only before Stop takes    *)
(* m_stateMutex: the callback that is behind holds it.                     *)
THEOREM StalePushOverAtLockHolds == Spec => []StalePushOverAtLock
<1>1. IInv => StalePushOverAtLock
  BY DEF IInv
<1> QED BY InductiveInvariant, <1>1, PTL
=============================================================================
