------------------------- MODULE GstPipelinesProofs -------------------------
(***************************************************************************)
(* Proofs about GstPipelines: its types, that no pipeline is lost, that    *)
(* the player outlives the pushing of a frame, and that the destroyed      *)
(* manager leaves nothing that plays.                                      *)
(***************************************************************************)
EXTENDS GstPipelines, TLAPS

USE DEF pipelines, opening, mainLoop, vars

(* mutex_ is held by the thread that works under it. *)
HoldsMutex ==
    /\ mutex = "push" <=> push = "pushing"
    /\ mutex \in {"api", "open"} <=> starting # "no"
    /\ mutex = "api" => api \in StartSteps
    /\ mutex = "open" => open = "written"

(* Between the test of the member and its assignment nobody assigns it. *)
StartsOnce ==
    starting = "parse" =>
        /\ mutex = "api" => pipe[api] = "none"
        /\ mutex = "open" => pipe[openKind] = "none"

(* audioAppSrc_ is an element of a player that plays. *)
SourceOfPlayer == appSrc => pipe["player"] = "playing"

(* The player is started once, before anything is pushed. *)
PlayerNotStarted == api \in StartSteps => ~appSrc /\ pipe["player"] \in {"none", "built"}

IInv ==
    /\ TypeOK
    /\ NoPipelineLost
    /\ PlayerOutlivesPush
    /\ HoldsMutex
    /\ StartsOnce
    /\ SourceOfPlayer
    /\ PlayerNotStarted

LEMMA InitIInv == Init => IInv
<1> SUFFICES ASSUME Init PROVE IInv
  OBVIOUS
<1> USE DEF Streamed, Kinds, StartSteps, StopSteps
<1>1. TypeOK
  BY DEF Init, TypeOK
<1>2. NoPipelineLost /\ PlayerOutlivesPush /\ HoldsMutex
  BY DEF Init, NoPipelineLost, PlayerOutlivesPush, HoldsMutex
<1>3. StartsOnce /\ SourceOfPlayer /\ PlayerNotStarted
  BY DEF Init, StartsOnce, SourceOfPlayer, PlayerNotStarted
<1> QED BY <1>1, <1>2, <1>3 DEF IInv

(* The start functions, of either thread. *)
LEMMA StartKeepsIInv ==
    ASSUME IInv, NEW t \in {"api", "open"}, NEW k \in Kinds,
           \/ FindsStarted(t, k) \/ FindsNone(t, k)
           \/ ParseLaunch(t, k) \/ SetPlaying(t, k)
    PROVE  IInv'
<1> USE DEF IInv, TypeOK, NoPipelineLost, PlayerOutlivesPush, HoldsMutex, StartsOnce,
            SourceOfPlayer, PlayerNotStarted, Starts, Streamed, Kinds, StartSteps, StopSteps
<1>1. CASE FindsStarted(t, k)
  BY <1>1 DEF FindsStarted, GoesOn
<1>2. CASE FindsNone(t, k)
  BY <1>2 DEF FindsNone
<1>3. CASE ParseLaunch(t, k)
  <2>1. PICK result \in {"none", "built"} \cup (IF k = "player" THEN {} ELSE {"broken"}) :
          /\ pipe' = [pipe EXCEPT ![k] = result]
          /\ live' = [live EXCEPT ![k] = IF result = "none" THEN @ ELSE @ + 1]
          /\ IF result = "built" \/ k = "player"
             THEN starting' = "play" /\ UNCHANGED <<mutex, api, opening>>
             ELSE starting' = "no" /\ mutex' = "none" /\ GoesOn(t)
    BY <1>3 DEF ParseLaunch
  <2>2. pipe[k] = "none" /\ live[k] = 0 /\ mutex = t /\ starting = "parse"
    BY <1>3 DEF ParseLaunch
  <2>3. TypeOK' /\ NoPipelineLost'
    BY <1>3, <2>1, <2>2 DEF ParseLaunch, GoesOn
  <2>4. (PlayerOutlivesPush /\ HoldsMutex /\ StartsOnce)'
    BY <1>3, <2>1, <2>2 DEF ParseLaunch, GoesOn
  <2>5. (SourceOfPlayer /\ PlayerNotStarted)'
    BY <1>3, <2>1, <2>2 DEF ParseLaunch, GoesOn
  <2> QED BY <2>3, <2>4, <2>5
<1>4. CASE SetPlaying(t, k)
  <2>1. TypeOK' /\ NoPipelineLost'
    BY <1>4 DEF SetPlaying, GoesOn
  <2>2. (PlayerOutlivesPush /\ HoldsMutex /\ StartsOnce)'
    BY <1>4 DEF SetPlaying, GoesOn
  <2>3. (SourceOfPlayer /\ PlayerNotStarted)'
    BY <1>4 DEF SetPlaying, GoesOn
  <2> QED BY <2>1, <2>2, <2>3
<1> QED BY <1>1, <1>2, <1>3, <1>4

(* Stop, the callbacks and the main loop: the types, ... *)
LEMMA OtherKeepTypeOK ==
    ASSUME IInv,
           \/ Stop \/ Destroy
           \/ (\E k \in Streamed : OnOpen(k)) \/ WriteCallback \/ CallbackWritten
           \/ \E k \in Streamed : TakeSample(k) \/ SampleSent(k)
           \/ TrackMessage \/ Pushes
           \/ LoopRuns \/ LoopEnds
    PROVE  TypeOK'
<1> USE DEF IInv, TypeOK
<1>1. CASE Stop
  BY <1>1 DEF Stop, StopSteps
<1>2. CASE StopAudioPlayer
  <2>1. "player" \in Kinds
    BY DEF Kinds
  <2>2. live' \in [Kinds -> Nat]
    BY <1>2, <2>1 DEF StopAudioPlayer, Release, NoPipelineLost
  <2> QED BY <1>2, <2>2 DEF StopAudioPlayer, Release, StopSteps
<1>3. ASSUME NEW k \in Streamed, StopStream(k) PROVE TypeOK'
  <2>1. k \in Kinds
    BY DEF Kinds
  <2>2. live' \in [Kinds -> Nat]
    BY <1>3, <2>1 DEF StopStream, Release, NoPipelineLost
  <2> QED BY <1>3, <2>2 DEF StopStream, Release, StopSteps
<1>4. CASE Quit \/ Join \/ LoopRuns \/ LoopEnds
  <2>1. CASE Quit
    BY <2>1 DEF Quit, StopSteps
  <2>2. CASE Join
    BY <2>2 DEF Join
  <2>3. CASE LoopRuns
    BY <2>3 DEF LoopRuns
  <2>4. CASE LoopEnds
    BY <2>4 DEF LoopEnds
  <2> QED BY <1>4, <2>1, <2>2, <2>3, <2>4
<1>5. ASSUME NEW k \in Streamed, OnOpen(k) PROVE TypeOK'
  BY <1>5 DEF OnOpen
<1>6. CASE WriteCallback \/ CallbackWritten
  <2>1. CASE WriteCallback
    BY <2>1 DEF WriteCallback
  <2>2. CASE CallbackWritten
    BY <2>2 DEF CallbackWritten
  <2> QED BY <1>6, <2>1, <2>2
<1>7. ASSUME NEW k \in Streamed, TakeSample(k) \/ SampleSent(k) PROVE TypeOK'
  BY <1>7 DEF TakeSample, SampleSent
<1>8. CASE TrackMessage \/ Pushes
  BY <1>8 DEF TrackMessage, Pushes, PushAudioFrame, FramePushed
<1> QED BY <1>1, <1>2, <1>3, <1>4, <1>5, <1>6, <1>7, <1>8 DEF Destroy

(* ... and what each of them may disturb of the rest. *)
Rest ==
    /\ NoPipelineLost
    /\ PlayerOutlivesPush
    /\ HoldsMutex
    /\ StartsOnce
    /\ SourceOfPlayer
    /\ PlayerNotStarted

LEMMA NextIInv == IInv /\ [Next]_vars => IInv'
<1> SUFFICES ASSUME IInv, [Next]_vars PROVE IInv'
  OBVIOUS
<1>1. ASSUME NEW t \in {"api", "open"}, Starting(t) PROVE IInv'
  BY <1>1, StartKeepsIInv DEF Starting
<1> USE DEF IInv, Rest, NoPipelineLost, PlayerOutlivesPush, HoldsMutex, StartsOnce,
            SourceOfPlayer, PlayerNotStarted
<1> USE DEF Streamed, Kinds, StartSteps, StopSteps
<1>2. CASE Stop
  <2>1. Rest'
    BY <1>2 DEF Stop
  <2> QED BY <2>1, <1>2, OtherKeepTypeOK
<1>3. CASE Destroy
  <2>1. CASE StopAudioPlayer
    <3>1. /\ pipe' = [pipe EXCEPT !["player"] = "none"]
          /\ live' = [live EXCEPT !["player"] =
                         IF pipe["player"] = "none" THEN @ ELSE @ - 1]
          /\ api' \notin StartSteps /\ appSrc' = (appSrc /\ pipe["player"] = "none")
      BY <2>1 DEF StopAudioPlayer, Release
    <3>3. NoPipelineLost'
      BY <3>1 DEF TypeOK
    <3>4. ~appSrc' /\ PlayerNotStarted'
      BY <3>1 DEF TypeOK
    <3>2. PlayerOutlivesPush' /\ HoldsMutex' /\ StartsOnce'
      BY <2>1 DEF StopAudioPlayer, TypeOK
    <3> QED BY <3>2, <3>3, <3>4, <1>3, OtherKeepTypeOK
  <2>2. ASSUME NEW k \in Streamed, StopStream(k) PROVE Rest'
    <3>1. /\ pipe' = [pipe EXCEPT ![k] = "none"]
          /\ live' = [live EXCEPT ![k] = IF pipe[k] = "none" THEN @ ELSE @ - 1]
          /\ api' \notin StartSteps /\ UNCHANGED appSrc
      BY <2>2 DEF StopStream, Release
    <3>3. NoPipelineLost'
      BY <3>1 DEF TypeOK
    <3>4. SourceOfPlayer' /\ PlayerNotStarted'
      BY <3>1 DEF TypeOK
    <3>2. PlayerOutlivesPush' /\ HoldsMutex' /\ StartsOnce'
      BY <2>2 DEF StopStream, Release, TypeOK
    <3> QED BY <3>2, <3>3, <3>4
  <2>3. ASSUME Quit \/ Join PROVE Rest'
    BY <2>3 DEF Quit, Join
  <2> QED BY <1>3, <2>1, <2>2, <2>3, OtherKeepTypeOK DEF Destroy
<1>4. CASE (\E k \in Streamed : OnOpen(k)) \/ WriteCallback \/ CallbackWritten
  <2>1. Rest'
    BY <1>4 DEF OnOpen, WriteCallback, CallbackWritten, TypeOK
  <2> QED BY <2>1, <1>4, OtherKeepTypeOK
<1>5. CASE \E k \in Streamed : TakeSample(k) \/ SampleSent(k)
  <2>1. Rest'
    BY <1>5 DEF TakeSample, SampleSent
  <2> QED BY <2>1, <1>5, OtherKeepTypeOK
<1>6. CASE TrackMessage \/ Pushes
  <2>1. Rest'
    BY <1>6 DEF TrackMessage, Pushes, PushAudioFrame, FramePushed, TypeOK
  <2> QED BY <2>1, <1>6, OtherKeepTypeOK
<1>7. CASE LoopRuns \/ LoopEnds
  <2>1. Rest'
    BY <1>7 DEF LoopRuns, LoopEnds
  <2> QED BY <2>1, <1>7, OtherKeepTypeOK
<1>8. CASE UNCHANGED vars
  BY <1>8 DEF TypeOK
<1> QED BY <1>1, <1>2, <1>3, <1>4, <1>5, <1>6, <1>7, <1>8 DEF Next, Opens

LEMMA InductiveInvariant == Spec => []IInv
  BY InitIInv, NextIInv, PTL DEF Spec

(* Every variable of the manager and its threads keeps its type. *)
THEOREM TypeCorrect == Spec => []TypeOK
<1>1. IInv => TypeOK
  BY DEF IInv
<1> QED BY InductiveInvariant, <1>1, PTL

(* Whoever starts what: a pipeline that exists is the one its member       *)
(* points to, so that stopVideo, stopAudio and stopAudioPlayer reach it.   *)
THEOREM NoPipelineLostHolds == Spec => []NoPipelineLost
<1>1. IInv => NoPipelineLost
  BY DEF IInv
<1> QED BY InductiveInvariant, <1>1, PTL

(* mutex_ keeps the player and its source while a frame is pushed. *)
THEOREM PlayerOutlivesPushHolds == Spec => []PlayerOutlivesPush
<1>1. IInv => PlayerOutlivesPush
  BY DEF IInv
<1> QED BY InductiveInvariant, <1>1, PTL
-----------------------------------------------------------------------------
(* What the destructor leaves, while no onOpen overlaps it *)

(* A streaming thread sends only while its pipeline plays: set_state(NULL) *)
(* waits for it.                                                           *)
SenderPlays == \A k \in Streamed : frame[k] = "sending" => pipe[k] = "playing"

(* How far Stop and the destructor are tells what is released already, and *)
(* nobody starts it again.                                                 *)
ReleasedSoFar ==
    /\ ~Pointed => pipe["player"] = "none"
    /\ ~Pointed /\ api # "stopVideo" => pipe["video"] = "none"
    /\ ~Pointed /\ api \notin {"stopVideo", "stopAudio"} => pipe["audio"] = "none"

Quiet == SenderPlays /\ ReleasedSoFar

LEMMA InitQuiet == Init => Quiet
  BY DEF Init, Quiet, SenderPlays, ReleasedSoFar, Pointed, StartSteps, Streamed

(* A start function: for the API thread the manager is still pointed to,   *)
(* and onOpen starts nothing while it overlaps no destruction.             *)
LEMMA StartKeepsQuiet ==
    ASSUME IInv, Quiet, ~OpenOverlapsDestroy, NEW t \in {"api", "open"}, NEW k \in Kinds,
           \/ FindsStarted(t, k) \/ FindsNone(t, k)
           \/ ParseLaunch(t, k) \/ SetPlaying(t, k)
    PROVE  Quiet'
<1> USE DEF IInv, TypeOK, Quiet
<1>1. Pointed
  BY DEF FindsStarted, FindsNone, ParseLaunch, SetPlaying, Starts, OpenOverlapsDestroy,
         Pointed, StartSteps, Kinds, Streamed
<1>2. Pointed'
  BY <1>1 DEF FindsStarted, FindsNone, ParseLaunch, SetPlaying, GoesOn, Starts, Pointed,
              StartSteps, Kinds, Streamed
<1>3. ReleasedSoFar'
  BY <1>2 DEF ReleasedSoFar, Pointed
<1>4. CASE FindsStarted(t, k) \/ FindsNone(t, k)
  BY <1>3, <1>4 DEF FindsStarted, FindsNone, SenderPlays
<1>5. CASE ParseLaunch(t, k)
  <2>1. pipe[k] = "none" /\ \A j \in Kinds : j # k => pipe'[j] = pipe[j]
    BY <1>5 DEF ParseLaunch, Starts, HoldsMutex, StartsOnce
  <2>2. \A j \in Streamed : frame'[j] = "sending" => j # k /\ pipe[j] = "playing"
    BY <1>5, <2>1 DEF ParseLaunch, SenderPlays
  <2> QED BY <1>3, <2>1, <2>2 DEF SenderPlays, Kinds
<1>6. CASE SetPlaying(t, k)
  <2>1. \A j \in Kinds : pipe[j] = "playing" => pipe'[j] = "playing"
    BY <1>6 DEF SetPlaying
  <2> QED BY <1>3, <1>6, <2>1 DEF SetPlaying, SenderPlays, Kinds
<1> QED BY <1>4, <1>5, <1>6

(* Every other step, whoever takes it. *)
LEMMA NextQuiet == IInv /\ ~OpenOverlapsDestroy /\ Quiet /\ [Next]_vars => Quiet'
<1> SUFFICES ASSUME IInv, ~OpenOverlapsDestroy, Quiet, [Next]_vars PROVE Quiet'
  OBVIOUS
<1>1. ASSUME NEW t \in {"api", "open"}, Starting(t) PROVE Quiet'
  BY <1>1, StartKeepsQuiet DEF Starting
<1> USE DEF IInv, TypeOK, Quiet, ReleasedSoFar, Pointed, StartSteps, StopSteps
<1>2. CASE Stop
  BY <1>2 DEF Stop, SenderPlays
<1>3. CASE StopAudioPlayer
  <2>1. /\ pipe' = [pipe EXCEPT !["player"] = "none"] /\ UNCHANGED frame
        /\ \/ api = "stopPlayer" /\ api' = "stopVideo"
           \/ api = "stopPlayerAgain" /\ api' = "quit"
    BY <1>3 DEF StopAudioPlayer, Release
  <2>2. "player" \in Kinds /\ \A k \in Streamed : k \in Kinds /\ k # "player"
    BY DEF Kinds, Streamed
  <2>3. SenderPlays'
    BY <2>1, <2>2 DEF SenderPlays
  <2>4. ReleasedSoFar'
    BY <2>1, <2>2 DEF Kinds, Streamed
  <2> QED BY <2>3, <2>4
<1>4. ASSUME NEW k \in Streamed, StopStream(k) PROVE Quiet'
  <2>1. /\ pipe' = [pipe EXCEPT ![k] = "none"] /\ UNCHANGED frame /\ frame[k] = "idle"
        /\ \/ k = "video" /\ api = "stopVideo" /\ api' = "stopAudio"
           \/ k = "audio" /\ api = "stopAudio" /\ api' = "stopPlayerAgain"
    BY <1>4 DEF StopStream, Release, Streamed
  <2>2. \A j \in Streamed : j # k => pipe'[j] = pipe[j]
    BY <2>1 DEF Kinds
  <2>3. SenderPlays'
    BY <2>1, <2>2 DEF SenderPlays
  <2>4. ReleasedSoFar'
    BY <2>1 DEF Kinds, Streamed
  <2> QED BY <2>3, <2>4
<1>5. CASE Quit \/ Join
  BY <1>5 DEF Quit, Join, SenderPlays
<1>6. CASE (\E k \in Streamed : OnOpen(k)) \/ WriteCallback \/ CallbackWritten
  BY <1>6 DEF OnOpen, WriteCallback, CallbackWritten, SenderPlays
<1>7. ASSUME NEW k \in Streamed, TakeSample(k) \/ SampleSent(k) PROVE Quiet'
  <2>1. UNCHANGED <<api, pipe>>
    BY <1>7 DEF TakeSample, SampleSent
  <2>2. SenderPlays'
    BY <1>7 DEF TakeSample, SampleSent, SenderPlays
  <2> QED BY <2>1, <2>2
<1>8. CASE TrackMessage \/ Pushes \/ LoopRuns \/ LoopEnds
  BY <1>8 DEF TrackMessage, Pushes, PushAudioFrame, FramePushed, LoopRuns, LoopEnds, SenderPlays
<1>9. CASE UNCHANGED vars
  BY <1>9 DEF SenderPlays
<1> QED BY <1>1, <1>2, <1>3, <1>4, <1>5, <1>6, <1>7, <1>8, <1>9 DEF Next, Opens, Destroy

(* The destroyed manager leaves no pipeline and no streaming thread        *)
(* behind, unless an onOpen that had seen it goes on meanwhile.            *)
THEOREM NothingLeftPlayingHolds == Spec => NothingLeftPlaying
<1>1. IInv /\ Quiet => (api = "freed" => \A k \in Kinds :
         live[k] = 0 /\ (k \in Streamed => frame[k] = "idle"))
  BY DEF IInv, TypeOK, NoPipelineLost, Quiet, SenderPlays, ReleasedSoFar, Pointed,
         StartSteps, Kinds, Streamed
<1> QED BY InductiveInvariant, InitQuiet, NextQuiet, <1>1, PTL DEF Spec, NothingLeftPlaying
=============================================================================
