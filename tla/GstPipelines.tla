---------------------------- MODULE GstPipelines ----------------------------
(***************************************************************************)
(* The life of one GstManager (GstManager.cpp): Start makes it and starts  *)
(* its pipelines, the local tracks' onOpen sets the frame callbacks and    *)
(* starts them again, GStreamer's streaming threads deliver frames, remote *)
(* tracks push audio, a thread runs the main loop, and Stop destroys it.   *)
(*                                                                         *)
(* The start functions, pushAudioFrame and stopAudioPlayer hold mutex_;    *)
(* stopVideo, stopAudio, the frame callbacks and m_gstManager itself have  *)
(* no lock.  A thread that would use the manager after it is freed takes   *)
(* no further step: what it does then is undefined.                        *)
(*                                                                         *)
(* Left out: what the pipelines contain and the frames themselves, and the *)
(* Annex B and AAC callbacks, which nothing sets.                          *)
(***************************************************************************)
EXTENDS Naturals

Streamed == {"video", "audio"}               \* with a streaming thread and a callback
Kinds    == Streamed \cup {"player"}

VARIABLES
    publisher,    \* Start was called for a publisher
    api,          \* where the API thread is: starting a kind, in the session, in Stop
    open,         \* where the local tracks' onOpen is
    openKind,     \* for which track
    opened,       \* the tracks whose onOpen was called
    mutex,        \* who holds mutex_
    starting,     \* how far the holder is in a start function
    pipe,         \* videoPipeline_, audioPipeline_, audioPlayerPipeline_
    live,         \* the pipelines of each kind that exist
    appSrc,       \* audioAppSrc_ is set
    cb,           \* onVideoRTPFrame_, onAudioRTPFrame_
    frame,        \* where the streaming threads are
    push,         \* where the remote track's onMessage is
    mainThread,   \* mainThread_
    isRunning     \* the flag of mainLoop_

pipelines == <<pipe, live, appSrc>>
opening   == <<open, openKind, opened>>
mainLoop  == <<mainThread, isRunning>>
vars == <<publisher, api, opening, mutex, starting, pipelines, cb, frame, push, mainLoop>>

StartSteps == {"video", "audio", "player"}
StopSteps  == {"stopPlayer", "stopVideo", "stopAudio", "stopPlayerAgain", "quit", "join"}

(* The threads and what they share keep their types. *)
TypeOK ==
    /\ publisher \in BOOLEAN
    /\ api \in StartSteps \cup {"running", "freed"} \cup StopSteps
    /\ open \in {"idle", "checked", "writing", "written"}
    /\ openKind \in Streamed
    /\ opened \subseteq Streamed
    /\ mutex \in {"none", "api", "open", "push"}
    /\ starting \in {"no", "parse", "play"}
    /\ pipe \in [Kinds -> {"none", "built", "broken", "playing"}]
    /\ live \in [Kinds -> Nat]
    /\ appSrc \in BOOLEAN
    /\ cb \in [Streamed -> {"none", "writing", "set"}]
    /\ frame \in [Streamed -> {"idle", "sending"}]
    /\ push \in {"idle", "entered", "pushing"}
    /\ mainThread \in {"none", "starting", "running", "ended"}
    /\ isRunning \in BOOLEAN

Init ==
    /\ publisher \in BOOLEAN
    /\ api = IF publisher THEN "video" ELSE "player"
    /\ open = "idle"
    /\ openKind = "video"
    /\ opened = {}
    /\ mutex = "none"
    /\ starting = "no"
    /\ pipe = [k \in Kinds |-> "none"]
    /\ live = [k \in Kinds |-> 0]
    /\ appSrc = FALSE
    /\ cb = [k \in Streamed |-> "none"]
    /\ frame = [k \in Streamed |-> "idle"]
    /\ push = "idle"
    /\ mainThread = "none"
    /\ isRunning = FALSE

(* m_gstManager points to the manager: reset() clears the pointer before   *)
(* it runs the destructor.                                                 *)
Pointed == api \in StartSteps \cup {"running", "stopPlayer"}

-----------------------------------------------------------------------------
(* startVideo, startAudio and startAudioPlayer *)

(* Thread t is to start kind k, and goes on when that is done. *)
Starts(t, k) ==
    \/ t = "api" /\ api = k
    \/ t = "open" /\ open = "written" /\ openKind = k /\ api # "freed"

GoesOn(t) ==
    IF t = "api"
    THEN /\ api' = CASE api = "video" -> "audio"
                     [] api = "audio" -> "player"
                     [] OTHER -> "running"
         /\ UNCHANGED opening
    ELSE /\ open' = "idle"
         /\ UNCHANGED <<api, openKind, opened>>

(* if (videoPipeline_) return; *)
FindsStarted(t, k) ==
    /\ Starts(t, k)
    /\ mutex = "none"
    /\ pipe[k] # "none"
    /\ GoesOn(t)
    /\ UNCHANGED <<publisher, mutex, starting, pipelines, cb, frame, push, mainLoop>>

(* Mutant: the early return is missing. *)
FindsNone_Always(t, k) ==
    /\ Starts(t, k)
    /\ mutex = "none"
    /\ mutex' = t
    /\ starting' = "parse"
    /\ UNCHANGED <<publisher, api, opening, pipelines, cb, frame, push, mainLoop>>

FindsNone(t, k) ==
    /\ Starts(t, k)
    /\ mutex = "none"
    /\ pipe[k] = "none"
    /\ mutex' = t
    /\ starting' = "parse"
    /\ UNCHANGED <<publisher, api, opening, pipelines, cb, frame, push, mainLoop>>

(* gst_parse_launch gives a pipeline, or none, or one that lacks an        *)
(* element with an error; only video and audio look at the error.          *)
ParseLaunch(t, k) ==
    /\ Starts(t, k)
    /\ mutex = t
    /\ starting = "parse"
    /\ \E result \in {"none", "built"} \cup (IF k = "player" THEN {} ELSE {"broken"}) :
        /\ pipe' = [pipe EXCEPT ![k] = result]
        /\ live' = [live EXCEPT ![k] = IF result = "none" THEN @ ELSE @ + 1]
        /\ IF result = "built" \/ k = "player"
           THEN /\ starting' = "play"
                /\ UNCHANGED <<mutex, api, opening>>
           ELSE /\ starting' = "no"
                /\ mutex' = "none"
                /\ GoesOn(t)
    /\ UNCHANGED <<publisher, appSrc, cb, frame, push, mainLoop>>

(* The sinks are connected, or the source is fetched, the pipeline plays,  *)
(* and the player has the main loop run in a thread.                       *)
SetPlaying(t, k) ==
    /\ Starts(t, k)
    /\ mutex = t
    /\ starting = "play"
    /\ pipe' = [pipe EXCEPT ![k] = IF @ = "built" THEN "playing" ELSE @]
    /\ appSrc' = IF k = "player" THEN pipe[k] = "built" ELSE appSrc
    /\ mainThread' = IF k = "player" THEN "starting" ELSE mainThread
    /\ starting' = "no"
    /\ mutex' = "none"
    /\ GoesOn(t)
    /\ UNCHANGED <<publisher, live, cb, frame, push, isRunning>>

-----------------------------------------------------------------------------
(* onOpen of the local tracks, without a lock *)

(* if (m_gstManager) *)
OnOpen(k) ==
    /\ publisher
    /\ open = "idle"
    /\ k \notin opened
    /\ api \in {"running", "stopPlayer"}
    /\ open' = "checked"
    /\ openKind' = k
    /\ opened' = opened \cup {k}
    /\ UNCHANGED <<publisher, api, mutex, starting, pipelines, cb, frame, push, mainLoop>>

(* setOnVideoRTPFrame, setOnAudioRTPFrame: an assignment in two steps. *)
WriteCallback ==
    /\ open = "checked"
    /\ api # "freed"
    /\ open' = "writing"
    /\ cb' = [cb EXCEPT ![openKind] = "writing"]
    /\ UNCHANGED <<publisher, api, openKind, opened, mutex, starting, pipelines,
                   frame, push, mainLoop>>

CallbackWritten ==
    /\ open = "writing"
    /\ api # "freed"
    /\ open' = "written"
    /\ cb' = [cb EXCEPT ![openKind] = "set"]
    /\ UNCHANGED <<publisher, api, openKind, opened, mutex, starting, pipelines,
                   frame, push, mainLoop>>

-----------------------------------------------------------------------------
(* The streaming threads: onVideoRTPSample and onAudioRTPSample.  While    *)
(* the callback is written it may be read as set or as not set.            *)
TakeSample(k) ==
    /\ pipe[k] = "playing"
    /\ frame[k] = "idle"
    /\ cb[k] # "none"
    /\ frame' = [frame EXCEPT ![k] = "sending"]
    /\ UNCHANGED <<publisher, api, opening, mutex, starting, pipelines, cb, push, mainLoop>>

SampleSent(k) ==
    /\ frame[k] = "sending"
    /\ frame' = [frame EXCEPT ![k] = "idle"]
    /\ UNCHANGED <<publisher, api, opening, mutex, starting, pipelines, cb, push, mainLoop>>

-----------------------------------------------------------------------------
(* onMessage of a remote track: if (m_gstManager) pushAudioFrame *)

TrackMessage ==
    /\ push = "idle"
    /\ api \in {"running", "stopPlayer"}
    /\ push' = "entered"
    /\ UNCHANGED <<publisher, api, opening, mutex, starting, pipelines, cb, frame, mainLoop>>

(* Mutant: pushAudioFrame does not take mutex_. *)
PushAudioFrame_NoLock ==
    /\ push = "entered"
    /\ api # "freed"
    /\ push' = IF appSrc THEN "pushing" ELSE "idle"
    /\ UNCHANGED <<publisher, api, opening, mutex, starting, pipelines, cb, frame, mainLoop>>

PushAudioFrame ==
    /\ push = "entered"
    /\ api # "freed"
    /\ mutex = "none"
    /\ push' = IF appSrc THEN "pushing" ELSE "idle"
    /\ mutex' = IF appSrc THEN "push" ELSE "none"
    /\ UNCHANGED <<publisher, api, opening, starting, pipelines, cb, frame, mainLoop>>

FramePushed ==
    /\ push = "pushing"
    /\ push' = "idle"
    /\ mutex' = "none"
    /\ UNCHANGED <<publisher, api, opening, starting, pipelines, cb, frame, mainLoop>>

-----------------------------------------------------------------------------
(* The main loop's thread: g_main_loop_run sets the flag that              *)
(* g_main_loop_quit clears.                                                *)
LoopRuns ==
    /\ mainThread = "starting"
    /\ mainThread' = "running"
    /\ isRunning' = TRUE
    /\ UNCHANGED <<publisher, api, opening, mutex, starting, pipelines, cb, frame, push>>

LoopEnds ==
    /\ mainThread = "running"
    /\ ~isRunning
    /\ mainThread' = "ended"
    /\ UNCHANGED <<publisher, api, opening, mutex, starting, pipelines, cb, frame, push,
                   isRunning>>

-----------------------------------------------------------------------------
(* Stop: cleanupResources up to m_gstManager.reset(), and ~GstManager *)

Stop ==
    /\ api = "running"
    /\ api' = "stopPlayer"
    /\ UNCHANGED <<publisher, opening, mutex, starting, pipelines, cb, frame, push, mainLoop>>

(* set_state(NULL), which waits for the streaming thread, and unref *)
Release(k) ==
    /\ k \in Streamed => frame[k] = "idle"
    /\ pipe' = [pipe EXCEPT ![k] = "none"]
    /\ live' = [live EXCEPT ![k] = IF pipe[k] = "none" THEN @ ELSE @ - 1]

(* stopAudioPlayer, called by cleanupResources and by the destructor *)
StopAudioPlayer ==
    /\ api \in {"stopPlayer", "stopPlayerAgain"}
    /\ mutex = "none"
    /\ Release("player")
    /\ appSrc' = (appSrc /\ pipe["player"] = "none")
    /\ api' = IF api = "stopPlayer" THEN "stopVideo" ELSE "quit"
    /\ UNCHANGED <<publisher, opening, mutex, starting, cb, frame, push, mainLoop>>

(* Mutant: the destructor only releases the video pipeline. *)
StopStream_VideoOnly(k) ==
    /\ api = IF k = "video" THEN "stopVideo" ELSE "stopAudio"
    /\ IF k = "video" THEN Release(k) ELSE UNCHANGED <<pipe, live>>
    /\ api' = IF k = "video" THEN "stopAudio" ELSE "stopPlayerAgain"
    /\ UNCHANGED <<publisher, opening, mutex, starting, appSrc, cb, frame, push, mainLoop>>

(* stopVideo and stopAudio, without mutex_ *)
StopStream(k) ==
    /\ api = IF k = "video" THEN "stopVideo" ELSE "stopAudio"
    /\ Release(k)
    /\ api' = IF k = "video" THEN "stopAudio" ELSE "stopPlayerAgain"
    /\ UNCHANGED <<publisher, opening, mutex, starting, appSrc, cb, frame, push, mainLoop>>

(* Mutant: the main loop is not told to quit. *)
Quit_Missing ==
    /\ api = "quit"
    /\ api' = "join"
    /\ UNCHANGED <<publisher, opening, mutex, starting, pipelines, cb, frame, push, mainLoop>>

Quit ==
    /\ api = "quit"
    /\ api' = "join"
    /\ isRunning' = FALSE
    /\ UNCHANGED <<publisher, opening, mutex, starting, pipelines, cb, frame, push, mainThread>>

Join ==
    /\ api = "join"
    /\ mainThread \in {"none", "ended"}
    /\ api' = "freed"
    /\ UNCHANGED <<publisher, opening, mutex, starting, pipelines, cb, frame, push, mainLoop>>

-----------------------------------------------------------------------------
Starting(t) ==
    \E k \in Kinds :
        FindsStarted(t, k) \/ FindsNone(t, k) \/ ParseLaunch(t, k) \/ SetPlaying(t, k)

Destroy == StopAudioPlayer \/ (\E k \in Streamed : StopStream(k)) \/ Quit \/ Join

Opens == WriteCallback \/ CallbackWritten \/ Starting("open")

Pushes == PushAudioFrame \/ FramePushed

Next ==
    \/ Starting("api") \/ Stop \/ Destroy
    \/ (\E k \in Streamed : OnOpen(k)) \/ Opens
    \/ \E k \in Streamed : TakeSample(k) \/ SampleSent(k)
    \/ TrackMessage \/ Pushes
    \/ LoopRuns \/ LoopEnds

(* A thread goes on, and gets a mutex that it finds free again and again.  *)
(* No frame and no message has to come, and nobody has to call Stop.       *)
Fairness ==
    /\ SF_vars(Destroy)
    /\ SF_vars(Opens)
    /\ SF_vars(Pushes)
    /\ \A k \in Streamed : WF_vars(SampleSent(k))
    /\ WF_vars(LoopRuns)
    /\ WF_vars(LoopEnds)

Spec == Init /\ [][Next]_vars /\ Fairness

-----------------------------------------------------------------------------
(* Correctness *)

(* Every pipeline that exists is the one its member points to: a second    *)
(* start, by Start or by onOpen, makes no second pipeline.                 *)
NoPipelineLost ==
    \A k \in Kinds : live[k] = IF pipe[k] = "none" THEN 0 ELSE 1

(* Audio is pushed into a player that exists: stopAudioPlayer waits. *)
PlayerOutlivesPush ==
    push = "pushing" => appSrc /\ pipe["player"] = "playing"

(* The manager is being destroyed while an onOpen that saw it goes on. *)
OpenOverlapsDestroy == ~Pointed /\ open # "idle"

(* The destroyed manager leaves no pipeline and no streaming thread        *)
(* behind, unless an onOpen that had seen it goes on meanwhile.            *)
NothingLeftPlaying ==
    []~OpenOverlapsDestroy =>
        [](api = "freed" => \A k \in Kinds :
              live[k] = 0 /\ (k \in Streamed => frame[k] = "idle"))

(* The destructor returns, unless it told the main loop to quit before the *)
(* thread ran it.                                                          *)
DestroyedUnlessQuitLost ==
    []~(api = "join" /\ mainThread = "starting") => (api = "stopPlayer" ~> api = "freed")
=============================================================================
