# AntMediaServerConferenceCall: specification and proofs

The program is a C++ client of Ant Media Server conferences: it joins a room
over a signaling WebSocket, publishes its own stream through one WebRTC peer
connection, plays the room and the streams of the other participants, and
leaves again. This directory holds TLA+ models of it, the TLC configurations
that check them, and TLAPS proofs. Line numbers refer to `src/`.

## 1. Inventory

### Components

| Component | Source | State | Operations | Modelled in |
|---|---|---|---|---|
| Conference client | `WebRTCManager.cpp/.h` | `m_isCommunicating`, `m_isOnlyPlayer`, the trackers `pcs`, `isPublisher`, `sendPlay`, `played`, `pendingCandidates`, `localDataChannels`, `remoteDataChannels`, `remoteTracks`, `midTypeMap`, `isStreamTalking`; `m_gstManager`, `m_signalingContext` | Start/Stop2WayCommunication, SendChatMessage, SendBinaryMessage; one handler per signaling message; events of connections, channels and tracks | `Conference` (control), `ConferenceSystem` (with its server), `ChatAudio` (channels, chat, audio), `RecvTracks` (the tracks of an offer) |
| Its locks | same | `m_apiMutex`, `m_stateMutex`; the mutex of each library callback | taken by API calls, handlers, callbacks | `Teardown` |
| Signaling wrapper | `AMS_SFU_ConferenceSignaling.cpp` | `m_ws`, `m_wsOpen`, `m_signaling`, the callbacks | Connect, Disconnect, dispatchNotification, Send... | `Conference` |
| Signaling commands | `AMS_SFU_ConferenceSignalingCommand.cpp` | `candLabel_`, ids | send... (one JSON message each), handleMessage | `Requests`, `Conference` |
| Media pipelines | `GstManager.cpp` | three pipelines, their elements, the frame callbacks, the main loop and its thread | start/stop video, audio, player; pushAudioFrame | `GstPipelines` (one manager), `Teardown` (who uses it) |
| C interface | `WebRTC_API.cpp` | the single instance | forwards | `AppMain` |
| Application | `main.cpp` | `g_appRunning`, console thread | signal handler, console loop, shutdown | `AppMain` |
| Log | `Log.cpp` | the files of a day with their backups and index file, the days' folders and archives, `gDebugLock` | DBG, rotation, compression, deletion | `LogRotation` (one file), `LogFolders` (the days), `AppMain` (the lock and signals) |
| libdatachannel | prebuilt, headers in `include/rtc` | connections, channels, sockets | | `SynchronizedCallback` (the callbacks, from their header); the rest external: `PeerConnection`, `Teardown` |
| Ant Media Server | not in the repository | who publishes, plays, is in the room | | external: any message at any time in `Conference`, the dialogue in `ConferenceSystem` |
| JSON and SDP parsers | `include/nlohmann`, `include/sdptransform.hpp` | none | | not modelled |

### Who calls whom

The application thread calls the API (`m_apiMutex` makes the calls one after
the other). The WebSocket's thread runs the signaling handlers one at a time;
most take `m_stateMutex` for a part of their work, some
(`joinedTheRoom`, `publish_started`, `subtrackRemoved`, the second half of
`play_finished`) never do. Each peer connection runs its own callbacks
(`onTrack`, `onLocalCandidate`, `onLocalDescription`, `onDataChannel`) and each
channel and remote track its `onMessage`, on library threads. libdatachannel
keeps a recursive mutex per callback while it runs and takes the same mutex to
set or reset it (`include/rtc/utils.hpp`, `synchronized_callback`), so resetting
a callback, or destroying the object that owns it, waits until it has ended.
GStreamer threads produce RTP frames, and a main loop has a thread of its own.

### What is hard, and what correct means

* *Start and Stop.* Stop tears down, on the application thread, what three kinds
  of other threads use. Correct: it returns; nothing of the session runs or
  stays set afterwards; nothing is used after it was destroyed; the next
  session starts clean; the server is left with no request of ours.
* *Play bookkeeping.* `sendPlay`, `pcs` and the server each have an opinion on
  which streams are played. Correct: a stream is asked for once, not forgotten,
  and not asked for while the request stands.
* *Candidates.* They arrive before the connection, before its description,
  after it, or for a removed connection. Correct: each waits or is given to its
  connection.
* *Roles.* The publisher's connection is set up in Start and again in
  `onConnected`, and must fit the role the publish command states.
* *Pipelines.* Start, stop and the frame callbacks race, and the main loop may
  be told to quit before it runs.
* *The room.* Participants come, leave and come back while messages about them
  are under way. Correct: in the end who is there is played and who is not is not.
* *Chat and audio.* Channels are kept by label and connections of the room come
  and go. Correct: an open channel is heard, once; who is muted is not played.
* *Log.* Counters on disk and files renamed by a rotation must agree, also
  after a crash, and when another caller or a signal handler rotates meanwhile;
  the folders of earlier days are archived while midnight passes. Correct:
  entries are lost only as expired, and the disk does not fill up.
* *Process.* A signal handler logs, and logging takes a lock. Correct: a signal
  or `quit` ends the process, and nobody uses the client while it is stopped.

`PROJECT.json` lists each hazard with its line and the properties about it.

## 2. Modules

| Module | What it is |
|---|---|
| `Requests` | the identities (`Room`, `Self`, `Others`) and the requests a client sends |
| `PeerConnection` | the signaling state of a connection as far as the client's calls see it (external) |
| `Membership` | abstract: what a client promises its server, without how |
| `Conference` | the client: every API step, handler and event; refines `Membership` |
| `Teardown` | the same session one level lower: locks, running callbacks, the order in which cleanup resets them |
| `GstPipelines` | the life of one `GstManager`: its pipelines, their threads, its main loop |
| `ConferenceSystem` | `Conference` composed with a server that follows the dialogue, the participants and two FIFO channels |
| `ChatAudio` | channels kept by label, chat messages, the audio flags and the audio path |
| `RecvTracks` | the loops of `prepareRecvTracksFromSDP` against a declarative definition of what they should find |
| `SynchronizedCallback` | a callback of libdatachannel that threads set, reset and call |
| `AppMain` | the process: main, the console thread, library threads, the signal handler, the log's lock |
| `BackupRetention` | abstract: what the rotation of a file promises |
| `LogRotation` | rotation of one file, a system call a step, with crashes, other callers and compression; refines `BackupRetention` |
| `LogRetention` | abstract: what the folders of the days promise |
| `LogFolders` | the days' folders, their archives and the maintenance under `gDebugLock`; refines `LogRetention` |
| `MC...` | instances for TLC |
| `...Proofs` | theorems about the module of that name; `LogProofs`: about `LogFolders` and `LogRotation`, whose definitions therefore have different names (`RotationInit`, `PackTar`) |

`ConferenceSystem` extends `Conference` and conjoins each of its steps with what
happens on the channels. The others stand beside each other and share no
variables: `Teardown` takes from `SynchronizedCallback` that a reset waits,
`Conference` from `AppMain` that the ids are set before Start, `AppMain`
from `LogFolders` that a call of the log holds `gDebugLock` from its clock to its
return. `LogRotation` and `LogFolders` meet in today's folder, which
`LogFolders` does not look into.

### Conference

State. Maps from stream ids are sets of keys, or of the keys mapped to `true`
where the code tests the value (`isPublisher`, `sendPlay`); `pc` keeps the
connection of every stream, `NewPc` where there is none, so that `pcs` is its
domain. `phase` is `m_isCommunicating` and where Stop is: `running`, `leaving`
(the leave commands are sent, no lock yet), `clearing` (`m_stateMutex` is held,
the trackers are cleared, the socket's callbacks are not detached yet), `idle`.
`wsAt` is where the WebSocket's thread stands when it is inside a handler but
outside `m_stateMutex` (`join`, `replay`), or waits for `m_stateMutex`
(`blocked`). `told` and `repeated` are not in the code: the requests the server
holds, which change when the client's message is sent or the server's notice is
handled, and those it was sent again while it held them.

Actions. A handler that keeps `m_stateMutex` to its end, or takes no lock and
touches one tracker, is one action. Those that give up the lock and go on are
split there: `onConnected` (`WsOpened`, `SendJoinRoom`), `play_finished` for
the room (`PlayFinished`, `SendPlayRoomAgain`), `cleanupResources`
(`LeaveConference`, `ClearTrackers`, `CloseSignaling`). A handler that has no
effect in a state (an unknown message, `subtrackAdded` for a known stream) is
left out of that state's steps. `HandlerBlocks` is any handler that reaches its
`lock_guard` while cleanup has the mutex.

Sends fail. `WebSocket::send` throws unless the socket is open, and the exception
is swallowed in `Connect`'s `onMessage`; what the handler did before the call
stays: `Sends` adds to `told` only when the socket is open.

Abstractions.
* `played` is written and never read; `remoteTracks`, `midTypeMap` and
  `isStreamTalking` decide nothing modelled here; `m_gstManager` is in `Teardown`
  and `GstPipelines`.
* `onLocalDescription` and `onLocalCandidate` only send; they matter to locks
  (`Teardown`), not to this state.
* The URL decides whether Start does nothing, fails in `m_ws.open`
  (`StartFails`) or connects; a Start or Stop that changes nothing is no step.
* `m_roomId` and `m_publishStreamId` are constants: `main.cpp` sets them before Start
  and the code assigns them nowhere else but to themselves.
* A candidate is a model value and several copies of one are one element of a
  set: the code does nothing with a candidate but hand it on.
* `setRemoteDescription` may be refused (`RemoteSDPRejected`), and a
  connection may close at any time (`PeerCloses`); nobody in the code is told.

Environment. The server may send any message at any time on an open
socket, also out of turn, with two limits: `play_finished` and
`subtrackRemoved` concern streams other than those a client cannot play or a
room cannot announce (`PlayFinished` not for `Self`, the subtrack events not
for `Room`). What was received before a close is delivered until
`onClosed` runs.

### Teardown

A callback is a pair: what it is set on, and its kind. `OwnPc` are those of the client's
own connection, which Start makes (in `onConnected` `setupPublishPeer` only finds it again);
`RemotePc` those of one connection that an offer makes and `play_finished` removes, which
stands for all: every further one adds threads of the same kind, and the waits are the same.
`Own("text")` and `Remote("text")` are the data channels' `onMessage`, `Media` that of a
remote track, `Open` the `onOpen` of the client's local tracks (there if it publishes), `Ws`
the socket's handlers. Of the callbacks that only log, `onIceStateChange` is kept (`"ice"`):
nothing resets it, and what makes it end is `pcs.clear()`, which destroys the connections.
That a connection's destructor waits for its callbacks is an assumption on the library; that
resetting a callback does is what `SynchronizedCallback` shows.

`at` is where the thread of each callback is: outside, entered (it holds the
callback's own mutex), locked (it has `m_stateMutex`), and for the audio
callback checked (`if (m_gstManager)` was true) and pushing. A connection runs its own
callbacks one at a time. `Unlocked` are the callbacks that take no `m_stateMutex`.
`ResetOrder` is the order in which `cleanupResources` waits for callbacks: the handlers it
resets on the connections, the connections themselves, the data channels, the remote tracks,
the socket. `Open` is not in it. The socket's thread runs a `job`: a handler without lock,
one that takes the lock for a while, an offer (which sets a new connection's callbacks), or
`play_finished` (which destroys a connection under the lock).

`m_gstManager.reset()` is three steps: the pointer is cleared (`ResetGstManager`), the
destructor stops the player and tells the main loop to quit (`QuitMainLoop`), and joins its
thread (`JoinMainThread`), which ends only if the loop ran when it was told. When the loop's
thread gets there is `RunMainLoop`. The rest of the destructor is in `GstPipelines`.

### GstPipelines

The behaviours are the life of one manager, from the construction in Start to the
end of its destructor; a new session makes a new one. `api` is where the thread
of Start and Stop is: at the start of a kind of pipeline, in the session
(`running`), at a step of `cleanupResources` or of the destructor. `open` is
where the `onOpen` of a local track is, `push` the `onMessage` of a remote one,
`frame` the streaming thread of each pipeline, `mainThread` the thread of the
main loop. `pipe` is a member (`videoPipeline_` and so on) with what
`gst_parse_launch` made of it: nothing, a pipeline, or a `broken` one that lacks
an element; `live` counts the pipelines that exist. A start function is three
steps under `mutex_` (the test, the parse, the playing); the stop functions of
video and audio have no lock, that of the player has. A callback is assigned in
two steps (`WriteCallback`, `CallbackWritten`) and may be read in between as set
or as not set.

A step on a destroyed manager is undefined; the thread that would take it
(`Opens`, `PushAudioFrame` when `api` is `freed`) stops there; the condition of
`NothingLeftPlaying` is that no `onOpen` gets there. The two tests of
`m_gstManager` are `Pointed` with the step before it: `unique_ptr::reset` clears
the pointer first. That the API thread is not in Start any more when a track opens
or brings a message is the order of Start: it connects after it has started
the pipelines. The module has no constants.

### ConferenceSystem

`toServer` and `toClient` are the WebSocket's two directions; `describing` the local
descriptions a connection has made and not yet handed to `onLocalDescription`.
A client step is a step of `Conference` with the message it sends (`Emits`) or
receives (`Receives`). `present` is who is in the room, `serving` what the server
plays to the client, `finishing` what of that has ended and was not reported yet.
The server is not in the repository; it is as the client's handlers need it: it
answers `joinRoom`, `publish`, an offer, a `play`; it announces who enters and leaves
while the room is played; it ends a play by `play_finished` some time after its
participant has left, and the room's when it is empty. A play of a room that is
empty ends at once, which is why the client asks again. The end of a play may be
reported after its participant has come back; `late` remembers for whom that
happened. Left out, as `Conference` has them: Stop, lost
connections, refused descriptions, messages out of turn.

### ChatAudio

`channels` are all data channels the server ever opened on the two connections
that take any (the publisher's and the room's, `needDC`), with the connection,
the label, and whether the client has set its callbacks (`heard`);
`remoteDataChannels` is the map from a label to one of them. An action is what
runs under `m_stateMutex` at once. The label of a channel is the server's choice.
`playStream` of the audio path is computed and used by nobody, so `PushAudioFrame`
has no guard on `isStreamTalking`. `RemovePeer` is `removePeerIfNotExist` for the room or a
participant: the channel kept under that id is closed and forgotten (`KeptOf`, `Forgetting`),
on whichever connection it is, and the room's connection goes with its channels
(`ChannelsOf`).

### RecvTracks

An offer, as parsed, is a sequence of sections with a direction, a type and
codecs; `m` and `r` are the two loops' positions. `Offered` says what an offer
asks for without loops. A track is known by its mid, `remote-<type>-<payload>`, here the pair
(`Mid`): `tracks` is the set of the mids, which are the keys of `midTypeMap` too. A missing field has the default `value()` gives it:
a payload of -1, and for the other fields a string, one of those in the sets.

### SynchronizedCallback

`mutex` is the mutex of the callback, `stored` the call that found no function,
for the class that stores it. `Set` and `Call` come to the lock; `Assign`,
`Replay`, `Miss` and `Run` have it. Functions run in two steps, from `Replay` or `Run` to
`Replayed` or `Ran`. A destructor sets the callback to null (line 59), and is a `Set`.

### AppMain

`mainAt` is where `main` is, `consoleAt` where the console thread is. A context is what a
thread runs (`Body`), or the handler of a signal on top of it, and `log` is where each context
is in `DBG`. `interrupted` says of each context which signal's handler runs right on top of
it; it stands still as long. A signal is masked in its thread while its own handler runs, the
other one is not (`signal()`), so handlers may stand on each other. `DBG` allocates and frees
(`Log.h:33`, `39`): a handler that interrupts the allocator waits for it for good
(`AllocatorHangs`); whether the context below was in the allocator is not modelled, it may
always have been. Other threads that need the allocator may then wait too, which only removes
behaviours.
A call of the client is an entry in the log; what it does is in `Conference`, and that it
returns is assumed here (`stop_hangs` shows when it does not).
Lines of the console are `quit` or a message. A thread named `library` stands for all
threads of the libraries that log.

### LogRotation

`file` is whether the log is there and too large; a backup is its number in the order
of time (`made`), at its index in `plain`, or in `tgz` when packed. `index` and `stored`
are the index file and what it holds: between its creation and its first write it is empty,
and reading it then leaves the counters uninitialised: `Garbage` may be in them and
`trusted` is over. Each system call is a step, so `ProcessEnds` and other callers come
in between; none of the three functions takes a lock. A handler that interrupts a thread
keeps it standing. A rotation that begins inside another counts as an interruption in
`failed`, as a crash and a failed write do; `lost` counts the files that are gone while
they are among the newest. Neither is in the code. `HandleCurrentApLogFolder` packs a
backup by `PackTar` and `PackRm`.
`dbg_log`, `DBG_signal_safe` and the maintenance `DBGHandleOldLog` are offered by `Log.h`;
this program calls only `DBG`, so what is found of them concerns whoever calls them.

### LogFolders

A folder and an archive are known by their day; `entries` and `archived` are what is in them.
`DBGLogAndPublish` reads the clock under the lock, `DBGHandleOldLog` before it
(`HandleTakesTime`, `HandleLocks`). `tar` and `rm -rf` are programs: the archive is
empty until `TarEnds`, the folder is emptied entry by entry (`RmEntry`). `tar` may
fail, and its result is not looked at. `RemoveTheOldestLog` takes one of the
folders and archives of the earliest day, if that is before today. `expired` and
`written` are not in the code. The size of an entry is 1.

## 3. Runs

| Run | Shows |
|---|---|
| `conference` | roles, marks, candidates, what is left after Stop, and the contract of `Membership` with its leave commands |
| `stop_hangs` | counterexample: Stop and a handler wait for each other |
| `teardown` | only a local track's `onOpen` outlives Stop; the context outlives its users; a late frame is over before the callbacks are reset; Stop returns unless two locks are taken in two orders or the main loop misses its quit, the handlers unless two locks are taken in two orders |
| `pipelines` | no pipeline is made twice or left behind; the player outlives a push; the destructor returns unless the quit is lost |
| `system` | with a server that follows the dialogue, the client's connections follow the room unless a return overtakes the report of the leaving, and the room's play is never asked for twice |
| `chat` | no channel is heard twice, and a play of the room that has ended hides no channel of the next |
| `muted_played` | counterexample: the audio of a muted stream is played |
| `recv_tracks` | the loops find the tracks every offer asks for and no others, one for all sections that ask for the same |
| `callback` | a reset waits for the function that runs; the last call that was missed is made up for, once |
| `app` | the client is configured before Start and left alone during Stop; the process ends unless a handler waits for what its own thread has |
| `log_rotation` | with compression, crashes, failed writes and callers that rotate inside each other: an interruption costs one of the newest backups at most, or one over the limit |
| `log_folders` | until something fails, entries stay until their day is dropped as the oldest; a fault costs one day at most; every call returns |

Types are checked in `conference`, `teardown`, `system` and the two runs of the log. For
`GstPipelines`, `AppMain`, `ChatAudio`, `RecvTracks` and `SynchronizedCallback` the theorem
`TypeCorrect` of their proof modules says them for every value of the constants, and no
run repeats it.

Properties of `Conference`:
* `PublisherReady`: in a session, the client's own connection is tracked as the
  publisher's, has its channel, and carries media exactly in the publisher role.
  Cleanup's leave commands, the chat and the publish command depend on it.
* `NoStrandedCandidates`: no candidate waits for a connection that has its description.
* `MarksMatchRequests`: on an open socket another participant's stream is
  marked in `sendPlay` exactly while the server holds the play request.
* `OnlyRoomMarkSurvives`: after Stop the trackers are empty, but for the room's
  mark, which a handler without the lock can set behind cleanup: the invariant bounds
  what survives.
* `KeepsContract`: refinement of `Membership`: joining is asked once on a
  connection, a stream is asked for again while the request stands only if it is
  the room's and the client is leaving, the client's own never, publishing in
  the role of the session, and leaving withdraws every request the client made for itself.

Properties of `Teardown`:
* `OnlyOpenOutlivesStop`: when Stop has returned no callback of the session is set or runs,
  but the `onOpen` of a local track. What else captured `this` is done with it.
* `ContextOutlivesCallbacks`: while a callback other than `onOpen` runs, `m_signalingContext`
  exists: the callbacks use it without a lock.
* `StalePushOverAtLock`: a frame may be pushed into a manager that Stop has destroyed,
  but only until Stop takes `m_stateMutex`.
* `StopReturnsUnlessBlocked`: liveness; Stop returns, unless a thread that holds
  `m_stateMutex` waits for a callback that waits for `m_stateMutex` (`Inversion`), or the
  destructor of the manager waits for a main loop that was told to quit before it ran
  (`QuitLost`). There is no third way.
* `HandlersEndUnlessInverted`: liveness; `Inversion` alone keeps a signaling handler from its
  end: a Stop that waits for the main loop does not hold `m_stateMutex` yet.

Properties of `GstPipelines`:
* `NoPipelineLost`: Start and `onOpen` both start video and audio; every pipeline that
  exists is still the one the member points to, so the stop functions reach it.
* `PlayerOutlivesPush`: a frame is pushed only into a player that plays, though
  Stop releases it from another thread.
* `NothingLeftPlaying`: the destroyed manager leaves no pipeline and no streaming
  thread, unless an `onOpen` that had seen it goes on.
* `DestroyedUnlessQuitLost`: the destructor returns, unless it comes to the join
  while the thread has not entered the main loop.

Properties of `ConferenceSystem`:
* `RoomAskedOnce`: requests for the room under way, the play that stands, its end
  under way and the request about to be repeated are one at most, though every end
  makes the client ask again.
* `RosterFollowsRoom`: liveness; who stays in the room is connected in the end, and
  who has left is not. Who came back before the end of his earlier play was reported
  (`late`) need not be: see section 4.

Properties of `ChatAudio`: `HeardIsKept` (an open channel is heard if and only if
it is the one kept under its label), `RoomEntryCurrent` (what is kept under the room's
id is of a connection that is there, and a channel of that name on the room's connection that
is not heard is hidden by one that is still kept, through any number of room connections.
It is not said that the room's channel is always heard: see 10 in section 4).

Properties of `RecvTracks`: `TracksAsOffered`.

Properties of `SynchronizedCallback`: `OnlyCurrentRuns` (after a set or reset has
returned no other function runs, on any thread: what `Teardown` and the destructors of
the program rely on), `HandledOnce`, `LatestHandled` (a channel that opens before
its `onOpen` is set is not missed, in any interleaving).

Properties of `AppMain`: `StartsConfigured` (the setters do nothing without an
instance: their order counts), `ConsoleEndsFirst`, `ExitsUnlessHandlerHangs` (liveness; the
only hangs are a handler that waits for `gDebugLock` held by what it interrupts, which may be
the other signal's handler, and one that waits for the allocator it interrupted).

Properties of `LogRotation`, all as long as the index file can be read:
* `NewestKept`: of the newest backups, packed or not, at most as many are missing as there
  were interruptions.
* `PlainBounded`: of uncompressed backups there is at most the limit, and one more for each
  interruption. The limit itself holds only while no rotation is overlapped often enough:
  see 13 in section 4.
* `KeepsNewest`: refinement of `BackupRetention`: a backup goes only when `MaxLogFileNum`
  newer ones were put away, less one for each interruption (16 in section 4), or it is lost
  against an interruption.

Properties of `LogFolders`:
* `KeepsRetention`: refinement of `LogRetention` with midnight at any point: until
  something fails an entry stays until its day, which is over and the oldest, is dropped. That the
  maintenance reads the clock before it locks does no harm: it takes too few folders for old.
* `CallsReturn`: liveness. `DamageBounded`: with faults, as many days as faults lose entries at most.

**Bounds.** `Conference` runs with one other participant, one candidate (none in
`stop_hangs`, which is not about candidates),
and one data channel label, equal to the room's id, the label for which
`removePeerIfNotExist` has an effect on `remoteDataChannels`. Every handler concerns
one stream, the state of one stream never decides a step of another, and a
participant, the room and the client's own stream already are three different
cases; candidates and labels are not compared. The proofs hold for any number
of each. No counter is cut: the state spaces are finite as they are and sessions
restart without limit. `Teardown` runs with two callbacks at the same time besides the socket's
(`MaxRunning`): one that is waited for and one that keeps it waiting; the proofs are for any
number. `GstPipelines` has no constants and is checked whole. The instances have no
symmetry, with one element a set there is none.

`ConferenceSystem` (`MaxVisits`): two participants, each combination of whom is in the
room at the start, and one more entering, are enough for one to stay, leave, come
late and come back, and for the room to fall empty; a request for a
participant concerns no other. `ChatAudio` (`MaxChannels`): four channels on two connections, labelled by
the room's id, a participant's, or neither: a label used again after its channel closed, on the same
and on another connection, and one that goes with its participant. `RecvTracks`: all offers of at most two sections with at most two codecs
each, with a direction, a type and a codec the client skips besides those it takes: the
first codec matches, the second, none, one without a payload. `SynchronizedCallback`: three threads, two
functions, three calls (`MaxCalls`): a call between a reset and a set on other threads, missed twice.
`AppMain`: two lines and two signals (`MaxLines`, `MaxSignals`), a second of each being what follows
`quit`, and what comes on another thread or interrupts the handler of the first. `LogRotation`: a limit of 3 instead of
63, the smallest with which a backup can go early without being the newest, six backups (`MaxMade`), so that the limit
is passed three times, two threads and an interruption (`MaxFailed`). Two threads take every step a thread and a handler that
stops it can take, and are interchangeable (symmetry). What several interruptions do together is left to the proofs, which
bound neither them nor the callers. What an uninitialised `LogInfo` holds is a value for each branch of `BackupLogFile`.
`LogFolders` (`MaxDay`, `MaxReserved`, `MaxFaults`): two threads, two entries, three days and a fault: a day that
is archived, one that is over and one that is today, and what a fault leaves is packed again.

**Deadlock.** The runs say `CHECK_DEADLOCK FALSE` where the program can really stop
(a blocked handler with Stop waiting for it; a manager that is destroyed; a process
that has ended; an offer that is done) or the bounds end the behaviour (calls,
visits, backups, days), and the liveness properties say when it should not.

**Fairness.** `Conference`, for `stop_hangs`: weak fairness on the second and third part of Stop
and on the second halves of handlers: a thread that can go on does. Nothing
forces the application to call Start or Stop, the server to send, a connection
to open or a message to be handled. `Teardown`: a mutex a thread waits for can be
taken and given back by others again and again, so "a thread that can go on does"
is strong fairness, on the cleanup and on the socket's thread; weak fairness is enough for whoever has
`m_stateMutex` and for the callbacks that need none, and nothing is assumed of the main loop's
thread: `QuitLost` covers it. Pthread mutexes
do not promise order, but they do not starve a thread for ever under the
scheduler of the platform. No event of the network is fair.
`GstPipelines`: the same for the destructor, an `onOpen` that has begun and a push
(strong, they wait for `mutex_`), weak for the end of a frame and the steps of the main
loop's thread. No sample, message or Stop has to come.
`ConferenceSystem`: weak fairness on the client's own steps, on receiving, and on the
server, which answers what it was asked and reports what has ended; nobody has
to enter or leave, or the client to start. `AppMain`: the threads go on, and the lock is had
in the end (strong, as in `Teardown`); nobody has to type, to log or to send a signal. `LogFolders`: the
same for a call in progress; no call has to be made.
`ChatAudio`, `RecvTracks`, `SynchronizedCallback` and `LogRotation` have safety only and need none.

## 4. Findings

Two runs end in a counterexample to what the repository says of the program:

1. `Stop2WayCommunication` can hang (`stop_hangs`): `cleanupResources` keeps
   `m_stateMutex` to its end and detaches the socket's handlers under it, and a
   handler waits for that mutex.
2. `iammute` has no effect on the audio (`muted_played`).

Others are conditions of the properties that hold: each says what the code does not
exclude, and that nothing else goes wrong.

3. After the leave commands a handler may join, publish or play again, because the
   handlers are detached last: `Membership` lets the client withdraw its requests when it
   leaves, and allows requests after that.
4. Three handlers change `sendPlay` without `m_stateMutex`, which the header
   says protects it; the room's mark may survive into the next session, which
   then never asks for the room (`OnlyRoomMarkSurvives`).
5. `removePeerIfNotExist` destroys a connection under `m_stateMutex`: if one of its
   callbacks waits for the mutex, no signaling message is handled any more
   (`Inversion` in `HandlersEndUnlessInverted`).
6. `m_gstManager` is reset without the mutex under which the audio callback
   checks and uses it (`StalePushOverAtLock`).
7. `~GstManager` may tell the main loop to quit before its thread runs it, and then
   waits for that thread for ever: Stop soon after Start, or a Start whose
   connection fails at once. Stop then never returns (`DestroyedUnlessQuitLost`, `QuitLost`
   in `StopReturnsUnlessBlocked`).
8. The `onOpen` of a local track tests and uses `m_gstManager` without a lock, and no step of
   Stop resets it or waits for it: it is the one callback that may run, with `this`, when Stop
   has returned (`OpenOverlapsDestroy` in `NothingLeftPlaying`, `Open` in
   `OnlyOpenOutlivesStop`).
9. A participant who leaves and returns before `play_finished` reports the end of
   his earlier play is ignored, and then removed (`late` in `RosterFollowsRoom`).
10. A data channel whose label is known is dropped, also when the channel kept
    under it has closed, or is on the client's own connection. Only what
    `removePeerIfNotExist` erases, the label that is the stream's id, does not outlive a play:
    `HeardIsKept` says which channels are heard, `RoomEntryCurrent` that a play of the room
    that has ended does not make the next one deaf. Within a play the room's channel may be deaf.
11. The signal handler logs. If it interrupts a thread that logs, or the handler of the other
    signal, it waits for its own thread's lock, and if it interrupts the allocator, for the
    allocator: the process hangs (`SelfLocked`, `AllocatorHung` in `ExitsUnlessHandlerHangs`).
12. `DBG_signal_safe` rotates without regard to a rotation it interrupts, and a
    backup is lost (an interruption in `NewestKept`).
13. The oldest backup is removed by its name before compression: packed backups
    are never removed, and the limit is one of the others. It is exceeded by a rotation
    that began before `MAX_LOG_FILE_NUM` and more others and ends after them: it writes
    back the counters it has read, and the backups of the others are not counted any
    more (`PlainBounded` allows one for each).
14. The folder of a day is removed though its archive failed (a fault in
    `DamageBounded`).
15. However far the log is over its reserved size, one day is dropped each time
    (`RemoveTheOldestLog`).
16. A rotation that finds the file already put away by another counts its index all the
    same. No backup has that index, so the ones before it are removed a rotation early,
    until it is behind them (`failed` in `DropOld` of `BackupRetention`).
17. Sections of an offer with the same type and payload type get the same mid
    (`remote-<type>-<payload>`): they share one track and one entry of `midTypeMap`, and are
    not told apart (`TracksAsOffered` is about the set of mids, not about sections).

## 5. Proofs

All theorems are proved by TLAPS for every value of the constants under the named
assumption of their module: the ids of the room, the client and the others are
different, bounds are natural numbers, and the like. The bounds are constants: the theorems hold for each.

* `ConferenceProofs` proves the inductive invariant `IInv` and from it the type
  and safety invariants and `KeepsContract`. The properties are not inductive:
  `MarksMatchRequests` needs to know that a socket that is not open stands for
  no request; `KeepsContract` what holds between the two parts of a handler (`HandlerPlaces`);
  `OnlyRoomMarkSurvives` needs what `clearing` has cleared and what handlers can
  still set behind it; `PublisherReady` needs that no play of the client's own
  stream was ever asked for. These are the conjuncts of `IInv`, and each has a
  comment at its definition.
* `KeepsContractHolds`: initial states map to initial states, every step of
  `Next` to a step of `Membership` or a stutter, with one proof step per action.
* `TeardownProofs`: the types, `OnlyOpenOutlivesStopHolds`, `ContextOutlivesCallbacksHolds`
  and `StalePushOverAtLockHolds`, for any number of callbacks at the same time, from an
  invariant that says who holds the mutex (`HoldsState`, `ApiHolds`), that only a callback that
  is set runs, and that a callback cleanup has passed stays reset (`ResetStays`): nothing that
  could set it again runs while the mutex is held.
* `ConferenceProofs`, about `ConferenceSystem`: `SystemTypeCorrect` and
  `RoomAskedOnceHolds`, for any participants, however often they come and go, and from
  whoever is in the room at the start. `RoomAskedOnce` is not inductive: a second request
  would come from a second `joinedTheRoom`, `start` or `publish_started`, which the property does not
  mention. `OneAsks` counts all that leads to a request for the room, in both channels, in
  the descriptions not yet sent and where the WebSocket thread stands (`Asking`), together
  with the play that stands; each step passes one on or ends it. The lemmas on
  `Tokens` say what a channel holds after a message is appended, taken or several are
  answered. `ClientOfSystem`: a step of the system is one of `Conference` or leaves the client
  alone, so the theorems on `Conference` hold of the client with this server.
* `GstPipelinesProofs`: the types, `NoPipelineLostHolds`,
  `PlayerOutlivesPushHolds` and `NothingLeftPlayingHolds`. The invariant adds who holds `mutex_`
  (`HoldsMutex`), that a member tested under it stays unset until it is assigned
  (`StartsOnce`; the unlocked stop functions do not disturb that, they only clear
  members), and that `audioAppSrc_` belongs to a player that plays (`SourceOfPlayer`,
  `PlayerNotStarted`). `NothingLeftPlaying` says so only of behaviours without
  `OpenOverlapsDestroy`; its invariant is about a step that stays without it (`Quiet`): what the
  destructor has stopped so far is not started again (`ReleasedSoFar`), and a frame
  is handled only by a sender that plays (`SenderPlays`).
* `AppMainProofs`: `StartsConfiguredHolds` and `ConsoleEndsFirstHolds`, for
  any number of lines and signals. The invariant says what was set at each place of
  `main` and that a console thread that has ended is out of the log.
* `ChatAudioProofs`: `HeardIsKeptHolds` and `RoomEntryCurrentHolds`, for any labels and any number of
  channels. Every channel under a label has an entry, an entry leads to a channel
  of that label that is heard, and a channel whose connection is gone is closed.
* `RecvTracksProofs`: `TracksAsOfferedHolds`, for offers of any length: what the inner loop
  has found so far (`Searched`), and that the tracks are what the sections before ask for (`TracksSoFar`, `Asked`).
* `LogProofs`, about `LogFolders`: `KeepsRetentionHolds`, that `LogFolders` implements `LogRetention`
  until there is a fault, for any threads, entries, days and reserved size. The invariant
  says who holds the lock (`Locked`), that no time read is ahead of the clock
  (`Dates`), that files are of their day (`FilesThere`) and that what `rm` is about to remove
  is in the archive (`Packing`). `DamageBoundedHolds` is for runs with faults: a day is struck
  only by a fault of its own. A day that no fault has struck yet is whole in its folder, in its
  archive or between both (`Intact`); at most as many days as faults are not (`Struck`), and a fault
  touches one day.
* `LogProofs`, about `LogRotation`, for any callers, any limit and any number of
  rotations and interruptions: `RotationTypeCorrect`, `PlainBoundedHolds`, `NewestKeptHolds` and
  `KeepsNewestHolds`. Rotations inside each other make the pointers of the callers disagree (where each puts the
  next backup: oldest index and count), so the invariants do not follow single interruptions; they keep an account. While nobody rotates,
  everything is measured at the stored pointer (`...Idle`). From the first
  caller to the last it is measured at the index the first one will fill (`...Fresh`: the file is still there, all
  pointers agree) or has filled (`...Passed`: each pointer is there or ahead). `e` counts the indices that were
  passed without a file. `PlainInv` counts the uncompressed backups outside of the window of the limit that ends
  there; `LossAt` counts the backups that are lost, that are to be overwritten, or that `rm` or `tar` may take (`AtRisk`); in both, with `e` and one for each
  caller under way (`Pending`), they are not more than `failed`. When the last caller leaves, or the process
  ends, the account is settled at the stored pointer (`Settle`, `LossLeaves`). `Late` says
  how old a backup at an index is at least, so what `unlink` takes is old (`UnlinkOld`), and `MissingFew` relates the
  account to the backups that exist. `KeepsNewestHolds` then maps every step to one of
  `BackupRetention` (`NextPromise`).
* `SynchronizedCallbackProofs`: `OnlyCurrentRunsHolds`, `HandledOnceHolds`, `LatestHandledHolds`, for any
  threads and functions and both classes. What is stored is the latest call and
  kept only while no function is set (`StoredIsLatest`); while it is replayed nobody else runs (`Exclusive`).

`ConferenceSystem` assumes that the room's participants are finitely many: they are announced in a
sequence. `LogRotation` assumes finitely many callers. The proofs use the library's theorems on finite sets.

Only model-checked:
* the liveness properties (fairness and ENABLED are beyond the proof system):
  `RosterFollowsRoom`, `HandlersEndUnlessInverted`, `StopReturnsUnlessBlocked`,
  `DestroyedUnlessQuitLost`, `ExitsUnlessHandlerHangs` and `CallsReturn`;
* the counterexamples.

## 6. Not modelled

* JSON and SDP parsing: vendored (`nlohmann/json.hpp`, `sdptransform.hpp`, by far the
  longest files here); their only effect on the program is that a message is
  dropped, a field has its default, or a description is refused. This is why
  the models stand for a small share of all lines under `src/`: the
  program itself has about 2,300 lines, the rest is these parsers and the headers of
  libdatachannel, whose code is a prebuilt binary. Of those headers only `utils.hpp` has
  concurrent code the program depends on, and that is modelled.
* The candidate label counter `candLabel_`, which the callback threads of several
  connections increment without a lock: nothing reads the labels back.
* Lost connections in `ConferenceSystem`: nothing in the client reconnects
  (`m_isCommunicating` stays true), so there is nothing that would end well. `Conference` has
  them.
* `played` (written, never read), `SendBinaryMessage` (only sends), `getRoomInfo` (never
  sent), `setOnVideoAnnexBFrame` and `setOnAudioAACFrame` (nobody calls them),
  `MarkDebugFile` and `RemoveDebugFile` (one system call each, nobody calls them).
* The media data, the contents of the GStreamer pipelines, the wording of the log, build files.

What would come next: the proof that `Teardown`'s lock-level session and `Conference`'s
phases agree.
