# TLA+ models of streamOut

streamOut is an Android foreground service that captures camera and microphone, encodes them,
and serves the result to RTSP clients; a gRPC server controls it and reports its status. This
directory models the parts of it in which threads, callbacks and clients meet, checks them with
TLC on small instances, and proves the main results with TLAPS for every instance.

Source names used below: **J** `Camera2GstStreamer.java`, **C** `camera2_gst_streamer.cpp`,
**S** `StrmOutGrpcServer.java`, **V** `StreamOutSvcCtrl.java`, **D** `cam2_streamout_debug.cpp`,
**B** `streamout.cpp`, **M** `csioMock.cpp`, all under `src/app/src/main`.

## 1. The system

### Components

| component | state it keeps | operations |
|---|---|---|
| encoder callback (J 1402-1499) | `mCachedCsd`, `mWaitingForIDR`, `mFramesSinceIDR` | one output buffer at a time on the codec's looper |
| streamer life cycle (J 898-1005, 1335-1356) | `mRunning`, `mEncoder`, `mCameraDevice`, `mCaptureSession`, `mCameraThread`, `mGstPipelineStarted`, `mRestartCount` | `start`, `stop`, `restartEncoder` (one monitor), codec `onError` (no monitor) |
| camera (J 1505-1596, 1786-1801) | device, session, handler thread | open and session callbacks with two-second waits |
| audio capture (J 1823-2136) | `mAudioThread`, `mAudioRunning`, recorder, encoder | AAC loop or Opus push loop; stop joins for two seconds |
| configuration (J 148-312, 575-713; C 3097-3231; D) | static flags, rates, modes | setters from gRPC and the debug dispatcher |
| native server (C 662-686, 2168-2576, 3011-3083) | `s_server`, `s_loop`, `s_context`, `s_loop_tid` | `nativeGstPipelineInit`, `nativeGstPipelineDestroy`, loop thread |
| media and client handlers (C 967-2149) | `s_appsrc`, `s_audio_appsrc`, `s_full_pipeline`, `s_client_count`, `s_need_data`, `s_request_keyframe`, `s_pts_base` | configure, prepared, unprepared, play request, connected, closed, need/enough data |
| push paths (C 2591-3001) | PTS base, last video PTS, moving A/V offset | `nativePushEncodedBuffer`, `nativePushAudioBuffer` |
| Opus probe (C 744-845) | map of at most 64 PTS, window sums | one probe before and one after the encoder |
| diagnostics (C 279-604, 878-943; `gst_element_print_properties.cpp`) | dump counters | bus messages, periodic and requested dumps |
| status feed (S 29-81, 312-369) | `streamStatusObservers`, `lastStatusById`, `statusLock` | `streamStatusFromNative`, `streamoutWatchStatus` |
| gRPC unary calls (S 87-309) | server handle | start/stop of the server, mode, start, stop, configuration |
| service controller (V) | `mCamera2Streamer`, `activeMode`, `grpcServer` | service callbacks, `startStreaming`, `stopStreaming`, `setMode` |
| debug commands (D) | strtok's pointer, the native latency flag | one line of a client at a time, on any gRPC thread |
| JNI bridge (B 16-326) | three cached classes with their method IDs | `JNI_OnLoad`, `JNI_OnUnload`, `java_stream_status` |
| CSIO mock (M) | `prod_info` | `setup_product_info`; forwards status reports |

### How they interact

- The **main looper** delivers encoder output and codec errors. The callback takes no lock of
  its own; it reads and writes volatile fields and calls into C, each call a section under
  `s_lock`.
- **gRPC threads** call start and stop, which hold the streamer object's monitor from end to
  end, including the whole of Init and Destroy. Codec errors start a **restart thread** or a
  **stop thread**, which queue for the same monitor.
- The server's **loop thread** accepts clients; **client and media threads** of GStreamer raise
  the other signals. All handlers work on the same globals under `s_lock`, except the
  flow-control flags, which are written without it because a push holding `s_lock` can raise
  them.
- **Status reports** leave C after `s_lock` is dropped, from Init, Destroy and the loop thread,
  and enter the status feed, which has its own lock.

### What is hard about it

Keyframe requests cross three threads; frames are withheld, dropped or answered FLUSHING at
several places, and each must be repaired. Destroy is half inside and half outside `s_lock`.
The globals carry no session or media identity. The encoder is replaced under a running
callback. Waits have timeouts after which a late answer still arrives. Subscribers come, break
and go while a broadcast runs. Settings are static and read again at every use while other
threads set them. Audio and video are stamped from two sources and pulled together by an
average. Dumps walk a pipeline that may be taken down under them. Lines are taken apart with
`strtok` on several threads at once. `PROJECT.json` lists these hazards line by line, with the
properties that watch them or the reason why none does.

### What makes each part correct

- *Gate*: an undecodable stream is always being repaired; no request is lost; of a stream that
  waits for an IDR the gate lets one P-frame through at most, of one whose IDR was swallowed,
  which it cannot see, no more than a forced-IDR interval; streams end up decodable.
- *Native server*: one loop at a time; nothing is freed under a running thread; the globals
  describe the current session and media; the last status is true; Destroy returns.
- *Status feed*: snapshot first, then everything, once, in order, to every live subscriber;
  the list does not grow.
- *Streamer life cycle*: `mRunning` means a pipeline, a camera thread and an encoder; a session
  that stopped running is torn down or restarted in the end; after a stop nothing stays open
  (the code does not keep that).
- *Audio capture*: one thread captures and pushes, nothing it uses is released under it, and
  what it pushes is what the media's caps announce.
- *Time line*: no stamp is ahead of the pipeline it goes to; audio steps back by no more than
  the average moves, and the average follows the offset.
- *Opus probe*: a latency printed is that of one frame.
- *Settings and debug commands*: whatever clients send, a setting has a value `start()` can use;
  a line sent alone does what it says.
- *JNI bridge*: references are accounted for on every path that fails, and a thread is left as
  it was found.
- *Pipeline references*: what holds a pipeline holds a live one, and none of its references is
  nobody's; when its media is gone and nobody uses it any more it is finalized (the code does not
  keep that).

## 2. Modules

| module | what it is |
|---|---|
| `KeyframeGate` | encoder callback, IDR gate, native push, and the start/stop/restart threads around them |
| `KeyframeGateProofs` | its types, inductive invariant and safety properties |
| `StatusStream` | abstract: what a status subscriber may count on |
| `StatusFeed` | the feed of S with its lock, list and cancellations; implements `StatusStream` |
| `StatusFeedProofs` | types, inductive invariant, refinement; what `MCServer` composes |
| `RtspServer` | native Init, Destroy, loop thread and signal handlers over several sessions |
| `RtspServerProofs` | types, inductive invariant, safety properties while callers take turns |
| `Camera2Streamer` | start, stop, restartEncoder, onError and the camera callbacks, over what a session opens and closes |
| `Camera2StreamerProofs` | types, inductive invariant, safety properties |
| `StreamSettings` | abstract: what the setters promise of the static settings, a step at a time |
| `AudioCapture` | start and stop of audio capture and the capture thread, over the settings of `StreamSettings` |
| `AvSync` | the time line of a media: origin, audio and video stamps, moving average |
| `AvSyncProofs` | types, inductive invariant, safety and action properties |
| `OpusProbe` | the two pad probes and the switch that turns them on |
| `AudioProofs` | types, inductive invariants and safety properties of `OpusProbe` and `AudioCapture`; what `MCAudio` composes |
| `DebugCommands` | the dispatcher of D with concurrent callers; implements `StreamSettings` |
| `DebugCommandsProofs` | types, the Opus rate rule of `StreamSettings`, refinement, the effect of a line sent alone |
| `JniBridge` | loading, unloading and calls into Java |
| `ServiceControl` | lives of the service, its gRPC server, and the calls that start and stop streaming |
| `PipelineRefs` | who holds a media's pipeline |
| `ControlProofs` | types, inductive invariants and safety properties of `JniBridge`, `ServiceControl` and `PipelineRefs`; what `MCControl` composes |
| `MCKeyframeGate`, `MCRtspServer`, `MCCamera2Streamer`, `MCPipelineRefs` | the instances TLC checks, one module each |
| `MCServer` | one instance of `RtspServer` and `StatusFeed` |
| `MCAudio` | one instance of `AvSync`, `OpusProbe` and `AudioCapture` |
| `MCControl` | one instance of `DebugCommands`, `JniBridge`, `ServiceControl` and `PipelineRefs` |

Some variables are fixed by `Init` and stand for what the environment does in a behaviour:
`settled`, `prompt`, `calm`, `alone`, `quiet`, `orderly`, `tidy`, `serial`, `clientsLinger`. A
property that needs such a condition names it, and the others are checked, and proved, without it.

### KeyframeGate

State and code: `mRunning` ... `mRestartCount` are the Java fields; `s_appsrc`, `s_need_data`,
`s_request_keyframe` the native ones (`serverUp` is `s_server # NULL`). `pc` is the line of
`handleEncoderOutput` the looper is at, `frame` the kind of buffer it holds, `monitor` the
phase of the `synchronized` method under way, `pendingRestarts` and `pendingStop` the threads
waiting for it. Each access to a shared field, and each JNI call, is an action: `Deliver`
(entry, caching of parameter sets), `CheckRunning`, `ConsumeKeyframeRequest`, `ReinjectCsd`,
`RequestIdr`, `GatePasses`/`GateWithholds`, `Push*`, `ReleaseBuffer`.

External: the encoder emits parameter sets, then an IDR, then P-frames and IDRs; a requested
IDR follows after at most `EncoderLatency` P-frames. The media behind an appsrc goes `new`
(FLUSHING), `playing`, `closing`. `csdIn`, `chain`, `strays` and `blind` are history: whether the
decoder behind the appsrc can use the next P-frame, why not, and the P-frames that were pushed all
the same. `chain` tells a stream that
was never in sync (`install`), one that lost a P-frame (`gap`), and one whose IDR or parameter
sets were thrown away with no request outstanding (`swallowed`). The three are kept apart
because the code repairs them differently: the first two by a request, the third only by the
unsolicited IDR every `FORCED_IDR_INTERVAL_FRAMES` frames.

For the same reason undecodable P-frames are counted in two ways. While the chain is `install` or
`gap` the code knows, and the gate is there to keep them back: `strays` counts, per media, those
that pass, and `AtMostOneStray` allows the one in flight at the install. While it is `swallowed`
the gate is open and every P-frame passes: `blind` counts these from one encoder up to its next
IDR, and `SwallowedIsShort` bounds them by the interval and the encoder's latency, which is attained.
A stream swallowed *without its parameter sets* (finding 1) is not helped by an IDR, and there is
no bound on what it takes until the next request; `blind` leaves it out. A restart begins to count
anew: each encoder may spend an interval.

A codec released under a callback makes `releaseOutputBuffer` throw; the model restarts the
process then (`CallbackThrows`). A `start()` that arrives while a restart is pending and the
server is up is not followed here; `Camera2Streamer` follows it.

### StatusFeed and StatusStream

A call is one `wrappedObserver`. `statusLock` is free, held by a report, or held by a call
between joining the list and sending its snapshot. A broadcast works through a copy of the list
one observer at a time (`Notify`), in any order. `Break` and `Cancel` are the client's;
`CancelHandler` runs after the call's method has returned, as gRPC serialises it. Reports go to
all observers whatever id they asked for (S 71-78); only the snapshot depends on the id, and
`StatusStream` says so. The refinement is `INSTANCE StatusStream` with the variables of the
same names.

### RtspServer

A *session* is one successful Init with its Destroy; a *caller* is a `Camera2GstStreamer`
object, whose monitor makes it do one thing at a time. `s_appsrc`, `s_full_pipeline` and
`s_pts_base` hold the number of the media they come from, which the code cannot see: that is
what makes "stale" expressible. Init is one section under `s_lock` and the report after it.
Destroy is `DestroyClear` (under `s_lock`), then `DestroyQuit`, `DestroyJoin`, `DestroyJoined`,
`ReportStopped` outside it. `ClientConnected` and `ReportConnected` are the two halves of
`on_client_connected`.

External, from GLib and GStreamer: a quit before `g_main_loop_run` is lost; the loop finishes
the iteration it is in; a server has one shared media at a time and makes a new one for the next
client; a connection keeps its server alive, so events of a session can follow its Destroy.
`clientsLinger`, chosen once, says whether that may last beyond the next Init.
The periodic dump timer is left out: a timer that a failed `pthread_create` leaves behind
(C 2530) is overwritten by the next Init and never fires, its context being gone.

### Camera2Streamer

State and code: the eight fields of J 241-274 that a session opens, closes or counts with.
`monitor` says which `synchronized` method is under way and how far it is (J 898-1003);
`latch` is the `CountDownLatch` it waits on (J 1520, 1568). `pendingRestarts` and `pendingStops`
count the threads that `onError` (J 1336-1356) and a failed restart (J 1000) leave waiting for
the monitor; they do not know which session they were made for. Each `initCamera` makes a new
camera thread and opens the camera on it, so one name of `Cams` stands for the thread, the
device and the session made on it; a name is used again when nothing refers to it.

External: `looper`, `inbox` and `device` are the camera thread, what is posted to it, and the
camera behind it. The camera opens, fails or stays silent; a session is configured or not, or
stays silent. Both waits may end before the answer is delivered, which is why an answer is
`late` once its wait is over. `quitSafely` lets a thread deliver what was posted and then end;
what is posted afterwards is lost. A camera has one user, so a new opening takes it from a
device still open. `lostLive` and `lostDead` count encoders that were overwritten in `mEncoder`
without a release; such an encoder can still fail and call `onError`.

Abstractions: `onError` is one step. Releasing the encoder in `restartEncoder` is part of
`Restart`, since nothing looks at it in between. AUDIO_ONLY holds nothing but the pipeline and is
left out; the audio thread counts only in that starting it may throw. A late `onConfigured` on a
closed device makes `setRepeatingRequest` throw an exception J 1579 does not catch: the process
ends (`SessionThrows`) and starts again from `Init`. Which camera `start()` is asked for, and the
check that it is present, are not followed: `sAvailableCameras` keeps cameras that are in use.

`RunningMeansServed` asks for the camera thread and not for the device, because `onDisconnected`
(J 1529) closes the device and leaves `mRunning` set.

### StreamSettings and AudioCapture

`settings` is the record of the statics that debug commands and gRPC can set. The setters
of `StreamSettings` are what may happen to it; `setUseOpus(true)` is two writes, the codec and
then the rate (J 683-713), between which another thread may write, and `forcing` counts the
calls that are between them. `rateAsked` is history: did somebody set a rate after Opus was
turned on?

`AudioCapture` extends it with `start()` from its pre-flight to the launch of the thread, `stop()`
with `stopAudioCapture` and `releaseAudio`, both on one program counter `at` as both are
`synchronized`, and the capture threads, `threads`, each at a place of the AAC or the Opus loop
(J 1931-2098). A thread keeps the number it got when launched: after a join that timed out there
may be two. `mAudioRecord` and `mAudioEncoder` hold the format they were made with and
`pipeline` the one its caps name, and a `chunk` has the three formats it was captured, coded and
timed in, so that a setting that changed in between shows. Releasing what a thread uses, or
starting one without it, makes it `crashed`. The permission, `AudioRecord`, the codec, `start()`'s
camera part and the native side may fail at each step (external).

`prompt` says that `join(2000)` returns because the thread ended; `settled` that setters are
called between sessions. Without `prompt` a thread may outlive its record, which is what the time
limit accepts, and `JoinReturns` is why it is not met. Without `settled` the caps can differ from
the chunks and the AAC thread can find no encoder, since J 1977 and 2086 read the settings again for
each chunk. The docs of the setters in J ask for calls before `start()`; but D 455 and 475, and the
repository's README (lines 329-331), offer them as commands for a running service that are "applied
on the next stream start", and that is not so. `CaptureMatchesMedia` is therefore about everything
*else* that could set caps and chunks apart: failed starts, second starts under running audio,
late threads, Opus with another rate.

### AvSync

`PushVideo` and `PushAudio` are the arithmetic of C 2720-2788 and C 2805-3001, each one section
under `s_lock`; `PushAudioEarly` is the case without an origin, which GStreamer stamps with the
running time (external). Times are integers, as are the code's; `Smoothed` is the conversion of
a mean in doubles to an unsigned integer, and allows one less where the mean is an integer, as
the products are rounded. `Lag` bounds how long a frame or chunk was under way. `heard`, `stamp`
and `byClock` are history: the last chunk, and the stamp it got.

### OpusProbe

`opusenc` handles one frame at a time on one thread (external), `enc`. Each probe tests the flag
and then takes the lock, and is two actions. `Toggle`, `ToggleReset` and `ToggleSet` are the
three steps of C 3287-3298, which hold no common lock. `own` marks the note of the frame in the
encoder. `calm` says that the switch is not thrown by two threads at once or between the test
and the note of a frame: the race leaves a note behind and with it every later latency is
another frame's. That is not what C 773-775 says ("the two stay balanced; on re-enable both start
fresh and the FIFO re-pairs"); no run shows it, as the figure is a diagnostic, and `LatenciesAreOwn`
is about frames, media and switching otherwise. `ProbeTypeOK`, the cap, needs no `calm`. The comment at C 3283 says the statistics keep running while the switch is off;
both probes return before they count, so they do not. Nothing depends on it.

### DebugCommands

A caller's `pc` follows `jniRtspServerDebug` and `cam2_streamer_debug`. `saved` is the static
pointer inside `strtok`, which every thread shares: `Load` reads it and `Dispatch` or `Argument`
cuts the next token off and writes it, so that one thread may go on in the `line` of another, or
in a `copy` that was freed and may hold any token. The two accesses within a call of `strtok`
are two actions. A token is what its readers make of it (`words`, `int`, `bps`); `Abbreviates`
is `strncmp` over the length of the name given, word by word, and `Jint` the cast to a
jint, with `IntRange` values. The dispatcher's setter is one action, but for `setUseOpus` and
`SET_AUDIO_LATENCY_DEBUG` with two writes each. `KeepsPromise` is the refinement: `forcing`
is the number of callers between the two writes of `setUseOpus`. The JNI calls in
between succeed here; `JniBridge` has their failures.

### JniBridge

`JNI_OnLoad` goes through `find`, `ref` and `method` of three classes (B 28-136), each of which
may fail; `Dropped` is what the failing branch deletes. `live` is what the VM has and `globals`
what the code's pointers say, so a reference lost or kept too long makes them differ. A call is
a status (B 263-326) or a setter's or `DUMP_ALL_CONFIG`'s (D 218-549), on a thread of Java or
GStreamer, step by step through attachment, local references, the exception and detachment.
`quiet` says that no call is under way at `JNI_OnUnload`, which shuts the gRPC server down first.

### ServiceControl

Android gives each life of the service an object of its own (`Services`), one after the other,
on the main thread; the process, `instance` and gRPC's threads go on between them. `where` says
where the main thread and each call is, `svc` the object it works on and `target` the streamer it
has read. None of the fields has a lock, so `mCamera2Streamer` is read by one action each time
the code reads it: a `startStreaming` tests it, may create a streamer, and reads it again (V
196-207), and so does `camera2Stop`, for a call, for `setMode` or for `onDestroy`. `grpcServer` is
how far the gRPC server of an object is, and `port` whose server listens: `OnDestroy` finds
nothing to shut down as long as `start()` on its own thread has not stored its result.

A streamer is up or not. Its start fails when another is up, since Init rejects a second server
(`RtspServer`), or for any other reason; a stream may fail by itself. What another thread sees of
a half-done start or stop is in `Camera2Streamer` and `RtspServerTwoOwners`.

`orderly`: the first start comes alone, none overlaps a change of mode or the end of the service,
and the service is not destroyed before its gRPC server has started. Then `StreamsAreReachable`
holds: stop requests that overlap starts, a change of mode and the end of the service leave no
stream behind that nobody can stop. Where it fails, two starts make two streamers, of which the
field keeps one. `tidy`: the port is always the same, nobody else takes it, and it is free as
soon as a server is shut down. Then `LiveServiceIsServed` holds although a server that failed to
start is kept (V 487) and one that started late is never shut down: in each case another of the
same process listens, and what it calls is the `instance` that lives.

### PipelineRefs

`PipelineRefs` counts references. The media owns its pipeline (external); the play request, which
takes its own, caches under `s_lock` and gives its own up after a scan without the lock, the
cache, and each dump with the dump inside it take theirs. `MediaPrepared` is `on_media_prepared`:
five handlers on the pipeline's bus, each closure with a reference to the pipeline (C 1011-1024),
given up when the bus is finalized; and the bus is finalized with the pipeline
(`PipelineFinalized`, external), whose count those five keep from falling to 0. `Holders` counts
them like any other. `serial` says that GStreamer's shared factory has one media at a time.
Without it a play request may replace a cached pipeline without an unref (`RtspServerLinger`
shows how), so counts are then only bounded from below. With it `RefsAreHeld` says that the
handlers' references are the only ones that outlive their use; that these do is what the run
`PipelineRefsLeak` shows.

## 3. Runs

| run | asks | result |
|---|---|---|
| `KeyframeGate` | safety of the gate under all interleavings; every stream syncs; the forced IDR cures swallowed IDRs, and in time | holds (about 327 000 states) |
| `KeyframeGateCsdReady` | are the parameter sets in once the appsrc is ready? (C 1505-1507) | no |
| `KeyframeGateStop` | is stop() safe against the callback? (J 954-956) | no |
| `Server` | books, status, loops, return of Destroy, one caller; refinement of `StatusStream`, live calls up to date, cancelled calls forgotten | holds (about 516 000 states) |
| `RtspServerReturns` | does every Destroy return? (C 3007-3008, 3067) | no |
| `RtspServerLinger` | is the cached pipeline never stale? (C 1726-1729) | no |
| `RtspServerTwoOwners` | is a loop freed only after its end, with two callers? (C 51-54) | no |
| `Camera2Streamer` | `mRunning`, half sessions, the invariant of a session; does a half session settle? | holds (about 1.1 million states) |
| `Camera2StreamerOpen` | is nothing left open when there is nothing to release? (J 954-961) | no |
| `Audio` | stamps and average of `AvSync`; whose latencies `OpusProbe` prints; one capture thread, caps that match what it pushes, and `stop()` that gets past its join in `AudioCapture` | holds (about 150 000 states) |
| `Control` | refinement of `StreamSettings` and the effect of a line sent alone; references of JNI and of pipelines; can a stream that is up be stopped, and a live service be called? | holds (about 1.6 million states) |
| `PipelineRefsLeak` | do a media's bus handlers die with its bus? (C 994-996) | no |

`Server`, `Audio` and `Control` check several modules in one run each. The modules share no
variable, and `subject` says which of them moves while the variables of the others rest: each
behaviour is a behaviour of one module and each behaviour of a module occurs, so the run is
equivalent to one run per module. The modules do not interact in the code either, but for status
reports, any of which `StatusFeed` takes at any time, and the formats that `AudioCapture` and
`DebugCommands` share; for these both speak of `StreamSettings`.

The seven runs that fail are disagreements between the code and its comments; `PROJECT.json`
quotes the lines.

1. `CsdInjectedWhenReady`: the request raised in `on_media_configure` can be consumed at once, and
   the parameter sets and IDR are then answered FLUSHING. The stream recovers with the forced
   IDR (`SafetyNetResyncs`) provided it has parameter sets, or with the next request.
2. `CallbackCodecIsLive`: nothing makes stop() or restartEncoder() wait for a callback in
   progress.
3. `DestroyReturns`: Destroy right after Init hangs if the loop thread has not reached
   `g_main_loop_run`. `DestroyOfRunningLoopReturns` is the part that does hold.
4. `FullPipelineNeverStale`: a play request of an old connection after Destroy fills
   `s_full_pipeline`, which Init does not clear. `BooksAreExact` is what holds while no
   connection outlasts its session.
5. `ReleasedAfterExit` with two callers: `s_loop_tid` is read outside `s_lock`. While callers
   take turns it is proved.
6. `NothingIsLeftOpen`: a failed restart leaves a codec in `mEncoder` and a stop waiting; a
   `start()` that gets the monitor first overwrites that codec (J 1151) and, failing, cleans up
   only its own. The stop then finds nothing to release.
7. `HandlersDieWithTheBus`: a media is prepared, unprepared and freed, and its pipeline stays: the
   handlers of its bus hold it, it holds the bus, and nobody disconnects them. Every client after
   the last has left costs one pipeline.

Deadlock is checked in `KeyframeGate` and `Camera2Streamer`. The other modules bound the number
of reports, sessions, media, commands or the clock, and come to rest when these are used up.

### Bounds

- `KeyframeGate`: restart limit 1, forced-IDR interval 2, encoder latency 1, one queued restart.
  One restart and then the limit exercises both branches of `onError`; interval 2 makes the
  counter wrap with a P-frame in between; latency 1 puts one old P-frame between request and
  IDR. Clients, media and stops are unbounded.
- `Server`, `RtspServer`: two sessions, two connections, three media: a media replaced within a
  session and one in each session. The failing runs use smaller numbers still. `StatusFeed`: two
  calls, two ids, two codes, three reports: a report before, during and after the registration of
  a call, a second call that breaks or cancels in the same broadcast, and an id nobody reported on.
  Streams are interchangeable, so one of the calls asks for a fixed one (`AsksForFirst`).
- `Camera2Streamer`: two camera threads, so that messages of an old one meet a new session;
  restart limit 1; one thread waiting for the monitor; one overwritten encoder; a session is
  answered only into an empty mailbox. The safety properties are proved for any number of
  threads waiting, cameras and messages. `Room` keeps a `start()` out only when no name is
  unused or no encoder may be lost any more. Clients, sessions and camera failures are
  unbounded.
- `Audio`, `AvSync`: weight 1/2, clamp 3, lag 1 and a clock to 11: long enough for audio to run
  into the clamp, for the average to rise and fall again, and for a second media after it; all
  of it is proved for any weight, clamp, lag and time. `OpusProbe`: three PTS with room for two
  notes, so that the cap evicts; a window of three, so that it wraps; two threads that throw the
  switch. `AudioCapture`: two rates, two capture threads (a second session after the first), two
  calls of setters, enough for two settings to differ from their defaults at once.
- `Control`, `DebugCommands`: two callers with one command each or one with two; thirteen lines,
  one for each setter, an abbreviation, an empty line, a name without argument and an unknown
  name; an int of 8 bits, so that 180 overflows. `JniBridge`: one thread of Java and one that is
  not; loads and unloads are unbounded. `ServiceControl`: two lives, two calls at a time and two
  streamers; calls and commands are unbounded. A property is checked with the one assumption it
  needs and without the other. `PipelineRefs`: two pipelines, two dumpers and nine
  references when a client plays: the five of the handlers and four more; `PipelineRefsLeak` needs
  one of each.

### Fairness

The looper runs callbacks and finishes them. A thread inside a monitor or lock goes on, and a
queued thread gets the monitor. A running encoder puts out frames, since a capture session
drives it. A playing appsrc that ran dry asks for data, and a configured media becomes ready
unless closed. Dumps and play requests end, and a pipeline without references is finalized. GStreamer runs the loop thread, and a loop told to quit exits. gRPC runs the
cancel handler. The scheduler runs the audio thread and `AudioRecord.read` returns, for
`JoinReturns`: the record is running or is released under the read, and each returns. A wait in
`Camera2Streamer` ends after two seconds, and Java monitors
let a waiting thread in eventually; nothing is assumed of the camera. No client, codec error or
stop request is assumed to come. All fairness is weak.

## 4. Proofs

Every invariant and every step property (`[][A]_vars`) that a passing run checks is proved, for
every value of the constants that the named `ASSUME`s allow: `Spec => []P` from an inductive
invariant, refinements step by step from the types. The runs check the inductive invariants of
`KeyframeGate`, `StatusFeed`, `RtspServer` and `Camera2Streamer` too, and of the others the
properties that follow from them.

- `KeyframeGateProofs`, from `GateAssumption` (the constants are numbers, the interval
  positive): `GateInv` has seven parts, the first five of them `ChainInv`. `ThreadInv` ties the monitor's phase to encoder and
  server; `CodecInv` ties the callback to the codec it came from; `CsdInv` says parameter sets
  are in the appsrc or on their way; `RepairInv` strengthens `BrokenChainIsRepaired` to the
  moment a stop begins and to synced streams whose encoder has just failed; `StrayInv` says a
  P-frame past the gate of a broken stream is one the install overtook; `SightInv` says that only a
  running encoder feeds a decoder blindly, and `BlindInv` that each such frame was counted towards
  the next IDR: `blind` is no more than `Spent`, what `mFramesSinceIDR` or the IDR asked for has
  used up, with the frame in the callback's hand counted on one side. `SwallowedIsShort` needs it:
  the counter is the callback's and the stream the media's, and a stop, a drop or an IDR of
  another cause may come between. `BrokenChainIsRepaired`
  alone is not inductive: that a discarded frame leaves a repair armed needs to know what the
  monitor is doing, and that the gate is closed in time needs the flag raised at the drop.
- `StatusFeedProofs`, from `FeedAssumption`: `FeedInv` relates lock, list, cache and progress of
  each call to the log. `Refinement` maps a report to `Report`, a snapshot sent to `Prime`, a
  message forwarded to `Deliver` and everything else to a stutter. `ForgottenForGood` is the half of
  `CancelledCallsAreForgotten` that needs no fairness: a call off the list stays off it, though a
  broadcast's copy may still name it.
- `RtspServerProofs`, from `ServerAssumption`, for any callers: the types always; the rest as long
  as callers take turns (`TakeTurns`: of any two, one has no pipeline and is in no call), which is
  what the two-caller run shows to be needed and what a single `Camera2GstStreamer` does by itself
  (`ServerInvOfOne`). `SessionInv` says all sessions but the last are over;
  `CallerInv` says which loop is alive at each point of Init and Destroy, `IdleInv` that none is
  when everybody is out; `BooksInv` says the globals speak of the last session. That others are
  out, and stay out, while one moves is a lemma of its own, so that each step is about one caller.
- `Camera2StreamerProofs`, from `StreamerAssumption`, for any number of cameras and any bounds:
  `StreamerInv` says where the monitor's holder may find what (`PhaseInv`), that the camera
  thread in use is alive and the handler's (`LooperInv`), that pipeline and camera thread come
  and go together (`PairInv`), that a session's answer is heard only while it is waited for
  (`AnswerInv`), and that a failed encoder or a half session has a thread waiting (`KeeperInv`).
  `RunningMeansServed` needs `AnswerInv`: a restart of a session that is gone must not get as
  far as setting `mRunning`, and what stops it is that no camera answers it.
- `AvSyncProofs`, from `SyncAssumption` (the weight is a fraction below 1, the rest are numbers):
  `SyncInv` says that the origin was captured no earlier than `Lag` before the media got its
  appsrcs, that the last video stamp is no later than now, and that with an average the last audio
  stamp is the capture time of the last chunk less the origin and that average. The properties
  rest on one arithmetic fact: what `Smoothed` yields lies within a unit of the weighted mean,
  which lies between the old average and the offset.
- `AudioProofs`, on `OpusProbe` from `ProbeAssumption` and on `AudioCapture` from
  `CaptureAssumption`. `ProbeInv` bounds the notes by the cap whoever throws the switch; evicting
  one always makes room, since a set of numbers that is not empty has a least one. While the switch
  is thrown calmly, the only note there can be is that of the frame in the encoder (`Fresh`), which
  `LatenciesAreOwn` alone does not say and needs. `CaptureInv` says which fields are set at which
  point of `start()` and `stop()` (`FieldInv`), that with prompt joins nobody but `mAudioThread` is
  alive (`AloneInv`), that with settled settings what was opened has the format set now
  (`SessionInv`), and, with both, that each chunk on its way has that format three times
  (`ChunkInv`). The last needs the three before it: a thread reads the settings again for each
  chunk, so they must be those of its session, and it must be this session's thread.
- `DebugCommandsProofs`, from `DebugAssumption` (finitely many callers, an int with an even number
  of values, lines that are sequences of tokens with integers or `NoNumber`): `DebugInv` is the
  types of settings, arguments and places, no more, since nothing is assumed of what a torn line
  yields and the handlers' own checks are what keeps settings legal. `Refinement` maps each handler
  to one setter of `StreamSettings`, the second write of `setUseOpus` to `ForceRate`, where the
  callers between the two writes are counted, and all of `strtok` to a stutter. `OpusRateKept`
  proves of `StreamSettings` that with Opus on a rate other than 48000 Hz was asked for later or is
  about to be replaced; `OpusRateOfCommands` carries it over. For `EffectIsWhatWasAsked`, of lines
  sent alone, `CommandsInv` adds that one caller is under way, that `strtok`'s pointer is in its
  own copy right behind the token cut last (`StrtokInv`), that the command is the one its line names
  (`CommandInv`), what it has written so far (`EffectInv`), and that the two latency flags agree
  (`LatencyInv`), which `SET_AUDIO_LATENCY_DEBUG` writes one after the other.
  Two lemmas are about data: the names of the table all differ, so that a full name finds its own
  entry; and the cast to a jint keeps what an int holds.
- `ControlProofs`, on `JniBridge` from `JniAssumption`, for any threads: `CacheInv` says that what is
  cached is live, and with a quiet unload that a status call meets its classes; `ThreadInv` says per
  step how many local references a call has, whether an exception can be pending and whether it
  attached its thread.
- `ControlProofs`, on `PipelineRefs` from `PipelineAssumption`, for any number of pipelines and
  dumpers: that counts are those of the holders, the closures on the bus among them, and that a
  finalized pipeline has none, is inductive together with `MediaInv`, that a
  pipeline played is of a prepared media and with serial media there is one of those.
  `CachedIsOwned`, the same of the cached pipeline, is proved and in no run: `BooksAreExact` of
  `RtspServer` has it in detail. A lemma says what a change of one dumper does to the number of
  dumpers that hold a pipeline.
- `ControlProofs`, on `ServiceControl` from `ServiceAssumption`, for any clients and lives:
  `ServerInv` says who holds the port. `LiveServiceIsServed` is inductive together with it: with
  tidy ports a start fails only because somebody of the process listens, and who listens gives the
  port up only in an `onDestroy`. `StreamsAreReachable` is inductive only together with where everyone
  is while calls are orderly: a gRPC server ends with its service (`OrderlyServers`); a start has
  the living service to itself, in streaming mode, with no teardown under way, and until a streamer
  is stored it is the only start (`OrderlyStarts`); and the main thread leaves no stream behind when
  it changes the mode or ends the service (`OrderlyStops`).
- The compositions: each behaviour of `MCServer`, `MCAudio` and `MCControl` is a behaviour of each
  module in it (`ServerIsEachModule`, `AudioIsEachModule`, `ControlIsEachModule`), so what is proved of a module holds in its run.

Only model-checked: the six liveness properties `EveryStreamSyncs`, `SafetyNetResyncs`,
`CancelledCallsAreForgotten`, `DestroyOfRunningLoopReturns`, `HalfSessionSettles` and `JoinReturns`.
They rest on fairness, and through it on ENABLED, which the provers do not have.

## 5. Not modelled

- *The rest of the service controller and of the gRPC calls*: permissions, notifications, intent
  extras, what `configure.txt` sets besides the mode (single stores), and calls that store nothing.
- *`setup_product_info`* (M 203-222): walks a table with a shared pointer, which two callers can
  take past its end; the pointer is only logged.
- *Camera availability* (J 425-530): nothing sets `sAutoStartStop`, so its callbacks only keep a
  set, and the check in `start()` is an early return like the one before it.
- *`setCustomPipeline`, `setGopMode`, the flags `initGstPipeline` hands to C and the choice of a
  bit rate*: single stores and text, read once at Init.
- *Encoder parameters, pipeline text, caps, SDP, socket options, frame durations, log output,
  encoder lookup*: data no property here is about.
- *What a dump prints* (C 279-604, `gst_element_print_properties.cpp`), bus messages and the
  limit of three DOT files: output only. Who holds what is printed is in `PipelineRefs`.
- *Loader classes, boot receiver, permissions, build scripts*: no state that another part
  depends on. `gstreamer_test.cpp` is not built.
- *`csioCommonShare.h`, `csioSettings.h`*: constants and declarations of a library that the mock
  stands in for; the code uses a few of them.

## 6. What is left

The abstract streamer of `ServiceControl` (up or down) as an abstract specification that
`Camera2Streamer` and `RtspServer` implement, and with it that the streamers of orderly calls take
turns, as `RtspServerProofs` supposes. Runs for the two disagreements that are only told of above: settings
that a chunk reads again (`settled`) and the probe's unbalanced notes (`calm`).
