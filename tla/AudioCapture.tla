------------------------------ MODULE AudioCapture ------------------------------
(***************************************************************************)
(* Audio capture of Camera2GstStreamer: start() builds a pipeline, sets an *)
(* AudioRecord and for AAC a MediaCodec up and launches a thread that      *)
(* pushes what is captured; stop() tells the thread to end, waits for it,  *)
(* for two seconds at most, and releases what it used.                     *)
(*                                                                         *)
(* start() and stop() are synchronized, so one program counter serves      *)
(* both.  Setters are not: start() reads each setting again whenever it    *)
(* needs it, the capture thread does for every chunk.                      *)
(* Reads of rate and channel count for one purpose are one step.           *)
(*                                                                         *)
(* An encoder error clears mRunning under a session, whose audio goes on,  *)
(* and start() may come before the restart.                                *)
(*                                                                         *)
(* Left out: the rest of the camera side (Camera2Streamer has it),         *)
(* setCustomPipeline, and of the chunks everything but their format.       *)
(***************************************************************************)
EXTENDS StreamSettings, Sequences, FiniteSets

CONSTANTS
  MaxThreads,     \* bound: capture threads launched
  MaxSettings     \* bound: calls of setters

ASSUME CaptureAssumption == MaxThreads \in Nat /\ MaxSettings \in Nat

VARIABLES
  at,                            \* where start() or stop() is, or "idle"
  mRunning,
  camera,                        \* is there an mEncoder or mCameraDevice?
  restarting,                    \* is a restart of the encoder scheduled?
  pipeline,                      \* what the native side was given, or None
  mAudioRecord, mAudioEncoder,   \* their formats, or None
  mAudioRunning, mAudioThread,   \* the number of the thread, or 0
  threads,                       \* all of them so far: where, with Opus or AAC, the
                                 \* chunk it has
  pushed,                        \* the last chunk pushed into this pipeline, or None
  changes,                       \* calls of setters so far
  settled,                       \* external, fixed: setters are called between sessions
  prompt                         \* external, fixed: join(2000) does not time out

resources == <<camera, restarting, pipeline, mAudioRecord, mAudioEncoder>>
running   == <<mRunning, mAudioRunning, mAudioThread>>
choices   == <<settled, prompt>>
captureVars ==
  <<settingVars, resources, running, at, threads, pushed, changes, choices>>

None == [rate |-> 0]

\* The format that start() and the thread read from the settings now.
Format == [rate |-> settings.AUDIO_SAMPLE_RATE, channels |-> settings.AUDIO_CHANNEL_COUNT]

Go(from, to) == at = from /\ at' = to

\* stop() has nothing to do.
NothingToRelease == ~camera /\ pipeline = None

-----------------------------------------------------------------------------
(* The setters.                                                             *)

\* A setter is called, or setUseOpus goes on to the rate.
Setter ==
  /\ settled => at = "idle" /\ NothingToRelease
  /\ \/ /\ changes < MaxSettings /\ changes' = changes + 1
        /\ \/ \E mode \in StreamModes : SetStreamMode(mode)
           \/ \E rate \in Rates : SetAudioSampleRate(rate)
           \/ \E channels \in {1, 2} : SetAudioChannelCount(channels)
           \/ \E b \in BOOLEAN : SetUseOpus(b)
     \/ ForceRate /\ UNCHANGED changes
  /\ UNCHANGED <<resources, running, at, threads, pushed, choices>>

-----------------------------------------------------------------------------
(* start().                                                                 *)

\* Pre-flight; the camera's availability is external.
StartBegins ==
  /\ ~mRunning /\ Go("idle", "camera")
  /\ settled => forcing = 0
  /\ UNCHANGED <<settingVars, resources, running, threads, pushed, changes, choices>>

\* initEncoder and initCamera, unless the stream is audio only.
StartCamera ==
  /\ IF settings.mStreamMode = AUDIO_ONLY
     THEN Go("camera", "pipeline") /\ UNCHANGED camera
     ELSE \/ Go("camera", "pipeline") /\ camera' = TRUE
          \/ Go("camera", "stop") /\ camera' \in BOOLEAN
  /\ UNCHANGED <<settingVars, restarting, pipeline, mAudioRecord, mAudioEncoder, running,
                 threads, pushed, changes, choices>>

\* Mutant: the caps name the default rate.
BuiltDefaultRate ==
  IF settings.mStreamMode = VIDEO_ONLY THEN [audio |-> FALSE]
  ELSE [audio |-> TRUE, opus |-> settings.m_useOpus,
        format |-> [Format EXCEPT !.rate = OpusHz]]

\* The pipeline string, and what nativeGstPipelineInit detects in it.
Built ==
  IF settings.mStreamMode = VIDEO_ONLY THEN [audio |-> FALSE]
  ELSE [audio |-> TRUE, opus |-> settings.m_useOpus, format |-> Format]

\* initGstPipeline; the native side may fail, and rejects a second server.
InitGstPipeline ==
  /\ \/ Go("pipeline", "audio") /\ pipeline = None /\ pipeline' = Built
     \/ Go("pipeline", "stop") /\ UNCHANGED pipeline
  /\ UNCHANGED <<settingVars, camera, restarting, mAudioRecord, mAudioEncoder, running,
                 threads, pushed, changes, choices>>

\* start() ends, with or without audio.
Ready == at' = "idle" /\ mRunning' = TRUE /\ UNCHANGED <<mAudioRunning, mAudioThread>>

\* startAudioCapture up to the AudioRecord: without permission or record no audio.
StartRecord ==
  /\ at = "audio"
  /\ \/ Ready /\ UNCHANGED mAudioRecord
     \/ /\ settings.mStreamMode # VIDEO_ONLY
        /\ at' = "encoder" /\ mAudioRecord' = Format
        /\ UNCHANGED running
  /\ UNCHANGED <<settingVars, camera, restarting, pipeline, mAudioEncoder, threads, pushed,
                 changes, choices>>

\* The AAC encoder, unless Opus is used; a failure releases the record.
StartEncoder ==
  /\ at = "encoder"
  /\ \/ /\ at' = "launch"
        /\ mAudioEncoder' = IF settings.m_useOpus THEN mAudioEncoder ELSE Format
        /\ UNCHANGED <<running, mAudioRecord>>
     \/ ~settings.m_useOpus /\ Ready /\ mAudioRecord' = None /\ mAudioEncoder' = None
  /\ UNCHANGED <<settingVars, camera, restarting, pipeline, threads, pushed, changes,
                 choices>>

\* The encoder's onError; it may schedule a restart.
EncoderError ==
  /\ camera /\ mRunning /\ mRunning' = FALSE
  /\ restarting' \in {restarting, TRUE}
  /\ UNCHANGED <<settingVars, camera, pipeline, mAudioRecord, mAudioEncoder, mAudioRunning,
                 mAudioThread, at, threads, pushed, changes, choices>>

\* restartEncoder, when it succeeds.  (When it fails it calls stop().)
RestartEncoder ==
  /\ restarting /\ at = "idle" /\ restarting' = FALSE
  /\ camera' = TRUE /\ mRunning' = TRUE
  /\ UNCHANGED <<settingVars, pipeline, mAudioRecord, mAudioEncoder, mAudioRunning,
                 mAudioThread, at, threads, pushed, changes, choices>>

Thread(where, opus) == [where |-> where, opus |-> opus, chunk |-> None]

\* mAudioRunning, startRecording, which may throw, and the thread.
Launch ==
  /\ at = "launch" /\ mAudioRunning' = TRUE
  /\ \/ /\ Len(threads) < MaxThreads
        /\ threads' = Append(threads, Thread("test", settings.m_useOpus))
        /\ mAudioThread' = Len(threads')
        /\ at' = "idle" /\ mRunning' = TRUE
     \/ at' = "stop" /\ UNCHANGED <<threads, mAudioThread, mRunning>>
  /\ UNCHANGED <<settingVars, resources, pushed, changes, choices>>

-----------------------------------------------------------------------------
(* stop().                                                                  *)

\* From outside, or from start() when it failed; stopAudioCapture to its join.
StopBegins ==
  /\ at \in {"idle", "stop"}
  /\ mRunning' = FALSE
  /\ IF NothingToRelease THEN at' = "idle" /\ UNCHANGED mAudioRunning
     ELSE /\ mAudioRunning' = FALSE
          /\ at' = IF mAudioThread # 0 THEN "join" ELSE "release encoder"
  /\ UNCHANGED <<settingVars, resources, mAudioThread, threads, pushed, changes, choices>>

\* Mutant: the thread is not waited for.
JoinNever ==
  /\ Go("join", "release encoder")
  /\ mAudioThread' = 0
  /\ UNCHANGED <<settingVars, resources, mRunning, mAudioRunning, threads, pushed, changes,
                 choices>>

\* join(2000)
Join ==
  /\ Go("join", "release encoder")
  /\ prompt => threads[mAudioThread].where = "over"
  /\ mAudioThread' = 0
  /\ UNCHANGED <<settingVars, resources, mRunning, mAudioRunning, threads, pushed, changes,
                 choices>>

\* releaseAudio
ReleaseEncoder ==
  /\ Go("release encoder", "release record")
  /\ mAudioEncoder' = None
  /\ UNCHANGED <<settingVars, camera, restarting, pipeline, mAudioRecord, running, threads,
                 pushed, changes, choices>>

ReleaseRecord ==
  /\ Go("release record", "destroy")
  /\ mAudioRecord' = None
  /\ UNCHANGED <<settingVars, camera, restarting, pipeline, mAudioEncoder, running, threads,
                 pushed, changes, choices>>

\* releaseCamera, releaseEncoder, nativeGstPipelineDestroy
StopEnds ==
  /\ Go("destroy", "idle")
  /\ camera' = FALSE /\ pipeline' = None /\ pushed' = None
  /\ UNCHANGED <<settingVars, restarting, mAudioRecord, mAudioEncoder, running, threads,
                 changes, choices>>
-----------------------------------------------------------------------------
(* The capture thread.                                                      *)

\* Thread t, at `from`, goes on to `to` with a chunk.
Moves(t, from, to, chunk) ==
  /\ t \in DOMAIN threads /\ threads[t].where = from
  /\ threads' = [threads EXCEPT ![t] = [where |-> to, opus |-> @.opus, chunk |-> chunk]]

Keeps(t, from, to) == t \in DOMAIN threads /\ Moves(t, from, to, threads[t].chunk)

threadless == <<settingVars, resources, running, at, changes, choices>>

\* Mutant: a thread that has begun to read goes on reading.
TestRunningLate(t) ==
  /\ t \in DOMAIN threads
  /\ \/ mAudioRunning /\ Keeps(t, "test", IF threads[t].opus THEN "read" ELSE "input")
     \/ ~mAudioRunning /\ threads[t].opus /\ Keeps(t, "test", "read")
     \/ ~mAudioRunning /\ ~threads[t].opus /\ Moves(t, "test", "over", None)
  /\ UNCHANGED <<threadless, pushed>>

\* while (mAudioRunning)
TestRunning(t) ==
  /\ \/ mAudioRunning /\ Keeps(t, "test", IF threads[t].opus THEN "read" ELSE "input")
     \/ ~mAudioRunning /\ Moves(t, "test", "over", None)
  /\ UNCHANGED <<threadless, pushed>>

\* A method of null, or of what is released, throws, and nothing catches it.
Uses(t, from, object, to) ==
  IF object = None THEN Keeps(t, from, "crashed") ELSE Keeps(t, from, to)

\* dequeueInputBuffer, which may time out.
DequeueInput(t) ==
  /\ \/ Uses(t, "input", mAudioEncoder, "read")
     \/ Uses(t, "input", mAudioEncoder, "drain")
  /\ UNCHANGED <<threadless, pushed>>

\* AudioRecord.read is called, and blocks ...
Read(t) ==
  /\ Uses(t, "read", mAudioRecord, "reading")
  /\ UNCHANGED <<threadless, pushed>>

\* ... and returns a chunk, whose duration follows from the settings, or nothing, as it
\* does when the record is released under it.  For AAC the encoder gets it.
ReadReturns(t) ==
  /\ t \in DOMAIN threads /\ threads[t].where = "reading"
  /\ LET coded == IF threads[t].opus THEN mAudioRecord ELSE mAudioEncoder
         chunk == [opus |-> threads[t].opus, recorded |-> mAudioRecord, coded |-> coded,
                   timed |-> Format]
     IN  \/ mAudioRecord # None /\ coded # None
              /\ Moves(t, "reading", IF threads[t].opus THEN "push" ELSE "drain", chunk)
         \/ threads[t].opus /\ Keeps(t, "reading", "test")
         \/ ~threads[t].opus /\ Uses(t, "reading", mAudioEncoder, "drain")
  /\ UNCHANGED <<threadless, pushed>>

\* nativePushAudioBuffer: without a pipeline the chunk is dropped.
PushChunk(chunk) ==
  pushed' = IF pipeline = None \/ chunk = None THEN pushed ELSE chunk

\* Opus: the chunk is pushed as it is.
PushPcm(t) ==
  /\ Moves(t, "push", "test", None)
  /\ PushChunk(threads[t].chunk)
  /\ UNCHANGED threadless

\* AAC: what the encoder has put out so far is pushed, or it has nothing yet.
Drain(t) ==
  /\ \/ /\ mAudioEncoder # None /\ Moves(t, "drain", "test", None)
        /\ PushChunk(threads[t].chunk)
     \/ Uses(t, "drain", mAudioEncoder, "test") /\ UNCHANGED pushed
  /\ UNCHANGED threadless

-----------------------------------------------------------------------------
CaptureInit ==
  /\ SettingsInit
  /\ at = "idle" /\ mRunning = FALSE /\ camera = FALSE /\ pipeline = None
  /\ restarting = FALSE
  /\ mAudioRecord = None /\ mAudioEncoder = None
  /\ mAudioRunning = FALSE /\ mAudioThread = 0
  /\ threads = <<>> /\ pushed = None /\ changes = 0
  /\ settled \in BOOLEAN /\ prompt \in BOOLEAN

Streamer ==
  \/ StartBegins \/ StartCamera \/ InitGstPipeline \/ StartRecord \/ StartEncoder \/ Launch
  \/ EncoderError \/ RestartEncoder
  \/ StopBegins \/ Join \/ ReleaseEncoder \/ ReleaseRecord \/ StopEnds

ThreadStep(t) ==
  \/ TestRunning(t) \/ DequeueInput(t) \/ Read(t) \/ ReadReturns(t) \/ PushPcm(t)
  \/ Drain(t)

\* An exception that a thread does not catch ends the process.
Crashed == \E t \in DOMAIN threads : threads[t].where = "crashed"

CaptureNext ==
  /\ ~Crashed
  /\ Setter \/ Streamer \/ \E t \in 1 .. MaxThreads : ThreadStep(t)

CaptureSpec == CaptureInit /\ [][CaptureNext]_captureVars

\* The scheduler runs the threads, and read() returns.
CaptureFairness ==
  /\ WF_captureVars(~Crashed /\ Join)
  /\ \A t \in 1 .. MaxThreads : WF_captureVars(~Crashed /\ ThreadStep(t))

-----------------------------------------------------------------------------
(* Properties.                                                              *)

Formats == [rate : Rates, channels : {1, 2}]
Chunks  == [opus : BOOLEAN, recorded : Formats, coded : Formats, timed : Formats]
Threads ==
  [where : {"test", "input", "read", "reading", "push", "drain", "over", "crashed"},
   opus : BOOLEAN, chunk : Chunks \cup {None}]

CaptureTypeOK ==
  /\ SettingsTypeOK
  /\ at \in {"idle", "camera", "pipeline", "audio", "encoder", "launch", "stop", "join",
             "release encoder", "release record", "destroy"}
  /\ mRunning \in BOOLEAN /\ camera \in BOOLEAN /\ restarting \in BOOLEAN
  /\ pipeline \in {None, [audio |-> FALSE]}
                  \cup [audio : {TRUE}, opus : BOOLEAN, format : Formats]
  /\ mAudioRecord \in Formats \cup {None} /\ mAudioEncoder \in Formats \cup {None}
  /\ mAudioRunning \in BOOLEAN /\ mAudioThread \in 0 .. Len(threads)
  /\ threads \in Seq(Threads) /\ Len(threads) <= MaxThreads
  /\ pushed \in Chunks \cup {None} /\ changes \in 0 .. MaxSettings
  /\ settled \in BOOLEAN /\ prompt \in BOOLEAN

Alive == {t \in DOMAIN threads : threads[t].where # "over"}

\* stopAudioCapture clears mAudioThread and starts over whatever the join came to: as
\* long as that does not time out, there is one capture thread at most, which the fields
\* are for, and unless settings change during start() none of them goes away under it.
CaptureIsAlone ==
  prompt =>
    /\ Alive \subseteq {mAudioThread}
    /\ mAudioThread \in Alive => mAudioRecord # None
    /\ settled => ~Crashed

\* "caps are built from AUDIO_SAMPLE_RATE / AUDIO_CHANNEL_COUNT so they always match what
\* is captured": they do if joins are prompt and settings are settled, that is, set between
\* sessions only.  What is pushed into a media is then of the codec and in the format its
\* caps name, and timed by that format, whatever failed, ran late or was started twice;
\* for Opus its rate is the one that opusenc takes, but for one that was asked for after
\* Opus was.
CaptureMatchesMedia ==
  settled /\ prompt /\ pushed # None =>
    /\ pipeline.audio /\ pushed.opus = pipeline.opus
    /\ {pushed.recorded, pushed.coded, pushed.timed} = {pipeline.format}
    /\ pushed.opus => pushed.timed.rate = OpusHz \/ rateAsked

\* The capture thread comes back to its flag from wherever stop() meets it, so stop(),
\* which holds the streamer's monitor, goes on without running into the time limit.
JoinReturns ==
  prompt /\ settled /\ at = "join" ~> at # "join"
=============================================================================
