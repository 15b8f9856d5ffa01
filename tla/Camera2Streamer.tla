--------------------------- MODULE Camera2Streamer ---------------------------
(***************************************************************************)
(* What a streaming session holds, and who takes it down.                  *)
(*                                                                         *)
(* start(), stop() and restartEncoder() run one at a time, in the Java     *)
(* monitor of Camera2GstStreamer; each opens or releases an encoder, a     *)
(* camera with its thread and capture session, and the RTSP pipeline.      *)
(* Around the monitor, without it:                                         *)
(*   - the camera thread delivers what the camera answered: opened, error, *)
(*     disconnected, session configured or not.  It may do so after the    *)
(*     two-second wait gave up, and after quitSafely for what was posted;  *)
(*   - the codec looper delivers onError, which clears mRunning and leaves *)
(*     a thread waiting for the monitor: a restart, or a stop.             *)
(* Every start() makes a camera thread and opens the camera on it, so one  *)
(* name stands for the thread, its device and its capture session.         *)
(*                                                                         *)
(* Camera2GstStreamer.java names the state.  Video modes only: AUDIO_ONLY  *)
(* holds nothing but the pipeline.  Frames and the gate are KeyframeGate's.*)
(***************************************************************************)
EXTENDS Integers, Sequences

CONSTANTS
  Cams,                  \* names of camera threads; one is used per start()
  NoCam,                 \* null
  MAX_ENCODER_RESTARTS,  \* restarts allowed per start()
  MaxPending,            \* bound: threads waiting to restart or stop
  MaxLost,               \* bound: encoders overwritten without a release
  MaxBehind              \* bound: session answers wait behind fewer messages

ASSUME StreamerAssumption ==
  /\ NoCam \notin Cams
  /\ MAX_ENCODER_RESTARTS \in Nat
  /\ MaxPending \in Nat
  /\ MaxLost \in Nat
  /\ MaxBehind \in Nat

VARIABLES
  (* Camera2GstStreamer fields *)
  mRunning, mEncoder, mCameraDevice, mCaptureSession, mCameraThread,
  mCameraHandler, mGstPipelineStarted, mRestartCount,
  (* the monitor's holder and how far it is; the latch it waits on; the *)
  (* threads onError and a failed restart have left waiting             *)
  monitor, latch, pendingRestarts, pendingStops,
  (* external: camera threads, what was posted to them, their devices; *)
  (* encoders nobody refers to any more, running or not                *)
  looper, inbox, device, lostLive, lostDead

capture == <<mCameraDevice, mCaptureSession, mCameraThread, mCameraHandler>>
threads == <<pendingRestarts, pendingStops>>
camera  == <<looper, inbox, device>>
lost    == <<lostLive, lostDead>>
vars == <<mRunning, mEncoder, capture, mGstPipelineStarted, mRestartCount,
          monitor, latch, threads, camera, lost>>

Messages == {"opened", "error", "disconnected",
             "configured", "configureFailed", "lateConfigured", "lateFailed"}

StartPhases   == {"startEncoder", "startCamera", "startOpening", "startSession",
                  "startAwait", "startPipeline", "startRunning"}
RestartPhases == {"restartEncoder", "restartSession", "restartAwait", "restartRunning"}
StopPhases    == {"stopCamera", "stopEncoder", "stopDestroy"}

Pending == pendingRestarts + pendingStops

\* stop()'s early return: "nothing to release".
NothingToRelease ==
  mEncoder = "none" /\ mCameraDevice = NoCam /\ ~mGstPipelineStarted

\* Mutant: a restart that fails tells nobody.
ThrowNobodyTold ==
  IF monitor \in StartPhases
  THEN /\ mRunning' = FALSE
       /\ monitor' = IF NothingToRelease' THEN "free" ELSE "stopCamera"
       /\ UNCHANGED threads
  ELSE monitor' = "free" /\ UNCHANGED <<mRunning, threads>>

\* An exception.  start() catches it and calls stop() in the same monitor;
\* restartEncoder() leaves it to a stop thread and touches nothing.
Throw ==
  IF monitor \in StartPhases
  THEN /\ mRunning' = FALSE
       /\ monitor' = IF NothingToRelease' THEN "free" ELSE "stopCamera"
       /\ UNCHANGED threads
  ELSE /\ monitor' = "free"
       /\ pendingStops' = pendingStops + 1
       /\ UNCHANGED <<mRunning, pendingRestarts>>

Goto(phase) == monitor' = phase /\ UNCHANGED <<mRunning, threads>>

-----------------------------------------------------------------------------
(* start() and restartEncoder().                                            *)

\* A name no thread, message, open device or field goes by.
Fresh(c) ==
  /\ looper[c] = "none" /\ inbox[c] = <<>> /\ device[c] # "open"
  /\ c # mCameraDevice /\ c # mCaptureSession

\* Bounds: a start() needs a name, and room for an encoder it overwrites.
Room == (\E c \in Cams : Fresh(c)) /\ (mEncoder = "none" \/ lostLive + lostDead < MaxLost)

\* start() past its two early returns.
Start ==
  /\ monitor = "free" /\ ~mRunning /\ Room
  /\ Goto("startEncoder")
  /\ mRestartCount' = 0
  /\ UNCHANGED <<mEncoder, capture, mGstPipelineStarted, latch, camera, lost>>

\* A restart thread enters: close the session, release the encoder.
Restart ==
  /\ monitor = "free" /\ pendingRestarts > 0
  /\ monitor' = "restartEncoder" /\ pendingRestarts' = pendingRestarts - 1
  /\ mCaptureSession' = NoCam /\ mEncoder' = "none"
  /\ UNCHANGED <<mRunning, mCameraDevice, mCameraThread, mCameraHandler,
                 mGstPipelineStarted, mRestartCount, latch, pendingStops, camera, lost>>

\* Assigning mEncoder drops the codec it referred to.
Overwrite(codec) ==
  /\ lostLive' = lostLive + (IF codec = "live" THEN 1 ELSE 0)
  /\ lostDead' = lostDead + (IF codec = "dead" THEN 1 ELSE 0)

\* initEncoder(): up and running, or it throws, with or without a codec made.
InitEncoder ==
  /\ monitor \in {"startEncoder", "restartEncoder"}
  /\ UNCHANGED <<capture, mGstPipelineStarted, mRestartCount, latch, camera>>
  /\ \/ /\ mEncoder' = "live" /\ Overwrite(mEncoder)
        /\ Goto(IF monitor = "startEncoder" THEN "startCamera" ELSE "restartSession")
     \/ /\ mEncoder' = "dead" /\ Overwrite(mEncoder)
        /\ Throw
     \/ UNCHANGED <<mEncoder, lost>> /\ Throw

Post(c, m) ==
  [d \in Cams |-> IF d = c /\ looper[c] = "alive" THEN Append(inbox[c], m) ELSE inbox[d]]

\* A camera has one user: opening it takes it from the device that had it.
Taken(d) == device[d] = "open"

\* initCamera() up to openCamera(): a new thread, and a camera that opens, answers
\* with an error, or does not answer.
OpenCamera(c) ==
  /\ monitor = "startCamera" /\ Fresh(c)
  /\ looper' = [looper EXCEPT ![c] = "alive"]
  /\ mCameraThread' = c /\ mCameraHandler' = c
  /\ latch' = FALSE
  /\ \/ /\ device' = [d \in Cams |-> IF d = c THEN "open" ELSE IF Taken(d) THEN "taken" ELSE device[d]]
        /\ inbox' = [d \in Cams |->
                       IF d = c THEN <<"opened">>
                       ELSE IF Taken(d) /\ looper[d] = "alive"
                            THEN Append(inbox[d], "disconnected") ELSE inbox[d]]
     \/ /\ device' = [device EXCEPT ![c] = "closed"]
        /\ inbox' \in {inbox, [inbox EXCEPT ![c] = <<"error">>]}
  /\ Goto("startOpening")
  /\ UNCHANGED <<mEncoder, mCameraDevice, mCaptureSession, mGstPipelineStarted,
                 mRestartCount, lost>>

\* No CAMERA permission, or openCamera() throws: the thread is there already.
OpenCameraThrows(c) ==
  /\ monitor = "startCamera" /\ Fresh(c)
  /\ looper' = [looper EXCEPT ![c] = "alive"]
  /\ mCameraThread' = c /\ mCameraHandler' = c
  /\ UNCHANGED <<mEncoder, mCameraDevice, mCaptureSession, mGstPipelineStarted>>
  /\ Throw
  /\ UNCHANGED <<mRestartCount, latch, inbox, device, lost>>

\* latch.await(2 s) on the opening: counted down, or given up on.
CameraAwaited ==
  /\ monitor = "startOpening"
  /\ UNCHANGED <<mEncoder, mCameraDevice, mGstPipelineStarted>>
  /\ IF latch /\ mCameraDevice # NoCam THEN Goto("startSession") ELSE Throw
  /\ UNCHANGED <<mCaptureSession, mCameraThread, mCameraHandler, mRestartCount,
                 camera, lost>>
  /\ latch' = FALSE

\* createCaptureSession(): needs a device that is there and not taken away; what
\* comes of it is posted to the camera thread, if that still runs.
CreateCaptureSession ==
  /\ monitor \in {"startSession", "restartSession"}
  /\ mCameraDevice # NoCam /\ device[mCameraDevice] = "open"
  /\ latch' = FALSE
  /\ \/ /\ Len(inbox[mCameraDevice]) < MaxBehind
        /\ \E m \in {"configured", "configureFailed"} : inbox' = Post(mCameraHandler, m)
     \/ UNCHANGED inbox
  /\ Goto(IF monitor = "startSession" THEN "startAwait" ELSE "restartAwait")
  /\ UNCHANGED <<mEncoder, capture, mGstPipelineStarted, mRestartCount, looper,
                 device, lost>>

\* mCameraDevice is null, its camera gone, or the call fails by itself.
CreateCaptureSessionThrows ==
  /\ monitor \in {"startSession", "restartSession"}
  /\ UNCHANGED <<mEncoder, mCameraDevice, mGstPipelineStarted>>
  /\ Throw
  /\ UNCHANGED <<mCaptureSession, mCameraThread, mCameraHandler, mRestartCount,
                 latch, camera, lost>>

AfterSession == IF monitor = "startAwait" THEN "startPipeline" ELSE "restartRunning"

\* What was posted for a wait that is over no longer counts its latch down.
Late(m) == CASE m = "configured"      -> "lateConfigured"
             [] m = "configureFailed" -> "lateFailed"
             [] OTHER                 -> m

\* latch.await(2 s) on the session: counted down, or given up on.
SessionAwaited ==
  /\ monitor \in {"startAwait", "restartAwait"}
  /\ UNCHANGED <<mEncoder, mCameraDevice, mGstPipelineStarted>>
  /\ IF latch /\ mCaptureSession # NoCam THEN Goto(AfterSession) ELSE Throw
  /\ latch' = FALSE
  /\ inbox' = [c \in Cams |-> [i \in 1 .. Len(inbox[c]) |-> Late(inbox[c][i])]]
  /\ UNCHANGED <<mCaptureSession, mCameraThread, mCameraHandler, mRestartCount,
                 looper, device, lost>>

\* Mutant: start() does not clean up when the pipeline cannot be made.
StartPipelineNoCleanup ==
  /\ monitor = "startPipeline"
  /\ UNCHANGED <<mEncoder, mCameraDevice>>
  /\ \/ ~mGstPipelineStarted /\ mGstPipelineStarted' = TRUE /\ Goto("startRunning")
     \/ UNCHANGED mGstPipelineStarted /\ Goto("free")
  /\ UNCHANGED <<mCaptureSession, mCameraThread, mCameraHandler, mRestartCount,
                 latch, camera, lost>>

\* initGstPipeline(): native init refuses while a server runs, and may fail.
StartPipeline ==
  /\ monitor = "startPipeline"
  /\ UNCHANGED <<mEncoder, mCameraDevice>>
  /\ \/ ~mGstPipelineStarted /\ mGstPipelineStarted' = TRUE /\ Goto("startRunning")
     \/ UNCHANGED mGstPipelineStarted /\ Throw
  /\ UNCHANGED <<mCaptureSession, mCameraThread, mCameraHandler, mRestartCount,
                 latch, camera, lost>>

\* startAudioCapture(): startRecording() may throw.
StartAudioThrows ==
  /\ monitor = "startRunning"
  /\ UNCHANGED <<mEncoder, mCameraDevice, mGstPipelineStarted>>
  /\ Throw
  /\ UNCHANGED <<mCaptureSession, mCameraThread, mCameraHandler, mRestartCount,
                 latch, camera, lost>>

SetRunning ==
  /\ monitor \in {"startRunning", "restartRunning"}
  /\ monitor' = "free" /\ mRunning' = TRUE
  /\ UNCHANGED <<mEncoder, capture, mGstPipelineStarted, mRestartCount, latch,
                 threads, camera, lost>>

-----------------------------------------------------------------------------
(* stop(): by a client of the service, or by a thread onError left waiting. *)

Stop ==
  /\ monitor = "free"
  /\ mRunning' = FALSE
  /\ monitor' = IF NothingToRelease THEN "free" ELSE "stopCamera"
  /\ UNCHANGED <<mEncoder, capture, mGstPipelineStarted, mRestartCount, latch,
                 pendingRestarts, camera, lost>>

\* Mutant: stop() leaves mRunning set.
ClientStopStillRunning ==
  /\ monitor = "free" /\ UNCHANGED <<mRunning, pendingStops>>
  /\ monitor' = IF NothingToRelease THEN "free" ELSE "stopCamera"
  /\ UNCHANGED <<mEncoder, capture, mGstPipelineStarted, mRestartCount, latch,
                 pendingRestarts, camera, lost>>

ClientStop == Stop /\ UNCHANGED pendingStops

ErrorStop == pendingStops > 0 /\ Stop /\ pendingStops' = pendingStops - 1

\* releaseCamera(): quitSafely() lets the thread deliver what was posted.
ReleaseCamera ==
  /\ monitor = "stopCamera"
  /\ Goto("stopEncoder")
  /\ mCaptureSession' = NoCam /\ mCameraDevice' = NoCam /\ mCameraThread' = NoCam
  /\ device' = [c \in Cams |-> IF c = mCameraDevice THEN "closed" ELSE device[c]]
  /\ looper' = [c \in Cams |-> IF c # mCameraThread THEN looper[c]
                               ELSE IF inbox[c] = <<>> THEN "none" ELSE "quit"]
  /\ UNCHANGED <<mEncoder, mCameraHandler, mGstPipelineStarted, mRestartCount,
                 latch, inbox, lost>>

ReleaseEncoder ==
  /\ monitor = "stopEncoder"
  /\ Goto("stopDestroy")
  /\ mEncoder' = "none"
  /\ UNCHANGED <<capture, mGstPipelineStarted, mRestartCount, latch, camera, lost>>

\* nativeGstPipelineDestroy(), where there is a pipeline.
DestroyPipeline ==
  /\ monitor = "stopDestroy"
  /\ Goto("free")
  /\ mGstPipelineStarted' = FALSE
  /\ UNCHANGED <<mEncoder, capture, mRestartCount, latch, camera, lost>>

-----------------------------------------------------------------------------
(* Callbacks, outside the monitor.                                          *)

\* The codec that failed: the one in mEncoder, or one that was overwritten.
\* After a transient error it may go on.
FailingCodec(fatal) ==
  \/ /\ mEncoder = "live"
     /\ mEncoder' \in IF fatal THEN {"dead"} ELSE {"live", "dead"}
     /\ UNCHANGED lost
  \/ /\ lostLive > 0
     /\ lostLive' = lostLive - 1 /\ lostDead' = lostDead + 1
     /\ UNCHANGED mEncoder

\* Mutant: past the restart limit nobody is told to stop.
EncoderErrorAtLimitIgnored(fatal) ==
  /\ Pending < MaxPending
  /\ FailingCodec(fatal)
  /\ mRunning' = FALSE
  /\ mRestartCount' = IF fatal THEN mRestartCount + 1 ELSE mRestartCount
  /\ IF fatal /\ mRestartCount < MAX_ENCODER_RESTARTS
     THEN pendingRestarts' = pendingRestarts + 1 /\ UNCHANGED pendingStops
     ELSE /\ pendingStops' = IF fatal THEN pendingStops ELSE pendingStops + 1
          /\ UNCHANGED pendingRestarts
  /\ UNCHANGED <<capture, mGstPipelineStarted, monitor, latch, camera>>

\* MediaCodec onError: a fatal error costs a restart while any is left.
EncoderError(fatal) ==
  /\ Pending < MaxPending
  /\ FailingCodec(fatal)
  /\ mRunning' = FALSE
  /\ mRestartCount' = IF fatal THEN mRestartCount + 1 ELSE mRestartCount
  /\ IF fatal /\ mRestartCount < MAX_ENCODER_RESTARTS
     THEN pendingRestarts' = pendingRestarts + 1 /\ UNCHANGED pendingStops
     ELSE pendingStops' = pendingStops + 1 /\ UNCHANGED pendingRestarts
  /\ UNCHANGED <<capture, mGstPipelineStarted, monitor, latch, camera>>

\* Unplugged, taken by another app, or broken: the news is posted.
CameraTaken(c) ==
  /\ device[c] = "open"
  /\ device' = [device EXCEPT ![c] = "taken"]
  /\ \E m \in {"disconnected", "error"} : inbox' = Post(c, m)
  /\ UNCHANGED <<mRunning, mEncoder, capture, mGstPipelineStarted, mRestartCount,
                 monitor, latch, threads, looper, lost>>

\* The camera thread takes its next message; after quitSafely the last one ends it.
Receive(c, m) ==
  /\ inbox[c] # <<>> /\ looper[c] \in {"alive", "quit"} /\ Head(inbox[c]) = m
  /\ inbox' = [inbox EXCEPT ![c] = Tail(@)]
  /\ looper' = [looper EXCEPT ![c] = IF @ = "quit" /\ Len(inbox[c]) = 1 THEN "none" ELSE @]
  /\ UNCHANGED <<mRunning, mEncoder, mCameraThread, mCameraHandler,
                 mGstPipelineStarted, mRestartCount, monitor, threads, lost>>

\* The opening's latch is the one start() waits on, for its own thread only.
CountsOpening(c) == monitor = "startOpening" /\ mCameraThread = c

OnOpened(c) ==
  /\ Receive(c, "opened")
  /\ mCameraDevice' = c
  /\ latch' = (latch \/ CountsOpening(c))
  /\ UNCHANGED <<mCaptureSession, device>>

OnDisconnected(c) ==
  /\ Receive(c, "disconnected")
  /\ device' = [device EXCEPT ![c] = "closed"] /\ mCameraDevice' = NoCam
  /\ UNCHANGED <<mCaptureSession, latch>>

OnCameraError(c) ==
  /\ Receive(c, "error")
  /\ device' = [device EXCEPT ![c] = "closed"] /\ mCameraDevice' = NoCam
  /\ latch' = (latch \/ CountsOpening(c))
  /\ UNCHANGED mCaptureSession

OnConfigured(c) ==
  /\ Receive(c, "configured")
  /\ mCaptureSession' = c /\ latch' = TRUE
  /\ UNCHANGED <<mCameraDevice, device>>

OnLateConfigured(c) ==
  /\ device[c] # "closed"
  /\ Receive(c, "lateConfigured")
  /\ mCaptureSession' = c
  /\ UNCHANGED <<mCameraDevice, latch, device>>

OnConfigureFailed(c) ==
  /\ Receive(c, "configureFailed")
  /\ latch' = TRUE
  /\ UNCHANGED <<mCameraDevice, mCaptureSession, device>>

\* Only logged.
OnLateFailed(c) ==
  /\ Receive(c, "lateFailed")
  /\ UNCHANGED <<mCameraDevice, mCaptureSession, latch, device>>

CameraCallback(c) ==
  OnOpened(c) \/ OnDisconnected(c) \/ OnCameraError(c)
  \/ OnConfigured(c) \/ OnConfigureFailed(c)
  \/ OnLateConfigured(c) \/ OnLateFailed(c)

-----------------------------------------------------------------------------
Init ==
  /\ mRunning = FALSE /\ mEncoder = "none" /\ mGstPipelineStarted = FALSE
  /\ mCameraDevice = NoCam /\ mCaptureSession = NoCam
  /\ mCameraThread = NoCam /\ mCameraHandler = NoCam
  /\ mRestartCount = 0
  /\ monitor = "free" /\ latch = FALSE
  /\ pendingRestarts = 0 /\ pendingStops = 0
  /\ looper = [c \in Cams |-> "none"] /\ inbox = [c \in Cams |-> <<>>]
  /\ device = [c \in Cams |-> "closed"]
  /\ lostLive = 0 /\ lostDead = 0

\* setRepeatingRequest() on a session whose device is closed throws on the camera
\* thread, where only CameraAccessException is caught: the process ends and the
\* service comes back in its initial state.
SessionThrows(c) ==
  /\ inbox[c] # <<>> /\ Head(inbox[c]) = "lateConfigured" /\ device[c] = "closed"
  /\ mRunning' = FALSE /\ mEncoder' = "none" /\ mGstPipelineStarted' = FALSE
  /\ mCameraDevice' = NoCam /\ mCaptureSession' = NoCam
  /\ mCameraThread' = NoCam /\ mCameraHandler' = NoCam
  /\ mRestartCount' = 0
  /\ monitor' = "free" /\ latch' = FALSE
  /\ pendingRestarts' = 0 /\ pendingStops' = 0
  /\ looper' = [d \in Cams |-> "none"] /\ inbox' = [d \in Cams |-> <<>>]
  /\ device' = [d \in Cams |-> "closed"]
  /\ lostLive' = 0 /\ lostDead' = 0

\* The steps of whoever is inside the monitor.
MonitorStep ==
  \/ InitEncoder
  \/ \E c \in Cams : OpenCamera(c) \/ OpenCameraThrows(c)
  \/ CameraAwaited \/ CreateCaptureSession \/ CreateCaptureSessionThrows
  \/ SessionAwaited
  \/ StartPipeline \/ StartAudioThrows \/ SetRunning
  \/ ReleaseCamera \/ ReleaseEncoder \/ DestroyPipeline

Next ==
  \/ Start \/ Restart \/ ClientStop \/ ErrorStop
  \/ MonitorStep
  \/ \E fatal \in BOOLEAN : EncoderError(fatal)
  \/ \E c \in Cams : CameraTaken(c) \/ CameraCallback(c) \/ SessionThrows(c)

Spec == Init /\ [][Next]_vars

(***************************************************************************)
(* Fairness: a thread inside the monitor gets on (its waits end after two  *)
(* seconds), and one that waits for the monitor gets in.  Nothing is asked *)
(* of cameras, clients or encoders.                                        *)
(***************************************************************************)
Fairness == WF_vars(MonitorStep) /\ WF_vars(Restart) /\ WF_vars(ErrorStop)

FairSpec == Spec /\ Fairness

-----------------------------------------------------------------------------
(* Properties.                                                              *)

TypeOK ==
  /\ mRunning \in BOOLEAN /\ mEncoder \in {"none", "live", "dead"}
  /\ mCameraDevice \in Cams \union {NoCam} /\ mCaptureSession \in Cams \union {NoCam}
  /\ mCameraThread \in Cams \union {NoCam} /\ mCameraHandler \in Cams \union {NoCam}
  /\ mGstPipelineStarted \in BOOLEAN /\ mRestartCount \in Nat
  /\ monitor \in {"free"} \union StartPhases \union RestartPhases \union StopPhases
  /\ latch \in BOOLEAN
  /\ pendingRestarts \in Nat /\ pendingStops \in Nat
  /\ looper \in [Cams -> {"none", "alive", "quit"}]
  /\ inbox \in [Cams -> Seq(Messages)]
  /\ device \in [Cams -> {"closed", "open", "taken"}]
  /\ lostLive \in Nat /\ lostDead \in Nat

\* mRunning, which isRunning's callers and start()'s early return go by, never
\* stands over a torn-down session: there is a pipeline and a live camera thread,
\* and an encoder that works, is being replaced, or has somebody waiting to see
\* to it - although restart threads outlive the session they were made for.
RunningMeansServed ==
  mRunning =>
    /\ mGstPipelineStarted
    /\ mCameraThread # NoCam /\ looper[mCameraThread] = "alive"
    /\ mEncoder = "live" \/ monitor \in RestartPhases \/ Pending > 0

\* A session that stopped running without being torn down is never forgotten:
\* with the monitor free, a restart or a stop is waiting for it.
HalfSessionHasKeeper ==
  monitor = "free" /\ (mEncoder = "dead" \/ (~mRunning /\ (mEncoder # "none" \/ mGstPipelineStarted)))
    => Pending > 0

\* ... and in the end it runs again or is gone.
HalfSessionSettles ==
  mGstPipelineStarted /\ ~mRunning ~> (mRunning \/ ~mGstPipelineStarted)

-----------------------------------------------------------------------------
(* The inductive invariant behind the safety properties.                    *)

\* Who may be where.
PhaseInv ==
  /\ monitor \in StartPhases \union StopPhases => ~mRunning
  /\ monitor \in (StartPhases \union RestartPhases) \ {"startEncoder", "restartEncoder"}
       => mEncoder # "none"
  /\ monitor \in StartPhases \ {"startEncoder", "startCamera"} => mCameraThread # NoCam
  /\ monitor = "startRunning" => mGstPipelineStarted
  /\ monitor = "stopDestroy" => mEncoder = "none"
  /\ monitor \in {"stopEncoder", "stopDestroy"} => mCameraThread = NoCam

\* The camera thread in use is the handler's, and alive; the handler of a thread
\* that was let go is dead.
LooperInv ==
  /\ mCameraThread # NoCam => /\ mCameraThread = mCameraHandler
                              /\ looper[mCameraThread] = "alive"
  /\ mCameraHandler # NoCam /\ looper[mCameraHandler] = "alive" => mCameraThread # NoCam

\* The pipeline and the camera thread go together whenever start() and stop()
\* are not in between.
PairInv ==
  monitor \in {"free", "startEncoder"} \union RestartPhases
    => (mGstPipelineStarted <=> mCameraThread # NoCam)

\* An answer about the session is on its way, or was heard, only while somebody
\* waits for it, and only from a camera thread that is not let go.
Answered(c) == \E i \in 1 .. Len(inbox[c]) : inbox[c][i] \in {"configured", "configureFailed"}

AnswerInv ==
  /\ \A c \in Cams : Answered(c)
       => monitor \in {"startAwait", "restartAwait"} /\ mCameraThread # NoCam
  /\ monitor = "restartAwait" /\ latch => mCameraThread # NoCam
  /\ monitor = "restartRunning" => mCameraThread # NoCam

\* An encoder that failed, and a session that is not running, have a keeper.
KeeperInv ==
  /\ mEncoder = "dead" /\ monitor \notin {"stopCamera", "stopEncoder"} => Pending > 0
  /\ monitor = "free" /\ ~mRunning /\ (mEncoder # "none" \/ mGstPipelineStarted)
       => Pending > 0

StreamerInv ==
  /\ TypeOK /\ PhaseInv /\ LooperInv /\ PairInv /\ AnswerInv /\ KeeperInv
  /\ RunningMeansServed

-----------------------------------------------------------------------------
\* stop() tears down "camera, encoder, and GStreamer pipeline", and says "nothing
\* to release" otherwise: with that condition true, all threads through and every
\* camera message delivered, nothing is left open.
NothingIsLeftOpen ==
  monitor = "free" /\ NothingToRelease /\ Pending = 0 /\ (\A c \in Cams : inbox[c] = <<>>)
    => /\ lostLive = 0 /\ lostDead = 0
       /\ \A c \in Cams : device[c] # "open" /\ looper[c] = "none"
=============================================================================
