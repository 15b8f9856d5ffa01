---------------------------- MODULE KeyframeGate ----------------------------
(***************************************************************************)
(* How encoded video reaches a freshly connected RTSP client.              *)
(*                                                                         *)
(* Three parties meet here without a common lock:                          *)
(*   - the MediaCodec callback (main looper), handleEncoderOutput, which   *)
(*     works through one output buffer at a time;                          *)
(*   - the RTSP event thread, which installs and removes the appsrc and    *)
(*     raises s_request_keyframe;                                          *)
(*   - start(), stop() and restartEncoder(), which hold the streamer's     *)
(*     Java monitor and replace the encoder under the callback's feet.     *)
(* Each action below is one section the code runs under s_lock, or one     *)
(* access to a field the other threads also use.                           *)
(*                                                                         *)
(* Camera2GstStreamer.java and camera2_gst_streamer.cpp name the state.    *)
(***************************************************************************)
EXTENDS Integers

CONSTANTS
  MAX_ENCODER_RESTARTS,        \* restarts allowed per start()
  FORCED_IDR_INTERVAL_FRAMES,  \* P-frames between two unsolicited IDR requests
  EncoderLatency,              \* P-frames already in the encoder when an IDR is asked for
  MaxPendingRestarts           \* bound: restart threads queued for the monitor at once

ASSUME GateAssumption ==
  /\ MAX_ENCODER_RESTARTS \in Nat
  /\ FORCED_IDR_INTERVAL_FRAMES \in Nat \ {0}
  /\ EncoderLatency \in Nat
  /\ MaxPendingRestarts \in Nat

VARIABLES
  (* Camera2GstStreamer fields *)
  mRunning, mCachedCsd, mWaitingForIDR, mFramesSinceIDR, mRestartCount,
  (* native globals; serverUp stands for s_server # NULL *)
  serverUp, s_appsrc, s_need_data, s_request_keyframe,
  (* the callback: where it is, the buffer it holds, whether the codec it *)
  (* was called for is still alive                                        *)
  pc, frame, codecLive,
  (* the monitor holder, and the threads queued for the monitor *)
  monitor, pendingRestarts, pendingStop,
  (* external: the hardware encoder and the media behind the appsrc *)
  encoder, idrDue, sink,
  (* history: what the decoder behind the installed appsrc can do with the *)
  (* next P-frame, and why not; the P-frames it was given all the same     *)
  csdIn, chain, strays, blind

java    == <<mRunning, mCachedCsd, mWaitingForIDR, mFramesSinceIDR, mRestartCount>>
native  == <<serverUp, s_appsrc, s_need_data, s_request_keyframe>>
handler == <<pc, frame, codecLive>>
threads == <<monitor, pendingRestarts, pendingStop>>
codec   == <<encoder, idrDue>>
decoder == <<csdIn, chain, strays, blind>>
vars    == <<java, native, handler, threads, codec, sink, decoder>>

Frames == {"CSD", "IDR", "P"}

(***************************************************************************)
(* The decoder at the far end, as far as the frames given to the installed *)
(* appsrc determine it:                                                    *)
(*   "synced"    it can decode the next P-frame;                           *)
(*   "install"   it has had no IDR with parameter sets since the install;  *)
(*   "gap"       a frame of the running GOP was withheld or dropped;       *)
(*   "swallowed" an IDR or its parameter sets were thrown away with no     *)
(*               keyframe request outstanding that would replace them.     *)
(* P-frames that the appsrc takes all the same: strays counts, per media,  *)
(* those of a chain "install" or "gap"; blind those of a swallowed chain   *)
(* that has parameter sets, from one encoder and up to its next IDR.       *)
(* Without parameter sets no IDR helps, and P-frames are not counted.      *)
(***************************************************************************)
Chains   == {"synced", "install", "gap", "swallowed"}
StrayCap == 2                                                 \* strays saturates
BlindCap == FORCED_IDR_INTERVAL_FRAMES + EncoderLatency + 1   \* blind saturates

\* The chain becomes c otherwise than by a frame the appsrc took.
ChainBecomes(c) ==
  /\ chain' = c
  /\ blind' = IF c = "swallowed" THEN blind ELSE 0
  /\ UNCHANGED <<csdIn, strays>>

\* A frame f did not reach the installed appsrc.
Lose(f) ==
  ChainBecomes(
    IF ~s_appsrc \/ sink = "closing" THEN chain
    ELSE IF f # "P" /\ ~s_request_keyframe THEN "swallowed"
    ELSE IF chain = "synced" /\ f # "CSD" THEN "gap"
    ELSE chain)

\* The installed appsrc took frame f.
Accept(f) ==
  /\ csdIn' = (csdIn \/ f = "CSD")
  /\ chain' = IF f = "IDR" /\ csdIn THEN "synced" ELSE chain
  /\ strays' = IF f = "P" /\ chain \in {"install", "gap"} /\ strays < StrayCap
               THEN strays + 1 ELSE strays
  /\ blind' = IF chain' # "swallowed" THEN 0
              ELSE IF f = "P" /\ csdIn /\ blind < BlindCap THEN blind + 1 ELSE blind

-----------------------------------------------------------------------------
(* The hardware encoder (external): parameter sets first, then an IDR, then *)
(* P-frames and IDRs; a requested IDR comes after at most EncoderLatency    *)
(* P-frames.  encoder is "none", "dead" (failed, no more output), or what   *)
(* it has yet to put out first.                                             *)

Alive == encoder \in {"csd", "idr", "run"}

CanEmit(f) ==
  \/ encoder = "csd" /\ f = "CSD"
  \/ encoder = "idr" /\ f = "IDR"
  \/ encoder = "run" /\ (f = "IDR" \/ (f = "P" /\ idrDue # 1))

Emitted(f) ==
  /\ encoder' = IF f = "CSD" THEN "idr" ELSE "run"
  /\ idrDue' = IF f = "IDR" THEN 0
               ELSE IF f = "P" /\ idrDue > 0 THEN idrDue - 1 ELSE idrDue

\* enc.setParameters(REQUEST_SYNC_FRAME), skipped when mEncoder is null.
RequestSyncFrame ==
  idrDue' = IF encoder # "none" /\ idrDue = 0 THEN EncoderLatency + 1 ELSE idrDue

-----------------------------------------------------------------------------
(* handleEncoderOutput, one buffer at a time on the main looper.            *)

Goto(p) == pc' = p /\ UNCHANGED <<frame, codecLive>>

\* Entry: take the buffer, cache parameter sets whether running or not.
Deliver(f) ==
  /\ pc = "idle" /\ CanEmit(f)
  /\ Emitted(f)
  /\ pc' = "check" /\ frame' = f /\ codecLive' = TRUE
  /\ mCachedCsd' = (mCachedCsd \/ f = "CSD")
  /\ UNCHANGED <<mRunning, mWaitingForIDR, mFramesSinceIDR, mRestartCount,
                 native, threads, sink, decoder>>

\* Mutant: the counter runs on past the interval.
CheckRunningNoReset ==
  /\ pc = "check" /\ mRunning
  /\ Goto("consume")
  /\ mFramesSinceIDR' = IF frame = "IDR" THEN 0
                        ELSE IF frame = "P" THEN mFramesSinceIDR + 1 ELSE mFramesSinceIDR
  /\ IF frame = "P" /\ mFramesSinceIDR + 1 >= FORCED_IDR_INTERVAL_FRAMES
     THEN RequestSyncFrame ELSE UNCHANGED idrDue
  /\ UNCHANGED <<mRunning, mCachedCsd, mWaitingForIDR, mRestartCount, encoder,
                 native, threads, sink, decoder>>

\* Mutant: no unsolicited IDR requests.
CheckRunningNoForcedIdr ==
  /\ pc = "check" /\ mRunning
  /\ Goto("consume")
  /\ UNCHANGED <<java, native, threads, codec, sink, decoder>>

\* if (mRunning.get()): the frame counter and the unsolicited IDR request.
CheckRunning ==
  /\ pc = "check" /\ mRunning
  /\ Goto("consume")
  /\ LET n == mFramesSinceIDR + 1 IN
       IF frame = "P" /\ n >= FORCED_IDR_INTERVAL_FRAMES
       THEN mFramesSinceIDR' = 0 /\ RequestSyncFrame
       ELSE /\ mFramesSinceIDR' = CASE frame = "IDR" -> 0
                                    [] frame = "P"   -> n
                                    [] OTHER         -> mFramesSinceIDR
            /\ UNCHANGED idrDue
  /\ UNCHANGED <<mRunning, mCachedCsd, mWaitingForIDR, mRestartCount, encoder,
                 native, threads, sink, decoder>>

\* Not running: the buffer is released without being pushed.
DiscardNotRunning ==
  /\ pc = "check" /\ ~mRunning
  /\ Goto("release") /\ Lose(frame)
  /\ UNCHANGED <<java, native, threads, codec, sink>>

\* nativeConsumeKeyframeRequest: test and clear under s_lock.
ConsumeKeyframeRequest ==
  /\ pc = "consume"
  /\ Goto(IF s_request_keyframe THEN "reinject" ELSE "gate")
  /\ s_request_keyframe' = FALSE
  /\ UNCHANGED <<java, serverUp, s_appsrc, s_need_data, threads, codec, sink, decoder>>

\* Mutant: the parameter sets are not pushed again.
ReinjectNothing ==
  /\ pc = "reinject"
  /\ Goto("request")
  /\ UNCHANGED <<java, native, threads, codec, sink, decoder>>

\* Re-push the cached parameter sets; they bypass flow control.
ReinjectCsd ==
  /\ pc = "reinject"
  /\ Goto("request")
  /\ IF mCachedCsd /\ s_appsrc
     THEN IF sink = "playing" THEN Accept("CSD") ELSE Lose("CSD")
     ELSE UNCHANGED decoder
  /\ UNCHANGED <<java, native, threads, codec, sink>>

\* Mutant: the encoder is asked for an IDR, the gate stays as it is.
RequestIdrGateOpen ==
  /\ pc = "request"
  /\ Goto("gate")
  /\ RequestSyncFrame
  /\ UNCHANGED <<java, encoder, native, threads, sink, decoder>>

\* Ask the encoder for an IDR and close the gate.
RequestIdr ==
  /\ pc = "request"
  /\ Goto("gate")
  /\ RequestSyncFrame
  /\ mWaitingForIDR' = TRUE
  /\ UNCHANGED <<mRunning, mCachedCsd, mFramesSinceIDR, mRestartCount, encoder,
                 native, threads, sink, decoder>>

\* The gate: an IDR opens it, parameter sets pass, a P-frame is withheld.
GatePasses ==
  /\ pc = "gate" /\ (~mWaitingForIDR \/ frame # "P")
  /\ Goto("push")
  /\ mWaitingForIDR' = (mWaitingForIDR /\ frame # "IDR")
  /\ UNCHANGED <<mRunning, mCachedCsd, mFramesSinceIDR, mRestartCount, native,
                 threads, codec, sink, decoder>>

GateWithholds ==
  /\ pc = "gate" /\ mWaitingForIDR /\ frame = "P"
  /\ Goto("release") /\ Lose(frame)
  /\ UNCHANGED <<java, native, threads, codec, sink>>

(* nativePushEncodedBuffer, whole body under s_lock. *)

PushNoAppsrc ==
  /\ pc = "push" /\ ~s_appsrc
  /\ Goto("release")
  /\ UNCHANGED <<java, native, threads, codec, sink, decoder>>

\* Mutant: a drop that asks for no keyframe.
PushFlowDropSilent ==
  /\ pc = "push" /\ s_appsrc /\ ~s_need_data /\ frame = "P"
  /\ Goto("release")
  /\ ChainBecomes(IF sink = "closing" THEN chain ELSE "gap")
  /\ UNCHANGED <<java, native, threads, codec, sink>>

\* Flow-control drop: only a P-frame, and it asks for a keyframe.
PushFlowDrop ==
  /\ pc = "push" /\ s_appsrc /\ ~s_need_data /\ frame = "P"
  /\ Goto("release")
  /\ s_request_keyframe' = TRUE
  /\ ChainBecomes(IF sink = "closing" THEN chain ELSE "gap")
  /\ UNCHANGED <<java, serverUp, s_appsrc, s_need_data, threads, codec, sink>>

\* gst_app_src_push_buffer: taken when the media plays, FLUSHING otherwise.
\* It may raise enough-data in this thread, hence under s_lock.
PushToAppsrc ==
  /\ pc = "push" /\ s_appsrc /\ (s_need_data \/ frame # "P")
  /\ Goto("release")
  /\ IF sink = "playing" THEN Accept(frame) ELSE Lose(frame)
  /\ s_need_data' \in IF sink = "playing" THEN {s_need_data, FALSE} ELSE {s_need_data}
  /\ UNCHANGED <<java, serverUp, s_appsrc, s_request_keyframe, threads, codec, sink>>

\* finally: codec.releaseOutputBuffer on a codec that is still alive.
ReleaseBuffer ==
  /\ pc = "release" /\ codecLive
  /\ Goto("idle")
  /\ UNCHANGED <<java, native, threads, codec, sink, decoder>>

Push == PushNoAppsrc \/ PushFlowDrop \/ PushToAppsrc

Callback ==
  \/ CheckRunning \/ DiscardNotRunning \/ ConsumeKeyframeRequest \/ ReinjectCsd
  \/ RequestIdr \/ GatePasses \/ GateWithholds \/ Push \/ ReleaseBuffer

-----------------------------------------------------------------------------
(* start(), stop() and restartEncoder().  All three are synchronized:       *)
(* monitor says who is inside and how far ("free" for nobody).              *)

\* releaseEncoder(): the codec is gone even if a callback still uses it.  The next
\* encoder's frames are counted from its first.
ReleaseEncoder ==
  /\ blind' = 0
  /\ mCachedCsd' = FALSE /\ mWaitingForIDR' = FALSE /\ mFramesSinceIDR' = 0
  /\ encoder' = "none" /\ idrDue' = 0
  /\ codecLive' = (codecLive /\ (pc = "idle" \/ encoder = "none"))

\* start(): encoder and camera up, frames flow, no server yet.  (A start() that
\* finds a server, with a restart still pending, is not followed here.)
StartEncoder ==
  /\ monitor = "free" /\ ~mRunning /\ ~serverUp
  /\ monitor' = "startEncoder"
  /\ mRestartCount' = 0
  /\ encoder' = "csd" /\ idrDue' = 0
  /\ UNCHANGED <<mRunning, mCachedCsd, mWaitingForIDR, mFramesSinceIDR, native,
                 handler, pendingRestarts, pendingStop, sink, decoder>>

\* initGstPipeline(): nativeGstPipelineInit leaves s_request_keyframe alone.
StartPipeline ==
  /\ monitor = "startEncoder"
  /\ monitor' = "startPipeline"
  /\ serverUp' = TRUE /\ s_need_data' = TRUE
  /\ UNCHANGED <<java, s_appsrc, s_request_keyframe, handler, pendingRestarts,
                 pendingStop, codec, sink, decoder>>

\* An exception in start() runs stop() inside the same monitor.
StartFails ==
  /\ monitor \in {"startEncoder", "startPipeline"}
  /\ monitor' = "stopRelease"
  /\ UNCHANGED <<java, native, handler, pendingRestarts, pendingStop, codec, sink, decoder>>

\* mRunning.set(true), the last step of start() and of restartEncoder().
SetRunning ==
  /\ monitor \in {"startPipeline", "restartEncoder"}
  /\ monitor' = "free" /\ mRunning' = TRUE
  /\ UNCHANGED <<mCachedCsd, mWaitingForIDR, mFramesSinceIDR, mRestartCount, native,
                 handler, pendingRestarts, pendingStop, codec, sink, decoder>>

\* A restart thread enters: close the session, release the old encoder.
RestartRelease ==
  /\ monitor = "free" /\ pendingRestarts > 0
  /\ monitor' = "restartRelease" /\ pendingRestarts' = pendingRestarts - 1
  /\ ReleaseEncoder
  /\ UNCHANGED <<mRunning, mRestartCount, native, pc, frame, pendingStop, sink,
                 csdIn, chain, strays>>

\* initEncoder() and createCaptureSession(): needs the camera of a live session.
RestartInit ==
  /\ monitor = "restartRelease" /\ serverUp
  /\ monitor' = "restartEncoder"
  /\ encoder' = "csd" /\ idrDue' = 0
  /\ UNCHANGED <<java, native, handler, pendingRestarts, pendingStop, sink, decoder>>

\* Either of them throws: hand over to a stop thread, and leave behind a codec
\* that never puts anything out, or none.
RestartFails ==
  /\ monitor = "restartRelease"
  /\ monitor' = "free" /\ pendingStop' = TRUE
  /\ encoder' \in {"none", "dead"}
  /\ UNCHANGED <<java, native, handler, pendingRestarts, idrDue, sink, decoder>>

\* MediaCodec onError, on the callback's own looper.  A fatal error costs a
\* restart while any is left; everything else, and the limit, stops the session.
EncoderError(fatal) ==
  /\ pc = "idle" /\ Alive /\ pendingRestarts < MaxPendingRestarts
  /\ encoder' = "dead" /\ idrDue' = 0
  /\ mRunning' = FALSE
  /\ IF fatal /\ mRestartCount < MAX_ENCODER_RESTARTS
     THEN pendingRestarts' = pendingRestarts + 1 /\ UNCHANGED pendingStop
     ELSE pendingStop' = TRUE /\ UNCHANGED pendingRestarts
  /\ mRestartCount' = IF fatal THEN mRestartCount + 1 ELSE mRestartCount
  /\ UNCHANGED <<mCachedCsd, mWaitingForIDR, mFramesSinceIDR, native, handler,
                 monitor, sink, decoder>>

\* A client of the service asks for stop().
RequestStop ==
  /\ ~pendingStop /\ pendingStop' = TRUE
  /\ UNCHANGED <<java, native, handler, monitor, pendingRestarts, codec, sink, decoder>>

\* stop() enters: mRunning.set(false), early return when nothing is held.
StopEnter ==
  /\ monitor = "free" /\ pendingStop
  /\ pendingStop' = FALSE /\ mRunning' = FALSE
  /\ monitor' = IF encoder = "none" /\ ~serverUp THEN "free" ELSE "stopRelease"
  /\ UNCHANGED <<mCachedCsd, mWaitingForIDR, mFramesSinceIDR, mRestartCount, native,
                 handler, pendingRestarts, codec, sink, decoder>>

StopRelease ==
  /\ monitor = "stopRelease"
  /\ monitor' = "stopDestroy"
  /\ ReleaseEncoder
  /\ UNCHANGED <<mRunning, mRestartCount, native, pc, frame, pendingRestarts,
                 pendingStop, sink, csdIn, chain, strays>>

\* nativeGstPipelineDestroy, as far as the video path goes.
StopDestroy ==
  /\ monitor = "stopDestroy"
  /\ monitor' = "free"
  /\ serverUp' = FALSE /\ s_appsrc' = FALSE /\ s_need_data' = FALSE /\ sink' = "none"
  /\ UNCHANGED <<java, s_request_keyframe, handler, pendingRestarts, pendingStop,
                 codec, decoder>>

Lifecycle ==
  \/ StartEncoder \/ StartPipeline \/ StartFails \/ SetRunning
  \/ RestartRelease \/ RestartInit \/ RestartFails
  \/ (\E fatal \in BOOLEAN : EncoderError(fatal))
  \/ RequestStop \/ StopEnter \/ StopRelease \/ StopDestroy

-----------------------------------------------------------------------------
(* RTSP events (external), serialised by the loop thread.                   *)

ClientConnected ==
  /\ serverUp
  /\ s_request_keyframe' = TRUE
  /\ UNCHANGED <<java, serverUp, s_appsrc, s_need_data, handler, threads, codec,
                 sink, decoder>>

\* Mutant: the appsrc is installed without asking for a keyframe.
MediaConfigureNoRequest ==
  /\ serverUp /\ sink = "none"
  /\ sink' = "new"
  /\ s_appsrc' = TRUE /\ s_need_data' = TRUE
  /\ csdIn' = FALSE /\ chain' = "install" /\ strays' = 0 /\ blind' = 0
  /\ UNCHANGED <<java, serverUp, s_request_keyframe, handler, threads, codec>>

\* on_media_configure, under s_lock.
MediaConfigure ==
  /\ serverUp /\ sink = "none"
  /\ sink' = "new"
  /\ s_appsrc' = TRUE /\ s_need_data' = TRUE /\ s_request_keyframe' = TRUE
  /\ csdIn' = FALSE /\ chain' = "install" /\ strays' = 0 /\ blind' = 0
  /\ UNCHANGED <<java, serverUp, handler, threads, codec>>

\* The media reaches PAUSED: its appsrc stops answering FLUSHING.
MediaPlays ==
  /\ sink = "new" /\ sink' = "playing"
  /\ UNCHANGED <<java, native, handler, threads, codec, decoder>>

\* The last client left: the media goes to NULL, then on_media_unprepared.
MediaCloses ==
  /\ sink \in {"new", "playing"} /\ sink' = "closing"
  /\ UNCHANGED <<java, native, handler, threads, codec, decoder>>

MediaUnprepared ==
  /\ sink = "closing" /\ sink' = "none"
  /\ s_appsrc' = FALSE /\ s_need_data' = FALSE
  /\ UNCHANGED <<java, serverUp, s_request_keyframe, handler, threads, codec, decoder>>

\* need-data, a lock-free store from the appsrc's streaming thread.
NeedData ==
  /\ sink = "playing" /\ ~s_need_data
  /\ s_need_data' = TRUE
  /\ UNCHANGED <<java, serverUp, s_appsrc, s_request_keyframe, handler, threads,
                 codec, sink, decoder>>

RtspEvent ==
  \/ ClientConnected \/ MediaConfigure \/ MediaPlays \/ MediaCloses
  \/ MediaUnprepared \/ NeedData

-----------------------------------------------------------------------------
Init ==
  /\ mRunning = FALSE /\ mCachedCsd = FALSE /\ mWaitingForIDR = FALSE
  /\ mFramesSinceIDR = 0 /\ mRestartCount = 0
  /\ serverUp = FALSE /\ s_appsrc = FALSE /\ s_need_data = FALSE
  /\ s_request_keyframe = FALSE
  /\ pc = "idle" /\ frame = "CSD" /\ codecLive = TRUE
  /\ monitor = "free" /\ pendingRestarts = 0 /\ pendingStop = FALSE
  /\ encoder = "none" /\ idrDue = 0 /\ sink = "none"
  /\ csdIn = FALSE /\ chain = "install" /\ strays = 0 /\ blind = 0

\* releaseOutputBuffer on a released codec throws on the main looper and ends
\* the process; the service comes back in its initial state.
CallbackThrows ==
  /\ pc = "release" /\ ~codecLive
  /\ mRunning' = FALSE /\ mCachedCsd' = FALSE /\ mWaitingForIDR' = FALSE
  /\ mFramesSinceIDR' = 0 /\ mRestartCount' = 0
  /\ serverUp' = FALSE /\ s_appsrc' = FALSE /\ s_need_data' = FALSE
  /\ s_request_keyframe' = FALSE
  /\ pc' = "idle" /\ frame' = "CSD" /\ codecLive' = TRUE
  /\ monitor' = "free" /\ pendingRestarts' = 0 /\ pendingStop' = FALSE
  /\ encoder' = "none" /\ idrDue' = 0 /\ sink' = "none"
  /\ csdIn' = FALSE /\ chain' = "install" /\ strays' = 0 /\ blind' = 0

Next ==
  \/ \E f \in Frames : Deliver(f)
  \/ Callback
  \/ CallbackThrows
  \/ Lifecycle
  \/ RtspEvent

Spec == Init /\ [][Next]_vars

(***************************************************************************)
(* Fairness: the looper runs its callbacks, a thread inside or queued for  *)
(* the monitor makes progress, a camera session keeps the encoder putting  *)
(* out frames, and a playing appsrc that ran dry asks for more.  Clients,  *)
(* errors and stop() requests owe nothing.                                 *)
(***************************************************************************)
Fairness ==
  /\ WF_vars(\E f \in Frames : Deliver(f))
  /\ WF_vars(Callback \/ CallbackThrows)
  /\ WF_vars(StartPipeline \/ SetRunning \/ RestartInit \/ RestartFails
             \/ StopRelease \/ StopDestroy)
  /\ WF_vars(RestartRelease)
  /\ WF_vars(StopEnter)
  /\ WF_vars(MediaPlays)
  /\ WF_vars(NeedData)

FairSpec == Spec /\ Fairness

-----------------------------------------------------------------------------
(* Properties.                                                              *)

TypeOK ==
  /\ mRunning \in BOOLEAN /\ mCachedCsd \in BOOLEAN /\ mWaitingForIDR \in BOOLEAN
  /\ mFramesSinceIDR \in 0 .. (FORCED_IDR_INTERVAL_FRAMES - 1)
  /\ mRestartCount \in Nat
  /\ serverUp \in BOOLEAN /\ s_appsrc \in BOOLEAN /\ s_need_data \in BOOLEAN
  /\ s_request_keyframe \in BOOLEAN
  /\ pc \in {"idle", "check", "consume", "reinject", "request", "gate", "push", "release"}
  /\ frame \in Frames /\ codecLive \in BOOLEAN
  /\ monitor \in {"free", "startEncoder", "startPipeline", "restartRelease",
                  "restartEncoder", "stopRelease", "stopDestroy"}
  /\ pendingRestarts \in Nat /\ pendingStop \in BOOLEAN
  /\ encoder \in {"none", "dead", "csd", "idr", "run"}
  /\ idrDue \in 0 .. (EncoderLatency + 1)
  /\ sink \in {"none", "new", "playing", "closing"}
  /\ csdIn \in BOOLEAN /\ chain \in Chains /\ strays \in 0 .. StrayCap
  /\ blind \in 0 .. BlindCap

Streaming == s_appsrc /\ sink \in {"new", "playing"}

\* The callback still has to decide what becomes of its buffer.
InHand == pc \notin {"idle", "release"}

\* The encoder's first IDR is still to come, or is in the callback's hands.
IdrAhead == encoder \in {"none", "dead", "csd", "idr"} \/ (InHand /\ frame = "IDR")

Stopping == monitor \in {"stopRelease", "stopDestroy"}

\* A repair is under way: the flag is up, its consumer has not closed the gate
\* yet, or the gate is closed.
RepairArmed ==
  s_request_keyframe \/ pc \in {"reinject", "request"} \/ mWaitingForIDR

\* Whenever the decoder cannot use the next P-frame, somebody is on it: a
\* keyframe request is armed or a first IDR is on its way - unless the IDR or
\* its parameter sets were swallowed, or stop() is tearing the session down.
\* No interleaving of the callback, the RTSP events and the monitor's threads
\* loses a request between raising, consuming and closing the gate.
BrokenChainIsRepaired ==
  Streaming /\ chain \in {"install", "gap"}
    => RepairArmed \/ IdrAhead \/ Stopping

\* Per media, at most one P-frame gets past the gate while the stream waits for its
\* first IDR or for the one after a lost P-frame: the frame in flight when
\* on_media_configure installed the appsrc.  A flow-control drop lets none through.
\* Of a swallowed stream the gate knows nothing: its P-frames are blind's.  (A
\* callback whose codec was released under it is on its way to end the process and
\* is left out, here and below.)
AtMostOneStray == codecLive => strays <= 1

\* Once a P-frame was withheld or dropped, no P-frame of the same GOP gets through:
\* the drop asks for a keyframe under the lock it was decided under, and the next
\* buffer finds the request before it reaches the push.
NoStrayAfterGap == [][chain = "gap" /\ codecLive => strays' <= strays]_vars

\* A stream that has its parameter sets but whose IDR was swallowed takes at most one
\* forced-IDR interval of undecodable P-frames from an encoder, and those already in
\* the encoder when the IDR is asked for: no interleaving with drops, restarts and
\* other requests sets the count back without an IDR coming of it that gets through.
\* (Without parameter sets, as where CsdInjectedWhenReady fails, there is no bound.)
SwallowedIsShort ==
  codecLive => blind <= FORCED_IDR_INTERVAL_FRAMES + EncoderLatency

\* on_media_configure: setting the flag there "ensures Java performs a fresh CSD +
\* IDR injection AFTER the appsrc is ready to accept buffers" - with the request
\* answered and the appsrc ready, the parameter sets are in.
CsdInjectedWhenReady ==
  sink = "playing" /\ s_appsrc /\ mRunning /\ pc = "idle" /\ ~s_request_keyframe
    => csdIn

\* stop() is "safe to call from any thread": the codec a callback works on is
\* not released before the callback is through.
CallbackCodecIsLive == pc # "idle" => codecLive

\* A stream that waits for its first IDR, or lost a P-frame, is decodable again
\* in the end, unless it is closed or its IDR is swallowed.
EveryStreamSyncs ==
  Streaming /\ chain \in {"install", "gap"}
    ~> (chain \in {"synced", "swallowed"} \/ ~Streaming)

\* The forced-IDR safety net: a stream that has parameter sets but whose IDR was
\* swallowed gets one within a frame interval, or is repaired, stopped or closed.
SafetyNetResyncs ==
  sink = "playing" /\ csdIn /\ chain = "swallowed"
    ~> (chain # "swallowed" \/ sink # "playing")

-----------------------------------------------------------------------------
(* The inductive invariant behind the safety properties.                    *)

\* Who may be where: monitor phase against encoder, mRunning and server.
ThreadInv ==
  /\ s_appsrc <=> sink # "none"
  /\ s_appsrc => serverUp
  /\ monitor \in {"startEncoder", "startPipeline", "stopRelease", "stopDestroy"} => ~mRunning
  /\ monitor \in {"restartRelease", "stopDestroy"} => encoder = "none"
  /\ monitor = "startEncoder" => ~serverUp
  /\ monitor \in {"startPipeline", "restartEncoder"} => serverUp
  /\ monitor = "free" /\ ~serverUp => encoder \in {"none", "dead"}

\* A callback on a live codec belongs to an encoder that has put something out;
\* a callback on a released one finds no encoder, or a silent new one.
CodecInv ==
  /\ pc = "idle" => codecLive
  /\ ~codecLive => encoder \in {"none", "dead", "csd"}
  /\ codecLive /\ pc # "idle" => encoder = (IF frame = "CSD" THEN "idr" ELSE "run")
  /\ encoder \in {"idr", "run"} => mCachedCsd
  /\ codecLive /\ ~mRunning /\ ~Stopping => pc \in {"idle", "check", "release"}

\* The appsrc has its parameter sets, or they are on their way.
CsdInv ==
  /\ sink = "new" => chain # "synced" /\ ~csdIn
  /\ Streaming /\ ~csdIn /\ chain # "swallowed"
       => \/ s_request_keyframe \/ pc = "reinject"
          \/ encoder \in {"none", "dead", "csd"} \/ (InHand /\ frame = "CSD")
          \/ Stopping

\* BrokenChainIsRepaired, with stop() excused only for the buffers it discards.
RepairInv ==
  /\ Streaming /\ chain \in {"install", "gap"}
       => RepairArmed \/ IdrAhead \/ (Stopping /\ pc \in {"idle", "check", "release"})
  /\ Streaming /\ chain = "synced" /\ ~mRunning
       => s_request_keyframe \/ IdrAhead \/ Stopping

\* A P-frame past the gate of a broken stream is the one the install overtook.
StrayInv ==
  /\ codecLive => strays <= 1
  /\ codecLive /\ Streaming /\ chain \in {"install", "gap"} /\ frame = "P"
       /\ (pc = "push" \/ (pc = "gate" /\ ~mWaitingForIDR))
       => s_request_keyframe /\ chain = "install" /\ strays = 0

ChainInv == ThreadInv /\ CodecInv /\ CsdInv /\ RepairInv /\ StrayInv

\* The callback has a P-frame that CheckRunning is behind.
HoldsCounted == frame = "P" /\ InHand /\ pc # "check"

One(b) == IF b THEN 1 ELSE 0

\* P-frames since the last IDR, at least; what the frame at the check adds, once an
\* IDR is asked for, has been added.
Spent ==
  IF idrDue = 0 THEN mFramesSinceIDR
  ELSE FORCED_IDR_INTERVAL_FRAMES + (EncoderLatency + 1 - idrDue)

\* Only an encoder that runs feeds a decoder blindly, ...
SightInv ==
  /\ chain # "swallowed" \/ ~csdIn => blind = 0
  /\ codecLive /\ (encoder \in {"none", "csd", "idr"} \/ ~serverUp) => blind = 0
  /\ codecLive /\ Alive /\ ~mRunning /\ ~Stopping => blind = 0

\* ... and each such frame was counted towards the next IDR.
BlindInv ==
  /\ codecLive => blind <= FORCED_IDR_INTERVAL_FRAMES + EncoderLatency
  /\ codecLive /\ Streaming
       => blind + One(HoldsCounted) <= FORCED_IDR_INTERVAL_FRAMES + EncoderLatency
  /\ codecLive /\ HoldsCounted => Spent >= 1
  /\ codecLive /\ encoder = "run" /\ ~(InHand /\ frame = "IDR") /\ Streaming /\ ~Stopping
       => blind + One(HoldsCounted \/ (pc = "check" /\ frame = "P" /\ idrDue > 0)) <= Spent

GateInv == ChainInv /\ SightInv /\ BlindInv
=============================================================================
