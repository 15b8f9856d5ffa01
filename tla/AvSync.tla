-------------------------------- MODULE AvSync --------------------------------
(***************************************************************************)
(* The time line of a media, in camera2_gst_streamer.cpp.                  *)
(*                                                                         *)
(* Camera frames and microphone chunks carry the time they were captured   *)
(* at, on one clock.  nativePushEncodedBuffer makes the first frame it     *)
(* pushes into a media the origin of its time line; nativePushAudioBuffer  *)
(* stamps audio relative to that origin, less a moving average of how far  *)
(* audio runs ahead of video.  Audio that comes before any video is        *)
(* stamped by the appsrc, with the time the pipeline has been running.     *)
(* Nothing resets the time line but the end of the media.                  *)
(*                                                                         *)
(* Both pushes hold s_lock from end to end, so each is one action.  A push *)
(* that finds no appsrc, or a full one, changes nothing and is left out;   *)
(* so are parameter sets, which carry no time.  Time is in units, the code *)
(* counts nanoseconds.                                                     *)
(***************************************************************************)
EXTENDS Integers

CONSTANTS
  AlphaNum, AlphaDen,    \* AV_OFFSET_ALPHA as a fraction
  MaxOffset,             \* what an offset is clamped to: 500 ms
  Lag,                   \* external: how old a frame or chunk is when it is pushed
  MaxTime                \* bound: the clock

ASSUME SyncAssumption ==
  /\ AlphaNum \in Nat \ {0} /\ AlphaDen \in Nat /\ AlphaNum < AlphaDen
  /\ MaxOffset \in Nat /\ Lag \in Nat /\ MaxTime \in Nat

NONE == -1   \* GST_CLOCK_TIME_NONE

VARIABLES
  s_pts_base, s_last_video_pts_ns, s_av_offset_ema,
  clock,       \* the capture clock
  prepared,    \* when the current media got its appsrcs; NONE without a media
  heard,       \* capture time of the last chunk pushed into the media, or NONE
  stamp,       \* the time stamp it went downstream with
  byClock      \* whether the appsrc stamped it

timeline == <<s_pts_base, s_last_video_pts_ns, s_av_offset_ema>>
audio    == <<heard, stamp, byClock>>
vars     == <<timeline, audio, clock, prepared>>

Times == 0 .. MaxTime

\* a - b on unsigned times, where the code clamps it to 0.
Minus(a, b) == IF a >= b THEN a - b ELSE 0

-----------------------------------------------------------------------------
(* The moving average.                                                      *)

\* Mutant: the offset is not clamped.
InstantOffsetUnclamped(raw) == Minus(raw, s_last_video_pts_ns)

\* instant_offset_ns: how far audio is ahead of video, clamped to [0, MaxOffset].
InstantOffset(raw) ==
  LET ahead == Minus(raw, s_last_video_pts_ns)
  IN  IF ahead > MaxOffset THEN MaxOffset ELSE ahead

\* Mutant: the old average is not scaled down.
SmoothedUnweighted(old, offset) ==
  LET weighed == AlphaNum * offset + AlphaDen * old
  IN  {e \in Times : AlphaDen * e <= weighed /\ weighed <= AlphaDen * (e + 1)}

\* The weighted mean in doubles, cut to an integer: the floor, or one less where the
\* mean is an integer that the products miss by a rounding.
Smoothed(old, offset) ==
  LET weighed == AlphaNum * offset + (AlphaDen - AlphaNum) * old
  IN  {e \in Times : AlphaDen * e <= weighed /\ weighed <= AlphaDen * (e + 1)}

\* s_av_offset_ema after a chunk at raw: cold start, or a step of the average.
Offsets(raw) ==
  IF s_last_video_pts_ns = NONE THEN {s_av_offset_ema}
  ELSE IF s_av_offset_ema = NONE THEN {InstantOffset(raw)}
  ELSE Smoothed(s_av_offset_ema, InstantOffset(raw))

\* corrected_pts
Corrected(raw, ema) == IF ema # NONE THEN Minus(raw, ema) ELSE 0

-----------------------------------------------------------------------------
(* The handlers.                                                            *)

\* Capture times of what can be pushed now.
Recent == {t \in Times : t > 0 /\ clock - Lag <= t /\ t <= clock}

\* nativePushEncodedBuffer, a frame captured at pts; the encoder keeps their order.
PushVideo(pts) ==
  /\ prepared # NONE /\ pts \in Recent
  /\ s_last_video_pts_ns # NONE => pts > s_pts_base + s_last_video_pts_ns
  /\ s_pts_base' = IF s_pts_base = NONE THEN pts ELSE s_pts_base
  /\ s_last_video_pts_ns' = Minus(pts, s_pts_base')
  /\ UNCHANGED <<s_av_offset_ema, audio, clock, prepared>>

\* nativePushAudioBuffer, with a time line to relate the chunk to.
PushAudio(pts) ==
  /\ prepared # NONE /\ s_pts_base # NONE /\ pts \in Recent /\ pts > heard
  /\ LET raw == Minus(pts, s_pts_base)
     IN  \E ema \in Offsets(raw) :
           s_av_offset_ema' = ema /\ stamp' = Corrected(raw, ema)
  /\ heard' = pts /\ byClock' = FALSE
  /\ UNCHANGED <<s_pts_base, s_last_video_pts_ns, clock, prepared>>

\* The same before the first frame: the appsrc's do-timestamp stamps it (external).
PushAudioEarly(pts) ==
  /\ prepared # NONE /\ s_pts_base = NONE /\ pts \in Recent /\ pts > heard
  /\ stamp' = clock - prepared
  /\ heard' = pts /\ byClock' = TRUE
  /\ UNCHANGED <<timeline, clock, prepared>>

\* on_media_configure hands the appsrcs over; it leaves the time line alone.
MediaConfigure ==
  /\ prepared = NONE
  /\ prepared' = clock
  /\ UNCHANGED <<timeline, audio, clock>>

\* Mutant: the next media goes on with the old origin.
MediaUnpreparedKeepsBase ==
  /\ prepared # NONE
  /\ prepared' = NONE
  /\ s_last_video_pts_ns' = NONE /\ s_av_offset_ema' = NONE
  /\ heard' = NONE /\ stamp' = NONE /\ byClock' = FALSE
  /\ UNCHANGED <<s_pts_base, clock>>

\* on_media_unprepared, or the end of the session (Destroy).
MediaUnprepared ==
  /\ prepared # NONE
  /\ prepared' = NONE
  /\ s_pts_base' = NONE /\ s_last_video_pts_ns' = NONE /\ s_av_offset_ema' = NONE
  /\ heard' = NONE /\ stamp' = NONE /\ byClock' = FALSE
  /\ UNCHANGED clock

Tick ==
  /\ clock < MaxTime
  /\ clock' = clock + 1
  /\ UNCHANGED <<timeline, audio, prepared>>

Init ==
  /\ s_pts_base = NONE /\ s_last_video_pts_ns = NONE /\ s_av_offset_ema = NONE
  /\ heard = NONE /\ stamp = NONE /\ byClock = FALSE
  /\ clock = 0 /\ prepared = NONE

Next ==
  \/ \E pts \in Times : PushVideo(pts) \/ PushAudio(pts) \/ PushAudioEarly(pts)
  \/ MediaConfigure \/ MediaUnprepared \/ Tick

Spec == Init /\ [][Next]_vars

-----------------------------------------------------------------------------
(* Properties.                                                              *)

TypeOK ==
  /\ s_pts_base \in Times \cup {NONE} /\ s_last_video_pts_ns \in Times \cup {NONE}
  /\ s_av_offset_ema \in 0 .. MaxOffset \cup {NONE}
  /\ clock \in Times /\ prepared \in Times \cup {NONE}
  /\ heard \in Times \cup {NONE} /\ stamp \in Times \cup {NONE}
  /\ byClock \in BOOLEAN

\* "the reconnect's first frame produced PTS = 12.3 s instead of 0": no stamp, of audio
\* or of video, lies ahead of the time the media's own pipeline has been running, but
\* for what its first frame was late.
StampsFitThePipeline ==
  prepared # NONE =>
    /\ stamp <= clock - prepared + Lag
    /\ s_last_video_pts_ns <= clock - prepared + Lag

\* The average smooths: however far a jittered or stalled video throws the offset, the
\* next audio stamp lies before the last one by no more than alpha * MaxOffset.
AudioStepsBackAtMost ==
  [][s_av_offset_ema # NONE /\ heard' > heard
       => AlphaDen * (stamp - stamp') <= AlphaNum * MaxOffset]_vars

\* ... and it follows: each chunk takes the average to the offset it saw, by alpha of
\* the distance or more and not beyond it, within the unit that is cut off.
AverageFollowsOffset ==
  [][s_av_offset_ema # NONE /\ heard' > heard =>
       LET offset == InstantOffset(Minus(heard', s_pts_base))
           before == offset - s_av_offset_ema
           after  == offset - s_av_offset_ema'
           weight == AlphaDen - AlphaNum
       IN  IF before >= 0
           THEN 0 <= after /\ AlphaDen * after <= weight * before + AlphaDen
           ELSE weight * before <= AlphaDen * after /\ after <= 1]_vars
=============================================================================
