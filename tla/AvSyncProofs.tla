----------------------------- MODULE AvSyncProofs -----------------------------
(***************************************************************************)
(* AvSync for any weight of the average, any clamp and any lag: the        *)
(* weighted mean stays between what it averages, and with that the time    *)
(* line of each media fits its pipeline.                                   *)
(***************************************************************************)
EXTENDS AvSync, TLAPS

LEMMA Booleans == \A b : (b = TRUE \/ b = FALSE) => b \in BOOLEAN
  OBVIOUS

-----------------------------------------------------------------------------
(* Arithmetic.                                                              *)

LEMMA TimesMonotone == \A a \in Nat, x, y \in Int : x <= y => a * x <= a * y
<1> SUFFICES ASSUME NEW a \in Nat, NEW x \in Int, NEW y \in Int, x <= y
             PROVE  a * x <= a * y
  OBVIOUS
<1>1. PICK d \in Nat : y = x + d
  <2>1. y - x \in Nat /\ y = x + (y - x)
    OBVIOUS
  <2> QED
    BY <2>1
<1>2. a * y = a * x + a * d /\ a * d >= 0
  BY <1>1
<1> QED
  BY <1>2

LEMMA TimesCancels == \A a \in Nat \ {0}, x, y \in Int : a * x <= a * y => x <= y
<1> SUFFICES ASSUME NEW a \in Nat \ {0}, NEW x \in Int, NEW y \in Int, y < x
             PROVE  a * y < a * x
  OBVIOUS
<1>1. a * (y + 1) <= a * x
  BY TimesMonotone
<1>2. a * (y + 1) = a * y + a
  OBVIOUS
<1> QED
  BY <1>1, <1>2

LEMMA MinusBounds ==
  \A a, b, c \in Nat : a <= c /\ b <= c => Minus(a, b) \in 0 .. c /\ Minus(a, b) <= c - b
  BY DEF Minus

LEMMA MinusMonotone ==
  \A a, b, c \in Int : a <= b => /\ Minus(a, c) \in Nat /\ Minus(b, c) \in Nat
                               /\ Minus(a, c) <= Minus(b, c)
  BY DEF Minus

\* The mean lies between the two values, and e is its floor or one less.
LEMMA MeanBetween ==
  ASSUME NEW old \in Int, NEW offset \in Int, NEW e \in Smoothed(old, offset)
  PROVE  LET Weighed == AlphaNum * offset + (AlphaDen - AlphaNum) * old
         IN  /\ e \in Times /\ AlphaDen * e <= Weighed /\ Weighed <= AlphaDen * e + AlphaDen
             /\ old <= offset => AlphaDen * old <= Weighed /\ Weighed <= AlphaDen * offset
             /\ offset <= old => AlphaDen * offset <= Weighed /\ Weighed <= AlphaDen * old
<1> DEFINE Weighed == AlphaNum * offset + (AlphaDen - AlphaNum) * old
<1>0. AlphaNum \in Nat /\ AlphaDen \in Nat /\ AlphaDen - AlphaNum \in Nat
  BY SyncAssumption DEF SyncAssumption
<1>1. e \in Times /\ AlphaDen * e <= Weighed /\ Weighed <= AlphaDen * (e + 1)
  BY DEF Smoothed
<1>2. e \in Int
  BY <1>1, SyncAssumption DEF Times, SyncAssumption
<1>3. AlphaDen * (e + 1) = AlphaDen * e + AlphaDen
  BY <1>0, <1>2
<1>4. ASSUME NEW x \in Int, NEW y \in Int, x <= y
      PROVE  AlphaNum * x <= AlphaNum * y
             /\ (AlphaDen - AlphaNum) * x <= (AlphaDen - AlphaNum) * y
  BY <1>0, <1>4, TimesMonotone
<1>5. ASSUME NEW x \in Int
      PROVE  AlphaDen * x = AlphaNum * x + (AlphaDen - AlphaNum) * x
  BY <1>0
<1>6. CASE old <= offset
  <2>1. /\ AlphaNum * old <= AlphaNum * offset
        /\ (AlphaDen - AlphaNum) * old <= (AlphaDen - AlphaNum) * offset
    BY <1>4, <1>6
  <2>2. /\ AlphaDen * old = AlphaNum * old + (AlphaDen - AlphaNum) * old
        /\ AlphaDen * offset = AlphaNum * offset + (AlphaDen - AlphaNum) * offset
    BY <1>5
  <2> QED
    BY <1>0, <1>1, <1>3, <1>6, <2>1, <2>2
<1>7. CASE offset <= old
  <2>1. /\ AlphaNum * offset <= AlphaNum * old
        /\ (AlphaDen - AlphaNum) * offset <= (AlphaDen - AlphaNum) * old
    BY <1>4, <1>7
  <2>2. /\ AlphaDen * old = AlphaNum * old + (AlphaDen - AlphaNum) * old
        /\ AlphaDen * offset = AlphaNum * offset + (AlphaDen - AlphaNum) * offset
    BY <1>5
  <2> QED
    BY <1>0, <1>1, <1>3, <1>7, <2>1, <2>2
<1> QED
  BY <1>6, <1>7

-----------------------------------------------------------------------------
(* The inductive invariant.                                                 *)

\* Without a media there is no time line; its origin is a frame of the media, and no
\* older than the lag allows; the last stamp is that of the last chunk heard, and
\* nothing is stamped later than the time the pipeline has been running.
SyncInv ==
  /\ TypeOK
  /\ prepared <= clock
  /\ prepared = NONE => s_pts_base = NONE /\ heard = NONE /\ stamp = NONE
  /\ s_pts_base = NONE => s_last_video_pts_ns = NONE
  /\ s_last_video_pts_ns = NONE => s_av_offset_ema = NONE
  /\ s_pts_base # NONE =>
       /\ prepared # NONE /\ prepared <= s_pts_base + Lag /\ s_pts_base <= clock
       /\ s_last_video_pts_ns <= clock - s_pts_base
  /\ s_av_offset_ema # NONE => stamp = Minus(Minus(heard, s_pts_base), s_av_offset_ema)
  /\ prepared # NONE => stamp <= clock - prepared + Lag

LEMMA ConstantsAreNat ==
  /\ AlphaNum \in Nat \ {0} /\ AlphaDen \in Nat \ {0} /\ AlphaDen - AlphaNum \in Nat
  /\ MaxOffset \in Nat /\ Lag \in Nat /\ MaxTime \in Nat
  BY SyncAssumption DEF SyncAssumption

LEMMA InitEstablishes == Init => SyncInv
<1> SUFFICES ASSUME Init PROVE SyncInv
  OBVIOUS
<1>1. byClock \in BOOLEAN
  BY Booleans DEF Init
<1>2. TypeOK
  BY <1>1, ConstantsAreNat DEF Init, TypeOK, Times, NONE
<1> QED
  BY <1>2, ConstantsAreNat DEF Init, SyncInv, NONE

\* What the average may become, if it is anything yet.
LEMMA AverageStaysClamped ==
  ASSUME SyncInv, NEW raw \in Nat, NEW ema \in Offsets(raw)
  PROVE  ema \in 0 .. MaxOffset \cup {NONE}
<1>1. /\ s_av_offset_ema \in 0 .. MaxOffset \cup {NONE}
      /\ s_last_video_pts_ns \in Nat \cup {NONE}
  BY ConstantsAreNat DEF SyncInv, TypeOK, Times
<1>2. CASE s_last_video_pts_ns = NONE
  BY <1>1, <1>2 DEF Offsets
<1>3. CASE s_last_video_pts_ns # NONE
  <2>1. InstantOffset(raw) \in 0 .. MaxOffset
    BY <1>1, <1>3, ConstantsAreNat DEF InstantOffset, Minus
  <2>2. CASE s_av_offset_ema = NONE
    BY <1>3, <2>1, <2>2 DEF Offsets
  <2>3. CASE s_av_offset_ema # NONE
    <3> DEFINE old == s_av_offset_ema
               offset == InstantOffset(raw)
    <3>1. ema \in Smoothed(old, offset) /\ old \in 0 .. MaxOffset
      BY <1>1, <1>3, <2>3 DEF Offsets
    <3>2. PICK top \in 0 .. MaxOffset :
            AlphaDen * ema <= AlphaDen * top /\ ema \in Times
      <4>1. old \in Int /\ offset \in Int
        BY <2>1, <3>1
      <4>2. ema \in Times
        BY <3>1, <4>1, MeanBetween
      <4>3. AlphaDen * ema \in Int /\ AlphaDen * old \in Int /\ AlphaDen * offset \in Int
            /\ AlphaNum * offset + (AlphaDen - AlphaNum) * old \in Int
        BY <4>1, <4>2, ConstantsAreNat DEF Times
      <4>4. CASE old <= offset
        BY <2>1, <3>1, <4>1, <4>2, <4>3, <4>4, MeanBetween
      <4>5. CASE offset <= old
        BY <2>1, <3>1, <4>1, <4>2, <4>3, <4>5, MeanBetween
      <4> QED
        BY <4>1, <4>4, <4>5
    <3>3. ema <= top /\ ema \in Nat
      BY <3>2, ConstantsAreNat, TimesCancels DEF Times
    <3> QED
      BY <3>2, <3>3, ConstantsAreNat
  <2> QED
    BY <2>2, <2>3
<1> QED
  BY <1>2, <1>3

LEMMA VideoKeeps == ASSUME SyncInv, NEW pts \in Times, PushVideo(pts) PROVE SyncInv'
<1>1. /\ pts \in Nat /\ clock \in Nat /\ pts <= clock /\ clock - Lag <= pts
      /\ \A t \in 0 .. clock : t \in Times /\ t # NONE
  BY ConstantsAreNat DEF PushVideo, Recent, Times, SyncInv, TypeOK, NONE
<1>2. /\ prepared # NONE
      /\ UNCHANGED <<s_av_offset_ema, heard, stamp, byClock, clock, prepared>>
  BY DEF PushVideo, audio
<1>3. PICK base \in Nat :
        base = s_pts_base' /\ base \in Times /\ base # NONE /\ base <= clock
        /\ prepared <= base + Lag
  <2>1. s_pts_base' = IF s_pts_base = NONE THEN pts ELSE s_pts_base
    BY DEF PushVideo
  <2>2. CASE s_pts_base = NONE
    <3>1. prepared <= pts + Lag /\ pts # NONE
      BY <1>1, ConstantsAreNat DEF SyncInv, TypeOK, Times, NONE
    <3> QED
      BY <1>1, <2>1, <2>2, <3>1
  <2>3. CASE s_pts_base # NONE
    <3>1. s_pts_base \in Nat /\ s_pts_base \in Times
      BY <2>3, ConstantsAreNat DEF SyncInv, TypeOK, Times
    <3> QED
      BY <2>1, <2>3, <3>1 DEF SyncInv
  <2> QED
    BY <2>2, <2>3
<1>4. s_last_video_pts_ns' = Minus(pts, base)
  BY <1>3 DEF PushVideo
<1>5. Minus(pts, base) \in 0 .. clock /\ Minus(pts, base) <= clock - base
  BY <1>1, <1>3, MinusBounds, Zenon
<1>6. Minus(pts, base) \in Times /\ Minus(pts, base) # NONE
  BY <1>1, <1>5, Zenon
<1>7. TypeOK'
  BY <1>2, <1>3, <1>4, <1>6 DEF SyncInv, TypeOK
<1>8. s_av_offset_ema # NONE => s_pts_base' = s_pts_base
  <2>1. s_av_offset_ema # NONE => s_pts_base # NONE
    BY DEF SyncInv
  <2>2. s_pts_base' = IF s_pts_base = NONE THEN pts ELSE s_pts_base
    BY DEF PushVideo
  <2> QED
    BY <2>1, <2>2
<1> QED
  BY <1>2, <1>3, <1>4, <1>5, <1>6, <1>7, <1>8, Zenon DEF SyncInv

LEMMA AudioKeeps == ASSUME SyncInv, NEW pts \in Times, PushAudio(pts) PROVE SyncInv'
<1> DEFINE raw == Minus(pts, s_pts_base)
<1>1. /\ pts \in Nat /\ pts <= clock /\ prepared # NONE /\ s_pts_base # NONE
      /\ UNCHANGED <<s_pts_base, s_last_video_pts_ns, clock, prepared>>
      /\ heard' = pts /\ byClock' = FALSE
  BY ConstantsAreNat DEF PushAudio, Recent, Times
<1>2. PICK ema \in Offsets(raw) : s_av_offset_ema' = ema /\ stamp' = Corrected(raw, ema)
  BY DEF PushAudio
<1>3. /\ s_pts_base \in Nat /\ s_pts_base <= clock /\ clock \in Times /\ prepared \in Nat
      /\ prepared <= s_pts_base + Lag /\ prepared <= clock
  BY <1>1, ConstantsAreNat DEF SyncInv, TypeOK, Times, NONE
<1>4. raw \in Nat /\ raw <= clock - s_pts_base
  BY <1>1, <1>3, ConstantsAreNat DEF Minus, Times
<1>5. ema \in 0 .. MaxOffset \cup {NONE}
  BY <1>4, AverageStaysClamped
<1>6. stamp' \in Nat /\ stamp' <= clock - s_pts_base
  BY <1>2, <1>3, <1>4, <1>5, ConstantsAreNat DEF Corrected, Minus, Times
<1>7. stamp' \in Times /\ stamp' <= clock - prepared + Lag
  BY <1>3, <1>6, ConstantsAreNat DEF Times
<1>8. byClock' \in BOOLEAN
  BY <1>1, Booleans
<1>9. TypeOK'
  BY <1>1, <1>2, <1>5, <1>7, <1>8 DEF SyncInv, TypeOK
<1>10. s_last_video_pts_ns = NONE => ema = NONE
  BY <1>2 DEF Offsets, SyncInv
<1>11. ema # NONE => stamp' = Minus(raw, ema)
  BY <1>2 DEF Corrected
<1> QED
  BY <1>1, <1>2, <1>7, <1>9, <1>10, <1>11 DEF SyncInv

LEMMA EarlyAudioKeeps ==
  ASSUME SyncInv, NEW pts \in Times, PushAudioEarly(pts) PROVE SyncInv'
<1>1. /\ prepared # NONE /\ s_pts_base = NONE /\ stamp' = clock - prepared
      /\ heard' = pts /\ byClock' = TRUE /\ UNCHANGED <<timeline, clock, prepared>>
  BY DEF PushAudioEarly
<1>2. byClock' \in BOOLEAN
  BY <1>1, Booleans
<1>3. stamp' \in Times /\ stamp' <= clock - prepared + Lag
  BY <1>1, ConstantsAreNat DEF SyncInv, TypeOK, Times, NONE
<1> QED
  BY <1>1, <1>2, <1>3 DEF SyncInv, TypeOK, timeline

LEMMA MediaKeeps ==
  ASSUME SyncInv, MediaConfigure \/ MediaUnprepared \/ Tick PROVE SyncInv'
<1>1. CASE MediaConfigure
  <2>1. clock \in Nat
    BY ConstantsAreNat DEF SyncInv, TypeOK, Times
  <2> QED
    BY <1>1, <2>1, ConstantsAreNat
       DEF MediaConfigure, SyncInv, TypeOK, timeline, audio, Times, NONE
<1>2. CASE MediaUnprepared
  <2>1. byClock' \in BOOLEAN
    BY <1>2, Booleans DEF MediaUnprepared
  <2>2. clock \in Nat
    BY ConstantsAreNat DEF SyncInv, TypeOK, Times
  <2> QED
    BY <1>2, <2>1, <2>2 DEF MediaUnprepared, SyncInv, TypeOK, NONE
<1>3. CASE Tick
  <2>1. clock' \in Times /\ clock' = clock + 1 /\ clock \in Nat
        /\ UNCHANGED <<timeline, audio, prepared>>
    BY <1>3, ConstantsAreNat DEF Tick, SyncInv, TypeOK, Times
  <2>2. prepared \in Int /\ s_pts_base \in Int /\ s_last_video_pts_ns \in Int /\ stamp \in Int
    BY DEF SyncInv, TypeOK, Times, NONE
  <2> QED
    BY <2>1, <2>2, ConstantsAreNat DEF SyncInv, TypeOK, timeline, audio
<1> QED
  BY <1>1, <1>2, <1>3

LEMMA StepKeeps == SyncInv /\ [Next]_vars => SyncInv'
<1> SUFFICES ASSUME SyncInv, [Next]_vars PROVE SyncInv'
  OBVIOUS
<1>1. CASE UNCHANGED vars
  BY <1>1 DEF vars, timeline, audio, SyncInv, TypeOK
<1> QED
  BY <1>1, VideoKeeps, AudioKeeps, EarlyAudioKeeps, MediaKeeps DEF Next

\* The time line keeps its shape, whatever the clock, the lag and the video do.
THEOREM SyncInvHolds == Spec => []SyncInv
<1> QED
  BY InitEstablishes, StepKeeps, PTL DEF Spec

\* The average stays within its clamp, and every stamp within the bounds of time.
THEOREM TypeCorrect == Spec => []TypeOK
<1>1. SyncInv => TypeOK
  BY DEF SyncInv
<1> QED
  BY <1>1, SyncInvHolds, PTL

\* No stamp, of audio or of video, is ahead of the pipeline by more than the lag.
THEOREM StampsFit == Spec => []StampsFitThePipeline
<1>1. SyncInv => StampsFitThePipeline
  <2> SUFFICES ASSUME SyncInv, prepared # NONE
               PROVE  s_last_video_pts_ns <= clock - prepared + Lag
    BY DEF StampsFitThePipeline, SyncInv
  <2>1. /\ prepared \in Nat /\ clock \in Nat /\ s_pts_base \in Int
        /\ s_last_video_pts_ns \in Int /\ prepared <= clock
    BY ConstantsAreNat DEF SyncInv, TypeOK, Times, NONE
  <2>2. CASE s_pts_base = NONE
    BY <2>1, <2>2, ConstantsAreNat DEF SyncInv, NONE
  <2>3. CASE s_pts_base # NONE
    BY <2>1, <2>3, ConstantsAreNat DEF SyncInv
  <2> QED
    BY <2>2, <2>3
<1> QED
  BY <1>1, SyncInvHolds, PTL

-----------------------------------------------------------------------------
(* How the average moves.                                                   *)

\* A chunk that meets an average moves it to a weighted mean.
LEMMA ChunkMovesAverage ==
  ASSUME SyncInv, Next, s_av_offset_ema # NONE, heard' > heard
  PROVE  LET raw    == Minus(heard', s_pts_base)
             offset == InstantOffset(raw)
         IN  /\ heard \in Int /\ heard' \in Int /\ s_pts_base \in Int /\ raw \in Nat
             /\ s_av_offset_ema \in 0 .. MaxOffset /\ offset \in 0 .. MaxOffset
             /\ s_av_offset_ema' \in Smoothed(s_av_offset_ema, offset)
             /\ s_av_offset_ema' \in Nat
             /\ stamp = Minus(Minus(heard, s_pts_base), s_av_offset_ema)
             /\ stamp' = Minus(raw, s_av_offset_ema')
<1>1. /\ s_pts_base # NONE /\ s_last_video_pts_ns # NONE
      /\ heard \in Int /\ heard >= NONE /\ s_pts_base \in Nat /\ s_last_video_pts_ns \in Nat
      /\ s_av_offset_ema \in 0 .. MaxOffset
      /\ stamp = Minus(Minus(heard, s_pts_base), s_av_offset_ema)
  BY ConstantsAreNat DEF SyncInv, TypeOK, Times, NONE
<1>2. ~(UNCHANGED heard) /\ heard' # NONE
  BY <1>1 DEF NONE
<1>3. PICK pts \in Times : PushAudio(pts)
  BY <1>1, <1>2 DEF Next, PushVideo, PushAudioEarly, MediaConfigure, MediaUnprepared, Tick,
                    audio
<1>4. heard' = pts /\ heard' \in Nat
  BY <1>3, ConstantsAreNat DEF PushAudio, Times
<1> DEFINE raw == Minus(heard', s_pts_base)
           offset == InstantOffset(raw)
<1>5. raw \in Nat
  BY <1>1, <1>4 DEF Minus
<1>6. offset \in 0 .. MaxOffset
  BY <1>1, <1>5, ConstantsAreNat DEF InstantOffset, Minus
<1>7. PICK ema \in Offsets(raw) : s_av_offset_ema' = ema /\ stamp' = Corrected(raw, ema)
  BY <1>3, <1>4 DEF PushAudio
<1>8. Offsets(raw) = Smoothed(s_av_offset_ema, offset)
  BY <1>1 DEF Offsets
<1>9. ema \in Nat
  BY <1>7, <1>8, ConstantsAreNat DEF Smoothed, Times
<1>10. stamp' = Minus(raw, ema)
  BY <1>7, <1>9 DEF Corrected, NONE
<1> QED
  BY <1>1, <1>4, <1>5, <1>6, <1>7, <1>8, <1>9, <1>10

\* Stamps of two chunks go back by no more than the average rose between them.
LEMMA StampsStepBack ==
  ASSUME NEW r \in Nat, NEW s \in Nat, r <= s, NEW e \in Nat, NEW f \in Nat
  PROVE  \/ Minus(r, e) - Minus(s, f) <= 0
         \/ Minus(r, e) - Minus(s, f) <= f - e
  BY DEF Minus

\* A chunk's stamp lies before the last one by alpha * MaxOffset at most.
THEOREM StepsBack == Spec => AudioStepsBackAtMost
<1>1. SyncInv /\ [Next]_vars =>
        [s_av_offset_ema # NONE /\ heard' > heard
           => AlphaDen * (stamp - stamp') <= AlphaNum * MaxOffset]_vars
  <2> SUFFICES ASSUME SyncInv, Next, s_av_offset_ema # NONE, heard' > heard
               PROVE  AlphaDen * (stamp - stamp') <= AlphaNum * MaxOffset
    OBVIOUS
  <2> DEFINE raw == Minus(heard', s_pts_base)
             last == Minus(heard, s_pts_base)
             offset == InstantOffset(raw)
             ema == s_av_offset_ema
             new == s_av_offset_ema'
  <2>1. /\ heard \in Int /\ heard' \in Int /\ s_pts_base \in Int /\ raw \in Nat
        /\ ema \in 0 .. MaxOffset /\ offset \in 0 .. MaxOffset
        /\ new \in Smoothed(ema, offset) /\ new \in Nat
        /\ stamp = Minus(last, ema) /\ stamp' = Minus(raw, new)
    BY ChunkMovesAverage
  <2>2. PICK h \in Int, g \in Int, b \in Int, e \in Nat, f \in Nat :
          h = heard /\ g = heard' /\ h < g /\ b = s_pts_base /\ e = ema /\ f = new
    BY <2>1
  <2>3. PICK d \in Int : d = stamp - stamp' /\ (d <= 0 \/ d <= new - ema)
    <3>1. PICK r \in Nat, s \in Nat : r = Minus(h, b) /\ s = Minus(g, b) /\ r <= s
      <4>1. h \in Int /\ g \in Int /\ b \in Int /\ h <= g
        BY <2>2
      <4>2. Minus(h, b) \in Nat /\ Minus(g, b) \in Nat /\ Minus(h, b) <= Minus(g, b)
        BY <4>1, MinusMonotone, Zenon
      <4> QED
        BY <4>2
    <3>2. PICK m \in Nat, n \in Nat : m = Minus(r, e) /\ n = Minus(s, f)
      <4>1. \A x, y \in Nat : Minus(x, y) \in Nat
        BY MinusMonotone
      <4>2. Minus(r, e) \in Nat /\ Minus(s, f) \in Nat
        BY <4>1, Zenon
      <4> QED
        BY <4>2
    <3>3. m - n <= 0 \/ m - n <= f - e
      BY <2>2, <3>1, <3>2, StampsStepBack
    <3>4. stamp = m /\ stamp' = n
      BY <2>1, <2>2, <3>1, <3>2
    <3>5. m - n \in Int
      OBVIOUS
    <3> QED
      BY <2>2, <3>3, <3>4, <3>5
  <2>4. new - ema \in Int
    BY <2>1
  <2>5. AlphaDen * (new - ema) <= AlphaNum * MaxOffset
    <3>1. AlphaDen * new <= AlphaNum * offset + (AlphaDen - AlphaNum) * ema
      BY <2>1, MeanBetween
    <3>2. /\ AlphaDen * (new - ema) = AlphaDen * new - AlphaDen * ema
          /\ AlphaNum * (offset - ema) = AlphaNum * offset - AlphaNum * ema
          /\ (AlphaDen - AlphaNum) * ema = AlphaDen * ema - AlphaNum * ema
      BY <2>1, ConstantsAreNat
    <3>3. AlphaNum * (offset - ema) <= AlphaNum * MaxOffset
      BY <2>1, ConstantsAreNat, TimesMonotone
    <3>4. /\ AlphaDen * new \in Int /\ AlphaDen * ema \in Int /\ AlphaNum * offset \in Int
          /\ AlphaNum * ema \in Int /\ AlphaNum * MaxOffset \in Int
      BY <2>1, ConstantsAreNat
    <3> QED
      BY <3>1, <3>2, <3>3, <3>4
  <2>6. AlphaDen * 0 <= AlphaNum * MaxOffset /\ AlphaNum * MaxOffset \in Int
    BY ConstantsAreNat
  <2>7. CASE d <= 0
    <3>1. AlphaDen * d <= AlphaDen * 0
      BY <2>7, ConstantsAreNat, TimesMonotone
    <3>2. AlphaDen * d \in Int /\ AlphaDen * 0 \in Int
      BY ConstantsAreNat
    <3> QED
      BY <2>3, <2>6, <3>1, <3>2
  <2>8. CASE d <= new - ema
    <3>1. AlphaDen * d <= AlphaDen * (new - ema)
      BY <2>4, <2>8, ConstantsAreNat, TimesMonotone
    <3>2. AlphaDen * d \in Int /\ AlphaDen * (new - ema) \in Int
      BY <2>4, ConstantsAreNat
    <3> QED
      BY <2>3, <2>5, <2>6, <3>1, <3>2
  <2> QED
    BY <2>3, <2>7, <2>8
<1> QED
  BY <1>1, SyncInvHolds, PTL DEF Spec, AudioStepsBackAtMost

\* The average comes nearer to what a chunk saw, by its weight, and not beyond it.
THEOREM Follows == Spec => AverageFollowsOffset
<1>1. SyncInv /\ [Next]_vars =>
        [s_av_offset_ema # NONE /\ heard' > heard =>
           LET offset == InstantOffset(Minus(heard', s_pts_base))
               before == offset - s_av_offset_ema
               after  == offset - s_av_offset_ema'
               weight == AlphaDen - AlphaNum
           IN  IF before >= 0
               THEN 0 <= after /\ AlphaDen * after <= weight * before + AlphaDen
               ELSE weight * before <= AlphaDen * after /\ after <= 1]_vars
  <2> SUFFICES ASSUME SyncInv, Next, s_av_offset_ema # NONE, heard' > heard
               PROVE  LET offset == InstantOffset(Minus(heard', s_pts_base))
                          before == offset - s_av_offset_ema
                          after  == offset - s_av_offset_ema'
                          weight == AlphaDen - AlphaNum
                      IN  IF before >= 0
                          THEN 0 <= after /\ AlphaDen * after <= weight * before + AlphaDen
                          ELSE weight * before <= AlphaDen * after /\ after <= 1
    OBVIOUS
  <2>1. PICK offset \in Int, ema \in Int, new \in Int :
          /\ offset = InstantOffset(Minus(heard', s_pts_base))
          /\ ema = s_av_offset_ema /\ new = s_av_offset_ema'
          /\ new \in Smoothed(ema, offset)
    BY ChunkMovesAverage
  <2> DEFINE Weighed == AlphaNum * offset + (AlphaDen - AlphaNum) * ema
             weight == AlphaDen - AlphaNum
  <2>2. /\ AlphaDen * new <= Weighed /\ Weighed <= AlphaDen * new + AlphaDen
        /\ ema <= offset => Weighed <= AlphaDen * offset
        /\ offset <= ema => AlphaDen * offset <= Weighed
    BY <2>1, MeanBetween
  <2>3. /\ weight * (offset - ema) = AlphaDen * offset - Weighed
        /\ AlphaDen * (offset - new) = AlphaDen * offset - AlphaDen * new
        /\ AlphaDen * (new + 1) = AlphaDen * new + AlphaDen
    BY ConstantsAreNat
  <2>4. AlphaDen * new \in Int /\ AlphaDen * offset \in Int /\ Weighed \in Int
    BY ConstantsAreNat
  <2>5. CASE ema <= offset
    <3>1. AlphaDen * new <= AlphaDen * offset
      BY <2>2, <2>4, <2>5
    <3>2. new <= offset
      BY <3>1, ConstantsAreNat, TimesCancels
    <3>3. AlphaDen * (offset - new) <= weight * (offset - ema) + AlphaDen
      BY <2>2, <2>3, <2>4, ConstantsAreNat
    <3> QED
      BY <2>1, <2>5, <3>2, <3>3
  <2>6. CASE offset < ema
    <3>1. AlphaDen * offset <= AlphaDen * (new + 1)
      BY <2>2, <2>3, <2>4, <2>6, ConstantsAreNat
    <3>2. offset <= new + 1
      BY <3>1, ConstantsAreNat, TimesCancels
    <3>3. weight * (offset - ema) <= AlphaDen * (offset - new)
      BY <2>2, <2>3, <2>4, ConstantsAreNat
    <3> QED
      BY <2>1, <2>6, <3>2, <3>3
  <2> QED
    BY <2>5, <2>6
<1> QED
  BY <1>1, SyncInvHolds, PTL DEF Spec, AverageFollowsOffset
=============================================================================
