------------------------- MODULE KeyframeGateProofs -------------------------
(***************************************************************************)
(* The invariants of KeyframeGate, proved for every restart limit, forced  *)
(* IDR interval and encoder latency.                                       *)
(***************************************************************************)
EXTENDS KeyframeGate, TLAPS

-----------------------------------------------------------------------------
(* Type correctness. *)

LEMMA Booleans == \A b : (b = TRUE \/ b = FALSE) => b \in BOOLEAN
OBVIOUS

LEMMA InitTypeOK == Init => TypeOK
BY Booleans, GateAssumption DEF GateAssumption, Init, TypeOK, Frames, Chains, StrayCap, BlindCap

LEMMA DeliverTypeOK ==
  ASSUME TypeOK, NEW f \in Frames, Deliver(f)
  PROVE  TypeOK'
BY Booleans, GateAssumption DEF GateAssumption, Deliver, CanEmit, Emitted, TypeOK, Frames, Chains, StrayCap, BlindCap,
   native, threads, decoder

LEMMA CallbackTypeOK ==
  ASSUME TypeOK, Callback
  PROVE  TypeOK'
<1> USE Booleans, GateAssumption DEF GateAssumption, TypeOK, Frames, Chains, StrayCap, BlindCap, Goto,
        java, native, threads, codec, decoder
<1>1. CASE CheckRunning
  BY <1>1 DEF CheckRunning, RequestSyncFrame
<1>2. CASE DiscardNotRunning \/ GateWithholds
  BY <1>2 DEF DiscardNotRunning, GateWithholds, Lose, ChainBecomes
<1>3. CASE ConsumeKeyframeRequest
  BY <1>3 DEF ConsumeKeyframeRequest
<1>4. CASE ReinjectCsd
  BY <1>4 DEF ReinjectCsd, Accept, Lose, ChainBecomes
<1>5. CASE RequestIdr
  BY <1>5 DEF RequestIdr, RequestSyncFrame
<1>6. CASE GatePasses
  BY <1>6 DEF GatePasses
<1>7. CASE PushNoAppsrc \/ PushFlowDrop \/ ReleaseBuffer
  BY <1>7 DEF PushNoAppsrc, PushFlowDrop, ReleaseBuffer, ChainBecomes
<1>8. CASE PushToAppsrc
  BY <1>8 DEF PushToAppsrc, Accept, Lose, ChainBecomes
<1> QED
  BY <1>1, <1>2, <1>3, <1>4, <1>5, <1>6, <1>7, <1>8 DEF Callback, Push

LEMMA LifecycleTypeOK ==
  ASSUME TypeOK, Lifecycle
  PROVE  TypeOK'
<1> USE Booleans, GateAssumption DEF GateAssumption, TypeOK, Frames, Chains, StrayCap, BlindCap,
        java, native, handler, threads, codec, decoder
<1>1. CASE StartEncoder \/ StartPipeline \/ StartFails \/ SetRunning
  BY <1>1 DEF StartEncoder, StartPipeline, StartFails, SetRunning
<1>2. CASE RestartRelease \/ RestartInit \/ RestartFails
  BY <1>2 DEF RestartRelease, RestartInit, RestartFails, ReleaseEncoder
<1>3. CASE \E fatal \in BOOLEAN : EncoderError(fatal)
  BY <1>3 DEF EncoderError
<1>4. CASE RequestStop \/ StopEnter \/ StopRelease \/ StopDestroy
  BY <1>4 DEF RequestStop, StopEnter, StopRelease, StopDestroy, ReleaseEncoder
<1> QED
  BY <1>1, <1>2, <1>3, <1>4 DEF Lifecycle

LEMMA RtspEventTypeOK ==
  ASSUME TypeOK, RtspEvent
  PROVE  TypeOK'
BY Booleans, GateAssumption DEF GateAssumption, RtspEvent, ClientConnected, MediaConfigure, MediaPlays, MediaCloses,
   MediaUnprepared, NeedData, TypeOK, Chains, StrayCap, BlindCap,
   java, native, handler, threads, codec, decoder

LEMMA NextTypeOK == TypeOK /\ [Next]_vars => TypeOK'
<1> SUFFICES ASSUME TypeOK, [Next]_vars PROVE TypeOK'
  OBVIOUS
<1>1. CASE CallbackThrows
  BY <1>1, Booleans, GateAssumption DEF GateAssumption, CallbackThrows, TypeOK, Frames, Chains, StrayCap, BlindCap
<1>2. CASE UNCHANGED vars
  BY <1>2 DEF TypeOK, vars, java, native, handler, threads, codec, decoder
<1> QED
  BY <1>1, <1>2, DeliverTypeOK, CallbackTypeOK, LifecycleTypeOK, RtspEventTypeOK
     DEF Next

\* In every reachable state each variable has its type; the frame counter stays
\* below the forced-IDR interval.
THEOREM TypeCorrect == Spec => []TypeOK
BY InitTypeOK, NextTypeOK, PTL DEF Spec
-----------------------------------------------------------------------------
(* ChainInv is inductive.  One step per action; each conjunct of ChainInv is    *)
(* named where an action can disturb it.                                      *)

LEMMA InitChainInv == Init => ChainInv
BY DEF Init, ChainInv, ThreadInv, CodecInv, CsdInv, RepairInv, StrayInv, Streaming,
   Stopping, IdrAhead, InHand, RepairArmed

LEMMA DeliverChainInv ==
  ASSUME TypeOK, ChainInv, NEW f \in Frames, Deliver(f)
  PROVE  ChainInv'
<1> USE DEF Deliver, CanEmit, Emitted, TypeOK, ChainInv, Frames, Streaming, Stopping,
            IdrAhead, InHand, RepairArmed, native, threads, decoder
<1>1. ThreadInv'
  BY DEF ThreadInv
<1>2. CodecInv'
  BY DEF CodecInv
<1>3. CsdInv'
  BY DEF CsdInv
<1>4. RepairInv'
  BY DEF RepairInv
<1>5. StrayInv'
  BY DEF StrayInv, CodecInv
<1> QED
  BY <1>1, <1>2, <1>3, <1>4, <1>5

LEMMA CallbackChainInv ==
  ASSUME TypeOK, ChainInv, Callback
  PROVE  ChainInv'
<1> USE DEF TypeOK, ChainInv, ThreadInv, CodecInv, CsdInv, RepairInv, StrayInv, Frames,
            Chains, StrayCap, BlindCap, Streaming, Stopping, IdrAhead, InHand, RepairArmed, Goto,
            java, native, threads, codec, decoder
<1>1. CASE CheckRunning
  BY <1>1 DEF CheckRunning, RequestSyncFrame
<1>2. CASE DiscardNotRunning
  BY <1>2 DEF DiscardNotRunning, Lose, ChainBecomes
<1>3. CASE ConsumeKeyframeRequest
  BY <1>3 DEF ConsumeKeyframeRequest
<1>4. CASE ReinjectCsd
  BY <1>4 DEF ReinjectCsd, Accept, Lose, ChainBecomes
<1>5. CASE RequestIdr
  BY <1>5 DEF RequestIdr, RequestSyncFrame
<1>6. CASE GatePasses
  BY <1>6 DEF GatePasses
<1>7. CASE GateWithholds
  BY <1>7 DEF GateWithholds, Lose, ChainBecomes
<1>8. CASE PushNoAppsrc
  BY <1>8 DEF PushNoAppsrc
<1>9. CASE PushFlowDrop
  BY <1>9 DEF PushFlowDrop, ChainBecomes
<1>10. CASE PushToAppsrc
  BY <1>10 DEF PushToAppsrc, Accept, Lose, ChainBecomes
<1>11. CASE ReleaseBuffer
  BY <1>11 DEF ReleaseBuffer
<1> QED
  BY <1>1, <1>2, <1>3, <1>4, <1>5, <1>6, <1>7, <1>8, <1>9, <1>10, <1>11
     DEF Callback, Push

LEMMA LifecycleChainInv ==
  ASSUME TypeOK, ChainInv, Lifecycle
  PROVE  ChainInv'
<1> USE DEF TypeOK, ChainInv, ThreadInv, CodecInv, CsdInv, RepairInv, StrayInv, Frames,
            Chains, Streaming, Stopping, IdrAhead, InHand, RepairArmed,
            java, native, handler, threads, codec, decoder
<1>1. CASE StartEncoder
  BY <1>1 DEF StartEncoder
<1>2. CASE StartPipeline
  BY <1>2 DEF StartPipeline
<1>3. CASE StartFails
  BY <1>3 DEF StartFails
<1>4. CASE SetRunning
  BY <1>4 DEF SetRunning
<1>5. CASE RestartRelease
  BY <1>5 DEF RestartRelease, ReleaseEncoder
<1>6. CASE RestartInit
  BY <1>6 DEF RestartInit
<1>7. CASE RestartFails
  BY <1>7 DEF RestartFails
<1>8. ASSUME NEW fatal \in BOOLEAN, EncoderError(fatal)
      PROVE  ChainInv'
  BY <1>8 DEF EncoderError, Alive
<1>9. CASE RequestStop
  BY <1>9 DEF RequestStop
<1>10. CASE StopEnter
  BY <1>10 DEF StopEnter
<1>11. CASE StopRelease
  BY <1>11 DEF StopRelease, ReleaseEncoder
<1>12. CASE StopDestroy
  BY <1>12 DEF StopDestroy
<1> QED
  BY <1>1, <1>2, <1>3, <1>4, <1>5, <1>6, <1>7, <1>8, <1>9, <1>10, <1>11, <1>12
     DEF Lifecycle

LEMMA RtspEventChainInv ==
  ASSUME TypeOK, ChainInv, RtspEvent
  PROVE  ChainInv'
<1> USE DEF TypeOK, ChainInv, ThreadInv, CodecInv, CsdInv, RepairInv, StrayInv, Frames,
            Chains, Streaming, Stopping, IdrAhead, InHand, RepairArmed,
            java, native, handler, threads, codec, decoder
<1>1. CASE ClientConnected
  BY <1>1 DEF ClientConnected
<1>2. CASE MediaConfigure
  BY <1>2 DEF MediaConfigure
<1>3. CASE MediaPlays \/ MediaCloses \/ MediaUnprepared \/ NeedData
  BY <1>3 DEF MediaPlays, MediaCloses, MediaUnprepared, NeedData
<1> QED
  BY <1>1, <1>2, <1>3 DEF RtspEvent

LEMMA NextChainInv == TypeOK /\ ChainInv /\ [Next]_vars => ChainInv'
<1> SUFFICES ASSUME TypeOK, ChainInv, [Next]_vars PROVE ChainInv'
  OBVIOUS
<1> USE DEF ChainInv, ThreadInv, CodecInv, CsdInv, RepairInv, StrayInv, Streaming,
            Stopping, IdrAhead, InHand, RepairArmed
<1>1. CASE CallbackThrows
  BY <1>1 DEF CallbackThrows
<1>2. CASE UNCHANGED vars
  BY <1>2 DEF vars, java, native, handler, threads, codec, decoder
<1> QED
  BY <1>1, <1>2, DeliverChainInv, CallbackChainInv, LifecycleChainInv, RtspEventChainInv
     DEF Next

-----------------------------------------------------------------------------
(* SightInv and BlindInv, which bound the P-frames of a swallowed stream.     *)

LEMMA InitBlindInv == Init => SightInv /\ BlindInv
BY GateAssumption DEF GateAssumption, Init, SightInv, BlindInv, Streaming, Stopping, InHand,
   Alive, HoldsCounted, One, Spent

\* Only the encoder's own progress moves the chain here.
LEMMA DeliverBlindInv ==
  ASSUME TypeOK, GateInv, NEW f \in Frames, Deliver(f)
  PROVE  SightInv' /\ BlindInv'
<1> USE GateAssumption DEF GateAssumption, Deliver, CanEmit, Emitted, TypeOK, GateInv,
        ChainInv, Frames, Streaming, Stopping, InHand, native, threads, decoder
<1>1. codecLive /\ pc = "idle" /\ ~HoldsCounted /\ ~HoldsCounted'
  BY DEF CodecInv, HoldsCounted
<1>2. SightInv'
  BY <1>1 DEF SightInv, Alive
<1>3. BlindInv'
  BY <1>1 DEF BlindInv, SightInv, One, Spent, BlindCap
<1> QED
  BY <1>2, <1>3

LEMMA CallbackBlindInv ==
  ASSUME TypeOK, GateInv, Callback
  PROVE  SightInv' /\ BlindInv'
<1> USE GateAssumption DEF GateAssumption, TypeOK, GateInv, ChainInv, ThreadInv, CodecInv,
        SightInv, BlindInv, Frames, Chains, BlindCap, Streaming, Stopping, InHand, Alive,
        HoldsCounted, One, Spent, Goto, java, native, threads, codec, decoder
<1>1. CASE CheckRunning
  BY <1>1 DEF CheckRunning, RequestSyncFrame
<1>2. CASE DiscardNotRunning
  BY <1>2 DEF DiscardNotRunning, Lose, ChainBecomes
<1>3. CASE ConsumeKeyframeRequest
  BY <1>3 DEF ConsumeKeyframeRequest
<1>4. CASE ReinjectCsd
  BY <1>4 DEF ReinjectCsd, Accept, Lose, ChainBecomes, CsdInv
<1>5. CASE RequestIdr
  BY <1>5 DEF RequestIdr, RequestSyncFrame
<1>6. CASE GatePasses
  BY <1>6 DEF GatePasses
<1>7. CASE GateWithholds
  BY <1>7 DEF GateWithholds, Lose, ChainBecomes
<1>8. CASE PushNoAppsrc
  BY <1>8 DEF PushNoAppsrc
<1>9. CASE PushFlowDrop
  BY <1>9 DEF PushFlowDrop, ChainBecomes
<1>10. CASE PushToAppsrc
  BY <1>10 DEF PushToAppsrc, Accept, Lose, ChainBecomes, CsdInv
<1>11. CASE ReleaseBuffer
  BY <1>11 DEF ReleaseBuffer
<1> QED
  BY <1>1, <1>2, <1>3, <1>4, <1>5, <1>6, <1>7, <1>8, <1>9, <1>10, <1>11
     DEF Callback, Push

LEMMA LifecycleBlindInv ==
  ASSUME TypeOK, GateInv, Lifecycle
  PROVE  SightInv' /\ BlindInv'
<1> USE GateAssumption DEF GateAssumption, TypeOK, GateInv, ChainInv, ThreadInv, CodecInv,
        SightInv, BlindInv, Frames, BlindCap, Streaming, Stopping, InHand, Alive,
        HoldsCounted, One, Spent, java, native, handler, threads, codec, decoder
<1>1. CASE StartEncoder
  BY <1>1 DEF StartEncoder
<1>2. CASE StartPipeline
  BY <1>2 DEF StartPipeline
<1>3. CASE StartFails
  BY <1>3 DEF StartFails
<1>4. CASE SetRunning
  BY <1>4 DEF SetRunning
<1>5. CASE RestartRelease
  <2>1. blind' = 0 /\ encoder' = "none" /\ pc' = pc /\ frame' = frame
    BY <1>5 DEF RestartRelease, ReleaseEncoder
  <2>2. codecLive' => ~HoldsCounted'
    BY <1>5, <2>1 DEF RestartRelease, ReleaseEncoder
  <2>3. SightInv'
    BY <2>1
  <2>4. BlindInv'
    BY <2>1, <2>2
  <2> QED
    BY <2>3, <2>4
<1>6. CASE RestartInit
  BY <1>6 DEF RestartInit
<1>7. CASE RestartFails
  BY <1>7 DEF RestartFails
<1>8. ASSUME NEW fatal \in BOOLEAN, EncoderError(fatal)
      PROVE  SightInv' /\ BlindInv'
  BY <1>8 DEF EncoderError
<1>9. CASE RequestStop
  BY <1>9 DEF RequestStop
<1>10. CASE StopEnter
  BY <1>10 DEF StopEnter
<1>11. CASE StopRelease
  BY <1>11 DEF StopRelease, ReleaseEncoder
<1>12. CASE StopDestroy
  BY <1>12 DEF StopDestroy
<1> QED
  BY <1>1, <1>2, <1>3, <1>4, <1>5, <1>6, <1>7, <1>8, <1>9, <1>10, <1>11, <1>12
     DEF Lifecycle

LEMMA RtspEventBlindInv ==
  ASSUME TypeOK, GateInv, RtspEvent
  PROVE  SightInv' /\ BlindInv'
<1> USE GateAssumption DEF GateAssumption, TypeOK, GateInv, ChainInv, ThreadInv, CodecInv,
        CsdInv, SightInv, BlindInv, Frames, BlindCap, Streaming, Stopping, InHand, Alive,
        HoldsCounted, One, Spent, java, native, handler, threads, codec, decoder
<1>1. CASE ClientConnected
  BY <1>1 DEF ClientConnected
<1>2. CASE MediaConfigure
  BY <1>2 DEF MediaConfigure
<1>3. CASE MediaPlays \/ MediaCloses \/ MediaUnprepared \/ NeedData
  BY <1>3 DEF MediaPlays, MediaCloses, MediaUnprepared, NeedData
<1> QED
  BY <1>1, <1>2, <1>3 DEF RtspEvent

LEMMA InitGateInv == Init => GateInv
BY InitChainInv, InitBlindInv DEF GateInv

LEMMA NextGateInv == TypeOK /\ GateInv /\ [Next]_vars => GateInv'
<1> SUFFICES ASSUME TypeOK, GateInv, [Next]_vars PROVE GateInv'
  OBVIOUS
<1>1. ChainInv'
  BY NextChainInv DEF GateInv
<1>2. SightInv' /\ BlindInv'
  <2>1. CASE CallbackThrows
    BY <2>1, GateAssumption DEF GateAssumption, CallbackThrows, SightInv, BlindInv, Streaming,
       Stopping, InHand, Alive, HoldsCounted, One, Spent
  <2>2. CASE UNCHANGED vars
    BY <2>2 DEF vars, java, native, handler, threads, codec, decoder, GateInv, SightInv,
       BlindInv, Streaming, Stopping, InHand, Alive, HoldsCounted, One, Spent
  <2> QED
    BY <2>1, <2>2, DeliverBlindInv, CallbackBlindInv, LifecycleBlindInv, RtspEventBlindInv
       DEF Next
<1> QED
  BY <1>1, <1>2 DEF GateInv

\* GateInv holds in every reachable state.
THEOREM GateInvHolds == Spec => []GateInv
BY InitTypeOK, NextTypeOK, InitGateInv, NextGateInv, PTL DEF Spec

-----------------------------------------------------------------------------
\* Whenever the decoder cannot use the next P-frame, a keyframe request is armed, a
\* first IDR is coming, or stop() is tearing down: no interleaving of the callback,
\* the RTSP events and the monitor's threads loses a request.
THEOREM RepairAlwaysArmed == Spec => []BrokenChainIsRepaired
<1>1. GateInv => BrokenChainIsRepaired
  BY DEF GateInv, ChainInv, RepairInv, BrokenChainIsRepaired
<1> QED
  BY <1>1, GateInvHolds, PTL

\* Of a stream that waits for its first IDR, or for the one after a lost P-frame, at most
\* one P-frame per media gets past the gate.
THEOREM OneStrayAtMost == Spec => []AtMostOneStray
<1>1. GateInv => AtMostOneStray
  BY DEF GateInv, ChainInv, StrayInv, AtMostOneStray
<1> QED
  BY <1>1, GateInvHolds, PTL

\* A swallowed stream that has its parameter sets takes at most one forced-IDR interval of
\* P-frames from an encoder, and those the encoder held when the IDR was asked for.
THEOREM SwallowedWithinInterval == Spec => []SwallowedIsShort
<1>1. GateInv => SwallowedIsShort
  BY DEF GateInv, BlindInv, SwallowedIsShort
<1> QED
  BY <1>1, GateInvHolds, PTL

\* Once a frame of the GOP is lost, no later P-frame of it gets past the gate.
THEOREM GapStopsStrays == Spec => NoStrayAfterGap
<1>1. ASSUME TypeOK, GateInv, [Next]_vars, chain = "gap", codecLive
      PROVE  strays' <= strays
  <2> USE <1>1 DEF TypeOK, StrayCap, java, native, handler, threads, codec, decoder
  <2>1. ASSUME NEW f \in Frames, Deliver(f)
        PROVE  strays' <= strays
    BY <2>1 DEF Deliver
  <2>2. CASE PushToAppsrc
    BY <2>2 DEF PushToAppsrc, Accept, Lose, ChainBecomes, GateInv, ChainInv, StrayInv,
       ThreadInv, Streaming
  <2>3. CASE Callback /\ ~PushToAppsrc
    BY <2>3 DEF Callback, Push, CheckRunning, DiscardNotRunning, ConsumeKeyframeRequest,
       ReinjectCsd, RequestIdr, GatePasses, GateWithholds, PushNoAppsrc, PushFlowDrop,
       ReleaseBuffer, Accept, Lose, ChainBecomes
  <2>4. CASE CallbackThrows
    BY <2>4 DEF CallbackThrows
  <2>5. ASSUME NEW fatal \in BOOLEAN, EncoderError(fatal)
        PROVE  strays' = strays
    BY <2>5 DEF EncoderError
  <2>6. CASE StartEncoder \/ StartPipeline \/ StartFails \/ SetRunning
    <3>1. strays' = strays
      BY <2>6 DEF StartEncoder, StartPipeline, StartFails, SetRunning
    <3> QED
      BY <3>1
  <2>7. CASE RestartRelease \/ RestartInit \/ RestartFails
    <3>1. strays' = strays
      BY <2>7 DEF RestartRelease, RestartInit, RestartFails
    <3> QED
      BY <3>1
  <2>8. CASE RequestStop \/ StopEnter \/ StopRelease \/ StopDestroy
    <3>1. strays' = strays
      BY <2>8 DEF RequestStop, StopEnter, StopRelease, StopDestroy
    <3> QED
      BY <3>1
  <2>9. CASE RtspEvent
    <3>1. strays' = strays \/ strays' = 0
      BY <2>9 DEF RtspEvent, ClientConnected, MediaConfigure, MediaPlays, MediaCloses,
         MediaUnprepared, NeedData
    <3> QED
      BY <3>1
  <2>10. CASE UNCHANGED vars
    BY <2>10 DEF vars
  <2> QED
    BY <2>1, <2>2, <2>3, <2>4, <2>5, <2>6, <2>7, <2>8, <2>9, <2>10 DEF Next, Lifecycle
<1>2. TypeOK /\ GateInv /\ [Next]_vars
        => [chain = "gap" /\ codecLive => strays' <= strays]_vars
  BY <1>1
<1> QED
  BY <1>2, TypeCorrect, GateInvHolds, PTL DEF Spec, NoStrayAfterGap
=============================================================================
