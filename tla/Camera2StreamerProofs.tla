----------------------- MODULE Camera2StreamerProofs -----------------------
(***************************************************************************)
(* The invariants of Camera2Streamer, proved for any number of camera      *)
(* threads, any restart limit and any bounds.                              *)
(***************************************************************************)
EXTENDS Camera2Streamer, TLAPS

-----------------------------------------------------------------------------
(* Type correctness. *)

LEMMA Booleans == \A b : (b = TRUE \/ b = FALSE) => b \in BOOLEAN
OBVIOUS

\* Everything but the mailboxes.
PlainTypeOK ==
  /\ mRunning \in BOOLEAN /\ mEncoder \in {"none", "live", "dead"}
  /\ mCameraDevice \in Cams \union {NoCam} /\ mCaptureSession \in Cams \union {NoCam}
  /\ mCameraThread \in Cams \union {NoCam} /\ mCameraHandler \in Cams \union {NoCam}
  /\ mGstPipelineStarted \in BOOLEAN /\ mRestartCount \in Nat
  /\ monitor \in {"free"} \union StartPhases \union RestartPhases \union StopPhases
  /\ latch \in BOOLEAN
  /\ pendingRestarts \in Nat /\ pendingStops \in Nat
  /\ looper \in [Cams -> {"none", "alive", "quit"}]
  /\ device \in [Cams -> {"closed", "open", "taken"}]
  /\ lostLive \in Nat /\ lostDead \in Nat

InboxTypeOK == inbox \in [Cams -> Seq(Messages)]

LEMMA TypeParts == TypeOK <=> PlainTypeOK /\ InboxTypeOK
BY DEF TypeOK, PlainTypeOK, InboxTypeOK

\* A message put at the end of a mailbox, or none.
LEMMA AppendTyped ==
  ASSUME NEW q \in Seq(Messages), NEW m \in Messages
  PROVE  Append(q, m) \in Seq(Messages)
OBVIOUS

LEMMA SingletonTyped ==
  ASSUME NEW m \in Messages
  PROVE  <<m>> \in Seq(Messages)
OBVIOUS

LEMMA LateTyped ==
  ASSUME NEW q \in Seq(Messages)
  PROVE  /\ [i \in 1 .. Len(q) |-> Late(q[i])] \in Seq(Messages)
         /\ Len([i \in 1 .. Len(q) |-> Late(q[i])]) = Len(q)
<1> DEFINE r == [i \in 1 .. Len(q) |-> Late(q[i])]
<1>1. \A i \in 1 .. Len(q) : Late(q[i]) \in Messages
  BY DEF Late, Messages
<1>2. r \in [1 .. Len(q) -> Messages]
  BY <1>1
<1>3. Len(q) \in Nat
  OBVIOUS
<1> QED
  BY <1>2, <1>3

LEMMA PostTyped ==
  ASSUME InboxTypeOK, NEW c, NEW m \in Messages
  PROVE  Post(c, m) \in [Cams -> Seq(Messages)]
<1>1. ASSUME NEW d \in Cams
      PROVE  (IF d = c /\ looper[c] = "alive" THEN Append(inbox[c], m) ELSE inbox[d]) \in Seq(Messages)
  <2>1. inbox[d] \in Seq(Messages)
    BY DEF InboxTypeOK
  <2>2. Append(inbox[d], m) \in Seq(Messages)
    BY <2>1, AppendTyped
  <2> QED
    BY <2>1, <2>2
<1> QED
  BY <1>1 DEF Post

LEMMA MonitorStepInbox ==
  ASSUME PlainTypeOK, InboxTypeOK, MonitorStep
  PROVE  InboxTypeOK'
<1>1. CASE \E c \in Cams : OpenCamera(c)
  <2>1. PICK c \in Cams : OpenCamera(c)
    BY <1>1
  <2>2. /\ <<"opened">> \in Seq(Messages) /\ <<"error">> \in Seq(Messages)
    BY SingletonTyped DEF Messages
  <2>3. \A d \in Cams : inbox[d] \in Seq(Messages) /\ Append(inbox[d], "disconnected") \in Seq(Messages)
    BY AppendTyped DEF InboxTypeOK, Messages
  <2> QED
    BY <2>1, <2>2, <2>3 DEF OpenCamera, InboxTypeOK
<1>2. CASE CreateCaptureSession
  <2>1. \A m \in {"configured", "configureFailed"} : Post(mCameraHandler, m) \in [Cams -> Seq(Messages)]
    BY PostTyped DEF Messages
  <2> QED
    BY <1>2, <2>1 DEF CreateCaptureSession, InboxTypeOK
<1>3. CASE SessionAwaited
  <2>1. \A c \in Cams : [i \in 1 .. Len(inbox[c]) |-> Late(inbox[c][i])] \in Seq(Messages)
    BY LateTyped DEF InboxTypeOK
  <2> QED
    BY <1>3, <2>1 DEF SessionAwaited, InboxTypeOK
<1>4. CASE InitEncoder \/ (\E c \in Cams : OpenCameraThrows(c)) \/ CameraAwaited
           \/ CreateCaptureSessionThrows \/ StartPipeline \/ StartAudioThrows
           \/ SetRunning \/ ReleaseCamera \/ ReleaseEncoder \/ DestroyPipeline
  <2>1. inbox' = inbox
    BY <1>4 DEF InitEncoder, OpenCameraThrows, CameraAwaited, CreateCaptureSessionThrows,
       StartPipeline, StartAudioThrows, SetRunning, ReleaseCamera, ReleaseEncoder,
       DestroyPipeline, camera
  <2> QED
    BY <2>1 DEF InboxTypeOK
<1> QED
  BY <1>1, <1>2, <1>3, <1>4 DEF MonitorStep

LEMMA ReceiveInbox ==
  ASSUME InboxTypeOK, NEW c \in Cams, NEW m, Receive(c, m)
  PROVE  InboxTypeOK'
<1>1. inbox[c] \in Seq(Messages) /\ inbox[c] # <<>>
  BY DEF InboxTypeOK, Receive
<1>2. Tail(inbox[c]) \in Seq(Messages)
  BY <1>1
<1> QED
  BY <1>2 DEF Receive, InboxTypeOK

LEMMA CallbackReceives ==
  ASSUME NEW c \in Cams, CameraCallback(c)
  PROVE  \E m \in Messages : Receive(c, m)
BY DEF CameraCallback, OnOpened, OnDisconnected, OnCameraError, OnConfigured,
   OnLateConfigured, OnConfigureFailed, OnLateFailed, Messages

LEMMA NextInbox ==
  ASSUME PlainTypeOK, InboxTypeOK, [Next]_vars
  PROVE  InboxTypeOK'
<1>1. CASE MonitorStep
  BY <1>1, MonitorStepInbox
<1>2. CASE \E c \in Cams : CameraCallback(c)
  BY <1>2, CallbackReceives, ReceiveInbox
<1>3. CASE \E c \in Cams : CameraTaken(c)
  <2>1. \A c \in Cams, m \in {"disconnected", "error"} : Post(c, m) \in [Cams -> Seq(Messages)]
    BY PostTyped DEF Messages
  <2> QED
    BY <1>3, <2>1 DEF CameraTaken, InboxTypeOK
<1>4. CASE \E c \in Cams : SessionThrows(c)
  <2>1. <<>> \in Seq(Messages)
    OBVIOUS
  <2> QED
    BY <1>4, <2>1 DEF SessionThrows, InboxTypeOK
<1>5. CASE \/ Start \/ Restart \/ ClientStop \/ ErrorStop
           \/ (\E fatal \in BOOLEAN : EncoderError(fatal)) \/ UNCHANGED vars
  <2>1. inbox' = inbox
    BY <1>5 DEF Start, Restart, ClientStop, ErrorStop, Stop, EncoderError, vars, camera
  <2> QED
    BY <2>1 DEF InboxTypeOK
<1> QED
  BY <1>1, <1>2, <1>3, <1>4, <1>5 DEF Next

LEMMA NextPlain ==
  ASSUME PlainTypeOK, [Next]_vars
  PROVE  PlainTypeOK'
<1> USE Booleans DEF PlainTypeOK, Goto, StartPhases, RestartPhases, StopPhases, capture,
        threads, camera, lost
<1>1. CASE Start \/ Restart \/ ClientStop \/ ErrorStop
  BY <1>1 DEF Start, Restart, ClientStop, ErrorStop, Stop
<1>2. CASE InitEncoder
  BY <1>2 DEF InitEncoder, Overwrite, Throw
<1>3. CASE \E c \in Cams : OpenCamera(c) \/ OpenCameraThrows(c)
  BY <1>3 DEF OpenCamera, OpenCameraThrows, Throw
<1>4. CASE CameraAwaited \/ CreateCaptureSession \/ CreateCaptureSessionThrows
  BY <1>4 DEF CameraAwaited, CreateCaptureSession, CreateCaptureSessionThrows, Throw
<1>5. CASE SessionAwaited
  BY <1>5 DEF SessionAwaited, AfterSession, Throw
<1>6. CASE StartPipeline \/ StartAudioThrows \/ SetRunning
  BY <1>6 DEF StartPipeline, StartAudioThrows, SetRunning, Throw
<1>7. CASE ReleaseCamera \/ ReleaseEncoder \/ DestroyPipeline
  BY <1>7 DEF ReleaseCamera, ReleaseEncoder, DestroyPipeline
<1>8. CASE \E fatal \in BOOLEAN : EncoderError(fatal)
  <2>1. PICK fatal \in BOOLEAN : EncoderError(fatal)
    BY <1>8
  <2>2. mEncoder' \in {"none", "live", "dead"} /\ lostLive' \in Nat /\ lostDead' \in Nat
    BY <2>1 DEF EncoderError, FailingCodec
  <2> QED
    BY <2>1, <2>2 DEF EncoderError
<1>9. CASE \E c \in Cams : CameraTaken(c)
  BY <1>9 DEF CameraTaken
<1>10. CASE \E c \in Cams : CameraCallback(c)
  BY <1>10 DEF CameraCallback, OnOpened, OnDisconnected, OnCameraError, OnConfigured,
     OnLateConfigured, OnConfigureFailed, OnLateFailed, Receive, CountsOpening
<1>11. CASE \E c \in Cams : SessionThrows(c)
  BY <1>11 DEF SessionThrows
<1>12. CASE UNCHANGED vars
  BY <1>12 DEF vars
<1> QED
  BY <1>1, <1>2, <1>3, <1>4, <1>5, <1>6, <1>7, <1>8, <1>9, <1>10, <1>11, <1>12
     DEF Next, MonitorStep

-----------------------------------------------------------------------------
(* The conjuncts of StreamerInv, one lemma each. *)

LEMMA NextPhase ==
  ASSUME PlainTypeOK, PhaseInv, [Next]_vars
  PROVE  PhaseInv'
<1> USE StreamerAssumption DEF StreamerAssumption, PhaseInv, PlainTypeOK, Goto, NothingToRelease, Pending,
        StartPhases, RestartPhases, StopPhases, capture, threads, camera, lost
<1>1. CASE Start \/ Restart \/ ClientStop \/ ErrorStop
  BY <1>1 DEF Start, Restart, ClientStop, ErrorStop, Stop
<1>2. CASE InitEncoder
  BY <1>2 DEF InitEncoder, Overwrite, Throw
<1>3. CASE \E c \in Cams : OpenCamera(c) \/ OpenCameraThrows(c)
  BY <1>3 DEF OpenCamera, OpenCameraThrows, Throw
<1>4. CASE CameraAwaited \/ CreateCaptureSession \/ CreateCaptureSessionThrows
  BY <1>4 DEF CameraAwaited, CreateCaptureSession, CreateCaptureSessionThrows, Throw
<1>5. CASE SessionAwaited
  BY <1>5 DEF SessionAwaited, AfterSession, Throw
<1>6. CASE StartPipeline \/ StartAudioThrows \/ SetRunning
  BY <1>6 DEF StartPipeline, StartAudioThrows, SetRunning, Throw
<1>7. CASE ReleaseCamera \/ ReleaseEncoder \/ DestroyPipeline
  BY <1>7 DEF ReleaseCamera, ReleaseEncoder, DestroyPipeline
<1>8. CASE \E fatal \in BOOLEAN : EncoderError(fatal)
  BY <1>8 DEF EncoderError, FailingCodec
<1>9. CASE \E c \in Cams : CameraTaken(c)
  BY <1>9 DEF CameraTaken
<1>10. CASE \E c \in Cams : CameraCallback(c)
  BY <1>10 DEF CameraCallback, OnOpened, OnDisconnected, OnCameraError, OnConfigured,
     OnLateConfigured, OnConfigureFailed, OnLateFailed, Receive, CountsOpening
<1>11. CASE \E c \in Cams : SessionThrows(c)
  BY <1>11 DEF SessionThrows
<1>12. CASE UNCHANGED vars
  BY <1>12 DEF vars
<1> QED
  BY <1>1, <1>2, <1>3, <1>4, <1>5, <1>6, <1>7, <1>8, <1>9, <1>10, <1>11, <1>12
     DEF Next, MonitorStep

LEMMA NextLooper ==
  ASSUME PlainTypeOK, PhaseInv, LooperInv, [Next]_vars
  PROVE  LooperInv'
<1> USE StreamerAssumption DEF StreamerAssumption, LooperInv, PhaseInv, PlainTypeOK, Goto, NothingToRelease, Pending,
        StartPhases, RestartPhases, StopPhases, capture, threads, camera, lost
<1>1. CASE Start \/ Restart \/ ClientStop \/ ErrorStop
  BY <1>1 DEF Start, Restart, ClientStop, ErrorStop, Stop
<1>2. CASE InitEncoder
  BY <1>2 DEF InitEncoder, Overwrite, Throw
<1>3. CASE \E c \in Cams : OpenCamera(c) \/ OpenCameraThrows(c)
  BY <1>3 DEF OpenCamera, OpenCameraThrows, Throw
<1>4. CASE CameraAwaited \/ CreateCaptureSession \/ CreateCaptureSessionThrows
  BY <1>4 DEF CameraAwaited, CreateCaptureSession, CreateCaptureSessionThrows, Throw
<1>5. CASE SessionAwaited
  BY <1>5 DEF SessionAwaited, AfterSession, Throw
<1>6. CASE StartPipeline \/ StartAudioThrows \/ SetRunning
  BY <1>6 DEF StartPipeline, StartAudioThrows, SetRunning, Throw
<1>7. CASE ReleaseCamera \/ ReleaseEncoder \/ DestroyPipeline
  BY <1>7 DEF ReleaseCamera, ReleaseEncoder, DestroyPipeline
<1>8. CASE \E fatal \in BOOLEAN : EncoderError(fatal)
  BY <1>8 DEF EncoderError, FailingCodec
<1>9. CASE \E c \in Cams : CameraTaken(c)
  BY <1>9 DEF CameraTaken
<1>10. CASE \E c \in Cams : CameraCallback(c)
  BY <1>10 DEF CameraCallback, OnOpened, OnDisconnected, OnCameraError, OnConfigured,
     OnLateConfigured, OnConfigureFailed, OnLateFailed, Receive, CountsOpening
<1>11. CASE \E c \in Cams : SessionThrows(c)
  BY <1>11 DEF SessionThrows
<1>12. CASE UNCHANGED vars
  BY <1>12 DEF vars
<1> QED
  BY <1>1, <1>2, <1>3, <1>4, <1>5, <1>6, <1>7, <1>8, <1>9, <1>10, <1>11, <1>12
     DEF Next, MonitorStep

LEMMA NextPair ==
  ASSUME PlainTypeOK, PhaseInv, LooperInv, PairInv, [Next]_vars
  PROVE  PairInv'
<1> USE StreamerAssumption DEF StreamerAssumption, PairInv, PhaseInv, PlainTypeOK, Goto, NothingToRelease, Pending,
        StartPhases, RestartPhases, StopPhases, capture, threads, camera, lost
<1>1. CASE Start \/ Restart \/ ClientStop \/ ErrorStop
  BY <1>1 DEF Start, Restart, ClientStop, ErrorStop, Stop
<1>2. CASE InitEncoder
  BY <1>2 DEF InitEncoder, Overwrite, Throw
<1>3. CASE \E c \in Cams : OpenCamera(c) \/ OpenCameraThrows(c)
  BY <1>3 DEF OpenCamera, OpenCameraThrows, Throw
<1>4. CASE CameraAwaited \/ CreateCaptureSession \/ CreateCaptureSessionThrows
  BY <1>4 DEF CameraAwaited, CreateCaptureSession, CreateCaptureSessionThrows, Throw
<1>5. CASE SessionAwaited
  BY <1>5 DEF SessionAwaited, AfterSession, Throw
<1>6. CASE StartPipeline \/ StartAudioThrows \/ SetRunning
  BY <1>6 DEF StartPipeline, StartAudioThrows, SetRunning, Throw
<1>7. CASE ReleaseCamera \/ ReleaseEncoder \/ DestroyPipeline
  BY <1>7 DEF ReleaseCamera, ReleaseEncoder, DestroyPipeline
<1>8. CASE \E fatal \in BOOLEAN : EncoderError(fatal)
  BY <1>8 DEF EncoderError, FailingCodec
<1>9. CASE \E c \in Cams : CameraTaken(c)
  BY <1>9 DEF CameraTaken
<1>10. CASE \E c \in Cams : CameraCallback(c)
  BY <1>10 DEF CameraCallback, OnOpened, OnDisconnected, OnCameraError, OnConfigured,
     OnLateConfigured, OnConfigureFailed, OnLateFailed, Receive, CountsOpening
<1>11. CASE \E c \in Cams : SessionThrows(c)
  BY <1>11 DEF SessionThrows
<1>12. CASE UNCHANGED vars
  BY <1>12 DEF vars
<1> QED
  BY <1>1, <1>2, <1>3, <1>4, <1>5, <1>6, <1>7, <1>8, <1>9, <1>10, <1>11, <1>12
     DEF Next, MonitorStep

LEMMA NextKeeper ==
  ASSUME PlainTypeOK, PhaseInv, KeeperInv, [Next]_vars
  PROVE  KeeperInv'
<1> USE StreamerAssumption DEF StreamerAssumption, KeeperInv, PhaseInv, PlainTypeOK, Goto, NothingToRelease, Pending,
        StartPhases, RestartPhases, StopPhases, capture, threads, camera, lost
<1>1. CASE Start \/ Restart \/ ClientStop \/ ErrorStop
  BY <1>1 DEF Start, Restart, ClientStop, ErrorStop, Stop
<1>2. CASE InitEncoder
  BY <1>2 DEF InitEncoder, Overwrite, Throw
<1>3. CASE \E c \in Cams : OpenCamera(c) \/ OpenCameraThrows(c)
  BY <1>3 DEF OpenCamera, OpenCameraThrows, Throw
<1>4. CASE CameraAwaited \/ CreateCaptureSession \/ CreateCaptureSessionThrows
  BY <1>4 DEF CameraAwaited, CreateCaptureSession, CreateCaptureSessionThrows, Throw
<1>5. CASE SessionAwaited
  BY <1>5 DEF SessionAwaited, AfterSession, Throw
<1>6. CASE StartPipeline \/ StartAudioThrows \/ SetRunning
  BY <1>6 DEF StartPipeline, StartAudioThrows, SetRunning, Throw
<1>7. CASE ReleaseCamera \/ ReleaseEncoder \/ DestroyPipeline
  BY <1>7 DEF ReleaseCamera, ReleaseEncoder, DestroyPipeline
<1>8. CASE \E fatal \in BOOLEAN : EncoderError(fatal)
  BY <1>8 DEF EncoderError, FailingCodec
<1>9. CASE \E c \in Cams : CameraTaken(c)
  BY <1>9 DEF CameraTaken
<1>10. CASE \E c \in Cams : CameraCallback(c)
  BY <1>10 DEF CameraCallback, OnOpened, OnDisconnected, OnCameraError, OnConfigured,
     OnLateConfigured, OnConfigureFailed, OnLateFailed, Receive, CountsOpening
<1>11. CASE \E c \in Cams : SessionThrows(c)
  BY <1>11 DEF SessionThrows
<1>12. CASE UNCHANGED vars
  BY <1>12 DEF vars
<1> QED
  BY <1>1, <1>2, <1>3, <1>4, <1>5, <1>6, <1>7, <1>8, <1>9, <1>10, <1>11, <1>12
     DEF Next, MonitorStep

LEMMA NextServed ==
  ASSUME PlainTypeOK, PhaseInv, LooperInv, PairInv, AnswerInv, KeeperInv, RunningMeansServed,
         [Next]_vars
  PROVE  RunningMeansServed'
<1> USE StreamerAssumption DEF StreamerAssumption, RunningMeansServed, PhaseInv, LooperInv,
        PairInv, PlainTypeOK, Goto, Pending,
        StartPhases, RestartPhases, StopPhases, capture, threads, camera, lost
<1>1. CASE Start \/ Restart \/ ClientStop \/ ErrorStop
  BY <1>1 DEF Start, Restart, ClientStop, ErrorStop, Stop
<1>2. CASE InitEncoder
  <2>1. mGstPipelineStarted' = mGstPipelineStarted /\ mCameraThread' = mCameraThread
        /\ looper' = looper
    BY <1>2 DEF InitEncoder
  <2>2. CASE monitor = "startEncoder"
    BY <1>2, <2>2 DEF InitEncoder, Throw
  <2>3. CASE monitor = "restartEncoder"
    <3>1. mRunning' = mRunning
      BY <1>2, <2>3 DEF InitEncoder, Throw
    <3>2. \/ monitor' \in RestartPhases
          \/ pendingStops' = pendingStops + 1 /\ pendingRestarts' = pendingRestarts
      BY <1>2, <2>3 DEF InitEncoder, Throw
    <3> QED
      BY <2>1, <3>1, <3>2
  <2> QED
    BY <1>2, <2>2, <2>3 DEF InitEncoder
<1>3. CASE \E c \in Cams : OpenCamera(c) \/ OpenCameraThrows(c)
  BY <1>3 DEF OpenCamera, OpenCameraThrows, Throw
<1>4. CASE CameraAwaited \/ CreateCaptureSession \/ CreateCaptureSessionThrows \/ SessionAwaited
  <2>1. mGstPipelineStarted' = mGstPipelineStarted /\ mCameraThread' = mCameraThread
        /\ looper' = looper
    BY <1>4 DEF CameraAwaited, CreateCaptureSession, CreateCaptureSessionThrows, SessionAwaited
  <2>2. CASE monitor \in StartPhases
    <3>1. ~mRunning'
      BY <1>4, <2>2 DEF CameraAwaited, CreateCaptureSession, CreateCaptureSessionThrows,
         SessionAwaited, AfterSession, Throw
    <3> QED
      BY <3>1
  <2>3. CASE monitor \in RestartPhases
    <3>1. mRunning' = mRunning
      BY <1>4, <2>3 DEF CameraAwaited, CreateCaptureSession, CreateCaptureSessionThrows,
         SessionAwaited, AfterSession, Throw
    <3>2. \/ monitor' \in RestartPhases
          \/ pendingStops' = pendingStops + 1 /\ pendingRestarts' = pendingRestarts
      BY <1>4, <2>3 DEF CameraAwaited, CreateCaptureSession, CreateCaptureSessionThrows,
         SessionAwaited, AfterSession, Throw
    <3> QED
      BY <2>1, <3>1, <3>2
  <2> QED
    BY <1>4, <2>2, <2>3 DEF CameraAwaited, CreateCaptureSession, CreateCaptureSessionThrows,
       SessionAwaited
<1>5. CASE StartPipeline \/ StartAudioThrows
  BY <1>5 DEF StartPipeline, StartAudioThrows, Throw
<1>6. CASE SetRunning
  <2>1. mCameraThread # NoCam
    BY <1>6 DEF SetRunning, AnswerInv
  <2>3. mGstPipelineStarted
    BY <1>6, <2>1 DEF SetRunning
  <2>4. mGstPipelineStarted' = mGstPipelineStarted /\ mCameraThread' = mCameraThread
        /\ looper' = looper
    BY <1>6 DEF SetRunning
  <2>2. mEncoder' = "live" \/ Pending' > 0
    BY <1>6 DEF SetRunning, KeeperInv
  <2> QED
    BY <2>1, <2>2, <2>3, <2>4
<1>7. CASE ReleaseCamera \/ ReleaseEncoder \/ DestroyPipeline
  BY <1>7 DEF ReleaseCamera, ReleaseEncoder, DestroyPipeline
<1>8. CASE \E fatal \in BOOLEAN : EncoderError(fatal)
  BY <1>8 DEF EncoderError, FailingCodec
<1>9. CASE \E c \in Cams : CameraTaken(c)
  BY <1>9 DEF CameraTaken
<1>10. CASE \E c \in Cams : CameraCallback(c)
  <2>1. PICK c \in Cams, m \in Messages : Receive(c, m)
    BY <1>10, CallbackReceives
  <2>2. \A d \in Cams : looper[d] = "alive" => looper'[d] = "alive"
    BY <2>1 DEF Receive
  <2>3. mRunning' = mRunning /\ mGstPipelineStarted' = mGstPipelineStarted
        /\ mCameraThread' = mCameraThread /\ mEncoder' = mEncoder /\ monitor' = monitor
        /\ pendingRestarts' = pendingRestarts /\ pendingStops' = pendingStops
    BY <2>1 DEF Receive
  <2>4. mCameraThread # NoCam => looper'[mCameraThread] = "alive"
    BY <2>2
  <2> QED
    BY <2>3, <2>4
<1>11. CASE \E c \in Cams : SessionThrows(c)
  BY <1>11 DEF SessionThrows
<1>12. CASE UNCHANGED vars
  BY <1>12 DEF vars
<1> QED
  BY <1>1, <1>2, <1>3, <1>4, <1>5, <1>6, <1>7, <1>8, <1>9, <1>10, <1>11, <1>12
     DEF Next, MonitorStep

LEMMA AnsweredOnly ==
  ASSUME InboxTypeOK, NEW c \in Cams, NEW m, Receive(c, m), NEW d \in Cams, Answered(d)'
  PROVE  Answered(d)
<1>1. CASE d = c
  <2>1. inbox'[c] = Tail(inbox[c]) /\ inbox[c] \in Seq(Messages) /\ inbox[c] # <<>>
    BY DEF Receive, InboxTypeOK
  <2>2. PICK i \in 1 .. Len(inbox'[c]) : inbox'[c][i] \in {"configured", "configureFailed"}
    BY <1>1 DEF Answered
  <2>3. i + 1 \in 1 .. Len(inbox[c]) /\ inbox'[c][i] = inbox[c][i + 1]
    BY <2>1, <2>2
  <2> QED
    BY <1>1, <2>2, <2>3 DEF Answered
<1>2. CASE d # c
  BY <1>2 DEF Receive, Answered, InboxTypeOK
<1> QED
  BY <1>1, <1>2

\* A message that is no such answer does not make a mailbox answered.
LEMMA AppendOther ==
  ASSUME NEW q \in Seq(Messages), NEW m \in Messages, m \notin {"configured", "configureFailed"},
         NEW i \in 1 .. Len(Append(q, m)), Append(q, m)[i] \in {"configured", "configureFailed"}
  PROVE  i \in 1 .. Len(q) /\ q[i] \in {"configured", "configureFailed"}
OBVIOUS

LEMMA PostOther ==
  ASSUME InboxTypeOK, NEW c \in Cams, NEW m \in {"disconnected", "error"}, inbox' = Post(c, m),
         NEW d \in Cams, Answered(d)'
  PROVE  Answered(d)
<1>1. PICK i \in 1 .. Len(inbox'[d]) : inbox'[d][i] \in {"configured", "configureFailed"}
  BY DEF Answered
<1>2. inbox'[d] = inbox[d] \/ inbox'[d] = Append(inbox[d], m)
  BY DEF Post
<1>3. inbox[d] \in Seq(Messages) /\ m \in Messages
  BY DEF InboxTypeOK, Messages
<1>4. CASE inbox'[d] = inbox[d]
  BY <1>1, <1>4 DEF Answered
<1>5. CASE inbox'[d] = Append(inbox[d], m)
  <2>1. PICK j \in 1 .. Len(Append(inbox[d], m)) :
          Append(inbox[d], m)[j] \in {"configured", "configureFailed"}
    BY <1>1, <1>5
  <2>2. j \in 1 .. Len(inbox[d]) /\ inbox[d][j] \in {"configured", "configureFailed"}
    BY <1>3, <2>1, AppendOther
  <2> QED
    BY <2>2 DEF Answered
<1> QED
  BY <1>2, <1>4, <1>5

\* Nobody hears about a session any more once its wait is over.
LEMMA LateUnanswered ==
  ASSUME InboxTypeOK, SessionAwaited, NEW d \in Cams
  PROVE  ~Answered(d)'
<1>1. inbox'[d] = [i \in 1 .. Len(inbox[d]) |-> Late(inbox[d][i])]
  BY DEF SessionAwaited
<1>2. inbox[d] \in Seq(Messages)
  BY DEF InboxTypeOK
<1>3. Len(inbox'[d]) = Len(inbox[d])
  BY <1>1, <1>2, LateTyped
<1>4. \A i \in 1 .. Len(inbox[d]) : Late(inbox[d][i]) \notin {"configured", "configureFailed"}
  BY DEF Late
<1> QED
  BY <1>1, <1>3, <1>4 DEF Answered

\* Opening a camera brings no such answer.
LEMMA OpeningUnanswered ==
  ASSUME InboxTypeOK, NEW c \in Cams, OpenCamera(c), NEW d \in Cams, Answered(d)'
  PROVE  Answered(d)
<1>1. PICK i \in 1 .. Len(inbox'[d]) : inbox'[d][i] \in {"configured", "configureFailed"}
  BY DEF Answered
<1>2. inbox[d] \in Seq(Messages) /\ "disconnected" \in Messages
  BY DEF InboxTypeOK, Messages
<1>3. inbox'[d] \in {inbox[d], Append(inbox[d], "disconnected"), <<"opened">>, <<"error">>}
  BY DEF OpenCamera, InboxTypeOK
<1>4. inbox'[d] # <<"opened">> /\ inbox'[d] # <<"error">>
  BY <1>1
<1> QED
  BY <1>1, <1>2, <1>3, <1>4, AppendOther DEF Answered

LEMMA SessionAnswered ==
  ASSUME CreateCaptureSession, NEW d \in Cams, Answered(d)'
  PROVE  Answered(d) \/ (d = mCameraHandler /\ looper[d] = "alive")
<1>1. inbox' = inbox \/ \E m \in {"configured", "configureFailed"} : inbox' = Post(mCameraHandler, m)
  BY DEF CreateCaptureSession
<1>2. ASSUME NEW m, inbox' = Post(mCameraHandler, m)
      PROVE  inbox'[d] = inbox[d] \/ (d = mCameraHandler /\ looper[mCameraHandler] = "alive")
  BY <1>2 DEF Post
<1>3. inbox'[d] = inbox[d] \/ (d = mCameraHandler /\ looper[d] = "alive")
  BY <1>1, <1>2
<1> QED
  BY <1>3 DEF Answered

LEMMA NextAnswer ==
  ASSUME PlainTypeOK, InboxTypeOK, LooperInv, AnswerInv, [Next]_vars
  PROVE  AnswerInv'
<1> USE DEF capture, threads, camera, lost
<1>1. CASE Start \/ Restart \/ ClientStop \/ ErrorStop
  <2>1. inbox' = inbox /\ monitor = "free"
        /\ monitor' \in {"free", "startEncoder", "restartEncoder", "stopCamera"}
    BY <1>1 DEF Start, Restart, ClientStop, ErrorStop, Stop, Goto
  <2> QED
    BY <2>1 DEF AnswerInv, Answered
<1>2. CASE InitEncoder \/ (\E c \in Cams : OpenCameraThrows(c)) \/ CameraAwaited
           \/ CreateCaptureSessionThrows \/ StartPipeline \/ StartAudioThrows
           \/ SetRunning \/ ReleaseCamera \/ ReleaseEncoder \/ DestroyPipeline
  <2>1. inbox' = inbox
    BY <1>2 DEF InitEncoder, OpenCameraThrows, CameraAwaited, CreateCaptureSessionThrows,
       StartPipeline, StartAudioThrows, SetRunning, ReleaseCamera, ReleaseEncoder,
       DestroyPipeline
  <2>2. monitor \notin {"startAwait", "restartAwait"}
        /\ monitor' \notin {"startAwait", "restartAwait", "restartRunning"}
    BY <1>2 DEF InitEncoder, OpenCameraThrows, CameraAwaited, CreateCaptureSessionThrows,
       StartPipeline, StartAudioThrows, SetRunning, ReleaseCamera, ReleaseEncoder,
       DestroyPipeline, Throw, Goto
  <2> QED
    BY <2>1, <2>2 DEF AnswerInv, Answered
<1>3. CASE \E c \in Cams : OpenCamera(c)
  <2>1. PICK c \in Cams : OpenCamera(c)
    BY <1>3
  <2>2. monitor = "startCamera" /\ monitor' = "startOpening"
    BY <2>1 DEF OpenCamera, Goto
  <2>3. \A d \in Cams : ~Answered(d)
    BY <2>2 DEF AnswerInv
  <2>4. \A d \in Cams : ~Answered(d)'
    BY <2>1, <2>3, OpeningUnanswered
  <2> QED
    BY <2>2, <2>4 DEF AnswerInv
<1>4. CASE CreateCaptureSession
  <2>1. /\ monitor \in {"startSession", "restartSession"}
        /\ monitor' \in {"startAwait", "restartAwait"} /\ latch' = FALSE
        /\ mCameraThread' = mCameraThread
    BY <1>4 DEF CreateCaptureSession, Goto
  <2>2. \A d \in Cams : Answered(d)' => (d = mCameraHandler /\ looper[d] = "alive")
    BY <1>4, <2>1, SessionAnswered DEF AnswerInv
  <2>3. \A d \in Cams : Answered(d)' => mCameraThread # NoCam
    BY <2>2, StreamerAssumption DEF LooperInv, StreamerAssumption
  <2> QED
    BY <2>1, <2>3 DEF AnswerInv
<1>5. CASE SessionAwaited
  <2>1. \A d \in Cams : ~Answered(d)'
    BY <1>5, LateUnanswered
  <2>2. monitor' # "restartAwait" /\ mCameraThread' = mCameraThread
    BY <1>5 DEF SessionAwaited, AfterSession, Goto, Throw
  <2>3. monitor' = "restartRunning" => monitor = "restartAwait" /\ latch
    BY <1>5 DEF SessionAwaited, AfterSession, Goto, Throw
  <2>4. monitor' = "restartRunning" => mCameraThread # NoCam
    BY <2>3 DEF AnswerInv
  <2> QED
    BY <2>1, <2>2, <2>4 DEF AnswerInv
<1>6. CASE \/ \E fatal \in BOOLEAN : EncoderError(fatal)
           \/ UNCHANGED vars
  <2>1. inbox' = inbox /\ monitor' = monitor /\ latch' = latch /\ mCameraThread' = mCameraThread
    BY <1>6 DEF EncoderError, vars
  <2> QED
    BY <2>1 DEF AnswerInv, Answered
<1>7. CASE \E c \in Cams : CameraTaken(c)
  <2>1. PICK c \in Cams : CameraTaken(c)
    BY <1>7
  <2>2. monitor' = monitor /\ latch' = latch /\ mCameraThread' = mCameraThread
    BY <2>1 DEF CameraTaken
  <2>3. PICK m \in {"disconnected", "error"} : inbox' = Post(c, m)
    BY <2>1 DEF CameraTaken
  <2>4. \A d \in Cams : Answered(d)' => Answered(d)
    BY <2>3, PostOther
  <2> QED
    BY <2>2, <2>4 DEF AnswerInv
<1>8. CASE \E c \in Cams : CameraCallback(c)
  <2>1. PICK c \in Cams : CameraCallback(c)
    BY <1>8
  <2>2. PICK m \in Messages : Receive(c, m)
    BY <2>1, CallbackReceives
  <2>3. monitor' = monitor /\ mCameraThread' = mCameraThread
    BY <2>2 DEF Receive
  <2>4. \A d \in Cams : Answered(d)' => Answered(d)
    BY <2>2, AnsweredOnly
  <2>5. \/ (latch' => latch)
        \/ monitor = "startOpening"
        \/ inbox[c] # <<>> /\ Head(inbox[c]) \in {"configured", "configureFailed"}
    <3>1. CASE OnOpened(c)
      BY <3>1 DEF OnOpened, CountsOpening
    <3>2. CASE OnCameraError(c)
      BY <3>2 DEF OnCameraError, CountsOpening
    <3>3. CASE OnDisconnected(c) \/ OnLateConfigured(c) \/ OnLateFailed(c)
      BY <3>3 DEF OnDisconnected, OnLateConfigured, OnLateFailed
    <3>4. CASE OnConfigured(c) \/ OnConfigureFailed(c)
      BY <3>4 DEF OnConfigured, OnConfigureFailed, Receive
    <3> QED
      BY <2>1, <3>1, <3>2, <3>3, <3>4 DEF CameraCallback
  <2>6. inbox[c] # <<>> /\ Head(inbox[c]) \in {"configured", "configureFailed"} => Answered(c)
    BY DEF Answered, InboxTypeOK
  <2>7. latch' /\ monitor = "restartAwait" => mCameraThread # NoCam
    BY <2>5, <2>6 DEF AnswerInv
  <2> QED
    BY <2>3, <2>4, <2>7 DEF AnswerInv
<1>9. CASE \E c \in Cams : SessionThrows(c)
  BY <1>9 DEF SessionThrows, AnswerInv, Answered
<1> QED
  BY <1>1, <1>2, <1>3, <1>4, <1>5, <1>6, <1>7, <1>8, <1>9 DEF Next, MonitorStep

-----------------------------------------------------------------------------
(* The theorems. *)

LEMMA InitInv == Init => StreamerInv
<1> SUFFICES ASSUME Init PROVE StreamerInv
  OBVIOUS
<1>1. PlainTypeOK
  BY Booleans DEF Init, PlainTypeOK
<1>2. InboxTypeOK
  BY DEF Init, InboxTypeOK
<1>3. TypeOK
  BY <1>1, <1>2, TypeParts
<1>4. AnswerInv
  BY DEF Init, AnswerInv, Answered
<1>5. PhaseInv /\ LooperInv /\ PairInv
  BY DEF Init, PhaseInv, LooperInv, PairInv, StartPhases, RestartPhases, StopPhases
<1>6. KeeperInv /\ RunningMeansServed
  BY DEF Init, KeeperInv, RunningMeansServed
<1> QED
  BY <1>3, <1>4, <1>5, <1>6 DEF StreamerInv

LEMMA NextInv == StreamerInv /\ [Next]_vars => StreamerInv'
<1> SUFFICES ASSUME StreamerInv, [Next]_vars PROVE StreamerInv'
  OBVIOUS
<1>1. PlainTypeOK /\ InboxTypeOK
  BY TypeParts DEF StreamerInv
<1>2. PhaseInv /\ LooperInv /\ PairInv /\ AnswerInv /\ KeeperInv /\ RunningMeansServed
  BY DEF StreamerInv
<1>3. PlainTypeOK' /\ InboxTypeOK'
  BY <1>1, NextPlain, NextInbox
<1>4. TypeOK'
  BY <1>3, TypeParts DEF TypeOK, PlainTypeOK, InboxTypeOK
<1>5. PhaseInv' /\ LooperInv' /\ PairInv'
  BY <1>1, <1>2, NextPhase, NextLooper, NextPair
<1>6. AnswerInv'
  BY <1>1, <1>2, NextAnswer
<1>7. KeeperInv' /\ RunningMeansServed'
  BY <1>1, <1>2, NextKeeper, NextServed
<1> QED
  BY <1>4, <1>5, <1>6, <1>7 DEF StreamerInv

\* The fields, threads and mailboxes of a streaming session keep their types,
\* however often it is started, restarted and stopped.
THEOREM TypeCorrect == Spec => []TypeOK
<1>1. StreamerInv => TypeOK
  BY DEF StreamerInv
<1> QED
  BY InitInv, NextInv, <1>1, PTL DEF Spec

\* The invariant that relates the monitor's holder, the camera threads and their
\* mailboxes, the pipeline and the threads left waiting holds in every session.
THEOREM SessionInvariant == Spec => []StreamerInv
BY InitInv, NextInv, PTL DEF Spec

\* isRunning is never true over a session that is torn down: the pipeline and a
\* live camera thread are there, and an encoder or somebody about to see to it.
THEOREM Served == Spec => []RunningMeansServed
<1>1. StreamerInv => RunningMeansServed
  BY DEF StreamerInv
<1> QED
  BY InitInv, NextInv, <1>1, PTL DEF Spec

\* A session that stopped running without being torn down always has a restart
\* or a stop waiting for it.
THEOREM Kept == Spec => []HalfSessionHasKeeper
<1>1. StreamerInv => HalfSessionHasKeeper
  BY DEF StreamerInv, KeeperInv, HalfSessionHasKeeper
<1> QED
  BY InitInv, NextInv, <1>1, PTL DEF Spec
=============================================================================
