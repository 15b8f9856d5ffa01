----------------------------- MODULE ServiceControl -----------------------------
(***************************************************************************)
(* StreamOutSvcCtrl, the Android service, and the gRPC calls that start    *)
(* and stop streaming through it.                                          *)
(*                                                                         *)
(* Android creates, commands and destroys a service on the main thread;    *)
(* one object of the class is used per life, while the process and its     *)
(* statics go on.  A command reads configure.txt, which may switch the     *)
(* mode, and starts a gRPC server on a thread of its own.  Calls run on    *)
(* gRPC's threads, find the service in a static field and create the       *)
(* streamer when they need it.  None of these fields has a lock, and each  *)
(* reading of one is a step.                                               *)
(*                                                                         *)
(* A streamer is up or not here; what its start() and stop() do is in      *)
(* Camera2Streamer and RtspServer.  The other calls change a setting       *)
(* (DebugCommands) or nothing that is read again.                          *)
(***************************************************************************)
EXTENDS Integers

CONSTANTS
  Clients,        \* gRPC threads that serve a call of streamoutStart or streamoutStop
  MaxServices,    \* bound: lives of the service
  MaxStreamers    \* bound: streamers created

ASSUME ServiceAssumption ==
  MaxServices \in Nat /\ MaxStreamers \in Nat /\ "main" \notin Clients

Services  == 1 .. MaxServices
Streamers == 1 .. MaxStreamers
Actors    == Clients \cup {"main"}

VARIABLES
  instance,             \* the static field: the number of the last service, or 0
  activeMode,           \* per service
  mCamera2Streamer,     \* per service: a streamer, or 0
  grpcServer,           \* per service: how far its gRPC server is
  port,                 \* the service whose gRPC server listens, or 0
  created,              \* streamers so far
  up,                   \* the streamer whose pipeline is up, or 0
  where, svc, target,   \* per thread: where it is, with which service and streamer
  destroying,           \* is the main thread in onDestroy?
  orderly, tidy         \* external, fixed: see below

fields    == <<activeMode, mCamera2Streamer>>
ofThreads == <<where, svc, target>>
assumed   == <<orderly, tidy>>
serviceVars ==
  <<instance, fields, grpcServer, port, created, up, ofThreads, destroying, assumed>>

CAMERA        == 0   \* STREAMOUT_MODE_CAMERA
CAMERA2_HWENC == 2   \* STREAMOUT_MODE_CAMERA2_HWENC, the mode a service begins with

\* Thread t goes on; a call that is over has no service.
Steps(t, from, to) ==
  /\ where[t] = from /\ where' = [where EXCEPT ![t] = to]
  /\ svc' = IF to = "idle" THEN [svc EXCEPT ![t] = 0] ELSE svc

\* Calls of streamoutStart under way; and is the main thread taking a stream down?
Starting == {c \in Clients : where[c] \in {"test", "create", "get", "start"}}
TakingDown == where["main"] \in {"stop test", "stop get", "stop", "set mode", "clear"}

-----------------------------------------------------------------------------
(* The life of a service, on the main thread.                               *)

OnCreate ==
  /\ instance < MaxServices /\ instance' = instance + 1
  /\ where["main"] = "none" /\ where' = [where EXCEPT !["main"] = "ready"]
  /\ svc' = [svc EXCEPT !["main"] = instance']
  /\ UNCHANGED <<fields, grpcServer, port, created, up, target, destroying, assumed>>

\* Mutant: the mode is switched under a running stream.
OnStartCommandStopsNothing(toCamera) ==
  /\ Steps("main", "ready",
            IF toCamera /\ activeMode[instance] # CAMERA THEN "set mode" ELSE "serve")
  /\ orderly /\ toCamera => Starting = {}
  /\ UNCHANGED <<instance, fields, grpcServer, port, created, up, target, destroying,
                 assumed>>

\* onStartCommand reads configure.txt, which may ask for the camera mode; setMode then
\* stops the stream of the other.
OnStartCommand(toCamera) ==
  /\ Steps("main", "ready",
            IF toCamera /\ activeMode[instance] # CAMERA THEN "stop test" ELSE "serve")
  /\ orderly /\ toCamera => Starting = {}
  /\ UNCHANGED <<instance, fields, grpcServer, port, created, up, target, destroying,
                 assumed>>

\* setMode, after camera2Stop.
SetMode ==
  /\ Steps("main", "set mode", "serve")
  /\ activeMode' = [activeMode EXCEPT ![instance] = CAMERA]
  /\ UNCHANGED <<instance, mCamera2Streamer, grpcServer, port, created, up, target,
                 destroying, assumed>>

\* The end of onStartCommand: a gRPC server, and the thread that starts it, unless the
\* service has one, whatever became of it.
Serve ==
  /\ Steps("main", "serve", "ready")
  /\ grpcServer' = IF grpcServer[instance] = "none"
                   THEN [grpcServer EXCEPT ![instance] = "starting"] ELSE grpcServer
  /\ UNCHANGED <<instance, fields, port, created, up, target, destroying, assumed>>

\* onDestroy shuts the gRPC server down, if its thread has got so far as to keep it.
OnDestroy ==
  /\ Steps("main", "ready", "stop test")
  /\ orderly => Starting = {} /\ grpcServer[instance] \notin {"starting", "listening"}
  /\ destroying' = TRUE
  /\ port' = IF grpcServer[instance] = "started" /\ port = instance THEN 0 ELSE port
  /\ UNCHANGED <<instance, fields, grpcServer, created, up, target, assumed>>

\* ... and, when the streamer is stopped, forgets it.
OnDestroyEnds ==
  /\ Steps("main", "clear", "none")
  /\ destroying' = FALSE
  /\ mCamera2Streamer' = [mCamera2Streamer EXCEPT ![instance] = 0]
  /\ UNCHANGED <<instance, activeMode, grpcServer, port, created, up, target, assumed>>

-----------------------------------------------------------------------------
(* The gRPC server, on the thread that starts it.                           *)

\* NettyServerBuilder's start(): the port is bound, or it throws.
GrpcBinds(s) ==
  /\ grpcServer[s] = "starting"
  /\ \/ /\ port = 0 /\ port' = s
        /\ grpcServer' = [grpcServer EXCEPT ![s] = "listening"]
     \/ /\ tidy => port # 0
        /\ UNCHANGED port
        /\ grpcServer' = [grpcServer EXCEPT ![s] = "failed"]
  /\ UNCHANGED <<instance, fields, created, up, ofThreads, destroying, assumed>>

\* Mutant: a server whose service is gone by then is shut down at once.
GrpcStartedUnlessGone(s) ==
  /\ grpcServer[s] = "listening"
  /\ grpcServer' = [grpcServer EXCEPT ![s] = "started"]
  /\ port' = IF s = instance /\ where["main"] # "none" THEN port ELSE 0
  /\ UNCHANGED <<instance, fields, created, up, ofThreads, destroying, assumed>>

\* Its result is kept, for stop() to find.
GrpcStarted(s) ==
  /\ grpcServer[s] = "listening"
  /\ grpcServer' = [grpcServer EXCEPT ![s] = "started"]
  /\ UNCHANGED <<instance, fields, port, created, up, ofThreads, destroying, assumed>>

-----------------------------------------------------------------------------
(* Calls.                                                                   *)

\* A call comes in and gets the instance; in another mode it does nothing.
Called(c, first) ==
  /\ port # 0 /\ activeMode[instance] = CAMERA2_HWENC
  /\ where[c] = "idle" /\ where' = [where EXCEPT ![c] = first]
  /\ svc' = [svc EXCEPT ![c] = instance]
  /\ UNCHANGED <<instance, fields, grpcServer, port, created, up, target, destroying,
                 assumed>>

\* streamoutStart
StreamoutStart(c) ==
  /\ Called(c, "test")
  /\ orderly => ~TakingDown /\ (mCamera2Streamer[instance] = 0 => Starting = {})

\* streamoutStop
StreamoutStop(c) == Called(c, "stop test")

\* What thread t finds in its service's field.
Found(t) == mCamera2Streamer[svc[t]]

\* startStreaming: is there a streamer? ...
TestStreamer(c) ==
  /\ Steps(c, "test", IF Found(c) = 0 THEN "create" ELSE "get")
  /\ UNCHANGED <<instance, fields, grpcServer, port, created, up, target, destroying,
                 assumed>>

CreateStreamer(c) ==
  /\ Steps(c, "create", "get")
  /\ created < MaxStreamers /\ created' = created + 1
  /\ mCamera2Streamer' = [mCamera2Streamer EXCEPT ![svc[c]] = created']
  /\ UNCHANGED <<instance, activeMode, grpcServer, port, up, target, destroying, assumed>>

\* ... the field is read again; the handler catches what null throws ...
GetStreamer(c) ==
  /\ Steps(c, "get", IF Found(c) = 0 THEN "idle" ELSE "start")
  /\ target' = [target EXCEPT ![c] = Found(c)]
  /\ UNCHANGED <<instance, fields, grpcServer, port, created, up, destroying, assumed>>

\* ... and the streamer is started, which may fail, and does when another is up: the
\* native side rejects a second server (external).
StartStreamer(c) ==
  /\ Steps(c, "start", "idle")
  /\ target' = [target EXCEPT ![c] = 0]
  /\ up' \in {up, IF up = 0 THEN target[c] ELSE up}
  /\ UNCHANGED <<instance, fields, grpcServer, port, created, destroying, assumed>>

-----------------------------------------------------------------------------
(* camera2Stop, for a call, for setMode or for onDestroy.                   *)

\* Where thread t goes on after it.
GoesOn(t) == IF t # "main" THEN "idle" ELSE IF destroying THEN "clear" ELSE "set mode"

TestForStop(t) ==
  /\ Steps(t, "stop test", IF Found(t) = 0 THEN GoesOn(t) ELSE "stop get")
  /\ UNCHANGED <<instance, fields, grpcServer, port, created, up, target, destroying,
                 assumed>>

GetForStop(t) ==
  /\ Steps(t, "stop get", IF Found(t) = 0 THEN GoesOn(t) ELSE "stop")
  /\ target' = [target EXCEPT ![t] = Found(t)]
  /\ UNCHANGED <<instance, fields, grpcServer, port, created, up, destroying, assumed>>

StopStreamer(t) ==
  /\ Steps(t, "stop", GoesOn(t))
  /\ target' = [target EXCEPT ![t] = 0]
  /\ up' = IF up = target[t] THEN 0 ELSE up
  /\ UNCHANGED <<instance, fields, grpcServer, port, created, destroying, assumed>>

\* A stream that fails is taken down by its own streamer (external).
StreamFails ==
  /\ up # 0 /\ up' = 0
  /\ UNCHANGED <<instance, fields, grpcServer, port, created, ofThreads, destroying, assumed>>

-----------------------------------------------------------------------------
\* orderly: a service's first call of streamoutStart comes alone, and the mode is not
\* switched, nor the service destroyed, under any; nor is it destroyed before its gRPC
\* server has started.  tidy: nobody else takes the port, and a server that is shut down
\* has freed it when the next binds.  The port stays the one first configured.
ServiceInit ==
  /\ instance = 0 /\ activeMode = [s \in Services |-> CAMERA2_HWENC]
  /\ mCamera2Streamer = [s \in Services |-> 0]
  /\ grpcServer = [s \in Services |-> "none"] /\ port = 0
  /\ created = 0 /\ up = 0
  /\ where = [t \in Actors |-> IF t = "main" THEN "none" ELSE "idle"]
  /\ svc = [t \in Actors |-> 0] /\ target = [t \in Actors |-> 0]
  /\ destroying = FALSE
  /\ orderly \in BOOLEAN /\ tidy \in BOOLEAN

ServiceNext ==
  \/ OnCreate \/ SetMode \/ Serve \/ OnDestroy \/ OnDestroyEnds \/ StreamFails
  \/ \E toCamera \in BOOLEAN : OnStartCommand(toCamera)
  \/ \E s \in Services : GrpcBinds(s) \/ GrpcStarted(s)
  \/ \E c \in Clients :
       \/ StreamoutStart(c) \/ StreamoutStop(c) \/ TestStreamer(c) \/ CreateStreamer(c)
       \/ GetStreamer(c) \/ StartStreamer(c)
  \/ \E t \in Actors : TestForStop(t) \/ GetForStop(t) \/ StopStreamer(t)

ServiceSpec == ServiceInit /\ [][ServiceNext]_serviceVars

-----------------------------------------------------------------------------
(* Properties.                                                              *)

ServiceTypeOK ==
  /\ instance \in 0 .. MaxServices /\ created \in 0 .. MaxStreamers
  /\ activeMode \in [Services -> {CAMERA, CAMERA2_HWENC}]
  /\ mCamera2Streamer \in [Services -> 0 .. created]
  /\ grpcServer \in [Services -> {"none", "starting", "listening", "started", "failed"}]
  /\ port \in 0 .. instance /\ up \in 0 .. created
  /\ where \in [Actors -> {"none", "ready", "serve", "idle", "test", "create", "get", "start",
                           "stop test", "stop get", "stop", "set mode", "clear"}]
  /\ svc \in [Actors -> 0 .. instance] /\ target \in [Actors -> 0 .. created]
  /\ destroying \in BOOLEAN /\ orderly \in BOOLEAN /\ tidy \in BOOLEAN

\* "Active streaming mode ... only one mode at a time": however starts and stops overlap
\* each other, the gRPC server's own thread and the service's lives, a stream that is up
\* belongs to the service that lives, in the mode that streams, so that streamoutStop,
\* setMode and onDestroy reach it.  (Not so where `orderly` fails: the streamer of a start
\* that raced another, or the end of the service, runs on where no stop finds it.)
StreamsAreReachable ==
  orderly /\ up # 0 =>
    /\ where["main"] # "none"
    /\ up = mCamera2Streamer[instance] /\ activeMode[instance] = CAMERA2_HWENC

\* A gRPC server that was not shut down, because onDestroy came before its thread had kept
\* it, holds the port, and the next service's fails for good; the calls of either find
\* the service that lives.  So a live service can be called, once its thread is through.
LiveServiceIsServed ==
  /\ tidy /\ where["main"] # "none" /\ ~destroying
  /\ grpcServer[instance] \in {"started", "failed"}
  => port # 0
=============================================================================
