------------------------------ MODULE RtspServer ------------------------------
(***************************************************************************)
(* The life of the native RTSP server in camera2_gst_streamer.cpp.         *)
(*                                                                         *)
(* nativeGstPipelineInit creates a server, a main loop and a thread that   *)
(* runs it; nativeGstPipelineDestroy takes them down.  One Init with its   *)
(* Destroy is called a session here.  The callers are instances of         *)
(* Camera2GstStreamer, each of which makes one call at a time (its methods *)
(* are synchronized); the RTSP events come from the threads of whichever   *)
(* session they belong to.  All of them share one set of globals, which    *)
(* say nothing of sessions.                                                *)
(*                                                                         *)
(* An action is one section under s_lock, or one step outside it.          *)
(* 0 stands for NULL.  s_server also stands for s_loop and s_context, and  *)
(* s_appsrc for s_audio_appsrc, which are set and cleared with it.         *)
(***************************************************************************)
EXTENDS Integers

CONSTANTS
  Owners,          \* Camera2GstStreamer instances
  MaxSessions,     \* bound: calls of Init that succeed
  MaxClients,      \* bound: connections of one session at a time
  MaxMedia         \* bound: media constructed

ASSUME ServerAssumption ==
  /\ MaxSessions \in Nat /\ MaxClients \in Nat /\ MaxMedia \in Nat

VARIABLES
  (* the native globals; s_appsrc, s_full_pipeline and s_pts_base name the *)
  (* media they come from                                                  *)
  s_server, s_loop_tid, s_loop_tid_valid,
  s_appsrc, s_full_pipeline, s_pts_base, s_client_count,
  (* per caller: where it is, the session it tears down, the thread it joins *)
  pc, mGstPipelineStarted, local, joining,
  (* per session: its main loop, whether that is in on_client_connected, *)
  (* its open connections and its prepared media (external)              *)
  loop, accepting, clients, media,
  sessions, medias,   \* how many of either there have been
  status,             \* the last status reported to Java
  clientsLinger       \* external, fixed: may connections outlast the next Init?

server == <<s_server, s_loop_tid, s_loop_tid_valid>>
path   == <<s_appsrc, s_full_pipeline, s_pts_base>>
caller == <<pc, mGstPipelineStarted, local, joining>>
rtsp   == <<loop, accepting, clients, media>>
counts == <<sessions, medias>>
rest   == <<counts, clientsLinger>>
vars   == <<server, path, s_client_count, caller, rtsp, rest, status>>

Sessions == 1 .. MaxSessions
Media    == 1 .. MaxMedia

At(o, p)   == pc[o] = p
Goto(o, p) == pc' = [pc EXCEPT ![o] = p]

-----------------------------------------------------------------------------
(* nativeGstPipelineInit                                                    *)

Drained == \A n \in Sessions : clients[n] = 0 /\ media[n] = 0

\* Everything up to the unlock, when no server is found.  (A call that finds one,
\* or fails, changes nothing here.)  s_appsrc and s_full_pipeline stay as they are.
PipelineInit(o) ==
  /\ At(o, "idle") /\ ~mGstPipelineStarted[o] /\ s_server = 0
  /\ sessions < MaxSessions /\ (clientsLinger \/ Drained)
  /\ Goto(o, "ready")
  /\ sessions' = sessions + 1
  /\ s_server' = sessions' /\ s_loop_tid' = sessions' /\ s_loop_tid_valid' = TRUE
  /\ loop' = [loop EXCEPT ![sessions'] = "created"]
  /\ s_pts_base' = 0 /\ s_client_count' = 0
  /\ UNCHANGED <<s_appsrc, s_full_pipeline, mGstPipelineStarted, local, joining,
                 accepting, clients, media, medias, clientsLinger, status>>

\* The status report after the unlock, and initGstPipeline's return.
ReportReady(o) ==
  /\ At(o, "ready")
  /\ Goto(o, "idle")
  /\ mGstPipelineStarted' = [mGstPipelineStarted EXCEPT ![o] = TRUE]
  /\ status' = "ready"
  /\ UNCHANGED <<server, path, s_client_count, local, joining, rtsp, rest>>

-----------------------------------------------------------------------------
(* nativeGstPipelineDestroy                                                 *)

\* The section under s_lock: take the server out of the globals and clear them.
DestroyClear(o) ==
  /\ At(o, "idle") /\ mGstPipelineStarted[o]
  /\ Goto(o, "quit")
  /\ local' = [local EXCEPT ![o] = s_server]
  /\ s_server' = 0
  /\ s_appsrc' = 0 /\ s_full_pipeline' = 0 /\ s_pts_base' = 0 /\ s_client_count' = 0
  /\ UNCHANGED <<s_loop_tid, s_loop_tid_valid, mGstPipelineStarted, joining, rtsp,
                 rest, status>>

\* Mutant: the loop is not told to quit.
DestroyQuitForgotten(o) ==
  /\ At(o, "quit")
  /\ Goto(o, "join")
  /\ UNCHANGED <<server, path, s_client_count, mGstPipelineStarted, local, joining,
                 rtsp, rest, status>>

\* g_main_loop_quit: clears is_running, which g_main_loop_run sets on entry; a
\* quit that comes before run is lost.
DestroyQuit(o) ==
  /\ At(o, "quit")
  /\ Goto(o, "join")
  /\ loop' = IF local[o] # 0 /\ loop[local[o]] = "running"
             THEN [loop EXCEPT ![local[o]] = "quitting"] ELSE loop
  /\ UNCHANGED <<server, path, s_client_count, mGstPipelineStarted, local, joining,
                 accepting, clients, media, rest, status>>

\* pthread_join, called without s_lock: read which thread to wait for.
DestroyJoin(o) ==
  /\ At(o, "join")
  /\ Goto(o, "joining")
  /\ joining' = [joining EXCEPT ![o] = IF s_loop_tid_valid THEN s_loop_tid ELSE 0]
  /\ UNCHANGED <<server, path, s_client_count, mGstPipelineStarted, local, rtsp,
                 rest, status>>

\* Mutant: the loop thread is detached, not joined.
DestroyJoinedAtOnce(o) ==
  /\ At(o, "joining")
  /\ Goto(o, "stopped")
  /\ s_loop_tid_valid' = IF joining[o] = 0 THEN s_loop_tid_valid ELSE FALSE
  /\ UNCHANGED <<s_server, s_loop_tid, path, s_client_count, mGstPipelineStarted,
                 local, joining, rtsp, rest, status>>

\* Mutant: the thread id stays valid after the join.
DestroyJoinedKeepsTid(o) ==
  /\ At(o, "joining")
  /\ joining[o] = 0 \/ loop[joining[o]] = "exited"
  /\ Goto(o, "stopped")
  /\ UNCHANGED <<server, path, s_client_count, mGstPipelineStarted, local, joining,
                 rtsp, rest, status>>

\* ... and the wait for it.
DestroyJoined(o) ==
  /\ At(o, "joining")
  /\ joining[o] = 0 \/ loop[joining[o]] = "exited"
  /\ Goto(o, "stopped")
  /\ s_loop_tid_valid' = IF joining[o] = 0 THEN s_loop_tid_valid ELSE FALSE
  /\ UNCHANGED <<s_server, s_loop_tid, path, s_client_count, mGstPipelineStarted,
                 local, joining, rtsp, rest, status>>

\* Let go of the server and its loop, report, and return to stop().
ReportStopped(o) ==
  /\ At(o, "stopped")
  /\ Goto(o, "idle")
  /\ mGstPipelineStarted' = [mGstPipelineStarted EXCEPT ![o] = FALSE]
  /\ local' = [local EXCEPT ![o] = 0] /\ joining' = [joining EXCEPT ![o] = 0]
  /\ status' = "stopped"
  /\ UNCHANGED <<server, path, s_client_count, rtsp, rest>>

DestroyStep(o) ==
  \/ DestroyQuit(o) \/ DestroyJoin(o) \/ DestroyJoined(o) \/ ReportStopped(o)

-----------------------------------------------------------------------------
(* loop_thread_fn                                                           *)

LoopRun(n) ==
  /\ loop[n] = "created"
  /\ loop' = [loop EXCEPT ![n] = "running"]
  /\ UNCHANGED <<server, path, s_client_count, caller, accepting, clients, media,
                 rest, status>>

LoopExit(n) ==
  /\ loop[n] \in {"quitting", "leaving"} /\ ~accepting[n]
  /\ loop' = [loop EXCEPT ![n] = "exited"]
  /\ UNCHANGED <<server, path, s_client_count, caller, accepting, clients, media,
                 rest, status>>

\* on_client_connected, on the loop thread; once more at most after the quit, in the
\* iteration under way.
ClientConnected(n) ==
  /\ loop[n] \in {"running", "quitting"} /\ ~accepting[n] /\ clients[n] < MaxClients
  /\ loop' = [loop EXCEPT ![n] = IF @ = "quitting" THEN "leaving" ELSE @]
  /\ accepting' = [accepting EXCEPT ![n] = TRUE]
  /\ clients' = [clients EXCEPT ![n] = @ + 1]
  /\ s_client_count' = s_client_count + 1
  /\ UNCHANGED <<server, path, caller, media, rest, status>>

\* Its status report, after the unlock.
ReportConnected(n) ==
  /\ accepting[n]
  /\ accepting' = [accepting EXCEPT ![n] = FALSE]
  /\ status' = "client_connected"
  /\ UNCHANGED <<server, path, s_client_count, caller, loop, clients, media, rest>>

-----------------------------------------------------------------------------
(* Events of a session's connections and media.  The server keeps one       *)
(* shared media at a time and makes a new one for the next client; the      *)
(* connections hold on to the server, so events go on after a Destroy.      *)

\* The handlers of a connection are set up at the end of on_client_connected.
Attached(n) == clients[n] > (IF accepting[n] THEN 1 ELSE 0)

MediaConfigure(n) ==
  /\ Attached(n) /\ media[n] = 0 /\ medias < MaxMedia
  /\ medias' = medias + 1
  /\ media' = [media EXCEPT ![n] = medias']
  /\ s_appsrc' = medias'
  /\ UNCHANGED <<server, s_full_pipeline, s_pts_base, s_client_count, caller, loop,
                 accepting, clients, sessions, clientsLinger, status>>

\* on_client_play_request: cache the media's pipeline unless it is cached already.
PlayRequest(n) ==
  /\ Attached(n) /\ media[n] # 0
  /\ s_full_pipeline' = media[n]
  /\ UNCHANGED <<server, s_appsrc, s_pts_base, s_client_count, caller, rtsp, rest, status>>

\* Mutant: the time base of the media survives it.
MediaUnpreparedKeepsBase(n) ==
  /\ media[n] # 0
  /\ media' = [media EXCEPT ![n] = 0]
  /\ s_appsrc' = 0 /\ s_full_pipeline' = 0
  /\ UNCHANGED <<server, s_pts_base, s_client_count, caller, loop, accepting, clients,
                 rest, status>>

\* on_media_unprepared: clears the globals whatever media they are of.
MediaUnprepared(n) ==
  /\ media[n] # 0
  /\ media' = [media EXCEPT ![n] = 0]
  /\ s_appsrc' = 0 /\ s_full_pipeline' = 0 /\ s_pts_base' = 0
  /\ UNCHANGED <<server, s_client_count, caller, loop, accepting, clients, rest, status>>

\* Mutant: the count is not kept from going below zero.
ClientClosedUnguarded(n) ==
  /\ Attached(n)
  /\ clients' = [clients EXCEPT ![n] = @ - 1]
  /\ s_client_count' = s_client_count - 1
  /\ UNCHANGED <<server, path, caller, loop, accepting, media, rest, status>>

\* on_client_closed
ClientClosed(n) ==
  /\ Attached(n)
  /\ clients' = [clients EXCEPT ![n] = @ - 1]
  /\ s_client_count' = IF s_client_count > 0 THEN s_client_count - 1 ELSE 0
  /\ UNCHANGED <<server, path, caller, loop, accepting, media, rest, status>>

\* nativePushEncodedBuffer, as far as the time base goes: the first video frame
\* given to an appsrc sets it.
PushArmsBase ==
  /\ s_appsrc # 0 /\ s_pts_base = 0
  /\ s_pts_base' = s_appsrc
  /\ UNCHANGED <<server, s_appsrc, s_full_pipeline, s_client_count, caller, rtsp,
                 rest, status>>

-----------------------------------------------------------------------------
Init ==
  /\ s_server = 0 /\ s_loop_tid = 0 /\ s_loop_tid_valid = FALSE
  /\ s_appsrc = 0 /\ s_full_pipeline = 0 /\ s_pts_base = 0 /\ s_client_count = 0
  /\ pc = [o \in Owners |-> "idle"]
  /\ mGstPipelineStarted = [o \in Owners |-> FALSE]
  /\ local = [o \in Owners |-> 0] /\ joining = [o \in Owners |-> 0]
  /\ loop = [n \in Sessions |-> "none"] /\ accepting = [n \in Sessions |-> FALSE]
  /\ clients = [n \in Sessions |-> 0] /\ media = [n \in Sessions |-> 0]
  /\ sessions = 0 /\ medias = 0
  /\ status = "unspecified" /\ clientsLinger \in BOOLEAN

LoopStep(n) == LoopRun(n) \/ LoopExit(n) \/ ReportConnected(n)

SessionEvent(n) ==
  \/ ClientConnected(n) \/ MediaConfigure(n) \/ PlayRequest(n)
  \/ MediaUnprepared(n) \/ ClientClosed(n)

Next ==
  \/ \E o \in Owners :
       PipelineInit(o) \/ ReportReady(o) \/ DestroyClear(o) \/ DestroyStep(o)
  \/ \E n \in Sessions : LoopStep(n) \/ SessionEvent(n)
  \/ PushArmsBase

Spec == Init /\ [][Next]_vars

\* Threads inside Init, Destroy and the main loop go on; clients owe nothing.
Fairness ==
  /\ \A o \in Owners : WF_vars(ReportReady(o)) /\ WF_vars(DestroyStep(o))
  /\ \A n \in Sessions :
       WF_vars(LoopRun(n)) /\ WF_vars(LoopExit(n)) /\ WF_vars(ReportConnected(n))

FairSpec == Spec /\ Fairness

-----------------------------------------------------------------------------
(* Properties.                                                              *)

TypeOK ==
  /\ s_server \in 0 .. MaxSessions /\ s_loop_tid \in 0 .. MaxSessions
  /\ s_loop_tid_valid \in BOOLEAN
  /\ s_appsrc \in 0 .. MaxMedia /\ s_full_pipeline \in 0 .. MaxMedia
  /\ s_pts_base \in 0 .. MaxMedia /\ s_client_count \in Nat
  /\ pc \in [Owners -> {"idle", "ready", "quit", "join", "joining", "stopped"}]
  /\ mGstPipelineStarted \in [Owners -> BOOLEAN]
  /\ local \in [Owners -> 0 .. MaxSessions] /\ joining \in [Owners -> 0 .. MaxSessions]
  /\ loop \in [Sessions -> {"none", "created", "running", "quitting", "leaving", "exited"}]
  /\ accepting \in [Sessions -> BOOLEAN]
  /\ clients \in [Sessions -> Nat] /\ media \in [Sessions -> 0 .. MaxMedia]
  /\ sessions \in 0 .. MaxSessions /\ medias \in 0 .. MaxMedia
  /\ status \in {"unspecified", "ready", "client_connected", "stopped"}
  /\ clientsLinger \in BOOLEAN

LoopAlive(n) == loop[n] \in {"created", "running", "quitting", "leaving"}

\* One RTSP server at a time: a new Init never finds the loop thread of an earlier
\* session still at work, however Destroy's unlocked half and the loop interleave.
OneLoopAtATime == \A m, n \in Sessions : LoopAlive(m) /\ LoopAlive(n) => m = n

\* nativeGstPipelineDestroy lets go of a server, its loop and context only after the
\* thread that runs them has ended.
ReleasedAfterExit ==
  \A o \in Owners : At(o, "stopped") /\ local[o] # 0 => loop[local[o]] = "exited"

\* Between calls the last status reported tells whether a server runs: no
\* "client_connected" of a session comes after its "stopped", and no "stopped"
\* after the next session's "ready".
StatusTellsState ==
  (\A o \in Owners : At(o, "idle")) =>
    (s_server # 0 <=> status \in {"ready", "client_connected"})

\* As long as no connection outlasts its session, the globals are the current
\* session's: its client count, its media's appsrc, no other media's pipeline, and
\* a time base taken from this media and not the one before it.
BooksAreExact ==
  ~clientsLinger /\ s_server # 0 =>
    /\ s_client_count = clients[s_server]
    /\ s_appsrc = media[s_server]
    /\ s_full_pipeline \in {0, media[s_server]}
    /\ s_pts_base \in {0, media[s_server]}

\* on_client_play_request: "s_full_pipeline is always NULL or == full_pipeline here -
\* never a different stale pipeline".
FullPipelineNeverStale ==
  \A n \in Sessions : Attached(n) /\ media[n] # 0 => s_full_pipeline \in {0, media[n]}

\* A Destroy that tells a running loop to quit returns, whatever the clients do.
DestroyOfRunningLoopReturns ==
  \A o \in Owners :
    At(o, "quit") /\ local[o] # 0 /\ loop[local[o]] = "running" ~> At(o, "idle")

\* nativeGstPipelineDestroy "quits the GMainLoop, joins the loop thread, and releases
\* all GStreamer/GLib resources": every call of it returns.
DestroyReturns == \A o \in Owners : At(o, "quit") ~> At(o, "idle")

-----------------------------------------------------------------------------
(* The inductive invariant, as long as callers take turns.                  *)

\* A caller that has no pipeline and is in no call.
Out(o) == At(o, "idle") /\ ~mGstPipelineStarted[o]

\* One begins when the others are out, as a single Camera2GstStreamer always does.
TakeTurns == \A o, p \in Owners : Out(o) \/ Out(p) \/ o = p

\* Sessions that have not been, and the last one.
SessionInv ==
  /\ s_server \in {0, sessions}
  /\ \A n \in Sessions : n > sessions => loop[n] = "none" /\ ~accepting[n]
                                        /\ clients[n] = 0 /\ media[n] = 0
  /\ \A n \in Sessions : n <= sessions => loop[n] # "none"
  /\ \A n \in Sessions : n < sessions => loop[n] = "exited"
  /\ \A n \in Sessions : accepting[n] =>
       loop[n] \in {"running", "quitting", "leaving"} /\ clients[n] > 0

\* No loop is left when all are out, ...
IdleInv ==
  (\A o \in Owners : Out(o)) =>
    /\ s_server = 0 /\ (\A n \in Sessions : ~LoopAlive(n)) /\ ~s_loop_tid_valid
    /\ status \in {"unspecified", "stopped"}

\* ... and where a caller is tells what became of the loop it started.
CallerOf(o) ==
  /\ At(o, "idle") /\ mGstPipelineStarted[o] =>
       s_server = sessions /\ s_server # 0 /\ loop[s_server] \in {"created", "running"}
       /\ s_loop_tid = s_server /\ s_loop_tid_valid
       /\ status \in {"ready", "client_connected"}
  /\ At(o, "ready") =>
       ~mGstPipelineStarted[o] /\ s_server = sessions /\ s_server # 0
       /\ loop[s_server] \in {"created", "running"}
       /\ s_loop_tid = s_server /\ s_loop_tid_valid
  /\ pc[o] \notin {"idle", "ready"} =>
       mGstPipelineStarted[o] /\ s_server = 0 /\ local[o] = sessions /\ sessions # 0
  /\ At(o, "quit") => loop[local[o]] \in {"created", "running"}
  /\ pc[o] \in {"quit", "join", "joining"} => s_loop_tid = local[o] /\ s_loop_tid_valid
  /\ At(o, "joining") => joining[o] = local[o]
  /\ At(o, "stopped") => loop[local[o]] = "exited" /\ ~s_loop_tid_valid

CallerInv == \A o \in Owners : CallerOf(o)

\* What the globals say of the only session that can have connections.
BooksInv ==
  ~clientsLinger =>
    /\ \A n \in Sessions : n # sessions => clients[n] = 0 /\ media[n] = 0
    /\ sessions = 0 => s_appsrc = 0 /\ s_full_pipeline = 0 /\ s_client_count = 0
    /\ sessions # 0 =>
         /\ s_appsrc \in {0, media[sessions]}
         /\ s_full_pipeline \in {0, media[sessions]}
         /\ s_pts_base \in {0, media[sessions]}
         /\ s_client_count <= clients[sessions]
    /\ s_server # 0 => s_appsrc = media[s_server] /\ s_client_count = clients[s_server]

ServerInv == SessionInv /\ IdleInv /\ CallerInv /\ BooksInv
=============================================================================
