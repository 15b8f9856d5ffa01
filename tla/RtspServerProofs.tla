--------------------------- MODULE RtspServerProofs ---------------------------
(***************************************************************************)
(* RtspServer for any number of callers, sessions, connections and media.  *)
(* Types hold whoever calls; the rest holds as long as callers take turns, *)
(* which keeps one Destroy apart from the next Init.  A single             *)
(* Camera2GstStreamer does so, its methods being synchronized.             *)
(***************************************************************************)
EXTENDS RtspServer, TLAPS

LEMMA Booleans == \A b : (b = TRUE \/ b = FALSE) => b \in BOOLEAN
  OBVIOUS

\* Every variable keeps its type, for any set of callers.
THEOREM TypeCorrect == Spec => []TypeOK
<1> USE ServerAssumption DEF ServerAssumption, Sessions, Media, At, Goto
<1>1. Init => TypeOK
  <2> SUFFICES ASSUME Init PROVE TypeOK
    OBVIOUS
  <2>1. /\ s_loop_tid_valid \in BOOLEAN
        /\ mGstPipelineStarted \in [Owners -> BOOLEAN]
        /\ accepting \in [Sessions -> BOOLEAN]
        /\ clientsLinger \in BOOLEAN
    BY Booleans DEF Init
  <2> QED
    BY <2>1 DEF Init, TypeOK
<1>2. TypeOK /\ [Next]_vars => TypeOK'
  <2> SUFFICES ASSUME TypeOK, [Next]_vars PROVE TypeOK'
    OBVIOUS
  <2> USE DEF TypeOK, server, path, caller, rtsp, counts, rest
  <2>1. ASSUME NEW o \in Owners, PipelineInit(o) PROVE TypeOK'
    BY <2>1, Booleans DEF PipelineInit
  <2>2. ASSUME NEW o \in Owners, ReportReady(o) PROVE TypeOK'
    BY <2>2 DEF ReportReady
  <2>3. ASSUME NEW o \in Owners, DestroyClear(o) PROVE TypeOK'
    BY <2>3 DEF DestroyClear
  <2>4. ASSUME NEW o \in Owners, DestroyQuit(o) PROVE TypeOK'
    BY <2>4 DEF DestroyQuit
  <2>5. ASSUME NEW o \in Owners, DestroyJoin(o) PROVE TypeOK'
    BY <2>5 DEF DestroyJoin
  <2>6. ASSUME NEW o \in Owners, DestroyJoined(o) PROVE TypeOK'
    BY <2>6, Booleans DEF DestroyJoined
  <2>7. ASSUME NEW o \in Owners, ReportStopped(o) PROVE TypeOK'
    BY <2>7 DEF ReportStopped
  <2>8. ASSUME NEW n \in Sessions, LoopStep(n) PROVE TypeOK'
    <3>1. CASE LoopRun(n)
      BY <3>1 DEF LoopRun
    <3>2. CASE LoopExit(n)
      BY <3>2 DEF LoopExit
    <3>3. CASE ReportConnected(n)
      <4>1. accepting' \in [Sessions -> BOOLEAN]
        BY <3>3, Booleans DEF ReportConnected
      <4> QED
        BY <3>3, <4>1 DEF ReportConnected
    <3> QED
      BY <2>8, <3>1, <3>2, <3>3 DEF LoopStep
  <2>9. ASSUME NEW n \in Sessions, ClientConnected(n) PROVE TypeOK'
    <3>1. accepting' \in [Sessions -> BOOLEAN]
      BY <2>9, Booleans DEF ClientConnected
    <3>2. clients' \in [Sessions -> Nat] /\ s_client_count' \in Nat
      BY <2>9 DEF ClientConnected
    <3> QED
      BY <2>9, <3>1, <3>2 DEF ClientConnected
  <2>10. ASSUME NEW n \in Sessions, MediaConfigure(n) PROVE TypeOK'
    <3>1. medias' \in 0 .. MaxMedia
      BY <2>10 DEF MediaConfigure
    <3> QED
      BY <2>10, <3>1 DEF MediaConfigure
  <2>11. ASSUME NEW n \in Sessions, PlayRequest(n) PROVE TypeOK'
    BY <2>11 DEF PlayRequest
  <2>12. ASSUME NEW n \in Sessions, MediaUnprepared(n) PROVE TypeOK'
    BY <2>12 DEF MediaUnprepared
  <2>13. ASSUME NEW n \in Sessions, ClientClosed(n) PROVE TypeOK'
    <3>1. clients[n] - 1 \in Nat /\ s_client_count' \in Nat
      BY <2>13 DEF ClientClosed, Attached
    <3> QED
      BY <2>13, <3>1 DEF ClientClosed
  <2>14. CASE PushArmsBase
    BY <2>14 DEF PushArmsBase
  <2>15. CASE UNCHANGED vars
    BY <2>15 DEF vars
  <2> QED
    BY <2>1, <2>2, <2>3, <2>4, <2>5, <2>6, <2>7, <2>8, <2>9, <2>10, <2>11, <2>12,
       <2>13, <2>14, <2>15 DEF Next, DestroyStep, SessionEvent
<1> QED
  BY <1>1, <1>2, PTL DEF Spec

-----------------------------------------------------------------------------
(* The inductive invariant, conjunct by conjunct, while callers take turns. *)

\* The only caller always takes its turn.
LEMMA OneCallerTakesTurns == ASSUME \A o, p \in Owners : o = p PROVE TakeTurns
  BY DEF TakeTurns

\* While one is in a call or has a pipeline, the others are out and stay so.
LEMMA OthersAreOut ==
  ASSUME TypeOK, TakeTurns, TakeTurns', NEW o \in Owners,
         \/ PipelineInit(o) \/ ReportReady(o) \/ DestroyClear(o) \/ DestroyStep(o)
  PROVE  \A p \in Owners : p # o => Out(p) /\ Out(p)'
<1> SUFFICES ASSUME NEW p \in Owners, p # o PROVE Out(p) /\ Out(p)'
  OBVIOUS
<1>1. pc'[p] = pc[p] /\ mGstPipelineStarted'[p] = mGstPipelineStarted[p]
  BY DEF PipelineInit, ReportReady, DestroyClear, DestroyStep, DestroyQuit, DestroyJoin,
         DestroyJoined, ReportStopped, Goto, TypeOK
<1>2. Out(p) <=> Out(p)'
  BY <1>1, Zenon DEF Out, At
<1>3. ~Out(o) \/ ~Out(o)'
  BY DEF PipelineInit, ReportReady, DestroyClear, DestroyStep, DestroyQuit, DestroyJoin,
         DestroyJoined, ReportStopped, Goto, TypeOK, Out, At
<1> QED
  BY <1>2, <1>3 DEF TakeTurns

LEMMA InitEstablishes == Init => ServerInv
<1> SUFFICES ASSUME Init PROVE ServerInv
  OBVIOUS
<1>1. SessionInv
  <2>1. \A n \in Sessions : ~accepting[n] /\ loop[n] = "none" /\ clients[n] = 0 /\ media[n] = 0
    BY DEF Init
  <2>2. \A n \in Sessions : n > 0
    BY ServerAssumption DEF ServerAssumption, Sessions
  <2>3. s_server = 0 /\ sessions = 0
    BY DEF Init
  <2> QED
    BY <2>1, <2>2, <2>3 DEF SessionInv, Sessions
<1>2. IdleInv /\ CallerInv
  BY DEF Init, IdleInv, CallerInv, CallerOf, At, Out, LoopAlive
<1>3. BooksInv
  BY DEF Init, BooksInv
<1> QED
  BY <1>1, <1>2, <1>3 DEF ServerInv

\* Nothing is said of a caller that is out.
LEMMA OutIsCallerOf == \A p : (Out(p) => CallerOf(p)) /\ (Out(p)' => CallerOf(p)')
<1>1. \A p : Out(p) => CallerOf(p)
  BY DEF Out, CallerOf, At
<1>2. \A p : Out(p)' => CallerOf(p)'
  BY DEF Out, CallerOf, At
<1> QED
  BY <1>1, <1>2

\* What a step of the caller does to the sessions and the caller itself.
LEMMA CallerSteps ==
  ASSUME TakeTurns, TakeTurns', TypeOK, ServerInv, NEW o \in Owners,
         \/ PipelineInit(o) \/ ReportReady(o) \/ DestroyClear(o) \/ DestroyStep(o)
  PROVE  SessionInv' /\ IdleInv' /\ CallerInv'
<1>a. \A p \in Owners : p # o => Out(p) /\ Out(p)'
  BY OthersAreOut
<1>b. ASSUME CallerOf(o)' PROVE CallerInv'
  BY <1>a, <1>b, OutIsCallerOf DEF CallerInv
<1>c. CallerOf(o)
  BY DEF ServerInv, CallerInv
<1> USE ServerAssumption DEF ServerAssumption, TypeOK, ServerInv, SessionInv, Sessions,
        At, Goto, server, path, caller, rtsp, counts, rest, LoopAlive
<1>1. CASE PipelineInit(o)
  <2>1. sessions' = sessions + 1 /\ sessions' \in Sessions
    BY <1>1 DEF PipelineInit
  <2>2. \A n \in Sessions : loop[n] \in {"none", "exited"}
    <3>1. Out(o)
      BY <1>1 DEF PipelineInit, Out
    <3> QED
      BY <1>a, <3>1 DEF IdleInv
  <2>3. \A n \in Sessions : n <= sessions => loop[n] = "exited"
    BY <2>2
  <2>4. SessionInv'
    BY <1>1, <2>1, <2>3 DEF PipelineInit
  <2>5. CallerOf(o)' /\ ~Out(o)'
    BY <1>1, <1>c, <2>1 DEF PipelineInit, CallerOf, Out
  <2> QED
    BY <1>b, <2>4, <2>5 DEF IdleInv
<1>2. CASE ReportReady(o)
  <2>1. SessionInv'
    BY <1>2 DEF ReportReady
  <2>2. CallerOf(o)' /\ ~Out(o)'
    BY <1>2, <1>c DEF ReportReady, CallerOf, Out
  <2> QED
    BY <1>b, <2>1, <2>2 DEF IdleInv
<1>3. CASE DestroyClear(o)
  <2>1. SessionInv'
    BY <1>3 DEF DestroyClear
  <2>2. CallerOf(o)' /\ ~Out(o)'
    BY <1>3, <1>c DEF DestroyClear, CallerOf, Out
  <2> QED
    BY <1>b, <2>1, <2>2 DEF IdleInv
<1>4. CASE DestroyQuit(o)
  <2>1. SessionInv'
    BY <1>4, <1>c DEF DestroyQuit, CallerOf
  <2>2. CallerOf(o)' /\ ~Out(o)'
    BY <1>4, <1>c DEF DestroyQuit, CallerOf, Out
  <2> QED
    BY <1>b, <2>1, <2>2 DEF IdleInv
<1>5. CASE DestroyJoin(o)
  <2>1. SessionInv'
    BY <1>5 DEF DestroyJoin
  <2>2. CallerOf(o)' /\ ~Out(o)'
    BY <1>5, <1>c DEF DestroyJoin, CallerOf, Out
  <2> QED
    BY <1>b, <2>1, <2>2 DEF IdleInv
<1>6. CASE DestroyJoined(o)
  <2>1. joining[o] = local[o] /\ local[o] = sessions /\ sessions # 0
    BY <1>6, <1>c DEF DestroyJoined, CallerOf
  <2>2. s_loop_tid_valid' = FALSE /\ loop[local[o]] = "exited"
    BY <1>6, <2>1 DEF DestroyJoined
  <2>3. SessionInv'
    BY <1>6 DEF DestroyJoined
  <2>4. CallerOf(o)' /\ ~Out(o)'
    BY <1>6, <1>c, <2>1, <2>2 DEF DestroyJoined, CallerOf, Out
  <2> QED
    BY <1>b, <2>3, <2>4 DEF IdleInv
<1>7. CASE ReportStopped(o)
  <2>1. /\ local[o] = sessions /\ loop[local[o]] = "exited"
        /\ s_server = 0 /\ ~s_loop_tid_valid
    BY <1>7, <1>c DEF ReportStopped, CallerOf
  <2>2. \A n \in Sessions : loop[n] \in {"none", "exited"}
    BY <2>1
  <2>3. pc' = [pc EXCEPT ![o] = "idle"] /\ status' = "stopped"
        /\ UNCHANGED <<s_server, s_loop_tid_valid, loop, accepting, clients, media, sessions>>
    BY <1>7 DEF ReportStopped
  <2>4. Out(o)'
    <3>1. pc'[o] = "idle"
      BY <2>3
    <3>2. ~mGstPipelineStarted'[o]
      BY <1>7 DEF ReportStopped
    <3> QED
      BY <3>1, <3>2 DEF Out
  <2>5. SessionInv'
    BY <2>3
  <2>6. IdleInv'
    BY <2>1, <2>2, <2>3 DEF IdleInv
  <2> QED
    BY <1>b, <2>4, <2>5, <2>6, OutIsCallerOf
<1> QED
  BY <1>1, <1>2, <1>3, <1>4, <1>5, <1>6, <1>7 DEF DestroyStep

\* What the loop thread and the connections do to them.
LEMMA SessionSteps ==
  ASSUME TypeOK, ServerInv, NEW n \in Sessions, LoopStep(n) \/ SessionEvent(n)
  PROVE  SessionInv' /\ IdleInv' /\ CallerInv'
<1>a. loop[n] \in {"created", "running", "quitting", "leaving"} => ~\A o \in Owners : Out(o)
  BY DEF ServerInv, IdleInv, LoopAlive
<1>b. \A o \in Owners : CallerOf(o)
  BY DEF ServerInv, CallerInv
<1> USE ServerAssumption DEF ServerAssumption, TypeOK, ServerInv, SessionInv, Sessions,
        At, Out, server, path, caller, rtsp, counts, rest, LoopAlive, CallerInv, CallerOf,
        IdleInv
<1>0. n <= sessions
  BY DEF LoopStep, LoopRun, LoopExit, ReportConnected, SessionEvent, ClientConnected,
         MediaConfigure, PlayRequest, MediaUnprepared, ClientClosed, Attached
<1>1. CASE LoopRun(n)
  <2>1. SessionInv'
    BY <1>0, <1>1 DEF LoopRun
  <2>2. IdleInv'
    BY <1>a, <1>1 DEF LoopRun
  <2>3. CallerInv'
    <3> SUFFICES ASSUME NEW o \in Owners PROVE CallerOf(o)'
      OBVIOUS
    <3> QED
      BY <1>b, <1>1 DEF LoopRun
  <2> QED
    BY <2>1, <2>2, <2>3
<1>2. CASE LoopExit(n)
  <2>1. SessionInv'
    BY <1>0, <1>2 DEF LoopExit
  <2>2. IdleInv'
    BY <1>a, <1>2 DEF LoopExit
  <2>3. CallerInv'
    <3> SUFFICES ASSUME NEW o \in Owners PROVE CallerOf(o)'
      OBVIOUS
    <3> QED
      BY <1>b, <1>2 DEF LoopExit
  <2> QED
    BY <2>1, <2>2, <2>3
<1>3. CASE ReportConnected(n)
  <2>1. accepting'[n] = FALSE
    BY <1>3 DEF ReportConnected
  <2>2. SessionInv'
    BY <1>0, <1>3, <2>1 DEF ReportConnected
  <2>3. loop[n] \in {"running", "quitting", "leaving"}
    BY <1>0, <1>3 DEF ReportConnected
  <2>4. IdleInv'
    BY <1>a, <1>3, <2>3 DEF ReportConnected
  <2>5. CallerInv'
    <3> SUFFICES ASSUME NEW o \in Owners PROVE CallerOf(o)'
      OBVIOUS
    <3> QED
      BY <1>b, <1>3 DEF ReportConnected
  <2> QED
    BY <2>2, <2>4, <2>5
<1>4. CASE ClientConnected(n)
  <2>1. clients'[n] > 0 /\ loop'[n] \in {"running", "leaving"}
    BY <1>4 DEF ClientConnected
  <2>2. SessionInv'
    BY <1>0, <1>4, <2>1 DEF ClientConnected
  <2>3. IdleInv'
    BY <1>a, <1>4 DEF ClientConnected
  <2>4. CallerInv'
    <3> SUFFICES ASSUME NEW o \in Owners PROVE CallerOf(o)'
      OBVIOUS
    <3>1. /\ pc' = pc /\ local' = local /\ joining' = joining
          /\ mGstPipelineStarted' = mGstPipelineStarted /\ s_loop_tid_valid' = s_loop_tid_valid
          /\ s_server' = s_server /\ s_loop_tid' = s_loop_tid /\ sessions' = sessions
          /\ status' = status
      BY <1>4 DEF ClientConnected
    <3>2. \A m : m \in Sessions /\ loop[m] \in {"created", "running"}
                 => loop'[m] \in {"created", "running"}
      BY <1>4 DEF ClientConnected
    <3>3. \A m \in Sessions : loop[m] = "exited" => loop'[m] = "exited"
      BY <1>4 DEF ClientConnected
    <3>4. sessions # 0 => sessions \in Sessions
      OBVIOUS
    <3>5. At(o, "idle") /\ mGstPipelineStarted[o] =>
            s_server = sessions /\ s_server # 0 /\ loop'[s_server] \in {"created", "running"}
            /\ s_loop_tid = s_server /\ s_loop_tid_valid
            /\ status \in {"ready", "client_connected"}
      BY <1>b, <3>2, <3>4
    <3>6. At(o, "ready") =>
            ~mGstPipelineStarted[o] /\ s_server = sessions /\ s_server # 0
            /\ loop'[s_server] \in {"created", "running"}
            /\ s_loop_tid = s_server /\ s_loop_tid_valid
      BY <1>b, <3>2, <3>4
    <3>7. At(o, "quit") => loop'[local[o]] \in {"created", "running"}
      <4> SUFFICES ASSUME At(o, "quit") PROVE loop'[local[o]] \in {"created", "running"}
        OBVIOUS
      <4>1. local[o] = sessions /\ sessions # 0
        BY <1>b
      <4>2. loop[local[o]] \in {"created", "running"}
        BY <1>b, Zenon DEF CallerOf
      <4> QED
        BY <3>2, <3>4, <4>1, <4>2
    <3>8. At(o, "stopped") => loop'[local[o]] = "exited" /\ ~s_loop_tid_valid
      BY <1>b, <3>3, <3>4
    <3> QED
      BY <1>b, <3>1, <3>5, <3>6, <3>7, <3>8, SMTT(60)
  <2> QED
    BY <2>2, <2>3, <2>4
<1>5. CASE MediaConfigure(n)
  BY <1>0, <1>5 DEF MediaConfigure
<1>6. CASE PlayRequest(n)
  BY <1>0, <1>6 DEF PlayRequest
<1>7. CASE MediaUnprepared(n)
  BY <1>0, <1>7 DEF MediaUnprepared
<1>8. CASE ClientClosed(n)
  BY <1>0, <1>8 DEF ClientClosed, Attached
<1> QED
  BY <1>1, <1>2, <1>3, <1>4, <1>5, <1>6, <1>7, <1>8 DEF LoopStep, SessionEvent

\* The globals stay the books of the one session that can have connections.
LEMMA BooksSteps ==
  ASSUME TypeOK, ServerInv, Next
  PROVE  BooksInv'
<1> USE ServerAssumption DEF ServerAssumption, TypeOK, SessionInv, BooksInv, Sessions,
        Media, server, path, caller, rtsp, counts, rest
<1> SUFFICES ASSUME ~clientsLinger' PROVE BooksInv'
  OBVIOUS
<1>0. ~clientsLinger /\ SessionInv /\ BooksInv
  BY DEF ServerInv, Next, PipelineInit, ReportReady, DestroyClear, DestroyStep,
         DestroyQuit, DestroyJoin, DestroyJoined, ReportStopped, LoopStep, LoopRun,
         LoopExit, ReportConnected, SessionEvent, ClientConnected, MediaConfigure,
         PlayRequest, MediaUnprepared, ClientClosed, PushArmsBase
<1>1. ASSUME NEW o \in Owners, PipelineInit(o) PROVE BooksInv'
  BY <1>0, <1>1 DEF PipelineInit, Drained
<1>2. ASSUME NEW o \in Owners, DestroyClear(o) PROVE BooksInv'
  BY <1>0, <1>2 DEF DestroyClear
<1>3. ASSUME NEW o \in Owners, ReportReady(o) \/ DestroyStep(o) PROVE BooksInv'
  BY <1>0, <1>3 DEF ReportReady, DestroyStep, DestroyQuit, DestroyJoin, DestroyJoined,
                    ReportStopped
<1>4. ASSUME NEW n \in Sessions, LoopStep(n) PROVE BooksInv'
  BY <1>0, <1>4 DEF LoopStep, LoopRun, LoopExit, ReportConnected
<1>5. ASSUME NEW n \in Sessions, SessionEvent(n) PROVE BooksInv'
  <2>0. n = sessions
    <3>1. clients[n] # 0 \/ media[n] # 0 \/ loop[n] \in {"running", "quitting"}
      BY <1>5 DEF SessionEvent, ClientConnected, MediaConfigure, PlayRequest,
                  MediaUnprepared, ClientClosed, Attached
    <3> QED
      BY <1>0, <3>1
  <2>1. CASE ClientConnected(n)
    BY <1>0, <2>0, <2>1 DEF ClientConnected
  <2>2. CASE MediaConfigure(n)
    BY <1>0, <2>0, <2>2 DEF MediaConfigure
  <2>3. CASE PlayRequest(n)
    BY <1>0, <2>0, <2>3 DEF PlayRequest
  <2>4. CASE MediaUnprepared(n)
    BY <1>0, <2>0, <2>4 DEF MediaUnprepared
  <2>5. CASE ClientClosed(n)
    BY <1>0, <2>0, <2>5 DEF ClientClosed, Attached
  <2> QED
    BY <1>5, <2>1, <2>2, <2>3, <2>4, <2>5 DEF SessionEvent
<1>6. CASE PushArmsBase
  BY <1>0, <1>6 DEF PushArmsBase
<1> QED
  BY <1>1, <1>2, <1>3, <1>4, <1>5, <1>6 DEF Next

\* The inductive invariant: where the caller whose turn it is is decides which loop is
\* alive, and which session the globals and the last status speak of.
THEOREM ServerInvHolds == Spec /\ []TakeTurns => []ServerInv
<1>1. Init => ServerInv
  BY InitEstablishes
<1>2. TypeOK /\ ServerInv /\ TakeTurns /\ TakeTurns' /\ [Next]_vars => ServerInv'
  <2> SUFFICES ASSUME TypeOK, ServerInv, TakeTurns, TakeTurns', [Next]_vars PROVE ServerInv'
    OBVIOUS
  <2>1. CASE Next
    <3>1. SessionInv' /\ IdleInv' /\ CallerInv'
      <4>1. CASE PushArmsBase
        BY <4>1 DEF PushArmsBase, ServerInv, SessionInv, IdleInv, CallerInv, CallerOf, At,
                    Out, LoopAlive, server, caller, rtsp, counts, rest
      <4> QED
        BY <2>1, <4>1, CallerSteps, SessionSteps DEF Next
    <3> QED
      BY <2>1, <3>1, BooksSteps DEF ServerInv
  <2>2. CASE UNCHANGED vars
    BY <2>2 DEF vars, ServerInv, SessionInv, IdleInv, CallerInv, CallerOf, BooksInv, At,
                Out, LoopAlive, server, path, caller, rtsp, counts, rest
  <2> QED
    BY <2>1, <2>2
<1> QED
  BY <1>1, <1>2, TypeCorrect, PTL DEF Spec

\* With a single caller it holds without a condition.
THEOREM ServerInvOfOne == ASSUME \A o, p \in Owners : o = p PROVE Spec => []ServerInv
<1>1. TakeTurns
  BY OneCallerTakesTurns
<1> QED
  BY <1>1, ServerInvHolds, PTL

-----------------------------------------------------------------------------
(* What follows from it.                                                    *)

\* While callers take turns there is one main loop at a time.
THEOREM OneLoop == Spec /\ []TakeTurns => []OneLoopAtATime
<1>1. TypeOK /\ ServerInv => OneLoopAtATime
  BY DEF TypeOK, ServerInv, SessionInv, OneLoopAtATime, LoopAlive, Sessions
<1> QED
  BY <1>1, TypeCorrect, ServerInvHolds, PTL

\* While callers take turns Destroy frees a loop and its server only once the loop has
\* ended.
THEOREM Released == Spec /\ []TakeTurns => []ReleasedAfterExit
<1>1. ServerInv => ReleasedAfterExit
  BY DEF ServerInv, CallerInv, CallerOf, ReleasedAfterExit, At
<1> QED
  BY <1>1, ServerInvHolds, PTL

\* While callers take turns the last status agrees with the server between calls.
THEOREM StatusIsTrue == Spec /\ []TakeTurns => []StatusTellsState
<1>1. ServerInv => StatusTellsState
  <2> SUFFICES ASSUME ServerInv, \A o \in Owners : At(o, "idle")
               PROVE  s_server # 0 <=> status \in {"ready", "client_connected"}
    BY DEF StatusTellsState
  <2>1. CASE \E o \in Owners : mGstPipelineStarted[o]
    BY <2>1 DEF ServerInv, CallerInv, CallerOf
  <2>2. CASE \A o \in Owners : ~mGstPipelineStarted[o]
    BY <2>2 DEF ServerInv, IdleInv, Out
  <2> QED
    BY <2>1, <2>2
<1> QED
  BY <1>1, ServerInvHolds, PTL

\* While callers take turns, and no connection outlasts its session, the globals are the
\* current session's.
THEOREM Books == Spec /\ []TakeTurns => []BooksAreExact
<1>1. ServerInv => BooksAreExact
  BY DEF ServerInv, SessionInv, BooksInv, BooksAreExact
<1> QED
  BY <1>1, ServerInvHolds, PTL
=============================================================================
