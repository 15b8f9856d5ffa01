------------------------------- MODULE JniBridge -------------------------------
(***************************************************************************)
(* The ways into Java: JNI_OnLoad, JNI_OnUnload and java_stream_status in  *)
(* streamout.cpp, and the calls of cam2_streamout_debug.cpp that end in a  *)
(* static method of Camera2GstStreamer.                                    *)
(*                                                                         *)
(* JNI_OnLoad caches three classes, each as a global reference with the ID *)
(* of a method, and undoes part of that when a stage fails.  A call into   *)
(* Java may come from a Java thread, or from one of GStreamer's, which it  *)
(* attaches for its own length; it has local references to delete and      *)
(* exceptions to clear.                                                    *)
(*                                                                         *)
(* `live` is the VM's side, which global references there are; `globals`   *)
(* is the code's, which of its pointers to them are not null.              *)
(***************************************************************************)
EXTENDS Integers

CONSTANTS
  Threads,        \* threads that call into Java
  JavaThreads     \* those of them that are attached from the start

ASSUME JniAssumption == JavaThreads \subseteq Threads

VARIABLES
  live, globals, methods,   \* of the classes: referred to; cached; with a method ID
  stage,                    \* JNI_OnLoad: the class and what is being done about it
  loadLocals,               \* its local references
  \* per thread: in which call it is and where; whether attached, and by this call;
  \* local references; a pending exception
  call, step, attached, didAttach, locals, pending,
  quiet                     \* external, fixed: no call is under way at JNI_OnUnload

cache   == <<live, globals, methods>>
loading == <<stage, loadLocals>>
thread  == <<call, step, attached, didAttach, locals, pending>>
jniVars == <<cache, loading, thread, quiet>>

\* g_streamOutSvcCtrlClass, g_StrmOutGrpcServer_class and g_streamStatusEnum_class
Classes == {"svc", "grpc", "enum"}

Stages == [class : Classes, doing : {"find", "ref", "method"}]
Loaded == [class |-> "enum", doing |-> "done"]
Failed == [class |-> "enum", doing |-> "failed"]
Absent == [class |-> "svc", doing |-> "absent"]

-----------------------------------------------------------------------------
(* JNI_OnLoad and JNI_OnUnload.                                             *)

\* The stage after one that succeeds.
Following(s) ==
  IF s.doing = "find" THEN [s EXCEPT !.doing = "ref"]
  ELSE IF s.doing = "ref" THEN [s EXCEPT !.doing = "method"]
  ELSE IF s.class = "svc" THEN [class |-> "grpc", doing |-> "find"]
  ELSE IF s.class = "grpc" THEN [class |-> "enum", doing |-> "find"]
  ELSE Loaded

\* The global references a stage that fails deletes: a failure of StrmOutGrpcServer
\* leaves StreamOutSvcCtrl cached.
Dropped(s) ==
  (IF s.doing = "method" THEN {s.class} ELSE {}) \cup
  (IF s.class = "enum" THEN {"grpc"} ELSE {})

LoadBegins ==
  /\ stage = Absent /\ stage' = [class |-> "svc", doing |-> "find"]
  /\ UNCHANGED <<cache, loadLocals, thread, quiet>>

\* FindClass, NewGlobalRef with its DeleteLocalRef, Get(Static)MethodID.
LoadStep ==
  /\ stage \in Stages /\ stage' = Following(stage)
  /\ loadLocals' = IF stage.doing = "find" THEN loadLocals + 1
                   ELSE IF stage.doing = "ref" THEN loadLocals - 1 ELSE loadLocals
  /\ live' = IF stage.doing = "ref" THEN live \cup {stage.class} ELSE live
  /\ globals' = IF stage.doing = "ref" THEN globals \cup {stage.class} ELSE globals
  /\ methods' = IF stage.doing = "method" THEN methods \cup {stage.class} ELSE methods
  /\ UNCHANGED <<thread, quiet>>

\* Any of them fails, and the library is not loaded.
LoadFails ==
  /\ stage \in Stages /\ stage' = Failed
  /\ loadLocals' = IF stage.doing = "ref" THEN loadLocals - 1 ELSE loadLocals
  /\ live' = live \ Dropped(stage) /\ globals' = globals \ Dropped(stage)
  /\ UNCHANGED <<methods, thread, quiet>>

\* Mutant: the enum class is not released.
UnloadKeepsEnum ==
  /\ stage = Loaded /\ stage' = Absent
  /\ quiet => \A t \in Threads : call[t] = "none"
  /\ live' = live \ {"svc", "grpc"} /\ globals' = {} /\ methods' = {}
  /\ UNCHANGED <<loadLocals, thread, quiet>>

\* JNI_OnUnload, once the gRPC server is shut down.
Unload ==
  /\ stage = Loaded /\ stage' = Absent
  /\ quiet => \A t \in Threads : call[t] = "none"
  /\ live' = live \ globals /\ globals' = {} /\ methods' = {}
  /\ UNCHANGED <<loadLocals, thread, quiet>>

-----------------------------------------------------------------------------
(* Calls.                                                                   *)

Goes(t, from, to) == step[t] = from /\ step' = [step EXCEPT ![t] = to]

\* Mutant: the method IDs are tested, the classes are not.
StatusBeginsByMethod(t) ==
  /\ call[t] = "none" /\ stage \notin Stages
  /\ {"grpc", "enum"} \subseteq methods \cup {"enum"}
  /\ call' = [call EXCEPT ![t] = "status"] /\ step' = [step EXCEPT ![t] = "env"]
  /\ UNCHANGED <<cache, loading, attached, didAttach, locals, pending, quiet>>

\* java_stream_status, when classes and methods are cached.  JNI_OnLoad runs before
\* there is anything to report.
StatusBegins(t) ==
  /\ call[t] = "none" /\ stage \notin Stages
  /\ {"grpc", "enum"} \subseteq globals /\ {"grpc", "enum"} \subseteq methods
  /\ call' = [call EXCEPT ![t] = "status"] /\ step' = [step EXCEPT ![t] = "env"]
  /\ UNCHANGED <<cache, loading, attached, didAttach, locals, pending, quiet>>

\* A setter's call, or DUMP_ALL_CONFIG's.
DebugBegins(t) ==
  /\ call[t] = "none" /\ stage = Loaded
  /\ \E kind \in {"set", "dump"} : call' = [call EXCEPT ![t] = kind]
  /\ step' = [step EXCEPT ![t] = "env"]
  /\ UNCHANGED <<cache, loading, attached, didAttach, locals, pending, quiet>>

\* GetEnv, and AttachCurrentThread where that finds none; when it fails, that is all.
GetEnv(t) ==
  /\ step[t] = "env"
  /\ \/ /\ attached[t]
        /\ Goes(t, "env", "class")
        /\ UNCHANGED <<call, attached, didAttach>>
     \/ /\ ~attached[t]
        /\ Goes(t, "env", "class")
        /\ attached' = [attached EXCEPT ![t] = TRUE]
        /\ didAttach' = [didAttach EXCEPT ![t] = TRUE]
        /\ UNCHANGED call
     \/ /\ ~attached[t]
        /\ Goes(t, "env", "none") /\ call' = [call EXCEPT ![t] = "none"]
        /\ UNCHANGED <<attached, didAttach>>
  /\ UNCHANGED <<cache, loading, locals, pending, quiet>>

\* A function of the VM that makes a local reference, or fails: FindClass for a debug
\* command; StreamStatus.forNumber for a status, which returns null for an unknown one.
GetClass(t) ==
  /\ \/ /\ Goes(t, "class", "method")
        /\ locals' = [locals EXCEPT ![t] = @ + 1] /\ UNCHANGED pending
     \/ /\ Goes(t, "class", "clear")
        /\ pending' = [pending EXCEPT ![t] = (call[t] # "status")] /\ UNCHANGED locals
  /\ UNCHANGED <<cache, loading, call, attached, didAttach, quiet>>

\* GetStaticMethodID; NewStringUTF for a status.
GetMethod(t) ==
  /\ \/ /\ Goes(t, "method", "call")
        /\ locals' = [locals EXCEPT ![t] = IF call[t] = "status" THEN @ + 1 ELSE @]
        /\ UNCHANGED pending
     \/ /\ Goes(t, "method", "delete")
        /\ pending' = [pending EXCEPT ![t] = (call[t] # "status")]   \* cleared at once
        /\ UNCHANGED locals
  /\ UNCHANGED <<cache, loading, call, attached, didAttach, quiet>>

\* The Java method.  streamStatusFromNative catches what its observers throw; a setter
\* may throw (external); getConfigSummary returns a string, which is deleted.
CallJava(t) ==
  /\ Goes(t, "call", "delete")
  /\ \E throws \in BOOLEAN :
       /\ throws => call[t] # "status"
       /\ pending' = [pending EXCEPT ![t] = throws]
  /\ locals' = [locals EXCEPT ![t] = IF call[t] = "status" THEN @ - 1 ELSE @]
  /\ UNCHANGED <<cache, loading, call, attached, didAttach, quiet>>

\* DeleteLocalRef
Delete(t) ==
  /\ Goes(t, "delete", "clear")
  /\ locals' = [locals EXCEPT ![t] = @ - 1]
  /\ UNCHANGED <<cache, loading, call, attached, didAttach, pending, quiet>>

\* Mutant: an exception is left to the caller.
ClearNothing(t) ==
  /\ Goes(t, "clear", "detach")
  /\ UNCHANGED <<cache, loading, call, attached, didAttach, locals, pending, quiet>>

\* ExceptionClear
Clear(t) ==
  /\ Goes(t, "clear", "detach")
  /\ pending' = [pending EXCEPT ![t] = FALSE]
  /\ UNCHANGED <<cache, loading, call, attached, didAttach, locals, quiet>>

\* DetachCurrentThread, if this call attached it.
Detach(t) ==
  /\ Goes(t, "detach", "none") /\ call' = [call EXCEPT ![t] = "none"]
  /\ attached' = [attached EXCEPT ![t] = @ /\ ~didAttach[t]]
  /\ didAttach' = [didAttach EXCEPT ![t] = FALSE]
  /\ UNCHANGED <<cache, loading, locals, pending, quiet>>

-----------------------------------------------------------------------------
JniInit ==
  /\ live = {} /\ globals = {} /\ methods = {}
  /\ stage = Absent /\ loadLocals = 0
  /\ call = [t \in Threads |-> "none"] /\ step = [t \in Threads |-> "none"]
  /\ attached = [t \in Threads |-> t \in JavaThreads]
  /\ didAttach = [t \in Threads |-> FALSE]
  /\ locals = [t \in Threads |-> 0] /\ pending = [t \in Threads |-> FALSE]
  /\ quiet \in BOOLEAN

JniNext ==
  \/ LoadBegins \/ LoadStep \/ LoadFails \/ Unload
  \/ \E t \in Threads :
       \/ StatusBegins(t) \/ DebugBegins(t) \/ GetEnv(t) \/ GetClass(t) \/ GetMethod(t)
       \/ CallJava(t) \/ Delete(t) \/ Clear(t) \/ Detach(t)

JniSpec == JniInit /\ [][JniNext]_jniVars

-----------------------------------------------------------------------------
(* Properties.                                                              *)

JniTypeOK ==
  /\ live \subseteq Classes /\ globals \subseteq Classes /\ methods \subseteq Classes
  /\ stage \in Stages \cup {Loaded, Failed, Absent} /\ loadLocals \in 0 .. 1
  /\ call \in [Threads -> {"none", "status", "set", "dump"}]
  /\ step \in [Threads -> {"none", "env", "class", "method", "call", "delete", "clear",
                           "detach"}]
  /\ attached \in [Threads -> BOOLEAN] /\ didAttach \in [Threads -> BOOLEAN]
  /\ locals \in [Threads -> 0 .. 2] /\ pending \in [Threads -> BOOLEAN]
  /\ quiet \in BOOLEAN

\* Whichever stage of JNI_OnLoad fails, and after JNI_OnUnload, no global reference is
\* lost and none is kept that was deleted, and no local reference is left behind.
RefsAccounted ==
  live = globals /\ (stage \notin Stages => loadLocals = 0)

\* A status on its way to Java finds its classes alive, from the guards to the last
\* call, as long as JNI_OnUnload is quiet; a method ID without its class, as failures
\* of the enum leave one, does not let it through.
CallsUseLiveRefs ==
  quiet => \A t \in Threads : call[t] = "status" => {"grpc", "enum"} \subseteq live

\* "Detaching only what we attached avoids two bugs": between calls a thread is attached
\* if and only if it is Java's, with no local reference and no exception of theirs.
ThreadLeftAsFound ==
  \A t \in Threads : call[t] = "none" =>
    /\ attached[t] = (t \in JavaThreads)
    /\ locals[t] = 0 /\ ~pending[t]
=============================================================================
