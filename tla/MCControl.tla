-------------------------------- MODULE MCControl --------------------------------
(***************************************************************************)
(* One run for the modules about debug commands, JNI, the service and      *)
(* pipeline references.  They share no variable, so a behaviour of this    *)
(* specification is one of the module that `subject` names, with the       *)
(* variables of the others at rest: the states add up, and do not          *)
(* multiply.                                                               *)
(***************************************************************************)
EXTENDS DebugCommands, JniBridge, ServiceControl, PipelineRefs

VARIABLE subject    \* fixed: the module whose behaviour this is

Word(w)      == [words |-> w, int |-> NoNumber, bps |-> NoNumber]
Number(n)    == [words |-> <<"number">>, int |-> n, bps |-> n]
Scaled(n)    == [words |-> <<"scaled">>, int |-> NoNumber, bps |-> n]
Prefix       == Word(<<"STREAMOUT">>)
Command(w, t) == <<Prefix, Word(w), t>>

\* No line, no command, an abbreviation, an unknown command; for each kind of argument
\* a command, and those that concern Opus and its rate.
MCLines == {
  <<>>,
  <<Prefix, Word(<<"SET">>), Word(<<"NO">>), Number(1)>>,
  <<Prefix, Word(<<"DUMP", "ALL", "CONFIG">>)>>,
  <<Prefix, Word(<<"HELP">>)>>,
  Command(<<"SET", "MAX", "BITRATE">>, Number(100)),
  Command(<<"SET", "MAX", "BITRATE">>, Scaled(180)),
  Command(<<"SET", "RTCP", "FEEDBACK">>, Word(<<"OFF">>)),
  Command(<<"SET", "PREFER", "H265">>, Number(0)),
  Command(<<"SET", "STREAM", "MODE">>, Word(<<"AUDIO">>)),
  Command(<<"SET", "AUDIO", "SAMPLE", "RATE">>, Number(44)),
  Command(<<"SET", "AUDIO", "CHANNELS">>, Number(2)),
  Command(<<"SET", "USE", "OPUS">>, Number(1)),
  Command(<<"SET", "AUDIO", "LATENCY", "DEBUG">>, Word(<<"TRUE">>))}

debugRests   == UNCHANGED debugVars
jniRests     == UNCHANGED jniVars
serviceRests == UNCHANGED serviceVars
refRests     == UNCHANGED refVars

\* Each property of the service needs one of the two assumptions; what holds with that
\* one alone holds with both.
ControlInit ==
  /\ DebugInit /\ JniInit /\ ServiceInit /\ RefInit
  /\ subject \in {"debug", "jni", "service", "refs"}
  /\ subject # "debug" => alone
  /\ subject # "jni" => quiet
  /\ IF subject = "service" THEN orderly # tidy ELSE orderly /\ tidy
  /\ subject # "refs" => serial

ControlNext ==
  /\ UNCHANGED subject
  /\ \/ subject = "debug" /\ DebugNext /\ jniRests /\ serviceRests /\ refRests
     \/ subject = "jni" /\ JniNext /\ debugRests /\ serviceRests /\ refRests
     \/ subject = "service" /\ ServiceNext /\ debugRests /\ jniRests /\ refRests
     \/ subject = "refs" /\ RefNext /\ debugRests /\ jniRests /\ serviceRests

ControlSpec ==
  ControlInit /\ [][ControlNext]_<<debugVars, jniVars, serviceVars, refVars, subject>>

ControlTypeOK == DebugTypeOK /\ JniTypeOK /\ ServiceTypeOK /\ RefTypeOK
=============================================================================
