---------------------------- MODULE DebugCommands ----------------------------
(***************************************************************************)
(* The debug command dispatcher, cam2_streamout_debug.cpp.                 *)
(*                                                                         *)
(* A gRPC thread hands a line to jniRtspServerDebug, which copies it and   *)
(* has cam2_streamer_debug take it apart with strtok: a prefix, the name   *)
(* of a command, its arguments.  gRPC runs calls side by side, but strtok  *)
(* has one static pointer to where it stopped: a thread may go on in the   *)
(* line of another, or in a copy that has been freed.  Commands that       *)
(* change a setting call a static setter of Camera2GstStreamer.            *)
(*                                                                         *)
(* A token is a record of what is read from it: `words`, the words of a    *)
(* name; `int`, what strtol makes of all of it; `bps`, what strtod and a   *)
(* suffix make of it.  An int has IntRange values, a long is unbounded.    *)
(* The JNI calls on the way to a setter, which succeed here, are in        *)
(* JniBridge.                                                              *)
(***************************************************************************)
EXTENDS Integers, Sequences, FiniteSets

CONSTANTS
  Callers,      \* gRPC threads
  Lines,        \* sequences of tokens that clients send
  Rates,        \* what aacFreqIndex knows
  OpusHz,       \* 48000
  IntRange,     \* 2^32
  NoNumber,     \* `int` or `bps` of a token that is not one
  MaxCommands   \* bound: commands sent

Tokens == UNION {{l[k] : k \in DOMAIN l} : l \in Lines}

ASSUME DebugAssumption ==
  /\ MaxCommands \in Nat /\ IsFiniteSet(Callers)
  /\ IntRange \div 2 \in Nat \ {0} /\ IntRange = 2 * (IntRange \div 2)
  /\ OpusHz \in Rates /\ Rates \subseteq Nat \ {0}
  /\ Lines \subseteq Seq(Tokens) /\ NoNumber \notin Int
  /\ \A t \in Tokens : /\ t.int = NoNumber \/ t.int \in Int
                       /\ t.bps = NoNumber \/ t.bps \in Int

VARIABLES
  settings,               \* the statics, as in StreamSettings
  rateAsked,              \* was a rate set since Opus was last turned on?
  s_audio_latency_debug,
  saved,                  \* strtok's pointer: the number of a copy and a token of it
  sent,                   \* commands so far, which number the copies
  \* per caller: where it is; its line, copy and how much of that is cut off; the
  \* pointer it has read; the command; the argument; the settings when it began
  pc, line, copy, cut, ptr, command, arg, before,
  alone                   \* external, fixed: one command at a time

text      == <<line, copy, cut, ptr, saved>>
flags     == <<s_audio_latency_debug, before>>
debugVars == <<settings, rateAsked, flags, text, sent, pc, command, arg, alone>>

NULL  == [copy |-> 0, at |-> 0]
NoTok == [words |-> <<>>, int |-> NoNumber, bps |-> NoNumber]

At(c, p)   == pc[c] = p
Goto(c, p) == pc' = [pc EXCEPT ![c] = p]

\* (jint) of a long
Jint(n) == ((n + IntRange \div 2) % IntRange) - (IntRange \div 2)
Ints    == -(IntRange \div 2) .. (IntRange \div 2) - 1

Promised ==
  INSTANCE StreamSettings WITH
    BitRates  <- 0 .. (IntRange \div 2) - 1,
    settings  <- settings,
    forcing   <- Cardinality({c \in Callers : At(c, "force")}),
    rateAsked <- rateAsked

-----------------------------------------------------------------------------
(* strtok                                                                   *)

\* Where strtok goes on after the k-th token of a line.
Behind(l, n, k) == IF k < Len(l) THEN [copy |-> n, at |-> k + 1] ELSE NULL

\* jniRtspServerDebug and the first strtok, which is given the copy.
Begin(c, l) ==
  /\ At(c, "idle") /\ sent < MaxCommands
  /\ alone => \A d \in Callers : At(d, "idle")
  /\ Goto(c, IF l = <<>> THEN "end" ELSE "name")
  /\ sent' = sent + 1
  /\ line' = [line EXCEPT ![c] = l] /\ copy' = [copy EXCEPT ![c] = sent']
  /\ cut' = [cut EXCEPT ![c] = 1]
  /\ saved' = Behind(l, sent', 1)
  /\ before' = [before EXCEPT ![c] = settings]
  /\ UNCHANGED <<settings, rateAsked, s_audio_latency_debug, ptr, command, arg, alone>>

CutOff == [name |-> "cut name", arg |-> "cut arg", level |-> "cut level"]

\* strtok(NULL) reads the pointer ...
Load(c) ==
  /\ pc[c] \in {"name", "arg", "level"}
  /\ Goto(c, CutOff[pc[c]])
  /\ ptr' = [ptr EXCEPT ![c] = saved]
  /\ UNCHANGED <<settings, rateAsked, flags, line, copy, cut, saved, sent, command, arg,
                 alone>>

\* ... cuts the token off and writes the pointer.  A token that is cut off already
\* may look like the last; a freed copy may hold anything.
Token(c, tok) ==
  LET p == ptr[c]
      n == p.copy
  IN  IF p = NULL THEN tok = NoTok /\ UNCHANGED <<cut, saved>>
      ELSE IF n \notin {copy[d] : d \in Callers}
      THEN saved' \in {p, NULL} /\ UNCHANGED cut
      ELSE \E d \in Callers :
             /\ copy[d] = n /\ tok = line[d][p.at]
             /\ saved' \in {Behind(line[d], n, p.at)}
                           \cup (IF p.at <= cut[d] THEN {NULL} ELSE {})
             /\ cut' = [cut EXCEPT ![d] = IF p.at > @ THEN p.at ELSE @]

-----------------------------------------------------------------------------
(* The table of commands.                                                   *)

cam2_dbg_names ==
  << <<"PRINT", "ELEMENT", "PROPERTY">>, <<"SET", "CATEGORY", "DEBUG", "LEVEL">>,
     <<"INSPECT", "ELEMENT">>, <<"SET", "MAX", "BITRATE">>, <<"SET", "RTCP", "FEEDBACK">>,
     <<"SET", "PREFER", "H265">>, <<"SET", "STREAM", "MODE">>,
     <<"SET", "AUDIO", "SAMPLE", "RATE">>, <<"SET", "AUDIO", "CHANNELS">>,
     <<"SET", "USE", "OPUS">>, <<"SET", "AUDIO", "LATENCY", "DEBUG">>,
     <<"DUMP", "ALL", "CONFIG">>, <<"DUMP", "PIPELINE", "GRAPH">> >>

Names   == {cam2_dbg_names[i] : i \in DOMAIN cam2_dbg_names}
Unknown == <<"unknown">>

\* strncmp over the length of the name given: is it the beginning of the entry's?
Abbreviates(w, entry) ==
  Len(w) <= Len(entry) /\ \A k \in 1 .. Len(w) : w[k] = entry[k]

\* Mutant: only the first word is compared.
GetIndexFirstWord(w) ==
  LET fits == {i \in DOMAIN cam2_dbg_names : w[1] = cam2_dbg_names[i][1]}
  IN  IF fits = {} THEN Unknown
      ELSE cam2_dbg_names[CHOOSE i \in fits : \A j \in fits : i <= j]

\* cam2_streamer_debug_getIndex: the first entry that fits.
GetIndex(w) ==
  LET fits == {i \in DOMAIN cam2_dbg_names : Abbreviates(w, cam2_dbg_names[i])}
  IN  IF fits = {} THEN Unknown
      ELSE cam2_dbg_names[CHOOSE i \in fits : \A j \in fits : i <= j]

Dumps == {<<"DUMP", "ALL", "CONFIG">>, <<"DUMP", "PIPELINE", "GRAPH">>}

\* The name of the command.
Dispatch(c) ==
  /\ At(c, "cut name")
  /\ \E tok \in Tokens \cup {NoTok} :
       /\ Token(c, tok)
       /\ LET cmd == IF tok = NoTok THEN Unknown ELSE GetIndex(tok.words)
          IN  /\ command' = [command EXCEPT ![c] = cmd]
              /\ Goto(c, IF cmd = Unknown THEN "end"
                         ELSE IF cmd \in Dumps THEN "print" ELSE "arg")
  /\ UNCHANGED <<settings, rateAsked, flags, line, copy, ptr, sent, arg, alone>>

\* Its argument, and the level that SET_CATEGORY_DEBUG_LEVEL takes besides.
Argument(c) ==
  /\ pc[c] \in {"cut arg", "cut level"}
  /\ \E tok \in Tokens \cup {NoTok} :
       /\ Token(c, tok)
       /\ arg' = [arg EXCEPT ![c] = tok]
       /\ Goto(c, IF tok = NoTok THEN "end"
                  ELSE IF command[c] \in {cam2_dbg_names[1], cam2_dbg_names[3]} THEN "print"
                  ELSE IF command[c] = cam2_dbg_names[2] /\ At(c, "cut arg") THEN "level"
                  ELSE "apply")
  /\ UNCHANGED <<settings, rateAsked, flags, line, copy, ptr, sent, command, alone>>

-----------------------------------------------------------------------------
(* The handlers.                                                            *)

\* cam2_dbg_parse_bool; IsBool is its result not being -1.
IsTrue(t)  == t.words \in {<<"TRUE">>, <<"ON">>, <<"YES">>} \/ t.int = 1
IsFalse(t) == t.words \in {<<"FALSE">>, <<"OFF">>, <<"NO">>} \/ t.int = 0
IsBool(t)  == IsTrue(t) \/ IsFalse(t)

\* The ordinal that a stream mode's name or number stands for, or -1.
ModeOf(t) ==
  IF t.int # NoNumber THEN Jint(t.int)
  ELSE CASE t.words \in {<<"VIDEO", "ONLY">>, <<"VIDEO">>} -> 0
         [] t.words \in {<<"AUDIO", "ONLY">>, <<"AUDIO">>} -> 1
         [] t.words \in {<<"VIDEO", "AND", "AUDIO", "BOTH">>, <<"BOTH">>, <<"AV">>} -> 2
         [] OTHER -> -1

Calls(c, cmd) == At(c, "apply") /\ command[c] = cmd

\* One assignment to a static: everything but the settings stays.
Assign(c, s) ==
  /\ settings' = s
  /\ Goto(c, "end")
  /\ UNCHANGED <<flags, text, sent, command, arg, alone>>

\* Mutant: the unsigned value is taken for the cap.
SetMaxBitRateUnchecked(c) ==
  /\ Calls(c, <<"SET", "MAX", "BITRATE">>) /\ arg[c].bps # NoNumber
  /\ Assign(c, [settings EXCEPT !.m_maxBitRate = Jint(arg[c].bps)])
  /\ UNCHANGED rateAsked

\* setMaxBitRate makes 0, no cap, of what the cast made negative.
SetMaxBitRate(c) ==
  /\ Calls(c, <<"SET", "MAX", "BITRATE">>)
  /\ arg[c].bps # NoNumber /\ arg[c].bps >= 0
  /\ LET bps == Jint(arg[c].bps)
     IN  Assign(c, [settings EXCEPT !.m_maxBitRate = IF bps > 0 THEN bps ELSE 0])
  /\ UNCHANGED rateAsked

SetRtcpFeedback(c) ==
  /\ Calls(c, <<"SET", "RTCP", "FEEDBACK">>) /\ IsBool(arg[c])
  /\ Assign(c, [settings EXCEPT !.m_rtcpFeedback = IsTrue(arg[c])])
  /\ UNCHANGED rateAsked

SetPreferH265(c) ==
  /\ Calls(c, <<"SET", "PREFER", "H265">>) /\ IsBool(arg[c])
  /\ Assign(c, [settings EXCEPT !.m_preferH265 = IsTrue(arg[c])])
  /\ UNCHANGED rateAsked

SetStreamMode(c) ==
  /\ Calls(c, <<"SET", "STREAM", "MODE">>) /\ ModeOf(arg[c]) \in 0 .. 2
  /\ Assign(c, [settings EXCEPT !.mStreamMode = ModeOf(arg[c])])
  /\ UNCHANGED rateAsked

\* setAudioSampleRate ignores a rate that aacFreqIndex does not know.
SetAudioSampleRate(c) ==
  /\ Calls(c, <<"SET", "AUDIO", "SAMPLE", "RATE">>)
  /\ arg[c].int # NoNumber /\ arg[c].int > 0 /\ Jint(arg[c].int) \in Rates
  /\ Assign(c, [settings EXCEPT !.AUDIO_SAMPLE_RATE = Jint(arg[c].int)])
  /\ rateAsked' = TRUE

SetAudioChannels(c) ==
  /\ Calls(c, <<"SET", "AUDIO", "CHANNELS">>) /\ arg[c].int \in {1, 2}
  /\ Assign(c, [settings EXCEPT !.AUDIO_CHANNEL_COUNT = arg[c].int])
  /\ UNCHANGED rateAsked

\* Mutant: the rate is left as it is.
SetUseOpusOnly(c) ==
  /\ Calls(c, <<"SET", "USE", "OPUS">>) /\ IsBool(arg[c])
  /\ Assign(c, [settings EXCEPT !.m_useOpus = IsTrue(arg[c])])
  /\ rateAsked' = (rateAsked /\ ~IsTrue(arg[c]))

\* setUseOpus: the codec ...
SetUseOpus(c) ==
  /\ Calls(c, <<"SET", "USE", "OPUS">>) /\ IsBool(arg[c])
  /\ settings' = [settings EXCEPT !.m_useOpus = IsTrue(arg[c])]
  /\ rateAsked' = (rateAsked /\ ~IsTrue(arg[c]))
  /\ Goto(c, IF IsTrue(arg[c]) THEN "force" ELSE "end")
  /\ UNCHANGED <<flags, text, sent, command, arg, alone>>

\* ... and the rate it needs.
ForceRate(c) ==
  /\ At(c, "force")
  /\ Assign(c, [settings EXCEPT !.AUDIO_SAMPLE_RATE = OpusHz])
  /\ UNCHANGED rateAsked

\* SET_AUDIO_LATENCY_DEBUG: the native flag (OpusProbe has what goes with it) ...
SetAudioLatencyDebug(c) ==
  /\ Calls(c, <<"SET", "AUDIO", "LATENCY", "DEBUG">>) /\ IsBool(arg[c])
  /\ s_audio_latency_debug' = IsTrue(arg[c])
  /\ Goto(c, "java")
  /\ UNCHANGED <<settings, rateAsked, before, text, sent, command, arg, alone>>

\* ... and Java's.
SetJavaLatencyDebug(c) ==
  /\ At(c, "java")
  /\ Assign(c, [settings EXCEPT !.m_audioLatencyDebug = IsTrue(arg[c])])
  /\ UNCHANGED rateAsked

\* Commands that print, SET_CATEGORY_DEBUG_LEVEL, which sets a threshold of GStreamer's,
\* and arguments that are rejected leave the settings alone.
Report(c) ==
  /\ \/ At(c, "print")
     \/ /\ At(c, "apply")
        /\ LET t == arg[c]
           IN  \/ Calls(c, <<"SET", "CATEGORY", "DEBUG", "LEVEL">>)
               \/ /\ Calls(c, <<"SET", "MAX", "BITRATE">>)
                  /\ IF t.bps = NoNumber THEN TRUE ELSE t.bps < 0
               \/ Calls(c, <<"SET", "STREAM", "MODE">>) /\ ModeOf(t) \notin 0 .. 2
               \/ /\ Calls(c, <<"SET", "AUDIO", "SAMPLE", "RATE">>)
                  /\ IF t.int = NoNumber THEN TRUE
                     ELSE t.int <= 0 \/ Jint(t.int) \notin Rates
               \/ Calls(c, <<"SET", "AUDIO", "CHANNELS">>) /\ t.int \notin {1, 2}
               \/ /\ ~IsBool(t)
                  /\ command[c] \in {<<"SET", "RTCP", "FEEDBACK">>, <<"SET", "PREFER", "H265">>,
                       <<"SET", "USE", "OPUS">>, <<"SET", "AUDIO", "LATENCY", "DEBUG">>}
  /\ Assign(c, settings)
  /\ UNCHANGED rateAsked

\* The copy is freed.
End(c) ==
  /\ At(c, "end") /\ Goto(c, "idle")
  /\ line' = [line EXCEPT ![c] = <<>>] /\ copy' = [copy EXCEPT ![c] = 0]
  /\ cut' = [cut EXCEPT ![c] = 0] /\ ptr' = [ptr EXCEPT ![c] = NULL]
  /\ command' = [command EXCEPT ![c] = Unknown] /\ arg' = [arg EXCEPT ![c] = NoTok]
  /\ UNCHANGED <<settings, rateAsked, flags, saved, sent, alone>>

-----------------------------------------------------------------------------
DebugInit ==
  /\ settings = Promised!Defaults /\ rateAsked = FALSE
  /\ s_audio_latency_debug = FALSE
  /\ saved = NULL /\ sent = 0
  /\ pc = [c \in Callers |-> "idle"] /\ line = [c \in Callers |-> <<>>]
  /\ copy = [c \in Callers |-> 0] /\ cut = [c \in Callers |-> 0]
  /\ ptr = [c \in Callers |-> NULL]
  /\ command = [c \in Callers |-> Unknown] /\ arg = [c \in Callers |-> NoTok]
  /\ before = [c \in Callers |-> settings]
  /\ alone \in BOOLEAN

DebugNext ==
  \E c \in Callers :
    \/ \E l \in Lines : Begin(c, l)
    \/ Load(c) \/ Dispatch(c) \/ Argument(c) \/ Report(c) \/ End(c)
    \/ SetMaxBitRate(c) \/ SetRtcpFeedback(c) \/ SetPreferH265(c) \/ SetStreamMode(c)
    \/ SetAudioSampleRate(c) \/ SetAudioChannels(c) \/ SetUseOpus(c) \/ ForceRate(c)
    \/ SetAudioLatencyDebug(c) \/ SetJavaLatencyDebug(c)

DebugSpec == DebugInit /\ [][DebugNext]_debugVars

-----------------------------------------------------------------------------
(* Properties.                                                              *)

Pointers == {NULL} \cup [copy : 1 .. sent, at : Nat \ {0}]

DebugTypeOK ==
  /\ settings \in Promised!Settings /\ rateAsked \in BOOLEAN
  /\ s_audio_latency_debug \in BOOLEAN
  /\ sent \in 0 .. MaxCommands /\ saved \in Pointers /\ ptr \in [Callers -> Pointers]
  /\ copy \in [Callers -> 0 .. sent] /\ cut \in [Callers -> Nat]
  /\ line \in [Callers -> Lines \cup {<<>>}] /\ arg \in [Callers -> Tokens \cup {NoTok}]
  /\ command \in [Callers -> Names \cup {Unknown}] /\ before \in [Callers -> Promised!Settings]
  /\ pc \in [Callers -> {"idle", "name", "cut name", "arg", "cut arg", "level",
                         "cut level", "print", "apply", "force", "java", "end"}]
  /\ alone \in BOOLEAN

\* However the lines of concurrent commands are torn into one another, and whatever a
\* freed copy holds, a command does no more than StreamSettings allows: a legal value
\* for one setting at a time, and the rate Opus needs.
KeepsPromise == Promised!SettingsSpec

\* The effect the list of commands gives a line, for the names it gives in full.
Asked(l, s) ==
  LET t == IF Len(l) > 2 THEN l[3] ELSE NoTok
      Is(name) == Len(l) > 1 /\ l[2].words = name
  IN  CASE Is(<<"SET", "MAX", "BITRATE">>) /\ t.bps # NoNumber /\ t.bps >= 0 ->
             [s EXCEPT !.m_maxBitRate = t.bps]
        [] Is(<<"SET", "RTCP", "FEEDBACK">>) /\ IsBool(t) ->
             [s EXCEPT !.m_rtcpFeedback = IsTrue(t)]
        [] Is(<<"SET", "PREFER", "H265">>) /\ IsBool(t) ->
             [s EXCEPT !.m_preferH265 = IsTrue(t)]
        [] Is(<<"SET", "STREAM", "MODE">>) /\ ModeOf(t) \in 0 .. 2 ->
             [s EXCEPT !.mStreamMode = ModeOf(t)]
        [] Is(<<"SET", "AUDIO", "SAMPLE", "RATE">>) /\ t.int \in Rates ->
             [s EXCEPT !.AUDIO_SAMPLE_RATE = t.int]
        [] Is(<<"SET", "AUDIO", "CHANNELS">>) /\ t.int \in {1, 2} ->
             [s EXCEPT !.AUDIO_CHANNEL_COUNT = t.int]
        [] Is(<<"SET", "USE", "OPUS">>) /\ IsBool(t) ->
             [s EXCEPT !.m_useOpus = IsTrue(t),
                       !.AUDIO_SAMPLE_RATE = IF IsTrue(t) THEN OpusHz ELSE @]
        [] Is(<<"SET", "AUDIO", "LATENCY", "DEBUG">>) /\ IsBool(t) ->
             [s EXCEPT !.m_audioLatencyDebug = IsTrue(t)]
        [] OTHER -> s

\* Full names, and numbers that an int holds.
Documented(l) ==
  /\ Len(l) > 1 => l[2].words \in Names
  /\ \A k \in DOMAIN l : /\ l[k].int = NoNumber \/ l[k].int \in Ints
                         /\ l[k].bps = NoNumber \/ l[k].bps \in Ints

\* A documented line sent while no other is under way has just the effect it is
\* documented to have, for all that earlier ones left in strtok; and "all audio-latency
\* diagnostic logging" goes on and off "in one shot", in Java and in native code.
EffectIsWhatWasAsked ==
  alone => \A c \in Callers : At(c, "end") =>
    /\ Documented(line[c]) => settings = Asked(line[c], before[c])
    /\ s_audio_latency_debug = settings.m_audioLatencyDebug
=============================================================================
