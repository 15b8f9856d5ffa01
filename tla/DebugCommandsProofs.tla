------------------------- MODULE DebugCommandsProofs -------------------------
(***************************************************************************)
(* DebugCommands implements StreamSettings, for any callers, any lines and *)
(* any width of an int: whatever strtok hands to a handler, one setting is *)
(* assigned a value that is legal for it.  And a line that is sent while   *)
(* no other is under way has the effect it is documented to have.          *)
(***************************************************************************)
EXTENDS DebugCommands, FiniteSetTheorems, WellFoundedInduction, TLAPS

LEMMA Booleans == \A b : (b = TRUE \/ b = FALSE) => b \in BOOLEAN
  OBVIOUS

-----------------------------------------------------------------------------
(* What StreamSettings promises has this for a consequence.                 *)

PromiseInv == Promised!SettingsTypeOK /\ Promised!OpusRate

\* With Opus on, another rate than its own is asked for or about to be replaced.
THEOREM OpusRateKept == Promised!SettingsSpec => []PromiseInv
<1> USE DebugAssumption
    DEF DebugAssumption, PromiseInv, Promised!SettingsTypeOK, Promised!OpusRate,
        Promised!Settings, Promised!StreamModes, Promised!VIDEO_ONLY,
        Promised!AUDIO_ONLY, Promised!VIDEO_AND_AUDIO_BOTH
<1>1. Promised!SettingsInit => PromiseInv
  <2>1. TRUE \in BOOLEAN /\ FALSE \in BOOLEAN
    BY Booleans
  <2>2. Promised!Defaults \in Promised!Settings
    BY <2>1 DEF Promised!Defaults
  <2>3. Promised!Defaults.AUDIO_SAMPLE_RATE = OpusHz
    BY DEF Promised!Defaults
  <2> SUFFICES ASSUME Promised!SettingsInit PROVE PromiseInv
    OBVIOUS
  <2> HIDE DEF Promised!Settings
  <2>4. Promised!SettingsTypeOK
    <3>1. rateAsked \in BOOLEAN
      BY Booleans DEF Promised!SettingsInit
    <3>2. settings \in Promised!Settings
      BY <2>2 DEF Promised!SettingsInit
    <3>3. Cardinality({c \in Callers : At(c, "force")}) \in Nat
      BY DEF Promised!SettingsInit
    <3> QED
      BY <3>1, <3>2, <3>3
  <2>5. Promised!OpusRate
    BY <2>3 DEF Promised!SettingsInit
  <2> QED
    BY <2>4, <2>5
<1>2. PromiseInv /\ [Promised!SettingsNext]_Promised!settingVars => PromiseInv'
  <2> SUFFICES ASSUME PromiseInv, [Promised!SettingsNext]_Promised!settingVars
               PROVE  PromiseInv'
    OBVIOUS
  <2>1. ASSUME NEW b \in BOOLEAN, Promised!SetFlag(b) PROVE PromiseInv'
    <3>1. CASE settings' = [settings EXCEPT !.m_preferH265 = b]
      BY <2>1, <3>1 DEF Promised!SetFlag
    <3>2. CASE settings' = [settings EXCEPT !.m_rtcpFeedback = b]
      BY <2>1, <3>2 DEF Promised!SetFlag
    <3>3. CASE settings' = [settings EXCEPT !.m_audioLatencyDebug = b]
      BY <2>1, <3>3 DEF Promised!SetFlag
    <3> QED
      BY <2>1, <3>1, <3>2, <3>3 DEF Promised!SetFlag
  <2>2. ASSUME NEW b \in BOOLEAN, Promised!SetUseOpus(b) PROVE PromiseInv'
    <3>1. rateAsked' \in BOOLEAN
      BY <2>2, Booleans DEF Promised!SetUseOpus
    <3>2. settings' \in Promised!Settings
      BY <2>2 DEF Promised!SetUseOpus
    <3>3. Cardinality({c \in Callers : At(c, "force")})' \in Nat
      BY <2>2 DEF Promised!SetUseOpus
    <3>4. Promised!OpusRate'
      <4>1. CASE b
        <5>1. Cardinality({c \in Callers : At(c, "force")})' > 0
          BY <2>2, <4>1 DEF Promised!SetUseOpus
        <5> QED
          BY <5>1
      <4>2. CASE ~b
        BY <2>2, <4>2 DEF Promised!SetUseOpus
      <4> QED
        BY <4>1, <4>2
    <3> QED
      BY <3>1, <3>2, <3>3, <3>4
  <2>3. ASSUME NEW bps \in 0 .. (IntRange \div 2) - 1, Promised!SetMaxBitRate(bps)
        PROVE  PromiseInv'
    BY <2>3 DEF Promised!SetMaxBitRate
  <2>4. ASSUME NEW mode \in Promised!StreamModes, Promised!SetStreamMode(mode)
        PROVE  PromiseInv'
    BY <2>4 DEF Promised!SetStreamMode
  <2>5. ASSUME NEW rate \in Rates, Promised!SetAudioSampleRate(rate) PROVE PromiseInv'
    BY <2>5 DEF Promised!SetAudioSampleRate
  <2>6. ASSUME NEW channels \in {1, 2}, Promised!SetAudioChannelCount(channels)
        PROVE  PromiseInv'
    BY <2>6 DEF Promised!SetAudioChannelCount
  <2>7. CASE Promised!ForceRate
    BY <2>7 DEF Promised!ForceRate
  <2>8. CASE UNCHANGED Promised!settingVars
    BY <2>8 DEF Promised!settingVars
  <2> QED
    BY <2>1, <2>2, <2>3, <2>4, <2>5, <2>6, <2>7, <2>8 DEF Promised!SettingsNext
<1> QED
  BY <1>1, <1>2, PTL DEF Promised!SettingsSpec

-----------------------------------------------------------------------------
(* The calls of setUseOpus that are to force the rate.                      *)

\* Where a caller may be.
Places == {"idle", "name", "cut name", "arg", "cut arg", "level", "cut level", "print",
           "apply", "force", "java", "end"}

Forcing == {c \in Callers : At(c, "force")}

LEMMA ForcingFinite == IsFiniteSet(Forcing) /\ Cardinality(Forcing) \in Nat
<1>1. Forcing \subseteq Callers
  BY DEF Forcing
<1> QED
  BY <1>1, DebugAssumption, FS_Subset, FS_CardinalityType DEF DebugAssumption

\* A caller that goes on elsewhere leaves their number alone.
LEMMA ForcingStays ==
  ASSUME NEW c \in Callers, NEW p, pc \in [Callers -> Places], Goto(c, p),
         pc[c] # "force", p # "force"
  PROVE  Cardinality(Forcing)' = Cardinality(Forcing)
<1>1. Forcing' = Forcing
  BY DEF Forcing, At, Goto
<1> QED
  BY <1>1

LEMMA ForcingBegins ==
  ASSUME NEW c \in Callers, pc \in [Callers -> Places], Goto(c, "force"), pc[c] # "force"
  PROVE  Cardinality(Forcing)' = Cardinality(Forcing) + 1
<1>1. Forcing' = Forcing \cup {c} /\ c \notin Forcing
  BY DEF Forcing, At, Goto
<1> QED
  BY <1>1, ForcingFinite, FS_AddElement

LEMMA ForcingEnds ==
  ASSUME NEW c \in Callers, pc \in [Callers -> Places], Goto(c, "end"), pc[c] = "force"
  PROVE  Cardinality(Forcing) > 0 /\ Cardinality(Forcing)' = Cardinality(Forcing) - 1
<1>1. Forcing' = Forcing \ {c} /\ c \in Forcing
  BY DEF Forcing, At, Goto
<1>2. Cardinality(Forcing') = Cardinality(Forcing) - 1
  BY <1>1, ForcingFinite, FS_RemoveElement
<1>3. Cardinality(Forcing) # 0
  BY <1>1, ForcingFinite, FS_EmptySet
<1> QED
  BY <1>2, <1>3, ForcingFinite

-----------------------------------------------------------------------------
(* What the handlers need.                                                  *)

\* A (jint) cast yields an int.
LEMMA JintRange == \A n \in Int : Jint(n) \in Ints
<1> SUFFICES ASSUME NEW n \in Int PROVE Jint(n) \in Ints
  OBVIOUS
<1>1. PICK h \in Nat \ {0} : h = IntRange \div 2 /\ IntRange = 2 * h
  BY DebugAssumption DEF DebugAssumption
<1>2. (n + h) % (2 * h) \in 0 .. 2 * h - 1
  <2>1. \A a \in Int, b \in Nat \ {0} : a % b \in 0 .. b - 1
    OBVIOUS
  <2>2. n + h \in Int /\ 2 * h \in Nat \ {0}
    OBVIOUS
  <2> QED
    BY <2>1, <2>2
<1>3. Jint(n) = ((n + h) % (2 * h)) - h /\ Ints = -h .. h - 1
  BY <1>1 DEF Jint, Ints
<1> QED
  BY <1>2, <1>3

\* What is read as a flag is one.
LEMMA FlagsAreBoolean == \A t : IsTrue(t) \in BOOLEAN
  BY Booleans DEF IsTrue

\* The numbers of an argument are integers, whichever line it was torn from.
LEMMA ArgumentNumbers ==
  ASSUME NEW t \in Tokens \cup {NoTok}
  PROVE  /\ t.int # NoNumber => t.int \in Int
         /\ t.bps # NoNumber => t.bps \in Int
<1>1. CASE t \in Tokens
  BY <1>1, DebugAssumption DEF DebugAssumption
<1>2. CASE t = NoTok
  BY <1>2 DEF NoTok
<1> QED
  BY <1>1, <1>2

-----------------------------------------------------------------------------
(* The inductive invariant: enough of the types to know what is assigned.   *)

DebugInv ==
  /\ settings \in Promised!Settings /\ rateAsked \in BOOLEAN
  /\ arg \in [Callers -> Tokens \cup {NoTok}]
  /\ pc \in [Callers -> Places]

LEMMA InitEstablishes == DebugInit => DebugInv /\ Promised!SettingsInit
<1> SUFFICES ASSUME DebugInit PROVE DebugInv /\ Promised!SettingsInit
  OBVIOUS
<1>1. Cardinality({c \in Callers : At(c, "force")}) = 0
  <2>1. {c \in Callers : At(c, "force")} = {}
    BY DEF DebugInit, At
  <2> QED
    BY <2>1, FS_EmptySet
<1>2. Promised!SettingsInit
  BY <1>1 DEF DebugInit, Promised!SettingsInit
<1>3. Promised!Defaults \in Promised!Settings
  <2>1. TRUE \in BOOLEAN /\ FALSE \in BOOLEAN
    BY Booleans
  <2>2. OpusHz \in Rates /\ 0 \in 0 .. (IntRange \div 2) - 1
    BY DebugAssumption DEF DebugAssumption
  <2> QED
    BY <2>1, <2>2 DEF Promised!Defaults, Promised!Settings, Promised!StreamModes,
         Promised!VIDEO_ONLY, Promised!AUDIO_ONLY, Promised!VIDEO_AND_AUDIO_BOTH
<1>4. rateAsked \in BOOLEAN
  BY Booleans DEF DebugInit
<1>5. arg \in [Callers -> Tokens \cup {NoTok}]
  BY DEF DebugInit
<1>6. pc \in [Callers -> Places]
  BY DEF DebugInit, Places
<1> QED
  BY <1>2, <1>3, <1>4, <1>5, <1>6 DEF DebugInit, DebugInv

\* Steps that assign nothing are stutters of StreamSettings.
LEMMA QuietSteps ==
  ASSUME DebugInv, NEW c \in Callers,
         \/ \E l \in Lines : Begin(c, l)
         \/ Load(c) \/ Dispatch(c) \/ Argument(c) \/ Report(c) \/ End(c)
         \/ SetAudioLatencyDebug(c)
  PROVE  DebugInv' /\ UNCHANGED Promised!settingVars
<1>1. settings' = settings /\ rateAsked' = rateAsked
  BY DEF Begin, Load, Dispatch, Argument, Report, Assign, End, SetAudioLatencyDebug
<1>2. PICK p \in Places : Goto(c, p) /\ pc[c] # "force" /\ p # "force"
  <2>1. ASSUME NEW l \in Lines, Begin(c, l)
        PROVE  \E p \in Places : Goto(c, p) /\ pc[c] # "force" /\ p # "force"
    <3>1. Goto(c, IF l = <<>> THEN "end" ELSE "name") /\ pc[c] = "idle"
      BY <2>1 DEF Begin, At
    <3>2. CASE l = <<>>
      <4>1. Goto(c, "end")
        BY <3>1, <3>2
      <4> QED
        BY <3>1, <4>1 DEF Places
    <3>3. CASE l # <<>>
      <4>1. Goto(c, "name")
        BY <3>1, <3>3
      <4> QED
        BY <3>1, <4>1 DEF Places
    <3> QED
      BY <3>2, <3>3
  <2>2. CASE Load(c)
    <3>1. /\ CutOff["name"] = "cut name" /\ CutOff["arg"] = "cut arg"
          /\ CutOff["level"] = "cut level"
      BY DEF CutOff
    <3>2. Goto(c, CutOff[pc[c]]) /\ pc[c] \in {"name", "arg", "level"}
      BY <2>2 DEF Load
    <3>3. CutOff[pc[c]] \in Places \ {"force"} /\ pc[c] # "force"
      BY <3>1, <3>2 DEF Places
    <3> QED
      BY <3>2, <3>3
  <2>3. CASE Dispatch(c)
    <3>1. PICK cmd : Goto(c, IF cmd = Unknown THEN "end"
                             ELSE IF cmd \in Dumps THEN "print" ELSE "arg")
      BY <2>3 DEF Dispatch
    <3>2. Goto(c, "end") \/ Goto(c, "print") \/ Goto(c, "arg")
      BY <3>1, Zenon
    <3>3. pc[c] = "cut name"
      BY <2>3 DEF Dispatch, At
    <3> QED
      BY <3>2, <3>3 DEF Places
  <2>4. CASE Argument(c)
    <3>1. Goto(c, "end") \/ Goto(c, "print") \/ Goto(c, "level") \/ Goto(c, "apply")
      <4>1. PICK tok \in Tokens \cup {NoTok} :
              Goto(c, IF tok = NoTok THEN "end"
                      ELSE IF command[c] \in {cam2_dbg_names[1], cam2_dbg_names[3]} THEN "print"
                      ELSE IF command[c] = cam2_dbg_names[2] /\ At(c, "cut arg") THEN "level"
                      ELSE "apply")
        BY <2>4 DEF Argument
      <4> QED
        BY <4>1, Zenon
    <3>2. pc[c] \in {"cut arg", "cut level"}
      BY <2>4 DEF Argument
    <3> QED
      BY <3>1, <3>2 DEF Places
  <2>5. CASE Report(c)
    <3>1. At(c, "print") \/ At(c, "apply")
      BY <2>5 DEF Report
    <3>2. Goto(c, "end")
      BY <2>5 DEF Report, Assign
    <3> QED
      BY <3>1, <3>2 DEF At, Places
  <2>6. CASE End(c)
    <3>1. At(c, "end") /\ Goto(c, "idle")
      BY <2>6 DEF End
    <3> QED
      BY <3>1 DEF At, Places
  <2>7. CASE SetAudioLatencyDebug(c)
    <3>1. At(c, "apply") /\ Goto(c, "java")
      BY <2>7 DEF SetAudioLatencyDebug, Calls
    <3> QED
      BY <3>1 DEF At, Places
  <2> QED
    BY <2>1, <2>2, <2>3, <2>4, <2>5, <2>6, <2>7
<1>3. pc' \in [Callers -> Places]
  BY <1>2 DEF DebugInv, Goto
<1>4. arg' \in [Callers -> Tokens \cup {NoTok}]
  <2>1. CASE Argument(c)
    <3>1. PICK tok \in Tokens \cup {NoTok} : arg' = [arg EXCEPT ![c] = tok]
      BY <2>1 DEF Argument
    <3> QED
      BY <3>1 DEF DebugInv
  <2>2. CASE End(c)
    BY <2>2 DEF End, DebugInv
  <2>3. CASE ~Argument(c) /\ ~End(c)
    <3>1. arg' = arg
      BY <2>3 DEF Begin, Load, Dispatch, Report, Assign, SetAudioLatencyDebug
    <3> QED
      BY <3>1 DEF DebugInv
  <2> QED
    BY <2>1, <2>2, <2>3
<1>5. Cardinality(Forcing)' = Cardinality(Forcing)
  BY <1>2, ForcingStays DEF DebugInv
<1> QED
  BY <1>1, <1>3, <1>4, <1>5 DEF DebugInv, Promised!settingVars, Forcing

\* What is common to the handlers that assign one setting.
LEMMA Assigns ==
  ASSUME DebugInv, NEW c \in Callers, NEW s \in Promised!Settings, Assign(c, s),
         pc[c] \in {"apply", "java"}
  PROVE  /\ arg' = arg /\ pc' \in [Callers -> Places] /\ settings' = s
         /\ Cardinality(Forcing)' = Cardinality(Forcing)
<1>1. Goto(c, "end") /\ arg' = arg /\ settings' = s
  BY DEF Assign
<1>2. pc' \in [Callers -> Places]
  BY <1>1 DEF DebugInv, Goto, Places
<1> QED
  BY <1>1, <1>2, ForcingStays DEF DebugInv

\* Each handler does what StreamSettings lets the setter do.
LEMMA HandlerSteps ==
  ASSUME DebugInv, NEW c \in Callers,
         \/ SetMaxBitRate(c) \/ SetRtcpFeedback(c) \/ SetPreferH265(c) \/ SetStreamMode(c)
         \/ SetAudioSampleRate(c) \/ SetAudioChannels(c) \/ SetJavaLatencyDebug(c)
  PROVE  DebugInv' /\ Promised!SettingsNext
<1> DEFINE S == Promised!Settings
           forcing == Cardinality({d \in Callers : At(d, "force")})
<1>0. settings \in S
  BY DEF DebugInv
<1>1. CASE SetMaxBitRate(c)
  <2> DEFINE bps == IF Jint(arg[c].bps) > 0 THEN Jint(arg[c].bps) ELSE 0
             s == [settings EXCEPT !.m_maxBitRate = bps]
  <2>1. pc[c] = "apply" /\ Assign(c, s) /\ rateAsked' = rateAsked
    BY <1>1 DEF SetMaxBitRate, Calls, At
  <2>2. bps \in 0 .. (IntRange \div 2) - 1
    <3>1. arg[c].bps \in Int
      BY <1>1, ArgumentNumbers DEF SetMaxBitRate, DebugInv
    <3>2. Jint(arg[c].bps) \in Ints
      BY <3>1, JintRange
    <3> QED
      BY <3>2, DebugAssumption DEF Ints, DebugAssumption
  <2>3. s \in S
    BY <1>0, <2>2 DEF Promised!Settings
  <2>4. Promised!SetMaxBitRate(bps)
    BY <2>1, <2>3, Assigns DEF Promised!SetMaxBitRate, Forcing
  <2> QED
    BY <2>1, <2>2, <2>3, <2>4, Assigns DEF DebugInv, Promised!SettingsNext
<1>2. CASE SetRtcpFeedback(c)
  <2> DEFINE s == [settings EXCEPT !.m_rtcpFeedback = IsTrue(arg[c])]
  <2>1. pc[c] = "apply" /\ Assign(c, s) /\ rateAsked' = rateAsked
    BY <1>2 DEF SetRtcpFeedback, Calls, At
  <2>2. IsTrue(arg[c]) \in BOOLEAN
    BY FlagsAreBoolean
  <2>3. s \in S
    BY <1>0, <2>2 DEF Promised!Settings
  <2>4. Promised!SetFlag(IsTrue(arg[c]))
    BY <2>1, <2>3, Assigns DEF Promised!SetFlag, Forcing
  <2> QED
    BY <2>1, <2>2, <2>3, <2>4, Assigns DEF DebugInv, Promised!SettingsNext
<1>3. CASE SetPreferH265(c)
  <2> DEFINE s == [settings EXCEPT !.m_preferH265 = IsTrue(arg[c])]
  <2>1. pc[c] = "apply" /\ Assign(c, s) /\ rateAsked' = rateAsked
    BY <1>3 DEF SetPreferH265, Calls, At
  <2>2. IsTrue(arg[c]) \in BOOLEAN
    BY FlagsAreBoolean
  <2>3. s \in S
    BY <1>0, <2>2 DEF Promised!Settings
  <2>4. Promised!SetFlag(IsTrue(arg[c]))
    BY <2>1, <2>3, Assigns DEF Promised!SetFlag, Forcing
  <2> QED
    BY <2>1, <2>2, <2>3, <2>4, Assigns DEF DebugInv, Promised!SettingsNext
<1>4. CASE SetJavaLatencyDebug(c)
  <2> DEFINE s == [settings EXCEPT !.m_audioLatencyDebug = IsTrue(arg[c])]
  <2>1. pc[c] = "java" /\ Assign(c, s) /\ rateAsked' = rateAsked
    BY <1>4 DEF SetJavaLatencyDebug, At
  <2>2. IsTrue(arg[c]) \in BOOLEAN
    BY FlagsAreBoolean
  <2>3. s \in S
    BY <1>0, <2>2 DEF Promised!Settings
  <2>4. Promised!SetFlag(IsTrue(arg[c]))
    BY <2>1, <2>3, Assigns DEF Promised!SetFlag, Forcing
  <2> QED
    BY <2>1, <2>2, <2>3, <2>4, Assigns DEF DebugInv, Promised!SettingsNext
<1>5. CASE SetStreamMode(c)
  <2> DEFINE s == [settings EXCEPT !.mStreamMode = ModeOf(arg[c])]
  <2>1. pc[c] = "apply" /\ Assign(c, s) /\ rateAsked' = rateAsked
    BY <1>5 DEF SetStreamMode, Calls, At
  <2>2. ModeOf(arg[c]) \in Promised!StreamModes
    BY <1>5 DEF SetStreamMode, Promised!StreamModes, Promised!VIDEO_ONLY,
         Promised!AUDIO_ONLY, Promised!VIDEO_AND_AUDIO_BOTH
  <2>3. s \in S
    BY <1>0, <2>2 DEF Promised!Settings
  <2>4. Promised!SetStreamMode(ModeOf(arg[c]))
    BY <2>1, <2>3, Assigns DEF Promised!SetStreamMode, Forcing
  <2> QED
    BY <2>1, <2>2, <2>3, <2>4, Assigns DEF DebugInv, Promised!SettingsNext
<1>6. CASE SetAudioSampleRate(c)
  <2> DEFINE s == [settings EXCEPT !.AUDIO_SAMPLE_RATE = Jint(arg[c].int)]
  <2>1. pc[c] = "apply" /\ Assign(c, s) /\ rateAsked' = TRUE
    BY <1>6 DEF SetAudioSampleRate, Calls, At
  <2>2. Jint(arg[c].int) \in Rates
    BY <1>6 DEF SetAudioSampleRate
  <2>3. s \in S
    BY <1>0, <2>2 DEF Promised!Settings
  <2>4. Promised!SetAudioSampleRate(Jint(arg[c].int))
    BY <2>1, <2>3, Assigns DEF Promised!SetAudioSampleRate, Forcing
  <2>5. rateAsked' \in BOOLEAN
    BY <2>1, Booleans
  <2> QED
    BY <2>1, <2>2, <2>3, <2>4, <2>5, Assigns DEF DebugInv, Promised!SettingsNext
<1>7. CASE SetAudioChannels(c)
  <2> DEFINE s == [settings EXCEPT !.AUDIO_CHANNEL_COUNT = arg[c].int]
  <2>1. pc[c] = "apply" /\ Assign(c, s) /\ rateAsked' = rateAsked
    BY <1>7 DEF SetAudioChannels, Calls, At
  <2>2. arg[c].int \in {1, 2}
    BY <1>7 DEF SetAudioChannels
  <2>3. s \in S
    BY <1>0, <2>2 DEF Promised!Settings
  <2>4. Promised!SetAudioChannelCount(arg[c].int)
    BY <2>1, <2>3, Assigns DEF Promised!SetAudioChannelCount, Forcing
  <2> QED
    BY <2>1, <2>2, <2>3, <2>4, Assigns DEF DebugInv, Promised!SettingsNext
<1> QED
  BY <1>1, <1>2, <1>3, <1>4, <1>5, <1>6, <1>7

\* setUseOpus(true) leaves one more call that is to force the rate.
LEMMA OpusSteps ==
  ASSUME DebugInv, NEW c \in Callers, SetUseOpus(c) \/ ForceRate(c)
  PROVE  DebugInv' /\ Promised!SettingsNext
<1>1. CASE SetUseOpus(c)
  <2> DEFINE on == IsTrue(arg[c])
  <2>1. /\ pc[c] = "apply" /\ arg' = arg
        /\ settings' = [settings EXCEPT !.m_useOpus = on]
        /\ rateAsked' = (rateAsked /\ ~on)
        /\ Goto(c, IF on THEN "force" ELSE "end")
    BY <1>1 DEF SetUseOpus, Calls, At
  <2>2. on \in BOOLEAN /\ rateAsked' \in BOOLEAN
    <3>1. on \in BOOLEAN
      BY FlagsAreBoolean
    <3>2. rateAsked' \in BOOLEAN
      BY <2>1, Booleans
    <3> QED
      BY <3>1, <3>2
  <2>3. settings' \in Promised!Settings
    BY <2>1, <2>2 DEF DebugInv, Promised!Settings
  <2>4. pc' \in [Callers -> Places]
    BY <2>1 DEF DebugInv, Goto, Places
  <2>5. Cardinality(Forcing)' = IF on THEN Cardinality(Forcing) + 1 ELSE Cardinality(Forcing)
    <3>1. CASE on
      BY <2>1, <3>1, ForcingBegins DEF DebugInv
    <3>2. CASE ~on
      BY <2>1, <3>2, ForcingStays DEF DebugInv
    <3> QED
      BY <3>1, <3>2
  <2>6. Promised!SetUseOpus(on)
    BY <2>1, <2>5 DEF Promised!SetUseOpus, Forcing
  <2> QED
    BY <2>1, <2>2, <2>3, <2>4, <2>6 DEF DebugInv, Promised!SettingsNext
<1>2. CASE ForceRate(c)
  <2>1. /\ pc[c] = "force" /\ Goto(c, "end") /\ arg' = arg /\ rateAsked' = rateAsked
        /\ settings' = [settings EXCEPT !.AUDIO_SAMPLE_RATE = OpusHz]
    BY <1>2 DEF ForceRate, Assign, At
  <2>2. settings' \in Promised!Settings
    BY <2>1, DebugAssumption DEF DebugInv, Promised!Settings, DebugAssumption
  <2>3. pc' \in [Callers -> Places]
    BY <2>1 DEF DebugInv, Goto, Places
  <2>4. Promised!ForceRate
    BY <2>1, ForcingEnds DEF Promised!ForceRate, Forcing, DebugInv
  <2> QED
    BY <2>1, <2>2, <2>3, <2>4 DEF DebugInv, Promised!SettingsNext
<1> QED
  BY <1>1, <1>2

-----------------------------------------------------------------------------
LEMMA StepImplements ==
  DebugInv /\ [DebugNext]_debugVars =>
    DebugInv' /\ [Promised!SettingsNext]_Promised!settingVars
<1> SUFFICES ASSUME DebugInv, [DebugNext]_debugVars
             PROVE  DebugInv' /\ [Promised!SettingsNext]_Promised!settingVars
  OBVIOUS
<1>1. ASSUME NEW c \in Callers,
             \/ \E l \in Lines : Begin(c, l)
             \/ Load(c) \/ Dispatch(c) \/ Argument(c) \/ Report(c) \/ End(c)
             \/ SetAudioLatencyDebug(c)
      PROVE  DebugInv' /\ UNCHANGED Promised!settingVars
  BY <1>1, QuietSteps
<1>2. ASSUME NEW c \in Callers,
             \/ SetMaxBitRate(c) \/ SetRtcpFeedback(c) \/ SetPreferH265(c)
             \/ SetStreamMode(c) \/ SetAudioSampleRate(c) \/ SetAudioChannels(c)
             \/ SetJavaLatencyDebug(c)
      PROVE  DebugInv' /\ Promised!SettingsNext
  BY <1>2, HandlerSteps
<1>3. ASSUME NEW c \in Callers, SetUseOpus(c) \/ ForceRate(c)
      PROVE  DebugInv' /\ Promised!SettingsNext
  BY <1>3, OpusSteps
<1>4. CASE UNCHANGED debugVars
  <2>1. UNCHANGED <<settings, rateAsked, pc, arg>>
    BY <1>4 DEF debugVars
  <2>2. {c \in Callers : At(c, "force")}' = {c \in Callers : At(c, "force")}
    BY <2>1 DEF At
  <2> QED
    BY <2>1, <2>2 DEF DebugInv, Promised!settingVars
<1> QED
  BY <1>1, <1>2, <1>3, <1>4 DEF DebugNext

\* Settings stay legal, whatever a torn line or a freed copy makes of a command.
THEOREM DebugInvHolds == DebugSpec => []DebugInv
<1> QED
  BY InitEstablishes, StepImplements, PTL DEF DebugSpec

\* Commands do no more than StreamSettings allows, for any callers and any lines.
THEOREM Refinement == DebugSpec => KeepsPromise
<1> QED
  BY InitEstablishes, StepImplements, DebugInvHolds, PTL
     DEF DebugSpec, KeepsPromise, Promised!SettingsSpec

\* So what follows from that promise holds of the dispatcher.
THEOREM OpusRateOfCommands == DebugSpec => []PromiseInv
<1> QED
  BY Refinement, OpusRateKept, PTL DEF KeepsPromise

-----------------------------------------------------------------------------
(* Names.                                                                   *)

LEMMA SmallestOf ==
  ASSUME NEW S \in SUBSET Nat, S # {}
  PROVE  \E n \in S : \A m \in S : n <= m
<1>1. PICK n \in S : \A m \in S : ~ (<<m, n>> \in OpToRel(<, Nat))
  BY NatLessThanWellFounded, WFMin, Zenon
<1>2. \A m \in S : ~ (m < n)
  BY <1>1 DEF OpToRel
<1> QED
  BY <1>2

\* The table has thirteen names, which differ in their first three words, and that of
\* two words in its first.
LEMMA TableOfNames ==
  /\ DOMAIN cam2_dbg_names = 1 .. 13
  /\ \A i \in 1 .. 13 : Len(cam2_dbg_names[i]) \in {3, 4} \/ (i = 3 /\ Len(cam2_dbg_names[i]) = 2)
  /\ \A i \in 1 .. 13 : cam2_dbg_names[i][1] = cam2_dbg_names[3][1] => i = 3
  /\ \A i, j \in 1 .. 13 :
       (\A k \in 1 .. 3 : cam2_dbg_names[i][k] = cam2_dbg_names[j][k]) => i = j
<1>1. DOMAIN cam2_dbg_names = 1 .. 13
  BY DEF cam2_dbg_names
<1>2. \A i \in 1 .. 13 : Len(cam2_dbg_names[i]) \in {3, 4} \/ (i = 3 /\ Len(cam2_dbg_names[i]) = 2)
  <2>1. Len(cam2_dbg_names[1]) = 3
    BY DEF cam2_dbg_names
  <2>2. Len(cam2_dbg_names[2]) = 4
    BY DEF cam2_dbg_names
  <2>3. Len(cam2_dbg_names[3]) = 2
    BY DEF cam2_dbg_names
  <2>b. Len(cam2_dbg_names[4]) = 3 /\ Len(cam2_dbg_names[5]) = 3 /\ Len(cam2_dbg_names[6]) = 3
    BY DEF cam2_dbg_names
  <2>c. Len(cam2_dbg_names[7]) = 3 /\ Len(cam2_dbg_names[8]) = 4 /\ Len(cam2_dbg_names[9]) = 3
    BY DEF cam2_dbg_names
  <2>d. Len(cam2_dbg_names[10]) = 3 /\ Len(cam2_dbg_names[11]) = 4
    BY DEF cam2_dbg_names
  <2>e. Len(cam2_dbg_names[12]) = 3 /\ Len(cam2_dbg_names[13]) = 3
    BY DEF cam2_dbg_names
  <2>4. ASSUME NEW i \in 1 .. 13
             PROVE  Len(cam2_dbg_names[i]) \in {3, 4} \/ (i = 3 /\ Len(cam2_dbg_names[i]) = 2)
    <3>1. i = 1 \/ i = 2 \/ i = 3 \/ i = 4 \/ i = 5 \/ i = 6 \/ i = 7 \/ i = 8 \/ i = 9 \/ i = 10
          \/ i = 11 \/ i = 12 \/ i = 13
      OBVIOUS
    <3> QED
      BY <2>1, <2>2, <2>3, <2>b, <2>c, <2>d, <2>e, <3>1
  <2> QED
    BY <2>4
<1>f. ASSUME NEW i \in 1 .. 13, cam2_dbg_names[i][1] = cam2_dbg_names[3][1] PROVE i = 3
  BY <1>f DEF cam2_dbg_names
<1>3. ASSUME NEW i \in 1 .. 13, NEW j \in 1 .. 13,
             \A k \in 1 .. 3 : cam2_dbg_names[i][k] = cam2_dbg_names[j][k]
      PROVE  i = j
  BY <1>3 DEF cam2_dbg_names
<1> QED
  BY <1>1, <1>2, <1>f, <1>3

\* The index of a name is that of the first entry it begins.
LEMMA FirstFit ==
  ASSUME NEW w, \E i \in 1 .. 13 : Abbreviates(w, cam2_dbg_names[i])
  PROVE  \E i \in 1 .. 13 :
           Abbreviates(w, cam2_dbg_names[i]) /\ GetIndex(w) = cam2_dbg_names[i]
<1> DEFINE fits == {i \in DOMAIN cam2_dbg_names : Abbreviates(w, cam2_dbg_names[i])}
           first == CHOOSE i \in fits : \A j \in fits : i <= j
<1>1. fits # {} /\ fits \in SUBSET Nat /\ fits \subseteq 1 .. 13
  BY TableOfNames
<1>2. \E i \in fits : \A j \in fits : i <= j
  BY <1>1, SmallestOf
<1>3. first \in fits
  BY <1>2
<1>4. GetIndex(w) = cam2_dbg_names[first]
  BY <1>1 DEF GetIndex
<1> QED
  BY <1>1, <1>3, <1>4

LEMMA GetIndexIn == \A w : GetIndex(w) \in Names \cup {Unknown}
<1> SUFFICES ASSUME NEW w PROVE GetIndex(w) \in Names \cup {Unknown}
  OBVIOUS
<1>1. CASE \E i \in 1 .. 13 : Abbreviates(w, cam2_dbg_names[i])
  BY <1>1, FirstFit, TableOfNames DEF Names
<1>2. CASE ~ \E i \in 1 .. 13 : Abbreviates(w, cam2_dbg_names[i])
  BY <1>2, TableOfNames DEF GetIndex
<1> QED
  BY <1>1, <1>2

\* A name given in full begins no entry but its own.
LEMMA FullNames == \A w \in Names : GetIndex(w) = w
<1> SUFFICES ASSUME NEW w \in Names PROVE GetIndex(w) = w
  OBVIOUS
<1>1. PICK n \in 1 .. 13 : w = cam2_dbg_names[n]
  BY TableOfNames DEF Names
<1>2. Len(w) \in {3, 4} \/ (n = 3 /\ Len(w) = 2)
  BY <1>1, TableOfNames
<1>3. Abbreviates(w, cam2_dbg_names[n])
  BY <1>1, <1>2 DEF Abbreviates
<1>4. ASSUME NEW i \in 1 .. 13, Abbreviates(w, cam2_dbg_names[i]) PROVE i = n
  <2>1. CASE n = 3
    <3>1. cam2_dbg_names[i][1] = cam2_dbg_names[3][1]
      BY <1>1, <1>2, <1>4, <2>1 DEF Abbreviates
    <3> QED
      BY <2>1, <3>1, TableOfNames
  <2>2. CASE n # 3
    <3>1. \A k \in 1 .. 3 : cam2_dbg_names[n][k] = cam2_dbg_names[i][k]
      BY <1>1, <1>2, <1>4, <2>2 DEF Abbreviates
    <3> QED
      BY <3>1, TableOfNames
  <2> QED
    BY <2>1, <2>2
<1> QED
  BY <1>1, <1>3, <1>4, FirstFit

-----------------------------------------------------------------------------
(* Types of what strtok leaves.                                             *)

TextOK ==
  /\ sent \in 0 .. MaxCommands /\ saved \in Pointers /\ ptr \in [Callers -> Pointers]
  /\ copy \in [Callers -> 0 .. sent] /\ cut \in [Callers -> Nat]
  /\ line \in [Callers -> Lines \cup {<<>>}]
  /\ command \in [Callers -> Names \cup {Unknown}]

BeforeOK == before \in [Callers -> Promised!Settings]
SwitchesOK == s_audio_latency_debug \in BOOLEAN /\ alone \in BOOLEAN

LEMMA DebugParts == DebugTypeOK <=> DebugInv /\ TextOK /\ BeforeOK /\ SwitchesOK
  BY Zenon DEF DebugTypeOK, DebugInv, Places, TextOK, BeforeOK, SwitchesOK

LEMMA DebugPartsPrime == DebugInv' /\ TextOK' /\ BeforeOK' /\ SwitchesOK' => DebugTypeOK'
  BY Zenon DEF DebugTypeOK, DebugInv, Places, TextOK, BeforeOK, SwitchesOK

\* A line is a sequence of tokens.
LEMMA LinesAreSequences ==
  \A l \in Lines \cup {<<>>} :
    /\ Len(l) \in Nat /\ (l # <<>> => Len(l) > 0)
    /\ \A k \in 1 .. Len(l) : l[k] \in Tokens
<1> SUFFICES ASSUME NEW l \in Lines \cup {<<>>}
             PROVE  /\ Len(l) \in Nat /\ (l # <<>> => Len(l) > 0)
                    /\ \A k \in 1 .. Len(l) : l[k] \in Tokens
  OBVIOUS
<1>1. l \in Seq(Tokens)
  <2>1. CASE l \in Lines
    BY <2>1, DebugAssumption DEF DebugAssumption
  <2>2. CASE l = <<>>
    BY <2>2
  <2> QED
    BY <2>1, <2>2
<1> QED
  BY <1>1

LEMMA BehindIn ==
  ASSUME NEW m \in Nat, NEW l \in Lines \cup {<<>>}, NEW n \in 1 .. m, NEW k \in Nat \ {0}
  PROVE  Behind(l, n, k) \in {NULL} \cup [copy : 1 .. m, at : Nat \ {0}]
  BY DEF Behind

LEMMA TokenTypes ==
  ASSUME TextOK, NEW c \in Callers, NEW tok, Token(c, tok)
  PROVE  saved' \in Pointers /\ cut' \in [Callers -> Nat]
<1> DEFINE p == ptr[c]
<1>1. p \in Pointers /\ sent \in Nat
  BY DebugAssumption DEF TextOK, DebugAssumption
<1>2. NULL \in Pointers
  BY DEF Pointers
<1>3. CASE p = NULL
  BY <1>3 DEF Token, TextOK
<1>4. CASE p # NULL /\ p.copy \notin {copy[d] : d \in Callers}
  BY <1>1, <1>2, <1>4 DEF Token, TextOK
<1>5. CASE p # NULL /\ p.copy \in {copy[d] : d \in Callers}
  <2>1. p.copy \in 1 .. sent /\ p.at \in Nat \ {0}
    BY <1>1, <1>5 DEF Pointers
  <2>2. PICK d \in Callers :
          /\ saved' \in {Behind(line[d], p.copy, p.at)}
                        \cup (IF p.at <= cut[d] THEN {NULL} ELSE {})
          /\ cut' = [cut EXCEPT ![d] = IF p.at > @ THEN p.at ELSE @]
    BY <1>5 DEF Token
  <2>3. Behind(line[d], p.copy, p.at) \in Pointers
    BY <1>1, <2>1, BehindIn DEF Pointers, TextOK
  <2>4. cut' \in [Callers -> Nat]
    BY <2>1, <2>2 DEF TextOK
  <2> QED
    BY <1>2, <2>2, <2>3, <2>4
<1> QED
  BY <1>3, <1>4, <1>5

LEMMA SwitchesStay == SwitchesOK /\ [DebugNext]_debugVars => SwitchesOK'
<1> SUFFICES ASSUME SwitchesOK, [DebugNext]_debugVars PROVE SwitchesOK'
  OBVIOUS
<1> USE DEF SwitchesOK, flags
<1>1. ASSUME NEW c \in Callers,
             \/ \E l \in Lines : Begin(c, l)
             \/ Load(c) \/ Dispatch(c) \/ Argument(c) \/ Report(c) \/ End(c)
             \/ SetMaxBitRate(c) \/ SetRtcpFeedback(c) \/ SetPreferH265(c) \/ SetStreamMode(c)
             \/ SetAudioSampleRate(c) \/ SetAudioChannels(c) \/ SetUseOpus(c) \/ ForceRate(c)
             \/ SetJavaLatencyDebug(c)
      PROVE  SwitchesOK'
  <2>1. s_audio_latency_debug' = s_audio_latency_debug
    BY <1>1 DEF Begin, Load, Dispatch, Argument, Report, End, Assign, SetMaxBitRate,
         SetRtcpFeedback, SetPreferH265, SetStreamMode, SetAudioSampleRate, SetAudioChannels,
         SetUseOpus, ForceRate, SetJavaLatencyDebug
  <2>2. alone' = alone
    BY <1>1 DEF Begin, Load, Dispatch, Argument, Report, End, Assign, SetMaxBitRate,
         SetRtcpFeedback, SetPreferH265, SetStreamMode, SetAudioSampleRate, SetAudioChannels,
         SetUseOpus, ForceRate, SetJavaLatencyDebug
  <2> QED
    BY <2>1, <2>2
<1>2. ASSUME NEW c \in Callers, SetAudioLatencyDebug(c) PROVE SwitchesOK'
  <2>1. s_audio_latency_debug' = IsTrue(arg[c])
    BY <1>2 DEF SetAudioLatencyDebug
  <2>2. alone' = alone
    BY <1>2 DEF SetAudioLatencyDebug
  <2> QED
    BY <2>1, <2>2, FlagsAreBoolean
<1>3. CASE UNCHANGED debugVars
  BY <1>3 DEF debugVars
<1> QED
  BY <1>1, <1>2, <1>3 DEF DebugNext

\* Steps of the handlers leave the text alone.
LEMMA HandlersLeaveText ==
  ASSUME NEW c \in Callers,
         \/ Report(c) \/ SetMaxBitRate(c) \/ SetRtcpFeedback(c) \/ SetPreferH265(c)
         \/ SetStreamMode(c) \/ SetAudioSampleRate(c) \/ SetAudioChannels(c) \/ SetUseOpus(c)
         \/ ForceRate(c) \/ SetAudioLatencyDebug(c) \/ SetJavaLatencyDebug(c)
  PROVE  /\ line' = line /\ copy' = copy /\ cut' = cut /\ ptr' = ptr /\ saved' = saved
         /\ sent' = sent /\ command' = command /\ arg' = arg /\ before' = before
         /\ alone' = alone
  BY DEF Report, Assign, SetMaxBitRate, SetRtcpFeedback, SetPreferH265, SetStreamMode,
     SetAudioSampleRate, SetAudioChannels, SetUseOpus, ForceRate, SetAudioLatencyDebug,
     SetJavaLatencyDebug, text, flags

LEMMA TextStays ==
  TextOK /\ BeforeOK /\ DebugInv /\ [DebugNext]_debugVars => TextOK' /\ BeforeOK'
<1> SUFFICES ASSUME TextOK, BeforeOK, DebugInv, [DebugNext]_debugVars
             PROVE  TextOK' /\ BeforeOK'
  OBVIOUS
<1>0. sent \in Nat /\ MaxCommands \in Nat
  BY DebugAssumption DEF TextOK, DebugAssumption
<1>1. ASSUME NEW c \in Callers, NEW l \in Lines, Begin(c, l) PROVE TextOK' /\ BeforeOK'
  <2>1. /\ sent < MaxCommands /\ sent' = sent + 1 /\ line' = [line EXCEPT ![c] = l]
        /\ copy' = [copy EXCEPT ![c] = sent'] /\ cut' = [cut EXCEPT ![c] = 1]
        /\ saved' = Behind(l, sent', 1) /\ before' = [before EXCEPT ![c] = settings]
        /\ ptr' = ptr /\ command' = command
    BY <1>1 DEF Begin
  <2>2. sent' \in 0 .. MaxCommands /\ sent' \in 1 .. sent' /\ sent' \in Nat
    BY <1>0, <2>1 DEF TextOK
  <2>3. Pointers \subseteq Pointers'
    BY <1>0, <2>1 DEF Pointers
  <2>4. saved' \in Pointers'
    BY <2>1, <2>2, BehindIn DEF Pointers
  <2>5. ptr' \in [Callers -> Pointers']
    BY <2>1, <2>3 DEF TextOK
  <2>6. copy' \in [Callers -> 0 .. sent']
    <3>1. 0 .. sent \subseteq 0 .. sent' /\ sent' \in 0 .. sent'
      BY <1>0, <2>1
    <3>2. copy \in [Callers -> 0 .. sent']
      BY <3>1 DEF TextOK
    <3> QED
      BY <2>1, <3>1, <3>2
  <2>7. cut' \in [Callers -> Nat]
    BY <2>1 DEF TextOK
  <2>8. line' \in [Callers -> Lines \cup {<<>>}]
    BY <2>1 DEF TextOK
  <2>9. before' \in [Callers -> Promised!Settings]
    <3>1. settings \in Promised!Settings
      BY DEF DebugInv
    <3> QED
      BY <2>1, <3>1 DEF BeforeOK
  <2>10. command' \in [Callers -> Names \cup {Unknown}]
    BY <2>1 DEF TextOK
  <2> QED
    BY <2>2, <2>4, <2>5, <2>6, <2>7, <2>8, <2>9, <2>10 DEF TextOK, BeforeOK
<1>2. ASSUME NEW c \in Callers, Load(c) PROVE TextOK' /\ BeforeOK'
  <2>1. /\ ptr' = [ptr EXCEPT ![c] = saved] /\ sent' = sent /\ saved' = saved /\ line' = line
        /\ copy' = copy /\ cut' = cut /\ command' = command /\ before' = before
    BY <1>2 DEF Load, flags
  <2>2. ptr' \in [Callers -> Pointers]
    BY <2>1 DEF TextOK
  <2> QED
    BY <2>1, <2>2 DEF TextOK, BeforeOK, Pointers
<1>3. ASSUME NEW c \in Callers, NEW tok, Token(c, tok), sent' = sent, line' = line,
             copy' = copy, ptr' = ptr, before' = before,
             command' \in [Callers -> Names \cup {Unknown}]
      PROVE  TextOK' /\ BeforeOK'
  <2>1. saved' \in Pointers /\ cut' \in [Callers -> Nat]
    BY <1>3, TokenTypes
  <2> QED
    BY <1>3, <2>1 DEF TextOK, BeforeOK, Pointers
<1>4. ASSUME NEW c \in Callers, Dispatch(c) PROVE TextOK' /\ BeforeOK'
  <2>1. PICK tok \in Tokens \cup {NoTok} :
          /\ Token(c, tok)
          /\ command' = [command EXCEPT ![c] = IF tok = NoTok THEN Unknown ELSE GetIndex(tok.words)]
    BY <1>4 DEF Dispatch
  <2>2. command' \in [Callers -> Names \cup {Unknown}]
    BY <2>1, GetIndexIn DEF TextOK
  <2>3. sent' = sent /\ line' = line /\ copy' = copy /\ ptr' = ptr /\ before' = before
    BY <1>4 DEF Dispatch, flags
  <2> QED
    BY <1>3, <2>1, <2>2, <2>3
<1>5. ASSUME NEW c \in Callers, Argument(c) PROVE TextOK' /\ BeforeOK'
  <2>1. \E tok : Token(c, tok)
    BY <1>5 DEF Argument
  <2>2. /\ sent' = sent /\ line' = line /\ copy' = copy /\ ptr' = ptr /\ before' = before
        /\ command' = command
    BY <1>5 DEF Argument, flags
  <2>3. command' \in [Callers -> Names \cup {Unknown}]
    BY <2>2 DEF TextOK
  <2> QED
    BY <1>3, <2>1, <2>2, <2>3
<1>6. ASSUME NEW c \in Callers, End(c) PROVE TextOK' /\ BeforeOK'
  <2>1. /\ line' = [line EXCEPT ![c] = <<>>] /\ copy' = [copy EXCEPT ![c] = 0]
        /\ cut' = [cut EXCEPT ![c] = 0] /\ ptr' = [ptr EXCEPT ![c] = NULL]
        /\ command' = [command EXCEPT ![c] = Unknown]
        /\ saved' = saved /\ sent' = sent /\ before' = before
    BY <1>6 DEF End, flags
  <2>2. NULL \in Pointers /\ 0 \in 0 .. sent
    BY <1>0 DEF Pointers
  <2>3. /\ copy' \in [Callers -> 0 .. sent] /\ cut' \in [Callers -> Nat]
        /\ line' \in [Callers -> Lines \cup {<<>>}]
    BY <2>1, <2>2 DEF TextOK
  <2>4. ptr' \in [Callers -> Pointers]
    BY <2>1, <2>2 DEF TextOK
  <2>5. command' \in [Callers -> Names \cup {Unknown}]
    BY <2>1 DEF TextOK
  <2> QED
    BY <2>1, <2>3, <2>4, <2>5 DEF TextOK, BeforeOK, Pointers
<1>7. ASSUME line' = line, copy' = copy, cut' = cut, ptr' = ptr, saved' = saved,
             sent' = sent, command' = command, before' = before
      PROVE  TextOK' /\ BeforeOK'
  BY <1>7 DEF TextOK, BeforeOK, Pointers
<1>8. ASSUME NEW c \in Callers,
             \/ Report(c) \/ SetMaxBitRate(c) \/ SetRtcpFeedback(c) \/ SetPreferH265(c)
             \/ SetStreamMode(c) \/ SetAudioSampleRate(c) \/ SetAudioChannels(c)
             \/ SetUseOpus(c) \/ ForceRate(c) \/ SetAudioLatencyDebug(c)
             \/ SetJavaLatencyDebug(c)
      PROVE  TextOK' /\ BeforeOK'
  BY <1>7, <1>8, HandlersLeaveText
<1>9. CASE UNCHANGED debugVars
  BY <1>7, <1>9 DEF debugVars, text, flags
<1> QED
  BY <1>1, <1>2, <1>4, <1>5, <1>6, <1>8, <1>9 DEF DebugNext

-----------------------------------------------------------------------------
(* What is asked.                                                           *)

\* Settings a command of the table changes.
Setters ==
  {<<"SET", "MAX", "BITRATE">>, <<"SET", "RTCP", "FEEDBACK">>, <<"SET", "PREFER", "H265">>,
   <<"SET", "STREAM", "MODE">>, <<"SET", "AUDIO", "SAMPLE", "RATE">>,
   <<"SET", "AUDIO", "CHANNELS">>, <<"SET", "USE", "OPUS">>,
   <<"SET", "AUDIO", "LATENCY", "DEBUG">>}

\* Each arm of Asked, for a line l with an argument t.
LEMMA AskedBitRate ==
  ASSUME NEW l, NEW s, NEW t, Len(l) > 2, t = l[3],
         l[2].words = <<"SET", "MAX", "BITRATE">>, t.bps # NoNumber /\ t.bps >= 0
  PROVE  Asked(l, s) = [s EXCEPT !.m_maxBitRate = t.bps]
<1>1. Len(l) > 1
  OBVIOUS
<1> QED
  BY <1>1 DEF Asked

LEMMA AskedRtcpFeedback ==
  ASSUME NEW l, NEW s, NEW t, Len(l) > 2, t = l[3],
         l[2].words = <<"SET", "RTCP", "FEEDBACK">>, IsBool(t)
  PROVE  Asked(l, s) = [s EXCEPT !.m_rtcpFeedback = IsTrue(t)]
<1>1. Len(l) > 1
  OBVIOUS
<1> QED
  BY <1>1 DEF Asked

LEMMA AskedPreferH265 ==
  ASSUME NEW l, NEW s, NEW t, Len(l) > 2, t = l[3],
         l[2].words = <<"SET", "PREFER", "H265">>, IsBool(t)
  PROVE  Asked(l, s) = [s EXCEPT !.m_preferH265 = IsTrue(t)]
<1>1. Len(l) > 1
  OBVIOUS
<1> QED
  BY <1>1 DEF Asked

LEMMA AskedStreamMode ==
  ASSUME NEW l, NEW s, NEW t, Len(l) > 2, t = l[3],
         l[2].words = <<"SET", "STREAM", "MODE">>, ModeOf(t) \in 0 .. 2
  PROVE  Asked(l, s) = [s EXCEPT !.mStreamMode = ModeOf(t)]
<1>1. Len(l) > 1
  OBVIOUS
<1> QED
  BY <1>1 DEF Asked

LEMMA AskedSampleRate ==
  ASSUME NEW l, NEW s, NEW t, Len(l) > 2, t = l[3],
         l[2].words = <<"SET", "AUDIO", "SAMPLE", "RATE">>, t.int \in Rates
  PROVE  Asked(l, s) = [s EXCEPT !.AUDIO_SAMPLE_RATE = t.int]
<1>1. Len(l) > 1
  OBVIOUS
<1> QED
  BY <1>1 DEF Asked

LEMMA AskedChannels ==
  ASSUME NEW l, NEW s, NEW t, Len(l) > 2, t = l[3],
         l[2].words = <<"SET", "AUDIO", "CHANNELS">>, t.int \in {1, 2}
  PROVE  Asked(l, s) = [s EXCEPT !.AUDIO_CHANNEL_COUNT = t.int]
<1>1. Len(l) > 1
  OBVIOUS
<1> QED
  BY <1>1 DEF Asked

WithOpus(s, t) ==
  [s EXCEPT !.m_useOpus = IsTrue(t), !.AUDIO_SAMPLE_RATE = IF IsTrue(t) THEN OpusHz ELSE @]

LEMMA AskedOpus ==
  ASSUME NEW l, NEW s, NEW t, Len(l) > 2, t = l[3],
         l[2].words = <<"SET", "USE", "OPUS">>, IsBool(t)
  PROVE  Asked(l, s) = WithOpus(s, t)
<1>1. Len(l) > 1
  OBVIOUS
<1> QED
  BY <1>1 DEF Asked, WithOpus

LEMMA AskedLatency ==
  ASSUME NEW l, NEW s, NEW t, Len(l) > 2, t = l[3],
         l[2].words = <<"SET", "AUDIO", "LATENCY", "DEBUG">>, IsBool(t)
  PROVE  Asked(l, s) = [s EXCEPT !.m_audioLatencyDebug = IsTrue(t)]
<1>1. Len(l) > 1
  OBVIOUS
<1> QED
  BY <1>1 DEF Asked

\* What each setter needs of its argument.
Takes(w, t) ==
  /\ w = <<"SET", "MAX", "BITRATE">> => t.bps # NoNumber /\ t.bps >= 0
  /\ w \in {<<"SET", "RTCP", "FEEDBACK">>, <<"SET", "PREFER", "H265">>, <<"SET", "USE", "OPUS">>,
            <<"SET", "AUDIO", "LATENCY", "DEBUG">>} => IsBool(t)
  /\ w = <<"SET", "STREAM", "MODE">> => ModeOf(t) \in 0 .. 2
  /\ w = <<"SET", "AUDIO", "SAMPLE", "RATE">> => t.int \in Rates
  /\ w = <<"SET", "AUDIO", "CHANNELS">> => t.int \in {1, 2}

\* Another command, or an argument that is not taken, changes nothing.
LEMMA AskedNothing ==
  ASSUME NEW l, NEW s,
         Len(l) > 1 /\ l[2].words \in Setters =>
           ~Takes(l[2].words, IF Len(l) > 2 THEN l[3] ELSE NoTok)
  PROVE  Asked(l, s) = s
<1> DEFINE t == IF Len(l) > 2 THEN l[3] ELSE NoTok
           Is(name) == Len(l) > 1 /\ l[2].words = name
<1>0. ASSUME NEW w \in Setters, Is(w) PROVE ~Takes(w, t)
  BY <1>0
<1>1. ~(Is(<<"SET", "MAX", "BITRATE">>) /\ t.bps # NoNumber /\ t.bps >= 0)
  BY <1>0 DEF Setters, Takes
<1>2. ~(Is(<<"SET", "RTCP", "FEEDBACK">>) /\ IsBool(t))
  BY <1>0 DEF Setters, Takes
<1>3. ~(Is(<<"SET", "PREFER", "H265">>) /\ IsBool(t))
  BY <1>0 DEF Setters, Takes
<1>4. ~(Is(<<"SET", "STREAM", "MODE">>) /\ ModeOf(t) \in 0 .. 2)
  BY <1>0 DEF Setters, Takes
<1>5. ~(Is(<<"SET", "AUDIO", "SAMPLE", "RATE">>) /\ t.int \in Rates)
  BY <1>0 DEF Setters, Takes
<1>6. ~(Is(<<"SET", "AUDIO", "CHANNELS">>) /\ t.int \in {1, 2})
  BY <1>0 DEF Setters, Takes
<1>7. ~(Is(<<"SET", "USE", "OPUS">>) /\ IsBool(t))
  BY <1>0 DEF Setters, Takes
<1>8. ~(Is(<<"SET", "AUDIO", "LATENCY", "DEBUG">>) /\ IsBool(t))
  BY <1>0 DEF Setters, Takes
<1> QED
  BY <1>1, <1>2, <1>3, <1>4, <1>5, <1>6, <1>7, <1>8 DEF Asked

\* No argument is none that a setter takes.
LEMMA NoTokIsNotTaken == \A w \in Setters : ~Takes(w, NoTok)
<1>1. ~IsBool(NoTok)
  BY DebugAssumption DEF DebugAssumption, IsBool, IsTrue, IsFalse, NoTok
<1>2. ModeOf(NoTok) = -1
  BY DEF ModeOf, NoTok
<1>3. NoTok.bps = NoNumber /\ NoTok.int \notin Int
  BY DebugAssumption DEF DebugAssumption, NoTok
<1>4. Rates \subseteq Nat
  BY DebugAssumption DEF DebugAssumption
<1>5. NoTok.int \notin Rates /\ NoTok.int \notin {1, 2} /\ ModeOf(NoTok) \notin 0 .. 2
  <2>0. \A r \in Rates : r \in Int
    BY <1>4
  <2>1. NoTok.int \notin Rates
    BY <1>3, <2>0, Zenon
  <2>2. NoTok.int \notin {1, 2}
    BY <1>3
  <2>3. ModeOf(NoTok) \notin 0 .. 2
    BY <1>2
  <2> QED
    BY <2>1, <2>2, <2>3
<1> SUFFICES ASSUME NEW w \in Setters, Takes(w, NoTok) PROVE FALSE
  OBVIOUS
<1>6. w # <<"SET", "MAX", "BITRATE">>
  BY <1>3 DEF Takes
<1>7. w \notin {<<"SET", "RTCP", "FEEDBACK">>, <<"SET", "PREFER", "H265">>, <<"SET", "USE", "OPUS">>,
                <<"SET", "AUDIO", "LATENCY", "DEBUG">>}
  BY <1>1 DEF Takes
<1>8. w # <<"SET", "STREAM", "MODE">> /\ w # <<"SET", "AUDIO", "SAMPLE", "RATE">>
  BY <1>5 DEF Takes
<1>9. w # <<"SET", "AUDIO", "CHANNELS">>
  BY <1>5 DEF Takes
<1> QED
  BY <1>6, <1>7, <1>8, <1>9 DEF Setters

-----------------------------------------------------------------------------
(* One command at a time.                                                   *)

\* Whoever is under way has the last copy of a line, and nobody else has one.
OneAtATime ==
  /\ \A c, d \in Callers : pc[c] # "idle" /\ pc[d] # "idle" => c = d
  /\ \A c \in Callers : pc[c] = "idle" => copy[c] = 0
  /\ \A c \in Callers : pc[c] # "idle" => copy[c] = sent /\ sent # 0

\* strtok is in its line, where that stopped.
StrtokInv(c) ==
  /\ pc[c] = "name" => saved = Behind(line[c], sent, 1) /\ cut[c] = 1
  /\ pc[c] = "cut name" => ptr[c] = Behind(line[c], sent, 1) /\ cut[c] = 1
  /\ pc[c] = "arg" => saved = Behind(line[c], sent, 2) /\ cut[c] = 2
  /\ pc[c] = "cut arg" => ptr[c] = Behind(line[c], sent, 2) /\ cut[c] = 2

\* The command is the one that its line names, and the argument that line's.
CommandInv(c) ==
  /\ pc[c] \in {"arg", "cut arg", "level", "cut level", "print", "apply", "force", "java"}
     => Len(line[c]) > 1 /\ command[c] = GetIndex(line[c][2].words)
  /\ pc[c] \in {"level", "cut level", "print"} => command[c] \notin Setters
  /\ pc[c] \in {"apply", "force", "java"} /\ command[c] \in Setters
     => Len(line[c]) > 2 /\ arg[c] = line[c][3]

\* What it has done so far.
EffectInv(c) ==
  /\ pc[c] \notin {"idle", "force", "end"} => settings = before[c]
  /\ pc[c] = "force" =>
       /\ command[c] = <<"SET", "USE", "OPUS">> /\ IsTrue(arg[c])
       /\ settings = [before[c] EXCEPT !.m_useOpus = IsTrue(arg[c])]
  /\ pc[c] = "java" =>
       /\ command[c] = <<"SET", "AUDIO", "LATENCY", "DEBUG">> /\ IsBool(arg[c])
       /\ s_audio_latency_debug = IsTrue(arg[c])
  /\ pc[c] = "end" /\ Documented(line[c]) => settings = Asked(line[c], before[c])

\* The two flags of the latency logging agree, unless one is about to follow.
LatencyInv ==
  (\A c \in Callers : pc[c] # "java") => s_audio_latency_debug = settings.m_audioLatencyDebug

CallerInv(c) == StrtokInv(c) /\ CommandInv(c) /\ EffectInv(c)

AloneInv == alone => OneAtATime /\ LatencyInv /\ \A c \in Callers : CallerInv(c)

LEMMA IdleCallers ==
  /\ \A c : pc[c] = "idle" => CallerInv(c)
  /\ \A c : pc'[c] = "idle" => CallerInv(c)'
<1>1. \A c : pc[c] = "idle" => CallerInv(c)
  BY DEF CallerInv, StrtokInv, CommandInv, EffectInv
<1>2. \A c : pc'[c] = "idle" => CallerInv(c)'
  BY DEF CallerInv, StrtokInv, CommandInv, EffectInv
<1> QED
  BY <1>1, <1>2

LEMMA OthersIdle ==
  ASSUME DebugInv, OneAtATime, NEW c \in Callers, NEW p, Goto(c, p), pc[c] # "idle"
  PROVE  /\ pc'[c] = p
         /\ \A d \in Callers : d # c => pc[d] = "idle" /\ pc'[d] = "idle"
  BY DEF DebugInv, OneAtATime, Goto

LEMMA OneStays ==
  ASSUME DebugInv, OneAtATime, NEW c \in Callers, NEW p, Goto(c, p), pc[c] # "idle",
         p # "idle", copy' = copy, sent' = sent
  PROVE  OneAtATime'
<1>1. /\ pc'[c] = p
      /\ \A d \in Callers : d # c => pc[d] = "idle" /\ pc'[d] = "idle"
  BY OthersIdle
<1> QED
  BY <1>1 DEF OneAtATime

\* What there is to show of a step of a caller that is under way.
LEMMA AloneAfter ==
  ASSUME DebugInv, OneAtATime, NEW c \in Callers, NEW p, Goto(c, p), pc[c] # "idle",
         p # "idle", copy' = copy, sent' = sent, CallerInv(c)', LatencyInv'
  PROVE  AloneInv'
<1>1. \A d \in Callers : d # c => pc'[d] = "idle"
  BY OthersIdle
<1>2. \A d \in Callers : CallerInv(d)'
  BY <1>1, IdleCallers
<1> QED
  BY <1>2, OneStays DEF AloneInv

\* The token that strtok finds is the one behind the k-th of the caller's own line.
LEMMA OwnToken ==
  ASSUME TextOK, OneAtATime, NEW c \in Callers, pc[c] # "idle", NEW k \in 1 .. 2,
         ptr[c] = Behind(line[c], sent, k), cut[c] = k, NEW tok, Token(c, tok)
  PROVE  IF k < Len(line[c])
         THEN /\ tok = line[c][k + 1] /\ saved' = Behind(line[c], sent, k + 1)
              /\ cut'[c] = k + 1
         ELSE tok = NoTok
<1>0. /\ line[c] \in Lines \cup {<<>>} /\ Len(line[c]) \in Nat /\ cut \in [Callers -> Nat]
      /\ sent # 0
  BY LinesAreSequences DEF TextOK, OneAtATime
<1>1. CASE k < Len(line[c])
  <2>1. ptr[c] = [copy |-> sent, at |-> k + 1]
    BY <1>1 DEF Behind
  <2>2. ptr[c] # NULL /\ ptr[c].copy = sent /\ ptr[c].at = k + 1
    BY <1>0, <2>1 DEF NULL
  <2>3. \A d \in Callers : copy[d] = sent <=> d = c
    BY <1>0 DEF OneAtATime
  <2>4. /\ tok = line[c][k + 1]
        /\ saved' \in {Behind(line[c], sent, k + 1)} \cup (IF k + 1 <= cut[c] THEN {NULL} ELSE {})
        /\ cut' = [cut EXCEPT ![c] = IF k + 1 > @ THEN k + 1 ELSE @]
    BY <2>2, <2>3 DEF Token
  <2> QED
    BY <1>0, <1>1, <2>4
<1>2. CASE ~(k < Len(line[c]))
  <2>1. ptr[c] = NULL
    BY <1>2 DEF Behind
  <2> QED
    BY <1>2, <2>1 DEF Token
<1> QED
  BY <1>1, <1>2

LEMMA DocumentedNames ==
  ASSUME NEW l, Documented(l), Len(l) > 1
  PROVE  GetIndex(l[2].words) = l[2].words /\ l[2].words # Unknown
<1>1. l[2].words \in Names
  BY DEF Documented
<1>2. Unknown \notin Names
  <2>1. ASSUME NEW i \in 1 .. 13, cam2_dbg_names[i] = Unknown PROVE FALSE
    <3>1. Len(Unknown) = 1
      BY DEF Unknown
    <3>2. Len(cam2_dbg_names[i]) \in {2, 3, 4}
      BY TableOfNames
    <3> QED
      BY <2>1, <3>1, <3>2
  <2> QED
    BY <2>1, TableOfNames DEF Names
<1> QED
  BY <1>1, <1>2, FullNames

\* (jint) leaves what an int holds.
LEMMA JintKeeps == \A n \in Ints : Jint(n) = n
<1> SUFFICES ASSUME NEW n \in Ints PROVE Jint(n) = n
  OBVIOUS
<1>1. PICK h \in Nat \ {0} : h = IntRange \div 2 /\ IntRange = 2 * h
  BY DebugAssumption DEF DebugAssumption
<1>2. n + h \in 0 .. 2 * h - 1 /\ n \in Int
  BY <1>1 DEF Ints
<1>3. \A a \in Nat, b \in Nat \ {0} : a < b => a % b = a
  OBVIOUS
<1>4. (n + h) % (2 * h) = n + h
  BY <1>2, <1>3
<1> QED
  BY <1>1, <1>2, <1>4 DEF Jint

\* A command begins when none is under way.
LEMMA AloneBegin ==
  ASSUME TextOK, BeforeOK, DebugInv, AloneInv, alone, NEW c \in Callers, NEW l \in Lines,
         Begin(c, l)
  PROVE  AloneInv'
<1>0. /\ copy \in [Callers -> 0 .. sent] /\ cut \in [Callers -> Nat] /\ sent \in Nat
      /\ line \in [Callers -> Lines \cup {<<>>}]
      /\ pc \in [Callers -> Places]
  BY DEF TextOK, DebugInv
<1>1. /\ \A d \in Callers : pc[d] = "idle"
      /\ pc' = [pc EXCEPT ![c] = IF l = <<>> THEN "end" ELSE "name"]
      /\ sent' = sent + 1 /\ line' = [line EXCEPT ![c] = l]
      /\ copy' = [copy EXCEPT ![c] = sent'] /\ cut' = [cut EXCEPT ![c] = 1]
      /\ saved' = Behind(l, sent', 1) /\ before' = [before EXCEPT ![c] = settings]
      /\ settings' = settings
  BY DEF Begin, At, Goto
<1>2. \A d \in Callers : copy[d] = 0
  BY <1>1 DEF AloneInv, OneAtATime
<1>3. /\ pc'[c] \in {"end", "name"} /\ (pc'[c] = "end" => l = <<>>)
      /\ copy'[c] = sent' /\ sent' # 0 /\ line'[c] = l /\ cut'[c] = 1
      /\ \A d \in Callers : d # c => pc'[d] = "idle" /\ copy'[d] = 0
  BY <1>0, <1>1, <1>2
<1>4. OneAtATime'
  BY <1>3 DEF OneAtATime
<1>5. LatencyInv'
  <2>1. s_audio_latency_debug = settings.m_audioLatencyDebug
    BY <1>1 DEF AloneInv, LatencyInv
  <2>2. s_audio_latency_debug' = s_audio_latency_debug
    BY DEF Begin
  <2> QED
    BY <1>1, <2>1, <2>2 DEF LatencyInv
<1>6. CallerInv(c)'
  <2>1. StrtokInv(c)' /\ CommandInv(c)'
    BY <1>1, <1>3 DEF StrtokInv, CommandInv
  <2>2. before'[c] = settings
    BY <1>1 DEF BeforeOK
  <2>3. Asked(<<>>, settings) = settings
    <3>1. ~(Len(<<>>) > 1)
      OBVIOUS
    <3> QED
      BY <3>1, AskedNothing
  <2>4. EffectInv(c)'
    BY <1>1, <1>3, <2>2, <2>3 DEF EffectInv
  <2> QED
    BY <2>1, <2>4 DEF CallerInv
<1>7. \A d \in Callers : CallerInv(d)'
  BY <1>3, <1>6, IdleCallers
<1> QED
  BY <1>4, <1>5, <1>7 DEF AloneInv

\* What does not change the settings, nor begins or ends at "java", leaves the flags
\* in agreement.
LEMMA LatencyStays ==
  ASSUME DebugInv, AloneInv, alone, NEW c \in Callers, NEW p, Goto(c, p), pc[c] \notin {"idle", "java"},
         settings'.m_audioLatencyDebug = settings.m_audioLatencyDebug,
         s_audio_latency_debug' = s_audio_latency_debug
  PROVE  LatencyInv'
<1>1. \A d \in Callers : pc[d] # "java"
  BY OthersIdle DEF AloneInv
<1>2. s_audio_latency_debug = settings.m_audioLatencyDebug
  BY <1>1 DEF AloneInv, LatencyInv
<1> QED
  BY <1>2 DEF LatencyInv

LEMMA AloneLoad ==
  ASSUME TextOK, DebugInv, AloneInv, alone, NEW c \in Callers, Load(c)
  PROVE  AloneInv'
<1>1. /\ pc[c] \in {"name", "arg", "level"} /\ Goto(c, CutOff[pc[c]])
      /\ ptr' = [ptr EXCEPT ![c] = saved]
      /\ settings' = settings /\ line' = line /\ copy' = copy /\ cut' = cut /\ sent' = sent
      /\ command' = command /\ before' = before
  BY DEF Load, flags
<1>2. CutOff["name"] = "cut name" /\ CutOff["arg"] = "cut arg" /\ CutOff["level"] = "cut level"
  BY DEF CutOff
<1>3. OneAtATime /\ CallerInv(c)
  BY DEF AloneInv
<1>4. pc'[c] = CutOff[pc[c]]
  BY <1>1, <1>3, OthersIdle
<1>5. ptr'[c] = saved
  BY <1>1 DEF TextOK
<1>6. StrtokInv(c)'
  BY <1>1, <1>2, <1>3, <1>4, <1>5 DEF CallerInv, StrtokInv
<1>7. CommandInv(c)'
  BY <1>1, <1>2, <1>3, <1>4 DEF CallerInv, CommandInv
<1>8. EffectInv(c)'
  BY <1>1, <1>2, <1>3, <1>4 DEF CallerInv, EffectInv
<1>9. LatencyInv'
  <2>1. s_audio_latency_debug' = s_audio_latency_debug
    BY DEF Load, flags
  <2> QED
    BY <1>1, <2>1, LatencyStays
<1>10. CallerInv(c)'
  BY <1>6, <1>7, <1>8 DEF CallerInv
<1> QED
  BY <1>1, <1>2, <1>3, <1>9, <1>10, AloneAfter

\* A command is at its end, with the effect it was asked for.
LEMMA AloneEnds ==
  ASSUME TextOK, DebugInv, AloneInv, alone, NEW c \in Callers, Goto(c, "end"),
         pc[c] # "idle", line' = line, before' = before, copy' = copy, sent' = sent,
         Documented(line[c]) => settings' = Asked(line[c], before[c]),
         LatencyInv'
  PROVE  AloneInv'
<1>1. OneAtATime
  BY DEF AloneInv
<1>2. pc'[c] = "end"
  BY <1>1, OthersIdle
<1>3. CallerInv(c)'
  BY <1>2 DEF CallerInv, StrtokInv, CommandInv, EffectInv
<1> QED
  BY <1>1, <1>3, AloneAfter

LEMMA AloneDispatch ==
  ASSUME TextOK, DebugInv, AloneInv, alone, NEW c \in Callers, Dispatch(c)
  PROVE  AloneInv'
<1> DEFINE l == line[c]
<1>1. /\ pc[c] = "cut name" /\ settings' = settings /\ line' = line /\ copy' = copy
      /\ sent' = sent /\ before' = before
  BY DEF Dispatch, flags, At
<1>2. OneAtATime /\ CallerInv(c) /\ settings = before[c]
  BY <1>1 DEF AloneInv, CallerInv, EffectInv
<1>3. PICK tok \in Tokens \cup {NoTok} :
        /\ Token(c, tok)
        /\ LET cmd == IF tok = NoTok THEN Unknown ELSE GetIndex(tok.words)
           IN  /\ command' = [command EXCEPT ![c] = cmd]
               /\ Goto(c, IF cmd = Unknown THEN "end"
                          ELSE IF cmd \in Dumps THEN "print" ELSE "arg")
  BY DEF Dispatch
<1>4. IF 1 < Len(l)
      THEN tok = l[2] /\ saved' = Behind(l, sent, 2) /\ cut'[c] = 2
      ELSE tok = NoTok
  <2>1. ptr[c] = Behind(line[c], sent, 1) /\ cut[c] = 1 /\ Token(c, tok) /\ pc[c] # "idle"
    BY <1>1, <1>2, <1>3 DEF CallerInv, StrtokInv
  <2>2. IF 1 < Len(line[c])
        THEN /\ tok = line[c][1 + 1] /\ saved' = Behind(line[c], sent, 1 + 1)
             /\ cut'[c] = 1 + 1
        ELSE tok = NoTok
    <3>1. 1 \in 1 .. 2
      OBVIOUS
    <3> QED
      BY <1>2, <2>1, <3>1, OwnToken
  <2>3. 1 + 1 = 2
    OBVIOUS
  <2> QED
    BY <2>2, <2>3
<1>5. LatencyInv'
  <2>1. s_audio_latency_debug' = s_audio_latency_debug
    BY DEF Dispatch, flags
  <2>2. \E p : Goto(c, p)
    BY <1>3
  <2> QED
    BY <1>1, <2>1, <2>2, LatencyStays
<1>l. Len(l) \in Nat
  BY LinesAreSequences DEF TextOK
<1>6. CASE tok = NoTok \/ GetIndex(tok.words) = Unknown
  <2>1. Goto(c, "end")
    BY <1>3, <1>6
  <2>2. Documented(l) => Asked(l, before[c]) = before[c]
    <3>1. ASSUME Documented(l), Len(l) > 1 PROVE l[2].words \notin Setters
      <4>1. tok = l[2]
        BY <1>4, <1>l, <3>1
      <4>2. tok = NoTok
        BY <1>6, <3>1, <4>1, DocumentedNames
      <4>3. l[2].words = <<>>
        BY <4>1, <4>2 DEF NoTok
      <4> QED
        BY <4>3 DEF Setters
    <3> QED
      BY <3>1, AskedNothing
  <2> QED
    BY <1>1, <1>2, <1>5, <2>1, <2>2, AloneEnds
<1>7. CASE tok # NoTok /\ GetIndex(tok.words) # Unknown
  <2> DEFINE cmd == GetIndex(tok.words)
  <2>1. /\ command' = [command EXCEPT ![c] = cmd]
        /\ Goto(c, IF cmd \in Dumps THEN "print" ELSE "arg")
    BY <1>3, <1>7
  <2>2. Len(l) > 1 /\ tok = l[2] /\ saved' = Behind(l, sent, 2) /\ cut'[c] = 2
    BY <1>4, <1>7, <1>l
  <2>3. command'[c] = cmd
    BY <2>1 DEF TextOK
  <2>4. pc'[c] = IF cmd \in Dumps THEN "print" ELSE "arg"
    BY <1>1, <1>2, <2>1, OthersIdle
  <2>5. cmd \in Dumps => cmd \notin Setters
    BY DEF Dumps, Setters
  <2> HIDE DEF cmd
  <2>6. StrtokInv(c)'
    BY <1>1, <2>2, <2>4 DEF StrtokInv
  <2>7. CommandInv(c)'
    <3>1. command'[c] = GetIndex(l[2].words)
      BY <2>2, <2>3 DEF cmd
    <3> QED
      BY <1>1, <2>2, <2>3, <2>4, <2>5, <3>1 DEF CommandInv
  <2>8. EffectInv(c)'
    BY <1>1, <1>2, <2>4 DEF EffectInv
  <2>9. CallerInv(c)'
    BY <2>6, <2>7, <2>8 DEF CallerInv
  <2>10. (IF cmd \in Dumps THEN "print" ELSE "arg") # "idle"
    OBVIOUS
  <2> QED
    BY <1>1, <1>2, <1>5, <2>1, <2>9, <2>10, AloneAfter
<1> QED
  BY <1>6, <1>7

LEMMA AloneArgument ==
  ASSUME TextOK, DebugInv, AloneInv, alone, NEW c \in Callers, Argument(c)
  PROVE  AloneInv'
<1> DEFINE l == line[c]
<1>1. /\ pc[c] \in {"cut arg", "cut level"} /\ settings' = settings /\ line' = line
      /\ copy' = copy /\ sent' = sent /\ before' = before /\ command' = command
  BY DEF Argument, flags
<1>2. OneAtATime /\ CallerInv(c) /\ settings = before[c]
  BY <1>1 DEF AloneInv, CallerInv, EffectInv
<1>3. PICK tok \in Tokens \cup {NoTok} :
        /\ Token(c, tok)
        /\ arg' = [arg EXCEPT ![c] = tok]
        /\ Goto(c, IF tok = NoTok THEN "end"
                   ELSE IF command[c] \in {cam2_dbg_names[1], cam2_dbg_names[3]} THEN "print"
                   ELSE IF command[c] = cam2_dbg_names[2] /\ At(c, "cut arg") THEN "level"
                   ELSE "apply")
  BY DEF Argument
<1>4. /\ Len(l) \in Nat /\ Len(l) > 1 /\ command[c] = GetIndex(l[2].words)
      /\ pc[c] = "cut level" => command[c] \notin Setters
  BY <1>1, <1>2, LinesAreSequences DEF CallerInv, CommandInv, TextOK
<1>k. 2 \in 1 .. 2 /\ 2 + 1 = 3
  OBVIOUS
<1>5. ASSUME pc[c] = "cut arg" PROVE IF 2 < Len(l) THEN tok = l[3] ELSE tok = NoTok
  <2>1. ptr[c] = Behind(line[c], sent, 2) /\ cut[c] = 2 /\ Token(c, tok) /\ pc[c] # "idle"
    BY <1>2, <1>3, <1>5 DEF CallerInv, StrtokInv
  <2>2. IF 2 < Len(line[c])
        THEN /\ tok = line[c][2 + 1] /\ saved' = Behind(line[c], sent, 2 + 1)
             /\ cut'[c] = 2 + 1
        ELSE tok = NoTok
    BY <1>2, <1>k, <2>1, OwnToken
  <2> QED
    BY <1>k, <2>2
<1>6. LatencyInv'
  <2>1. s_audio_latency_debug' = s_audio_latency_debug
    BY DEF Argument, flags
  <2>2. \E p : Goto(c, p)
    BY <1>3
  <2> QED
    BY <1>1, <2>1, <2>2, LatencyStays
<1>7. CASE tok = NoTok
  <2>1. Goto(c, "end")
    BY <1>3, <1>7
  <2>2. Documented(l) => Asked(l, before[c]) = before[c]
    <3>1. ASSUME Documented(l), l[2].words \in Setters
          PROVE  ~Takes(l[2].words, IF Len(l) > 2 THEN l[3] ELSE NoTok)
      <4>1. l[2].words = command[c]
        BY <1>4, <3>1, DocumentedNames
      <4>2. pc[c] = "cut arg"
        BY <1>1, <1>4, <3>1, <4>1
      <4>3. (IF Len(l) > 2 THEN l[3] ELSE NoTok) = NoTok
        BY <1>4, <1>5, <1>7, <4>2
      <4> QED
        BY <3>1, <4>3, NoTokIsNotTaken
    <3> QED
      BY <3>1, AskedNothing
  <2> QED
    BY <1>1, <1>2, <1>6, <2>1, <2>2, AloneEnds
<1>8. CASE tok # NoTok
  <2>1. PICK p \in {"print", "level", "apply"} :
          /\ Goto(c, p)
          /\ p \in {"print", "level"} =>
               command[c] \in {cam2_dbg_names[1], cam2_dbg_names[2], cam2_dbg_names[3]}
    BY <1>3, <1>8
  <2>2. pc'[c] = p
    BY <1>1, <1>2, <2>1, OthersIdle
  <2>3. p \in {"print", "level"} => command[c] \notin Setters
    <3>1. {cam2_dbg_names[1], cam2_dbg_names[2], cam2_dbg_names[3]} \cap Setters = {}
      <4>1. /\ cam2_dbg_names[1] = <<"PRINT", "ELEMENT", "PROPERTY">>
            /\ cam2_dbg_names[2] = <<"SET", "CATEGORY", "DEBUG", "LEVEL">>
            /\ cam2_dbg_names[3] = <<"INSPECT", "ELEMENT">>
        BY DEF cam2_dbg_names
      <4> QED
        BY <4>1 DEF Setters
    <3> QED
      BY <2>1, <3>1
  <2>4. p = "apply" /\ command[c] \in Setters => Len(l) > 2 /\ tok = l[3]
    <3>1. command[c] \in Setters => pc[c] = "cut arg"
      BY <1>1, <1>4
    <3> QED
      BY <1>4, <1>5, <1>8, <3>1
  <2>5. arg'[c] = tok
    BY <1>3 DEF DebugInv
  <2>6. StrtokInv(c)'
    BY <2>2 DEF StrtokInv
  <2>7. CommandInv(c)'
    BY <1>1, <1>4, <2>2, <2>3, <2>4, <2>5 DEF CommandInv
  <2>8. EffectInv(c)'
    BY <1>1, <1>2, <2>2 DEF EffectInv
  <2>9. CallerInv(c)'
    BY <2>6, <2>7, <2>8 DEF CallerInv
  <2>10. p # "idle" /\ pc[c] # "idle"
    BY <1>1
  <2> QED
    BY <1>1, <1>2, <1>6, <2>1, <2>9, <2>10, AloneAfter
<1> QED
  BY <1>7, <1>8

\* A handler has the argument of its line.
LEMMA AtHandler ==
  ASSUME TextOK, AloneInv, alone, NEW c \in Callers, pc[c] \in {"apply", "force", "java"},
         command[c] \in Setters, Documented(line[c])
  PROVE  /\ Len(line[c]) > 2 /\ line[c][2].words = command[c] /\ arg[c] = line[c][3]
         /\ arg[c].int = NoNumber \/ arg[c].int \in Ints
         /\ arg[c].bps = NoNumber \/ arg[c].bps \in Ints
<1>1. /\ Len(line[c]) > 2 /\ command[c] = GetIndex(line[c][2].words)
      /\ arg[c] = line[c][3]
  BY DEF AloneInv, CallerInv, CommandInv
<1>2. line[c][2].words = command[c]
  <2>1. Len(line[c]) > 1
    BY DEF AloneInv, CallerInv, CommandInv
  <2> QED
    BY <1>1, <2>1, DocumentedNames
<1>3. 3 \in DOMAIN line[c]
  <2>1. line[c] \in Seq(Tokens)
    <3>1. CASE line[c] \in Lines
      BY <3>1, DebugAssumption DEF DebugAssumption
    <3>2. CASE line[c] = <<>>
      BY <3>2
    <3> QED
      BY <3>1, <3>2 DEF TextOK
  <2> QED
    BY <1>1, <2>1
<1>4. /\ arg[c].int = NoNumber \/ arg[c].int \in Ints
      /\ arg[c].bps = NoNumber \/ arg[c].bps \in Ints
  BY <1>1, <1>3 DEF Documented
<1> QED
  BY <1>1, <1>2, <1>4

\* A setting other than the latency flag is assigned.
LEMMA AloneAssigns ==
  ASSUME TextOK, DebugInv, AloneInv, alone, NEW c \in Callers, NEW s, Assign(c, s),
         pc[c] \in {"print", "apply", "force"},
         s.m_audioLatencyDebug = settings.m_audioLatencyDebug,
         Documented(line[c]) => s = Asked(line[c], before[c])
  PROVE  AloneInv'
<1>1. /\ settings' = s /\ Goto(c, "end") /\ line' = line /\ copy' = copy /\ sent' = sent
      /\ before' = before
  BY DEF Assign, flags, text
<1>2. s_audio_latency_debug' = s_audio_latency_debug
  BY DEF Assign, flags
<1>3. LatencyInv'
  BY <1>1, <1>2, LatencyStays
<1> QED
  BY <1>1, <1>3, AloneEnds

\* The handlers that assign one setting, or none.
LEMMA AloneHandlers ==
  ASSUME TextOK, DebugInv, AloneInv, alone, NEW c \in Callers,
         \/ SetMaxBitRate(c) \/ SetRtcpFeedback(c) \/ SetPreferH265(c) \/ SetStreamMode(c)
         \/ SetAudioSampleRate(c) \/ SetAudioChannels(c)
  PROVE  AloneInv'
<1> DEFINE l == line[c]
           t == arg[c]
<1>0. settings \in Promised!Settings
  BY DEF DebugInv
<1>1. pc[c] = "apply" /\ command[c] \in Setters
  BY DEF SetMaxBitRate, SetRtcpFeedback, SetPreferH265, SetStreamMode, SetAudioSampleRate,
     SetAudioChannels, Calls, At, Setters
<1>2. settings = before[c]
  BY <1>1 DEF AloneInv, CallerInv, EffectInv
<1>3. ASSUME Documented(l)
      PROVE  /\ Len(l) > 2 /\ l[2].words = command[c] /\ t = l[3]
             /\ t.int = NoNumber \/ t.int \in Ints
             /\ t.bps = NoNumber \/ t.bps \in Ints
  BY <1>1, <1>3, AtHandler
<1>4. CASE SetMaxBitRate(c)
  <2> DEFINE n == IF Jint(t.bps) > 0 THEN Jint(t.bps) ELSE 0
             s == [settings EXCEPT !.m_maxBitRate = n]
  <2>1. /\ command[c] = <<"SET", "MAX", "BITRATE">> /\ t.bps # NoNumber /\ t.bps >= 0
        /\ Assign(c, s)
    BY <1>4 DEF SetMaxBitRate, Calls
  <2>2. s.m_audioLatencyDebug = settings.m_audioLatencyDebug
    BY <1>0 DEF Promised!Settings
  <2>3. ASSUME Documented(l) PROVE s = Asked(l, before[c])
    <3>1. Jint(t.bps) = t.bps /\ t.bps \in Int
      <4>1. t.bps \in Ints
        BY <1>3, <2>1, <2>3
      <4> QED
        BY <4>1, JintKeeps, JintRange, DebugAssumption DEF Ints, DebugAssumption
    <3>2. n = t.bps
      BY <2>1, <3>1
    <3>3. Asked(l, before[c]) = [before[c] EXCEPT !.m_maxBitRate = t.bps]
      BY <1>3, <2>1, <2>3, AskedBitRate
    <3> QED
      BY <1>2, <3>2, <3>3
  <2> QED
    BY <1>1, <2>1, <2>2, <2>3, AloneAssigns
<1>5. CASE SetRtcpFeedback(c)
  <2> DEFINE s == [settings EXCEPT !.m_rtcpFeedback = IsTrue(t)]
  <2>1. command[c] = <<"SET", "RTCP", "FEEDBACK">> /\ IsBool(t) /\ Assign(c, s)
    BY <1>5 DEF SetRtcpFeedback, Calls
  <2>2. s.m_audioLatencyDebug = settings.m_audioLatencyDebug
    BY <1>0 DEF Promised!Settings
  <2>3. Documented(l) => s = Asked(l, before[c])
    BY <1>2, <1>3, <2>1, AskedRtcpFeedback
  <2> QED
    BY <1>1, <2>1, <2>2, <2>3, AloneAssigns
<1>6. CASE SetPreferH265(c)
  <2> DEFINE s == [settings EXCEPT !.m_preferH265 = IsTrue(t)]
  <2>1. command[c] = <<"SET", "PREFER", "H265">> /\ IsBool(t) /\ Assign(c, s)
    BY <1>6 DEF SetPreferH265, Calls
  <2>2. s.m_audioLatencyDebug = settings.m_audioLatencyDebug
    BY <1>0 DEF Promised!Settings
  <2>3. Documented(l) => s = Asked(l, before[c])
    BY <1>2, <1>3, <2>1, AskedPreferH265
  <2> QED
    BY <1>1, <2>1, <2>2, <2>3, AloneAssigns
<1>7. CASE SetStreamMode(c)
  <2> DEFINE s == [settings EXCEPT !.mStreamMode = ModeOf(t)]
  <2>1. command[c] = <<"SET", "STREAM", "MODE">> /\ ModeOf(t) \in 0 .. 2 /\ Assign(c, s)
    BY <1>7 DEF SetStreamMode, Calls
  <2>2. s.m_audioLatencyDebug = settings.m_audioLatencyDebug
    BY <1>0 DEF Promised!Settings
  <2>3. Documented(l) => s = Asked(l, before[c])
    BY <1>2, <1>3, <2>1, AskedStreamMode
  <2> QED
    BY <1>1, <2>1, <2>2, <2>3, AloneAssigns
<1>8. CASE SetAudioSampleRate(c)
  <2> DEFINE s == [settings EXCEPT !.AUDIO_SAMPLE_RATE = Jint(t.int)]
  <2>1. /\ command[c] = <<"SET", "AUDIO", "SAMPLE", "RATE">> /\ t.int # NoNumber
        /\ Jint(t.int) \in Rates /\ Assign(c, s)
    BY <1>8 DEF SetAudioSampleRate, Calls
  <2>2. s.m_audioLatencyDebug = settings.m_audioLatencyDebug
    BY <1>0 DEF Promised!Settings
  <2>3. ASSUME Documented(l) PROVE s = Asked(l, before[c])
    <3>1. Jint(t.int) = t.int
      <4>1. t.int \in Ints
        BY <1>3, <2>1, <2>3
      <4> QED
        BY <4>1, JintKeeps
    <3>2. Asked(l, before[c]) = [before[c] EXCEPT !.AUDIO_SAMPLE_RATE = t.int]
      BY <1>3, <2>1, <2>3, <3>1, AskedSampleRate
    <3> QED
      BY <1>2, <3>1, <3>2
  <2> QED
    BY <1>1, <2>1, <2>2, <2>3, AloneAssigns
<1>9. CASE SetAudioChannels(c)
  <2> DEFINE s == [settings EXCEPT !.AUDIO_CHANNEL_COUNT = t.int]
  <2>1. command[c] = <<"SET", "AUDIO", "CHANNELS">> /\ t.int \in {1, 2} /\ Assign(c, s)
    BY <1>9 DEF SetAudioChannels, Calls
  <2>2. s.m_audioLatencyDebug = settings.m_audioLatencyDebug
    BY <1>0 DEF Promised!Settings
  <2>3. Documented(l) => s = Asked(l, before[c])
    BY <1>2, <1>3, <2>1, AskedChannels
  <2> QED
    BY <1>1, <2>1, <2>2, <2>3, AloneAssigns
<1> QED
  BY <1>4, <1>5, <1>6, <1>7, <1>8, <1>9

\* What prints and what is rejected leaves the settings alone, as asked.
LEMMA AloneReport ==
  ASSUME TextOK, DebugInv, AloneInv, alone, NEW c \in Callers, Report(c)
  PROVE  AloneInv'
<1> DEFINE l == line[c]
           t == arg[c]
<1>1. Assign(c, settings) /\ pc[c] \in {"print", "apply"}
  BY DEF Report, At
<1>2. settings = before[c] /\ CommandInv(c)
  BY <1>1 DEF AloneInv, CallerInv, EffectInv
<1>3. ASSUME Documented(l) PROVE settings = Asked(l, before[c])
  <2>1. ASSUME Len(l) > 1, l[2].words \in Setters
        PROVE  ~Takes(l[2].words, IF Len(l) > 2 THEN l[3] ELSE NoTok)
    <3>1. l[2].words = command[c]
      BY <1>1, <1>2, <1>3, <2>1, DocumentedNames DEF CommandInv
    <3>2. pc[c] = "apply" /\ command[c] \in Setters
      BY <1>1, <1>2, <2>1, <3>1 DEF CommandInv
    <3>3. /\ Len(l) > 2 /\ t = l[3]
          /\ t.int = NoNumber \/ t.int \in Ints
      BY <1>3, <3>2, AtHandler
    <3>4. ~Takes(command[c], t)
      <4> SUFFICES ASSUME Takes(command[c], t) PROVE FALSE
        OBVIOUS
      <4>1. CASE command[c] = <<"SET", "MAX", "BITRATE">>
        <5>1. IF t.bps = NoNumber THEN TRUE ELSE t.bps < 0
          BY <3>2, <4>1 DEF Report, At, Calls
        <5>2. t.bps # NoNumber /\ t.bps >= 0
          BY <4>1 DEF Takes
        <5>3. t.bps \in Int
          <6>1. t \in Tokens \cup {NoTok}
            BY DEF DebugInv
          <6> QED
            BY <5>2, <6>1, ArgumentNumbers
        <5> QED
          BY <5>1, <5>2, <5>3
      <4>2. CASE command[c] \in {<<"SET", "RTCP", "FEEDBACK">>, <<"SET", "PREFER", "H265">>,
                                 <<"SET", "USE", "OPUS">>, <<"SET", "AUDIO", "LATENCY", "DEBUG">>}
        <5>1. ~IsBool(t)
          BY <3>2, <4>2 DEF Report, At, Calls
        <5> QED
          BY <4>2, <5>1 DEF Takes
      <4>3. CASE command[c] = <<"SET", "STREAM", "MODE">>
        <5>1. ModeOf(t) \notin 0 .. 2
          BY <3>2, <4>3 DEF Report, At, Calls
        <5> QED
          BY <4>3, <5>1 DEF Takes
      <4>4. CASE command[c] = <<"SET", "AUDIO", "SAMPLE", "RATE">>
        <5>1. IF t.int = NoNumber THEN TRUE ELSE t.int <= 0 \/ Jint(t.int) \notin Rates
          BY <3>2, <4>4 DEF Report, At, Calls
        <5>2. t.int \in Rates
          BY <4>4 DEF Takes
        <5>3. t.int \in Nat \ {0} /\ NoNumber \notin Int
          BY <5>2, DebugAssumption DEF DebugAssumption
        <5>4. t.int # NoNumber
          BY <5>3
        <5>5. Jint(t.int) = t.int
          BY <3>3, <5>4, JintKeeps
        <5> QED
          BY <5>1, <5>2, <5>3, <5>4, <5>5
      <4>5. CASE command[c] = <<"SET", "AUDIO", "CHANNELS">>
        <5>1. t.int \notin {1, 2}
          BY <3>2, <4>5 DEF Report, At, Calls
        <5> QED
          BY <4>5, <5>1 DEF Takes
      <4> QED
        BY <3>2, <4>1, <4>2, <4>3, <4>4, <4>5 DEF Setters
    <3> QED
      BY <3>1, <3>3, <3>4
  <2> QED
    BY <1>2, <2>1, AskedNothing
<1> QED
  BY <1>1, <1>3, AloneAssigns

\* Turning Opus on is two steps, turning it off one.
LEMMA OpusOn ==
  ASSUME NEW s \in Promised!Settings, NEW t, IsTrue(t)
  PROVE  WithOpus(s, t) = [[s EXCEPT !.m_useOpus = IsTrue(t)] EXCEPT !.AUDIO_SAMPLE_RATE = OpusHz]
  BY DEF WithOpus, Promised!Settings

LEMMA OpusOff ==
  ASSUME NEW s \in Promised!Settings, NEW t, ~IsTrue(t)
  PROVE  WithOpus(s, t) = [s EXCEPT !.m_useOpus = IsTrue(t)]
  BY DEF WithOpus, Promised!Settings

LEMMA AloneOpus ==
  ASSUME TextOK, BeforeOK, DebugInv, AloneInv, alone, NEW c \in Callers,
         SetUseOpus(c) \/ ForceRate(c)
  PROVE  AloneInv'
<1> DEFINE l == line[c]
           t == arg[c]
<1>0. settings \in Promised!Settings /\ before[c] \in Promised!Settings
  BY DEF DebugInv, BeforeOK
<1>1. CASE SetUseOpus(c)
  <2> DEFINE s == [settings EXCEPT !.m_useOpus = IsTrue(t)]
  <2>1. /\ pc[c] = "apply" /\ command[c] = <<"SET", "USE", "OPUS">> /\ IsBool(t)
        /\ settings' = s /\ Goto(c, IF IsTrue(t) THEN "force" ELSE "end")
        /\ line' = line /\ copy' = copy /\ sent' = sent /\ command' = command /\ arg' = arg
        /\ before' = before
    BY <1>1 DEF SetUseOpus, Calls, At, flags, text
  <2>2. OneAtATime /\ CommandInv(c) /\ settings = before[c]
    BY <2>1 DEF AloneInv, CallerInv, EffectInv
  <2>3. LatencyInv'
    <3>1. s_audio_latency_debug' = s_audio_latency_debug
      BY <1>1 DEF SetUseOpus, flags
    <3>2. settings'.m_audioLatencyDebug = settings.m_audioLatencyDebug
      BY <1>0, <2>1 DEF Promised!Settings
    <3>3. \E p : Goto(c, p) /\ pc[c] \notin {"idle", "java"}
      BY <2>1
    <3> QED
      BY <3>1, <3>2, <3>3, LatencyStays
  <2>4. CASE IsTrue(t)
    <3>1. Goto(c, "force")
      BY <2>1, <2>4
    <3>2. pc'[c] = "force"
      BY <2>1, <2>2, <3>1, OthersIdle
    <3>3. StrtokInv(c)'
      BY <3>2 DEF StrtokInv
    <3>4. CommandInv(c)'
      BY <2>1, <2>2, <3>2 DEF CommandInv
    <3>5. EffectInv(c)'
      BY <2>1, <2>2, <2>4, <3>2 DEF EffectInv
    <3>6. CallerInv(c)'
      BY <3>3, <3>4, <3>5 DEF CallerInv
    <3> QED
      BY <2>1, <2>2, <2>3, <3>1, <3>6, AloneAfter
  <2>5. CASE ~IsTrue(t)
    <3>1. Goto(c, "end")
      BY <2>1, <2>5
    <3>2. ASSUME Documented(l) PROVE settings' = Asked(l, before[c])
      <4>1. command[c] \in Setters
        BY <2>1 DEF Setters
      <4>2. Len(l) > 2 /\ l[2].words = <<"SET", "USE", "OPUS">> /\ t = l[3]
        BY <2>1, <3>2, <4>1, AtHandler
      <4>3. Asked(l, before[c]) = WithOpus(before[c], t)
        BY <2>1, <4>2, AskedOpus
      <4> QED
        BY <1>0, <2>1, <2>2, <2>5, <4>3, OpusOff
    <3>3. pc[c] # "idle"
      BY <2>1
    <3> QED
      BY <2>1, <2>3, <3>1, <3>2, <3>3, AloneEnds
  <2> QED
    BY <2>4, <2>5
<1>2. CASE ForceRate(c)
  <2> DEFINE s == [settings EXCEPT !.AUDIO_SAMPLE_RATE = OpusHz]
  <2>1. pc[c] = "force" /\ Assign(c, s)
    BY <1>2 DEF ForceRate, At
  <2>2. /\ command[c] = <<"SET", "USE", "OPUS">> /\ IsTrue(t)
        /\ settings = [before[c] EXCEPT !.m_useOpus = IsTrue(t)]
    BY <2>1 DEF AloneInv, CallerInv, EffectInv
  <2>3. s.m_audioLatencyDebug = settings.m_audioLatencyDebug
    BY <1>0 DEF Promised!Settings
  <2>4. ASSUME Documented(l) PROVE s = Asked(l, before[c])
    <3>1. command[c] \in Setters /\ IsBool(t)
      BY <2>2 DEF Setters, IsBool
    <3>2. Len(l) > 2 /\ l[2].words = <<"SET", "USE", "OPUS">> /\ t = l[3]
      BY <2>1, <2>2, <2>4, <3>1, AtHandler
    <3>3. Asked(l, before[c]) = WithOpus(before[c], t)
      BY <3>1, <3>2, AskedOpus
    <3> QED
      BY <1>0, <2>2, <3>3, OpusOn
  <2> QED
    BY <2>1, <2>3, <2>4, AloneAssigns
<1> QED
  BY <1>1, <1>2

\* The latency logging: first the native flag, then Java's.
LEMMA AloneLatency ==
  ASSUME TextOK, DebugInv, AloneInv, alone, NEW c \in Callers,
         SetAudioLatencyDebug(c) \/ SetJavaLatencyDebug(c)
  PROVE  AloneInv'
<1> DEFINE l == line[c]
           t == arg[c]
<1>0. settings \in Promised!Settings /\ OneAtATime
  BY DEF DebugInv, AloneInv
<1>1. CASE SetAudioLatencyDebug(c)
  <2>1. /\ pc[c] = "apply" /\ command[c] = <<"SET", "AUDIO", "LATENCY", "DEBUG">> /\ IsBool(t)
        /\ settings' = settings /\ Goto(c, "java")
        /\ line' = line /\ copy' = copy /\ sent' = sent /\ command' = command /\ arg' = arg
        /\ before' = before
    BY <1>1 DEF SetAudioLatencyDebug, Calls, At, text
  <2>2. s_audio_latency_debug' = IsTrue(t)
    BY <1>1 DEF SetAudioLatencyDebug
  <2>3. CommandInv(c) /\ settings = before[c]
    BY <2>1 DEF AloneInv, CallerInv, EffectInv
  <2>4. pc'[c] = "java"
    BY <1>0, <2>1, OthersIdle
  <2>5. LatencyInv'
    BY <2>4 DEF LatencyInv
  <2>6. StrtokInv(c)'
    BY <2>4 DEF StrtokInv
  <2>7. CommandInv(c)'
    BY <2>1, <2>3, <2>4 DEF CommandInv
  <2>8. EffectInv(c)'
    <3>1. settings' = before'[c]
      BY <2>1, <2>3
    <3>2. command'[c] = <<"SET", "AUDIO", "LATENCY", "DEBUG">> /\ IsBool(arg'[c])
      BY <2>1
    <3>3. s_audio_latency_debug' = IsTrue(arg'[c])
      BY <2>1, <2>2
    <3> QED
      BY <2>4, <3>1, <3>2, <3>3 DEF EffectInv
  <2>9. CallerInv(c)'
    BY <2>6, <2>7, <2>8 DEF CallerInv
  <2> QED
    BY <1>0, <2>1, <2>5, <2>9, AloneAfter
<1>2. CASE SetJavaLatencyDebug(c)
  <2> DEFINE s == [settings EXCEPT !.m_audioLatencyDebug = IsTrue(t)]
  <2>1. /\ pc[c] = "java" /\ settings' = s /\ Goto(c, "end")
        /\ line' = line /\ copy' = copy /\ sent' = sent /\ before' = before
    BY <1>2 DEF SetJavaLatencyDebug, Assign, At, text, flags
  <2>2. s_audio_latency_debug' = s_audio_latency_debug
    BY <1>2 DEF SetJavaLatencyDebug, Assign, flags
  <2>3. /\ command[c] = <<"SET", "AUDIO", "LATENCY", "DEBUG">> /\ IsBool(t)
        /\ settings = before[c]
    BY <2>1 DEF AloneInv, CallerInv, EffectInv
  <2>4. s_audio_latency_debug = IsTrue(t)
    BY <2>1 DEF AloneInv, CallerInv, EffectInv
  <2>5. LatencyInv'
    <3>1. settings'.m_audioLatencyDebug = IsTrue(t)
      BY <1>0, <2>1 DEF Promised!Settings
    <3> QED
      BY <2>2, <2>4, <3>1 DEF LatencyInv
  <2>6. ASSUME Documented(l) PROVE settings' = Asked(l, before[c])
    <3>1. command[c] \in Setters
      BY <2>3 DEF Setters
    <3>2. /\ Len(l) > 2 /\ l[2].words = <<"SET", "AUDIO", "LATENCY", "DEBUG">> /\ t = l[3]
      BY <2>1, <2>3, <2>6, <3>1, AtHandler
    <3>3. Asked(l, before[c]) = [before[c] EXCEPT !.m_audioLatencyDebug = IsTrue(t)]
      BY <2>3, <3>2, AskedLatency
    <3> QED
      BY <2>1, <2>3, <3>3
  <2>7. pc[c] # "idle"
    BY <2>1
  <2> QED
    BY <2>1, <2>5, <2>6, <2>7, AloneEnds
<1> QED
  BY <1>1, <1>2

LEMMA AloneEnd ==
  ASSUME TextOK, DebugInv, AloneInv, alone, NEW c \in Callers, End(c)
  PROVE  AloneInv'
<1>1. /\ pc[c] = "end" /\ Goto(c, "idle") /\ copy' = [copy EXCEPT ![c] = 0]
      /\ settings' = settings
  BY DEF End, At
<1>2. s_audio_latency_debug' = s_audio_latency_debug
  BY DEF End, flags
<1>3. OneAtATime /\ copy \in [Callers -> 0 .. sent]
  BY DEF AloneInv, TextOK
<1>4. pc'[c] = "idle" /\ \A d \in Callers : d # c => pc[d] = "idle" /\ pc'[d] = "idle"
  BY <1>1, <1>3, OthersIdle
<1>5. \A d \in Callers : pc'[d] = "idle" /\ copy'[d] = 0
  BY <1>1, <1>3, <1>4 DEF OneAtATime
<1>6. OneAtATime'
  BY <1>5 DEF OneAtATime
<1>7. LatencyInv'
  BY <1>1, <1>2, LatencyStays
<1>8. \A d \in Callers : CallerInv(d)'
  BY <1>5, IdleCallers
<1> QED
  BY <1>6, <1>7, <1>8 DEF AloneInv

-----------------------------------------------------------------------------
LEMMA AloneInit == DebugInit => AloneInv /\ TextOK /\ BeforeOK /\ SwitchesOK
<1> SUFFICES ASSUME DebugInit PROVE AloneInv /\ TextOK /\ BeforeOK /\ SwitchesOK
  OBVIOUS
<1>1. /\ \A c \in Callers : pc[c] = "idle" /\ copy[c] = 0
      /\ s_audio_latency_debug = FALSE /\ settings.m_audioLatencyDebug = FALSE
  BY DEF DebugInit, Promised!Defaults
<1>2. OneAtATime /\ \A c \in Callers : CallerInv(c)
  BY <1>1, IdleCallers DEF OneAtATime
<1>3. LatencyInv
  BY <1>1 DEF LatencyInv
<1>4. TextOK
  BY DebugAssumption DEF DebugInit, TextOK, Pointers, DebugAssumption
<1>5. BeforeOK
  <2>1. settings \in Promised!Settings /\ before = [c \in Callers |-> settings]
    BY InitEstablishes DEF DebugInit, DebugInv
  <2> QED
    BY <2>1 DEF BeforeOK
<1>6. SwitchesOK
  <2>1. s_audio_latency_debug \in BOOLEAN
    BY <1>1, Booleans
  <2>2. alone \in BOOLEAN
    BY DEF DebugInit
  <2> QED
    BY <2>1, <2>2 DEF SwitchesOK
<1> QED
  BY <1>2, <1>3, <1>4, <1>5, <1>6 DEF AloneInv

\* Whether commands come one at a time is settled from the start.
LEMMA AloneIsFixed == [DebugNext]_debugVars => alone' = alone
  BY DEF DebugNext, Begin, Load, Dispatch, Argument, Report, End, Assign, SetMaxBitRate,
     SetRtcpFeedback, SetPreferH265, SetStreamMode, SetAudioSampleRate, SetAudioChannels,
     SetUseOpus, ForceRate, SetAudioLatencyDebug, SetJavaLatencyDebug, debugVars

LEMMA AloneStays ==
  TextOK /\ BeforeOK /\ DebugInv /\ AloneInv /\ [DebugNext]_debugVars => AloneInv'
<1> SUFFICES ASSUME TextOK, BeforeOK, DebugInv, AloneInv, [DebugNext]_debugVars, alone'
             PROVE  AloneInv'
  BY DEF AloneInv
<1>0. alone
  BY AloneIsFixed
<1>1. ASSUME NEW c \in Callers, \E l \in Lines : Begin(c, l) PROVE AloneInv'
  BY <1>0, <1>1, AloneBegin
<1>2. ASSUME NEW c \in Callers, Load(c) \/ Dispatch(c) \/ Argument(c) \/ Report(c) \/ End(c)
      PROVE  AloneInv'
  BY <1>0, <1>2, AloneLoad, AloneDispatch, AloneArgument, AloneReport, AloneEnd
<1>3. ASSUME NEW c \in Callers,
             \/ SetMaxBitRate(c) \/ SetRtcpFeedback(c) \/ SetPreferH265(c) \/ SetStreamMode(c)
             \/ SetAudioSampleRate(c) \/ SetAudioChannels(c)
      PROVE  AloneInv'
  BY <1>0, <1>3, AloneHandlers
<1>4. ASSUME NEW c \in Callers, SetUseOpus(c) \/ ForceRate(c) PROVE AloneInv'
  BY <1>0, <1>4, AloneOpus
<1>5. ASSUME NEW c \in Callers, SetAudioLatencyDebug(c) \/ SetJavaLatencyDebug(c)
      PROVE  AloneInv'
  BY <1>0, <1>5, AloneLatency
<1>6. CASE UNCHANGED debugVars
  <2>1. /\ settings' = settings /\ line' = line /\ copy' = copy /\ cut' = cut /\ ptr' = ptr
        /\ saved' = saved /\ sent' = sent /\ pc' = pc /\ command' = command /\ arg' = arg
        /\ before' = before
    BY <1>6 DEF debugVars, text, flags
  <2>2. s_audio_latency_debug' = s_audio_latency_debug
    BY <1>6 DEF debugVars, flags
  <2>3. OneAtATime' /\ LatencyInv'
    <3>1. OneAtATime'
      BY <1>0, <2>1 DEF AloneInv, OneAtATime
    <3>2. LatencyInv'
      BY <1>0, <2>1, <2>2 DEF AloneInv, LatencyInv
    <3> QED
      BY <3>1, <3>2
  <2>4. \A c \in Callers : CallerInv(c)'
    <3> TAKE c \in Callers
    <3>1. CallerInv(c)
      BY <1>0 DEF AloneInv
    <3>2. StrtokInv(c)' /\ CommandInv(c)'
      BY <2>1, <3>1 DEF CallerInv, StrtokInv, CommandInv
    <3>3. EffectInv(c)'
      <4>1. settings' = settings /\ before' = before /\ pc' = pc /\ line' = line
            /\ command' = command /\ arg' = arg
        BY <2>1
      <4>2. EffectInv(c)
        BY <3>1 DEF CallerInv
      <4> QED
        BY <2>2, <4>1, <4>2 DEF EffectInv
    <3> QED
      BY <3>2, <3>3 DEF CallerInv
  <2> QED
    BY <2>3, <2>4 DEF AloneInv
<1> QED
  BY <1>1, <1>2, <1>3, <1>4, <1>5, <1>6 DEF DebugNext

\* What the dispatcher keeps true.
CommandsInv == DebugTypeOK /\ AloneInv

LEMMA CommandsInit == DebugInit => CommandsInv
  BY InitEstablishes, AloneInit, DebugParts DEF CommandsInv

LEMMA CommandsStay == CommandsInv /\ [DebugNext]_debugVars => CommandsInv'
<1> SUFFICES ASSUME CommandsInv, [DebugNext]_debugVars PROVE CommandsInv'
  OBVIOUS
<1>1. DebugInv /\ TextOK /\ BeforeOK /\ SwitchesOK /\ AloneInv
  BY DebugParts DEF CommandsInv
<1>2. DebugTypeOK'
  BY <1>1, StepImplements, TextStays, SwitchesStay, DebugPartsPrime
<1>3. AloneInv'
  BY <1>1, AloneStays
<1> QED
  BY <1>2, <1>3 DEF CommandsInv

\* The invariant of the dispatcher, for any callers and any lines.
THEOREM CommandsInvariant == DebugSpec => []CommandsInv
<1> QED
  BY CommandsInit, CommandsStay, PTL DEF DebugSpec

\* Every variable has its type, in whatever order strtok's calls come.
THEOREM DebugTypes == DebugSpec => []DebugTypeOK
<1>1. CommandsInv => DebugTypeOK
  BY DEF CommandsInv
<1> QED
  BY <1>1, CommandsInvariant, PTL

\* A documented line that is sent alone has the effect the list of commands gives it,
\* for any lines sent before it.
THEOREM EffectOfCommands == DebugSpec => []EffectIsWhatWasAsked
<1>1. CommandsInv => EffectIsWhatWasAsked
  <2> SUFFICES ASSUME CommandsInv, alone, NEW c \in Callers, At(c, "end")
               PROVE  /\ Documented(line[c]) => settings = Asked(line[c], before[c])
                      /\ s_audio_latency_debug = settings.m_audioLatencyDebug
    BY DEF EffectIsWhatWasAsked
  <2>1. OneAtATime /\ LatencyInv /\ CallerInv(c) /\ pc[c] = "end"
    BY DEF CommandsInv, AloneInv, At
  <2>2. Documented(line[c]) => settings = Asked(line[c], before[c])
    BY <2>1 DEF CallerInv, EffectInv
  <2>3. \A d \in Callers : pc[d] # "java"
    BY <2>1 DEF OneAtATime
  <2>4. s_audio_latency_debug = settings.m_audioLatencyDebug
    BY <2>1, <2>3 DEF LatencyInv
  <2> QED
    BY <2>2, <2>4
<1> QED
  BY <1>1, CommandsInvariant, PTL
=============================================================================
