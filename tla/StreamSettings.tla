---------------------------- MODULE StreamSettings ----------------------------
(***************************************************************************)
(* What Camera2GstStreamer promises of its static settings, which take     *)
(* effect on the next start(): whoever calls the setters, in whatever      *)
(* order, each step changes one setting, to a value start() can use.       *)
(*                                                                         *)
(* The statics are neither locked nor, but for m_audioLatencyDebug,        *)
(* volatile; a write is one step.  setUseOpus(true) takes two: it turns    *)
(* Opus on, and then forces the rate.                                      *)
(***************************************************************************)
EXTENDS Integers

CONSTANTS
  Rates,        \* what aacFreqIndex knows
  OpusHz,       \* 48000
  BitRates      \* values of an int that are not negative

ASSUME SettingsAssumption ==
  /\ OpusHz \in Rates /\ Rates \subseteq Nat \ {0}
  /\ 0 \in BitRates /\ BitRates \subseteq Nat

VARIABLES
  settings,     \* the statics, a record
  forcing,      \* calls of setUseOpus(true) that are to force the rate yet
  rateAsked     \* was a rate set since Opus was last turned on?

settingVars == <<settings, forcing, rateAsked>>

VIDEO_ONLY == 0
AUDIO_ONLY == 1
VIDEO_AND_AUDIO_BOTH == 2
StreamModes == {VIDEO_ONLY, AUDIO_ONLY, VIDEO_AND_AUDIO_BOTH}

Settings ==
  [m_preferH265 : BOOLEAN, m_rtcpFeedback : BOOLEAN, m_audioLatencyDebug : BOOLEAN,
   m_maxBitRate : BitRates, mStreamMode : StreamModes, m_useOpus : BOOLEAN,
   AUDIO_SAMPLE_RATE : Rates, AUDIO_CHANNEL_COUNT : {1, 2}]

Defaults ==
  [m_preferH265 |-> TRUE, m_rtcpFeedback |-> TRUE, m_audioLatencyDebug |-> FALSE,
   m_maxBitRate |-> 0, mStreamMode |-> VIDEO_AND_AUDIO_BOTH, m_useOpus |-> TRUE,
   AUDIO_SAMPLE_RATE |-> OpusHz, AUDIO_CHANNEL_COUNT |-> 1]

SetFlag(b) ==
  /\ \/ settings' = [settings EXCEPT !.m_preferH265 = b]
     \/ settings' = [settings EXCEPT !.m_rtcpFeedback = b]
     \/ settings' = [settings EXCEPT !.m_audioLatencyDebug = b]
  /\ UNCHANGED <<forcing, rateAsked>>

SetMaxBitRate(bps) ==
  /\ settings' = [settings EXCEPT !.m_maxBitRate = bps]
  /\ UNCHANGED <<forcing, rateAsked>>

SetStreamMode(mode) ==
  /\ settings' = [settings EXCEPT !.mStreamMode = mode]
  /\ UNCHANGED <<forcing, rateAsked>>

SetAudioSampleRate(rate) ==
  /\ settings' = [settings EXCEPT !.AUDIO_SAMPLE_RATE = rate]
  /\ rateAsked' = TRUE
  /\ UNCHANGED forcing

SetAudioChannelCount(channels) ==
  /\ settings' = [settings EXCEPT !.AUDIO_CHANNEL_COUNT = channels]
  /\ UNCHANGED <<forcing, rateAsked>>

SetUseOpus(enable) ==
  /\ settings' = [settings EXCEPT !.m_useOpus = enable]
  /\ forcing' = IF enable THEN forcing + 1 ELSE forcing
  /\ rateAsked' = (rateAsked /\ ~enable)

ForceRate ==
  /\ forcing > 0 /\ forcing' = forcing - 1
  /\ settings' = [settings EXCEPT !.AUDIO_SAMPLE_RATE = OpusHz]
  /\ UNCHANGED rateAsked

SettingsInit == settings = Defaults /\ forcing = 0 /\ rateAsked = FALSE

SettingsNext ==
  \/ \E b \in BOOLEAN : SetFlag(b) \/ SetUseOpus(b)
  \/ \E bps \in BitRates : SetMaxBitRate(bps)
  \/ \E mode \in StreamModes : SetStreamMode(mode)
  \/ \E rate \in Rates : SetAudioSampleRate(rate)
  \/ \E channels \in {1, 2} : SetAudioChannelCount(channels)
  \/ ForceRate

SettingsSpec == SettingsInit /\ [][SettingsNext]_settingVars

-----------------------------------------------------------------------------
(* What follows, and is proved in DebugCommandsProofs.                      *)

SettingsTypeOK ==
  settings \in Settings /\ forcing \in Nat /\ rateAsked \in BOOLEAN

\* "Enabling Opus forces the capture sample rate to 48000 Hz": with Opus on, another
\* rate is one that somebody set after Opus was turned on, or is about to be replaced.
OpusRate ==
  settings.m_useOpus /\ settings.AUDIO_SAMPLE_RATE # OpusHz => rateAsked \/ forcing > 0
=============================================================================
