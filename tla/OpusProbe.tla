------------------------------- MODULE OpusProbe -------------------------------
(***************************************************************************)
(* The Opus encode-latency probe of camera2_gst_streamer.cpp.              *)
(*                                                                         *)
(* opusenc takes a frame and puts it out again on one streaming thread.  A *)
(* probe before it notes when the frame came, a probe behind it takes the  *)
(* oldest note and counts the difference as this frame's latency.  Both do *)
(* nothing while s_audio_latency_debug is off, and look at that flag       *)
(* before they take s_opus_probe_lock.  Debug commands set the flag, each  *)
(* on a thread of its own; turning it on first clears the notes that       *)
(* frames left behind while it was off.                                    *)
(*                                                                         *)
(* A note is kept by its frame's PTS; `own` tells the note of the frame    *)
(* now in the encoder from those left behind by earlier ones.  What is     *)
(* summed up of the latencies is how many there are and whether each was   *)
(* the frame's own.                                                        *)
(***************************************************************************)
EXTENDS Integers, FiniteSets

CONSTANTS
  Togglers,     \* threads that run SET_AUDIO_LATENCY_DEBUG
  Keys,         \* external: PTS of frames, in any order (AvSync's may step back)
  Cap,          \* notes kept: 64
  Window        \* latencies summed up before they are printed: 100

ASSUME ProbeAssumption ==
  /\ Keys \subseteq Nat /\ Cap \in Nat \ {0} /\ Window \in Nat \ {0}

VARIABLES
  s_audio_latency_debug,
  s_opus_enc_in,          \* the notes: records of a PTS and `own`
  s_opus_enc_lat_count,
  allOwn,                 \* were all latencies of this window the frame's own?
  linked,                 \* external: there is a media with an opusenc
  enc,                    \* the streaming thread: where it is, with which PTS
  pcT,                    \* per toggling thread: where it is
  calm                    \* external, fixed: toggles never overlap each other, nor
                          \* a sink probe between its test and its note

stats     == <<s_opus_enc_in, s_opus_enc_lat_count, allOwn>>
probeVars == <<s_audio_latency_debug, stats, linked, enc, pcT, calm>>

Notes == [pts : Keys, own : BOOLEAN]
Idle  == [at |-> "idle", pts |-> 0]

\* The frame has left the encoder: what is left of notes is nobody's.
LeftBehind(notes) == {[n EXCEPT !.own = FALSE] : n \in notes}

\* std::map::begin()
Oldest(notes) == {n \in notes : \A m \in notes : n.pts <= m.pts}

-----------------------------------------------------------------------------
(* The streaming thread.                                                    *)

\* opus_enc_sink_probe up to its test of the flag.
SinkProbe(k) ==
  /\ linked /\ enc = Idle
  /\ enc' = [at |-> IF s_audio_latency_debug THEN "sink" ELSE "inside", pts |-> k]
  /\ UNCHANGED <<s_audio_latency_debug, stats, linked, pcT, calm>>

\* Mutant: the map grows without bound.
NoteUncapped(notes, k) ==
  {n \in notes : n.pts # k} \cup {[pts |-> k, own |-> TRUE]}

\* s_opus_enc_in[pts] = now, and the cap.
Note(notes, k) ==
  LET noted == {n \in notes : n.pts # k} \cup {[pts |-> k, own |-> TRUE]}
  IN  IF Cardinality(noted) > Cap THEN noted \ Oldest(noted) ELSE noted

\* ... its section under the lock.
SinkNote ==
  /\ enc.at = "sink"
  /\ s_opus_enc_in' = Note(s_opus_enc_in, enc.pts)
  /\ enc' = [enc EXCEPT !.at = "inside"]
  /\ UNCHANGED <<s_audio_latency_debug, s_opus_enc_lat_count, allOwn, linked, pcT, calm>>

\* opus_enc_src_probe up to its test of the flag.
SrcProbe ==
  /\ enc.at = "inside"
  /\ enc' = IF s_audio_latency_debug THEN [enc EXCEPT !.at = "src"] ELSE Idle
  /\ s_opus_enc_in' = IF s_audio_latency_debug THEN s_opus_enc_in ELSE LeftBehind(s_opus_enc_in)
  /\ UNCHANGED <<s_audio_latency_debug, s_opus_enc_lat_count, allOwn, linked, pcT, calm>>

\* A latency is counted; a full window is printed and begun again.
Count(own) ==
  IF s_opus_enc_lat_count + 1 >= Window
  THEN s_opus_enc_lat_count' = 0 /\ allOwn' = TRUE
  ELSE s_opus_enc_lat_count' = s_opus_enc_lat_count + 1 /\ allOwn' = (allOwn /\ own)

\* ... its section under the lock: the oldest note is taken for this frame's.
SrcPair ==
  /\ enc.at = "src"
  /\ IF s_opus_enc_in = {}
     THEN UNCHANGED stats
     ELSE \E n \in Oldest(s_opus_enc_in) :
            s_opus_enc_in' = LeftBehind(s_opus_enc_in \ {n}) /\ Count(n.own)
  /\ enc' = Idle
  /\ UNCHANGED <<s_audio_latency_debug, linked, pcT, calm>>

\* opus_probe_reset, under the lock.
Reset == s_opus_enc_in' = {} /\ s_opus_enc_lat_count' = 0 /\ allOwn' = TRUE

\* on_media_configure on the Opus path: reset, then attach the probes.
Link ==
  /\ ~linked /\ linked' = TRUE
  /\ Reset
  /\ UNCHANGED <<s_audio_latency_debug, enc, pcT, calm>>

\* The media is taken down (external): its streaming thread ends, and a frame in the
\* encoder goes no further.
Unlink ==
  /\ linked /\ enc.at \in {"idle", "inside"}
  /\ linked' = FALSE /\ enc' = Idle
  /\ s_opus_enc_in' = LeftBehind(s_opus_enc_in)
  /\ UNCHANGED <<s_audio_latency_debug, s_opus_enc_lat_count, allOwn, pcT, calm>>

-----------------------------------------------------------------------------
(* Cam2Streamer_SetAudioLatencyDebug.                                       *)

Undisturbed(t) == calm => enc.at # "sink" /\ \A u \in Togglers \ {t} : pcT[u] = "idle"

\* Mutant: turning the flag on clears nothing.
ToggleNeverResets(t, on) ==
  /\ pcT[t] = "idle" /\ Undisturbed(t)
  /\ pcT' = [pcT EXCEPT ![t] = IF on THEN "on" ELSE "off"]
  /\ UNCHANGED <<s_audio_latency_debug, stats, linked, enc, calm>>

\* The test: is the flag being turned on?
Toggle(t, on) ==
  /\ pcT[t] = "idle" /\ Undisturbed(t)
  /\ pcT' = [pcT EXCEPT ![t] = IF ~on THEN "off"
                               ELSE IF s_audio_latency_debug THEN "on" ELSE "reset"]
  /\ UNCHANGED <<s_audio_latency_debug, stats, linked, enc, calm>>

ToggleReset(t) ==
  /\ pcT[t] = "reset" /\ Undisturbed(t)
  /\ Reset
  /\ pcT' = [pcT EXCEPT ![t] = "on"]
  /\ UNCHANGED <<s_audio_latency_debug, linked, enc, calm>>

ToggleSet(t) ==
  /\ pcT[t] \in {"on", "off"} /\ Undisturbed(t)
  /\ s_audio_latency_debug' = (pcT[t] = "on")
  /\ pcT' = [pcT EXCEPT ![t] = "idle"]
  /\ UNCHANGED <<stats, linked, enc, calm>>

-----------------------------------------------------------------------------
ProbeInit ==
  /\ s_audio_latency_debug = FALSE /\ s_opus_enc_in = {}
  /\ s_opus_enc_lat_count = 0 /\ allOwn = TRUE
  /\ linked = FALSE /\ enc = Idle
  /\ pcT = [t \in Togglers |-> "idle"] /\ calm \in BOOLEAN

ProbeNext ==
  \/ \E k \in Keys : SinkProbe(k)
  \/ SinkNote \/ SrcProbe \/ SrcPair \/ Link \/ Unlink
  \/ \E t \in Togglers :
       (\E on \in BOOLEAN : Toggle(t, on)) \/ ToggleReset(t) \/ ToggleSet(t)

ProbeSpec == ProbeInit /\ [][ProbeNext]_probeVars

-----------------------------------------------------------------------------
(* Properties.                                                              *)

\* However many notes races and lost frames leave behind, the map holds Cap at most,
\* one to a PTS.
ProbeTypeOK ==
  /\ s_audio_latency_debug \in BOOLEAN /\ s_opus_enc_in \subseteq Notes
  /\ Cardinality(s_opus_enc_in) <= Cap
  /\ \A m, n \in s_opus_enc_in : m.pts = n.pts => m = n
  /\ s_opus_enc_lat_count \in 0 .. Window - 1 /\ allOwn \in BOOLEAN
  /\ linked \in BOOLEAN
  /\ enc = Idle \/ enc \in [at : {"sink", "inside", "src"}, pts : Keys]
  /\ pcT \in [Togglers -> {"idle", "reset", "on", "off"}]
  /\ calm \in BOOLEAN

\* "so the first paired window starts clean": frames go through the encoder, media come
\* and go and the flag is turned on and off between any two steps of a frame, yet no
\* latency printed is another frame's, as long as the toggling is calm.
LatenciesAreOwn ==
  calm /\ s_audio_latency_debug =>
    /\ allOwn
    /\ linked => \A n \in s_opus_enc_in : n.own
=============================================================================
