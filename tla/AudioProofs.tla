------------------------------ MODULE AudioProofs ------------------------------
(***************************************************************************)
(* Proofs about the two modules on audio that AvSyncProofs leaves, the     *)
(* Opus probe and the capture, and about the specification that MCAudio    *)
(* composes of the three.                                                  *)
(*                                                                         *)
(* Both invariants are shown one conjunct at a time; those that mix        *)
(* Boolean variables with others are taken apart for the provers first.    *)
(***************************************************************************)
EXTENDS MCAudio, AvSyncProofs, SequenceTheorems, FiniteSetTheorems, WellFoundedInduction,
        TLAPS

(***************************************************************************)
(* The Opus probe.                                                         *)
(***************************************************************************)

\* What is in the map.
NotesOK(notes) ==
  /\ notes \subseteq Notes /\ IsFiniteSet(notes) /\ Cardinality(notes) <= Cap
  /\ \A m, n \in notes : m.pts = n.pts => m = n

\* The notes are those of the frame in the encoder.
Fresh ==
  IF enc.at \in {"inside", "src"}
  THEN s_opus_enc_in \subseteq {[pts |-> enc.pts, own |-> TRUE]}
  ELSE s_opus_enc_in = {}

CalmInv ==
  calm =>
    /\ \A t, u \in Togglers : pcT[t] # "idle" /\ pcT[u] # "idle" => t = u
    /\ enc.at = "sink" => s_audio_latency_debug
    /\ s_audio_latency_debug => allOwn /\ (linked => Fresh)
    /\ \A t \in Togglers :
         pcT[t] = "on" /\ ~s_audio_latency_debug => s_opus_enc_in = {} /\ allOwn

ProbeInv ==
  /\ ProbeTypeOK /\ IsFiniteSet(s_opus_enc_in)
  /\ ~linked => enc = Idle
  /\ CalmInv
-----------------------------------------------------------------------------
(* Notes.                                                                   *)

\* A set of numbers that is not empty has a least one.
LEMMA LeastNatural ==
  ASSUME NEW S \in SUBSET Nat, S # {}
  PROVE  \E x \in S : \A y \in S : x <= y
<1>1. PICK x \in S : \A y \in S : ~ (<<y, x>> \in OpToRel(<, Nat))
  BY NatLessThanWellFounded, WFMin, Zenon
<1>2. \A y \in S : ~ (y < x)
  BY <1>1 DEF OpToRel
<1> QED
  BY <1>2

\* std::map::begin() of a map that is not empty.
LEMMA OldestIsThere ==
  ASSUME NEW notes \in SUBSET Notes, notes # {}
  PROVE  Oldest(notes) \subseteq notes /\ Oldest(notes) # {}
<1> DEFINE stamps == {n.pts : n \in notes}
<1>1. stamps \in SUBSET Nat /\ stamps # {}
  BY ProbeAssumption DEF ProbeAssumption, Notes
<1> HIDE DEF stamps
<1>2. PICK x \in stamps : \A y \in stamps : x <= y
  BY <1>1, LeastNatural
<1>3. PICK n \in notes : n.pts = x
  BY <1>2 DEF stamps
<1>4. n \in Oldest(notes)
  BY <1>2, <1>3 DEF stamps, Oldest
<1> QED
  BY <1>4 DEF Oldest

LEMMA NoNotes == NotesOK({})
  BY FS_EmptySet, ProbeAssumption DEF ProbeAssumption, NotesOK

LEMMA FewerNotes ==
  ASSUME NEW notes, NotesOK(notes), NEW fewer \in SUBSET notes
  PROVE  NotesOK(fewer)
<1>1. IsFiniteSet(fewer) /\ Cardinality(fewer) <= Cardinality(notes)
  BY FS_Subset DEF NotesOK
<1>2. Cardinality(fewer) \in Nat /\ Cardinality(notes) \in Nat
  BY <1>1, FS_CardinalityType DEF NotesOK
<1> QED
  BY <1>1, <1>2, ProbeAssumption DEF ProbeAssumption, NotesOK

\* What is left behind are the same notes, one to a PTS.
LEMMA NotesLeft ==
  ASSUME NEW notes, NotesOK(notes)
  PROVE  NotesOK(LeftBehind(notes))
<1> DEFINE left == [n \in notes |-> [n EXCEPT !.own = FALSE]]
<1>1. left \in Surjection(notes, LeftBehind(notes))
  BY DEF Surjection, LeftBehind
<1>2. IsFiniteSet(LeftBehind(notes)) /\ Cardinality(LeftBehind(notes)) <= Cardinality(notes)
  BY <1>1, FS_Surjection DEF NotesOK
<1>3. \A n \in notes : /\ [n EXCEPT !.own = FALSE] \in Notes
                       /\ [n EXCEPT !.own = FALSE].pts = n.pts
  BY DEF NotesOK, Notes
<1>4. LeftBehind(notes) \subseteq Notes
  BY <1>3 DEF LeftBehind
<1>5. ASSUME NEW m \in LeftBehind(notes), NEW n \in LeftBehind(notes), m.pts = n.pts
      PROVE  m = n
  <2>1. PICK m0 \in notes : m = [m0 EXCEPT !.own = FALSE]
    BY DEF LeftBehind
  <2>2. PICK n0 \in notes : n = [n0 EXCEPT !.own = FALSE]
    BY DEF LeftBehind
  <2>3. m0 = n0
    BY <1>3, <1>5, <2>1, <2>2 DEF NotesOK
  <2> QED
    BY <2>1, <2>2, <2>3
<1>6. Cardinality(LeftBehind(notes)) \in Nat /\ Cardinality(notes) \in Nat
  BY <1>2, FS_CardinalityType DEF NotesOK
<1> QED
  BY <1>2, <1>4, <1>5, <1>6, ProbeAssumption DEF ProbeAssumption, NotesOK

\* A note more, and the oldest less where there were too many.
LEMMA NotesNoted ==
  ASSUME NEW notes, NotesOK(notes), NEW k \in Keys
  PROVE  NotesOK(Note(notes, k))
<1> DEFINE others == {n \in notes : n.pts # k}
           new    == [pts |-> k, own |-> TRUE]
           noted  == others \cup {new}
<1>1. NotesOK(others)
  BY FewerNotes
<1>2. new \in Notes
  BY DEF Notes
<1>3. /\ IsFiniteSet(noted) /\ Cardinality(noted) \in Nat /\ Cardinality(others) \in Nat
      /\ Cardinality(noted) <= Cardinality(others) + 1
  <2>1. IsFiniteSet(others)
    BY <1>1 DEF NotesOK
  <2> HIDE DEF others, new
  <2>2. /\ IsFiniteSet(noted)
        /\ Cardinality(noted) = IF new \in others THEN Cardinality(others)
                                ELSE Cardinality(others) + 1
    BY <2>1, FS_AddElement
  <2>3. Cardinality(others) \in Nat
    BY <2>1, FS_CardinalityType
  <2> QED
    BY <2>2, <2>3
<1>4. noted \subseteq Notes /\ \A m, n \in noted : m.pts = n.pts => m = n
  <2>1. others \subseteq Notes /\ \A m, n \in others : m.pts = n.pts => m = n
    BY <1>1 DEF NotesOK
  <2>2. new.pts = k /\ \A n \in others : n.pts # k
    OBVIOUS
  <2> HIDE DEF others, new
  <2> QED
    BY <1>2, <2>1, <2>2
<1>5. Cap \in Nat /\ Cardinality(others) <= Cap
  BY <1>1, ProbeAssumption DEF ProbeAssumption, NotesOK
<1>6. Note(notes, k) = IF Cardinality(noted) > Cap THEN noted \ Oldest(noted) ELSE noted
  BY DEF Note
<1>7. CASE Cardinality(noted) > Cap
  <2>1. Oldest(noted) \subseteq noted /\ Oldest(noted) # {}
    <3>1. new \in noted
      OBVIOUS
    <3> HIDE DEF noted
    <3> QED
      BY <1>4, <3>1, OldestIsThere
  <2>2. PICK n \in Oldest(noted) : TRUE
    BY <2>1
  <2> HIDE DEF noted, others
  <2>3. IsFiniteSet(noted \ {n}) /\ Cardinality(noted \ {n}) = Cardinality(noted) - 1
    BY <1>3, <2>1, FS_RemoveElement
  <2>4. NotesOK(noted \ {n})
    BY <1>3, <1>4, <1>5, <2>3 DEF NotesOK
  <2>5. NotesOK(noted \ Oldest(noted))
    BY <2>4, FewerNotes
  <2> QED
    BY <1>6, <1>7, <2>5
<1>8. CASE ~(Cardinality(noted) > Cap)
  <2> HIDE DEF noted, others
  <2> QED
    BY <1>3, <1>4, <1>5, <1>6, <1>8 DEF NotesOK
<1> QED
  BY <1>7, <1>8
-----------------------------------------------------------------------------
(* Types.                                                                   *)

EncOK == enc = Idle \/ enc \in [at : {"sink", "inside", "src"}, pts : Keys]

\* ProbeTypeOK in the parts that the provers take one at a time.
ProbeFlagsOK ==
  /\ s_audio_latency_debug \in BOOLEAN /\ allOwn \in BOOLEAN /\ linked \in BOOLEAN
  /\ calm \in BOOLEAN

ProbeDataOK ==
  /\ NotesOK(s_opus_enc_in) /\ s_opus_enc_lat_count \in 0 .. Window - 1 /\ EncOK
  /\ pcT \in [Togglers -> {"idle", "reset", "on", "off"}]

LEMMA ProbeParts ==
  ProbeTypeOK /\ IsFiniteSet(s_opus_enc_in) <=> ProbeFlagsOK /\ ProbeDataOK
  BY Zenon DEF ProbeTypeOK, ProbeFlagsOK, ProbeDataOK, NotesOK, EncOK

LEMMA ProbePartsPrime ==
  ProbeFlagsOK' /\ ProbeDataOK' => ProbeTypeOK' /\ IsFiniteSet(s_opus_enc_in')
  BY Zenon DEF ProbeTypeOK, ProbeFlagsOK, ProbeDataOK, NotesOK, EncOK

\* A latency more.
LEMMA CountKeeps ==
  ASSUME NEW own, s_opus_enc_lat_count \in 0 .. Window - 1, Count(own)
  PROVE  s_opus_enc_lat_count' \in 0 .. Window - 1
<1>1. Window \in Nat \ {0}
  BY ProbeAssumption DEF ProbeAssumption
<1>2. CASE s_opus_enc_lat_count + 1 >= Window
  BY <1>1, <1>2 DEF Count
<1>3. CASE ~(s_opus_enc_lat_count + 1 >= Window)
  BY <1>1, <1>3 DEF Count
<1> QED
  BY <1>2, <1>3

LEMMA ProbeFlagsStay == ProbeFlagsOK /\ [ProbeNext]_probeVars => ProbeFlagsOK'
<1> SUFFICES ASSUME ProbeFlagsOK, [ProbeNext]_probeVars PROVE ProbeFlagsOK'
  OBVIOUS
<1> USE Booleans DEF stats, ProbeFlagsOK, Reset
<1>1. ASSUME NEW k \in Keys, SinkProbe(k) PROVE ProbeFlagsOK'
  BY <1>1 DEF SinkProbe
<1>2. CASE SinkNote \/ SrcProbe \/ Link \/ Unlink
  BY <1>2 DEF SinkNote, SrcProbe, Link, Unlink
<1>3. CASE SrcPair
  <2>1. allOwn' \in BOOLEAN
    BY <1>3 DEF SrcPair, Count
  <2> QED
    BY <1>3, <2>1 DEF SrcPair
<1>4. ASSUME NEW t \in Togglers, NEW on \in BOOLEAN, Toggle(t, on) PROVE ProbeFlagsOK'
  BY <1>4 DEF Toggle
<1>5. ASSUME NEW t \in Togglers, ToggleReset(t) \/ ToggleSet(t) PROVE ProbeFlagsOK'
  BY <1>5 DEF ToggleReset, ToggleSet
<1>6. CASE UNCHANGED probeVars
  BY <1>6 DEF probeVars
<1> QED
  BY <1>1, <1>2, <1>3, <1>4, <1>5, <1>6 DEF ProbeNext

LEMMA ProbeDataStays == ProbeDataOK /\ [ProbeNext]_probeVars => ProbeDataOK'
<1> SUFFICES ASSUME ProbeDataOK, [ProbeNext]_probeVars PROVE ProbeDataOK'
  OBVIOUS
<1>0. /\ NotesOK(s_opus_enc_in) /\ s_opus_enc_lat_count \in 0 .. Window - 1 /\ EncOK
      /\ pcT \in [Togglers -> {"idle", "reset", "on", "off"}]
      /\ 0 \in 0 .. Window - 1
  BY ProbeAssumption DEF ProbeAssumption, ProbeDataOK
<1>a. /\ enc.at \in {"idle", "sink", "inside", "src"}
      /\ enc.at # "idle" => enc \in [at : {"sink", "inside", "src"}, pts : Keys]
  BY <1>0 DEF EncOK, Idle
<1>1. ASSUME NEW k \in Keys, SinkProbe(k) PROVE ProbeDataOK'
  <2>1. EncOK'
    BY <1>1 DEF SinkProbe, EncOK
  <2> QED
    BY <1>0, <1>1, <2>1 DEF SinkProbe, stats, ProbeDataOK
<1>2. CASE SinkNote
  <2>1. EncOK'
    BY <1>a, <1>2 DEF SinkNote, EncOK
  <2>2. NotesOK(s_opus_enc_in')
    BY <1>0, <1>a, <1>2, NotesNoted DEF SinkNote
  <2> QED
    BY <1>0, <1>2, <2>1, <2>2 DEF SinkNote, ProbeDataOK
<1>3. CASE SrcProbe
  <2>1. EncOK'
    BY <1>a, <1>3 DEF SrcProbe, EncOK
  <2>2. NotesOK(s_opus_enc_in')
    BY <1>0, <1>3, NotesLeft DEF SrcProbe
  <2> QED
    BY <1>0, <1>3, <2>1, <2>2 DEF SrcProbe, ProbeDataOK
<1>4. CASE SrcPair
  <2>1. EncOK' /\ pcT' = pcT
    BY <1>4 DEF SrcPair, EncOK
  <2>2. CASE s_opus_enc_in = {}
    BY <1>0, <1>4, <2>1, <2>2 DEF SrcPair, stats, ProbeDataOK
  <2>3. CASE s_opus_enc_in # {}
    <3>1. PICK n \in Oldest(s_opus_enc_in) :
            s_opus_enc_in' = LeftBehind(s_opus_enc_in \ {n}) /\ Count(n.own)
      BY <1>4, <2>3 DEF SrcPair
    <3>2. NotesOK(s_opus_enc_in \ {n})
      BY <1>0, FewerNotes
    <3>3. NotesOK(s_opus_enc_in')
      BY <3>1, <3>2, NotesLeft
    <3>4. s_opus_enc_lat_count' \in 0 .. Window - 1
      BY <1>0, <3>1, CountKeeps
    <3> QED
      BY <1>0, <2>1, <3>3, <3>4 DEF ProbeDataOK
  <2> QED
    BY <2>2, <2>3
<1>5. CASE Link
  BY <1>0, <1>5, NoNotes DEF Link, Reset, ProbeDataOK, EncOK
<1>6. CASE Unlink
  <2>1. NotesOK(s_opus_enc_in')
    BY <1>0, <1>6, NotesLeft DEF Unlink
  <2> QED
    BY <1>0, <1>6, <2>1 DEF Unlink, ProbeDataOK, EncOK
<1>7. ASSUME NEW t \in Togglers, NEW on \in BOOLEAN, Toggle(t, on) PROVE ProbeDataOK'
  <2>1. pcT' \in [Togglers -> {"idle", "reset", "on", "off"}]
    BY <1>0, <1>7 DEF Toggle
  <2> QED
    BY <1>0, <1>7, <2>1 DEF Toggle, stats, ProbeDataOK, EncOK
<1>8. ASSUME NEW t \in Togglers, ToggleReset(t) PROVE ProbeDataOK'
  BY <1>0, <1>8, NoNotes DEF ToggleReset, Reset, ProbeDataOK, EncOK
<1>9. ASSUME NEW t \in Togglers, ToggleSet(t) PROVE ProbeDataOK'
  <2>1. pcT' \in [Togglers -> {"idle", "reset", "on", "off"}]
    BY <1>0, <1>9 DEF ToggleSet
  <2> QED
    BY <1>0, <1>9, <2>1 DEF ToggleSet, stats, ProbeDataOK, EncOK
<1>10. CASE UNCHANGED probeVars
  BY <1>0, <1>10 DEF probeVars, stats, ProbeDataOK, EncOK
<1> QED
  BY <1>1, <1>2, <1>3, <1>4, <1>5, <1>6, <1>7, <1>8, <1>9, <1>10 DEF ProbeNext

\* Without a media nothing is in the encoder.
LEMMA UnlinkedIsIdle ==
  ProbeDataOK /\ (~linked => enc = Idle) /\ [ProbeNext]_probeVars => (~linked' => enc' = Idle)
<1> SUFFICES ASSUME ProbeDataOK, ~linked => enc = Idle, [ProbeNext]_probeVars
             PROVE  ~linked' => enc' = Idle
  OBVIOUS
<1>0. Idle.at = "idle"
  BY DEF Idle
<1>1. ASSUME NEW k \in Keys, SinkProbe(k) PROVE ~linked' => enc' = Idle
  BY <1>1 DEF SinkProbe
<1>2. CASE SinkNote \/ SrcProbe \/ SrcPair \/ Link \/ Unlink
  BY <1>0, <1>2 DEF SinkNote, SrcProbe, SrcPair, Link, Unlink
<1>3. ASSUME NEW t \in Togglers,
             (\E on \in BOOLEAN : Toggle(t, on)) \/ ToggleReset(t) \/ ToggleSet(t)
      PROVE  ~linked' => enc' = Idle
  BY <1>3 DEF Toggle, ToggleReset, ToggleSet
<1>4. CASE UNCHANGED probeVars
  BY <1>4 DEF probeVars
<1> QED
  BY <1>1, <1>2, <1>3, <1>4 DEF ProbeNext
-----------------------------------------------------------------------------
(* Calm toggling.                                                           *)

\* The note of the frame that enters an encoder without notes.
LEMMA FirstNote ==
  ASSUME NEW k PROVE Note({}, k) = {[pts |-> k, own |-> TRUE]}
<1> DEFINE new == [pts |-> k, own |-> TRUE]
<1>1. {n \in {} : n.pts # k} \cup {new} = {new}
  OBVIOUS
<1>2. ~(Cardinality({new}) > Cap)
  <2> HIDE DEF new
  <2>1. Cardinality({new}) = 1 /\ Cap \in Nat \ {0}
    BY FS_Singleton, ProbeAssumption DEF ProbeAssumption
  <2> QED
    BY <2>1
<1> QED
  BY <1>1, <1>2 DEF Note

\* CalmInv without its hypothesis.
OneToggler == \A t, u \in Togglers : pcT[t] # "idle" /\ pcT[u] # "idle" => t = u
SinkIsOn   == enc.at = "sink" => s_audio_latency_debug
OnIsOwn    == s_audio_latency_debug => allOwn /\ (linked => Fresh)
OnIsReset  == \A t \in Togglers :
                pcT[t] = "on" /\ ~s_audio_latency_debug => s_opus_enc_in = {} /\ allOwn

LEMMA CalmParts ==
  CalmInv <=> (calm => OneToggler /\ SinkIsOn /\ OnIsOwn /\ OnIsReset)
  BY Zenon DEF CalmInv, OneToggler, SinkIsOn, OnIsOwn, OnIsReset

LEMMA CalmPartsPrime ==
  CalmInv' <=> (calm' => OneToggler' /\ SinkIsOn' /\ OnIsOwn' /\ OnIsReset')
  BY Zenon DEF CalmInv, OneToggler, SinkIsOn, OnIsOwn, OnIsReset

LEMMA CalmStays ==
  [ProbeNext]_probeVars => calm' = calm
  BY DEF ProbeNext, SinkProbe, SinkNote, SrcProbe, SrcPair, Link, Unlink, Toggle, ToggleReset,
     ToggleSet, probeVars

LEMMA EncoderStepsKeepCalm ==
  ASSUME ProbeFlagsOK, ProbeDataOK, ~linked => enc = Idle,
         OneToggler, SinkIsOn, OnIsOwn, OnIsReset,
         (\E k \in Keys : SinkProbe(k)) \/ SinkNote \/ SrcProbe \/ SrcPair \/ Link \/ Unlink
  PROVE  OneToggler' /\ SinkIsOn' /\ OnIsOwn' /\ OnIsReset'
<1>0. Idle.at = "idle" /\ (enc = Idle => enc.at = "idle")
  BY DEF Idle
<1>1. pcT' = pcT /\ s_audio_latency_debug' = s_audio_latency_debug
  BY DEF SinkProbe, SinkNote, SrcProbe, SrcPair, Link, Unlink
<1>2. OneToggler'
  BY <1>1 DEF OneToggler
<1>3. OnIsReset' /\ OnIsOwn' /\ SinkIsOn'
  <2>1. ASSUME NEW k \in Keys, SinkProbe(k)
        PROVE  OnIsReset' /\ OnIsOwn' /\ SinkIsOn'
    <3>1. /\ s_opus_enc_in' = s_opus_enc_in /\ (allOwn' <=> allOwn)
          /\ enc'.at = IF s_audio_latency_debug THEN "sink" ELSE "inside"
          /\ linked /\ enc.at = "idle"
      BY <1>0, <2>1 DEF SinkProbe, stats
    <3> QED
      BY <1>1, <3>1 DEF OnIsReset, OnIsOwn, SinkIsOn, Fresh
  <2>2. CASE SinkNote
    <3>1. /\ s_opus_enc_in' = Note(s_opus_enc_in, enc.pts) /\ (allOwn' <=> allOwn)
          /\ enc'.at = "inside" /\ enc'.pts = enc.pts
          /\ (linked' <=> linked) /\ enc.at = "sink" /\ s_audio_latency_debug
      <4>1. enc \in [at : {"sink", "inside", "src"}, pts : Keys]
        BY <2>2 DEF SinkNote, ProbeDataOK, EncOK, Idle
      <4> QED
        BY <2>2, <4>1 DEF SinkNote, SinkIsOn
    <3>2. linked /\ s_opus_enc_in = {}
      BY <1>0, <3>1 DEF OnIsOwn, Fresh
    <3>3. s_opus_enc_in' = {[pts |-> enc.pts, own |-> TRUE]}
      BY <3>1, <3>2, FirstNote
    <3> QED
      BY <1>1, <3>1, <3>3 DEF OnIsReset, OnIsOwn, SinkIsOn, Fresh
  <2>3. CASE SrcProbe
    <3>1. CASE s_audio_latency_debug
      <4>1. enc \in [at : {"sink", "inside", "src"}, pts : Keys]
        BY <2>3 DEF SrcProbe, ProbeDataOK, EncOK, Idle
      <4>2. /\ s_opus_enc_in' = s_opus_enc_in /\ (allOwn' <=> allOwn) /\ (linked' <=> linked)
            /\ enc'.at = "src" /\ enc'.pts = enc.pts /\ enc.at = "inside"
        BY <2>3, <3>1, <4>1 DEF SrcProbe
      <4> QED
        BY <1>1, <3>1, <4>2 DEF OnIsReset, OnIsOwn, SinkIsOn, Fresh
    <3>2. CASE ~s_audio_latency_debug
      <4>1. /\ s_opus_enc_in' = LeftBehind(s_opus_enc_in) /\ (allOwn' <=> allOwn)
            /\ enc'.at = "idle"
        BY <1>0, <2>3, <3>2 DEF SrcProbe
      <4>2. s_opus_enc_in = {} => s_opus_enc_in' = {}
        BY <4>1 DEF LeftBehind
      <4> QED
        BY <1>1, <3>2, <4>1, <4>2 DEF OnIsReset, OnIsOwn, SinkIsOn
    <3> QED
      BY <3>1, <3>2
  <2>4. CASE SrcPair
    <3>1. enc'.at = "idle" /\ (linked' <=> linked) /\ enc.at = "src" /\ linked
      BY <1>0, <2>4 DEF SrcPair
    <3>2. CASE s_opus_enc_in = {}
      <4>1. s_opus_enc_in' = s_opus_enc_in /\ (allOwn' <=> allOwn)
        BY <2>4, <3>2 DEF SrcPair, stats
      <4> QED
        BY <1>1, <3>1, <3>2, <4>1 DEF OnIsReset, OnIsOwn, SinkIsOn, Fresh
    <3>3. CASE s_opus_enc_in # {}
      <4>1. PICK n \in Oldest(s_opus_enc_in) :
              s_opus_enc_in' = LeftBehind(s_opus_enc_in \ {n}) /\ Count(n.own)
        BY <2>4, <3>3 DEF SrcPair
      <4>2. OnIsReset'
        BY <1>1, <3>3 DEF OnIsReset
      <4>3. ASSUME s_audio_latency_debug PROVE allOwn' /\ s_opus_enc_in' = {}
        <5>1. s_opus_enc_in \subseteq {[pts |-> enc.pts, own |-> TRUE]} /\ allOwn
          BY <3>1, <4>3 DEF OnIsOwn, Fresh
        <5>2. n.own /\ s_opus_enc_in \ {n} = {}
          <6>1. n \in s_opus_enc_in
            BY DEF Oldest
          <6>2. n = [pts |-> enc.pts, own |-> TRUE]
            BY <5>1, <6>1
          <6>3. n.own
            BY <6>2
          <6> QED
            BY <5>1, <6>2, <6>3
        <5>3. s_opus_enc_in' = {}
          BY <4>1, <5>2 DEF LeftBehind
        <5>4. allOwn'
          BY <4>1, <5>1, <5>2 DEF Count
        <5> QED
          BY <5>3, <5>4
      <4> QED
        BY <1>1, <3>1, <4>2, <4>3 DEF OnIsOwn, SinkIsOn, Fresh
    <3> QED
      BY <3>2, <3>3
  <2>5. CASE Link
    <3>1. s_opus_enc_in' = {} /\ allOwn' = TRUE /\ enc' = enc /\ enc = Idle
      BY <2>5 DEF Link, Reset
    <3> QED
      BY <1>0, <1>1, <3>1 DEF OnIsReset, OnIsOwn, SinkIsOn, Fresh
  <2>6. CASE Unlink
    <3>1. /\ s_opus_enc_in' = LeftBehind(s_opus_enc_in) /\ (allOwn' <=> allOwn) /\ enc' = Idle
          /\ ~linked'
      BY <2>6 DEF Unlink
    <3>2. s_opus_enc_in = {} => s_opus_enc_in' = {}
      BY <3>1 DEF LeftBehind
    <3> QED
      BY <1>0, <1>1, <3>1, <3>2 DEF OnIsReset, OnIsOwn, SinkIsOn
  <2> QED
    BY <2>1, <2>2, <2>3, <2>4, <2>5, <2>6
<1> QED
  BY <1>2, <1>3

LEMMA TogglesKeepCalm ==
  ASSUME ProbeFlagsOK, ProbeDataOK, calm, OneToggler, SinkIsOn, OnIsOwn, OnIsReset,
         NEW t \in Togglers,
         (\E on \in BOOLEAN : Toggle(t, on)) \/ ToggleReset(t) \/ ToggleSet(t)
  PROVE  OneToggler' /\ SinkIsOn' /\ OnIsOwn' /\ OnIsReset'
<1>0. pcT \in [Togglers -> {"idle", "reset", "on", "off"}]
  BY DEF ProbeDataOK
<1>1. enc.at # "sink" /\ \A u \in Togglers \ {t} : pcT[u] = "idle"
  BY DEF Toggle, ToggleReset, ToggleSet, Undisturbed
<1>2. enc' = enc /\ linked' = linked
  BY DEF Toggle, ToggleReset, ToggleSet
<1>3. \A u \in Togglers \ {t} : pcT'[u] = "idle"
  BY <1>0, <1>1 DEF Toggle, ToggleReset, ToggleSet
<1>4. OneToggler' /\ SinkIsOn'
  BY <1>1, <1>2, <1>3 DEF OneToggler, SinkIsOn
<1>5. ASSUME NEW on \in BOOLEAN, Toggle(t, on)
      PROVE  OnIsOwn' /\ OnIsReset'
  <2>1. /\ s_opus_enc_in' = s_opus_enc_in /\ (allOwn' <=> allOwn)
        /\ (s_audio_latency_debug' <=> s_audio_latency_debug)
    BY <1>5 DEF Toggle, stats
  <2>2. ~s_audio_latency_debug => pcT'[t] # "on"
    BY <1>0, <1>5 DEF Toggle
  <2> QED
    BY <1>2, <1>3, <2>1, <2>2 DEF OnIsOwn, OnIsReset, Fresh
<1>6. CASE ToggleReset(t)
  <2>1. /\ s_opus_enc_in' = {} /\ allOwn' = TRUE
        /\ (s_audio_latency_debug' <=> s_audio_latency_debug)
    BY <1>6 DEF ToggleReset, Reset
  <2> QED
    BY <1>4, <2>1 DEF OnIsOwn, OnIsReset, Fresh
<1>7. CASE ToggleSet(t)
  <2>1. /\ s_opus_enc_in' = s_opus_enc_in /\ (allOwn' <=> allOwn)
        /\ (s_audio_latency_debug' <=> pcT[t] = "on") /\ pcT'[t] = "idle"
    BY <1>0, <1>7 DEF ToggleSet, stats
  <2>2. OnIsReset'
    BY <1>3, <2>1 DEF OnIsReset
  <2>3. CASE s_audio_latency_debug
    BY <1>2, <1>4, <2>1, <2>2, <2>3 DEF OnIsOwn, Fresh
  <2>4. CASE ~s_audio_latency_debug
    <3>1. pcT[t] = "on" => s_opus_enc_in = {} /\ allOwn
      BY <2>4 DEF OnIsReset
    <3> QED
      BY <1>4, <2>1, <2>2, <3>1 DEF OnIsOwn, Fresh
  <2> QED
    BY <2>3, <2>4
<1> QED
  BY <1>4, <1>5, <1>6, <1>7

-----------------------------------------------------------------------------
\* The invariant that the others follow from.
THEOREM ProbeInvariant == ProbeSpec => []ProbeInv
<1>1. ProbeInit => ProbeInv
  <2> SUFFICES ASSUME ProbeInit PROVE ProbeInv
    OBVIOUS
  <2>1. ProbeFlagsOK
    BY Booleans DEF ProbeInit, ProbeFlagsOK
  <2>2. ProbeDataOK
    BY NoNotes, ProbeAssumption DEF ProbeAssumption, ProbeInit, ProbeDataOK, EncOK
  <2>3. CalmInv
    BY DEF ProbeInit, CalmInv, Idle
  <2> QED
    BY <2>1, <2>2, <2>3, ProbeParts DEF ProbeInv, ProbeInit
<1>2. ProbeInv /\ [ProbeNext]_probeVars => ProbeInv'
  <2> SUFFICES ASSUME ProbeInv, [ProbeNext]_probeVars PROVE ProbeInv'
    OBVIOUS
  <2>1. ProbeFlagsOK /\ ProbeDataOK /\ (~linked => enc = Idle) /\ CalmInv
    BY ProbeParts DEF ProbeInv
  <2>2. ProbeFlagsOK' /\ ProbeDataOK' /\ (~linked' => enc' = Idle)
    BY <2>1, ProbeFlagsStay, ProbeDataStays, UnlinkedIsIdle
  <2>3. CalmInv'
    <3> SUFFICES ASSUME calm' PROVE OneToggler' /\ SinkIsOn' /\ OnIsOwn' /\ OnIsReset'
      BY CalmPartsPrime
    <3>1. calm /\ OneToggler /\ SinkIsOn /\ OnIsOwn /\ OnIsReset
      BY <2>1, CalmStays, CalmParts
    <3>2. CASE UNCHANGED probeVars
      BY <3>1, <3>2 DEF probeVars, stats, OneToggler, SinkIsOn, OnIsOwn, OnIsReset, Fresh
    <3>3. CASE ProbeNext
      BY <2>1, <3>1, <3>3, EncoderStepsKeepCalm, TogglesKeepCalm DEF ProbeNext
    <3> QED
      BY <3>2, <3>3
  <2> QED
    BY <2>2, <2>3, ProbePartsPrime DEF ProbeInv
<1> QED
  BY <1>1, <1>2, PTL DEF ProbeSpec

\* Type correctness of the probe; the map holds Cap notes at most, one to a PTS.
THEOREM ProbeTypes == ProbeSpec => []ProbeTypeOK
<1>1. ProbeInv => ProbeTypeOK
  BY DEF ProbeInv
<1> QED
  BY <1>1, ProbeInvariant, PTL

\* With calm toggling, no latency that is printed is another frame's.
THEOREM EveryLatencyIsOwn == ProbeSpec => []LatenciesAreOwn
<1>1. ProbeInv => LatenciesAreOwn
  <2> SUFFICES ASSUME ProbeInv, calm, s_audio_latency_debug
               PROVE  allOwn /\ (linked => \A n \in s_opus_enc_in : n.own)
    BY DEF LatenciesAreOwn
  <2>1. allOwn /\ (linked => Fresh)
    BY CalmParts DEF ProbeInv, OnIsOwn
  <2> QED
    BY <2>1 DEF Fresh
<1> QED
  BY <1>1, ProbeInvariant, PTL

(***************************************************************************)
(* The capture.                                                            *)
(***************************************************************************)

\* What start() opened, stop() has not closed.
FieldInv ==
  /\ mAudioThread # 0 => pipeline # None
  /\ mAudioRecord # None \/ mAudioEncoder # None \/ pushed # None => pipeline # None
  /\ at \in {"audio", "encoder", "launch"} => pipeline # None /\ mAudioThread = 0
  /\ at \in {"encoder", "launch"} => mAudioRecord # None
  /\ at = "join" => mAudioThread # 0
  /\ at \in {"release encoder", "release record", "destroy"} => mAudioThread = 0
  /\ at \in {"release record", "destroy"} => mAudioEncoder = None
  /\ at = "destroy" => mAudioRecord = None

\* The thread that is alive has the fields.
AloneInv ==
  prompt => /\ Alive \subseteq {mAudioThread}
            /\ Alive # {} => mAudioRecord # None

\* With Opus on, another rate than its own is asked for or about to be replaced.
RateInv == OpusRate

\* Between sessions only are settings changed.
SessionInv ==
  settled =>
    /\ pipeline # None => pipeline = Built /\ forcing = 0
    /\ at \in {"camera", "pipeline"} => forcing = 0
    /\ mAudioRecord # None => mAudioRecord = Format /\ settings.mStreamMode # VIDEO_ONLY
    /\ mAudioEncoder # None => mAudioEncoder = Format
    /\ at = "launch" /\ ~settings.m_useOpus => mAudioEncoder # None

\* The chunk that the settings of this session make.
Proper(chunk) ==
  chunk = [opus |-> settings.m_useOpus, recorded |-> Format, coded |-> Format,
           timed |-> Format]

ChunkInv ==
  settled /\ prompt =>
    /\ \A t \in Alive :
         /\ threads[t].where # "crashed"
         /\ threads[t].opus = settings.m_useOpus
         /\ ~threads[t].opus => mAudioEncoder # None
         /\ threads[t].where \in {"input", "drain"} => ~threads[t].opus
         /\ threads[t].chunk # None => Proper(threads[t].chunk)
    /\ pushed # None => Proper(pushed) /\ settings.mStreamMode # VIDEO_ONLY

CaptureInv ==
  CaptureTypeOK /\ FieldInv /\ AloneInv /\ RateInv /\ SessionInv /\ ChunkInv

-----------------------------------------------------------------------------
(* Values.                                                                  *)

\* What is there is not None.
LEMMA NotNone ==
  /\ \A f \in Formats : f # None
  /\ \A chunk \in Chunks : chunk # None
  /\ [audio |-> FALSE] # None
  /\ \A p \in [audio : {TRUE}, opus : BOOLEAN, format : Formats] : p # None
<1>1. "channels" \notin DOMAIN None /\ "opus" \notin DOMAIN None /\ "audio" \notin DOMAIN None
  BY DEF None
<1>2. \A f \in Formats : "channels" \in DOMAIN f
  BY DEF Formats
<1>3. \A chunk \in Chunks : "opus" \in DOMAIN chunk
  BY DEF Chunks
<1>4. \A p \in [audio : {TRUE}, opus : BOOLEAN, format : Formats] : "audio" \in DOMAIN p
  OBVIOUS
<1>5. "audio" \in DOMAIN [audio |-> FALSE]
  OBVIOUS
<1> QED
  BY <1>1, <1>2, <1>3, <1>4, <1>5

\* The settings name a format, and a pipeline.
LEMMA FormatType == settings \in Settings => Format \in Formats
  BY DEF Settings, Format, Formats

Pipelines == {[audio |-> FALSE]} \cup [audio : {TRUE}, opus : BOOLEAN, format : Formats]

LEMMA BuiltType == settings \in Settings => Built \in Pipelines /\ Built # None
<1> SUFFICES ASSUME settings \in Settings PROVE Built \in Pipelines /\ Built # None
  OBVIOUS
<1>1. settings.m_useOpus \in BOOLEAN /\ Format \in Formats
  BY FormatType DEF Settings
<1>2. Built \in Pipelines
  BY <1>1 DEF Built, Pipelines
<1> QED
  BY <1>2, NotNone DEF Pipelines

\* What a step of thread t does to the threads.
Wheres == {"test", "input", "read", "reading", "push", "drain", "over", "crashed"}

LEMMA MovesOne ==
  ASSUME threads \in Seq(Threads), NEW t, NEW from, NEW to \in Wheres,
         NEW chunk \in Chunks \cup {None}, Moves(t, from, to, chunk)
  PROVE  /\ threads' \in Seq(Threads) /\ Len(threads') = Len(threads)
         /\ DOMAIN threads' = DOMAIN threads /\ t \in DOMAIN threads
         /\ threads[t].where = from
         /\ threads'[t] = [where |-> to, opus |-> threads[t].opus, chunk |-> chunk]
         /\ \A u \in DOMAIN threads : u # t => threads'[u] = threads[u]
<1>1. t \in DOMAIN threads /\ threads[t].where = from
  BY DEF Moves
<1>2. DOMAIN threads = 1 .. Len(threads) /\ threads[t] \in Threads
  BY <1>1, LenProperties, ElementOfSeq
<1>3. threads' = [threads EXCEPT ![t] = [where |-> to, opus |-> threads[t].opus, chunk |-> chunk]]
  BY <1>1 DEF Moves
<1>4. [where |-> to, opus |-> threads[t].opus, chunk |-> chunk] \in Threads
  BY <1>2 DEF Threads, Wheres
<1>5. threads' \in Seq(Threads) /\ Len(threads') = Len(threads)
  BY <1>1, <1>2, <1>3, <1>4, ExceptSeq
<1> QED
  BY <1>1, <1>3, <1>5
-----------------------------------------------------------------------------
(* Types.                                                                   *)

\* The setters keep the settings' types, and the promise about the rate of Opus.
LEMMA SetterKeeps ==
  ASSUME SettingsTypeOK, Setter
  PROVE  SettingsTypeOK' /\ (OpusRate => OpusRate')
<1> USE SettingsAssumption
    DEF SettingsTypeOK, SettingsAssumption, Settings, StreamModes, VIDEO_ONLY, AUDIO_ONLY,
        VIDEO_AND_AUDIO_BOTH, OpusRate
<1>1. ASSUME NEW mode \in StreamModes, SetStreamMode(mode)
      PROVE  SettingsTypeOK' /\ (OpusRate => OpusRate')
  BY <1>1 DEF SetStreamMode
<1>2. ASSUME NEW rate \in Rates, SetAudioSampleRate(rate)
      PROVE  SettingsTypeOK' /\ (OpusRate => OpusRate')
  BY <1>2 DEF SetAudioSampleRate
<1>3. ASSUME NEW channels \in {1, 2}, SetAudioChannelCount(channels)
      PROVE  SettingsTypeOK' /\ (OpusRate => OpusRate')
  BY <1>3 DEF SetAudioChannelCount
<1>4. ASSUME NEW b \in BOOLEAN, SetUseOpus(b)
      PROVE  SettingsTypeOK' /\ (OpusRate => OpusRate')
  <2>1. rateAsked' \in BOOLEAN
    BY <1>4, Booleans DEF SetUseOpus
  <2>2. settings' \in Settings /\ forcing' \in Nat
    BY <1>4 DEF SetUseOpus
  <2>3. OpusRate => OpusRate'
    <3>1. CASE b
      BY <1>4, <3>1 DEF SetUseOpus
    <3>2. CASE ~b
      BY <1>4, <3>2 DEF SetUseOpus
    <3> QED
      BY <3>1, <3>2
  <2> QED
    BY <2>1, <2>2, <2>3
<1>5. CASE ForceRate
  BY <1>5 DEF ForceRate
<1> QED
  BY <1>1, <1>2, <1>3, <1>4, <1>5 DEF Setter

\* What every step of a thread has in common.
LEMMA ThreadStepMoves ==
  ASSUME CaptureTypeOK, NEW t, ThreadStep(t)
  PROVE  /\ \E from \in Wheres \ {"over"}, to \in Wheres, chunk \in Chunks \cup {None} :
              Moves(t, from, to, chunk)
         /\ pushed' \in Chunks \cup {None}
         /\ UNCHANGED threadless
<1>1. threads \in Seq(Threads)
  BY DEF CaptureTypeOK
<1>2. \A u \in DOMAIN threads :
        threads[u].chunk \in Chunks \cup {None} /\ threads[u].opus \in BOOLEAN
  <2>1. \A u \in DOMAIN threads : threads[u] \in Threads
    BY <1>1, ElementOfSeq, LenProperties
  <2> QED
    BY <2>1 DEF Threads
<1>3. ASSUME NEW from \in Wheres \ {"over"}, NEW to \in Wheres, Keeps(t, from, to)
      PROVE  \E chunk \in Chunks \cup {None} : Moves(t, from, to, chunk)
  BY <1>2, <1>3 DEF Keeps
<1>4. ASSUME NEW from \in Wheres \ {"over"}, NEW to \in Wheres, NEW object, Uses(t, from, object, to)
      PROVE  \E w \in Wheres, chunk \in Chunks \cup {None} : Moves(t, from, w, chunk)
  <2>1. "crashed" \in Wheres
    BY DEF Wheres
  <2> QED
    BY <1>3, <1>4, <2>1 DEF Uses
<1>5. /\ {"test", "input", "read", "reading", "push", "drain"} \subseteq Wheres \ {"over"}
      /\ "over" \in Wheres
  BY DEF Wheres
<1>6. ASSUME NEW chunk \in Chunks \cup {None}, PushChunk(chunk)
      PROVE  pushed' \in Chunks \cup {None}
  BY <1>6 DEF PushChunk, CaptureTypeOK
<1>7. UNCHANGED pushed => pushed' \in Chunks \cup {None}
  BY DEF CaptureTypeOK
<1>8. CASE TestRunning(t)
  BY <1>3, <1>5, <1>7, <1>8 DEF TestRunning
<1>9. CASE DequeueInput(t)
  BY <1>4, <1>5, <1>7, <1>9 DEF DequeueInput
<1>10. CASE Read(t)
  BY <1>4, <1>5, <1>7, <1>10 DEF Read
<1>11. CASE ReadReturns(t)
  <2> DEFINE coded == IF threads[t].opus THEN mAudioRecord ELSE mAudioEncoder
             chunk == [opus |-> threads[t].opus, recorded |-> mAudioRecord, coded |-> coded,
                       timed |-> Format]
  <2>1. Format \in Formats /\ t \in DOMAIN threads
    BY <1>11, FormatType DEF CaptureTypeOK, SettingsTypeOK, ReadReturns
  <2>2. ASSUME mAudioRecord # None, coded # None PROVE chunk \in Chunks
    BY <1>2, <2>1, <2>2 DEF Chunks, CaptureTypeOK
  <2>3. UNCHANGED <<threadless, pushed>>
    BY <1>11 DEF ReadReturns
  <2>4. CASE /\ mAudioRecord # None /\ coded # None
             /\ Moves(t, "reading", IF threads[t].opus THEN "push" ELSE "drain", chunk)
    <3> HIDE DEF chunk, coded
    <3> QED
      BY <1>5, <1>7, <2>2, <2>3, <2>4
  <2>5. CASE threads[t].opus /\ Keeps(t, "reading", "test")
    BY <1>3, <1>5, <1>7, <2>3, <2>5
  <2>6. CASE ~threads[t].opus /\ Uses(t, "reading", mAudioEncoder, "drain")
    BY <1>4, <1>5, <1>7, <2>3, <2>6
  <2> QED
    BY <1>11, <2>4, <2>5, <2>6 DEF ReadReturns
<1>12. CASE PushPcm(t)
  <2>1. t \in DOMAIN threads
    BY <1>12 DEF PushPcm, Moves
  <2> QED
    BY <1>2, <1>5, <1>6, <1>12, <2>1 DEF PushPcm
<1>13. CASE Drain(t)
  <2>1. CASE /\ mAudioEncoder # None /\ Moves(t, "drain", "test", None)
             /\ PushChunk(threads[t].chunk)
    <3>1. t \in DOMAIN threads
      BY <2>1 DEF Moves
    <3> QED
      BY <1>2, <1>5, <1>6, <1>13, <2>1, <3>1 DEF Drain
  <2>2. CASE Uses(t, "drain", mAudioEncoder, "test") /\ UNCHANGED pushed
    BY <1>4, <1>5, <1>7, <1>13, <2>2 DEF Drain
  <2> QED
    BY <1>13, <2>1, <2>2 DEF Drain
<1> QED
  BY <1>8, <1>9, <1>10, <1>11, <1>12, <1>13 DEF ThreadStep

\* CaptureTypeOK in the parts that the provers take one at a time.
FlagsOK ==
  /\ mRunning \in BOOLEAN /\ camera \in BOOLEAN /\ restarting \in BOOLEAN
  /\ mAudioRunning \in BOOLEAN /\ settled \in BOOLEAN /\ prompt \in BOOLEAN

DataOK ==
  /\ at \in {"idle", "camera", "pipeline", "audio", "encoder", "launch", "stop", "join",
             "release encoder", "release record", "destroy"}
  /\ pipeline \in {None} \cup Pipelines
  /\ mAudioRecord \in Formats \cup {None} /\ mAudioEncoder \in Formats \cup {None}
  /\ mAudioThread \in 0 .. Len(threads)
  /\ threads \in Seq(Threads) /\ Len(threads) <= MaxThreads
  /\ pushed \in Chunks \cup {None} /\ changes \in 0 .. MaxSettings

LEMMA CaptureParts == CaptureTypeOK <=> SettingsTypeOK /\ FlagsOK /\ DataOK
<1>1. {None} \cup Pipelines = {None, [audio |-> FALSE]}
                  \cup [audio : {TRUE}, opus : BOOLEAN, format : Formats]
  BY DEF Pipelines
<1> QED
  BY <1>1, Zenon DEF CaptureTypeOK, FlagsOK, DataOK

LEMMA CaptureTyped == CaptureInit => CaptureTypeOK
<1> SUFFICES ASSUME CaptureInit PROVE CaptureTypeOK
  OBVIOUS
<1>1. SettingsTypeOK
  <2>1. Defaults \in Settings
    BY SettingsAssumption DEF SettingsAssumption, Defaults, Settings, StreamModes,
         VIDEO_ONLY, AUDIO_ONLY, VIDEO_AND_AUDIO_BOTH
  <2> QED
    BY <2>1, Booleans DEF CaptureInit, SettingsInit, SettingsTypeOK
<1>2. threads \in Seq(Threads) /\ Len(threads) = 0
  BY EmptySeq DEF CaptureInit
<1>3. mRunning \in BOOLEAN /\ camera \in BOOLEAN /\ restarting \in BOOLEAN
      /\ mAudioRunning \in BOOLEAN
  BY Booleans DEF CaptureInit
<1>4. Len(threads) <= MaxThreads /\ changes \in 0 .. MaxSettings /\ mAudioThread \in 0 .. Len(threads)
  BY <1>2, CaptureAssumption DEF CaptureAssumption, CaptureInit
<1> QED
  BY <1>1, <1>2, <1>3, <1>4 DEF CaptureInit, CaptureTypeOK

\* Only the setters write the settings.
LEMMA SettingsStay ==
  ASSUME CaptureTypeOK, [CaptureNext]_captureVars
  PROVE  /\ SettingsTypeOK' /\ (OpusRate => OpusRate')
         /\ Setter \/ UNCHANGED settingVars
<1>1. CASE Setter
  BY <1>1, SetterKeeps DEF CaptureTypeOK
<1>2. CASE UNCHANGED settingVars
  BY <1>2 DEF settingVars, SettingsTypeOK, OpusRate, CaptureTypeOK
<1>3. CASE Streamer
  <2>1. UNCHANGED settingVars
    BY <1>3 DEF Streamer, StartBegins, StartCamera, InitGstPipeline, StartRecord, StartEncoder,
         Launch, EncoderError, RestartEncoder, StopBegins, Join, ReleaseEncoder,
         ReleaseRecord, StopEnds
  <2> QED
    BY <1>2, <2>1
<1>4. ASSUME NEW t \in 1 .. MaxThreads, ThreadStep(t)
      PROVE  UNCHANGED settingVars
  BY <1>4, ThreadStepMoves DEF threadless
<1>5. CASE UNCHANGED captureVars
  <2>1. UNCHANGED settingVars
    BY <1>5 DEF captureVars
  <2> QED
    BY <1>2, <2>1
<1> QED
  BY <1>1, <1>2, <1>3, <1>4, <1>5 DEF CaptureNext

LEMMA FlagsStay == CaptureTypeOK /\ [CaptureNext]_captureVars => FlagsOK'
<1> SUFFICES ASSUME CaptureTypeOK, [CaptureNext]_captureVars PROVE FlagsOK'
  OBVIOUS
<1>0. FlagsOK
  BY CaptureParts
<1> USE Booleans DEF resources, running, choices, FlagsOK
<1>1. CASE Setter
  BY <1>0, <1>1 DEF Setter
<1>2. CASE StartBegins
  BY <1>0, <1>2 DEF StartBegins
<1>3. CASE StartCamera
  BY <1>0, <1>3 DEF StartCamera
<1>4. CASE InitGstPipeline
  BY <1>0, <1>4 DEF InitGstPipeline
<1>5. CASE StartRecord
  BY <1>0, <1>5 DEF StartRecord, Ready
<1>6. CASE StartEncoder
  BY <1>0, <1>6 DEF StartEncoder, Ready
<1>7. CASE EncoderError
  BY <1>0, <1>7 DEF EncoderError
<1>8. CASE RestartEncoder
  BY <1>0, <1>8 DEF RestartEncoder
<1>9. CASE Launch
  BY <1>0, <1>9 DEF Launch
<1>10. CASE StopBegins
  BY <1>0, <1>10 DEF StopBegins
<1>11. CASE Join
  BY <1>0, <1>11 DEF Join
<1>12. CASE ReleaseEncoder
  BY <1>0, <1>12 DEF ReleaseEncoder
<1>13. CASE ReleaseRecord
  BY <1>0, <1>13 DEF ReleaseRecord
<1>14. CASE StopEnds
  BY <1>0, <1>14 DEF StopEnds
<1>15. ASSUME NEW t \in 1 .. MaxThreads, ThreadStep(t) PROVE FlagsOK'
  BY <1>0, <1>15, ThreadStepMoves DEF threadless
<1>16. CASE UNCHANGED captureVars
  BY <1>0, <1>16 DEF captureVars
<1> QED
  BY <1>1, <1>2, <1>3, <1>4, <1>5, <1>6, <1>7, <1>8, <1>9, <1>10, <1>11, <1>12, <1>13,
     <1>14, <1>15, <1>16 DEF CaptureNext, Streamer

LEMMA DataStays == CaptureTypeOK /\ [CaptureNext]_captureVars => DataOK'
<1> SUFFICES ASSUME CaptureTypeOK, [CaptureNext]_captureVars PROVE DataOK'
  OBVIOUS
<1>0. DataOK /\ settings \in Settings /\ Format \in Formats /\ Built \in Pipelines
      /\ Len(threads) \in Nat
  BY CaptureParts, FormatType, BuiltType, LenProperties DEF SettingsTypeOK, DataOK
<1> USE DEF resources, running, choices
<1>1. CASE Setter
  <2>1. (changes < MaxSettings /\ changes' = changes + 1) \/ UNCHANGED changes
    <3> HIDE DEF resources, running, choices
    <3> QED
      BY <1>1 DEF Setter
  <2>2. changes' \in 0 .. MaxSettings
    <3>1. changes \in 0 .. MaxSettings /\ MaxSettings \in Nat
      BY <1>0, CaptureAssumption, Zenon DEF CaptureAssumption, DataOK
    <3> QED
      BY <2>1, <3>1
  <2>3. UNCHANGED <<resources, running, at, threads, pushed, choices>>
    BY <1>1 DEF Setter
  <2> QED
    BY <1>0, <2>2, <2>3 DEF DataOK
<1>2. CASE StartBegins
  BY <1>0, <1>2 DEF StartBegins, Go, DataOK
<1>3. CASE StartCamera
  BY <1>0, <1>3 DEF StartCamera, Go, DataOK
<1>4. CASE InitGstPipeline
  BY <1>0, <1>4 DEF InitGstPipeline, Go, DataOK
<1>5. CASE StartRecord
  BY <1>0, <1>5 DEF StartRecord, Ready, DataOK
<1>6. CASE StartEncoder
  BY <1>0, <1>6 DEF StartEncoder, Ready, DataOK
<1>7. CASE EncoderError
  BY <1>0, <1>7 DEF EncoderError, DataOK
<1>8. CASE RestartEncoder
  BY <1>0, <1>8 DEF RestartEncoder, DataOK
<1>9. CASE Launch
  <2>1. /\ threads' \in Seq(Threads) /\ Len(threads') <= MaxThreads
        /\ mAudioThread' \in 0 .. Len(threads')
    <3>1. CASE UNCHANGED <<threads, mAudioThread>>
      BY <1>0, <3>1 DEF DataOK
    <3>2. CASE /\ Len(threads) < MaxThreads /\ mAudioThread' = Len(threads')
               /\ threads' = Append(threads, Thread("test", settings.m_useOpus))
      <4>1. Thread("test", settings.m_useOpus) \in Threads
        BY <1>0 DEF Thread, Threads, Settings
      <4>2. threads \in Seq(Threads)
        BY <1>0 DEF DataOK
      <4>3. threads' \in Seq(Threads) /\ Len(threads') = Len(threads) + 1
        BY <3>2, <4>1, <4>2, AppendProperties
      <4> QED
        BY <1>0, <3>2, <4>2, <4>3, CaptureAssumption DEF CaptureAssumption
    <3> QED
      BY <1>9, <3>1, <3>2 DEF Launch
  <2> QED
    BY <1>0, <1>9, <2>1 DEF Launch, DataOK
<1>10. CASE StopBegins
  BY <1>0, <1>10 DEF StopBegins, DataOK
<1>11. CASE Join
  <2>1. mAudioThread' = 0 /\ at' = "release encoder"
    BY <1>11 DEF Join, Go
  <2>2. /\ threads' = threads /\ pushed' = pushed /\ changes' = changes
        /\ pipeline' = pipeline
        /\ mAudioRecord' = mAudioRecord /\ mAudioEncoder' = mAudioEncoder
    BY <1>11 DEF Join
  <2>3. Len(threads') = Len(threads) /\ Len(threads) \in Nat
    BY <1>0, <2>2
  <2>6. \A n \in Nat : 0 \in 0 .. n
    OBVIOUS
  <2>7. 0 \in 0 .. Len(threads')
    BY <2>3, <2>6, Zenon
  <2>4. mAudioThread' \in 0 .. Len(threads')
    BY <2>1, <2>7, Zenon
  <2>5. at' \in {"release encoder"}
    BY <2>1
  <2> QED
    BY <1>0, <2>2, <2>4, <2>5 DEF DataOK
<1>12. CASE ReleaseEncoder
  BY <1>0, <1>12 DEF ReleaseEncoder, Go, DataOK
<1>13. CASE ReleaseRecord
  BY <1>0, <1>13 DEF ReleaseRecord, Go, DataOK
<1>14. CASE StopEnds
  BY <1>0, <1>14 DEF StopEnds, Go, DataOK
<1>15. ASSUME NEW t \in 1 .. MaxThreads, ThreadStep(t) PROVE DataOK'
  <2>1. PICK from \in Wheres \ {"over"}, to \in Wheres, chunk \in Chunks \cup {None} :
          Moves(t, from, to, chunk)
    BY <1>15, ThreadStepMoves
  <2>2. threads' \in Seq(Threads) /\ Len(threads') = Len(threads)
    BY <1>0, <2>1, MovesOne DEF DataOK
  <2>3. pushed' \in Chunks \cup {None} /\ UNCHANGED threadless
    BY <1>15, ThreadStepMoves
  <2> QED
    BY <1>0, <2>2, <2>3 DEF threadless, DataOK
<1>16. CASE UNCHANGED captureVars
  BY <1>0, <1>16 DEF captureVars, DataOK
<1> QED
  BY <1>1, <1>2, <1>3, <1>4, <1>5, <1>6, <1>7, <1>8, <1>9, <1>10, <1>11, <1>12, <1>13,
     <1>14, <1>15, <1>16 DEF CaptureNext, Streamer

\* CaptureTypeOK', by its parts.
LEMMA CapturePartsPrime == SettingsTypeOK' /\ FlagsOK' /\ DataOK' => CaptureTypeOK'
<1>1. {None} \cup Pipelines = {None, [audio |-> FALSE]}
                  \cup [audio : {TRUE}, opus : BOOLEAN, format : Formats]
  BY DEF Pipelines
<1> QED
  BY <1>1, Zenon DEF CaptureTypeOK, FlagsOK, DataOK

LEMMA CaptureStaysTyped == CaptureTypeOK /\ [CaptureNext]_captureVars => CaptureTypeOK'
  BY SettingsStay, FlagsStay, DataStays, CapturePartsPrime
-----------------------------------------------------------------------------
(* The fields.                                                              *)

LEMMA FieldStays ==
  CaptureTypeOK /\ FieldInv /\ [CaptureNext]_captureVars => FieldInv'
<1> SUFFICES ASSUME CaptureTypeOK, FieldInv, [CaptureNext]_captureVars PROVE FieldInv'
  OBVIOUS
<1>0. Built # None /\ Format # None
  BY BuiltType, FormatType, NotNone DEF CaptureTypeOK, SettingsTypeOK
<1> USE DEF resources, running, FieldInv
<1>1. CASE Setter
  BY <1>1 DEF Setter
<1>2. CASE StartBegins
  BY <1>2 DEF StartBegins, Go
<1>3. CASE StartCamera
  BY <1>3 DEF StartCamera, Go
<1>4. CASE InitGstPipeline
  BY <1>0, <1>4 DEF InitGstPipeline, Go
<1>5. CASE StartRecord
  <2>1. /\ at = "audio" /\ at' \in {"idle", "encoder"}
        /\ pipeline' = pipeline /\ pushed' = pushed /\ mAudioThread' = mAudioThread
        /\ mAudioEncoder' = mAudioEncoder
    BY <1>5 DEF StartRecord, Ready
  <2>2. at' = "encoder" => mAudioRecord' # None
    BY <1>0, <1>5 DEF StartRecord, Ready
  <2> QED
    BY <2>1, <2>2
<1>6. CASE StartEncoder
  BY <1>6 DEF StartEncoder, Ready
<1>7. CASE EncoderError
  BY <1>7 DEF EncoderError
<1>8. CASE RestartEncoder
  BY <1>8 DEF RestartEncoder
<1>9. CASE Launch
  <2>1. /\ at = "launch" /\ at' \in {"idle", "stop"}
        /\ pipeline' = pipeline /\ pushed' = pushed
        /\ mAudioRecord' = mAudioRecord /\ mAudioEncoder' = mAudioEncoder
    BY <1>9 DEF Launch
  <2> QED
    BY <2>1
<1>10. CASE StopBegins
  BY <1>10 DEF StopBegins
<1>11. CASE Join
  <2>1. /\ mAudioThread' = 0 /\ at' = "release encoder"
        /\ pipeline' = pipeline /\ pushed' = pushed
        /\ mAudioRecord' = mAudioRecord /\ mAudioEncoder' = mAudioEncoder
    BY <1>11 DEF Join, Go
  <2> QED
    BY <2>1
<1>12. CASE ReleaseEncoder
  BY <1>12 DEF ReleaseEncoder, Go
<1>13. CASE ReleaseRecord
  BY <1>13 DEF ReleaseRecord, Go
<1>14. CASE StopEnds
  BY <1>14 DEF StopEnds, Go
<1>15. ASSUME NEW t \in 1 .. MaxThreads, ThreadStep(t) PROVE FieldInv'
  <2>1. UNCHANGED threadless
    BY <1>15, ThreadStepMoves
  <2>2. pushed' # None => pushed # None \/ pipeline # None
    BY <1>15 DEF ThreadStep, TestRunning, DequeueInput, Read, ReadReturns, PushPcm, Drain,
         PushChunk
  <2> QED
    BY <2>1, <2>2 DEF threadless
<1>16. CASE UNCHANGED captureVars
  BY <1>16 DEF captureVars
<1> QED
  BY <1>1, <1>2, <1>3, <1>4, <1>5, <1>6, <1>7, <1>8, <1>9, <1>10, <1>11, <1>12, <1>13,
     <1>14, <1>15, <1>16 DEF CaptureNext, Streamer
-----------------------------------------------------------------------------
(* The thread that is alive.                                                *)

\* A thread's step: it was alive, and the others stay as they are.
LEMMA AliveShrinks ==
  ASSUME threads \in Seq(Threads), NEW t, NEW from \in Wheres \ {"over"}, NEW to \in Wheres,
         NEW chunk \in Chunks \cup {None}, Moves(t, from, to, chunk)
  PROVE  /\ Alive' \subseteq Alive /\ t \in Alive
         /\ \A u \in Alive' : u # t => threads'[u] = threads[u]
<1>1. /\ DOMAIN threads' = DOMAIN threads /\ t \in DOMAIN threads
      /\ threads[t].where = from
      /\ \A u \in DOMAIN threads : u # t => threads'[u] = threads[u]
  BY MovesOne
<1> QED
  BY <1>1 DEF Alive

\* As long as the capture has no thread none is alive.
LEMMA NoneAlive ==
  ASSUME CaptureTypeOK, AloneInv, prompt, mAudioThread = 0
  PROVE  Alive = {}
<1>1. 0 \notin DOMAIN threads
  <2>1. threads \in Seq(Threads)
    BY DEF CaptureTypeOK
  <2>2. DOMAIN threads = 1 .. Len(threads) /\ Len(threads) \in Nat
    BY <2>1, LenProperties
  <2> QED
    BY <2>2
<1> QED
  BY <1>1 DEF AloneInv, Alive

LEMMA AloneStays ==
  CaptureTypeOK /\ FieldInv /\ AloneInv /\ [CaptureNext]_captureVars => AloneInv'
<1> SUFFICES ASSUME CaptureTypeOK, FieldInv, AloneInv, [CaptureNext]_captureVars,
                    prompt'
             PROVE  (Alive \subseteq {mAudioThread} /\ (Alive # {} => mAudioRecord # None))'
  BY DEF AloneInv
<1>0. prompt' = prompt
  <2>1. CASE Setter \/ Streamer
    BY <2>1 DEF Setter, choices, Streamer, StartBegins, StartCamera, InitGstPipeline, StartRecord,
         StartEncoder, Launch, EncoderError, RestartEncoder, StopBegins, Join, ReleaseEncoder,
         ReleaseRecord, StopEnds
  <2>2. ASSUME NEW t \in 1 .. MaxThreads, ThreadStep(t) PROVE prompt' = prompt
    BY <2>2, ThreadStepMoves DEF threadless, choices
  <2>3. CASE UNCHANGED captureVars
    BY <2>3 DEF captureVars, choices
  <2> QED
    BY <2>1, <2>2, <2>3 DEF CaptureNext
<1>1. prompt /\ Alive \subseteq {mAudioThread} /\ (Alive # {} => mAudioRecord # None)
  BY <1>0 DEF AloneInv
<1>2. Format # None /\ threads \in Seq(Threads)
  BY FormatType, NotNone DEF CaptureTypeOK, SettingsTypeOK
<1>3. ASSUME UNCHANGED <<threads, mAudioThread, mAudioRecord>>
      PROVE  (Alive \subseteq {mAudioThread} /\ (Alive # {} => mAudioRecord # None))'
  BY <1>1, <1>3 DEF Alive
<1>4. ASSUME UNCHANGED threads, Alive = {}
      PROVE  (Alive \subseteq {mAudioThread} /\ (Alive # {} => mAudioRecord # None))'
  BY <1>4 DEF Alive
<1>5. CASE Setter
  BY <1>3, <1>5 DEF Setter, resources, running
<1>6. CASE StartBegins \/ StartCamera \/ InitGstPipeline \/ EncoderError \/ RestartEncoder
           \/ StopBegins \/ ReleaseEncoder \/ StopEnds
  BY <1>3, <1>6 DEF StartBegins, StartCamera, InitGstPipeline, EncoderError, RestartEncoder,
       StopBegins, ReleaseEncoder, StopEnds, resources, running
<1>7. CASE StartRecord \/ StartEncoder \/ ReleaseRecord
  <2>1. mAudioThread = 0
    BY <1>7 DEF FieldInv, StartRecord, StartEncoder, ReleaseRecord, Go
  <2> QED
    BY <1>1, <1>4, <1>7, <2>1, NoneAlive DEF StartRecord, StartEncoder, ReleaseRecord
<1>8. CASE Launch
  <2>1. mAudioThread = 0 /\ mAudioRecord # None /\ mAudioRecord' = mAudioRecord
    BY <1>8 DEF FieldInv, Launch, resources
  <2>2. Alive = {}
    BY <1>1, <2>1, NoneAlive
  <2>3. CASE /\ threads' = Append(threads, Thread("test", settings.m_useOpus))
             /\ mAudioThread' = Len(threads')
    <3>1. Thread("test", settings.m_useOpus) \in Threads
      BY DEF Thread, Threads, CaptureTypeOK, SettingsTypeOK, Settings
    <3>2. /\ Len(threads') = Len(threads) + 1 /\ Len(threads) \in Nat
          /\ threads' \in Seq(Threads)
          /\ \A u \in 1 .. Len(threads) : threads'[u] = threads[u]
      BY <1>2, <2>3, <3>1, AppendProperties, LenProperties
    <3>3. ASSUME NEW u \in Alive' PROVE u = mAudioThread'
      <4>1. u \in 1 .. Len(threads') /\ threads'[u].where # "over"
        BY <3>2, LenProperties DEF Alive
      <4>2. CASE u \in 1 .. Len(threads)
        <5>1. u \in Alive
          BY <1>2, <3>2, <4>1, <4>2, LenProperties DEF Alive
        <5> QED
          BY <2>2, <5>1
      <4> QED
        BY <2>3, <3>2, <4>1, <4>2
    <3> QED
      BY <2>1, <3>3
  <2>4. CASE UNCHANGED <<threads, mAudioThread>>
    BY <1>4, <2>2, <2>4
  <2> QED
    BY <1>8, <2>3, <2>4 DEF Launch
<1>9. CASE Join
  <2>1. mAudioThread \notin Alive
    BY <1>1, <1>9 DEF Join, Alive
  <2> QED
    BY <1>1, <1>4, <1>9, <2>1 DEF Join
<1>10. ASSUME NEW t \in 1 .. MaxThreads, ThreadStep(t)
       PROVE  (Alive \subseteq {mAudioThread} /\ (Alive # {} => mAudioRecord # None))'
  <2>1. PICK from \in Wheres \ {"over"}, to \in Wheres, chunk \in Chunks \cup {None} :
          Moves(t, from, to, chunk)
    BY <1>10, ThreadStepMoves
  <2>2. Alive' \subseteq Alive
    BY <1>2, <2>1, AliveShrinks
  <2>3. mAudioThread' = mAudioThread /\ mAudioRecord' = mAudioRecord
    BY <1>10, ThreadStepMoves DEF threadless, resources, running
  <2> QED
    BY <1>1, <2>2, <2>3
<1>11. CASE UNCHANGED captureVars
  BY <1>3, <1>11 DEF captureVars, resources, running
<1> QED
  BY <1>5, <1>6, <1>7, <1>8, <1>9, <1>10, <1>11 DEF CaptureNext, Streamer
-----------------------------------------------------------------------------
(* The session's settings.                                                  *)

\* What the environment chose stays.
LEMMA ChoicesStay ==
  CaptureTypeOK /\ [CaptureNext]_captureVars => settled' = settled /\ prompt' = prompt
<1> SUFFICES ASSUME CaptureTypeOK, [CaptureNext]_captureVars
             PROVE  settled' = settled /\ prompt' = prompt
  OBVIOUS
<1>1. CASE Setter \/ Streamer
  BY <1>1 DEF Setter, choices, Streamer, StartBegins, StartCamera, InitGstPipeline, StartRecord,
       StartEncoder, Launch, EncoderError, RestartEncoder, StopBegins, Join, ReleaseEncoder,
       ReleaseRecord, StopEnds
<1>2. ASSUME NEW t \in 1 .. MaxThreads, ThreadStep(t)
      PROVE  settled' = settled /\ prompt' = prompt
  BY <1>2, ThreadStepMoves DEF threadless, choices
<1>3. CASE UNCHANGED captureVars
  BY <1>3 DEF captureVars, choices
<1> QED
  BY <1>1, <1>2, <1>3 DEF CaptureNext

\* What the session's settings make, they go on making.
LEMMA SettingsMake ==
  ASSUME UNCHANGED settingVars
  PROVE  /\ settings' = settings /\ forcing' = forcing /\ rateAsked' = rateAsked
         /\ Format' = Format /\ Built' = Built
<1>1. settings' = settings /\ forcing' = forcing /\ rateAsked' = rateAsked
  BY DEF settingVars
<1> QED
  BY <1>1 DEF Format, Built

\* SessionInv without its hypothesis.
Session ==
  /\ pipeline # None => pipeline = Built /\ forcing = 0
  /\ at \in {"camera", "pipeline"} => forcing = 0
  /\ mAudioRecord # None => mAudioRecord = Format /\ settings.mStreamMode # VIDEO_ONLY
  /\ mAudioEncoder # None => mAudioEncoder = Format
  /\ at = "launch" /\ ~settings.m_useOpus => mAudioEncoder # None

LEMMA SessionStays ==
  CaptureTypeOK /\ FieldInv /\ SessionInv /\ [CaptureNext]_captureVars => SessionInv'
<1> SUFFICES ASSUME CaptureTypeOK, FieldInv, SessionInv, [CaptureNext]_captureVars, settled'
             PROVE  Session'
  BY Zenon DEF SessionInv, Session
<1>0. settled /\ Session
  <2>1. settled
    BY ChoicesStay
  <2> QED
    BY <2>1, Zenon DEF SessionInv, Session
<1>1. Format # None
  BY FormatType, NotNone DEF CaptureTypeOK, SettingsTypeOK
<1>2. CASE Setter
  <2>1. at = "idle" /\ pipeline = None
    BY <1>0, <1>2 DEF Setter, NothingToRelease
  <2>2. mAudioRecord = None /\ mAudioEncoder = None
    BY <2>1 DEF FieldInv
  <2>3. at' = at /\ pipeline' = pipeline /\ mAudioRecord' = mAudioRecord
        /\ mAudioEncoder' = mAudioEncoder
    BY <1>2 DEF Setter, resources
  <2> QED
    BY <2>1, <2>2, <2>3 DEF Session
<1>3. ASSUME ~Setter
      PROVE  /\ settings' = settings /\ forcing' = forcing
             /\ Format' = Format /\ Built' = Built
  BY <1>3, SettingsStay, SettingsMake
<1> HIDE DEF Format, Built
<1>4. ASSUME ~Setter, at' \notin {"camera", "launch"},
             UNCHANGED <<pipeline, mAudioRecord, mAudioEncoder>>,
             at' = "pipeline" => at \in {"camera", "pipeline"}
      PROVE  Session'
  BY <1>0, <1>3, <1>4 DEF Session
<1>5. CASE ~Setter /\ StartBegins
  <2>1. /\ pipeline' = pipeline /\ mAudioRecord' = mAudioRecord
        /\ mAudioEncoder' = mAudioEncoder /\ at' = "camera" /\ forcing = 0
    BY <1>0, <1>5 DEF StartBegins, Go, resources
  <2> QED
    BY <1>0, <1>3, <1>5, <2>1 DEF Session
<1>6. CASE ~Setter /\ (StartCamera \/ StopBegins \/ Join)
  <2>1. /\ at' \in {"pipeline", "stop", "idle", "join", "release encoder"}
        /\ at' = "pipeline" => at = "camera"
    BY <1>6 DEF StartCamera, Go, StopBegins, Join
  <2>2. UNCHANGED <<pipeline, mAudioRecord, mAudioEncoder>>
    BY <1>6 DEF StartCamera, StopBegins, Join, resources
  <2> QED
    BY <1>4, <1>6, <2>1, <2>2
<1>7. CASE ~Setter /\ InitGstPipeline
  <2>1. /\ mAudioRecord' = mAudioRecord /\ mAudioEncoder' = mAudioEncoder
        /\ at' \in {"audio", "stop"} /\ at = "pipeline"
        /\ pipeline' = Built \/ pipeline' = pipeline
    BY <1>7 DEF InitGstPipeline, Go
  <2> QED
    BY <1>0, <1>3, <1>7, <2>1 DEF Session
<1>8. CASE ~Setter /\ StartRecord
  <2>1. /\ pipeline' = pipeline /\ mAudioEncoder' = mAudioEncoder
        /\ at' \in {"idle", "encoder"}
    BY <1>8 DEF StartRecord, Ready
  <2>2. \/ mAudioRecord' = mAudioRecord
        \/ mAudioRecord' = Format /\ settings.mStreamMode # VIDEO_ONLY
    <3> HIDE DEF VIDEO_ONLY
    <3> QED
      BY <1>8, Zenon DEF StartRecord
  <2> QED
    BY <1>0, <1>3, <1>8, <2>1, <2>2 DEF Session
<1>9. CASE ~Setter /\ StartEncoder
  <2>1. /\ pipeline' = pipeline
        /\ at' \in {"idle", "launch"}
        /\ mAudioRecord' \in {mAudioRecord, None}
        /\ mAudioEncoder' \in {mAudioEncoder, Format, None}
        /\ at' = "launch" /\ ~settings.m_useOpus => mAudioEncoder' = Format
    BY <1>9 DEF StartEncoder, Ready
  <2> QED
    BY <1>0, <1>1, <1>3, <1>9, <2>1 DEF Session
<1>10. CASE ~Setter /\ (EncoderError \/ RestartEncoder)
  <2>1. UNCHANGED <<pipeline, mAudioRecord, mAudioEncoder, at>>
    BY <1>10 DEF EncoderError, RestartEncoder
  <2> QED
    BY <1>0, <1>3, <1>10, <2>1 DEF Session
<1>11. CASE ~Setter /\ Launch
  <2>1. at' \in {"idle", "stop"} /\ UNCHANGED <<pipeline, mAudioRecord, mAudioEncoder>>
    BY <1>11 DEF Launch, resources
  <2> QED
    BY <1>4, <1>11, <2>1
<1>12. CASE ~Setter /\ (ReleaseEncoder \/ ReleaseRecord \/ StopEnds)
  <2>1. /\ at' \in {"release record", "destroy", "idle"}
        /\ pipeline' \in {pipeline, None} /\ mAudioRecord' \in {mAudioRecord, None}
        /\ mAudioEncoder' \in {mAudioEncoder, None}
    BY <1>12 DEF ReleaseEncoder, ReleaseRecord, StopEnds, Go
  <2> QED
    BY <1>0, <1>3, <1>12, <2>1 DEF Session
<1>13. ASSUME NEW t \in 1 .. MaxThreads, ThreadStep(t), ~Setter PROVE Session'
  <2>1. UNCHANGED <<pipeline, mAudioRecord, mAudioEncoder, at>>
    BY <1>13, ThreadStepMoves DEF threadless, resources
  <2> QED
    BY <1>0, <1>3, <1>13, <2>1 DEF Session
<1>14. CASE ~Setter /\ UNCHANGED captureVars
  <2>1. UNCHANGED <<pipeline, mAudioRecord, mAudioEncoder, at>>
    BY <1>14 DEF captureVars, resources
  <2> QED
    BY <1>0, <1>3, <1>14, <2>1 DEF Session
<1> QED
  BY <1>2, <1>5, <1>6, <1>7, <1>8, <1>9, <1>10, <1>11, <1>12, <1>13, <1>14
     DEF CaptureNext, Streamer
-----------------------------------------------------------------------------
(* The chunks.                                                              *)

\* ChunkInv without its hypothesis, in two parts.
ThreadFits(t) ==
  /\ threads[t].where # "crashed"
  /\ threads[t].opus = settings.m_useOpus
  /\ ~threads[t].opus => mAudioEncoder # None
  /\ threads[t].where \in {"input", "drain"} => ~threads[t].opus
  /\ threads[t].chunk # None => Proper(threads[t].chunk)

PushedFits == pushed # None => Proper(pushed) /\ settings.mStreamMode # VIDEO_ONLY

LEMMA ChunkInvParts ==
  ChunkInv <=> (settled /\ prompt => (\A t \in Alive : ThreadFits(t)) /\ PushedFits)
  BY Zenon DEF ChunkInv, ThreadFits, PushedFits

LEMMA ChunkInvPartsPrime ==
  ChunkInv' <=> (settled' /\ prompt' => (\A t \in Alive' : ThreadFits(t)') /\ PushedFits')
  BY Zenon DEF ChunkInv, ThreadFits, PushedFits

\* A step of a thread that has what it needs: the chunk it makes is proper.
LEMMA ChunkStep ==
  ASSUME CaptureTypeOK, AloneInv, SessionInv, settled, prompt,
         \A t \in Alive : ThreadFits(t), PushedFits,
         NEW t \in 1 .. MaxThreads, ThreadStep(t)
  PROVE  (\A u \in Alive' : ThreadFits(u)') /\ PushedFits'
<1> HIDE DEF Format, Built
<1>1. PICK from \in Wheres \ {"over"}, to \in Wheres, chunk \in Chunks \cup {None} :
        Moves(t, from, to, chunk)
  BY ThreadStepMoves
<1>2. threads \in Seq(Threads) /\ t \in DOMAIN threads
  BY <1>1 DEF CaptureTypeOK, Moves
<1>3. Alive' \subseteq Alive /\ t \in Alive
      /\ \A u \in Alive' : u # t => threads'[u] = threads[u]
  <2>1. /\ DOMAIN threads' = DOMAIN threads /\ threads[t].where = from
        /\ \A u \in DOMAIN threads : u # t => threads'[u] = threads[u]
    BY <1>1, <1>2, MovesOne
  <2> QED
    BY <1>2, <2>1 DEF Alive
<1>4. /\ threads[t].opus = settings.m_useOpus
      /\ ~threads[t].opus => mAudioEncoder # None
      /\ threads[t].where \in {"input", "drain"} => ~threads[t].opus
      /\ threads[t].chunk # None => Proper(threads[t].chunk)
  BY <1>3 DEF ThreadFits
<1>5. /\ mAudioRecord # None /\ mAudioRecord = Format /\ settings.mStreamMode # VIDEO_ONLY
      /\ mAudioEncoder # None => mAudioEncoder = Format
  BY <1>3 DEF AloneInv, SessionInv
<1>6. /\ settings' = settings /\ mAudioEncoder' = mAudioEncoder /\ Format' = Format
  <2>1. UNCHANGED settingVars /\ mAudioEncoder' = mAudioEncoder
    BY ThreadStepMoves DEF threadless, resources
  <2> QED
    BY <2>1, SettingsMake
<1>7. ASSUME NEW w1 \in Wheres \ {"over"}, NEW w2 \in Wheres, NEW c \in Chunks \cup {None},
             Moves(t, w1, w2, c), w2 # "crashed", c # None => Proper(c),
             w2 \in {"input", "drain"} => ~threads[t].opus
      PROVE  \A u \in Alive' : ThreadFits(u)'
  <2>1. threads'[t] = [where |-> w2, opus |-> threads[t].opus, chunk |-> c]
    BY <1>2, <1>7 DEF Moves
  <2>2. ThreadFits(t)'
    BY <1>4, <1>6, <1>7, <2>1 DEF ThreadFits, Proper
  <2>3. ASSUME NEW u \in Alive', u # t PROVE ThreadFits(u)'
    BY <1>3, <1>6, <2>3 DEF ThreadFits, Proper
  <2> QED
    BY <2>2, <2>3
<1>8. threads[t].chunk \in Chunks \cup {None}
  <2>1. threads[t] \in Threads
    BY <1>2, ElementOfSeq, LenProperties
  <2> QED
    BY <2>1 DEF Threads
<1>9. ASSUME NEW w1 \in Wheres \ {"over"}, NEW w2 \in Wheres, Keeps(t, w1, w2),
             w2 # "crashed", w2 \in {"input", "drain"} => ~threads[t].opus
      PROVE  \A u \in Alive' : ThreadFits(u)'
  BY <1>4, <1>7, <1>8, <1>9 DEF Keeps
<1>10. ASSUME NEW w1 \in Wheres \ {"over"}, NEW w2 \in Wheres, NEW object,
              Uses(t, w1, object, w2), object # None, w2 # "crashed",
              w2 \in {"input", "drain"} => ~threads[t].opus
       PROVE  \A u \in Alive' : ThreadFits(u)'
  BY <1>9, <1>10 DEF Uses
<1>11. /\ {"test", "input", "read", "reading", "push", "drain"} \subseteq Wheres \ {"over"}
       /\ "over" \in Wheres
  BY DEF Wheres
<1>12. UNCHANGED pushed => PushedFits'
  BY <1>6 DEF PushedFits, Proper
<1>13. PushChunk(threads[t].chunk) => PushedFits'
  BY <1>4, <1>5, <1>6 DEF PushedFits, PushChunk, Proper
<1>14. CASE TestRunning(t)
  BY <1>9, <1>7, <1>11, <1>12, <1>14 DEF TestRunning
<1>15. CASE DequeueInput(t)
  <2>1. threads[t].where = "input"
    BY <1>15 DEF DequeueInput, Uses, Keeps, Moves
  <2>2. mAudioEncoder # None /\ ~threads[t].opus
    BY <1>4, <2>1
  <2> QED
    BY <1>10, <1>11, <1>12, <1>15, <2>2 DEF DequeueInput
<1>16. CASE Read(t)
  BY <1>5, <1>10, <1>11, <1>12, <1>16 DEF Read
<1>17. CASE ReadReturns(t)
  <2> DEFINE coded == IF threads[t].opus THEN mAudioRecord ELSE mAudioEncoder
             made == [opus |-> threads[t].opus, recorded |-> mAudioRecord, coded |-> coded,
                      timed |-> Format]
  <2>1. CASE /\ mAudioRecord # None /\ coded # None
             /\ Moves(t, "reading", IF threads[t].opus THEN "push" ELSE "drain", made)
    <3>1. coded = Format
      BY <1>5, <2>1
    <3>2. Proper(made)
      BY <1>4, <1>5, <3>1 DEF Proper
    <3>3. Format \in Formats /\ threads[t].opus \in BOOLEAN
      <4>1. Format \in Formats
        BY FormatType DEF CaptureTypeOK, SettingsTypeOK
      <4>2. threads[t] \in Threads
        BY <1>2, ElementOfSeq, LenProperties
      <4> QED
        BY <4>1, <4>2 DEF Threads
    <3>4. made \in Chunks
      BY <1>5, <3>1, <3>3 DEF Chunks
    <3> HIDE DEF coded, made
    <3>5. CASE threads[t].opus
      <4>1. Moves(t, "reading", "push", made)
        BY <2>1, <3>5
      <4>2. "reading" \in Wheres \ {"over"} /\ "push" \in Wheres /\ made \in Chunks \cup {None}
        BY <1>11, <3>4
      <4>3. \A u \in Alive' : ThreadFits(u)'
        BY <1>7, <3>2, <4>1, <4>2
      <4> QED
        BY <1>12, <1>17, <4>3 DEF ReadReturns
    <3>6. CASE ~threads[t].opus
      <4>1. Moves(t, "reading", "drain", made)
        BY <2>1, <3>6
      <4>2. "reading" \in Wheres \ {"over"} /\ "drain" \in Wheres /\ made \in Chunks \cup {None}
        BY <1>11, <3>4
      <4>3. \A u \in Alive' : ThreadFits(u)'
        BY <1>7, <3>2, <3>6, <4>1, <4>2
      <4> QED
        BY <1>12, <1>17, <4>3 DEF ReadReturns
    <3> QED
      BY <3>5, <3>6
  <2>2. CASE threads[t].opus /\ Keeps(t, "reading", "test")
    BY <1>9, <1>11, <1>12, <1>17, <2>2 DEF ReadReturns
  <2>3. CASE ~threads[t].opus /\ Uses(t, "reading", mAudioEncoder, "drain")
    BY <1>4, <1>10, <1>11, <1>12, <1>17, <2>3 DEF ReadReturns
  <2> QED
    BY <1>17, <2>1, <2>2, <2>3 DEF ReadReturns
<1>18. CASE PushPcm(t)
  BY <1>7, <1>11, <1>13, <1>18 DEF PushPcm
<1>19. CASE Drain(t)
  <2>1. CASE /\ mAudioEncoder # None /\ Moves(t, "drain", "test", None)
             /\ PushChunk(threads[t].chunk)
    BY <1>7, <1>11, <1>13, <2>1
  <2>2. CASE Uses(t, "drain", mAudioEncoder, "test") /\ UNCHANGED pushed
    <3>1. threads[t].where = "drain"
      BY <2>2 DEF Uses, Keeps, Moves
    <3> QED
      BY <1>4, <1>10, <1>11, <1>12, <2>2, <3>1
  <2> QED
    BY <1>19, <2>1, <2>2 DEF Drain
<1> QED
  BY <1>14, <1>15, <1>16, <1>17, <1>18, <1>19 DEF ThreadStep

LEMMA ChunkStays ==
  CaptureInv /\ [CaptureNext]_captureVars => ChunkInv'
<1> SUFFICES ASSUME CaptureInv, [CaptureNext]_captureVars, settled', prompt'
             PROVE  (\A u \in Alive' : ThreadFits(u)') /\ PushedFits'
  BY ChunkInvPartsPrime
<1> HIDE DEF Format, Built
<1>0. /\ CaptureTypeOK /\ FieldInv /\ AloneInv /\ SessionInv
      /\ settled /\ prompt /\ (\A u \in Alive : ThreadFits(u)) /\ PushedFits
  <2>1. CaptureTypeOK /\ FieldInv /\ AloneInv /\ SessionInv /\ ChunkInv
    BY DEF CaptureInv
  <2>2. settled /\ prompt
    BY <2>1, ChoicesStay
  <2> QED
    BY <2>1, <2>2, ChunkInvParts
<1>1. ASSUME ~Setter
      PROVE  settings' = settings /\ Format' = Format
  BY <1>0, <1>1, SettingsStay, SettingsMake
<1>2. ASSUME ~Setter, UNCHANGED <<threads, mAudioEncoder>>
      PROVE  \A u \in Alive' : ThreadFits(u)'
  BY <1>0, <1>1, <1>2 DEF Alive, ThreadFits, Proper
<1>3. ASSUME UNCHANGED threads, Alive = {}
      PROVE  \A u \in Alive' : ThreadFits(u)'
  BY <1>3 DEF Alive
<1>4. ASSUME ~Setter, UNCHANGED pushed PROVE PushedFits'
  BY <1>0, <1>1, <1>4 DEF PushedFits, Proper
<1>5. CASE Setter
  <2>1. pipeline = None /\ UNCHANGED <<threads, pushed>>
    BY <1>0, <1>5 DEF Setter, NothingToRelease
  <2>2. mAudioThread = 0 /\ pushed = None
    BY <1>0, <2>1 DEF FieldInv
  <2>3. Alive = {}
    BY <1>0, <2>2, NoneAlive
  <2>4. PushedFits'
    BY <2>1, <2>2 DEF PushedFits
  <2> QED
    BY <1>3, <2>1, <2>3, <2>4
<1>6. CASE ~Setter /\ (StartBegins \/ StartCamera \/ InitGstPipeline \/ StartRecord \/ EncoderError
                      \/ RestartEncoder \/ StopBegins \/ Join \/ ReleaseRecord)
  <2>1. UNCHANGED <<threads, mAudioEncoder, pushed>>
    BY <1>6 DEF StartBegins, StartCamera, InitGstPipeline, StartRecord, EncoderError,
         RestartEncoder, StopBegins, Join, ReleaseRecord, resources
  <2> QED
    BY <1>2, <1>4, <1>6, <2>1
<1>7. CASE ~Setter /\ (StartEncoder \/ ReleaseEncoder)
  <2>1. mAudioThread = 0 /\ UNCHANGED <<threads, pushed>>
    BY <1>0, <1>7 DEF FieldInv, StartEncoder, ReleaseEncoder, Go
  <2>2. Alive = {}
    BY <1>0, <2>1, NoneAlive
  <2> QED
    BY <1>3, <1>4, <1>7, <2>1, <2>2
<1>8. CASE ~Setter /\ StopEnds
  <2>1. UNCHANGED <<threads, mAudioEncoder>> /\ pushed' = None
    BY <1>8 DEF StopEnds
  <2>2. PushedFits'
    BY <2>1 DEF PushedFits
  <2> QED
    BY <1>2, <1>8, <2>1, <2>2
<1>9. CASE ~Setter /\ Launch
  <2>1. /\ at = "launch" /\ mAudioThread = 0 /\ pushed' = pushed
        /\ mAudioEncoder' = mAudioEncoder
    BY <1>0, <1>9 DEF Launch, resources, FieldInv
  <2>2. Alive = {}
    BY <1>0, <2>1, NoneAlive
  <2>3. ~settings.m_useOpus => mAudioEncoder # None
    BY <1>0, <2>1 DEF SessionInv
  <2>4. CASE threads' = Append(threads, Thread("test", settings.m_useOpus))
    <3>1. Thread("test", settings.m_useOpus) \in Threads
      BY <1>0 DEF Thread, Threads, CaptureTypeOK, SettingsTypeOK, Settings
    <3>2. threads \in Seq(Threads)
      BY <1>0 DEF CaptureTypeOK
    <3>3. /\ Len(threads') = Len(threads) + 1 /\ Len(threads) \in Nat
          /\ threads' \in Seq(Threads)
          /\ \A u \in 1 .. Len(threads) : threads'[u] = threads[u]
          /\ threads'[Len(threads) + 1] = Thread("test", settings.m_useOpus)
      BY <2>4, <3>1, <3>2, AppendProperties, LenProperties
    <3>4. ASSUME NEW u \in Alive' PROVE ThreadFits(u)'
      <4>1. u \in 1 .. Len(threads') /\ threads'[u].where # "over"
        BY <3>3, LenProperties DEF Alive
      <4>2. u \notin 1 .. Len(threads)
        <5>1. ASSUME u \in 1 .. Len(threads) PROVE u \in Alive
          BY <3>2, <3>3, <4>1, <5>1, LenProperties DEF Alive
        <5> QED
          BY <2>2, <5>1
      <4>3. threads'[u] = [where |-> "test", opus |-> settings.m_useOpus, chunk |-> None]
        BY <3>3, <4>1, <4>2 DEF Thread
      <4> QED
        BY <1>1, <1>9, <2>1, <2>3, <4>3 DEF ThreadFits
    <3> QED
      BY <1>4, <1>9, <2>1, <3>4
  <2>5. CASE UNCHANGED threads
    BY <1>2, <1>4, <1>9, <2>1, <2>5
  <2> QED
    BY <1>9, <2>4, <2>5 DEF Launch
<1>10. ASSUME NEW t \in 1 .. MaxThreads, ThreadStep(t)
       PROVE  (\A u \in Alive' : ThreadFits(u)') /\ PushedFits'
  BY <1>0, <1>10, ChunkStep
<1>11. CASE ~Setter /\ UNCHANGED captureVars
  <2>1. UNCHANGED <<threads, mAudioEncoder, pushed>>
    BY <1>11 DEF captureVars, resources
  <2> QED
    BY <1>2, <1>4, <1>11, <2>1
<1> QED
  BY <1>5, <1>6, <1>7, <1>8, <1>9, <1>10, <1>11 DEF CaptureInv, CaptureNext, Streamer

-----------------------------------------------------------------------------
\* The invariant that the others follow from.
THEOREM CaptureInvariant == CaptureSpec => []CaptureInv
<1>1. CaptureInit => CaptureInv
  <2> SUFFICES ASSUME CaptureInit PROVE CaptureInv
    OBVIOUS
  <2>1. CaptureTypeOK
    BY CaptureTyped
  <2>2. /\ at = "idle" /\ pipeline = None /\ mAudioRecord = None /\ mAudioEncoder = None
        /\ mAudioThread = 0 /\ pushed = None /\ threads = <<>>
    BY DEF CaptureInit
  <2>3. Alive = {}
    BY <2>2 DEF Alive
  <2>4. OpusRate
    BY DEF CaptureInit, SettingsInit, Defaults, OpusRate
  <2> QED
    BY <2>1, <2>2, <2>3, <2>4 DEF CaptureInv, FieldInv, AloneInv, RateInv, SessionInv, ChunkInv
<1>2. CaptureInv /\ [CaptureNext]_captureVars => CaptureInv'
  <2> SUFFICES ASSUME CaptureInv, [CaptureNext]_captureVars PROVE CaptureInv'
    OBVIOUS
  <2>1. CaptureTypeOK /\ FieldInv /\ AloneInv /\ RateInv /\ SessionInv /\ ChunkInv
    BY DEF CaptureInv
  <2>2. CaptureTypeOK' /\ FieldInv' /\ AloneInv' /\ SessionInv' /\ ChunkInv'
    BY <2>1, CaptureStaysTyped, FieldStays, AloneStays, SessionStays, ChunkStays
  <2>3. RateInv'
    BY <2>1, SettingsStay DEF RateInv
  <2> QED
    BY <2>2, <2>3 DEF CaptureInv
<1> QED
  BY <1>1, <1>2, PTL DEF CaptureSpec

\* Type correctness of the capture.
THEOREM CaptureTypes == CaptureSpec => []CaptureTypeOK
<1>1. CaptureInv => CaptureTypeOK
  BY DEF CaptureInv
<1> QED
  BY <1>1, CaptureInvariant, PTL

\* While join does not time out one capture thread is alive at most, which the fields
\* are for, and none of them goes away under it.
THEOREM OneCaptureThread == CaptureSpec => []CaptureIsAlone
<1>1. CaptureInv => CaptureIsAlone
  <2> SUFFICES ASSUME CaptureInv, prompt
               PROVE  /\ Alive \subseteq {mAudioThread}
                      /\ mAudioThread \in Alive => mAudioRecord # None
                      /\ settled => ~Crashed
    BY DEF CaptureIsAlone
  <2>1. Alive \subseteq {mAudioThread} /\ (Alive # {} => mAudioRecord # None)
    BY DEF CaptureInv, AloneInv
  <2>2. ASSUME settled PROVE ~Crashed
    <3>1. \A t \in Alive : threads[t].where # "crashed"
      BY <2>2, ChunkInvParts DEF CaptureInv, ThreadFits
    <3> QED
      BY <3>1 DEF Crashed, Alive
  <2> QED
    BY <2>1, <2>2
<1> QED
  BY <1>1, CaptureInvariant, PTL

\* What is pushed into a media is of the codec and in the format that its caps name.
THEOREM CapsNameWhatIsPushed == CaptureSpec => []CaptureMatchesMedia
<1>1. CaptureInv => CaptureMatchesMedia
  <2> SUFFICES ASSUME CaptureInv, settled, prompt, pushed # None
               PROVE  /\ pipeline.audio /\ pushed.opus = pipeline.opus
                      /\ {pushed.recorded, pushed.coded, pushed.timed} = {pipeline.format}
                      /\ pushed.opus => pushed.timed.rate = OpusHz \/ rateAsked
    BY DEF CaptureMatchesMedia
  <2>1. Proper(pushed) /\ settings.mStreamMode # VIDEO_ONLY
    BY ChunkInvParts DEF CaptureInv, PushedFits
  <2>2. pipeline = Built /\ forcing = 0
    BY DEF CaptureInv, FieldInv, SessionInv
  <2>3. pipeline = [audio |-> TRUE, opus |-> settings.m_useOpus, format |-> Format]
    BY <2>1, <2>2 DEF Built
  <2>4. settings.m_useOpus => Format.rate = OpusHz \/ rateAsked
    BY <2>2 DEF CaptureInv, RateInv, OpusRate, Format
  <2> HIDE DEF Format
  <2> QED
    BY <2>1, <2>3, <2>4 DEF Proper
<1> QED
  BY <1>1, CaptureInvariant, PTL

(***************************************************************************)
(* The composition.                                                        *)
(***************************************************************************)

\* A step of the composition is one of each module, or leaves its variables alone.
LEMMA EachModuleSteps ==
  [AudioNext]_audioVars =>
    /\ [Next]_vars /\ [ProbeNext]_probeVars /\ [CaptureNext]_captureVars
<1> SUFFICES ASSUME [AudioNext]_audioVars
             PROVE  [Next]_vars /\ [ProbeNext]_probeVars /\ [CaptureNext]_captureVars
  OBVIOUS
<1>1. CASE AudioNext
  BY <1>1, Zenon DEF AudioNext, syncRests, probeRests, captureRests
<1>2. CASE UNCHANGED audioVars
  BY <1>2 DEF audioVars
<1> QED
  BY <1>1, <1>2

\* MCAudio adds no behaviour to the three modules: each of its behaviours is one of
\* AvSync, of OpusProbe and of AudioCapture.
THEOREM AudioIsEachModule == AudioSpec => Spec /\ ProbeSpec /\ CaptureSpec
<1>1. AudioInit => Init /\ ProbeInit /\ CaptureInit
  BY Zenon DEF AudioInit
<1> QED
  BY <1>1, EachModuleSteps, PTL DEF AudioSpec, Spec, ProbeSpec, CaptureSpec

\* Type correctness of the three modules, as MCAudio's run checks it.
THEOREM AudioTypes == AudioSpec => []AudioTypeOK
<1>1. TypeOK /\ ProbeTypeOK /\ CaptureTypeOK => AudioTypeOK
  BY Zenon DEF AudioTypeOK
<1> QED
  BY <1>1, AudioIsEachModule, TypeCorrect, ProbeTypes, CaptureTypes, PTL
=============================================================================
