--------------------------------- MODULE MCAudio ---------------------------------
(***************************************************************************)
(* One run for the three modules about audio.  They share no variable, so  *)
(* a behaviour of this specification is one of the module that `subject`   *)
(* names, with the variables of the others at rest: the states add up, and *)
(* do not multiply.                                                        *)
(***************************************************************************)
EXTENDS AvSync, OpusProbe, AudioCapture

VARIABLE subject    \* fixed: the module whose behaviour this is

syncRests    == UNCHANGED vars
probeRests   == UNCHANGED probeVars
captureRests == UNCHANGED captureVars

\* Little is stated of capture when a join may time out, which is left out.
AudioInit ==
  /\ Init /\ ProbeInit /\ CaptureInit
  /\ subject \in {"sync", "probe", "capture"}
  /\ subject # "probe" => calm
  /\ subject # "capture" => settled
  /\ prompt

AudioNext ==
  \/ subject = "sync" /\ Next /\ probeRests /\ captureRests /\ UNCHANGED subject
  \/ subject = "probe" /\ ProbeNext /\ syncRests /\ captureRests /\ UNCHANGED subject
  \/ subject = "capture" /\ CaptureNext /\ syncRests /\ probeRests /\ UNCHANGED subject

audioVars == <<vars, probeVars, captureVars, subject>>

AudioSpec == AudioInit /\ [][AudioNext]_audioVars /\ CaptureFairness

AudioTypeOK == TypeOK /\ ProbeTypeOK /\ CaptureTypeOK
=============================================================================
