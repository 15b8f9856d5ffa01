--------------------------- MODULE MCKeyframeGate ---------------------------
(* Model-checking instance of KeyframeGate. *)
EXTENDS KeyframeGate
=============================================================================
