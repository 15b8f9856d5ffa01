---------------------------- MODULE MCRtspServer ----------------------------
(* Model-checking instance of RtspServer. *)
EXTENDS RtspServer
=============================================================================
