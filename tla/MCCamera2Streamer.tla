------------------------- MODULE MCCamera2Streamer -------------------------
(* Model-checking instance of Camera2Streamer. *)
EXTENDS Camera2Streamer
=============================================================================
