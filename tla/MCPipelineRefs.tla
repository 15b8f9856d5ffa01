---------------------------- MODULE MCPipelineRefs ----------------------------
(* PipelineRefs by itself, for the liveness that Control does not check. *)
EXTENDS PipelineRefs
=============================================================================
