----------------------------- MODULE MCPipeline -----------------------------
(* The pipeline, its application and the goroutines of its two lower layers. *)
EXTENDS Pipeline
=============================================================================
