----------------------------- MODULE MCPipeline -----------------------------
(* Small instances of Pipeline for TLC. *)
EXTENDS PipelineRefinement, TLC

\* Jobs are interchangeable: nothing orders or compares them but equality.
JobSymmetry == Permutations(Jobs)
=============================================================================
