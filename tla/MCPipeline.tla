----------------------------- MODULE MCPipeline -----------------------------
EXTENDS PipelineRefinement, TLC
Symmetry == Permutations(Procs)
=============================================================================
