------------------------- MODULE MCPipelineMonitor --------------------------
(* Small instances of PipelineMonitor for TLC. *)
EXTENDS PipelineMonitor, TLC

CONSTANTS silver

OnePipeline == [r \in Runs |-> silver]
Sla         == [p \in Pipelines |-> 1]
Symmetry    == Permutations(Runs)
=============================================================================
