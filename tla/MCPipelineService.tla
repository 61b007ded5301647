-------------------------- MODULE MCPipelineService --------------------------
(* Instances of PipelineService for TLC: threads and units are model values  *)
(* the specification does not tell apart, so permuting them is sound for the *)
(* runs without liveness.                                                    *)
EXTENDS PipelineService, TLC

Symmetry == Permutations(Requests) \cup Permutations(Units)
=============================================================================
