-------------------------- MODULE MCExecutionStop --------------------------
(* Bounds for TLC: four records let a discarded ARM's revision be used again *)
(* on top of an upgraded workspace; two crashes let the recovery die too.    *)
EXTENDS ExecutionStop, TLC

Symmetry == Permutations(Procs) \cup Permutations(Confs)

=============================================================================
