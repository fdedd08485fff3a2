--------------------------- MODULE MCShotExecution ---------------------------
(* ShotExecution for TLC: symmetry of requests and of shots. *)
EXTENDS ShotExecution, TLC

Symmetry == Permutations(Handlers) \cup Permutations(Shots)
=============================================================================
