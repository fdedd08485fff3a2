----------------------------- MODULE MCWorkflow -----------------------------
(* WorkflowEngine for TLC: symmetry of the interchangeable processes. *)
EXTENDS WorkflowInvariant, TLC

Symmetry == Permutations(Handlers) \cup Permutations(Workers)
=============================================================================
