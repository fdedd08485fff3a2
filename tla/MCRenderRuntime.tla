--------------------------- MODULE MCRenderRuntime ---------------------------
(* RenderRuntime for TLC: symmetry of the interchangeable processes. *)
EXTENDS RenderRuntime, TLC

Symmetry == Permutations(Handlers) \cup Permutations(Workers)
=============================================================================
