---------------------------- MODULE MCEventStream ----------------------------
(* EventStream for TLC: symmetry of clients and of API publications. *)
EXTENDS EventStream, TLC

Symmetry == Permutations(Clients) \cup Permutations(Api)
=============================================================================
