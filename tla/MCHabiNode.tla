----------------------------- MODULE MCHabiNode -----------------------------
(* Small instances of HabiNode for TLC. *)
EXTENDS HabiNode, TLC

\* Nodes, bearers and threads are interchangeable: Init fixes none of them.
Symmetry ==
  Permutations(Nodes) \cup Permutations(Bearers) \cup Permutations(Threads)
=============================================================================
