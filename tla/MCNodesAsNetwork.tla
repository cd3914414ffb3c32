-------------------------- MODULE MCNodesAsNetwork --------------------------
(* Small instances of NodesAsNetwork for TLC. *)
EXTENDS NodesAsNetwork, TLC

\* Nodes, bearers and threads are interchangeable: Init fixes none of them.
Symmetry ==
  Permutations(Nodes) \cup Permutations(Bearers) \cup Permutations(Threads)
=============================================================================
