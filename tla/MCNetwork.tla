----------------------------- MODULE MCNetwork -----------------------------
(* Small instances of Network for TLC. *)
EXTENDS Network, TLC

\* Nodes and bearers are interchangeable: Init fixes none of them.
Symmetry == Permutations(Nodes) \cup Permutations(Bearers)
=============================================================================
