---------------------------- MODULE MCNodeLocks ----------------------------
(* Small instances of NodeLocks for TLC. *)
EXTENDS NodeLocks, TLC

\* Nodes that do not hang, and admin connections, are interchangeable.
Symmetry == Permutations(Nodes \ Hung) \cup Permutations(Admins)
=============================================================================
