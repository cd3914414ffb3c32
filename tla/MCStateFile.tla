---------------------------- MODULE MCStateFile ----------------------------
(* Small instances of StateFile for TLC. *)
EXTENDS StateFile, SequencesExt

\* Inodes are interchangeable.
Symmetry == Permutations(Inodes)

\* What is in an inode without a name, and in the memory of a process that is
\* down, is never read.
View ==
  LET Seen(texts) == [i \in Inodes |-> IF InUse(i) THEN texts[i] ELSE <<>>]
  IN  <<[p \in up |-> mem[p]], saver, dir, journal, Seen(data), Seen(flushed)>>

AnyOrder == [S \in SUBSET Bearers |-> SetToSeq(S)]

\* n1.state, n2.state and so on: the names of the README.
OwnStem == [p \in Procs |-> p]
StateExt == [p \in Procs |-> "state"]
=============================================================================
