------------------------------ MODULE NodeText ------------------------------
(***************************************************************************)
(* The state file of a node as text (persistence.rs): what is written for  *)
(* a node, and what is read from a file, complete or not.                  *)
(*                                                                         *)
(* A file is a sequence of pieces, at odd places the tags and at even      *)
(* places the values of its lines, which is how it is written: writeln! on *)
(* an unbuffered file writes what is before the value and the value apart. *)
(* A line that ends after its tag is read with the empty value.  The line  *)
(* ends say nothing more.                                                  *)
(***************************************************************************)
EXTENDS Naturals, Sequences

CONSTANTS
  Procs,     \* the node processes, by the id they are started with
  Bearers,   \* the bearers
  Sorted     \* Sorted[S]: the bearers of S in alphabetical order

ASSUME SortedAssumption ==
  \A S \in SUBSET Bearers :
    /\ Sorted[S] \in Seq(S)
    /\ \A b \in S : \E k \in 1..Len(Sorted[S]) : Sorted[S][k] = b

\* A node (node.rs).
NodeState ==
  [node_id : Procs, ledger : SUBSET Bearers, spent : SUBSET Bearers]

Fresh(p) == [node_id |-> p, ledger |-> {}, spent |-> {}]

\* A place of a file no one wrote, and the value of a line that was cut: the
\* empty name.
Hole == "NUL"
Empty == "empty"

Pieces == {"NODE_ID", "LEDGER", "SPENT", Empty, Hole} \cup Procs \cup Bearers

Lines(tag, S) ==
  [i \in 1..2 * Len(Sorted[S]) |->
     IF i % 2 = 1 THEN tag ELSE Sorted[S][i \div 2]]

Text(node) ==
  <<"NODE_ID", node.node_id>> \o Lines("LEDGER", node.ledger)
                              \o Lines("SPENT", node.spent)

\* The lines of a text, the last one perhaps without a value.
LinesOf(text) == 1..(Len(text) + 1) \div 2

Tag(text, k) == text[2 * k - 1]

Value(text, k) == IF 2 * k <= Len(text) THEN text[2 * k] ELSE Empty

Values(text, tag) ==
  {Value(text, k) : k \in {j \in LinesOf(text) : Tag(text, j) = tag}}

\* The text has an id and no line of another kind.
Readable(text) ==
  /\ Values(text, "NODE_ID") # {}
  /\ \A k \in LinesOf(text) : Tag(text, k) \in {"NODE_ID", "LEDGER", "SPENT"}

\* Stands for the text of a file that is not there.
NoFile == <<"no file">>

\* How the process p starts when its state file holds this text: without a
\* file, or with one that cannot be read, it starts fresh.
Loaded(p, text) ==
  IF Readable(text)
    THEN [node_id |-> CHOOSE id \in Values(text, "NODE_ID") : TRUE,
          ledger |-> Values(text, "LEDGER"),
          spent |-> Values(text, "SPENT")]
    ELSE Fresh(p)

\* What a command or a peer message does to a node, as far as the file goes.
Changes(node) ==
  {[node EXCEPT !.ledger = @ \cup {b}] : b \in Bearers \ node.spent}
  \cup {[node EXCEPT !.ledger = @ \ {b}, !.spent = @ \cup {b}] :
          b \in node.ledger}
  \cup {[node EXCEPT !.ledger = @ \ {b}] : b \in node.ledger}
=============================================================================
