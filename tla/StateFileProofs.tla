--------------------------- MODULE StateFileProofs ---------------------------
(***************************************************************************)
(* The state files of StateFile implement the atomic store of StateStore,  *)
(* for any processes, bearers and inodes, provided that no two file names  *)
(* fall together (DistinctTemps).                                          *)
(*                                                                         *)
(* The argument: what a state file names, in the directory or in the one   *)
(* on the device, is an inode nobody writes and that is flushed; what a    *)
(* save has written is the beginning of the text of the node, and after    *)
(* the sync all of it.  So the rename is the one step in which a file      *)
(* changes, and a power loss brings back complete texts only.              *)
(***************************************************************************)
EXTENDS StateFile, SequenceTheorems, TLAPS

-----------------------------------------------------------------------------
(* Texts *)

LEMMA LinesType ==
  ASSUME NEW tag \in Pieces, NEW S \in SUBSET Bearers
  PROVE  Lines(tag, S) \in Seq(Pieces)
<1> DEFINE sorted == Sorted[S]
<1>1. sorted \in Seq(Pieces) /\ Len(sorted) \in Nat
  BY SortedAssumption DEF Pieces
<1>2. ASSUME NEW i \in 1..2 * Len(sorted), i % 2 # 1
      PROVE  i \div 2 \in 1..Len(sorted)
  BY <1>1, <1>2
<1> HIDE DEF sorted
<1>3. [i \in 1..2 * Len(sorted) |->
         IF i % 2 = 1 THEN tag ELSE sorted[i \div 2]]
      \in [1..2 * Len(sorted) -> Pieces]
  BY <1>1, <1>2
<1>4. 2 * Len(sorted) \in Nat
  BY <1>1
<1> QED  BY <1>3, <1>4 DEF Lines, sorted

\* L is h pairs of the tag and an element of S, and has every element.
Paired(L, h, tag, S) ==
  /\ Len(L) = 2 * h
  /\ \A k \in 1..h : L[2 * k - 1] = tag /\ L[2 * k] \in S
  /\ \A x \in S : \E k \in 1..h : L[2 * k] = x

LEMMA LinesAre ==
  ASSUME NEW tag \in Pieces, NEW S \in SUBSET Bearers
  PROVE  \E h \in Nat : Paired(Lines(tag, S), h, tag, S)
<1> DEFINE sorted == Sorted[S]
           n == Len(sorted)
           L == Lines(tag, S)
<1>1. /\ sorted \in Seq(S) /\ n \in Nat
      /\ \A x \in S : \E k \in 1..n : sorted[k] = x
  BY SortedAssumption
<1> HIDE DEF sorted
<1>2. /\ L = [i \in 1..2 * n |-> IF i % 2 = 1 THEN tag ELSE sorted[i \div 2]]
      /\ 2 * n \in Nat
  BY <1>1 DEF Lines, sorted
<1>3. Len(L) = 2 * n
  BY <1>1, <1>2
<1> HIDE DEF L
<1>4. ASSUME NEW k \in 1..n
      PROVE  L[2 * k - 1] = tag /\ L[2 * k] = sorted[k] /\ sorted[k] \in S
  <2>1. 2 * k - 1 \in 1..2 * n /\ (2 * k - 1) % 2 = 1
    BY <1>1
  <2>2. 2 * k \in 1..2 * n /\ (2 * k) % 2 = 0 /\ (2 * k) \div 2 = k
    BY <1>1
  <2> QED  BY <1>1, <1>2, <2>1, <2>2
<1>5. Paired(L, n, tag, S)
  BY <1>1, <1>3, <1>4 DEF Paired
<1> QED  BY <1>1, <1>5 DEF L

\* The parts of a node are finite sets of pieces.
LEMMA NodeParts ==
  ASSUME NEW node \in NodeState
  PROVE  /\ node.ledger \in SUBSET Bearers /\ node.spent \in SUBSET Bearers
         /\ node.node_id \in Pieces
BY DEF NodeState, Pieces

\* The text of a node is a sequence of pieces.
LEMMA TextType ==
  ASSUME NEW node \in NodeState
  PROVE  Text(node) \in Seq(Pieces)
<1>3. Lines("LEDGER", node.ledger) \in Seq(Pieces)
  BY NodeParts, LinesType DEF Pieces
<1>4. Lines("SPENT", node.spent) \in Seq(Pieces)
  BY NodeParts, LinesType DEF Pieces
<1>5. <<"NODE_ID", node.node_id>> \in Seq(Pieces)
  BY NodeParts DEF Pieces
<1> QED  BY <1>3, <1>4, <1>5 DEF Text

\* T is the id, then A, then S.
Layout(T, id, A, S) ==
  /\ T \in Seq(Pieces)
  /\ Len(T) = 2 + Len(A) + Len(S)
  /\ T[1] = "NODE_ID" /\ T[2] = id
  /\ \A i \in 1..Len(A) : T[2 + i] = A[i]
  /\ \A i \in 1..Len(S) : T[2 + Len(A) + i] = S[i]

LEMMA ThreeParts ==
  ASSUME NEW id \in Pieces, NEW A \in Seq(Pieces), NEW S \in Seq(Pieces)
  PROVE  Layout((<<"NODE_ID", id>> \o A) \o S, id, A, S)
<1> DEFINE H == <<"NODE_ID", id>>
           T == (H \o A) \o S
<1>h. H \in Seq(Pieces) /\ Len(H) = 2 /\ H[1] = "NODE_ID" /\ H[2] = id
  BY DEF Pieces
<1> HIDE DEF H
<1>a. /\ H \o A \in Seq(Pieces)
      /\ Len(H \o A) = Len(H) + Len(A)
      /\ \A i \in 1..Len(H) + Len(A) :
           (H \o A)[i] = IF i <= Len(H) THEN H[i] ELSE A[i - Len(H)]
  BY <1>h, ConcatProperties, Zenon
<1>1. /\ H \o A \in Seq(Pieces)
      /\ Len(H \o A) = 2 + Len(A)
      /\ \A i \in 1..2 + Len(A) : (H \o A)[i] = IF i <= 2 THEN H[i] ELSE A[i - 2]
  BY <1>a, <1>h, Zenon
<1> DEFINE B == H \o A
<1> HIDE DEF B
<1>2. /\ B \in Seq(Pieces)
      /\ Len(B) = 2 + Len(A)
      /\ \A i \in 1..2 + Len(A) : B[i] = IF i <= 2 THEN H[i] ELSE A[i - 2]
      /\ T = B \o S
      /\ Len(A) \in Nat /\ Len(S) \in Nat
  BY <1>1 DEF B
<1>b. /\ B \o S \in Seq(Pieces)
      /\ Len(B \o S) = Len(B) + Len(S)
      /\ \A i \in 1..Len(B) + Len(S) :
           (B \o S)[i] = IF i <= Len(B) THEN B[i] ELSE S[i - Len(B)]
  BY <1>2, ConcatProperties, Zenon
<1> HIDE DEF T
<1>3. /\ T \in Seq(Pieces)
      /\ Len(T) = Len(B) + Len(S)
      /\ \A i \in 1..Len(B) + Len(S) :
           T[i] = IF i <= Len(B) THEN B[i] ELSE S[i - Len(B)]
  BY <1>2, <1>b
<1>4. ASSUME NEW i \in 1..Len(A) PROVE T[2 + i] = A[i]
  <2>1. 2 + i \in 1..Len(B) + Len(S) /\ 2 + i <= Len(B) /\ ~(2 + i <= 2)
        /\ (2 + i) - 2 = i /\ 2 + i \in 1..2 + Len(A)
    BY <1>2
  <2> QED  BY <2>1, <1>2, <1>3
<1>5. ASSUME NEW i \in 1..Len(S) PROVE T[2 + Len(A) + i] = S[i]
  <2> DEFINE k == 2 + Len(A) + i
  <2>1. k \in 1..Len(B) + Len(S) /\ ~(k <= Len(B)) /\ k - Len(B) = i
    BY <1>2
  <2> QED  BY <2>1, <1>3
<1>6. T[1] = H[1] /\ T[2] = H[2]
  <2>1. \A i \in {1, 2} : /\ i \in 1..Len(B) + Len(S) /\ i <= Len(B)
                          /\ i \in 1..2 + Len(A) /\ i <= 2
    BY <1>2
  <2> QED  BY <2>1, <1>2, <1>3
<1>7. Layout(T, id, A, S)
  BY <1>2, <1>3, <1>4, <1>5, <1>6, <1>h DEF Layout
<1> QED  BY <1>7 DEF T, H

\* The values of a text made of an id, the a pairs of X and the s pairs of Y.
LEMMA ValuesOfParts ==
  ASSUME NEW id, NEW X, NEW Y, NEW A \in Seq(Pieces), NEW S \in Seq(Pieces),
         NEW a \in Nat, NEW s \in Nat,
         Paired(A, a, "LEDGER", X), Paired(S, s, "SPENT", Y),
         NEW T \in Seq(Pieces), Layout(T, id, A, S)
  PROVE  /\ Readable(T)
         /\ Values(T, "NODE_ID") = {id}
         /\ Values(T, "LEDGER") = X
         /\ Values(T, "SPENT") = Y
<1> DEFINE n == 1 + a + s
<1> USE DEF Layout
<1>1. Len(A) = 2 * a /\ Len(S) = 2 * s /\ Len(T) = 2 * n /\ n \in Nat
  BY DEF Paired
<1>2. LinesOf(T) = 1..n
  BY <1>1 DEF LinesOf
<1>3. ASSUME NEW k \in 1..n
      PROVE  Tag(T, k) = T[2 * k - 1] /\ Value(T, k) = T[2 * k]
  BY <1>1 DEF Tag, Value
<1>4. Tag(T, 1) = "NODE_ID" /\ Value(T, 1) = id /\ 1 \in 1..n
  BY <1>1, <1>3
<1>5. ASSUME NEW k \in 1..a
      PROVE  /\ 1 + k \in 1..n
             /\ Tag(T, 1 + k) = "LEDGER"
             /\ Value(T, 1 + k) = A[2 * k]
             /\ A[2 * k] \in X
  <2>1. 1 + k \in 1..n /\ 2 * k - 1 \in 1..Len(A) /\ 2 * k \in 1..Len(A)
    BY <1>1
  <2>2. 2 + (2 * k - 1) = 2 * (1 + k) - 1 /\ 2 + 2 * k = 2 * (1 + k)
    OBVIOUS
  <2>3. T[2 + (2 * k - 1)] = A[2 * k - 1] /\ T[2 + 2 * k] = A[2 * k]
    BY <2>1
  <2>4. A[2 * k - 1] = "LEDGER" /\ A[2 * k] \in X
    BY DEF Paired
  <2> HIDE DEF n
  <2> QED  BY <1>3, <2>1, <2>2, <2>3, <2>4
<1>6. ASSUME NEW k \in 1..s
      PROVE  /\ 1 + a + k \in 1..n
             /\ Tag(T, 1 + a + k) = "SPENT"
             /\ Value(T, 1 + a + k) = S[2 * k]
             /\ S[2 * k] \in Y
  <2>1. 1 + a + k \in 1..n /\ 2 * k - 1 \in 1..Len(S) /\ 2 * k \in 1..Len(S)
    BY <1>1
  <2>2. /\ 2 + Len(A) + (2 * k - 1) = 2 * (1 + a + k) - 1
        /\ 2 + Len(A) + 2 * k = 2 * (1 + a + k)
    BY <1>1
  <2>3. /\ T[2 + Len(A) + (2 * k - 1)] = S[2 * k - 1]
        /\ T[2 + Len(A) + 2 * k] = S[2 * k]
    BY <2>1
  <2>4. S[2 * k - 1] = "SPENT" /\ S[2 * k] \in Y
    BY DEF Paired
  <2> HIDE DEF n
  <2> QED  BY <1>3, <2>1, <2>2, <2>3, <2>4
<1>7. ASSUME NEW k \in 1..n
      PROVE  \/ k = 1
             \/ \E j \in 1..a : k = 1 + j
             \/ \E j \in 1..s : k = 1 + a + j
  <2>1. CASE k > 1 /\ k <= 1 + a
    <3>1. k - 1 \in 1..a /\ k = 1 + (k - 1)
      BY <2>1
    <3> QED  BY <3>1
  <2>2. CASE k > 1 + a
    <3>1. k - 1 - a \in 1..s /\ k = 1 + a + (k - 1 - a)
      BY <2>2
    <3> QED  BY <3>1
  <2> QED  BY <2>1, <2>2
<1> HIDE DEF n, Layout
<1>8. ASSUME NEW k \in 1..n
      PROVE  \/ Tag(T, k) = "NODE_ID" /\ Value(T, k) = id
             \/ Tag(T, k) = "LEDGER" /\ Value(T, k) \in X
             \/ Tag(T, k) = "SPENT" /\ Value(T, k) \in Y
  <2>1. CASE k = 1  BY <2>1, <1>4
  <2>2. CASE \E j \in 1..a : k = 1 + j  BY <2>2, <1>5
  <2>3. CASE \E j \in 1..s : k = 1 + a + j  BY <2>3, <1>6
  <2> QED  BY <2>1, <2>2, <2>3, <1>7
<1>9. Values(T, "NODE_ID") = {id}
  BY <1>2, <1>4, <1>8 DEF Values
<1>10. Values(T, "LEDGER") = X
  <2>1. ASSUME NEW x \in X PROVE x \in Values(T, "LEDGER")
    <3>1. PICK k \in 1..a : A[2 * k] = x
      BY DEF Paired
    <3> QED  BY <3>1, <1>2, <1>5 DEF Values
  <2> QED  BY <2>1, <1>2, <1>8 DEF Values
<1>11. Values(T, "SPENT") = Y
  <2>1. ASSUME NEW x \in Y PROVE x \in Values(T, "SPENT")
    <3>1. PICK k \in 1..s : S[2 * k] = x
      BY DEF Paired
    <3> QED  BY <3>1, <1>2, <1>6 DEF Values
  <2> QED  BY <2>1, <1>2, <1>8 DEF Values
<1> QED  BY <1>2, <1>8, <1>9, <1>10, <1>11 DEF Readable

\* What is read from the text of a node is the node: it has every name of both
\* sets, whatever the order they are written in, and no other.
THEOREM RoundTrip ==
  ASSUME NEW node \in NodeState, NEW p
  PROVE  Readable(Text(node)) /\ Loaded(p, Text(node)) = node
<1> DEFINE A == Lines("LEDGER", node.ledger)
           S == Lines("SPENT", node.spent)
           T == Text(node)
<1>0. "LEDGER" \in Pieces /\ "SPENT" \in Pieces /\ node.node_id \in Pieces
  BY NodeParts DEF Pieces
<1>1. A \in Seq(Pieces) /\ S \in Seq(Pieces)
  BY <1>0, NodeParts, LinesType
<1>2. PICK a \in Nat : Paired(A, a, "LEDGER", node.ledger)
  BY <1>0, NodeParts, LinesAre
<1>3. PICK s \in Nat : Paired(S, s, "SPENT", node.spent)
  BY <1>0, NodeParts, LinesAre
<1>4. Layout(T, node.node_id, A, S)
  BY <1>0, <1>1, ThreeParts DEF Text
<1> HIDE DEF A, S, T
<1> DEFINE id == node.node_id
           X == node.ledger
           Y == node.spent
<1>b. /\ Paired(A, a, "LEDGER", X)
      /\ Paired(S, s, "SPENT", Y)
      /\ Layout(T, id, A, S)
      /\ T \in Seq(Pieces)
  BY <1>2, <1>3, <1>4 DEF Layout
<1> HIDE DEF id, X, Y
<1>c. /\ Readable(T)
      /\ Values(T, "NODE_ID") = {id}
      /\ Values(T, "LEDGER") = X
      /\ Values(T, "SPENT") = Y
  BY <1>1, <1>b, ValuesOfParts
<1>5. /\ Readable(T)
      /\ Values(T, "NODE_ID") = {node.node_id}
      /\ Values(T, "LEDGER") = node.ledger
      /\ Values(T, "SPENT") = node.spent
  BY <1>c DEF id, X, Y
<1>6. node = [node_id |-> node.node_id, ledger |-> node.ledger,
              spent |-> node.spent]
  BY DEF NodeState
<1> QED  BY <1>5, <1>6 DEF Loaded, T

-----------------------------------------------------------------------------
(* Types *)

\* What a change of a node leads to is a node of the same process.
LEMMA ChangesType ==
  ASSUME NEW node \in NodeState, NEW new \in Changes(node)
  PROVE  new \in NodeState /\ new.node_id = node.node_id
<1>1. ASSUME NEW b \in Bearers, new = [node EXCEPT !.ledger = @ \cup {b}]
      PROVE  new \in NodeState /\ new.node_id = node.node_id
  BY <1>1 DEF NodeState
<1>2. ASSUME NEW b \in node.ledger, new = [node EXCEPT !.ledger = @ \ {b}]
      PROVE  new \in NodeState /\ new.node_id = node.node_id
  BY <1>2 DEF NodeState
<1>3. ASSUME NEW b \in node.ledger,
             new = [node EXCEPT !.ledger = @ \ {b}, !.spent = @ \cup {b}]
      PROVE  new \in NodeState /\ new.node_id = node.node_id
  BY <1>3 DEF NodeState
<1> QED  BY <1>1, <1>2, <1>3 DEF Changes

\* Writing at the end of a text makes it one piece longer.
LEMMA WriteType ==
  ASSUME NEW text \in Seq(Pieces), NEW i \in Nat \ {0}, NEW piece \in Pieces
  PROVE  /\ WrittenAt(text, i, piece) \in Seq(Pieces)
         /\ i = Len(text) + 1 =>
              WrittenAt(text, i, piece) =
                [j \in 1..i |-> IF j = i THEN piece ELSE text[j]]
<1> DEFINE n == IF i > Len(text) THEN i ELSE Len(text)
<1>1. n \in Nat /\ Len(text) \in Nat
  OBVIOUS
<1>2. ASSUME NEW j \in 1..n
      PROVE  (IF j = i THEN piece ELSE IF j <= Len(text) THEN text[j] ELSE Hole)
               \in Pieces
  <2>1. j <= Len(text) => text[j] \in Pieces
    BY <1>1
  <2> QED  BY <2>1 DEF Pieces
<1>3. WrittenAt(text, i, piece) =
        [j \in 1..n |-> IF j = i THEN piece
                        ELSE IF j <= Len(text) THEN text[j] ELSE Hole]
  BY DEF WrittenAt
<1>4. WrittenAt(text, i, piece) \in [1..n -> Pieces]
  BY <1>2, <1>3
<1>5. ASSUME i = Len(text) + 1
      PROVE  WrittenAt(text, i, piece) =
               [j \in 1..i |-> IF j = i THEN piece ELSE text[j]]
  <2>1. n = i
    BY <1>1, <1>5
  <2>2. \A j \in 1..i : j = i \/ j <= Len(text)
    BY <1>1, <1>5
  <2> QED  BY <1>3, <2>1, <2>2
<1> QED  BY <1>1, <1>4, <1>5

-----------------------------------------------------------------------------
(* The invariant *)

\* No two names have one inode.
Injective(d) ==
  \A m, n \in Names : d[m] = d[n] /\ d[m] # NoValue => m = n

\* An inode that holds the whole text of a node of p, flushed, and is not
\* written to.
Finished(i, p) ==
  /\ flushed[i] = data[i]
  /\ \E node \in NodeState : node.node_id = p /\ data[i] = Text(node)
  /\ \A q \in Procs : dir[TmpPath(q)] # i

\* What a save has written so far.
SaverOK(p) ==
  Saving(p) =>
    /\ saver[p].fd = dir[TmpPath(p)]
    /\ Len(data[saver[p].fd]) = saver[p].pos
    /\ \A i \in 1..saver[p].pos : data[saver[p].fd][i] = Text(mem[p])[i]
    /\ saver[p].pc = "rename" =>
         /\ saver[p].pos = Len(Text(mem[p]))
         /\ flushed[saver[p].fd] = data[saver[p].fd]

FileInv ==
  /\ TypeOK
  /\ Injective(dir) /\ Injective(journal)
  /\ \A p \in Procs :
       /\ mem[p].node_id = p
       /\ dir[StatePath(p)] # NoValue => Finished(dir[StatePath(p)], p)
       /\ journal[StatePath(p)] # NoValue => Finished(journal[StatePath(p)], p)
       /\ SaverOK(p)

LEMMA NamesType ==
  \A p \in Procs : StatePath(p) \in Names /\ TmpPath(p) \in Names
BY DEF Names

\* What is started from a finished file is a node of the process.
LEMMA LoadedType ==
  ASSUME FileInv, NEW p \in Procs
  PROVE  Loaded(p, FileOf(p)) \in NodeState /\ Loaded(p, FileOf(p)).node_id = p
<1>1. CASE dir[StatePath(p)] = NoValue
  <2>1. FileOf(p) = NoFile
    BY <1>1 DEF FileOf, TextAt
  <2>2. 1 \in LinesOf(NoFile)
    <3>1. Len(NoFile) = 1
      BY DEF NoFile
    <3>2. (1 + 1) \div 2 = 1
      OBVIOUS
    <3> QED  BY <3>1, <3>2 DEF LinesOf
  <2>3. Tag(NoFile, 1) = "no file"
    BY DEF Tag, NoFile
  <2>a. ~Readable(NoFile)
    BY <2>2, <2>3 DEF Readable
  <2> QED  BY <2>1, <2>a DEF Loaded, Fresh, NodeState
<1>2. CASE dir[StatePath(p)] # NoValue
  <2>1. PICK node \in NodeState :
          node.node_id = p /\ data[dir[StatePath(p)]] = Text(node)
    BY <1>2 DEF FileInv, Finished
  <2>2. FileOf(p) = Text(node)
    BY <1>2, <2>1 DEF FileOf, TextAt
  <2> QED  BY <2>1, <2>2, RoundTrip
<1> QED  BY <1>1, <1>2

LEMMA FileInit == Init => FileInv
<1> SUFFICES ASSUME Init PROVE FileInv
  OBVIOUS
<1>1. <<>> \in Seq(Pieces)
  OBVIOUS
<1>2. \A p \in Procs : Fresh(p) \in NodeState /\ Fresh(p).node_id = p
  BY DEF Fresh, NodeState
<1>3. TypeOK
  BY <1>1, <1>2 DEF Init, TypeOK, Saving, Idle
<1> QED
  BY <1>2, <1>3, NamesType
  DEF Init, FileInv, Injective, SaverOK, Saving, Idle

-----------------------------------------------------------------------------
(* Every step keeps the invariant *)

LEMMA FileStep == DistinctTemps /\ FileInv /\ [Next]_vars => FileInv'
<1> SUFFICES ASSUME DistinctTemps, FileInv, [Next]_vars PROVE FileInv'
  OBVIOUS
<1>t. /\ TypeOK
      /\ \A p \in Procs : StatePath(p) \in Names /\ TmpPath(p) \in Names
      /\ \A p \in Procs : mem[p] \in NodeState /\ Text(mem[p]) \in Seq(Pieces)
  BY NamesType, TextType DEF FileInv, TypeOK
<1>1. ASSUME NEW p \in Procs, Change(p) PROVE FileInv'
  <2>1. PICK node \in Changes(mem[p]) : mem' = [mem EXCEPT ![p] = node]
    BY <1>1 DEF Change
  <2>2. node \in NodeState /\ node.node_id = mem[p].node_id
    BY <2>1, <1>t, ChangesType
  <2>3. /\ UNCHANGED <<up, saver, dir, journal, data, flushed>>
        /\ ~Saving(p)
    BY <1>1 DEF Change
  <2>4. TypeOK'
    BY <2>1, <2>2, <2>3 DEF TypeOK, Saving, FileInv
  <2>5. \A q \in Procs : mem'[q].node_id = q /\ SaverOK(q)'
    BY <2>1, <2>2, <2>3, <1>t DEF FileInv, SaverOK, Saving, TypeOK
  <2> QED  BY <2>3, <2>4, <2>5 DEF FileInv, Injective, Finished
<1>2. ASSUME NEW p \in Procs, Create(p) PROVE FileInv'
  <2>1. PICK i \in Inodes :
          /\ \/ dir[TmpPath(p)] = i /\ UNCHANGED flushed
             \/ /\ dir[TmpPath(p)] = NoValue
                /\ ~InUse(i)
                /\ flushed' = [flushed EXCEPT ![i] = <<>>]
          /\ dir' = [dir EXCEPT ![TmpPath(p)] = i]
          /\ data' = [data EXCEPT ![i] = <<>>]
          /\ saver' = [saver EXCEPT ![p] = [pc |-> "write", fd |-> i, pos |-> 0]]
    BY <1>2 DEF Create
  <2>2. p \in up /\ ~Saving(p) /\ UNCHANGED <<mem, up, journal>>
    BY <1>2 DEF Create
  <2>3. i # NoValue /\ <<>> \in Seq(Pieces) /\ Len(<<>>) = 0
    BY NoValueAssumption
  <2>4. TypeOK'
    <3>1. /\ data' \in [Inodes -> Seq(Pieces)]
          /\ flushed' \in [Inodes -> Seq(Pieces)]
          /\ dir' \in [Names -> Inodes \cup {NoValue}]
      BY <2>1, <2>3, <1>t DEF TypeOK
    <3>2. saver' \in [Procs -> [pc : {"idle", "write", "rename"},
                               fd : Inodes \cup {NoValue}, pos : Nat]]
      BY <2>1, <1>t DEF TypeOK
    <3>3. Len(Text(mem[p])) >= 0
      BY <1>t
    <3>4. ASSUME NEW q \in Procs
          PROVE  IF Saving(q)'
                   THEN /\ q \in up
                        /\ saver'[q].fd \in Inodes
                        /\ saver'[q].pos <= Len(Text(mem[q]))
                   ELSE saver'[q] = Idle
      <4>1. CASE q = p
        BY <4>1, <3>3, <2>1, <2>2, <1>t DEF TypeOK, Saving
      <4>2. CASE q # p
        BY <4>2, <2>1, <1>t DEF TypeOK, Saving
      <4> QED  BY <4>1, <4>2
    <3> QED  BY <2>2, <3>1, <3>2, <3>4, <1>t DEF TypeOK, Saving
  <2>5. ASSUME NEW n \in Names, n # TmpPath(p)
        PROVE  dir[n] # i /\ dir'[n] = dir[n]
    <3>1. CASE dir[TmpPath(p)] = i
      BY <3>1, <2>1, <2>3, <2>5, <1>t DEF FileInv, Injective, TypeOK
    <3>2. CASE ~InUse(i)
      BY <3>2, <2>1, <2>5, <1>t DEF InUse, TypeOK
    <3> QED  BY <3>1, <3>2, <2>1
  <2>6. \A q \in Procs : journal[StatePath(q)] # i
    BY <2>1, <2>3, <1>t DEF FileInv, Finished, InUse
  <2>7. Injective(dir')
    BY <2>1, <2>5, <1>t DEF FileInv, Injective, TypeOK
  <2>8. \A j \in Inodes : j # i => data'[j] = data[j] /\ flushed'[j] = flushed[j]
    BY <2>1, <1>t DEF TypeOK
  <2>9. ASSUME NEW q \in Procs PROVE SaverOK(q)'
    <3>1. CASE q = p
      BY <3>1, <2>1, <2>3, <1>t DEF SaverOK, Saving, TypeOK
    <3>2. CASE q # p
      <4>1. saver'[q] = saver[q] /\ dir'[TmpPath(q)] = dir[TmpPath(q)]
        BY <3>2, <2>1, <2>5, <1>t DEF TypeOK, DistinctTemps
      <4>2. Saving(q) => saver[q].fd # i /\ saver[q].fd \in Inodes
        BY <3>2, <2>5, <1>t DEF FileInv, SaverOK, DistinctTemps, TypeOK
      <4> QED  BY <4>1, <4>2, <2>2, <2>8 DEF FileInv, SaverOK, Saving
    <3> QED  BY <3>1, <3>2
  <2>10. ASSUME NEW j \in Inodes, NEW q \in Procs, j # i, Finished(j, q)
         PROVE  Finished(j, q)'
    BY <2>1, <2>8, <2>10, <1>t DEF Finished, TypeOK
  <2>11. ASSUME NEW q \in Procs
         PROVE  /\ dir'[StatePath(q)] # NoValue => Finished(dir[StatePath(q)], q)'
                /\ journal'[StatePath(q)] # NoValue =>
                     Finished(journal[StatePath(q)], q)'
    <3>1. dir'[StatePath(q)] = dir[StatePath(q)] /\ dir[StatePath(q)] # i
      BY <2>5, <1>t DEF DistinctTemps
    <3> QED  BY <3>1, <2>2, <2>6, <2>10, <1>t DEF FileInv, TypeOK
  <2> QED  BY <2>2, <2>4, <2>7, <2>9, <2>11 DEF FileInv, Injective
<1>3. ASSUME NEW p \in Procs, Write(p) PROVE FileInv'
  <2> DEFINE i == saver[p].pos + 1
             f == saver[p].fd
             T == Text(mem[p])
             new == WrittenAt(data[f], i, T[i])
  <2>1. /\ p \in up /\ saver[p].pc = "write" /\ i <= Len(T)
        /\ data' = [data EXCEPT ![f] = new]
        /\ saver' = [saver EXCEPT ![p].pos = i]
        /\ UNCHANGED <<mem, up, dir, journal, flushed>>
    BY <1>3 DEF Write
  <2>2. /\ f \in Inodes /\ f = dir[TmpPath(p)]
        /\ data[f] \in Seq(Pieces) /\ Len(data[f]) = saver[p].pos
        /\ \A j \in 1..saver[p].pos : data[f][j] = T[j]
        /\ i \in Nat \ {0} /\ i \in 1..Len(T) /\ T[i] \in Pieces
        /\ f # NoValue
    BY <2>1, <1>t, NoValueAssumption DEF FileInv, SaverOK, Saving, TypeOK
  <2>3. new \in Seq(Pieces) /\ Len(new) = i /\ \A j \in 1..i : new[j] = T[j]
    <3>1. i = Len(data[f]) + 1
      BY <2>2
    <3>2. /\ new \in Seq(Pieces)
          /\ new = [j \in 1..i |-> IF j = i THEN T[i] ELSE data[f][j]]
      BY <2>2, <3>1, WriteType
    <3> HIDE DEF new, T, f
    <3>3. \A j \in 1..i : j = i \/ j \in 1..saver[p].pos
      BY <2>2
    <3>4. Len(new) = i
      BY <2>2, <3>2
    <3> QED  BY <2>2, <3>2, <3>3, <3>4
  <2> HIDE DEF new, f, T, i
  <2>4. TypeOK'
    <3>1. data' \in [Inodes -> Seq(Pieces)]
      BY <2>1, <2>2, <2>3, <1>t DEF TypeOK
    <3>2. saver' \in [Procs -> [pc : {"idle", "write", "rename"},
                               fd : Inodes \cup {NoValue}, pos : Nat]]
      BY <2>1, <2>2, <1>t DEF TypeOK
    <3>3. ASSUME NEW q \in Procs
          PROVE  IF Saving(q)'
                   THEN /\ q \in up
                        /\ saver'[q].fd \in Inodes
                        /\ saver'[q].pos <= Len(Text(mem[q]))
                   ELSE saver'[q] = Idle
      <4>1. CASE q = p
        BY <4>1, <2>1, <2>2, <1>t DEF TypeOK, Saving, T, f
      <4>2. CASE q # p
        BY <4>2, <2>1, <1>t DEF TypeOK, Saving
      <4> QED  BY <4>1, <4>2
    <3> QED  BY <2>1, <3>1, <3>2, <3>3, <1>t DEF TypeOK, Saving
  <2>5. \A j \in Inodes : j # f => data'[j] = data[j]
    BY <2>1, <1>t DEF TypeOK
  <2>6. ASSUME NEW q \in Procs PROVE SaverOK(q)'
    <3>1. CASE q = p
      BY <3>1, <2>1, <2>2, <2>3, <1>t DEF SaverOK, Saving, TypeOK, f, T
    <3>2. CASE q # p
      <4>1. saver'[q] = saver[q]
        BY <3>2, <2>1, <1>t DEF TypeOK
      <4>2. Saving(q) => saver[q].fd # f /\ saver[q].fd \in Inodes
        BY <3>2, <2>2, <1>t DEF FileInv, SaverOK, Injective, DistinctTemps, TypeOK
      <4> QED  BY <4>1, <4>2, <2>1, <2>5 DEF FileInv, SaverOK, Saving
    <3> QED  BY <3>1, <3>2
  <2>7. ASSUME NEW q \in Procs
        PROVE  /\ dir[StatePath(q)] # NoValue => Finished(dir[StatePath(q)], q)'
               /\ journal[StatePath(q)] # NoValue =>
                    Finished(journal[StatePath(q)], q)'
    BY <2>1, <2>2, <2>5, <1>t DEF FileInv, Finished, TypeOK
  <2> QED  BY <2>1, <2>4, <2>6, <2>7 DEF FileInv, Injective
<1>4. ASSUME NEW p \in Procs, SyncAll(p) PROVE FileInv'
  <2> DEFINE f == saver[p].fd
  <2>1. /\ p \in up /\ saver[p].pc = "write" /\ Saving(p)
        /\ saver[p].pos = Len(Text(mem[p]))
        /\ flushed' = [flushed EXCEPT ![f] = data[f]]
        /\ saver' = [saver EXCEPT ![p].pc = "rename"]
        /\ UNCHANGED <<mem, up, dir, journal, data>>
    BY <1>4 DEF SyncAll, WrittenAll, Saving
  <2>2. f \in Inodes
    BY <2>1, <1>t DEF TypeOK
  <2>3. \A j \in Inodes : flushed'[j] = IF j = f THEN data[f] ELSE flushed[j]
    BY <2>1, <1>t DEF TypeOK
  <2>4. TypeOK'
    BY <2>1, <2>2, <1>t DEF TypeOK, Saving
  <2>5. ASSUME NEW q \in Procs PROVE SaverOK(q)'
    <3>1. CASE q = p
      BY <3>1, <2>1, <2>2, <2>3, <1>t DEF FileInv, SaverOK, Saving, TypeOK
    <3>2. CASE q # p
      <4>1. saver'[q] = saver[q]
        BY <3>2, <2>1, <1>t DEF TypeOK
      <4>2. Saving(q) => saver[q].fd \in Inodes
        BY <1>t DEF TypeOK
      <4> QED  BY <4>1, <4>2, <2>1, <2>3 DEF FileInv, SaverOK, Saving
    <3> QED  BY <3>1, <3>2
  <2>6. ASSUME NEW q \in Procs
        PROVE  /\ dir[StatePath(q)] # NoValue => Finished(dir[StatePath(q)], q)'
               /\ journal[StatePath(q)] # NoValue =>
                    Finished(journal[StatePath(q)], q)'
    BY <2>1, <2>3, <1>t DEF FileInv, Finished, TypeOK
  <2> QED  BY <2>1, <2>4, <2>5, <2>6 DEF FileInv, Injective
<1>5. ASSUME NEW p \in Procs, Rename(p) PROVE FileInv'
  <2>a. PICK f \in Inodes : f = dir[TmpPath(p)]
    BY <1>5, <1>t DEF Rename, TypeOK
  <2>1. /\ p \in up /\ saver[p].pc = "rename" /\ Saving(p)
        /\ dir' = [n \in Names |->
                     CASE n = StatePath(p) -> f
                       [] n = TmpPath(p) /\ n # StatePath(p) -> NoValue
                       [] OTHER -> dir[n]]
        /\ saver' = [saver EXCEPT ![p] = Idle]
        /\ UNCHANGED <<mem, up, journal, data, flushed>>
    BY <1>5, <2>a DEF Rename, Saving
  <2>2. /\ f \in Inodes /\ f # NoValue /\ f = saver[p].fd
        /\ data[f] \in Seq(Pieces) /\ flushed[f] = data[f]
        /\ Len(data[f]) = Len(Text(mem[p]))
        /\ \A j \in 1..Len(data[f]) : data[f][j] = Text(mem[p])[j]
    BY <2>1, <2>a, <1>t, NoValueAssumption DEF FileInv, SaverOK, TypeOK
  <2>3. data[f] = Text(mem[p])
    BY <2>2, <1>t
  <2>4. \A n \in Names :
          dir'[n] = IF n = StatePath(p) THEN f
                    ELSE IF n = TmpPath(p) THEN NoValue ELSE dir[n]
    BY <2>1
  <2>5. TypeOK'
    <3>1. dir' \in [Names -> Inodes \cup {NoValue}]
      BY <2>1, <2>2, <1>t DEF TypeOK
    <3> QED  BY <3>1, <2>1, <1>t DEF TypeOK, Saving, Idle
  <2>6. \A n \in Names : n # TmpPath(p) => dir[n] # f
    BY <2>2, <2>a, <1>t DEF FileInv, Injective
  <2>7. Injective(dir')
    BY <2>4, <2>6, <1>t DEF FileInv, Injective
  <2>8. ASSUME NEW q \in Procs PROVE SaverOK(q)'
    <3>1. CASE q = p
      BY <3>1, <2>1, <1>t DEF SaverOK, Saving, TypeOK, Idle
    <3>2. CASE q # p
      <4>1. saver'[q] = saver[q]
        BY <3>2, <2>1, <1>t DEF TypeOK
      <4>2. dir'[TmpPath(q)] = dir[TmpPath(q)]
        BY <3>2, <2>4, <1>t DEF DistinctTemps
      <4> QED  BY <4>1, <4>2, <2>1 DEF FileInv, SaverOK, Saving
    <3> QED  BY <3>1, <3>2
  <2>9. \A q \in Procs : dir'[TmpPath(q)] \in {NoValue, dir[TmpPath(q)]}
    BY <2>4, <1>t DEF DistinctTemps
  <2>10. ASSUME NEW j \in Inodes, NEW q \in Procs, Finished(j, q)
         PROVE  Finished(j, q)'
    BY <2>1, <2>9, <2>10, NoValueAssumption DEF Finished
  <2>11. Finished(f, p)'
    <3>1. \A q \in Procs : dir'[TmpPath(q)] # f
      BY <2>2, <2>4, <2>6, <1>t DEF DistinctTemps
    <3>2. mem[p].node_id = p
      BY DEF FileInv
    <3> QED  BY <3>1, <3>2, <2>1, <2>2, <2>3, <1>t DEF Finished
  <2>12. ASSUME NEW q \in Procs
         PROVE  /\ dir'[StatePath(q)] # NoValue => Finished(dir[StatePath(q)], q)'
                /\ journal'[StatePath(q)] # NoValue =>
                     Finished(journal[StatePath(q)], q)'
    <3>1. CASE q = p
      <4>1. dir'[StatePath(q)] = f
        BY <3>1, <2>4, <1>t
      <4> QED  BY <3>1, <4>1, <2>1, <2>10, <2>11, <1>t DEF FileInv, TypeOK
    <3>2. CASE q # p
      <4>1. dir'[StatePath(q)] = dir[StatePath(q)]
        BY <3>2, <2>4, <1>t DEF DistinctTemps
      <4> QED  BY <4>1, <2>1, <2>10, <1>t DEF FileInv, TypeOK
    <3> QED  BY <3>1, <3>2
  <2> QED  BY <2>1, <2>5, <2>7, <2>8, <2>12 DEF FileInv, Injective
<1>6. ASSUME NEW p \in Procs, SaveFails(p) \/ Kill(p) PROVE FileInv'
  <2>1. /\ saver' = [saver EXCEPT ![p] = Idle]
        /\ up' = up \/ up' = up \ {p}
        /\ UNCHANGED <<mem, dir, journal, data, flushed>>
    BY <1>6 DEF SaveFails, Kill
  <2>2. TypeOK'
    BY <2>1, <1>t DEF TypeOK, Saving, Idle
  <2>3. \A q \in Procs : SaverOK(q)'
    BY <2>1, <1>t DEF FileInv, SaverOK, Saving, TypeOK, Idle
  <2> QED  BY <2>1, <2>2, <2>3 DEF FileInv, Injective, Finished
<1>7. ASSUME NEW p \in Procs, Start(p) PROVE FileInv'
  <2> DEFINE node == Loaded(p, FileOf(p))
  <2>1. node \in NodeState /\ node.node_id = p
    BY LoadedType
  <2>2. /\ p \notin up /\ up' = up \cup {p} /\ mem' = [mem EXCEPT ![p] = node]
        /\ UNCHANGED <<saver, dir, journal, data, flushed>>
    BY <1>7 DEF Start
  <2> HIDE DEF node
  <2>3. ~Saving(p)
    BY <2>2, <1>t DEF TypeOK
  <2>4. TypeOK'
    BY <2>1, <2>2, <2>3, <1>t DEF TypeOK, Saving
  <2>5. \A q \in Procs : mem'[q].node_id = q /\ SaverOK(q)'
    BY <2>1, <2>2, <2>3, <1>t DEF FileInv, SaverOK, Saving, TypeOK
  <2> QED  BY <2>2, <2>4, <2>5 DEF FileInv, Injective, Finished
<1>8. ASSUME NEW i \in Inodes, Flush(i) PROVE FileInv'
  <2>1. /\ flushed' = [flushed EXCEPT ![i] = data[i]]
        /\ UNCHANGED <<mem, up, saver, dir, journal, data>>
    BY <1>8 DEF Flush
  <2>2. \A j \in Inodes : flushed'[j] = IF j = i THEN data[i] ELSE flushed[j]
    BY <2>1, <1>t DEF TypeOK
  <2>3. TypeOK'
    BY <2>1, <1>t DEF TypeOK, Saving
  <2>4. ASSUME NEW q \in Procs PROVE SaverOK(q)'
    <3>1. Saving(q) => saver[q].fd \in Inodes
      BY <1>t DEF TypeOK
    <3> QED  BY <3>1, <2>1, <2>2 DEF FileInv, SaverOK, Saving
  <2>5. ASSUME NEW q \in Procs
        PROVE  /\ dir[StatePath(q)] # NoValue => Finished(dir[StatePath(q)], q)'
               /\ journal[StatePath(q)] # NoValue =>
                    Finished(journal[StatePath(q)], q)'
    BY <2>1, <2>2, <1>t DEF FileInv, Finished, TypeOK
  <2> QED  BY <2>1, <2>3, <2>4, <2>5 DEF FileInv, Injective
<1>9. CASE FlushDir
  <2>1. journal' = dir /\ UNCHANGED <<mem, up, saver, dir, data, flushed>>
    BY <1>9 DEF FlushDir
  <2>2. TypeOK'
    BY <2>1, <1>t DEF TypeOK, Saving
  <2> QED  BY <2>1, <2>2 DEF FileInv, Injective, Finished, SaverOK, Saving
<1>10. CASE PowerLoss
  <2>1. /\ up' = {} /\ saver' = [p \in Procs |-> Idle]
        /\ dir' = journal /\ data' = flushed
        /\ UNCHANGED <<mem, journal, flushed>>
    BY <1>10 DEF PowerLoss
  <2>2. TypeOK'
    BY <2>1, <1>t DEF TypeOK, Saving, Idle
  <2>3. \A q \in Procs : SaverOK(q)'
    BY <2>1 DEF SaverOK, Saving, Idle
  <2>4. ASSUME NEW q \in Procs, journal[StatePath(q)] # NoValue
        PROVE  Finished(journal[StatePath(q)], q)'
    <3>1. \A r \in Procs : journal[TmpPath(r)] # journal[StatePath(q)]
      BY <2>4, <1>t DEF FileInv, Injective, DistinctTemps
    <3> QED  BY <2>1, <2>4, <3>1 DEF FileInv, Finished
  <2> QED  BY <2>1, <2>2, <2>3, <2>4 DEF FileInv, Injective
<1>11. CASE UNCHANGED vars
  BY <1>11, <1>t DEF vars, FileInv, TypeOK, Injective, Finished, SaverOK, Saving
<1> QED
  BY <1>1, <1>2, <1>3, <1>4, <1>5, <1>6, <1>7, <1>8, <1>9, <1>10, <1>11
  DEF Next, Save

\* The types of the state, and that a save is always of a running process and
\* never beyond the end of its text.
THEOREM TypeCorrect == ASSUME DistinctTemps PROVE Spec => []TypeOK
<1>1. FileInv /\ [Next]_vars => FileInv'
  BY FileStep
<1>2. FileInv => TypeOK
  BY DEF FileInv
<1> QED  BY <1>1, <1>2, FileInit, PTL DEF Spec

-----------------------------------------------------------------------------
(* Whole files *)

LEMMA FinishedIsWhole ==
  ASSUME NEW p \in Procs, NEW node \in NodeState, node.node_id = p, NEW text,
         text = Text(node)
  PROVE  /\ Readable(text)
         /\ Loaded(p, text).node_id = p
         /\ Text(Loaded(p, text)) = text
BY RoundTrip

LEMMA FilesAreWhole == FileInv => WholeFiles
<1> SUFFICES ASSUME FileInv, NEW p \in Procs,
                    NEW text \in {FileOf(p), KeptOf(p)}, text # NoFile
             PROVE  /\ Readable(text)
                    /\ Loaded(p, text).node_id = p
                    /\ Text(Loaded(p, text)) = text
  BY DEF WholeFiles
<1>1. \E node \in NodeState : node.node_id = p /\ text = Text(node)
  BY DEF FileInv, Finished, FileOf, KeptOf, TextAt
<1> QED  BY <1>1, FinishedIsWhole

\* A state file, and what a power loss leaves of it, is a complete text of a
\* node of its process, whatever is killed, fails or loses power when.
THEOREM FilesStayWhole == ASSUME DistinctTemps PROVE Spec => []WholeFiles
<1>1. FileInv /\ [Next]_vars => FileInv'
  BY FileStep
<1> QED  BY <1>1, FilesAreWhole, FileInit, PTL DEF Spec

-----------------------------------------------------------------------------
(* The refinement *)

LEMMA StoreInit == Init => Store!Init
BY NamesType
DEF Init, Store!Init, FileOf, KeptOf, TextAt, Fresh, Store!Fresh, NoFile,
    Store!NoFile

\* The two modules read and write the same texts.
LEMMA SameTexts ==
  /\ \A node : Store!Text(node) = Text(node)
  /\ \A p, text : Store!Loaded(p, text) = Loaded(p, text)
  /\ \A node : Store!Changes(node) = Changes(node)
<1>1. \A tag, S : Store!Lines(tag, S) = Lines(tag, S)
  BY DEF Store!Lines, Lines
<1>2. ASSUME NEW node PROVE Store!Text(node) = Text(node)
  BY <1>1 DEF Store!Text, Text
<1>3. Store!Empty = Empty
  BY DEF Store!Empty, Empty
<1>4. \A text : Store!LinesOf(text) = LinesOf(text)
  BY DEF Store!LinesOf, LinesOf
<1>5. \A text, k : /\ Store!Tag(text, k) = Tag(text, k)
                   /\ Store!Value(text, k) = Value(text, k)
  BY <1>3 DEF Store!Tag, Tag, Store!Value, Value
<1>6. \A text, tag : Store!Values(text, tag) = Values(text, tag)
  BY <1>4, <1>5 DEF Store!Values, Values
<1>7. \A text : Store!Readable(text) = Readable(text)
  BY <1>4, <1>5, <1>6 DEF Store!Readable, Readable
<1>8. \A p : Store!Fresh(p) = Fresh(p)
  BY DEF Store!Fresh, Fresh
<1>9. ASSUME NEW p, NEW text PROVE Store!Loaded(p, text) = Loaded(p, text)
  BY <1>6, <1>7, <1>8 DEF Store!Loaded, Loaded
<1>10. ASSUME NEW node PROVE Store!Changes(node) = Changes(node)
  BY DEF Store!Changes, Changes
<1> QED  BY <1>2, <1>9, <1>10

\* The files of all processes, as the store sees them.
Files == [p \in Procs |-> FileOf(p)]
Kept == [p \in Procs |-> KeptOf(p)]

\* A step that leaves the files alone.
LEMMA FilesSame ==
  ASSUME \A p \in Procs : FileOf(p)' = FileOf(p) /\ KeptOf(p)' = KeptOf(p)
  PROVE  Files' = Files /\ Kept' = Kept
BY DEF Files, Kept

LEMMA StoreStep ==
  DistinctTemps /\ FileInv /\ FileInv' /\ [Next]_vars
    => [Store!Next]_Store!vars
<1> SUFFICES ASSUME DistinctTemps, FileInv, FileInv', [Next]_vars
             PROVE  Store!Next \/ (mem' = mem /\ up' = up /\ Files' = Files /\ Kept' = Kept)
  BY DEF Store!vars, Files, Kept
<1>t. /\ TypeOK
      /\ \A p \in Procs : StatePath(p) \in Names /\ TmpPath(p) \in Names
  BY NamesType DEF FileInv
<1>f. ASSUME NEW p \in Procs, NEW i \in Inodes,
             i = dir[StatePath(p)] \/ i = journal[StatePath(p)]
      PROVE  flushed[i] = data[i] /\ \A q \in Procs : dir[TmpPath(q)] # i
  BY <1>f, NoValueAssumption DEF FileInv, Finished
<1>1. ASSUME NEW p \in Procs, Change(p) PROVE Store!Change(p)
  <2>1. /\ p \in up /\ UNCHANGED <<up, dir, journal, data, flushed>>
        /\ \E node \in Changes(mem[p]) : mem' = [mem EXCEPT ![p] = node]
    BY <1>1 DEF Change
  <2>2. Files' = Files /\ Kept' = Kept
    BY <2>1, FilesSame DEF FileOf, KeptOf, TextAt
  <2> QED  BY <2>1, <2>2, SameTexts DEF Store!Change, Files, Kept
<1>2. ASSUME NEW p \in Procs, Kill(p) PROVE Store!Kill(p)
  <2>1. /\ p \in up /\ up' = up \ {p}
        /\ UNCHANGED <<mem, dir, journal, data, flushed>>
    BY <1>2 DEF Kill
  <2>2. Files' = Files /\ Kept' = Kept
    BY <2>1, FilesSame DEF FileOf, KeptOf, TextAt
  <2> QED  BY <2>1, <2>2 DEF Store!Kill, Files, Kept
<1>3. ASSUME NEW p \in Procs, Start(p) PROVE Store!Start(p)
  <2>1. /\ p \notin up /\ up' = up \cup {p}
        /\ mem' = [mem EXCEPT ![p] = Loaded(p, Files[p])]
        /\ UNCHANGED <<dir, journal, data, flushed>>
    BY <1>3 DEF Start, Files
  <2>2. Files' = Files /\ Kept' = Kept
    BY <2>1, FilesSame DEF FileOf, KeptOf, TextAt
  <2> QED  BY <2>1, <2>2, SameTexts DEF Store!Start, Files, Kept
<1>4. ASSUME NEW p \in Procs, Create(p) PROVE Files' = Files /\ Kept' = Kept
  <2>1. PICK i \in Inodes :
          /\ \/ dir[TmpPath(p)] = i /\ UNCHANGED flushed
             \/ /\ ~InUse(i)
                /\ flushed' = [flushed EXCEPT ![i] = <<>>]
          /\ dir' = [dir EXCEPT ![TmpPath(p)] = i]
          /\ data' = [data EXCEPT ![i] = <<>>]
    BY <1>4 DEF Create
  <2>2. journal' = journal
    BY <1>4 DEF Create
  <2>3. ASSUME NEW q \in Procs
        PROVE  dir[StatePath(q)] # i /\ journal[StatePath(q)] # i
    BY <2>1, <1>f, <1>t DEF InUse
  <2>4. ASSUME NEW j \in Inodes, j # i
        PROVE  data'[j] = data[j] /\ flushed'[j] = flushed[j]
    BY <2>1, <2>4, <1>t DEF TypeOK
  <2>5. ASSUME NEW q \in Procs PROVE dir'[StatePath(q)] = dir[StatePath(q)]
    BY <2>1, <1>t DEF DistinctTemps, TypeOK
  <2>6. ASSUME NEW q \in Procs
        PROVE  FileOf(q)' = FileOf(q) /\ KeptOf(q)' = KeptOf(q)
    <3>1. /\ dir[StatePath(q)] \in Inodes \cup {NoValue}
          /\ journal[StatePath(q)] \in Inodes \cup {NoValue}
      BY <1>t DEF TypeOK
    <3> QED  BY <3>1, <2>2, <2>3, <2>4, <2>5 DEF FileOf, KeptOf, TextAt
  <2> QED  BY <2>6, FilesSame
<1>5. ASSUME NEW p \in Procs, Write(p) \/ SyncAll(p)
      PROVE  Files' = Files /\ Kept' = Kept
  <2> DEFINE f == saver[p].fd
  <2>1. /\ \/ data' = data /\ flushed' = [flushed EXCEPT ![f] = data[f]]
           \/ \E text : data' = [data EXCEPT ![f] = text] /\ flushed' = flushed
        /\ dir' = dir /\ journal' = journal
        /\ Saving(p)
    BY <1>5 DEF Write, SyncAll, WrittenAll, Saving
  <2>2. ASSUME NEW q \in Procs
        PROVE  dir[StatePath(q)] # f /\ journal[StatePath(q)] # f
    <3>1. f \in Inodes /\ f = dir[TmpPath(p)]
      BY <2>1, <1>t DEF FileInv, SaverOK, TypeOK
    <3> QED  BY <3>1, <1>f
  <2>3. ASSUME NEW j \in Inodes, j # f
        PROVE  data'[j] = data[j] /\ flushed'[j] = flushed[j]
    BY <2>1, <2>3, <1>t DEF TypeOK
  <2>4. ASSUME NEW q \in Procs
        PROVE  FileOf(q)' = FileOf(q) /\ KeptOf(q)' = KeptOf(q)
    <3>1. /\ dir[StatePath(q)] \in Inodes \cup {NoValue}
          /\ journal[StatePath(q)] \in Inodes \cup {NoValue}
      BY <1>t DEF TypeOK
    <3> QED  BY <3>1, <2>1, <2>2, <2>3 DEF FileOf, KeptOf, TextAt
  <2> QED  BY <2>4, FilesSame
<1>6. ASSUME NEW p \in Procs, Rename(p) PROVE Store!Save(p)
  <2>a. PICK f \in Inodes : f = dir[TmpPath(p)]
    BY <1>6, <1>t DEF Rename, TypeOK
  <2>1. /\ p \in up /\ saver[p].pc = "rename" /\ Saving(p)
        /\ dir' = [n \in Names |->
                     CASE n = StatePath(p) -> f
                       [] n = TmpPath(p) /\ n # StatePath(p) -> NoValue
                       [] OTHER -> dir[n]]
        /\ UNCHANGED <<mem, up, journal, data, flushed>>
    BY <1>6, <2>a DEF Rename, Saving
  <2>2. data[f] = Text(mem[p])
    <3>1. /\ data[f] \in Seq(Pieces)
          /\ Len(data[f]) = Len(Text(mem[p]))
          /\ \A j \in 1..Len(data[f]) : data[f][j] = Text(mem[p])[j]
      BY <2>1, <2>a, <1>t DEF FileInv, SaverOK, TypeOK
    <3>2. Text(mem[p]) \in Seq(Pieces)
      BY <1>t, TextType DEF TypeOK
    <3> QED  BY <3>1, <3>2
  <2>3. FileOf(p)' = Text(mem[p])
    <3>1. dir'[StatePath(p)] = f
      BY <2>1, <1>t
    <3> QED  BY <3>1, <2>1, <2>2, NoValueAssumption DEF FileOf, TextAt
  <2>4. ASSUME NEW q \in Procs, q # p PROVE FileOf(q)' = FileOf(q)
    <3>1. dir'[StatePath(q)] = dir[StatePath(q)]
      BY <2>1, <2>4, <1>t DEF DistinctTemps
    <3> QED  BY <3>1, <2>1 DEF FileOf, TextAt
  <2>5. Files' = [Files EXCEPT ![p] = Text(mem[p])]
    BY <2>3, <2>4 DEF Files
  <2>6. Kept' = Kept
    BY <2>1 DEF Kept, KeptOf, TextAt
  <2> QED  BY <2>1, <2>5, <2>6, SameTexts DEF Store!Save, Files, Kept
<1>7. ASSUME NEW p \in Procs, SaveFails(p) PROVE Files' = Files /\ Kept' = Kept
  BY <1>7, FilesSame DEF SaveFails, FileOf, KeptOf, TextAt
<1>8. ASSUME NEW i \in Inodes, Flush(i) PROVE Files' = Files /\ Kept' = Kept
  <2>1. /\ flushed[i] # data[i]
        /\ flushed' = [flushed EXCEPT ![i] = data[i]]
        /\ UNCHANGED <<dir, journal, data>>
    BY <1>8 DEF Flush
  <2>2. ASSUME NEW j \in Inodes, j # i PROVE flushed'[j] = flushed[j]
    BY <2>1, <2>2, <1>t DEF TypeOK
  <2>3. ASSUME NEW q \in Procs
        PROVE  FileOf(q)' = FileOf(q) /\ KeptOf(q)' = KeptOf(q)
    <3>1. journal[StatePath(q)] \in Inodes \cup {NoValue}
      BY <1>t DEF TypeOK
    <3>2. journal[StatePath(q)] # i
      BY <2>1, <1>f
    <3> QED  BY <3>1, <3>2, <2>1, <2>2 DEF FileOf, KeptOf, TextAt
  <2> QED  BY <2>3, FilesSame
<1>9. ASSUME FlushDir PROVE Store!Commit
  <2>1. journal' = dir /\ UNCHANGED <<mem, up, dir, data, flushed>>
    BY <1>9 DEF FlushDir
  <2>2. ASSUME NEW q \in Procs
        PROVE  FileOf(q)' = FileOf(q) /\ KeptOf(q)' = FileOf(q)
    <3>1. dir[StatePath(q)] \in Inodes \cup {NoValue}
      BY <1>t DEF TypeOK
    <3> QED  BY <3>1, <2>1, <1>f DEF FileOf, KeptOf, TextAt
  <2>3. Files' = Files /\ Kept' = Files
    BY <2>2 DEF Files, Kept
  <2> QED  BY <2>1, <2>3 DEF Store!Commit, Files, Kept
<1>10. ASSUME PowerLoss PROVE Store!PowerLoss
  <2>1. /\ up' = {} /\ dir' = journal /\ data' = flushed
        /\ UNCHANGED <<mem, journal, flushed>>
    BY <1>10 DEF PowerLoss
  <2>2. Files' = Kept /\ Kept' = Kept
    BY <2>1 DEF Files, Kept, FileOf, KeptOf, TextAt
  <2> QED  BY <2>1, <2>2 DEF Store!PowerLoss, Files, Kept
<1>11. ASSUME NEW p \in Procs, Save(p)
       PROVE  Store!Next \/ (mem' = mem /\ up' = up /\ Files' = Files /\ Kept' = Kept)
  <2>1. CASE Rename(p)
    BY <2>1, <1>6 DEF Store!Next
  <2>2. CASE Create(p) \/ Write(p) \/ SyncAll(p) \/ SaveFails(p)
    BY <2>2, <1>4, <1>5, <1>7 DEF Create, Write, SyncAll, SaveFails
  <2> QED  BY <1>11, <2>1, <2>2 DEF Save
<1>12. ASSUME UNCHANGED vars
       PROVE  mem' = mem /\ up' = up /\ Files' = Files /\ Kept' = Kept
  BY <1>12 DEF vars, Files, Kept, FileOf, KeptOf, TextAt
<1>13. ASSUME NEW i \in Inodes, Flush(i) PROVE mem' = mem /\ up' = up
  BY <1>13 DEF Flush
<1> QED
  BY <1>1, <1>2, <1>3, <1>8, <1>9, <1>10, <1>11, <1>12, <1>13
  DEF Next, Store!Next

\* Saves through a temporary file, a sync and a rename are the atomic store of
\* StateStore, provided that no two file names fall together.
THEOREM ImplementsAtomicStore ==
  ASSUME DistinctTemps PROVE Spec => ImplementsStore
<1>1. FileInv /\ [Next]_vars => FileInv'
  BY FileStep
<1>2. FileInv /\ FileInv' /\ [Next]_vars => [Store!Next]_Store!vars
  BY StoreStep
<1> QED
  BY <1>1, <1>2, FileInit, StoreInit, PTL DEF Spec, ImplementsStore, Store!Spec
=============================================================================
