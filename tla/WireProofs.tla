----------------------------- MODULE WireProofs -----------------------------
(***************************************************************************)
(* What is written is what is read, for any names and lists of any length: *)
(* induction over texts.  The prover has no induction rule that it can     *)
(* instantiate, so that the rules used here are derived, for sets, from    *)
(* the pigeonhole principle for finite sets.                               *)
(***************************************************************************)
EXTENDS Wire, Integers, FiniteSetTheorems, SequenceTheorems, TLAPS

-----------------------------------------------------------------------------
(* Induction *)

\* A set that has 0 and with a number its successor has all: one that is
\* missing, k, would make n -> n + 1 map the members up to k into the positive
\* ones among them without a collision.
LEMMA NatInduct ==
  ASSUME NEW T, 0 \in T, \A n \in Nat : n \in T => n + 1 \in T
  PROVE  Nat \subseteq T
<1> SUFFICES ASSUME NEW k \in Nat, k \notin T PROVE FALSE
  OBVIOUS
<1> DEFINE A == T \cap (0..k)
           f == [n \in A |-> n + 1]
<1>1. IsFiniteSet(A) /\ 0 \in A
  <2>1. IsFiniteSet(0..k)
    BY FS_Interval
  <2> QED BY <2>1, FS_Subset
<1>2. IsFiniteSet(A \ {0}) /\ Cardinality(A \ {0}) = Cardinality(A) - 1
  BY <1>1, FS_RemoveElement
<1>3. Cardinality(A) \in Nat
  BY <1>1, FS_CardinalityType
<1>4. f \in [A -> A \ {0}]
  OBVIOUS
<1>5. \E x, y \in A : x # y /\ f[x] = f[y]
  <2> HIDE DEF A, f
  <2> QED BY <1>1, <1>2, <1>3, <1>4, FS_PigeonHole
<1> QED BY <1>5

\* A set that has the empty sequence and with a sequence every longer one by
\* an element has all.
LEMMA SeqInduct ==
  ASSUME NEW C, NEW T, <<>> \in T,
         \A s \in Seq(C), c \in C : s \in T => Append(s, c) \in T
  PROVE  Seq(C) \subseteq T
<1> DEFINE L == {n \in Nat : \A s \in Seq(C) : Len(s) = n => s \in T}
<1>1. 0 \in L
  <2>1. ASSUME NEW s \in Seq(C), Len(s) = 0 PROVE s = <<>>
    BY <2>1, EmptySeq
  <2> QED BY <2>1
<1>2. ASSUME NEW n \in Nat, n \in L PROVE n + 1 \in L
  <2> SUFFICES ASSUME NEW s \in Seq(C), Len(s) = n + 1 PROVE s \in T
    OBVIOUS
  <2>1. s # <<>>
    BY EmptySeq
  <2>2. PICK r \in Seq(C), c \in C : s = Append(r, c)
    BY <2>1, SequenceEmptyOrAppend
  <2>3. Len(r) = n
    BY <2>2, AppendProperties, LenProperties
  <2> QED BY <1>2, <2>2, <2>3
<1>3. Nat \subseteq L
  <2> HIDE DEF L
  <2> QED BY <1>1, <1>2, NatInduct
<1> QED BY <1>3, LenProperties

-----------------------------------------------------------------------------
(* Sequences *)

LEMMA FcnIsSeq ==
  ASSUME NEW C, NEW n \in Nat, NEW f \in [1..n -> C]
  PROVE  f \in Seq(C) /\ Len(f) = n /\ DOMAIN f = 1..n
<1>1. f \in Seq(C)
  BY SeqDef
<1>2. Len(f) \in Nat /\ DOMAIN f = 1..Len(f)
  BY <1>1, LenProperties
<1>3. DOMAIN f = 1..n
  OBVIOUS
<1>4. Len(f) = n
  BY <1>2, <1>3
<1> QED BY <1>1, <1>3, <1>4

LEMMA IsAppend ==
  ASSUME NEW C, NEW p \in Seq(C), NEW e \in C, NEW q \in Seq(C),
         Len(q) = Len(p) + 1, q[Len(p) + 1] = e,
         \A i \in 1..Len(p) : q[i] = p[i]
  PROVE  q = Append(p, e)
<1> DEFINE r == Append(p, e)
<1>1. /\ r \in Seq(C) /\ Len(r) = Len(p) + 1 /\ r[Len(p) + 1] = e
      /\ \A i \in 1..Len(p) : r[i] = p[i]
      /\ Len(p) \in Nat
  BY AppendProperties, LenProperties
<1> HIDE DEF r
<1>2. \A i \in 1..Len(q) : q[i] = r[i]
  BY <1>1
<1> QED BY <1>1, <1>2, SeqEqual DEF r

LEMMA ConcatAppend ==
  ASSUME NEW C, NEW s \in Seq(C), NEW t \in Seq(C), NEW c \in C
  PROVE  s \o Append(t, c) = Append(s \o t, c)
<1>1. <<c>> \in Seq(C)
  OBVIOUS
<1> QED BY <1>1, AppendIsConcat, ConcatAssociative, ConcatProperties

-----------------------------------------------------------------------------
(* Loops *)

\* f[i] is the concatenation of the first i members of ss.
Flattens(f, ss) ==
  /\ f = [i \in 1..Len(ss) |-> f[i]]
  /\ \A i \in 1..Len(ss) : f[i] = IF i = 1 THEN ss[i] ELSE f[i-1] \o ss[i]

LEMMA FlattenExists ==
  ASSUME NEW ss, Len(ss) \in Nat
  PROVE  \E f : Flattens(f, ss)
<1> DEFINE Upto(f, n) ==
             /\ f = [i \in 1..n |-> f[i]]
             /\ \A i \in 1..n : f[i] = IF i = 1 THEN ss[i] ELSE f[i-1] \o ss[i]
           T == {n \in Nat : \E f : Upto(f, n)}
<1>1. 0 \in T
  <2>1. Upto([i \in 1..0 |-> ss[i]], 0)
    OBVIOUS
  <2> QED BY <2>1
<1>2. ASSUME NEW n \in Nat, n \in T PROVE n + 1 \in T
  <2>1. PICK f : Upto(f, n)
    BY <1>2
  <2> DEFINE g == [i \in 1..n + 1 |-> IF i <= n THEN f[i]
                                      ELSE IF i = 1 THEN ss[i] ELSE f[i-1] \o ss[i]]
  <2>2. ASSUME NEW i \in 1..n + 1
        PROVE  g[i] = IF i = 1 THEN ss[i] ELSE g[i-1] \o ss[i]
    <3>1. CASE i <= n
      <4>1. i \in 1..n /\ (i # 1 => i - 1 \in 1..n)
        BY <3>1
      <4>2. f[i] = IF i = 1 THEN ss[i] ELSE f[i-1] \o ss[i]
        BY <2>1, <4>1
      <4>3. g[i] = f[i] /\ (i # 1 => g[i-1] = f[i-1])
        BY <3>1, <4>1
      <4> HIDE DEF g
      <4> QED BY <4>2, <4>3
    <3>2. CASE i = n + 1
      <4>1. i # 1 => g[i-1] = f[i-1]
        BY <3>2
      <4>2. g[i] = IF i = 1 THEN ss[i] ELSE f[i-1] \o ss[i]
        BY <3>2
      <4> HIDE DEF g
      <4> QED BY <4>1, <4>2
    <3> QED BY <3>1, <3>2
  <2>3. g = [i \in 1..n + 1 |-> g[i]]
    OBVIOUS
  <2>4. Upto(g, n + 1)
    BY <2>2, <2>3
  <2> HIDE DEF g, Upto
  <2> QED BY <2>4
<1>3. Nat \subseteq T
  <2> HIDE DEF T
  <2> QED BY <1>1, <1>2, NatInduct
<1> QED BY <1>3 DEF Flattens

LEMMA FlattenUnfolds ==
  ASSUME NEW ss, Len(ss) \in Nat, Len(ss) # 0
  PROVE  \E f : Flattens(f, ss) /\ FlattenSeq(ss) = f[Len(ss)]
<1> DEFINE Equation(f) ==
             f = [i \in 1..Len(ss) |-> IF i = 1 THEN ss[i] ELSE f[i-1] \o ss[i]]
           flatten == CHOOSE f : Equation(f)
<1>1. \A f : Flattens(f, ss) => Equation(f)
  BY DEF Flattens
<1>2. \A f : Equation(f) => Flattens(f, ss)
  BY DEF Flattens
<1>3. FlattenSeq(ss) = flatten[Len(ss)]
  BY DEF FlattenSeq
<1> HIDE DEF Equation
<1>4. Equation(flatten)
  BY <1>1, FlattenExists
<1> HIDE DEF flatten
<1> QED BY <1>2, <1>3, <1>4

\* FlattenSeq, a member at a time.
LEMMA FlattenAppend ==
  ASSUME NEW C, NEW ss \in Seq(Seq(C)), NEW s \in Seq(C)
  PROVE  /\ FlattenSeq(<<>>) = <<>>
         /\ FlattenSeq(Append(ss, s)) = FlattenSeq(ss) \o s
<1>1. FlattenSeq(<<>>) = <<>>
  BY DEF FlattenSeq
<1> DEFINE n == Len(ss)
           st == Append(ss, s)
<1>2. /\ n \in Nat /\ Len(st) = n + 1 /\ st[n + 1] = s
      /\ \A i \in 1..n : st[i] = ss[i]
  BY AppendProperties, LenProperties
<1> HIDE DEF st
<1>3. PICK g : Flattens(g, st) /\ FlattenSeq(st) = g[n + 1]
  BY <1>2, FlattenUnfolds
<1>4. CASE ss = <<>>
  <2>1. n + 1 = 1 /\ 1 \in 1..Len(st) /\ st[1] = s
    BY <1>2, <1>4
  <2>2. g[1] = IF 1 = 1 THEN st[1] ELSE g[1 - 1] \o st[1]
    BY <1>3, <2>1, Zenon DEF Flattens
  <2>3. FlattenSeq(st) = s
    BY <1>3, <2>1, <2>2
  <2> QED BY <1>1, <1>4, <2>3, ConcatEmptySeq DEF st
<1>5. CASE ss # <<>>
  <2>1. n # 0
    BY <1>5, EmptySeq
  <2>2. PICK f : Flattens(f, ss) /\ FlattenSeq(ss) = f[n]
    BY <1>2, <2>1, FlattenUnfolds
  <2> HIDE DEF n
  <2> DEFINE T == {i \in Nat : i \in 1..n => f[i] = g[i]}
  <2>3. 0 \in T
    OBVIOUS
  <2>4. ASSUME NEW i \in Nat, i \in T PROVE i + 1 \in T
    <3> SUFFICES ASSUME i + 1 \in 1..n PROVE f[i + 1] = g[i + 1]
      OBVIOUS
    <3> DEFINE j == i + 1
    <3>0. j \in 1..Len(ss) /\ j \in 1..Len(st) /\ j - 1 = i
      BY <1>2 DEF n
    <3> HIDE DEF j
    <3>1. /\ f[j] = IF j = 1 THEN ss[j] ELSE f[j - 1] \o ss[j]
          /\ g[j] = IF j = 1 THEN st[j] ELSE g[j - 1] \o st[j]
      BY <1>3, <2>2, <3>0, Zenon DEF Flattens
    <3>2. j # 1 => f[i] = g[i]
      BY <1>2, <2>4 DEF j
    <3>3. ss[j] = st[j]
      BY <1>2, <3>0 DEF n
    <3> QED BY <3>0, <3>1, <3>2, <3>3, Zenon DEF j
  <2>5. f[n] = g[n]
    <3>1. Nat \subseteq T
      <4> HIDE DEF T
      <4> QED BY <2>3, <2>4, NatInduct
    <3> QED BY <1>2, <2>1, <3>1
  <2>6. g[n + 1] = g[n] \o s
    <3> DEFINE j == n + 1
    <3>0. n \in Nat /\ Len(st) = j /\ st[j] = s
      BY <1>2
    <3>1. j \in 1..Len(st) /\ j # 1 /\ j - 1 = n /\ st[j] = s
      <4>1. j \in 1..j /\ j # 1 /\ j - 1 = n
        BY <2>1, <3>0
      <4> HIDE DEF j
      <4> QED BY <3>0, <4>1
    <3> HIDE DEF j
    <3>2. g[j] = IF j = 1 THEN st[j] ELSE g[j - 1] \o st[j]
      BY <1>3, <3>1, Zenon DEF Flattens
    <3> QED BY <3>1, <3>2, Zenon DEF j
  <2> QED BY <1>1, <1>3, <1>5, <2>2, <2>5, <2>6, Zenon DEF st
<1> QED BY <1>4, <1>5

\* The largest number of a set that has no larger one than k.
LEMMA MaxIs ==
  ASSUME NEW k \in Nat, NEW t \in SUBSET Nat, k \in t, \A i \in t : i <= k
  PROVE  Max(t) = k
<1> DEFINE Largest(x) == \A y \in t : x >= y
<1>1. \E x \in t : Largest(x)
  OBVIOUS
<1>2. \A x \in t : Largest(x) => x = k
  OBVIOUS
<1>3. Max(t) = CHOOSE x \in t : Largest(x)
  BY DEF Max
<1> HIDE DEF Largest
<1> QED BY <1>1, <1>2, <1>3

\* h[t] is where the loop ends that goes over the positions in t only.
Loops(h, n, step, a, s) ==
  /\ h = [t \in SUBSET (1..n) |-> h[t]]
  /\ \A t \in SUBSET (1..n) :
       h[t] = IF t = {} THEN a ELSE step[s[Max(t)]][h[t \ {Max(t)}]]

LEMMA LoopExists ==
  ASSUME NEW step, NEW a, NEW s
  PROVE  \A n \in Nat : \E h : Loops(h, n, step, a, s)
<1> DEFINE T == {n \in Nat : \E h : Loops(h, n, step, a, s)}
<1>1. 0 \in T
  <2> DEFINE h == [t \in SUBSET (1..0) |-> a]
  <2>1. 1..0 = {}
    OBVIOUS
  <2>2. Loops(h, 0, step, a, s)
    BY <2>1 DEF Loops
  <2> QED BY <2>2
<1>2. ASSUME NEW n \in Nat, n \in T PROVE n + 1 \in T
  <2>1. PICK h : Loops(h, n, step, a, s)
    BY <1>2
  <2> DEFINE g == [t \in SUBSET (1..n + 1) |->
                     IF n + 1 \in t THEN step[s[n + 1]][h[t \ {n + 1}]] ELSE h[t]]
  <2>2. ASSUME NEW t \in SUBSET (1..n + 1)
        PROVE  g[t] = IF t = {} THEN a ELSE step[s[Max(t)]][g[t \ {Max(t)}]]
    <3>1. CASE n + 1 \in t
      <4>1. Max(t) = n + 1
        BY <3>1, MaxIs
      <4>2. t \ {n + 1} \in SUBSET (1..n + 1) /\ n + 1 \notin t \ {n + 1}
        OBVIOUS
      <4>3. g[t] = step[s[n + 1]][h[t \ {n + 1}]]
        BY <3>1
      <4>4. g[t \ {n + 1}] = h[t \ {n + 1}]
        BY <4>2
      <4> HIDE DEF g
      <4> QED BY <3>1, <4>1, <4>3, <4>4
    <3>2. CASE n + 1 \notin t
      <4>0. \A i \in 1..n + 1 : i # n + 1 => i \in 1..n
        OBVIOUS
      <4>1. t \in SUBSET (1..n) /\ t \ {Max(t)} \in SUBSET (1..n + 1)
        <5> DEFINE m == Max(t)
        <5> HIDE DEF m
        <5> QED BY <3>2, <4>0 DEF m
      <4>2. g[t] = h[t] /\ g[t \ {Max(t)}] = h[t \ {Max(t)}]
        BY <3>2, <4>1
      <4>3. h[t] = IF t = {} THEN a ELSE step[s[Max(t)]][h[t \ {Max(t)}]]
        BY <2>1, <4>1 DEF Loops
      <4> HIDE DEF g
      <4> QED BY <4>2, <4>3
    <3> QED BY <3>1, <3>2
  <2>3. g = [t \in SUBSET (1..n + 1) |-> g[t]]
    OBVIOUS
  <2> HIDE DEF g
  <2>4. Loops(g, n + 1, step, a, s)
    BY <2>2, <2>3 DEF Loops
  <2> QED BY <2>4
<1>3. Nat \subseteq T
  <2> HIDE DEF T
  <2> QED BY <1>1, <1>2, NatInduct
<1> QED BY <1>3

LEMMA ScanUnfolds ==
  ASSUME NEW C, NEW s \in Seq(C), NEW step, NEW a
  PROVE  \E h : Loops(h, Len(s), step, a, s) /\ Scan(step, a, s) = h[1..Len(s)]
<1> DEFINE Equation(h) ==
             h = [t \in SUBSET (1..Len(s)) |->
                    IF t = {} THEN a ELSE step[s[Max(t)]][h[t \ {Max(t)}]]]
           iter == CHOOSE h : Equation(h)
<1>0. Len(s) \in Nat /\ DOMAIN s = 1..Len(s)
  BY LenProperties
<1>1. \A h : Loops(h, Len(s), step, a, s) => Equation(h)
  BY DEF Loops
<1>2. \A h : Equation(h) => Loops(h, Len(s), step, a, s)
  BY DEF Loops
<1>3. Scan(step, a, s) = iter[1..Len(s)]
  BY <1>0 DEF Scan, FoldLeft, MapThenFoldSet
<1> HIDE DEF Equation
<1>4. Equation(iter)
  BY <1>0, <1>1, LoopExists
<1> HIDE DEF iter
<1> QED BY <1>2, <1>3, <1>4

\* A loop, a character at a time.
LEMMA ScanEmpty ==
  ASSUME NEW step, NEW a
  PROVE  Scan(step, a, <<>>) = a
<1>1. <<>> \in Seq({}) /\ Len(<<>>) = 0 /\ 1..0 = {}
  BY EmptySeq
<1>2. PICK h : Loops(h, 0, step, a, <<>>) /\ Scan(step, a, <<>>) = h[1..0]
  BY <1>1, ScanUnfolds
<1>3. {} \in SUBSET (1..0)
  OBVIOUS
<1> QED BY <1>1, <1>2, <1>3 DEF Loops

LEMMA ScanAppend ==
  ASSUME NEW C, NEW s \in Seq(C), NEW c \in C, NEW step, NEW a
  PROVE  Scan(step, a, Append(s, c)) = step[c][Scan(step, a, s)]
<1> DEFINE n == Len(s)
           st == Append(s, c)
<1>1. /\ n \in Nat /\ Len(st) = n + 1 /\ st[n + 1] = c /\ st \in Seq(C)
      /\ \A i \in 1..n : st[i] = s[i]
  BY AppendProperties, LenProperties
<1> HIDE DEF st, n
<1>2. PICK h : Loops(h, n, step, a, s) /\ Scan(step, a, s) = h[1..n]
  BY ScanUnfolds DEF n
<1>3. PICK g : Loops(g, n + 1, step, a, st) /\ Scan(step, a, st) = g[1..n + 1]
  BY <1>1, ScanUnfolds
<1>4. ASSUME NEW i \in Nat
      PROVE  1..i + 1 # {} /\ Max(1..i + 1) = i + 1 /\ (1..i + 1) \ {i + 1} = 1..i
  <2>1. i + 1 \in 1..i + 1 /\ (1..i + 1) \ {i + 1} = 1..i
    OBVIOUS
  <2>2. Max(1..i + 1) = i + 1
    BY <2>1, MaxIs
  <2> QED BY <2>1, <2>2
<1> DEFINE T == {i \in Nat : i <= n => h[1..i] = g[1..i]}
<1>5. 0 \in T
  <2>1. {} \in SUBSET (1..n) /\ {} \in SUBSET (1..n + 1) /\ 1..0 = {}
    OBVIOUS
  <2>2. h[{}] = a /\ g[{}] = a
    BY <1>2, <1>3, <2>1 DEF Loops
  <2> QED BY <2>1, <2>2
<1>6. ASSUME NEW i \in Nat, i \in T PROVE i + 1 \in T
  <2> SUFFICES ASSUME i + 1 <= n PROVE h[1..i + 1] = g[1..i + 1]
    OBVIOUS
  <2> DEFINE u == 1..i + 1
             v == 1..i
  <2>1. u \in SUBSET (1..n) /\ u \in SUBSET (1..n + 1) /\ i + 1 \in 1..n
    BY <1>1
  <2>2. u # {} /\ Max(u) = i + 1 /\ u \ {i + 1} = v
    BY <1>4
  <2> HIDE DEF u
  <2>3. h[u] = step[s[i + 1]][h[v]]
    BY <1>2, <2>1, <2>2 DEF Loops
  <2>4. g[u] = step[st[i + 1]][g[v]]
    BY <1>3, <2>1, <2>2 DEF Loops
  <2>5. h[v] = g[v] /\ s[i + 1] = st[i + 1]
    BY <1>1, <1>6, <2>1
  <2> QED BY <2>3, <2>4, <2>5 DEF u
<1>7. h[1..n] = g[1..n]
  <2>1. Nat \subseteq T
    <3> HIDE DEF T
    <3> QED BY <1>5, <1>6, NatInduct
  <2> QED BY <1>1, <2>1
<1>8. g[1..n + 1] = step[c][g[1..n]]
  <2> DEFINE u == 1..n + 1
             v == 1..n
  <2>1. u \in SUBSET (1..n + 1) /\ u # {} /\ Max(u) = n + 1 /\ u \ {n + 1} = v
    BY <1>1, <1>4
  <2> HIDE DEF u, v
  <2>2. g[u] = step[st[n + 1]][g[v]]
    BY <1>3, <2>1 DEF Loops
  <2> QED BY <1>1, <2>2 DEF u, v
<1> QED BY <1>2, <1>3, <1>7, <1>8 DEF st

LEMMA FlattenTyped ==
  ASSUME NEW C, NEW ss \in Seq(Seq(C))
  PROVE  FlattenSeq(ss) \in Seq(C)
<1> DEFINE T == {x \in Seq(Seq(C)) : FlattenSeq(x) \in Seq(C)}
<1>1. <<>> \in T
  BY FlattenAppend, EmptySeq
<1>2. ASSUME NEW x \in Seq(Seq(C)), NEW s \in Seq(C), x \in T
      PROVE  Append(x, s) \in T
  BY <1>2, FlattenAppend, AppendProperties, ConcatProperties
<1>3. Seq(Seq(C)) \subseteq T
  <2> HIDE DEF T
  <2> QED BY <1>1, <1>2, SeqInduct
<1> QED BY <1>3

\* A loop whose steps stay in A stays there.
LEMMA ScanTyped ==
  ASSUME NEW C, NEW s \in Seq(C), NEW A, NEW a \in A, NEW step \in [C -> [A -> A]]
  PROVE  Scan(step, a, s) \in A
<1> DEFINE T == {x \in Seq(C) : Scan(step, a, x) \in A}
<1>1. <<>> \in T
  BY ScanEmpty, EmptySeq
<1>2. ASSUME NEW x \in Seq(C), NEW c \in C, x \in T PROVE Append(x, c) \in T
  BY <1>2, ScanAppend, AppendProperties
<1>3. Seq(C) \subseteq T
  <2> HIDE DEF T
  <2> QED BY <1>1, <1>2, SeqInduct
<1> QED BY <1>3

\* A loop over two texts is a loop over one, then over the other.
LEMMA ScanConcat ==
  ASSUME NEW C, NEW s \in Seq(C), NEW t \in Seq(C), NEW step, NEW a
  PROVE  Scan(step, a, s \o t) = Scan(step, Scan(step, a, s), t)
<1> DEFINE T == {x \in Seq(C) :
                   Scan(step, a, s \o x) = Scan(step, Scan(step, a, s), x)}
<1>1. <<>> \in T
  BY ScanEmpty, EmptySeq, ConcatEmptySeq
<1>2. ASSUME NEW x \in Seq(C), NEW c \in C, x \in T PROVE Append(x, c) \in T
  <2>1. Scan(step, a, s \o Append(x, c)) = step[c][Scan(step, a, s \o x)]
    <3>1. s \o x \in Seq(C) /\ s \o Append(x, c) = Append(s \o x, c)
      BY ConcatAppend, ConcatProperties
    <3>2. Scan(step, a, Append(s \o x, c)) = step[c][Scan(step, a, s \o x)]
      BY <3>1, ScanAppend
    <3> QED BY <3>1, <3>2
  <2>2. Scan(step, Scan(step, a, s), Append(x, c)) =
          step[c][Scan(step, Scan(step, a, s), x)]
    BY ScanAppend
  <2> QED BY <1>2, <2>1, <2>2, AppendProperties
<1>3. Seq(C) \subseteq T
  <2> HIDE DEF T
  <2> QED BY <1>1, <1>2, SeqInduct
<1> QED BY <1>3

-----------------------------------------------------------------------------
(* Escaping *)

LEMMA SpecialCharacters ==
  /\ Backslash \in Characters /\ Bar \in Characters /\ Comma \in Characters
  /\ Backslash # Bar /\ Backslash # Comma /\ Bar # Comma
BY NamesAssumption DEF Special, Backslash, Bar, Comma

LEMMA ReplaceAppend ==
  ASSUME NEW c \in Special, NEW s \in Text, NEW d \in Characters
  PROVE  /\ Replace(s, c) \in Text
         /\ Replace(<<>>, c) = <<>>
         /\ Replace(Append(s, d), c) =
              IF d = c THEN Append(Append(Replace(s, c), Backslash), c)
                       ELSE Append(Replace(s, c), d)
<1> DEFINE Piece(x) == IF x = c THEN <<Backslash, c>> ELSE <<x>>
           Pieces(r) == [i \in DOMAIN r |-> Piece(r[i])]
<1>1. c \in Characters /\ Backslash \in Characters
  BY NamesAssumption, SpecialCharacters
<1>2. \A x \in Characters : Piece(x) \in Text
  BY <1>1 DEF Text
<1> HIDE DEF Piece
<1>3. ASSUME NEW r \in Text
      PROVE  Pieces(r) \in Seq(Text) /\ Len(Pieces(r)) = Len(r)
  <2>1. Len(r) \in Nat /\ DOMAIN r = 1..Len(r) /\ \A i \in 1..Len(r) : r[i] \in Characters
    BY LenProperties, ElementOfSeq DEF Text
  <2>2. Pieces(r) \in [1..Len(r) -> Text]
    BY <1>2, <2>1
  <2> HIDE DEF Pieces
  <2> QED BY <2>1, <2>2, FcnIsSeq
<1>4. Pieces(Append(s, d)) = Append(Pieces(s), Piece(d))
  <2> DEFINE n == Len(s)
             st == Append(s, d)
  <2>1. /\ n \in Nat /\ st \in Text /\ Len(st) = n + 1 /\ st[n + 1] = d
        /\ \A i \in 1..n : st[i] = s[i]
        /\ DOMAIN st = 1..n + 1 /\ DOMAIN s = 1..n
    BY AppendProperties, LenProperties DEF Text
  <2> HIDE DEF st
  <2>2. /\ Pieces(s) \in Seq(Text) /\ Pieces(st) \in Seq(Text) /\ Piece(d) \in Text
        /\ Len(Pieces(s)) = n /\ Len(Pieces(st)) = n + 1
    BY <1>2, <1>3, <2>1
  <2>3. /\ Pieces(st)[n + 1] = Piece(d)
        /\ \A i \in 1..n : Pieces(st)[i] = Pieces(s)[i]
    BY <2>1
  <2> HIDE DEF Pieces
  <2> QED BY <2>2, <2>3, IsAppend DEF st
<1>5. \A r : Replace(r, c) = FlattenSeq(Pieces(r))
  BY DEF Replace, Piece
<1>6. Pieces(<<>>) = <<>>
  OBVIOUS
<1> HIDE DEF Pieces
<1>7. Replace(s, c) \in Text /\ Replace(<<>>, c) = <<>>
  BY <1>3, <1>5, <1>6, FlattenTyped, FlattenAppend DEF Text
<1>8. Replace(Append(s, d), c) = Replace(s, c) \o Piece(d)
  <2>1. Pieces(s) \in Seq(Seq(Characters)) /\ Piece(d) \in Seq(Characters)
    BY <1>2, <1>3 DEF Text
  <2>2. FlattenSeq(Append(Pieces(s), Piece(d))) = FlattenSeq(Pieces(s)) \o Piece(d)
    BY <2>1, FlattenAppend
  <2> QED BY <1>4, <1>5, <2>2
<1>9. CASE d = c
  <2>1. Piece(d) = Append(<<Backslash>>, c)
    BY <1>9 DEF Piece
  <2>2. <<Backslash>> \in Text /\ c \in Characters
    BY <1>1 DEF Text
  <2>3. Replace(s, c) \o Append(<<Backslash>>, c) = Append(Replace(s, c) \o <<Backslash>>, c)
    BY <1>7, <2>2, ConcatAppend DEF Text
  <2>4. Replace(s, c) \o <<Backslash>> = Append(Replace(s, c), Backslash)
    BY <1>1, <1>7, AppendIsConcat DEF Text
  <2> QED BY <1>7, <1>8, <1>9, <2>1, <2>3, <2>4
<1>10. CASE d # c
  BY <1>7, <1>8, <1>10, AppendIsConcat DEF Text, Piece
<1> QED BY <1>7, <1>9, <1>10

LEMMA ReplaceTwo ==
  ASSUME NEW c \in Special, NEW s \in Text,
         NEW d \in Characters, NEW e \in Characters, d # c, e # c
  PROVE  Replace(Append(Append(s, d), e), c) = Append(Append(Replace(s, c), d), e)
<1>1. Append(s, d) \in Text
  BY AppendProperties DEF Text
<1>2. Replace(Append(s, d), c) = Append(Replace(s, c), d)
  BY ReplaceAppend
<1>3. Replace(Append(Append(s, d), e), c) = Append(Replace(Append(s, d), c), e)
  BY <1>1, ReplaceAppend
<1> QED BY <1>2, <1>3

\* Escape, a character at a time.
LEMMA EscapeAppend ==
  ASSUME NEW s \in Text, NEW d \in Characters
  PROVE  /\ Escape(s) \in Text
         /\ Escape(<<>>) = <<>>
         /\ Escape(Append(s, d)) =
              IF d \in Special THEN Append(Append(Escape(s), Backslash), d)
                               ELSE Append(Escape(s), d)
<1> USE SpecialCharacters
<1>1. Backslash \in Special /\ Bar \in Special /\ Comma \in Special
  BY DEF Special
<1> DEFINE x == Replace(s, Backslash)
           y == Replace(x, Bar)
<1>2. x \in Text /\ y \in Text /\ Escape(s) = Replace(y, Comma) /\ Escape(s) \in Text
  BY <1>1, ReplaceAppend DEF Escape
<1>3. Escape(<<>>) = <<>>
  BY <1>1, <1>2, ReplaceAppend DEF Escape
<1> HIDE DEF x, y
<1>5. CASE d = Backslash
  <2>1. Replace(Append(s, d), Backslash) = Append(Append(x, Backslash), Backslash)
    BY <1>1, <1>5, ReplaceAppend DEF x
  <2>2. Replace(Append(Append(x, Backslash), Backslash), Bar) =
          Append(Append(y, Backslash), Backslash)
    BY <1>1, <1>2, ReplaceTwo DEF y
  <2>3. Replace(Append(Append(y, Backslash), Backslash), Comma) =
          Append(Append(Escape(s), Backslash), Backslash)
    <3>1. Backslash # Comma
      OBVIOUS
    <3>2. Replace(Append(Append(y, Backslash), Backslash), Comma) =
            Append(Append(Replace(y, Comma), Backslash), Backslash)
      BY <1>1, <1>2, <3>1, ReplaceTwo
    <3> QED BY <1>2, <3>2
  <2> QED BY <1>1, <1>2, <1>3, <1>5, <2>1, <2>2, <2>3 DEF Escape
<1>6. CASE d = Bar
  <2>1. Replace(Append(s, d), Backslash) = Append(x, Bar)
    BY <1>1, <1>6, ReplaceAppend DEF x
  <2>2. Replace(Append(x, Bar), Bar) = Append(Append(y, Backslash), Bar)
    BY <1>1, <1>2, ReplaceAppend DEF y
  <2>3. Replace(Append(Append(y, Backslash), Bar), Comma) =
          Append(Append(Escape(s), Backslash), Bar)
    <3>1. Replace(Append(Append(y, Backslash), Bar), Comma) =
            Append(Append(Replace(y, Comma), Backslash), Bar)
      BY <1>1, <1>2, ReplaceTwo
    <3> QED BY <1>2, <3>1
  <2> QED BY <1>1, <1>2, <1>3, <1>6, <2>1, <2>2, <2>3 DEF Escape
<1>7. CASE d \notin {Backslash, Bar}
  <2>1. Replace(Append(s, d), Backslash) = Append(x, d)
    BY <1>1, <1>7, ReplaceAppend DEF x
  <2>2. Replace(Append(x, d), Bar) = Append(y, d)
    BY <1>1, <1>2, <1>7, ReplaceAppend DEF y
  <2>3. Replace(Append(y, d), Comma) =
          IF d = Comma THEN Append(Append(Escape(s), Backslash), Comma)
                     ELSE Append(Escape(s), d)
    BY <1>1, <1>2, ReplaceAppend
  <2>4. d \in Special <=> d = Comma
    BY <1>7 DEF Special
  <2> QED BY <1>2, <1>3, <2>1, <2>2, <2>3, <2>4 DEF Escape
<1> QED BY <1>5, <1>6, <1>7

\* Only the empty name is written as nothing.
LEMMA EscapeNonempty ==
  ASSUME NEW s \in Text, s # <<>>
  PROVE  Escape(s) # <<>>
<1>1. PICK r \in Text, c \in Characters : s = Append(r, c)
  BY SequenceEmptyOrAppend DEF Text
<1>2. Escape(r) \in Text /\ Append(Escape(r), Backslash) \in Text
  BY EscapeAppend, SpecialCharacters, AppendProperties DEF Text
<1> QED BY <1>1, <1>2, EscapeAppend, AppendProperties DEF Text

UnescapeState == [out : Text, esc : BOOLEAN]

LEMMA UnescapeStepIs ==
  ASSUME NEW c \in Characters, NEW out \in Text
  PROVE  /\ UnescapeStep[c][[out |-> out, esc |-> FALSE]] =
              IF c = Backslash THEN [out |-> out, esc |-> TRUE]
                               ELSE [out |-> Append(out, c), esc |-> FALSE]
         /\ c \in Special =>
              UnescapeStep[c][[out |-> out, esc |-> TRUE]] =
                [out |-> Append(out, c), esc |-> FALSE]
<1> DEFINE a == [out |-> out, esc |-> FALSE]
           b == [out |-> out, esc |-> TRUE]
<1>1. a \in UnescapeState /\ b \in UnescapeState
  BY DEF UnescapeState
<1>2. \A z \in UnescapeState :
        UnescapeStep[c][z] =
          IF z.esc
            THEN [out |-> Append(IF c \in Special THEN z.out
                                                  ELSE Append(z.out, Backslash), c),
                  esc |-> FALSE]
            ELSE IF c = Backslash THEN [out |-> z.out, esc |-> TRUE]
                                  ELSE [out |-> Append(z.out, c), esc |-> FALSE]
  BY DEF UnescapeStep, UnescapeState
<1>3. a.esc = FALSE /\ a.out = out /\ b.esc = TRUE /\ b.out = out
  OBVIOUS
<1> HIDE DEF a, b
<1>4. UnescapeStep[c][a] = IF c = Backslash THEN [out |-> out, esc |-> TRUE]
                                          ELSE [out |-> Append(out, c), esc |-> FALSE]
  BY <1>1, <1>2, <1>3
<1>5. c \in Special => UnescapeStep[c][b] = [out |-> Append(out, c), esc |-> FALSE]
  BY <1>1, <1>2, <1>3
<1> QED BY <1>4, <1>5 DEF a, b

\* unescape undoes escape, whatever is in a name (wire.rs, escape, unescape).
THEOREM UnescapeUndoesEscape ==
  ASSUME NEW s \in Text
  PROVE  Unescape(Escape(s)) = s
<1> DEFINE start == [out |-> <<>>, esc |-> FALSE]
           T == {x \in Text : Scan(UnescapeStep, start, Escape(x)) =
                                [out |-> x, esc |-> FALSE]}
<1>1. <<>> \in T
  BY EscapeAppend, ScanEmpty, EmptySeq, SpecialCharacters DEF Text
<1>2. ASSUME NEW x \in Text, NEW c \in Characters, x \in T
      PROVE  Append(x, c) \in T
  <2> DEFINE e == Escape(x)
             a == [out |-> x, esc |-> FALSE]
             b == [out |-> x, esc |-> TRUE]
             z == [out |-> Append(x, c), esc |-> FALSE]
  <2>1. e \in Seq(Characters) /\ Append(x, c) \in Text
        /\ Backslash \in Characters /\ Append(e, Backslash) \in Seq(Characters)
    BY EscapeAppend, SpecialCharacters, AppendProperties DEF Text
  <2>3. Scan(UnescapeStep, start, e) = a
    BY <1>2
  <2>4. c # Backslash => UnescapeStep[c][a] = z
    BY UnescapeStepIs
  <2>5. UnescapeStep[Backslash][a] = b
    BY <2>1, UnescapeStepIs
  <2>6. c \in Special => UnescapeStep[c][b] = z
    BY UnescapeStepIs
  <2>7. Backslash \in Special
    BY DEF Special
  <2> HIDE DEF e, a, b, z, start
  <2>8. Scan(UnescapeStep, start, Append(e, c)) = UnescapeStep[c][a]
    BY <2>1, <2>3, ScanAppend
  <2>9. Scan(UnescapeStep, start, Append(Append(e, Backslash), c)) =
          UnescapeStep[c][UnescapeStep[Backslash][a]]
    <3>1. Scan(UnescapeStep, start, Append(e, Backslash)) = UnescapeStep[Backslash][a]
      BY <2>1, <2>3, ScanAppend
    <3>2. Scan(UnescapeStep, start, Append(Append(e, Backslash), c)) =
            UnescapeStep[c][Scan(UnescapeStep, start, Append(e, Backslash))]
      <4> DEFINE u == Append(e, Backslash)
      <4>1. u \in Seq(Characters)
        BY <2>1
      <4> HIDE DEF u
      <4>2. Scan(UnescapeStep, start, Append(u, c)) =
              UnescapeStep[c][Scan(UnescapeStep, start, u)]
        BY <4>1, ScanAppend
      <4> QED BY <4>2 DEF u
    <3> QED BY <3>1, <3>2
  <2>10. Scan(UnescapeStep, start, Escape(Append(x, c))) = z
    BY <2>4, <2>5, <2>6, <2>7, <2>8, <2>9, EscapeAppend DEF e
  <2> QED BY <2>1, <2>10 DEF z
<1>3. Text \subseteq T
  <2> HIDE DEF T
  <2> QED BY <1>1, <1>2, SeqInduct DEF Text
<1>4. Scan(UnescapeStep, start, Escape(s)) = [out |-> s, esc |-> FALSE]
  BY <1>3
<1> QED BY <1>4 DEF Unescape

-----------------------------------------------------------------------------
(* Splitting *)

SplitState == [done : Seq(Text), cur : Text, esc : BOOLEAN]

\* Where split_unescaped is, by the parts it has and the part it is in; in
\* the second, the next character is escaped.
Parse(d, k) == [done |-> d, cur |-> k, esc |-> FALSE]
ParseNext(d, k) == [done |-> d, cur |-> k, esc |-> TRUE]

LEMMA SplitStepIs ==
  ASSUME NEW c \in Characters, NEW sep, NEW d \in Seq(Text), NEW k \in Text
  PROVE  /\ SplitStep(sep)[c][Parse(d, k)] =
              IF c = sep THEN Parse(Append(d, k), <<>>)
              ELSE IF c = Backslash THEN ParseNext(d, Append(k, c))
                                    ELSE Parse(d, Append(k, c))
         /\ SplitStep(sep)[c][ParseNext(d, k)] = Parse(d, Append(k, c))
<1> DEFINE a == Parse(d, k)
           b == ParseNext(d, k)
<1>1. a \in SplitState /\ b \in SplitState
  BY DEF SplitState, Parse, ParseNext
<1>2. \A z \in SplitState :
        SplitStep(sep)[c][z] =
          IF ~z.esc /\ c = sep
            THEN [done |-> Append(z.done, z.cur), cur |-> <<>>, esc |-> FALSE]
            ELSE [done |-> z.done, cur |-> Append(z.cur, c),
                  esc |-> ~z.esc /\ c = Backslash]
  BY DEF SplitStep, SplitState
<1>3. /\ a.esc = FALSE /\ a.done = d /\ a.cur = k
      /\ b.esc = TRUE /\ b.done = d /\ b.cur = k
  BY DEF Parse, ParseNext
<1> HIDE DEF a, b
<1>4. SplitStep(sep)[c][a] =
        IF c = sep
          THEN [done |-> Append(d, k), cur |-> <<>>, esc |-> FALSE]
          ELSE [done |-> d, cur |-> Append(k, c), esc |-> c = Backslash]
  BY <1>1, <1>2, <1>3
<1>5. SplitStep(sep)[c][b] = [done |-> d, cur |-> Append(k, c), esc |-> FALSE]
  BY <1>1, <1>2, <1>3
<1> QED BY <1>4, <1>5 DEF Parse, ParseNext, a, b

LEMMA PairIs ==
  ASSUME NEW C, NEW b \in C, NEW c \in C
  PROVE  <<b>> \in Seq(C) /\ <<b, c>> \in Seq(C) /\ Append(<<b>>, c) = <<b, c>>
<1>1. <<b>> \in Seq(C) /\ <<b, c>> \in Seq(C)
  OBVIOUS
<1> DEFINE p == <<b>>
           q == <<b, c>>
<1>2. Len(p) = 1 /\ Len(q) = 2 /\ p[1] = b /\ q[1] = b /\ q[2] = c
  OBVIOUS
<1> HIDE DEF p, q
<1>3. q = Append(p, c)
  <2>1. p \in Seq(C) /\ q \in Seq(C) /\ Len(q) = Len(p) + 1 /\ q[Len(p) + 1] = c
    BY <1>1, <1>2 DEF p, q
  <2>2. \A i \in 1..Len(p) : q[i] = p[i]
    BY <1>2
  <2> QED BY <2>1, <2>2, IsAppend
<1> QED BY <1>1, <1>3 DEF p, q

LEMMA AppendPair ==
  ASSUME NEW s \in Text, NEW c \in Characters
  PROVE  /\ <<Backslash>> \in Text /\ <<Backslash, c>> \in Text
         /\ s \o <<Backslash, c>> = Append(Append(s, Backslash), c)
<1>1. /\ <<Backslash>> \in Text /\ <<Backslash, c>> \in Text
      /\ Append(<<Backslash>>, c) = <<Backslash, c>>
  BY SpecialCharacters, PairIs DEF Text
<1>2. Append(s, Backslash) = s \o <<Backslash>>
  BY SpecialCharacters, AppendIsConcat DEF Text
<1>3. s \o Append(<<Backslash>>, c) = Append(s \o <<Backslash>>, c)
  BY <1>1, ConcatAppend DEF Text
<1> QED BY <1>1, <1>2, <1>3

\* A text without a separator that counts, and not ending in an escape.
Plain(t, sep) ==
  \A d \in Seq(Text), k \in Text :
    Scan(SplitStep(sep), Parse(d, k), t) = Parse(d, k \o t)

LEMMA PlainEmpty ==
  ASSUME NEW sep
  PROVE  Plain(<<>>, sep)
<1>1. ASSUME NEW d \in Seq(Text), NEW k \in Text
      PROVE  Scan(SplitStep(sep), Parse(d, k), <<>>) = Parse(d, k \o <<>>)
  BY ScanEmpty, ConcatEmptySeq DEF Text
<1> QED BY <1>1 DEF Plain

LEMMA PlainConcat ==
  ASSUME NEW sep, NEW s \in Text, NEW t \in Text, Plain(s, sep), Plain(t, sep)
  PROVE  Plain(s \o t, sep)
<1> SUFFICES ASSUME NEW d \in Seq(Text), NEW k \in Text
             PROVE  Scan(SplitStep(sep), Parse(d, k), s \o t) =
                      Parse(d, k \o (s \o t))
  BY DEF Plain
<1> DEFINE step == SplitStep(sep)
           a == Parse(d, k)
<1>1. Scan(step, a, s) = Parse(d, k \o s)
  BY DEF Plain
<1>2. k \o s \in Text
  BY ConcatProperties DEF Text
<1>3. Scan(step, Parse(d, k \o s), t) = Parse(d, (k \o s) \o t)
  BY <1>2 DEF Plain
<1>4. (k \o s) \o t = k \o (s \o t)
  BY ConcatAssociative DEF Text
<1> HIDE DEF step, a
<1>5. Scan(step, a, s \o t) = Scan(step, Scan(step, a, s), t)
  BY ScanConcat DEF Text
<1> QED BY <1>1, <1>3, <1>4, <1>5 DEF step, a

LEMMA PlainOne ==
  ASSUME NEW sep, NEW c \in Characters, c # sep, c # Backslash
  PROVE  <<c>> \in Text /\ Plain(<<c>>, sep)
<1>1. <<c>> = Append(<<>>, c) /\ <<c>> \in Text /\ <<>> \in Text
  BY DEF Text
<1>2. ASSUME NEW d \in Seq(Text), NEW k \in Text
      PROVE  Scan(SplitStep(sep), Parse(d, k), <<c>>) = Parse(d, k \o <<c>>)
  <2> DEFINE step == SplitStep(sep)
             a == Parse(d, k)
  <2>1. step[c][a] = Parse(d, Append(k, c))
    BY SplitStepIs
  <2>2. Append(k, c) = k \o <<c>>
    BY AppendIsConcat DEF Text
  <2> HIDE DEF step, a
  <2>3. Scan(step, a, Append(<<>>, c)) = step[c][Scan(step, a, <<>>)]
    BY <1>1, ScanAppend DEF Text
  <2>4. Scan(step, a, <<>>) = a
    BY ScanEmpty
  <2> QED BY <1>1, <2>1, <2>2, <2>3, <2>4 DEF step, a
<1> QED BY <1>1, <1>2 DEF Plain

\* An escaped character.
LEMMA PlainPair ==
  ASSUME NEW sep, NEW c \in Characters, sep # Backslash
  PROVE  <<Backslash, c>> \in Text /\ Plain(<<Backslash, c>>, sep)
<1>1. /\ Backslash \in Characters
      /\ <<Backslash, c>> = Append(<<Backslash>>, c) /\ <<Backslash, c>> \in Text
      /\ <<Backslash>> = Append(<<>>, Backslash) /\ <<Backslash>> \in Text
      /\ <<>> \in Text
  BY SpecialCharacters DEF Text
<1>2. ASSUME NEW d \in Seq(Text), NEW k \in Text
      PROVE  Scan(SplitStep(sep), Parse(d, k), <<Backslash, c>>) =
               Parse(d, k \o <<Backslash, c>>)
  <2> DEFINE step == SplitStep(sep)
             a == Parse(d, k)
             j == Append(k, Backslash)
  <2>1. j \in Text
    BY <1>1, AppendProperties DEF Text
  <2> HIDE DEF j
  <2>2. step[Backslash][a] = ParseNext(d, j)
    BY <1>1, SplitStepIs DEF j
  <2>3. step[c][ParseNext(d, j)] = Parse(d, Append(j, c))
    BY <2>1, SplitStepIs
  <2>4. Append(j, c) = k \o <<Backslash, c>>
    BY AppendPair DEF j
  <2> HIDE DEF step, a
  <2>5. Scan(step, a, Append(<<>>, Backslash)) = step[Backslash][Scan(step, a, <<>>)]
    BY <1>1, ScanAppend DEF Text
  <2>6. Scan(step, a, <<>>) = a
    BY ScanEmpty
  <2>7. Scan(step, a, Append(<<Backslash>>, c)) = step[c][Scan(step, a, <<Backslash>>)]
    BY <1>1, ScanAppend DEF Text
  <2>8. Scan(step, a, <<Backslash>>) = ParseNext(d, j)
    BY <1>1, <2>2, <2>5, <2>6
  <2>9. Scan(step, a, <<Backslash, c>>) = step[c][ParseNext(d, j)]
    BY <1>1, <2>7, <2>8
  <2>10. Scan(step, a, <<Backslash, c>>) = Parse(d, Append(j, c))
    BY <2>3, <2>9 DEF step
  <2> QED BY <2>4, <2>10 DEF step, a
<1> QED BY <1>1, <1>2 DEF Plain

\* An escaped name has no separator that counts.
LEMMA PlainEscape ==
  ASSUME NEW sep \in {Bar, Comma}
  PROVE  \A s \in Text : Plain(Escape(s), sep)
<1> DEFINE T == {x \in Text : Plain(Escape(x), sep)}
<1>0. sep # Backslash /\ sep \in Special
  BY SpecialCharacters DEF Special
<1>1. <<>> \in T
  BY EscapeAppend, PlainEmpty, EmptySeq, SpecialCharacters DEF Text
<1>2. ASSUME NEW x \in Text, NEW c \in Characters, x \in T
      PROVE  Append(x, c) \in T
  <2> DEFINE e == Escape(x)
  <2>1. e \in Text /\ Plain(e, sep) /\ Append(x, c) \in Text
    BY <1>2, EscapeAppend, AppendProperties DEF Text
  <2> HIDE DEF e
  <2>2. CASE c \in Special
    <3>1. <<Backslash, c>> \in Text /\ Plain(<<Backslash, c>>, sep)
      BY <1>0, PlainPair
    <3>2. Escape(Append(x, c)) = Append(Append(e, Backslash), c)
      BY <2>2, EscapeAppend DEF e
    <3>3. Append(Append(e, Backslash), c) = e \o <<Backslash, c>>
      BY <2>1, AppendPair
    <3> QED BY <2>1, <3>1, <3>2, <3>3, PlainConcat
  <2>3. CASE c \notin Special
    <3>1. <<c>> \in Text /\ Plain(<<c>>, sep)
      BY <1>0, <2>3, PlainOne DEF Special
    <3>2. Escape(Append(x, c)) = Append(e, c) /\ Append(e, c) = e \o <<c>>
      BY <2>1, <2>3, EscapeAppend, AppendIsConcat DEF e, Text
    <3> QED BY <2>1, <3>1, <3>2, PlainConcat
  <2> QED BY <2>2, <2>3
<1>3. Text \subseteq T
  <2> HIDE DEF T
  <2> QED BY <1>1, <1>2, SeqInduct DEF Text
<1> QED BY <1>3

\* Join, a part at a time.
LEMMA JoinAppend ==
  ASSUME NEW sep \in Characters, NEW ps \in Seq(Text), NEW p \in Text
  PROVE  /\ Join(ps, sep) \in Text
         /\ Join(<<>>, sep) = <<>>
         /\ Join(Append(ps, p), sep) =
              IF ps = <<>> THEN p ELSE Join(ps, sep) \o (<<sep>> \o p)
<1> DEFINE Piece(i, x) == IF i = 1 THEN x ELSE <<sep>> \o x
           Pieces(r) == [i \in DOMAIN r |-> Piece(i, r[i])]
<1>1. \A x \in Text, i \in Nat : Piece(i, x) \in Text
  <2>1. <<sep>> \in Text
    BY DEF Text
  <2> QED BY <2>1, ConcatProperties DEF Text
<1>2. \A r : Join(r, sep) = FlattenSeq(Pieces(r))
  <2> SUFFICES ASSUME NEW r PROVE Join(r, sep) = FlattenSeq(Pieces(r))
    OBVIOUS
  <2>1. Pieces(r) = [i \in DOMAIN r |-> IF i = 1 THEN r[1] ELSE <<sep>> \o r[i]]
    OBVIOUS
  <2> HIDE DEF Pieces
  <2> QED BY <2>1 DEF Join
<1> HIDE DEF Piece
<1>3. ASSUME NEW r \in Seq(Text)
      PROVE  Pieces(r) \in Seq(Text) /\ Len(Pieces(r)) = Len(r)
  <2>1. Len(r) \in Nat /\ DOMAIN r = 1..Len(r) /\ \A i \in 1..Len(r) : r[i] \in Text
    BY LenProperties, ElementOfSeq
  <2>2. Pieces(r) \in [1..Len(r) -> Text]
    BY <1>1, <2>1
  <2> HIDE DEF Pieces
  <2> QED BY <2>1, <2>2, FcnIsSeq
<1>4. Pieces(Append(ps, p)) = Append(Pieces(ps), Piece(Len(ps) + 1, p))
  <2> DEFINE n == Len(ps)
             st == Append(ps, p)
  <2>1. /\ n \in Nat /\ st \in Seq(Text) /\ Len(st) = n + 1 /\ st[n + 1] = p
        /\ \A i \in 1..n : st[i] = ps[i]
        /\ DOMAIN st = 1..n + 1 /\ DOMAIN ps = 1..n
    BY AppendProperties, LenProperties
  <2> HIDE DEF st, n
  <2>2. /\ Pieces(ps) \in Seq(Text) /\ Pieces(st) \in Seq(Text) /\ Piece(n + 1, p) \in Text
        /\ Len(Pieces(ps)) = n /\ Len(Pieces(st)) = n + 1
    BY <1>1, <1>3, <2>1 DEF n
  <2>3. /\ Pieces(st)[n + 1] = Piece(n + 1, p)
        /\ \A i \in 1..n : Pieces(st)[i] = Pieces(ps)[i]
    BY <2>1
  <2> HIDE DEF Pieces
  <2> QED BY <2>2, <2>3, IsAppend DEF st, n
<1>5. Pieces(<<>>) = <<>>
  OBVIOUS
<1> HIDE DEF Pieces
<1>6. Join(ps, sep) \in Text /\ Join(<<>>, sep) = <<>>
  BY <1>2, <1>3, <1>5, FlattenTyped, FlattenAppend DEF Text
<1>7. Len(ps) \in Nat
  BY LenProperties
<1>8. Join(Append(ps, p), sep) = Join(ps, sep) \o Piece(Len(ps) + 1, p)
  <2> DEFINE x == Pieces(ps)
             y == Piece(Len(ps) + 1, p)
  <2>1. x \in Seq(Seq(Characters)) /\ y \in Seq(Characters)
    BY <1>1, <1>3, <1>7 DEF Text
  <2> HIDE DEF x, y
  <2>2. FlattenSeq(Append(x, y)) = FlattenSeq(x) \o y
    BY <2>1, FlattenAppend
  <2> QED BY <1>2, <1>4, <2>2 DEF x, y
<1>9. CASE ps = <<>>
  <2>1. Len(ps) + 1 = 1
    BY <1>9
  <2>2. Piece(Len(ps) + 1, p) = p
    BY <2>1 DEF Piece
  <2>3. <<>> \o p = p
    BY ConcatEmptySeq DEF Text
  <2> QED BY <1>6, <1>8, <1>9, <2>2, <2>3
<1>10. CASE ps # <<>>
  <2>1. Len(ps) + 1 # 1
    BY <1>7, <1>10, EmptySeq
  <2>2. Piece(Len(ps) + 1, p) = <<sep>> \o p
    BY <2>1 DEF Piece
  <2> QED BY <1>6, <1>8, <1>10, <2>2
<1> QED BY <1>9, <1>10

\* split_unescaped undoes join.
LEMMA SplitJoin ==
  ASSUME NEW sep \in Characters, NEW ps \in Seq({t \in Text : Plain(t, sep)}),
         ps # <<>>
  PROVE  Split(Join(ps, sep), sep) = ps
<1> DEFINE P == {t \in Text : Plain(t, sep)}
           step == SplitStep(sep)
           start == Parse(<<>>, <<>>)
           T == {x \in Seq(P) : \A p \in P : Scan(step, start, Join(Append(x, p), sep)) =
                                               Parse(x, p)}
<1>1. <<>> \in Text /\ <<>> \in Seq(Text) /\ <<>> \in Seq(P) /\ <<sep>> \in Text
      /\ <<sep>> = Append(<<>>, sep)
  BY DEF Text
<1>2. \A x \in Seq(P) : x \in Seq(Text)
  OBVIOUS
<1>3. <<>> \in T
  <2> SUFFICES ASSUME NEW p \in P
               PROVE  Scan(step, start, Join(Append(<<>>, p), sep)) = Parse(<<>>, p)
    BY <1>1
  <2>1. Join(Append(<<>>, p), sep) = p
    BY <1>1, JoinAppend
  <2>2. Scan(step, start, p) = Parse(<<>>, <<>> \o p)
    BY <1>1 DEF Plain
  <2>3. <<>> \o p = p
    BY ConcatEmptySeq DEF Text
  <2> QED BY <2>1, <2>2, <2>3
<1>4. ASSUME NEW x \in Seq(P), NEW q \in P, x \in T
      PROVE  Append(x, q) \in T
  <2> DEFINE y == Append(x, q)
  <2>1. y \in Seq(P) /\ y \in Seq(Text) /\ y # <<>>
    BY <1>2, AppendProperties
  <2> SUFFICES ASSUME NEW p \in P
               PROVE  Scan(step, start, Join(Append(y, p), sep)) = Parse(y, p)
    BY <2>1
  <2> DEFINE j == Join(y, sep)
             r == <<sep>> \o p
  <2>2. Scan(step, start, j) = Parse(x, q)
    BY <1>4
  <2>3. j \in Text /\ r \in Text
    BY <1>1, <2>1, JoinAppend, ConcatProperties DEF Text
  <2>4. step[sep][Parse(x, q)] = Parse(y, <<>>)
    BY <1>2, SplitStepIs
  <2>5. Scan(step, Parse(y, <<>>), p) = Parse(y, <<>> \o p)
    BY <1>1, <2>1 DEF Plain
  <2>6. <<>> \o p = p
    BY ConcatEmptySeq DEF Text
  <2>7. Join(Append(y, p), sep) = j \o r
    <3> HIDE DEF y
    <3> QED BY <2>1, JoinAppend
  <2> HIDE DEF step, start, j, y
  <2>8. Scan(step, start, j \o r) = Scan(step, Parse(x, q), r)
    <3> HIDE DEF r
    <3> QED BY <2>2, <2>3, ScanConcat DEF Text
  <2>9. Scan(step, Parse(x, q), r) = Scan(step, Scan(step, Parse(x, q), <<sep>>), p)
    BY <1>1, ScanConcat DEF Text
  <2>10. Scan(step, Parse(x, q), <<sep>>) = step[sep][Parse(x, q)]
    <3>1. Scan(step, Parse(x, q), Append(<<>>, sep)) =
            step[sep][Scan(step, Parse(x, q), <<>>)]
      BY <1>1, ScanAppend DEF Text
    <3>2. Scan(step, Parse(x, q), <<>>) = Parse(x, q)
      BY ScanEmpty
    <3> QED BY <1>1, <3>1, <3>2
  <2> QED BY <2>4, <2>5, <2>6, <2>7, <2>8, <2>9, <2>10
<1>5. Seq(P) \subseteq T
  <2> HIDE DEF T, P
  <2> QED BY <1>3, <1>4, SeqInduct
<1>6. PICK x \in Seq(P), p \in P : ps = Append(x, p)
  <2> HIDE DEF P
  <2>1. ps \in Seq(P)
    BY DEF P
  <2> QED BY <2>1, SequenceEmptyOrAppend
<1>7. Scan(step, start, Join(ps, sep)) = Parse(x, p)
  BY <1>5, <1>6
<1> HIDE DEF step, P
<1> QED BY <1>6, <1>7 DEF Split, Parse, step

\* A list of plain parts is plain, when its separator is.
LEMMA PlainJoin ==
  ASSUME NEW sep, NEW comma \in Characters, comma # sep, comma # Backslash,
         NEW ps \in Seq({t \in Text : Plain(t, sep)})
  PROVE  Join(ps, comma) \in Text /\ Plain(Join(ps, comma), sep)
<1> DEFINE P == {t \in Text : Plain(t, sep)}
           T == {x \in Seq(P) : Join(x, comma) \in P}
<1>0. \A x \in Seq(P) : x \in Seq(Text)
  OBVIOUS
<1>1. <<>> \in T
  <2>1. <<>> \in Text /\ <<>> \in Seq(Text) /\ <<>> \in Seq(P)
    BY DEF Text
  <2>2. Join(<<>>, comma) = <<>>
    BY <2>1, JoinAppend
  <2> QED BY <2>1, <2>2, PlainEmpty
<1>2. ASSUME NEW x \in Seq(P), NEW p \in P, x \in T
      PROVE  Append(x, p) \in T
  <2> DEFINE j == Join(x, comma)
  <2>1. j \in P /\ Append(x, p) \in Seq(P)
    BY <1>2, AppendProperties
  <2>2. <<comma>> \in P
    BY PlainOne
  <2>3. Join(Append(x, p), comma) = IF x = <<>> THEN p ELSE j \o (<<comma>> \o p)
    BY <1>0, JoinAppend
  <2> HIDE DEF j
  <2>4. \A s \in P, t \in P : s \o t \in P
    BY PlainConcat, ConcatProperties DEF Text
  <2> HIDE DEF P
  <2>5. <<comma>> \o p \in P
    BY <2>2, <2>4
  <2>6. j \o (<<comma>> \o p) \in P
    BY <2>1, <2>4, <2>5
  <2> QED BY <2>1, <2>3, <2>6
<1>3. Seq(P) \subseteq T
  <2> HIDE DEF T, P
  <2> QED BY <1>1, <1>2, SeqInduct
<1> QED BY <1>3

\* The parts of a list, escaped.
LEMMA EscapedItems ==
  ASSUME NEW items \in Seq(Text), NEW sep \in {Bar, Comma}
  PROVE  [i \in DOMAIN items |-> Escape(items[i])] \in Seq({t \in Text : Plain(t, sep)})
<1>1. Len(items) \in Nat /\ DOMAIN items = 1..Len(items)
      /\ \A i \in 1..Len(items) : items[i] \in Text
  BY LenProperties, ElementOfSeq
<1> DEFINE P == {t \in Text : Plain(t, sep)}
           e == [i \in DOMAIN items |-> Escape(items[i])]
<1>2. \A t \in Text : Escape(t) \in P
  <2>1. Backslash \in Characters
    BY SpecialCharacters
  <2> QED BY <2>1, EscapeAppend, PlainEscape
<1> HIDE DEF P
<1>3. e \in [1..Len(items) -> P]
  BY <1>1, <1>2
<1> HIDE DEF e
<1>4. e \in Seq(P)
  BY <1>1, <1>3, FcnIsSeq
<1> QED BY <1>4 DEF P, e

LEMMA EncodedListIsPlain ==
  ASSUME NEW items \in Seq(Text)
  PROVE  EncodeList(items) \in Text /\ Plain(EncodeList(items), Bar)
BY EscapedItems, PlainJoin, SpecialCharacters DEF EncodeList

LEMMA SplitEmpty ==
  ASSUME NEW sep
  PROVE  Split(<<>>, sep) = << <<>> >>
<1> DEFINE start == [done |-> <<>>, cur |-> <<>>, esc |-> FALSE]
<1>1. Scan(SplitStep(sep), start, <<>>) = start
  BY ScanEmpty
<1>2. start.done = <<>> /\ start.cur = <<>> /\ Append(<<>>, <<>>) = << <<>> >>
  OBVIOUS
<1> QED BY <1>1, <1>2 DEF Split

\* decode_list undoes encode_list, except for the list of one empty name,
\* which comes back as the empty list (wire.rs).
THEOREM DecodeUndoesEncodeList ==
  ASSUME NEW items \in Seq(Text)
  PROVE  DecodeList(EncodeList(items)) = IF items = << <<>> >> THEN <<>> ELSE items
<1> DEFINE P == {t \in Text : Plain(t, Comma)}
           e == [i \in DOMAIN items |-> Escape(items[i])]
           j == Join(e, Comma)
<1>1. Len(items) \in Nat /\ DOMAIN items = 1..Len(items) /\ DOMAIN e = DOMAIN items
      /\ \A i \in 1..Len(items) : items[i] \in Text /\ e[i] = Escape(items[i])
  BY LenProperties, ElementOfSeq
<1>2. e \in Seq(P) /\ e \in Seq(Text)
  <2>1. e \in Seq(P)
    BY EscapedItems
  <2> HIDE DEF e
  <2> QED BY <2>1
<1>3. e # <<>> => Split(j, Comma) = e
  BY <1>2, SplitJoin, SpecialCharacters
<1>4. e = <<>> <=> items = <<>>
  OBVIOUS
<1> HIDE DEF P
<1>5. EncodeList(items) = j
  BY DEF EncodeList
<1> HIDE DEF e
<1>6. CASE items = <<>>
  <2>1. j = <<>>
    <3>1. <<>> \in Text /\ <<>> \in Seq(Text)
      BY DEF Text
    <3>2. Join(<<>>, Comma) = <<>>
      BY <3>1, JoinAppend, SpecialCharacters
    <3> QED BY <1>4, <1>6, <3>2 DEF j
  <2>2. <<>> # << <<>> >>
    OBVIOUS
  <2> QED BY <1>5, <1>6, <2>1, <2>2 DEF DecodeList
<1>7. CASE items # <<>> /\ j = <<>>
  <2>1. e = << <<>> >>
    BY <1>3, <1>4, <1>7, SplitEmpty
  <2>2. Len(items) = 1 /\ e[1] = <<>>
    <3>1. DOMAIN e = 1..1 /\ e[1] = <<>>
      BY <2>1
    <3>2. 1..Len(items) = 1..1
      BY <1>1, <3>1
    <3>3. Len(items) = 1
      BY <1>1, <3>2
    <3> QED BY <3>1, <3>3
  <2>3. items[1] = <<>>
    BY <1>1, <2>2, EscapeNonempty
  <2>4. items = << <<>> >>
    <3> DEFINE o == << <<>> >>
    <3>1. o \in Seq(Text) /\ Len(o) = 1 /\ o[1] = <<>>
      BY DEF Text
    <3> HIDE DEF o
    <3>2. items = o
      BY <2>2, <2>3, <3>1, SeqEqual
    <3> QED BY <3>2 DEF o
  <2> QED BY <1>5, <1>7, <2>4 DEF DecodeList
<1>8. CASE items # <<>> /\ j # <<>>
  <2>1. DecodeList(j) = [i \in DOMAIN e |-> Unescape(e[i])]
    BY <1>3, <1>4, <1>8 DEF DecodeList
  <2>2. \A i \in DOMAIN e : Unescape(e[i]) = items[i]
    BY <1>1, UnescapeUndoesEscape
  <2>3. DecodeList(j) = [i \in DOMAIN items |-> items[i]]
    BY <1>1, <2>1, <2>2
  <2>4. items = [i \in DOMAIN items |-> items[i]]
    BY <1>1, SeqDef
  <2>5. items # << <<>> >>
    <3> SUFFICES ASSUME items = << <<>> >> PROVE FALSE
      OBVIOUS
    <3>1. Len(items) = 1 /\ items[1] = <<>>
      OBVIOUS
    <3>2. e[1] = <<>> /\ DOMAIN e = 1..1
      BY <1>1, <3>1, EscapeAppend, SpecialCharacters
    <3>3. e = << <<>> >>
      <4> DEFINE o == << <<>> >>
      <4>1. o \in Seq(Text) /\ Len(o) = 1 /\ o[1] = <<>>
        BY DEF Text
      <4>2. Len(e) = 1
        BY <1>2, <3>2, LenProperties
      <4> HIDE DEF o
      <4>3. e = o
        BY <1>2, <3>2, <4>1, <4>2, SeqEqual
      <4> QED BY <4>3 DEF o
    <3>4. e = Append(<<>>, <<>>) /\ <<>> \in Text /\ <<>> \in Seq(Text)
      BY <3>3 DEF Text
    <3>5. j = <<>>
      BY <3>4, JoinAppend, SpecialCharacters DEF j
    <3> QED BY <1>8, <3>5
  <2> QED BY <1>5, <2>3, <2>4, <2>5
<1> QED BY <1>6, <1>7, <1>8

-----------------------------------------------------------------------------
(* Messages *)

Kinds == {"id", "name", "list", "ids"}

PeerTags == {"LINK_UP_HELLO", "LINK_UP_ACK", "LINK_DOWN", "PROPAGATE_REQUEST",
             "PROPAGATE_REPLY", "SPENT_NOTIFY", "STATUS_REQUEST", "STATUS_REPLY"}

AdminTags == {"ADMIN_LINK_UP", "ADMIN_LINK_DOWN", "ADMIN_PROPAGATE", "ADMIN_SPEND_AT",
              "ADMIN_STATUS", "ADMIN_SEED", "ADMIN_CONVERSION_DAY"}

ReplyTags == {"REPLY_OK", "REPLY_ERROR", "REPLY_STATUS"}

LEMMA EnumDomains ==
  /\ DOMAIN PeerMessage = PeerTags
  /\ DOMAIN AdminMessage = AdminTags
  /\ DOMAIN AdminReply = ReplyTags
BY DEF PeerMessage, AdminMessage, AdminReply, PeerTags, AdminTags, ReplyTags

LEMMA PeerKinds ==
  \A tag \in DOMAIN PeerMessage : PeerMessage[tag] \in Seq(Kinds)
<1> DEFINE p == PeerMessage
           S == Seq(Kinds)
<1>1. /\ <<"id">> \in S /\ <<"id", "name">> \in S
      /\ <<"id", "list", "list">> \in S /\ <<"id", "list">> \in S
  BY DEF Kinds
<1>2. /\ p["LINK_UP_HELLO"] = <<"id", "list", "list">>
      /\ p["LINK_UP_ACK"] = <<"id", "list", "list">>
      /\ p["LINK_DOWN"] = <<"id">>
      /\ p["PROPAGATE_REQUEST"] = <<"id">>
      /\ p["PROPAGATE_REPLY"] = <<"id", "list">>
      /\ p["SPENT_NOTIFY"] = <<"id", "name">>
      /\ p["STATUS_REQUEST"] = <<"id">>
      /\ p["STATUS_REPLY"] = <<"id", "list", "list">>
  BY DEF PeerMessage
<1> HIDE DEF S, p
<1>3. \A tag \in PeerTags : p[tag] \in S
  BY <1>1, <1>2 DEF PeerTags
<1> QED BY <1>3, EnumDomains DEF S, p

LEMMA AdminKinds ==
  /\ \A tag \in DOMAIN AdminMessage : AdminMessage[tag] \in Seq(Kinds)
  /\ AdminMessage["ADMIN_SEED"] = <<"name">>
  /\ AdminMessage["ADMIN_SPEND_AT"] = <<"name">>
<1> DEFINE p == AdminMessage
           S == Seq(Kinds)
<1>1. <<>> \in S /\ <<"id">> \in S /\ <<"name">> \in S
  BY DEF Kinds
<1>2. /\ p["ADMIN_LINK_UP"] = <<"id">>
      /\ p["ADMIN_LINK_DOWN"] = <<"id">>
      /\ p["ADMIN_PROPAGATE"] = <<"id">>
      /\ p["ADMIN_SPEND_AT"] = <<"name">>
      /\ p["ADMIN_STATUS"] = <<>>
      /\ p["ADMIN_SEED"] = <<"name">>
      /\ p["ADMIN_CONVERSION_DAY"] = <<>>
  BY DEF AdminMessage
<1> HIDE DEF S, p
<1>3. \A tag \in AdminTags : p[tag] \in S
  BY <1>1, <1>2 DEF AdminTags
<1> QED BY <1>2, <1>3, EnumDomains DEF S, p

LEMMA ReplyKinds ==
  \A tag \in DOMAIN AdminReply : AdminReply[tag] \in Seq(Kinds)
<1> DEFINE p == AdminReply
           S == Seq(Kinds)
<1>1. <<>> \in S /\ <<"name">> \in S /\ <<"id", "list", "list", "ids">> \in S
  BY DEF Kinds
<1>2. /\ p["REPLY_OK"] = <<>>
      /\ p["REPLY_ERROR"] = <<"name">>
      /\ p["REPLY_STATUS"] = <<"id", "list", "list", "ids">>
  BY DEF AdminReply
<1> HIDE DEF S, p
<1>3. \A tag \in ReplyTags : p[tag] \in S
  BY <1>1, <1>2 DEF ReplyTags
<1> QED BY <1>3, EnumDomains DEF S, p

LEMMA ShapesAre ==
  ASSUME NEW tag \in DOMAIN Shapes
  PROVE  /\ Shapes[tag] \in Seq(Kinds)
         /\ tag \in DOMAIN Reader(tag)
         /\ Reader(tag)[tag] = Shapes[tag]
<1>1. tag \in UNION {DOMAIN shapes : shapes \in Enums} /\ Shapes[tag] = Reader(tag)[tag]
  BY DEF Shapes
<1>2. \E shapes \in Enums : tag \in DOMAIN shapes
  BY <1>1
<1>3. Reader(tag) \in Enums /\ tag \in DOMAIN Reader(tag)
  BY <1>2 DEF Reader
<1>4. \A shapes \in Enums : \A t \in DOMAIN shapes : shapes[t] \in Seq(Kinds)
  BY PeerKinds, AdminKinds, ReplyKinds DEF Enums
<1> QED BY <1>1, <1>3, <1>4

\* The tags are no separators, and those of a bearer and of its loss are of
\* one name.
LEMMA TagsAre ==
  /\ \A tag \in DOMAIN Shapes : tag \in Characters /\ tag \notin Special
  /\ \A tag \in {"ADMIN_SEED", "ADMIN_SPEND_AT"} :
       tag \in DOMAIN Shapes => Shapes[tag] = <<"name">>
<1>1. \A tag \in DOMAIN Shapes : tag \in PeerTags \cup AdminTags \cup ReplyTags
  BY EnumDomains DEF Shapes, Enums
<1>2. \A tag \in PeerTags \cup AdminTags \cup ReplyTags : tag \notin Special
  BY DEF PeerTags, AdminTags, ReplyTags, Special, Backslash, Bar, Comma
<1>3. \A tag \in DOMAIN Shapes : tag \in Characters
  BY NamesAssumption
<1>4. ASSUME NEW tag \in {"ADMIN_SEED", "ADMIN_SPEND_AT"}, tag \in DOMAIN Shapes
      PROVE  Shapes[tag] = <<"name">>
  <2>1. tag \in AdminTags /\ tag \notin PeerTags /\ tag \notin ReplyTags
    BY DEF PeerTags, AdminTags, ReplyTags
  <2>2. \A shapes \in Enums : tag \in DOMAIN shapes => shapes = AdminMessage
    BY <2>1, EnumDomains DEF Enums
  <2>3. tag \in DOMAIN Reader(tag) /\ Reader(tag)[tag] = Shapes[tag]
    BY <1>4, ShapesAre
  <2>4. Reader(tag) = AdminMessage
    <3>1. \E shapes \in Enums : tag \in DOMAIN shapes
      BY <2>1, EnumDomains DEF Enums
    <3> QED BY <2>2, <3>1 DEF Reader
  <2> QED BY <1>4, <2>3, <2>4, AdminKinds
<1> QED BY <1>1, <1>2, <1>3, <1>4

\* A list of a message is a sequence of names.
LEMMA ListsTyped ==
  ASSUME NEW S, NEW max, NEW l \in Lists(S, max)
  PROVE  l \in Seq(S)
<1>1. PICK t \in SUBSET S : IsFiniteSet(t) /\ l = SetToSeq(t)
  BY DEF Lists
<1>2. Cardinality(t) \in Nat /\ ExistsBijection(1..Cardinality(t), t)
  BY <1>1, FS_CardinalityType
<1>3. \E f \in [1..Cardinality(t) -> t] : IsInjective(f)
  BY <1>2 DEF ExistsBijection, Bijection, Injection
<1>4. SetToSeq(t) \in [1..Cardinality(t) -> t]
  BY <1>3 DEF SetToSeq
<1>5. l \in [1..Cardinality(t) -> S]
  BY <1>1, <1>4
<1> QED BY <1>2, <1>5, FcnIsSeq

LEMMA ValuesTyped ==
  ASSUME NEW kind \in Kinds, NEW v \in Values(kind)
  PROVE  IF IsList(kind) THEN v \in Seq(Text) ELSE v \in Text
<1>1. \A l \in Lists(Names, MaxList) : l \in Seq(Text)
  <2>1. \A l \in Lists(Names, MaxList) : l \in Seq(Names)
    BY ListsTyped
  <2> QED BY <2>1, NamesAssumption
<1>2. \A l \in Lists(Ids, MaxList) : l \in Seq(Text)
  <2>1. \A l \in Lists(Ids, MaxList) : l \in Seq(Ids)
    BY ListsTyped
  <2> QED BY <2>1, NamesAssumption
<1>3. /\ Values("id") = Ids /\ Values("name") = Names
      /\ Values("list") = Lists(Names, MaxList) /\ Values("ids") = Lists(Ids, MaxList)
  BY DEF Values
<1> QED BY <1>1, <1>2, <1>3, NamesAssumption DEF Kinds, IsList

Field == Text \cup Seq(Text)

\* A message with fields of the kinds its tag has.
IsMessage(m) ==
  /\ m \in [tag : DOMAIN Shapes, fields : Seq(Field)]
  /\ Len(m.fields) = Len(Shapes[m.tag])
  /\ \A i \in 1..Len(m.fields) :
       IF IsList(Shapes[m.tag][i]) THEN m.fields[i] \in Seq(Text)
                                   ELSE m.fields[i] \in Text

\* f[i] holds the values of the first i fields, for i up to n.
FieldTuples(f, kinds, n) ==
  /\ f = [i \in 0..n |-> f[i]]
  /\ \A i \in 0..n :
       f[i] = IF i = 0 THEN {<<>>}
                       ELSE {Append(g, v) : g \in f[i - 1], v \in Values(kinds[i])}

LEMMA FieldTuplesExist ==
  ASSUME NEW kinds
  PROVE  \A n \in Nat : \E f : FieldTuples(f, kinds, n)
<1> DEFINE Longer(F, i) == {Append(g, v) : g \in F, v \in Values(kinds[i])}
           T == {n \in Nat : \E f : FieldTuples(f, kinds, n)}
<1>0. \A f, n : FieldTuples(f, kinds, n) <=>
                  /\ f = [i \in 0..n |-> f[i]]
                  /\ \A i \in 0..n : f[i] = IF i = 0 THEN {<<>>} ELSE Longer(f[i - 1], i)
  BY DEF FieldTuples
<1> HIDE DEF Longer
<1>1. 0 \in T
  <2> DEFINE f == [i \in 0..0 |-> {<<>>}]
  <2>1. f = [i \in 0..0 |-> f[i]] /\ \A i \in 0..0 : i = 0 /\ f[i] = {<<>>}
    OBVIOUS
  <2> HIDE DEF f
  <2>2. FieldTuples(f, kinds, 0)
    BY <1>0, <2>1
  <2> QED BY <2>2
<1>2. ASSUME NEW n \in Nat, n \in T PROVE n + 1 \in T
  <2>1. PICK f : FieldTuples(f, kinds, n)
    BY <1>2
  <2> DEFINE g == [i \in 0..n + 1 |-> IF i <= n THEN f[i] ELSE Longer(f[n], i)]
  <2>2. ASSUME NEW i \in 0..n + 1
        PROVE  g[i] = IF i = 0 THEN {<<>>} ELSE Longer(g[i - 1], i)
    <3>1. CASE i <= n
      <4>1. i \in 0..n /\ g[i] = f[i] /\ (i # 0 => g[i - 1] = f[i - 1])
        BY <3>1
      <4>2. f[i] = IF i = 0 THEN {<<>>} ELSE Longer(f[i - 1], i)
        BY <1>0, <2>1, <4>1
      <4> HIDE DEF g
      <4> QED BY <4>1, <4>2
    <3>2. CASE i = n + 1
      <4>1. i # 0 /\ g[i] = Longer(f[n], i) /\ g[i - 1] = f[n]
        BY <3>2
      <4> HIDE DEF g
      <4> QED BY <4>1
    <3> QED BY <3>1, <3>2
  <2>3. g = [i \in 0..n + 1 |-> g[i]]
    OBVIOUS
  <2> HIDE DEF g
  <2>4. FieldTuples(g, kinds, n + 1)
    BY <1>0, <2>2, <2>3
  <2> QED BY <2>4
<1>3. Nat \subseteq T
  <2> HIDE DEF T
  <2> QED BY <1>1, <1>2, NatInduct
<1> QED BY <1>3

LEMMA MessagesTyped ==
  ASSUME NEW tag \in DOMAIN Shapes, NEW m \in MessagesOf(tag)
  PROVE  IsMessage(m)
<1> DEFINE kinds == Shapes[tag]
           n == Len(kinds)
           Equation(f) ==
             f = [i \in 0..n |->
                    IF i = 0 THEN {<<>>}
                             ELSE {Append(g, v) : g \in f[i - 1], v \in Values(kinds[i])}]
           first == CHOOSE f : Equation(f)
           Fits(f, i) ==
             /\ f \in Seq(Field) /\ Len(f) = i
             /\ \A j \in 1..i : IF IsList(kinds[j]) THEN f[j] \in Seq(Text)
                                                    ELSE f[j] \in Text
<1>1. kinds \in Seq(Kinds) /\ n \in Nat /\ \A i \in 1..n : kinds[i] \in Kinds
  <2>1. kinds \in Seq(Kinds)
    BY ShapesAre
  <2> QED BY <2>1, LenProperties, ElementOfSeq
<1>2. m \in [tag : {tag}, fields : first[n]]
  BY DEF MessagesOf
<1>3. \A f : FieldTuples(f, kinds, n) <=> Equation(f)
  <2> DEFINE Longer(F, i) == {Append(g, v) : g \in F, v \in Values(kinds[i])}
  <2>1. \A f : FieldTuples(f, kinds, n) <=>
                /\ f = [i \in 0..n |-> f[i]]
                /\ \A i \in 0..n : f[i] = IF i = 0 THEN {<<>>} ELSE Longer(f[i - 1], i)
    BY DEF FieldTuples
  <2>2. \A f : Equation(f) <=>
                f = [i \in 0..n |-> IF i = 0 THEN {<<>>} ELSE Longer(f[i - 1], i)]
    OBVIOUS
  <2> HIDE DEF Equation, Longer
  <2> QED BY <2>1, <2>2
<1> HIDE DEF Equation, kinds, n
<1>4. FieldTuples(first, kinds, n)
  BY <1>1, <1>3, FieldTuplesExist
<1> HIDE DEF first
<1> DEFINE T == {i \in Nat : i <= n => \A f \in first[i] : Fits(f, i)}
<1>5. 0 \in T
  <2>1. 0 \in 0..n
    BY <1>1
  <2>2. first[0] = {<<>>}
    BY <1>4, <2>1 DEF FieldTuples
  <2>3. Fits(<<>>, 0)
    BY EmptySeq
  <2> HIDE DEF Fits
  <2> QED BY <2>2, <2>3
<1>6. ASSUME NEW i \in Nat, i \in T PROVE i + 1 \in T
  <2> SUFFICES ASSUME i + 1 <= n, NEW f \in first[i + 1] PROVE Fits(f, i + 1)
    OBVIOUS
  <2>1. i + 1 \in 0..n /\ i + 1 # 0 /\ (i + 1) - 1 = i /\ i <= n /\ i + 1 \in 1..n
    BY <1>1
  <2>2. first[i + 1] = {Append(g, v) : g \in first[i], v \in Values(kinds[i + 1])}
    BY <1>4, <2>1 DEF FieldTuples
  <2>3. PICK g \in first[i], v \in Values(kinds[i + 1]) : f = Append(g, v)
    BY <2>2
  <2>4. Fits(g, i)
    BY <1>6, <2>1
  <2>5. IF IsList(kinds[i + 1]) THEN v \in Seq(Text) ELSE v \in Text
    BY <1>1, <2>1, ValuesTyped
  <2>6. v \in Field
    BY <2>5 DEF Field
  <2>7. /\ f \in Seq(Field) /\ Len(f) = i + 1 /\ f[i + 1] = v
        /\ \A j \in 1..i : f[j] = g[j]
    <3>1. g \in Seq(Field) /\ Len(g) = i
      BY <2>4
    <3> QED BY <2>3, <2>6, <3>1, AppendProperties
  <2>8. \A j \in 1..i + 1 : j = i + 1 \/ j \in 1..i
    OBVIOUS
  <2> QED BY <2>4, <2>5, <2>7, <2>8
<1>7. \A f \in first[n] : Fits(f, n)
  <2>1. Nat \subseteq T
    <3> HIDE DEF T
    <3> QED BY <1>5, <1>6, NatInduct
  <2> QED BY <1>1, <2>1
<1>8. m.tag = tag /\ m.fields \in first[n] /\ m = [tag |-> m.tag, fields |-> m.fields]
  BY <1>2
<1>9. Fits(m.fields, n)
  BY <1>7, <1>8
<1>10. m \in [tag : DOMAIN Shapes, fields : Seq(Field)]
  BY <1>8, <1>9
<1> QED BY <1>8, <1>9, <1>10 DEF IsMessage, kinds, n

\* A field on the line; what is read of a field; and what should be.
Written(m, i) ==
  IF IsList(Shapes[m.tag][i]) THEN EncodeList(m.fields[i]) ELSE Escape(m.fields[i])

Read(kind, part) == IF IsList(kind) THEN DecodeList(part) ELSE Unescape(part)

Arrives(m, i) ==
  IF IsList(Shapes[m.tag][i]) /\ m.fields[i] = << <<>> >> THEN <<>> ELSE m.fields[i]

Parts(m) == << <<m.tag>> >> \o [i \in DOMAIN Shapes[m.tag] |-> Written(m, i)]

LEMMA MessageIs ==
  ASSUME NEW m, IsMessage(m)
  PROVE  /\ m.tag \in DOMAIN Shapes /\ Shapes[m.tag] \in Seq(Kinds)
         /\ Len(Shapes[m.tag]) \in Nat
         /\ DOMAIN Shapes[m.tag] = 1..Len(Shapes[m.tag])
         /\ DOMAIN m.fields = 1..Len(Shapes[m.tag])
         /\ m = [tag |-> m.tag, fields |-> m.fields]
         /\ \A i \in 1..Len(Shapes[m.tag]) :
              IF IsList(Shapes[m.tag][i]) THEN m.fields[i] \in Seq(Text)
                                          ELSE m.fields[i] \in Text
<1>1. m.tag \in DOMAIN Shapes /\ m.fields \in Seq(Field)
      /\ m = [tag |-> m.tag, fields |-> m.fields]
  BY DEF IsMessage
<1> DEFINE kinds == Shapes[m.tag]
           fields == m.fields
<1>2. kinds \in Seq(Kinds)
  BY <1>1, ShapesAre
<1>3. /\ Len(fields) = Len(kinds)
      /\ \A i \in 1..Len(fields) : IF IsList(kinds[i]) THEN fields[i] \in Seq(Text)
                                                       ELSE fields[i] \in Text
  BY DEF IsMessage
<1> HIDE DEF kinds, fields
<1>4. Len(kinds) \in Nat /\ DOMAIN kinds = 1..Len(kinds)
  BY <1>2, LenProperties
<1>5. fields \in Seq(Field)
  BY <1>1 DEF fields
<1>6. DOMAIN fields = 1..Len(fields)
  BY <1>5, LenProperties
<1> QED BY <1>1, <1>2, <1>3, <1>4, <1>6 DEF kinds, fields

LEMMA PartsAre ==
  ASSUME NEW m, IsMessage(m)
  PROVE  /\ Parts(m) \in Seq({t \in Text : Plain(t, Bar)}) /\ Parts(m) # <<>>
         /\ Len(Parts(m)) = 1 + Len(Shapes[m.tag])
         /\ Parts(m)[1] = <<m.tag>>
         /\ \A i \in 1..Len(Shapes[m.tag]) : Parts(m)[i + 1] = Written(m, i)
<1> DEFINE P == {t \in Text : Plain(t, Bar)}
           n == Len(Shapes[m.tag])
           fields == [i \in DOMAIN Shapes[m.tag] |-> Written(m, i)]
           t == <<m.tag>>
           h == <<t>>
<1>1. n \in Nat /\ DOMAIN Shapes[m.tag] = 1..n
  BY MessageIs
<1>2. \A i \in 1..n : Written(m, i) \in P
  <2> SUFFICES ASSUME NEW i \in 1..n PROVE Written(m, i) \in P
    OBVIOUS
  <2>1. IF IsList(Shapes[m.tag][i]) THEN m.fields[i] \in Seq(Text)
                                    ELSE m.fields[i] \in Text
    BY MessageIs
  <2>2. CASE IsList(Shapes[m.tag][i])
    <3> DEFINE items == m.fields[i]
    <3>1. items \in Seq(Text) /\ Written(m, i) = EncodeList(items)
      BY <2>1, <2>2 DEF Written
    <3> HIDE DEF items
    <3> QED BY <3>1, EncodedListIsPlain
  <2>3. CASE ~IsList(Shapes[m.tag][i])
    <3> DEFINE name == m.fields[i]
    <3>1. name \in Text /\ Written(m, i) = Escape(name)
      BY <2>1, <2>3 DEF Written
    <3> HIDE DEF name
    <3>2. Escape(name) \in Text
      BY <3>1, EscapeAppend, SpecialCharacters
    <3> QED BY <3>1, <3>2, PlainEscape
  <2> QED BY <2>2, <2>3
<1>3. t \in P
  <2>1. m.tag \in Characters /\ m.tag \notin Special
    BY MessageIs, TagsAre
  <2> QED BY <2>1, PlainOne DEF Special
<1>4. fields \in Seq(P) /\ Len(fields) = n /\ \A i \in 1..n : fields[i] = Written(m, i)
  <2>1. fields \in [1..n -> P] /\ \A i \in 1..n : fields[i] = Written(m, i)
    BY <1>1, <1>2
  <2> HIDE DEF P, n, fields
  <2> QED BY <1>1, <2>1, FcnIsSeq
<1>5. Parts(m) = h \o fields
  BY DEF Parts
<1> HIDE DEF P, n, fields, t
<1>6. h \in Seq(P) /\ Len(h) = 1 /\ h[1] = t
  BY <1>3
<1> HIDE DEF h
<1> DEFINE parts == h \o fields
<1>7. /\ parts \in Seq(P) /\ Len(parts) = 1 + n /\ parts[1] = t
      /\ \A i \in 1..n : parts[i + 1] = fields[i]
  <2>1. /\ parts \in Seq(P) /\ Len(parts) = Len(h) + Len(fields)
        /\ \A i \in 1..Len(h) + Len(fields) :
             parts[i] = IF i <= Len(h) THEN h[i] ELSE fields[i - Len(h)]
    BY <1>4, <1>6, ConcatProperties
  <2> HIDE DEF parts
  <2> QED BY <1>1, <1>4, <1>6, <2>1
<1>8. parts # <<>>
  <2> HIDE DEF parts
  <2> QED BY <1>1, <1>7, EmptySeq
<1> HIDE DEF parts
<1> QED BY <1>4, <1>5, <1>7, <1>8 DEF P, n, t, parts

LEMMA SplitEncode ==
  ASSUME NEW m, IsMessage(m)
  PROVE  /\ Encode(m) \in Text /\ Encode(m) # <<>>
         /\ Split(Encode(m), Bar) = Parts(m)
<1>1. Encode(m) = Join(Parts(m), Bar)
  BY DEF Encode, Parts, Written
<1> DEFINE ps == Parts(m)
<1>2. ps \in Seq({t \in Text : Plain(t, Bar)}) /\ ps # <<>> /\ ps[1] = <<m.tag>>
  BY PartsAre
<1> HIDE DEF ps
<1>3. ps \in Seq(Text)
  BY <1>2
<1>4. Join(ps, Bar) \in Text
  <2>1. <<>> \in Text
    BY DEF Text
  <2> QED BY <1>3, <2>1, JoinAppend, SpecialCharacters
<1>5. Split(Join(ps, Bar), Bar) = ps
  BY <1>2, SplitJoin, SpecialCharacters
<1>6. Join(ps, Bar) # <<>>
  <2>1. << <<>> >>[1] = <<>> /\ <<m.tag>> # <<>>
    OBVIOUS
  <2> QED BY <1>2, <1>5, <2>1, SplitEmpty
<1> QED BY <1>1, <1>4, <1>5, <1>6 DEF ps

LEMMA CarriedIs ==
  ASSUME NEW m, IsMessage(m)
  PROVE  Carried(m) = [tag |-> m.tag,
                       fields |-> [i \in 1..Len(Shapes[m.tag]) |-> Arrives(m, i)]]
<1> DEFINE f == [i \in 1..Len(Shapes[m.tag]) |-> Arrives(m, i)]
<1>1. Carried(m) = [m EXCEPT !.fields = f]
  BY MessageIs DEF Carried, Arrives
<1> HIDE DEF f
<1>2. m = [tag |-> m.tag, fields |-> m.fields]
  BY MessageIs
<1> QED BY <1>1, <1>2 DEF f

LEMMA ReadWritten ==
  ASSUME NEW m, IsMessage(m), NEW i \in 1..Len(Shapes[m.tag])
  PROVE  Read(Shapes[m.tag][i], Written(m, i)) = Arrives(m, i)
<1> DEFINE kind == Shapes[m.tag][i]
           v == m.fields[i]
<1>1. IF IsList(kind) THEN v \in Seq(Text) ELSE v \in Text
  BY MessageIs
<1>2. CASE IsList(kind)
  <2>1. DecodeList(EncodeList(v)) = IF v = << <<>> >> THEN <<>> ELSE v
    <3> HIDE DEF v
    <3> QED BY <1>1, <1>2, DecodeUndoesEncodeList
  <2> QED BY <1>2, <2>1 DEF Read, Written, Arrives
<1>3. CASE ~IsList(kind)
  <2>1. Unescape(Escape(v)) = v
    <3> HIDE DEF v
    <3> QED BY <1>1, <1>3, UnescapeUndoesEscape
  <2> QED BY <1>3, <2>1 DEF Read, Written, Arrives
<1> QED BY <1>2, <1>3

\* decode undoes encode, but for the list of one empty name (wire.rs).
THEOREM DecodeUndoesEncode ==
  ASSUME NEW m, IsMessage(m)
  PROVE  Decode(Reader(m.tag), Encode(m)) = Carried(m)
<1> DEFINE shapes == Reader(m.tag)
           parts == Split(Encode(m), Bar)
           n == Len(Shapes[m.tag])
<1>1. parts = Parts(m)
  BY SplitEncode
<1>2. m.tag \in DOMAIN shapes /\ shapes[m.tag] = Shapes[m.tag]
  BY MessageIs, ShapesAre
<1>3. Len(parts) = 1 + n /\ parts[1] = <<m.tag>>
      /\ \A i \in 1..n : parts[i + 1] = Written(m, i)
  BY <1>1, PartsAre
<1>4. Len(<<m.tag>>) = 1 /\ <<m.tag>>[1] = m.tag
  OBVIOUS
<1> HIDE DEF parts, shapes
<1>5. Decode(Reader(m.tag), Encode(m)) =
        [tag |-> m.tag,
         fields |-> [i \in DOMAIN Shapes[m.tag] |-> Read(Shapes[m.tag][i], parts[i + 1])]]
  BY <1>2, <1>3, <1>4 DEF Decode, Read, parts, shapes
<1>6. DOMAIN Shapes[m.tag] = 1..n
  BY MessageIs
<1>7. \A i \in 1..n : Read(Shapes[m.tag][i], parts[i + 1]) = Arrives(m, i)
  BY <1>3, ReadWritten
<1> QED BY <1>5, <1>6, <1>7, CarriedIs

-----------------------------------------------------------------------------
(* Lines that are cut *)

\* q goes on where p ends: its parts are those of p, but for the last of p,
\* which may have become longer.
GoesOn(p, q) ==
  /\ Len(p) <= Len(q)
  /\ \A i \in 1..Len(p) - 1 : q[i] = p[i]
  /\ Len(p[Len(p)]) <= Len(q[Len(p)])
  /\ \A j \in 1..Len(p[Len(p)]) : q[Len(p)][j] = p[Len(p)][j]

\* The parts so far.
Sofar(z) == Append(z.done, z.cur)

LEMMA SofarIs ==
  ASSUME NEW d \in Seq(Text), NEW k \in Text
  PROVE  /\ Append(d, k) \in Seq(Text)
         /\ Len(d) \in Nat
         /\ Len(Append(d, k)) = Len(d) + 1
         /\ Append(d, k)[Len(d) + 1] = k
         /\ \A i \in 1..Len(d) : Append(d, k)[i] = d[i]
BY AppendProperties, LenProperties

LEMMA GoesOnTransitive ==
  ASSUME NEW p \in Seq(Text), NEW q \in Seq(Text), NEW r \in Seq(Text),
         p # <<>>, q # <<>>, GoesOn(p, q), GoesOn(q, r)
  PROVE  GoesOn(p, r)
<1> DEFINE n == Len(p)
           m == Len(q)
<1>1. n \in Nat /\ m \in Nat /\ Len(r) \in Nat /\ n # 0 /\ m # 0
  BY LenProperties, EmptySeq
<1>2. /\ n <= m /\ m <= Len(r)
      /\ \A i \in 1..n - 1 : q[i] = p[i]
      /\ \A i \in 1..m - 1 : r[i] = q[i]
      /\ Len(p[n]) <= Len(q[n]) /\ Len(q[m]) <= Len(r[m])
      /\ \A j \in 1..Len(p[n]) : q[n][j] = p[n][j]
      /\ \A j \in 1..Len(q[m]) : r[m][j] = q[m][j]
  BY DEF GoesOn
<1>3. p[n] \in Text /\ q[n] \in Text /\ r[n] \in Text
  BY <1>1, <1>2, ElementOfSeq
<1>4. Len(p[n]) \in Nat /\ Len(q[n]) \in Nat /\ Len(r[n]) \in Nat
  BY <1>3, LenProperties DEF Text
<1> HIDE DEF n, m
<1>5. Len(p[n]) <= Len(r[n]) /\ \A j \in 1..Len(p[n]) : r[n][j] = p[n][j]
  <2>1. CASE n = m
    BY <1>2, <1>4, <2>1
  <2>2. CASE n # m
    <3>1. n \in 1..m - 1
      BY <1>1, <1>2, <2>2
    <3> QED BY <1>2, <3>1
  <2> QED BY <2>1, <2>2
<1>6. n <= Len(r) /\ \A i \in 1..n - 1 : r[i] = p[i]
  BY <1>1, <1>2
<1> QED BY <1>5, <1>6 DEF GoesOn, n

LEMMA SplitStepTyped ==
  ASSUME NEW sep
  PROVE  SplitStep(sep) \in [Characters -> [SplitState -> SplitState]]
<1> DEFINE Result(a, c) ==
             IF ~a.esc /\ c = sep
               THEN [done |-> Append(a.done, a.cur), cur |-> <<>>, esc |-> FALSE]
               ELSE [done |-> a.done, cur |-> Append(a.cur, c),
                     esc |-> ~a.esc /\ c = Backslash]
<1>1. SplitStep(sep) = [c \in Characters |-> [a \in SplitState |-> Result(a, c)]]
  BY DEF SplitStep, SplitState
<1>2. ASSUME NEW c \in Characters, NEW a \in SplitState PROVE Result(a, c) \in SplitState
  <2>1. a.done \in Seq(Text) /\ a.cur \in Text
    BY DEF SplitState
  <2>2. Append(a.done, a.cur) \in Seq(Text) /\ Append(a.cur, c) \in Text /\ <<>> \in Text
    BY <2>1, AppendProperties DEF Text
  <2> QED BY <2>1, <2>2 DEF SplitState
<1> HIDE DEF Result
<1> QED BY <1>1, <1>2

LEMMA StepGoesOn ==
  ASSUME NEW sep, NEW c \in Characters, NEW z \in SplitState
  PROVE  GoesOn(Sofar(z), Sofar(SplitStep(sep)[c][z]))
<1> DEFINE d == z.done
           k == z.cur
           y == SplitStep(sep)[c][z]
           p == Append(d, k)
           q == Append(y.done, y.cur)
           n == Len(d) + 1
<1>1. d \in Seq(Text) /\ k \in Text
  BY DEF SplitState
<1>2. y = IF ~z.esc /\ c = sep
            THEN [done |-> p, cur |-> <<>>, esc |-> FALSE]
            ELSE [done |-> d, cur |-> Append(k, c), esc |-> ~z.esc /\ c = Backslash]
  BY DEF SplitStep, SplitState
<1> HIDE DEF d, k, y
<1>3. /\ p \in Seq(Text) /\ n \in Nat /\ Len(p) = n /\ p[n] = k /\ n >= 1
      /\ \A i \in 1..n - 1 : p[i] = d[i]
      /\ Len(k) \in Nat
  BY <1>1, SofarIs, LenProperties DEF Text
<1>4. CASE y = [done |-> p, cur |-> <<>>, esc |-> FALSE]
  <2>1. q = Append(p, <<>>)
    BY <1>4
  <2>2. <<>> \in Text
    BY DEF Text
  <2> HIDE DEF p
  <2>3. Len(q) = n + 1 /\ \A i \in 1..n : q[i] = p[i]
    BY <1>3, <2>1, <2>2, SofarIs
  <2> HIDE DEF q, n
  <2>4. GoesOn(p, q)
    BY <1>3, <2>3 DEF GoesOn
  <2> QED BY <2>4 DEF p, q, Sofar, d, k, y
<1>5. CASE y = [done |-> d, cur |-> Append(k, c), esc |-> ~z.esc /\ c = Backslash]
  <2> DEFINE l == Append(k, c)
  <2>1. l \in Text /\ Len(l) = Len(k) + 1 /\ \A j \in 1..Len(k) : l[j] = k[j]
    BY <1>1, AppendProperties DEF Text
  <2> HIDE DEF l
  <2>2. q = Append(d, l)
    BY <1>5 DEF l
  <2>3. Len(q) = n /\ q[n] = l /\ \A i \in 1..n - 1 : q[i] = d[i]
    BY <1>1, <2>1, <2>2, SofarIs
  <2> HIDE DEF p, q, n
  <2>4. GoesOn(p, q)
    BY <1>3, <2>1, <2>3 DEF GoesOn
  <2> QED BY <2>4 DEF p, q, Sofar, d, k, y
<1> QED BY <1>2, <1>4, <1>5

\* The parts of a text go on where those of its beginning end.
LEMMA SplitGoesOn ==
  ASSUME NEW sep, NEW s \in Text, NEW t \in Text
  PROVE  /\ Split(s, sep) \in Seq(Text) /\ Split(s, sep) # <<>>
         /\ GoesOn(Split(s, sep), Split(s \o t, sep))
<1> DEFINE step == SplitStep(sep)
           start == [done |-> <<>>, cur |-> <<>>, esc |-> FALSE]
           a == Scan(step, start, s)
           T == {x \in Text : GoesOn(Sofar(a), Sofar(Scan(step, a, x)))}
<1>1. start \in SplitState /\ step \in [Characters -> [SplitState -> SplitState]]
  <2>1. <<>> \in Text /\ <<>> \in Seq(Text)
    BY DEF Text
  <2> QED BY <2>1, SplitStepTyped DEF SplitState
<1>2. \A x \in Text : Split(x, sep) = Sofar(Scan(step, start, x))
  BY DEF Split, Sofar
<1>3. \A z \in SplitState : Sofar(z) \in Seq(Text) /\ Sofar(z) # <<>>
  <2> SUFFICES ASSUME NEW z \in SplitState
               PROVE  Sofar(z) \in Seq(Text) /\ Sofar(z) # <<>>
    OBVIOUS
  <2>1. z.done \in Seq(Text) /\ z.cur \in Text
    BY DEF SplitState
  <2> QED BY <2>1, AppendProperties DEF Sofar
<1> HIDE DEF start
<1>4. a \in SplitState
  BY <1>1, ScanTyped DEF Text
<1> HIDE DEF a
<1>5. \A x \in Text : Scan(step, a, x) \in SplitState
  BY <1>1, <1>4, ScanTyped DEF Text
<1>6. <<>> \in T
  <2>1. Scan(step, a, <<>>) = a
    BY ScanEmpty
  <2>2. GoesOn(Sofar(a), Sofar(a))
    <3> DEFINE p == Sofar(a)
    <3>1. p \in Seq(Text) /\ p # <<>>
      BY <1>3, <1>4
    <3> HIDE DEF p
    <3>2. Len(p) \in Nat /\ Len(p) # 0
      BY <3>1, EmptySeq
    <3>3. p[Len(p)] \in Text
      BY <3>1, <3>2, ElementOfSeq
    <3>4. Len(p[Len(p)]) \in Nat
      BY <3>3, LenProperties DEF Text
    <3>5. GoesOn(p, p)
      BY <3>2, <3>4 DEF GoesOn
    <3> QED BY <3>5 DEF p
  <2>3. <<>> \in Text
    BY DEF Text
  <2> QED BY <2>1, <2>2, <2>3
<1>7. ASSUME NEW x \in Text, NEW c \in Characters, x \in T PROVE Append(x, c) \in T
  <2> DEFINE z == Scan(step, a, x)
             y == Scan(step, a, Append(x, c))
  <2>1. Append(x, c) \in Text
    BY AppendProperties DEF Text
  <2>2. y = step[c][z]
    <3> HIDE DEF step
    <3> QED BY ScanAppend DEF Text
  <2>3. z \in SplitState /\ y \in SplitState
    BY <1>5, <2>1
  <2>4. GoesOn(Sofar(a), Sofar(z))
    BY <1>7
  <2> HIDE DEF z, y
  <2>5. GoesOn(Sofar(z), Sofar(y))
    BY <2>2, <2>3, StepGoesOn
  <2>6. GoesOn(Sofar(a), Sofar(y))
    BY <1>3, <1>4, <2>3, <2>4, <2>5, GoesOnTransitive
  <2> QED BY <2>1, <2>6 DEF y
<1>8. Text \subseteq T
  <2> HIDE DEF T
  <2> QED BY <1>6, <1>7, SeqInduct DEF Text
<1>9. s \o t \in Text
  BY ConcatProperties DEF Text
<1>10. Scan(step, start, s \o t) = Scan(step, a, t)
  BY ScanConcat DEF Text, a
<1>11. Split(s, sep) = Sofar(a)
  BY <1>2 DEF a
<1>12. Split(s \o t, sep) = Sofar(Scan(step, a, t))
  BY <1>2, <1>9, <1>10
<1>13. GoesOn(Sofar(a), Sofar(Scan(step, a, t)))
  BY <1>8
<1> QED BY <1>3, <1>4, <1>11, <1>12, <1>13

-----------------------------------------------------------------------------
(* A connection *)

LEMMA FrontAppend ==
  ASSUME NEW C, NEW s \in Seq(C), NEW c \in C
  PROVE  /\ Append(s, c) # <<>>
         /\ Last(Append(s, c)) = c
         /\ Front(Append(s, c)) = s
<1> DEFINE t == Append(s, c)
           n == Len(s)
<1>1. /\ t \in Seq(C) /\ t # <<>> /\ n \in Nat /\ Len(t) = n + 1 /\ t[n + 1] = c
      /\ \A i \in 1..n : t[i] = s[i]
  BY AppendProperties, LenProperties
<1> HIDE DEF t, n
<1>2. Last(t) = c
  BY <1>1 DEF Last
<1>3. Front(t) = SubSeq(t, 1, n)
  BY <1>1 DEF Front
<1> DEFINE f == SubSeq(t, 1, n)
<1>4. \A i \in 1..n : t[i] \in C
  BY <1>1, ElementOfSeq
<1>5. f \in Seq(C) /\ Len(f) = n /\ \A i \in 1..n : f[i] = t[i]
  <2>1. /\ f \in Seq(C) /\ Len(f) = IF 1 <= n THEN n - 1 + 1 ELSE 0
        /\ \A i \in 1..n - 1 + 1 : f[i] = t[1 + i - 1]
    BY <1>1, <1>4, SubSeqProperties
  <2> HIDE DEF f
  <2> QED BY <1>1, <2>1
<1> HIDE DEF f
<1>6. f = s
  BY <1>1, <1>5, SeqEqual DEF n
<1> QED BY <1>1, <1>2, <1>3, <1>6 DEF t, f

\* The first k characters of a text, and the others.
LEMMA CutIs ==
  ASSUME NEW s \in Text, NEW k \in 0..Len(s)
  PROVE  /\ SubSeq(s, 1, k) \in Text
         /\ \E t \in Text : s = SubSeq(s, 1, k) \o t
         /\ SubSeq(s, 1, k) # <<>> => Last(SubSeq(s, 1, k)) # "LF"
<1> DEFINE n == Len(s)
           p == SubSeq(s, 1, k)
           t == SubSeq(s, k + 1, n)
<1>1. n \in Nat /\ k \in Nat /\ k <= n /\ \A i \in 1..n : s[i] \in Characters
  BY LenProperties, ElementOfSeq DEF Text
<1>2. /\ p \in Seq(Characters) /\ Len(p) = IF 1 <= k THEN k - 1 + 1 ELSE 0
      /\ \A i \in 1..k - 1 + 1 : p[i] = s[1 + i - 1]
  <2>1. \A i \in 1..k : s[i] \in Characters
    BY <1>1
  <2> QED BY <1>1, <2>1, SubSeqProperties
<1>3. /\ t \in Seq(Characters) /\ Len(t) = IF k + 1 <= n THEN n - (k + 1) + 1 ELSE 0
      /\ \A i \in 1..n - (k + 1) + 1 : t[i] = s[(k + 1) + i - 1]
  <2>1. \A i \in k + 1..n : s[i] \in Characters
    BY <1>1
  <2>2. k + 1 \in Int /\ n \in Int
    BY <1>1
  <2> QED BY <2>1, <2>2, SubSeqProperties
<1> HIDE DEF p, t
<1>4. /\ Len(p) = k /\ \A i \in 1..k : p[i] = s[i]
      /\ Len(t) = n - k /\ \A i \in 1..n - k : t[i] = s[k + i]
  BY <1>1, <1>2, <1>3
<1>5. s = p \o t
  <2> DEFINE q == p \o t
  <2>1. q \in Seq(Characters) /\ Len(q) = Len(p) + Len(t)
        /\ \A i \in 1..Len(p) + Len(t) : q[i] = IF i <= Len(p) THEN p[i] ELSE t[i - Len(p)]
    BY <1>2, <1>3, ConcatProperties
  <2> HIDE DEF q
  <2>2. Len(q) = n /\ \A i \in 1..n : q[i] = s[i]
    <3>1. Len(q) = n
      BY <1>1, <1>4, <2>1
    <3> SUFFICES ASSUME NEW i \in 1..n PROVE q[i] = s[i]
      BY <3>1
    <3>2. q[i] = IF i <= k THEN p[i] ELSE t[i - k]
      BY <1>1, <1>4, <2>1
    <3>3. CASE i <= k
      BY <1>4, <3>2, <3>3
    <3>4. CASE ~(i <= k)
      <4>1. i - k \in 1..n - k /\ k + (i - k) = i
        BY <1>1, <3>4
      <4> QED BY <1>4, <3>2, <3>4, <4>1
    <3> QED BY <3>3, <3>4
  <2>3. s \in Seq(Characters)
    BY DEF Text
  <2>4. q = s
    BY <2>1, <2>2, <2>3, SeqEqual DEF n
  <2> QED BY <2>4 DEF q
<1>6. p # <<>> => Last(p) # "LF"
  <2> SUFFICES ASSUME p # <<>> PROVE Last(p) # "LF"
    OBVIOUS
  <2>1. k \in 1..n
    BY <1>1, <1>2, <1>4, EmptySeq
  <2>2. Last(p) = s[k]
    BY <1>4, <2>1 DEF Last
  <2> QED BY <1>1, <2>1, <2>2, NamesAssumption
<1> QED BY <1>2, <1>3, <1>5, <1>6 DEF Text, p, t

\* What is on the connection is nothing yet, or all of the message and the
\* line feed, or a beginning of the message; and what was received is what the
\* decoder makes of it.
Sent == text = Append(Encode(msg), "LF") /\ got \in {Nothing, Carried(msg)}

Cut ==
  \E k \in 0..Len(Encode(msg)) :
    /\ text = SubSeq(Encode(msg), 1, k)
    /\ got \in {Nothing, Error, Decode(Reader(msg.tag), text)}

IInv ==
  /\ IsMessage(msg)
  /\ \/ text = <<>> /\ ~closed /\ got = Nothing
     \/ closed /\ (Sent \/ Cut)

LEMMA SentIs ==
  ASSUME NEW s \in Text
  PROVE  /\ Append(s, "LF") # <<>>
         /\ Last(Append(s, "LF")) = "LF"
         /\ Front(Append(s, "LF")) = s
<1> DEFINE C == Characters \cup {"LF"}
<1>1. s \in Seq(C) /\ "LF" \in C
  BY DEF Text
<1> HIDE DEF C
<1> QED BY <1>1, FrontAppend

LEMMA InvInit == Init => IInv
<1> SUFFICES ASSUME Init PROVE IInv
  OBVIOUS
<1>1. PICK tag \in DOMAIN Shapes : msg \in MessagesOf(tag)
  BY DEF Init
<1>2. IsMessage(msg)
  BY <1>1, MessagesTyped
<1> QED BY <1>2 DEF Init, IInv

LEMMA InvNext == IInv /\ [Next]_vars => IInv'
<1> SUFFICES ASSUME IInv, [Next]_vars PROVE IInv'
  OBVIOUS
<1>0. IsMessage(msg) /\ msg' = msg
  BY DEF IInv, Next, WriteLine, CutLine, Receive, vars
<1>1. IsMessage(msg)'
  BY <1>0
<1> DEFINE e == Encode(msg)
<1>2. e \in Text /\ e # <<>> /\ e' = e
  BY <1>0, SplitEncode
<1>3. CASE WriteLine
  <2>1. got = Nothing
    BY <1>3 DEF IInv, WriteLine
  <2> QED BY <1>0, <1>1, <1>3, <2>1 DEF IInv, WriteLine, Sent
<1>4. CASE CutLine
  <2>1. got = Nothing
    BY <1>4 DEF IInv, CutLine
  <2> QED BY <1>0, <1>1, <1>4, <2>1 DEF IInv, CutLine, Cut
<1>5. CASE Receive
  <2>1. got = Nothing /\ closed /\ text' = text /\ closed'
    BY <1>5 DEF Receive
  <2>2. CASE text = Append(e, "LF")
    <3>1. got' = Decode(Reader(msg.tag), e)
      <4> HIDE DEF e
      <4>1. text # <<>> /\ Last(text) = "LF" /\ Front(text) = e
        BY <1>2, <2>2, SentIs
      <4> QED BY <1>2, <1>5, <4>1 DEF Receive
    <3>2. got' = Carried(msg)
      BY <1>0, <3>1, DecodeUndoesEncode
    <3> QED BY <1>0, <1>1, <2>1, <2>2, <3>2 DEF IInv, Sent
  <2>3. CASE Cut
    <3>1. PICK k \in 0..Len(e) : text = SubSeq(e, 1, k)
      BY <2>3 DEF Cut
    <3>2. text = <<>> \/ Last(text) # "LF"
      <4> HIDE DEF e
      <4> QED BY <1>2, <3>1, CutIs
    <3>3. got' \in {Error, Decode(Reader(msg.tag), text)}
      BY <1>5, <3>2 DEF Receive
    <3> QED BY <1>0, <1>1, <2>1, <3>1, <3>3 DEF IInv, Cut
  <2> QED BY <2>1, <2>2, <2>3 DEF IInv, Sent
<1>6. CASE UNCHANGED vars
  BY <1>1, <1>6 DEF IInv, Sent, Cut, vars
<1> QED BY <1>3, <1>4, <1>5, <1>6 DEF Next

LEMMA InvHolds == Spec => []IInv
<1> QED BY InvInit, InvNext, PTL DEF Spec

LEMMA WholeIsSent ==
  ASSUME IInv, Whole
  PROVE  got \in {Nothing, Carried(msg)}
<1>1. text # <<>> /\ Last(text) = "LF"
  BY DEF Whole
<1>2. ~Cut
  <2> SUFFICES ASSUME Cut PROVE FALSE
    OBVIOUS
  <2> DEFINE e == Encode(msg)
  <2>1. e \in Text
    BY SplitEncode DEF IInv
  <2>2. PICK k \in 0..Len(e) : text = SubSeq(e, 1, k)
    BY DEF Cut
  <2> HIDE DEF e
  <2> QED BY <1>1, <2>1, <2>2, CutIs
<1> QED BY <1>1, <1>2 DEF IInv, Sent

\* Whatever is in its names, a message of any enum whose line arrives whole is
\* read as it was written, but for the list of one empty name (wire.rs,
\* PeerMessage, AdminMessage, AdminReply: encode and decode).
THEOREM SpecWholeLineIsRead == Spec => []WholeLineIsRead
<1>1. IInv => WholeLineIsRead
  BY WholeIsSent DEF WholeLineIsRead
<1> QED BY <1>1, InvHolds, PTL

LEMMA CutKeepsTheRest ==
  ASSUME IInv
  PROVE  OnlyLastFieldIsCut
<1> SUFFICES ASSUME got \notin {Nothing, Error}
             PROVE  /\ got.tag = msg.tag
                    /\ \A i \in 1..Len(msg.fields) - 1 :
                         got.fields[i] = Carried(msg).fields[i]
  BY DEF OnlyLastFieldIsCut
<1> DEFINE n == Len(Shapes[msg.tag])
           tag == msg.tag
<1>1. IsMessage(msg)
  BY DEF IInv
<1>2. /\ Carried(msg).tag = tag
      /\ \A i \in 1..n : Carried(msg).fields[i] = Arrives(msg, i)
  BY <1>1, CarriedIs
<1>3. n \in Nat /\ Len(msg.fields) = n
  BY <1>1, MessageIs DEF IsMessage
<1>4. CASE Sent
  BY <1>2, <1>4 DEF Sent
<1>5. CASE Cut
  <2> DEFINE e == Encode(msg)
             all == Split(e, Bar)
             parts == Split(text, Bar)
             shapes == Reader(tag)
  <2>1. e \in Text /\ all = Parts(msg)
    BY <1>1, SplitEncode
  <2>2. PICK k \in 0..Len(e) : text = SubSeq(e, 1, k)
                               /\ got \in {Nothing, Error, Decode(shapes, text)}
    BY <1>5 DEF Cut
  <2>3. text \in Text /\ \E t \in Text : e = text \o t
    <3> HIDE DEF e
    <3> QED BY <2>1, <2>2, CutIs
  <2>4. parts \in Seq(Text) /\ parts # <<>> /\ GoesOn(parts, all)
    BY <2>3, SplitGoesOn
  <2>5. got = Decode(shapes, text) /\ got # Error
    BY <2>2
  <2> DEFINE first == parts[1]
             t == first[1]
  <2>6. /\ Len(first) = 1 /\ t \in DOMAIN shapes /\ Len(parts) = 1 + Len(shapes[t])
        /\ got = [tag |-> t,
                  fields |-> [i \in DOMAIN shapes[t] |-> Read(shapes[t][i], parts[i + 1])]]
    BY <2>5 DEF Decode, Read
  <2>7. all[1] = <<tag>> /\ \A i \in 1..n : all[i + 1] = Written(msg, i)
    BY <1>1, <2>1, PartsAre
  <2>8. tag \in DOMAIN shapes /\ shapes[tag] = Shapes[tag] /\ DOMAIN Shapes[tag] = 1..n
    BY <1>1, MessageIs, ShapesAre
  <2>9. Len(parts) \in Nat /\ Len(parts) # 0
    BY <2>4, EmptySeq
  <2> HIDE DEF all, parts, shapes
  <2>10. t = tag
    <3>1. CASE Len(parts) = 1
      <4>1. all[1][1] = first[1]
        BY <2>4, <2>6, <3>1 DEF GoesOn
      <4> QED BY <2>7, <4>1
    <3>2. CASE Len(parts) # 1
      <4>1. 1 \in 1..Len(parts) - 1
        BY <2>9, <3>2
      <4>2. all[1] = first
        BY <2>4, <4>1 DEF GoesOn
      <4> QED BY <2>7, <4>2
    <3> QED BY <3>1, <3>2
  <2>11. Len(parts) = 1 + n
    BY <2>6, <2>8, <2>10
  <2>12. ASSUME NEW i \in 1..n - 1
         PROVE  got.fields[i] = Carried(msg).fields[i]
    <3>1. i \in 1..n /\ i + 1 \in 1..Len(parts) - 1
      BY <1>3, <2>11
    <3>2. parts[i + 1] = Written(msg, i)
      BY <2>4, <2>7, <3>1 DEF GoesOn
    <3>3. got.fields[i] = Read(Shapes[tag][i], parts[i + 1])
      BY <2>6, <2>8, <2>10, <3>1
    <3>4. Read(Shapes[tag][i], Written(msg, i)) = Arrives(msg, i)
      BY <1>1, <3>1, ReadWritten
    <3> QED BY <1>2, <3>1, <3>2, <3>3, <3>4
  <2> QED BY <1>3, <2>6, <2>10, <2>12
<1> QED BY <1>4, <1>5 DEF IInv

\* Where the connection breaks in the middle of a line, the line is refused or
\* only its last field is another one.
THEOREM SpecOnlyLastFieldIsCut == Spec => []OnlyLastFieldIsCut
<1>1. IInv => OnlyLastFieldIsCut
  BY CutKeepsTheRest
<1> QED BY <1>1, InvHolds, PTL

-----------------------------------------------------------------------------
(* A line of a state file *)

LEMMA FirstIs ==
  ASSUME NEW s, Len(s) \in Nat, NEW c, NEW k \in 1..Len(s), s[k] = c,
         \A i \in 1..k - 1 : s[i] # c
  PROVE  Find(s, c) = k
<1> DEFINE t == {i \in 1..Len(s) : s[i] = c}
           Smallest(x) == \A y \in t : x <= y
<1>1. k \in t /\ \A i \in t : k <= i
  OBVIOUS
<1>2. t \in SUBSET Nat
  OBVIOUS
<1>3. Find(s, c) = IF t # {} THEN Min(t) ELSE 0
  BY DEF Find, SelectInSeq
<1>4. Min(t) = CHOOSE x \in t : Smallest(x)
  BY DEF Min
<1> HIDE DEF t
<1>5. \A x \in t : Smallest(x) <=> x = k
  BY <1>1, <1>2
<1>6. Smallest(k)
  BY <1>1
<1> HIDE DEF Smallest
<1>7. (CHOOSE x \in t : Smallest(x)) = k
  BY <1>1, <1>5, <1>6
<1> QED BY <1>1, <1>3, <1>4, <1>7

LEMMA LineIs ==
  ASSUME NEW tag \in {"LEDGER", "SPENT"}, NEW b \in Text
  PROVE  LET C == Characters \cup {tag}
             rest == <<tag, Bar>> \o b
         IN  /\ rest \in Seq(C) /\ Len(rest) = 2 + Len(b)
             /\ Len(b) \in Nat
             /\ rest[1] = tag /\ rest[2] = Bar
             /\ \A i \in 1..Len(b) : rest[i + 2] = b[i]
             /\ <<tag, Bar>> \in Seq(C) /\ b \in Seq(C)
<1> DEFINE C == Characters \cup {tag}
           h == <<tag, Bar>>
           rest == h \o b
<1>1. h \in Seq(C) /\ Len(h) = 2 /\ h[1] = tag /\ h[2] = Bar
  BY SpecialCharacters
<1>2. b \in Seq(C) /\ Len(b) \in Nat
  BY LenProperties DEF Text
<1> HIDE DEF C, h
<1>3. /\ rest \in Seq(C) /\ Len(rest) = Len(h) + Len(b)
      /\ \A i \in 1..Len(h) + Len(b) :
           rest[i] = IF i <= Len(h) THEN h[i] ELSE b[i - Len(h)]
  BY <1>1, <1>2, ConcatProperties
<1> HIDE DEF rest
<1>4. /\ Len(rest) = 2 + Len(b) /\ rest[1] = tag /\ rest[2] = Bar
      /\ \A i \in 1..Len(b) : rest[i + 2] = b[i]
  BY <1>1, <1>2, <1>3
<1> QED BY <1>1, <1>2, <1>3, <1>4 DEF C, h, rest

\* What is read back of a line without its end.
LEMMA RestIsRead ==
  ASSUME NEW tag \in {"LEDGER", "SPENT"}, NEW b \in Text,
         NEW line, WithoutEnd(line) = <<tag, Bar>> \o b
  PROVE  ReadLine(line) = [tag |-> tag, name |-> b]
<1> DEFINE C == Characters \cup {tag}
           rest == <<tag, Bar>> \o b
           n == Len(b)
<1>1. /\ rest \in Seq(C) /\ Len(rest) = 2 + n /\ n \in Nat
      /\ rest[1] = tag /\ rest[2] = Bar
      /\ \A i \in 1..n : rest[i + 2] = b[i]
      /\ b \in Seq(C)
  BY LineIs
<1>2. tag # Bar
  BY DEF Bar
<1> HIDE DEF rest, n, C
<1>3. Find(rest, Bar) = 2
  <2>1. 2 \in 1..Len(rest) /\ Len(rest) \in Nat /\ \A i \in 1..2 - 1 : rest[i] # Bar
    BY <1>1, <1>2
  <2> QED BY <1>1, <2>1, FirstIs
<1> DEFINE name == SubSeq(rest, 2 + 1, 2 + n)
<1>4. name = b
  <2> DEFINE x == 2 + 1
             y == 2 + n
  <2>1. x \in Int /\ y \in Int /\ \A i \in x..y : rest[i] \in C
    BY <1>1, ElementOfSeq
  <2> HIDE DEF x, y
  <2>2. /\ SubSeq(rest, x, y) \in Seq(C)
        /\ Len(SubSeq(rest, x, y)) = IF x <= y THEN y - x + 1 ELSE 0
        /\ \A i \in 1..y - x + 1 : SubSeq(rest, x, y)[i] = rest[x + i - 1]
    BY <2>1, SubSeqProperties
  <2>3. /\ name \in Seq(C)
        /\ Len(name) = IF 2 + 1 <= 2 + n THEN (2 + n) - (2 + 1) + 1 ELSE 0
        /\ \A i \in 1..(2 + n) - (2 + 1) + 1 : name[i] = rest[2 + 1 + i - 1]
    BY <2>2 DEF x, y
  <2> HIDE DEF name
  <2>4. Len(name) = n /\ \A i \in 1..n : name[i] = b[i]
    <3>1. Len(name) = n
      BY <1>1, <2>3
    <3>2. ASSUME NEW i \in 1..n PROVE name[i] = b[i]
      <4>1. i \in 1..(2 + n) - (2 + 1) + 1 /\ 2 + 1 + i - 1 = i + 2
        BY <1>1
      <4>2. name[i] = rest[i + 2]
        BY <2>3, <4>1
      <4> QED BY <1>1, <4>2
    <3> QED BY <3>1, <3>2
  <2> QED BY <1>1, <2>3, <2>4, SeqEqual DEF n
<1>5. WithoutEnd(line) = rest
  BY DEF rest
<1>6. ReadLine(line) = [tag |-> rest[1], name |-> SubSeq(rest, 2 + 1, Len(rest))]
  BY <1>3, <1>5 DEF ReadLine
<1> QED BY <1>1, <1>4, <1>6

\* A line loses its line feed and a carriage return in front of it, and no
\* more: no name has a line feed.
LEMMA EndIsRemoved ==
  ASSUME NEW tag \in {"LEDGER", "SPENT"}, NEW name \in Text
  PROVE  WithoutEnd(StateLine(tag, name)) =
           <<tag, Bar>> \o (IF name # <<>> /\ Last(name) = "CR" THEN Front(name) ELSE name)
<1> DEFINE D == Characters \cup {tag}
           C == D \cup {"LF"}
           rest == <<tag, Bar>> \o name
           line == StateLine(tag, name)
           n == Len(name)
           l == Len(rest)
<1>1. /\ rest \in Seq(D) /\ l = 2 + n /\ n \in Nat
      /\ rest[1] = tag /\ rest[2] = Bar
      /\ \A i \in 1..n : rest[i + 2] = name[i]
  BY LineIs
<1>2. \A x \in D : x # "LF"
  BY NamesAssumption
<1>3. rest \in Seq(C) /\ "LF" \in C
  BY <1>1
<1>4. line = rest \o <<"LF">>
  BY DEF StateLine
<1> HIDE DEF C, rest, line
<1>5. line = Append(rest, "LF")
  BY <1>3, <1>4, AppendIsConcat
<1>6. /\ Len(line) = l + 1 /\ line[l + 1] = "LF" /\ l \in Nat
      /\ \A i \in 1..l : line[i] = rest[i]
  BY <1>3, <1>5, AppendProperties, LenProperties
<1>7. Find(line, "LF") = l + 1
  <2>1. \A i \in 1..l : rest[i] # "LF"
    BY <1>1, <1>2, ElementOfSeq
  <2>2. \A i \in 1..l + 1 - 1 : line[i] # "LF"
    BY <1>6, <2>1
  <2>3. l + 1 \in 1..Len(line) /\ Len(line) \in Nat
    BY <1>6
  <2> HIDE DEF l
  <2> QED BY <1>6, <2>2, <2>3, FirstIs
<1>8. SubSeq(line, 1, Find(line, "LF") - 1) = rest
  <2>1. Front(line) = rest
    BY <1>3, <1>5, FrontAppend
  <2>2. Front(line) = SubSeq(line, 1, Find(line, "LF") - 1)
    BY <1>6, <1>7 DEF Front
  <2> QED BY <2>1, <2>2
<1> HIDE DEF l
<1>9. WithoutEnd(line) = IF rest # <<>> /\ Last(rest) = "CR" THEN Front(rest) ELSE rest
  BY <1>8 DEF WithoutEnd
<1>10. CASE name = <<>>
  <2>1. n = 0
    BY <1>10
  <2>2. Last(rest) = Bar
    BY <1>1, <2>1 DEF Last, l
  <2>3. Bar # "CR"
    BY DEF Bar
  <2> QED BY <1>9, <1>10, <2>2, <2>3 DEF rest, line
<1>11. CASE name # <<>>
  <2>1. PICK b \in Text, c \in Characters : name = Append(b, c)
    BY <1>11, SequenceEmptyOrAppend DEF Text
  <2>2. Last(name) = c /\ Front(name) = b
    BY <2>1, FrontAppend DEF Text
  <2> DEFINE h == <<tag, Bar>>
             r == h \o b
  <2>3. h \in Seq(D) /\ b \in Seq(D) /\ r \in Seq(D) /\ c \in D
    BY <2>1, LineIs
  <2> HIDE DEF D
  <2>4. rest = Append(r, c)
    BY <2>1, <2>3, ConcatAppend DEF rest
  <2> HIDE DEF r
  <2>5. rest # <<>> /\ Last(rest) = c /\ Front(rest) = r
    BY <2>3, <2>4, FrontAppend
  <2> QED BY <1>9, <1>11, <2>2, <2>5 DEF rest, line, r
<1> QED BY <1>10, <1>11

\* save and load of a name (persistence.rs).
LEMMA StateLineIsRead ==
  ASSUME NEW tag \in {"LEDGER", "SPENT"}, NEW name \in Text
  PROVE  ReadLine(StateLine(tag, name)) =
           [tag |-> tag,
            name |-> IF name # <<>> /\ Last(name) = "CR" THEN Front(name) ELSE name]
<1> DEFINE b == IF name # <<>> /\ Last(name) = "CR" THEN Front(name) ELSE name
           line == StateLine(tag, name)
<1>1. b \in Text
  <2>1. CASE name = <<>>
    BY <2>1
  <2>2. CASE name # <<>>
    <3>1. PICK r \in Text, c \in Characters : name = Append(r, c)
      BY <2>2, SequenceEmptyOrAppend DEF Text
    <3>2. Front(name) = r
      BY <3>1, FrontAppend DEF Text
    <3> QED BY <3>2
  <2> QED BY <2>1, <2>2
<1>2. WithoutEnd(line) = <<tag, Bar>> \o b
  BY EndIsRemoved
<1> HIDE DEF b, line
<1>3. ReadLine(line) = [tag |-> tag, name |-> b]
  BY <1>1, <1>2, RestIsRead
<1> QED BY <1>3 DEF b, line

LEMMA NamesSurvive ==
  ASSUME IInv
  PROVE  NameSurvivesRestart
<1> SUFFICES ASSUME Whole, got.tag \in {"ADMIN_SEED", "ADMIN_SPEND_AT"}
             PROVE  LET name == msg.fields[1]
                        tag == IF got.tag = "ADMIN_SEED" THEN "LEDGER" ELSE "SPENT"
                    IN  ReadLine(StateLine(tag, got.fields[1])) =
                          [tag |-> tag,
                           name |-> IF name # <<>> /\ Last(name) = "CR"
                                      THEN Front(name) ELSE name]
  BY DEF NameSurvivesRestart
<1>1. got # Nothing
  <2>1. Nothing.tag = "nothing"
    BY DEF Nothing
  <2> QED BY <2>1
<1>2. got = Carried(msg) /\ IsMessage(msg)
  BY <1>1, WholeIsSent DEF IInv
<1>3. got.tag = msg.tag /\ got.fields = [i \in 1..Len(Shapes[msg.tag]) |-> Arrives(msg, i)]
  BY <1>2, CarriedIs
<1>4. msg.tag \in DOMAIN Shapes
  BY <1>2, MessageIs
<1>5. Shapes[msg.tag] = <<"name">>
  BY <1>3, <1>4, TagsAre
<1>6. Len(Shapes[msg.tag]) = 1 /\ ~IsList(Shapes[msg.tag][1])
  BY <1>5 DEF IsList
<1>7. got.fields[1] = msg.fields[1]
  BY <1>3, <1>6 DEF Arrives
<1>8. msg.fields[1] \in Text
  BY <1>2, <1>6, MessageIs
<1> QED BY <1>7, <1>8, StateLineIsRead

\* A bearer an administrator names is, after the next save and restart, the
\* bearer that was named, except for a carriage return at its end
\* (persistence.rs, save and load).
THEOREM SpecNameSurvivesRestart == Spec => []NameSurvivesRestart
<1>1. IInv => NameSurvivesRestart
  BY NamesSurvive
<1> QED BY <1>1, InvHolds, PTL
=============================================================================
