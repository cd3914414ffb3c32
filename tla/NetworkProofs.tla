--------------------------- MODULE NetworkProofs ---------------------------
(***************************************************************************)
(* What holds of the centralised network for any set of nodes and bearers. *)
(***************************************************************************)
EXTENDS SerialNetwork, TLAPS

-----------------------------------------------------------------------------
(* Typing *)

\* Every operation keeps the types.
LEMMA StepTyped == TypeOK /\ [Next]_vars => TypeOK'
<1> SUFFICES ASSUME TypeOK, [Next]_vars PROVE TypeOK'
  OBVIOUS
<1> USE DEF TypeOK
<1>1. ASSUME NEW n \in Nodes, NEW m \in Nodes, LinkDown(n, m)
      PROVE  TypeOK'
  BY <1>1 DEF LinkDown
<1>2. ASSUME NEW n \in Nodes, NEW m \in Nodes, LinkUp(n, m)
      PROVE  TypeOK'
  BY <1>2 DEF LinkUp, LinkUpMerge
<1>3. ASSUME NEW n \in Nodes, NEW m \in Nodes, Propagate(n, m)
      PROVE  TypeOK'
  BY <1>3 DEF Propagate, PropagateDeliverable
<1>4. ASSUME NEW n \in Nodes, NEW b \in Bearers, SpendAt(n, b)
      PROVE  TypeOK'
  BY <1>4 DEF SpendAt
<1>5. ASSUME NEW P \in SUBSET Nodes, ConversionDay(P)
      PROVE  TypeOK'
  <2>1. BurnSet([n \in P |-> spent[n]]) \subseteq Bearers
    BY DEF BurnSet
  <2> QED BY <1>5, <2>1 DEF ConversionDay
<1>6. CASE UNCHANGED vars
  BY <1>6 DEF vars
<1> QED BY <1>1, <1>2, <1>3, <1>4, <1>5, <1>6 DEF Next

\* Every operation keeps the types (network.rs, conversion_day.rs).
THEOREM TypeCorrect == Spec => []TypeOK
<1>1. Init => TypeOK
  BY DEF Init, TypeOK
<1> QED BY <1>1, StepTyped, PTL DEF Spec

-----------------------------------------------------------------------------
(* Links *)

\* The operations that change links change both directions.
LEMMA StepLinks == TypeOK /\ LinksSymmetric /\ [Next]_vars => LinksSymmetric'
<1> SUFFICES ASSUME TypeOK, LinksSymmetric, [Next]_vars
             PROVE  LinksSymmetric'
  OBVIOUS
<1> USE DEF TypeOK, LinksSymmetric
<1>1. ASSUME NEW n \in Nodes, NEW m \in Nodes, LinkDown(n, m)
      PROVE  LinksSymmetric'
  BY <1>1 DEF LinkDown
<1>2. ASSUME NEW n \in Nodes, NEW m \in Nodes, LinkUp(n, m)
      PROVE  LinksSymmetric'
  BY <1>2 DEF LinkUp
<1>3. CASE UNCHANGED link
  BY <1>3
<1> QED
  BY <1>1, <1>2, <1>3 DEF Next, vars, Propagate, SpendAt, ConversionDay

\* The link matrix stays symmetric: link_up and link_down always change both
\* directions, and the other operations none.
THEOREM LinksStaySymmetric == Spec => []LinksSymmetric
<1>1. Init => LinksSymmetric
  BY DEF Init, LinksSymmetric
<1> QED BY <1>1, StepLinks, TypeCorrect, PTL DEF Spec

-----------------------------------------------------------------------------
(* Spends *)

\* Merges and deliveries leave out what the node has spent.
LEMMA StepOwnSpend == TypeOK /\ OwnSpendFinal /\ [Next]_vars => OwnSpendFinal'
<1> SUFFICES ASSUME TypeOK, OwnSpendFinal, [Next]_vars
             PROVE  OwnSpendFinal'
  OBVIOUS
<1> USE DEF TypeOK, OwnSpendFinal
<1>1. ASSUME NEW n \in Nodes, NEW m \in Nodes, LinkUp(n, m)
      PROVE  OwnSpendFinal'
  BY <1>1 DEF LinkUp, LinkUpMerge
<1>2. ASSUME NEW n \in Nodes, NEW m \in Nodes, Propagate(n, m)
      PROVE  OwnSpendFinal'
  BY <1>2 DEF Propagate, PropagateDeliverable
<1>3. ASSUME NEW n \in Nodes, NEW b \in Bearers, SpendAt(n, b)
      PROVE  OwnSpendFinal'
  BY <1>3 DEF SpendAt
<1>4. ASSUME NEW P \in SUBSET Nodes, ConversionDay(P)
      PROVE  OwnSpendFinal'
  BY <1>4 DEF ConversionDay
<1>5. CASE UNCHANGED <<ledger, spent>>
  BY <1>5
<1> QED
  BY <1>1, <1>2, <1>3, <1>4, <1>5 DEF Next, vars, LinkDown

\* A node never holds what it has spent: link_up subtracts both spent sets
\* and propagate filters with the receiver's.
THEOREM OwnSpendStaysFinal == Spec => []OwnSpendFinal
<1>1. Init => OwnSpendFinal
  BY DEF Init, OwnSpendFinal
<1> QED BY <1>1, StepOwnSpend, TypeCorrect, PTL DEF Spec

-----------------------------------------------------------------------------
(* The barrier *)

\* What compute_conversion_day (here for the spent sets of all nodes) burns
\* without reporting a conflict has exactly one spender.
LEMMA BurnHasOneSpender ==
  ASSUME TypeOK,
         NEW snaps, snaps = [n \in Nodes |-> spent[n]],
         Conflicts(snaps) = {},
         NEW b \in BurnSet(snaps)
  PROVE  \E n \in Nodes : Spenders(b) = {n}
<1>1. DOMAIN snaps = Nodes /\ \A n \in Nodes : snaps[n] = spent[n]
  OBVIOUS
<1>2. PICK n \in Nodes : b \in spent[n]
  BY <1>1 DEF BurnSet
<1>3. \A m \in Nodes : b \in spent[m] => m = n
  BY <1>1, <1>2 DEF Conflicts
<1> QED BY <1>2, <1>3 DEF Spenders

\* A settled bearer keeps its one spender as long as nobody spends it again.
LEMMA SpendersOfOthersUnchanged ==
  ASSUME TypeOK, NEW n \in Nodes, NEW b \in Bearers, SpendAt(n, b),
         NEW c, c # b
  PROVE  Spenders(c)' = Spenders(c)
BY DEF TypeOK, SpendAt, Spenders

\* Nobody can spend what nobody holds, and merges and propagations only
\* move what somebody holds.
LEMMA StepSettled == TypeOK /\ SettledIsFinal /\ [Next]_vars => SettledIsFinal'
<1> SUFFICES ASSUME TypeOK, SettledIsFinal, [Next]_vars
             PROVE  SettledIsFinal'
  OBVIOUS
<1>1. ASSUME NEW n \in Nodes, NEW m \in Nodes, LinkDown(n, m)
      PROVE  SettledIsFinal'
  BY <1>1 DEF LinkDown, SettledIsFinal, Spenders
<1>2. ASSUME NEW n \in Nodes, NEW m \in Nodes, LinkUp(n, m)
      PROVE  SettledIsFinal'
  BY <1>2 DEF LinkUp, LinkUpMerge, SettledIsFinal, Spenders, TypeOK
<1>3. ASSUME NEW n \in Nodes, NEW m \in Nodes, Propagate(n, m)
      PROVE  SettledIsFinal'
  BY <1>3
  DEF Propagate, PropagateDeliverable, SettledIsFinal, Spenders, TypeOK
<1>4. ASSUME NEW n \in Nodes, NEW b \in Bearers, SpendAt(n, b)
      PROVE  SettledIsFinal'
  <2>1. b \notin settled
    BY <1>4 DEF SpendAt, SettledIsFinal
  <2>2. ASSUME NEW c \in settled PROVE Spenders(c)' = Spenders(c)
    BY <1>4, <2>1, <2>2, SpendersOfOthersUnchanged
  <2>3. ASSUME NEW c \in settled, NEW m \in Nodes PROVE c \notin ledger'[m]
    BY <1>4, <2>3 DEF SpendAt, SettledIsFinal
  <2>4. settled' = settled
    BY <1>4 DEF SpendAt
  <2> QED BY <2>2, <2>3, <2>4 DEF SettledIsFinal
<1>5. ASSUME NEW P \in SUBSET Nodes, ConversionDay(P)
      PROVE  SettledIsFinal'
  <2> DEFINE snaps == [n \in P |-> spent[n]]
  <2>1. /\ spent' = spent
        /\ \A n \in Nodes : ledger'[n] \subseteq ledger[n]
        /\ \A n \in P : ledger'[n] = ledger[n] \ BurnSet(snaps)
    BY <1>5 DEF ConversionDay
  <2>2. \A b : Spenders(b)' = Spenders(b)
    BY <2>1 DEF Spenders
  <2>3. ASSUME NEW b \in settled
        PROVE  /\ \A n \in Nodes : b \notin ledger'[n]
               /\ \E n \in Nodes : Spenders(b)' = {n}
    BY <2>1, <2>2, <2>3 DEF SettledIsFinal
  <2>4. ASSUME P = Nodes, NEW b \in BurnSet(snaps)
        PROVE  /\ \A n \in Nodes : b \notin ledger'[n]
               /\ \E n \in Nodes : Spenders(b)' = {n}
    <3>1. Conflicts(snaps) = {}
      BY <1>5 DEF ConversionDay
    <3>2. \E n \in Nodes : Spenders(b) = {n}
      BY <2>4, <3>1, BurnHasOneSpender
    <3> QED BY <2>1, <2>2, <2>4, <3>2
  <2>5. settled' \subseteq IF P = Nodes THEN settled \cup BurnSet(snaps)
                                        ELSE settled
    BY <1>5 DEF ConversionDay
  <2> HIDE DEF snaps
  <2> QED BY <2>3, <2>4, <2>5 DEF SettledIsFinal
<1>6. CASE UNCHANGED vars
  BY <1>6 DEF vars, SettledIsFinal, Spenders
<1> QED BY <1>1, <1>2, <1>3, <1>4, <1>5, <1>6 DEF Next

\* The safety a barrier buys is permanent: what it cleared has one spender
\* and no holder for ever.  SettledIsFinal is inductive with TypeOK: nobody
\* can spend what nobody holds, and merges and propagations only move what
\* somebody holds.
THEOREM SettledStaysFinal == Spec => []SettledIsFinal
<1>1. Init => SettledIsFinal
  BY DEF Init, SettledIsFinal
<1> QED BY <1>1, StepSettled, TypeCorrect, PTL DEF Spec

\* Merges, deliveries, partial barriers and spends that all holders hear of
\* leave no node with what another has spent.
LEMMA StepBarrier ==
  ASSUME TypeOK, [Next]_vars, BarrierSafe,
         ~ \E n \in Nodes, b \in Bearers : MissedSpend(n, b)
  PROVE  BarrierSafe'
<1> USE DEF TypeOK, BarrierSafe
<1>1. ASSUME NEW n \in Nodes, NEW m \in Nodes, LinkUp(n, m)
      PROVE  BarrierSafe'
  BY <1>1 DEF LinkUp, LinkUpMerge
<1>2. ASSUME NEW n \in Nodes, NEW m \in Nodes, Propagate(n, m)
      PROVE  BarrierSafe'
  BY <1>2 DEF Propagate, PropagateDeliverable
<1>3. ASSUME NEW n \in Nodes, NEW b \in Bearers, SpendAt(n, b)
      PROVE  BarrierSafe'
  <2>1. \A m \in Nodes \ {n} : b \in ledger[m] => m \in link[n]
    BY <1>3 DEF MissedSpend
  <2>2. \A m \in Nodes : b \notin ledger'[m] /\ ledger'[m] \subseteq ledger[m]
    BY <1>3, <2>1 DEF SpendAt
  <2>3. \A m \in Nodes : spent'[m] \subseteq spent[m] \cup {b}
    BY <1>3 DEF SpendAt
  <2> QED BY <2>2, <2>3
<1>4. ASSUME NEW P \in SUBSET Nodes, ConversionDay(P)
      PROVE  BarrierSafe'
  BY <1>4 DEF ConversionDay
<1>5. CASE UNCHANGED <<ledger, spent>>
  BY <1>5
<1> QED
  BY <1>1, <1>2, <1>3, <1>4, <1>5 DEF Next, vars, LinkDown

\* Starting from the state a barrier leaves, only a spend that some holder of
\* the bearer cannot hear of makes a node hold what another has spent.
THEOREM BarrierIsBrokenByMissedSpendsOnly == Spec => OnlyMissedSpendBreaksBarrier
<1>1. TypeOK /\ [Next]_vars =>
        (BarrierSafe =>
           BarrierSafe' \/ \E n \in Nodes, b \in Bearers : MissedSpend(n, b))
  BY StepBarrier
<1> QED BY <1>1, TypeCorrect, PTL DEF Spec, OnlyMissedSpendBreaksBarrier

-----------------------------------------------------------------------------
(* The serial network: the operations above, a LinkUp over a link that is  *)
(* up, and new bearers.                                                    *)

LEMMA SerialStep ==
  ASSUME [SerialNext]_vars
  PROVE  \/ [Next]_vars
         \/ \E n, m \in Nodes : Relink(n, m)
         \/ \E n \in Nodes, b \in Bearers : Seed(n, b)
<1>1. ASSUME ConversionDay(Nodes) PROVE Next
  BY <1>1 DEF Next
<1> QED BY <1>1 DEF SerialNext, Next

\* Everything that holds of the centralised network between operations.
NetworkInv == TypeOK /\ LinksSymmetric /\ OwnSpendFinal /\ SettledIsFinal

LEMMA SerialInitInv == SerialInit => NetworkInv /\ BarrierSafe
BY DEF SerialInit, NetworkInv, TypeOK, LinksSymmetric, OwnSpendFinal,
       SettledIsFinal, BarrierSafe

LEMMA SerialStepInv == NetworkInv /\ [SerialNext]_vars => NetworkInv'
<1> SUFFICES ASSUME NetworkInv, [SerialNext]_vars PROVE NetworkInv'
  OBVIOUS
<1>1. CASE [Next]_vars
  BY <1>1, StepTyped, StepLinks, StepOwnSpend, StepSettled DEF NetworkInv
<1>2. ASSUME NEW n \in Nodes, NEW m \in Nodes, Relink(n, m)
      PROVE  NetworkInv'
  <2>1. TypeOK' /\ LinksSymmetric' /\ OwnSpendFinal'
    BY <1>2 DEF Relink, LinkUpMerge, NetworkInv, TypeOK, LinksSymmetric,
                OwnSpendFinal
  <2>2. SettledIsFinal'
    BY <1>2 DEF Relink, LinkUpMerge, NetworkInv, TypeOK, SettledIsFinal,
                Spenders
  <2> QED BY <2>1, <2>2 DEF NetworkInv
<1>3. ASSUME NEW n \in Nodes, NEW b \in Bearers, Seed(n, b)
      PROVE  NetworkInv'
  <2>1. TypeOK' /\ LinksSymmetric' /\ OwnSpendFinal'
    BY <1>3 DEF Seed, NetworkInv, TypeOK, LinksSymmetric, OwnSpendFinal
  <2>2. b \notin settled
    BY <1>3 DEF Seed, NetworkInv, SettledIsFinal, Spenders
  <2>3. SettledIsFinal'
    BY <1>3, <2>2 DEF Seed, NetworkInv, TypeOK, SettledIsFinal, Spenders
  <2> QED BY <2>1, <2>3 DEF NetworkInv
<1> QED BY <1>1, <1>2, <1>3, SerialStep

\* The abstract specification of the distributed nodes keeps what the
\* centralised network promises, although its links are down at first, a
\* LinkUp may come twice and bearers are seeded.
THEOREM SerialNetworkIsSafe == SerialSpec => []NetworkInv
BY SerialInitInv, SerialStepInv, PTL DEF SerialSpec

\* A new bearer and a merge are no way out of the state a barrier reaches.
THEOREM SerialBarrierIsBrokenByMissedSpendsOnly ==
  SerialSpec => OnlyMissedSpendBreaksBarrier
<1>1. NetworkInv /\ [SerialNext]_vars =>
        (BarrierSafe =>
           BarrierSafe' \/ \E n \in Nodes, b \in Bearers : MissedSpend(n, b))
  <2> SUFFICES ASSUME NetworkInv, [SerialNext]_vars, BarrierSafe,
                      ~ \E n \in Nodes, b \in Bearers : MissedSpend(n, b)
               PROVE  BarrierSafe'
    OBVIOUS
  <2>1. CASE [Next]_vars
    BY <2>1, StepBarrier DEF NetworkInv
  <2>2. ASSUME NEW n \in Nodes, NEW m \in Nodes, Relink(n, m)
        PROVE  BarrierSafe'
    BY <2>2 DEF Relink, LinkUpMerge, NetworkInv, TypeOK, BarrierSafe
  <2>3. ASSUME NEW n \in Nodes, NEW b \in Bearers, Seed(n, b)
        PROVE  BarrierSafe'
    BY <2>3 DEF Seed, NetworkInv, TypeOK, BarrierSafe
  <2> QED BY <2>1, <2>2, <2>3, SerialStep
<1> QED
  BY <1>1, SerialNetworkIsSafe, PTL
  DEF SerialSpec, OnlyMissedSpendBreaksBarrier
=============================================================================
