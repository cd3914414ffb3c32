------------------------------ MODULE Network ------------------------------
(***************************************************************************)
(* The centralised network of network.rs with the Conversion Day barrier   *)
(* of conversion_day.rs: one program holds every node and the link matrix, *)
(* so each operation is one step.  It is the reference the distributed     *)
(* node (module HabiNode) is written after.                                *)
(*                                                                         *)
(* An operation that returns an error changes nothing: its conditions are  *)
(* the guard of its action.  The log of the operations is left out.        *)
(***************************************************************************)
EXTENDS NodeShared

CONSTANTS
  Nodes,    \* the nodes the network is made with
  Bearers   \* bearer names

VARIABLES
  ledger,   \* ledger[n]: the bearers n holds
  spent,    \* spent[n]: the bearers n spent itself
  link,     \* link[n]: the nodes n has an up link to
  settled   \* history: bearers a barrier with all nodes has cleared

vars == <<ledger, spent, link, settled>>

-----------------------------------------------------------------------------
(* The operations *)

\* Every two nodes are linked; the caller puts each bearer in one ledger.
Init ==
  /\ \E home \in [Bearers -> Nodes] :
       ledger = [n \in Nodes |-> {b \in Bearers : home[b] = n}]
  /\ spent = [n \in Nodes |-> {}]
  /\ link = [n \in Nodes |-> Nodes \ {n}]
  /\ settled = {}

\* Faulty variant: only one direction is cut.
LinkDownOneWay(n, m) ==
  /\ n # m
  /\ m \in link[n]
  /\ link' = [link EXCEPT ![n] = @ \ {m}]
  /\ UNCHANGED <<ledger, spent, settled>>

LinkDown(n, m) ==
  /\ n # m
  /\ m \in link[n]
  /\ link' = [link EXCEPT ![n] = @ \ {m}, ![m] = @ \ {n}]
  /\ UNCHANGED <<ledger, spent, settled>>

LinkUp(n, m) ==
  LET merged == LinkUpMerge(ledger[n], spent[n], ledger[m], spent[m]) IN
  /\ n # m
  /\ m \notin link[n]
  /\ ledger' = [ledger EXCEPT ![n] = merged, ![m] = merged]
  /\ link' = [link EXCEPT ![n] = @ \cup {m}, ![m] = @ \cup {n}]
  /\ UNCHANGED <<spent, settled>>

\* A propagation that would deliver nothing is an error.
Propagate(src, dst) ==
  LET deliverable == PropagateDeliverable(ledger[dst], spent[dst], ledger[src])
  IN
  /\ dst \in link[src]
  /\ deliverable # {}
  /\ ledger' = [ledger EXCEPT ![dst] = @ \cup deliverable]
  /\ UNCHANGED <<spent, link, settled>>

\* Faulty variant: nobody is told.
SpendAtSilently(n, b) ==
  /\ b \in ledger[n]
  /\ spent' = [spent EXCEPT ![n] = @ \cup {b}]
  /\ ledger' = [ledger EXCEPT ![n] = @ \ {b}]
  /\ UNCHANGED <<link, settled>>

\* Faulty variant: the other nodes are lost.
SpendAtDropsNodes(n, b) ==
  /\ b \in ledger[n]
  /\ spent' = [spent EXCEPT ![n] = @ \cup {b}]
  /\ ledger' = [m \in link[n] \cup {n} |-> ledger[m] \ {b}]
  /\ UNCHANGED <<link, settled>>

\* The spend reaches the node and its current direct neighbours.
SpendAt(n, b) ==
  /\ b \in ledger[n]
  /\ spent' = [spent EXCEPT ![n] = @ \cup {b}]
  /\ ledger' = [m \in Nodes |-> IF m \in link[n] \cup {n}
                                  THEN ledger[m] \ {b}
                                  ELSE ledger[m]]
  /\ UNCHANGED <<link, settled>>

\* Faulty variant: each node clears its own spends only.
ConversionDayOwnOnly(participants) ==
  LET snaps == [n \in participants |-> spent[n]] IN
  /\ Conflicts(snaps) = {}
  /\ ledger' = [n \in Nodes |-> IF n \in participants
                                  THEN ledger[n] \ spent[n]
                                  ELSE ledger[n]]
  /\ settled' = IF participants = Nodes THEN settled \cup BurnSet(snaps)
                                        ELSE settled
  /\ UNCHANGED <<spent, link>>

\* The barrier for a set of participants: a bearer that two of them spent
\* makes it an error.
ConversionDay(participants) ==
  LET snaps == [n \in participants |-> spent[n]] IN
  /\ Conflicts(snaps) = {}
  /\ ledger' = [n \in Nodes |-> IF n \in participants
                                  THEN ledger[n] \ BurnSet(snaps)
                                  ELSE ledger[n]]
  /\ settled' = IF participants = Nodes THEN settled \cup BurnSet(snaps)
                                        ELSE settled
  /\ UNCHANGED <<spent, link>>

Next ==
  \/ \E n, m \in Nodes : LinkDown(n, m) \/ LinkUp(n, m) \/ Propagate(n, m)
  \/ \E n \in Nodes, b \in Bearers : SpendAt(n, b)
  \/ \E participants \in SUBSET Nodes : ConversionDay(participants)

Spec == Init /\ [][Next]_vars

-----------------------------------------------------------------------------
(* Properties *)

\* The type invariant.
TypeOK ==
  /\ ledger \in [Nodes -> SUBSET Bearers]
  /\ spent \in [Nodes -> SUBSET Bearers]
  /\ link \in [Nodes -> SUBSET Nodes]
  /\ settled \in SUBSET Bearers

\* The link matrix stays symmetric, and no node is linked to itself: network.rs
\* promises it "by construction" of link_up and link_down.
LinksSymmetric ==
  \A n, m \in Nodes : m \in link[n] => m # n /\ n \in link[m]

\* What a node has spent it never holds again.
OwnSpendFinal == \A n \in Nodes : ledger[n] \cap spent[n] = {}

Spenders(b) == {n \in Nodes : b \in spent[n]}

\* After a barrier with all nodes a bearer it cleared is held by no node and
\* has exactly one spender, for ever: no later merge or propagation brings it
\* back and no second spend of it is possible
\* (conversion_day_prevents_future_double_spend in tests/invariants.rs).
SettledIsFinal ==
  \A b \in settled :
    /\ \A n \in Nodes : b \notin ledger[n]
    /\ \E n \in Nodes : Spenders(b) = {n}

\* No node holds what any node has spent: check_post_barrier_safety for all
\* nodes.
BarrierSafe == \A n, m \in Nodes : ledger[n] \cap spent[m] = {}

\* A spend that not every holder of the bearer hears of.
MissedSpend(n, b) ==
  SpendAt(n, b) /\ \E m \in Nodes \ {n} : m \notin link[n] /\ b \in ledger[m]

\* The only way out of the state a barrier reaches is a spend at a node that
\* has no link to another holder; merges, propagations, link changes, partial
\* barriers and spends that all holders hear of stay inside it.
OnlyMissedSpendBreaksBarrier ==
  [][BarrierSafe =>
       BarrierSafe' \/ \E n \in Nodes, b \in Bearers : MissedSpend(n, b)]_vars
=============================================================================
