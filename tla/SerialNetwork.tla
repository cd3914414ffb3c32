--------------------------- MODULE SerialNetwork ---------------------------
(***************************************************************************)
(* What the nodes of habi_node are to their administrators when one        *)
(* command runs at a time and nothing fails: the centralised network, in   *)
(* which every command takes effect at once at all the nodes it concerns,  *)
(* with three liberties.  The links are down at first, a LinkUp also       *)
(* merges over a link that is up already, and bearers may be seeded.       *)
(***************************************************************************)
EXTENDS Network

SerialInit ==
  /\ \E homes \in [Bearers -> {{n} : n \in Nodes} \cup {{}}] :
       ledger = [n \in Nodes |-> {b \in Bearers : n \in homes[b]}]
  /\ spent = [n \in Nodes |-> {}]
  /\ link = [n \in Nodes |-> {}]
  /\ settled = {}

Relink(n, m) ==
  LET merged == LinkUpMerge(ledger[n], spent[n], ledger[m], spent[m]) IN
  /\ m \in link[n]
  /\ ledger' = [ledger EXCEPT ![n] = merged, ![m] = merged]
  /\ UNCHANGED <<spent, link, settled>>

\* A bearer that is not in circulation.
Seed(n, b) ==
  /\ \A m \in Nodes : b \notin ledger[m] /\ b \notin spent[m]
  /\ ledger' = [ledger EXCEPT ![n] = @ \cup {b}]
  /\ UNCHANGED <<spent, link, settled>>

SerialNext ==
  \/ \E n, m \in Nodes :
       LinkDown(n, m) \/ LinkUp(n, m) \/ Relink(n, m) \/ Propagate(n, m)
  \/ \E n \in Nodes, b \in Bearers : SpendAt(n, b) \/ Seed(n, b)
  \/ ConversionDay(Nodes)

SerialSpec == SerialInit /\ [][SerialNext]_vars
=============================================================================
