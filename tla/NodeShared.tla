----------------------------- MODULE NodeShared -----------------------------
(***************************************************************************)
(* The pure set computations of one node: the merge and filter functions   *)
(* of NodeShared (src/src/shared_state.rs) and the settlement computation  *)
(* of the Conversion Day coordinator (src/src/                             *)
(* conversion_day_coordinator.rs).  A bearer set is a set; the HashSet of  *)
(* names, its sorting and its cloning are left out.                        *)
(***************************************************************************)

(***************************************************************************)
(* Each module has a few faulty variants of its definitions, in front of   *)
(* the definition they are a variant of and used by nothing: mistakes that *)
(* the properties notice.                                                  *)
(***************************************************************************)

\* Faulty variant of LinkUpMerge: the node's own spends are not looked up.
MergeForgetsOwnSpent(ledger, spent, peerLedger, peerSpent) ==
  (ledger \cup peerLedger) \ peerSpent

(***************************************************************************)
(* What both ends of a LinkUp keep: everything either of them holds, minus *)
(* everything either of them has spent.                                    *)
(***************************************************************************)
LinkUpMerge(ledger, spent, peerLedger, peerSpent) ==
  (ledger \cup peerLedger) \ (spent \cup peerSpent)

\* Faulty variant of PropagateDeliverable: only what is held already is
\* filtered out.
DeliverableIgnoresSpent(ledger, spent, peerLedger) == peerLedger \ ledger

(***************************************************************************)
(* What the requester of a Propagate takes from the source's raw ledger:   *)
(* what it neither spent nor already holds.                                *)
(***************************************************************************)
PropagateDeliverable(ledger, spent, peerLedger) ==
  peerLedger \ (spent \cup ledger)

(***************************************************************************)
(* In both operators below snaps[n] is the spent set reported for node n.  *)
(* BurnSet is every bearer somebody spent, Conflicts those that two        *)
(* different nodes spent: a settlement round with a conflict is refused.   *)
(***************************************************************************)
BurnSet(snaps) == UNION {snaps[n] : n \in DOMAIN snaps}

Conflicts(snaps) ==
  {b \in BurnSet(snaps) :
     \E m, n \in DOMAIN snaps : m # n /\ b \in snaps[m] /\ b \in snaps[n]}

=============================================================================
