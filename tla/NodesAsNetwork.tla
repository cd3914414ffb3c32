--------------------------- MODULE NodesAsNetwork ---------------------------
(***************************************************************************)
(* The nodes of HabiNode as the network of SerialNetwork: what of a        *)
(* command is still in messages, or on a thread's list of messages to      *)
(* send, counts as done.                                                   *)
(*                                                                         *)
(* A LinkUp takes effect when the peer has handled the hello, a LinkDown   *)
(* when it is sent, a Propagate when the reply is applied, a SpendAt when  *)
(* the bearer leaves the ledger, a ConversionDay when it burns.            *)
(***************************************************************************)
EXTENDS HabiNode

To(n, type) == {m \in net : m.to = n /\ m.type = type}

\* Bearers n has been, or will be, told to remove.
Leaving(n) ==
  (UNION {m.spent : m \in To(n, "SpentNotify")})
    \cup {b \in Bearers : \E t \in Threads : <<n, b>> \in cmd[t].todo}

LedgerOf(n) ==
  LET acks == To(n, "LinkUpAck")
      merged == IF acks = {}
                  THEN ledger[n]
                  ELSE UNION {LinkUpMerge(ledger[n], spent[n],
                                          m.ledger, m.spent) : m \in acks}
  IN  merged \ Leaving(n)

LinkOf(n) ==
  (link[n] \cup {m.from : m \in To(n, "LinkUpAck")})
    \ ({m.from : m \in To(n, "LinkDown")}
         \cup {cmd[t].peer : t \in {u \in Threads :
                 At(u, "apply", "LinkDown") /\ cmd[u].node = n}})

\* The burn of a ConversionDay that is not answered yet counts.
Settling(t) == cmd[t].kind = "ConversionDay" /\ cmd[t].pc \in {"persist", "notify"}

Ledgers == [n \in Nodes |-> LedgerOf(n)]
Links   == [n \in Nodes |-> LinkOf(n)]
Settled ==
  settled \cup UNION {BurnSet(cmd[t].seen) : t \in {u \in Threads : Settling(u)}}

Centralised ==
  INSTANCE SerialNetwork WITH ledger <- Ledgers, link <- Links, settled <- Settled

\* One command at a time and without faults, the distributed nodes implement
\* the centralised network: "mirrors network.rs::link_up" (shared_state.rs),
\* "mirroring network.rs::spend_at's connected_to(nn) broadcast"
\* (habi_node.rs), and so for every command.
ImplementsNetwork == Centralised!SerialSpec
=============================================================================
