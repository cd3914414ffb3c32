------------------------------ MODULE HabiNode ------------------------------
(***************************************************************************)
(* The distributed node, habi_node: one process per node, each with its    *)
(* own ledger, spent set and link table, talking over TCP.                 *)
(*                                                                         *)
(* A process runs a thread per admin connection (an administrator's        *)
(* command, handle_admin_command in bin/habi_node.rs) and a thread per     *)
(* peer connection (handle_incoming_peer_message in peer_protocol.rs), all *)
(* sharing one NodeShared behind a mutex.  An action is one critical       *)
(* section of that mutex, or one network or disk operation between two of  *)
(* them, so that the commands of one node and of several interleave here   *)
(* as they do in the program.  A peer thread holds the mutex for its whole *)
(* message: a handler is one action.                                       *)
(*                                                                         *)
(* An exchange is a connection: a request, then one reply or none, and a   *)
(* message of the admin thread t carries t as its op.  Sending to a node   *)
(* that is down fails at once.  The peers mutex, which guards a table that *)
(* never changes after start, is left out: without it more interleavings   *)
(* are possible, not fewer.                                                *)
(***************************************************************************)
EXTENDS NodeShared

CONSTANTS
  Nodes,    \* the nodes; every node's peers file lists all the others
  Bearers,  \* bearer names
  Threads,  \* admin connections open at the same time, over all nodes
  Kinds,    \* the admin commands the administrators use
  Faults,   \* "crash", "loss", "disk", "load", "reseed": what may go wrong
  None      \* neither a node nor a bearer

Commands ==
  {"LinkUp", "LinkDown", "Propagate", "SpendAt", "Seed", "ConversionDay"}

ASSUME NoneAssumption == None \notin Nodes /\ None \notin Bearers
ASSUME KindsAssumption == Kinds \subseteq Commands
ASSUME FaultsAssumption ==
  Faults \subseteq {"crash", "loss", "disk", "load", "reseed"}

VARIABLES
  up,       \* up[n]: the process of n runs
  ledger,   \* ledger[n]: the bearers n holds, in memory
  spent,    \* spent[n]: the bearers n spent itself, in memory
  link,     \* link[n]: the peers n believes its link to is up
  disk,     \* disk[n]: the ledger and spent set in n's state file
  cmd,      \* cmd[t]: the command the admin thread t is executing
  net,      \* the messages on open connections
  \* The rest is history, read by the properties only (issued: see Seedable).
  issued,   \* bearers that were ever put into circulation
  reseeded, \* bearers that were seeded again after that
  ever,     \* bearers that any node ever spent, also if it forgot them
  acked,    \* acked[n]: bearers whose SpendAt n answered with Ok
  settled   \* bearers of the ConversionDays that were answered with Ok

memory  == <<ledger, spent, link>>
history == <<issued, reseeded, ever, acked, settled>>
vars    == <<up, memory, disk, cmd, net, history>>

-----------------------------------------------------------------------------
(* Data *)

NodeState == [ledger : SUBSET Bearers, spent : SUBSET Bearers]

\* A node without a state file starts from this state.
Fresh == [ledger |-> {}, spent |-> {}]

PeerMessages ==
  {"LinkUpHello", "LinkUpAck", "LinkDown", "PropagateRequest",
   "PropagateReply", "SpentNotify", "StatusRequest", "StatusReply"}

\* A SpentNotify names its bearer in spent.  The ledger of a StatusReply is
\* left out: nobody reads it.
Message ==
  [type : PeerMessages, op : Threads, from : Nodes, to : Nodes,
   ledger : SUBSET Bearers, spent : SUBSET Bearers]

\* Where an admin thread is: between connections, waiting for a reply, about
\* to apply a LinkDown or to save the state, between two peers of a
\* ConversionDay, or broadcasting.
Steps == {"idle", "await", "apply", "persist", "gather", "notify"}

Command ==
  [pc      : Steps,
   kind    : Commands \cup {"none"},
   node    : Nodes \cup {None},         \* the node the thread belongs to
   peer    : Nodes \cup {None},         \* the other end of its exchange
   bearer  : Bearers \cup {None},       \* the bearer of a SpendAt
   sent    : NodeState,                 \* what its LinkUpHello said
   seen    : [Nodes -> SUBSET Bearers], \* spent sets ConversionDay gathered
   left    : SUBSET Nodes,              \* peers it has not asked yet
   missing : SUBSET Nodes,              \* peers that did not answer it
   todo    : SUBSET (Nodes \X Bearers), \* SpentNotify messages to send
   atStart : SUBSET Bearers]            \* history: conflicts on disk when
                                        \* the ConversionDay began

Idle ==
  [pc |-> "idle", kind |-> "none", node |-> None, peer |-> None,
   bearer |-> None, sent |-> Fresh, seen |-> [n \in Nodes |-> {}],
   left |-> {}, missing |-> {}, todo |-> {}, atStart |-> {}]

Peers(n) == Nodes \ {n}

Begin(t, pc, kind, n) ==
  [Idle EXCEPT !.pc = pc, !.kind = kind, !.node = n]

\* The thread goes on at pc.
Goto(t, pc) == cmd' = [cmd EXCEPT ![t].pc = pc]

\* The thread answers its administrator and ends.
Finish(t) == cmd' = [cmd EXCEPT ![t] = Idle]

At(t, pc, kind) == cmd[t].pc = pc /\ cmd[t].kind = kind

-----------------------------------------------------------------------------
(* The network *)

Msg(type, t, from, to, led, spt) ==
  [type |-> type, op |-> t, from |-> from, to |-> to,
   ledger |-> led, spent |-> spt]

\* Connect and write one line: nothing is sent to a process that is down.
Send(m) == net' = net \cup {x \in {m} : up[x.to]}

\* The handler of m is through and writes its replies to m's connection,
\* where the admin thread that opened it may be gone.
HandledWith(m, replies) ==
  net' = (net \ {m}) \cup {r \in replies : cmd[m.op].pc = "await"}

\* A reply the thread is waiting for.
Replies(t, type) == {m \in net : m.op = t /\ m.type = type}

-----------------------------------------------------------------------------
(* Start of an admin command *)

\* A thread slot takes a new connection when its last one is history: its
\* messages are delivered, lost or dropped.
Free(t) == cmd[t].pc = "idle" /\ \A m \in net : m.op # t

\* Faulty variant: the hello carries its two sets in the wrong order.
AdminLinkUpSwapped(t, n, p) ==
  /\ cmd' = [cmd EXCEPT ![t] =
               [Begin(t, "await", "LinkUp", n) EXCEPT !.peer = p,
                  !.sent = [ledger |-> ledger[n], spent |-> spent[n]]]]
  /\ Send(Msg("LinkUpHello", t, n, p, spent[n], ledger[n]))
  /\ UNCHANGED <<up, memory, disk, history>>

AdminLinkUp(t, n, p) ==
  /\ cmd' = [cmd EXCEPT ![t] =
               [Begin(t, "await", "LinkUp", n) EXCEPT !.peer = p,
                  !.sent = [ledger |-> ledger[n], spent |-> spent[n]]]]
  /\ Send(Msg("LinkUpHello", t, n, p, ledger[n], spent[n]))
  /\ UNCHANGED <<up, memory, disk, history>>

\* The peer is told first.  When that fails (the peer is down) the command
\* is an error and nothing changes.
AdminLinkDown(t, n, p) ==
  /\ up[p]
  /\ cmd' = [cmd EXCEPT ![t] =
               [Begin(t, "apply", "LinkDown", n) EXCEPT !.peer = p]]
  /\ Send(Msg("LinkDown", t, n, p, {}, {}))
  /\ UNCHANGED <<up, memory, disk, history>>

AdminPropagate(t, n, p) ==
  /\ p \in link[n]
  /\ cmd' = [cmd EXCEPT ![t] =
               [Begin(t, "await", "Propagate", n) EXCEPT !.peer = p]]
  /\ Send(Msg("PropagateRequest", t, n, p, {}, {}))
  /\ UNCHANGED <<up, memory, disk, history>>

\* Faulty variant: the broadcast does not wait for the save.
AdminSpendAtUnsaved(t, n, b) ==
  /\ b \in ledger[n]
  /\ spent' = [spent EXCEPT ![n] = @ \cup {b}]
  /\ ledger' = [ledger EXCEPT ![n] = @ \ {b}]
  /\ ever' = ever \cup {b}
  /\ cmd' = [cmd EXCEPT ![t] =
               [Begin(t, "notify", "SpendAt", n) EXCEPT
                  !.bearer = b, !.todo = link[n] \X {b}]]
  /\ UNCHANGED <<up, link, disk, net, issued, reseeded, acked, settled>>

\* Faulty variant: the bearer stays in the ledger.
AdminSpendAtKeeps(t, n, b) ==
  /\ b \in ledger[n]
  /\ spent' = [spent EXCEPT ![n] = @ \cup {b}]
  /\ ever' = ever \cup {b}
  /\ cmd' = [cmd EXCEPT ![t] =
               [Begin(t, "persist", "SpendAt", n) EXCEPT
                  !.bearer = b, !.todo = link[n] \X {b}]]
  /\ UNCHANGED <<up, ledger, link, disk, net, issued, reseeded, acked, settled>>

\* The spend and the list of connected peers are one critical section.
AdminSpendAt(t, n, b) ==
  /\ b \in ledger[n]
  /\ spent' = [spent EXCEPT ![n] = @ \cup {b}]
  /\ ledger' = [ledger EXCEPT ![n] = @ \ {b}]
  /\ ever' = ever \cup {b}
  /\ cmd' = [cmd EXCEPT ![t] =
               [Begin(t, "persist", "SpendAt", n) EXCEPT
                  !.bearer = b, !.todo = link[n] \X {b}]]
  /\ UNCHANGED <<up, link, disk, net, issued, reseeded, acked, settled>>

\* No check of any kind: the bearer may be held, spent or burned already.
AdminSeed(t, n, b) ==
  /\ ledger' = [ledger EXCEPT ![n] = @ \cup {b}]
  /\ issued' = issued \cup {b}
  /\ reseeded' = reseeded \cup ({b} \cap issued)
  /\ cmd' = [cmd EXCEPT ![t] = Begin(t, "persist", "Seed", n)]
  /\ UNCHANGED <<up, spent, link, disk, net, ever, acked, settled>>

\* Faulty variant: the coordinator leaves its own spends out.
AdminConversionDayWithoutSelf(t, n) ==
  /\ cmd' = [cmd EXCEPT ![t] =
               [Begin(t, "gather", "ConversionDay", n) EXCEPT
                  !.left = Peers(n),
                  !.atStart = Conflicts([m \in Nodes |-> disk[m].spent])]]
  /\ UNCHANGED <<up, memory, disk, net, history>>

AdminConversionDay(t, n) ==
  /\ cmd' = [cmd EXCEPT ![t] =
               [Begin(t, "gather", "ConversionDay", n) EXCEPT
                  !.seen[n] = spent[n], !.left = Peers(n),
                  !.atStart = Conflicts([m \in Nodes |-> disk[m].spent])]]
  /\ UNCHANGED <<up, memory, disk, net, history>>

-----------------------------------------------------------------------------
(* Peer threads: one message of another node, under the mutex.  None of    *)
(* them writes the state file.                                             *)

Incoming(m, type) == m.type = type /\ up[m.to]

\* The reply holds the state before the merge.
HandleLinkUpHello(m) ==
  LET n == m.to IN
  /\ Incoming(m, "LinkUpHello")
  /\ ledger' = [ledger EXCEPT
                  ![n] = LinkUpMerge(ledger[n], spent[n], m.ledger, m.spent)]
  /\ link' = [link EXCEPT ![n] = @ \cup {m.from}]
  /\ HandledWith(m, {Msg("LinkUpAck", m.op, n, m.from, ledger[n], spent[n])})
  /\ UNCHANGED <<up, spent, disk, cmd, history>>

\* Faulty variant: the message is read and forgotten.
HandleLinkDownIgnored(m) ==
  /\ Incoming(m, "LinkDown")
  /\ HandledWith(m, {})
  /\ UNCHANGED <<up, memory, disk, cmd, history>>

HandleLinkDown(m) ==
  /\ Incoming(m, "LinkDown")
  /\ link' = [link EXCEPT ![m.to] = @ \ {m.from}]
  /\ HandledWith(m, {})
  /\ UNCHANGED <<up, ledger, spent, disk, cmd, history>>

\* Without a link the request is refused: the connection closes unanswered.
HandlePropagateRequest(m) ==
  LET n == m.to IN
  /\ Incoming(m, "PropagateRequest")
  /\ HandledWith(m, IF m.from \in link[n]
                      THEN {Msg("PropagateReply", m.op, n, m.from,
                                ledger[n], {})}
                      ELSE {})
  /\ UNCHANGED <<up, memory, disk, cmd, history>>

HandleSpentNotify(m) ==
  /\ Incoming(m, "SpentNotify")
  /\ ledger' = [ledger EXCEPT ![m.to] = @ \ m.spent]
  /\ HandledWith(m, {})
  /\ UNCHANGED <<up, spent, link, disk, cmd, history>>

HandleStatusRequest(m) ==
  LET n == m.to IN
  /\ Incoming(m, "StatusRequest")
  /\ HandledWith(m, {Msg("StatusReply", m.op, n, m.from, {}, spent[n])})
  /\ UNCHANGED <<up, memory, disk, cmd, history>>

HandlePeerMessage(m) ==
  \/ HandleLinkUpHello(m)
  \/ HandleLinkDown(m)
  \/ HandlePropagateRequest(m)
  \/ HandleSpentNotify(m)
  \/ HandleStatusRequest(m)

-----------------------------------------------------------------------------
(* Admin threads, after the start *)

\* Faulty variant: the spent set of the ack is ignored.
ReceiveLinkUpAckLedgerOnly(t) ==
  LET n == cmd[t].node IN
  /\ At(t, "await", "LinkUp")
  /\ \E m \in Replies(t, "LinkUpAck") :
       /\ ledger' = [ledger EXCEPT ![n] =
                       LinkUpMerge(ledger[n], spent[n], m.ledger, {})]
       /\ link' = [link EXCEPT ![n] = @ \cup {m.from}]
       /\ net' = net \ {m}
  /\ Goto(t, "persist")
  /\ UNCHANGED <<up, spent, disk, history>>

\* The merge is computed from the state of now, not from the one the hello
\* was made of.
ReceiveLinkUpAck(t) ==
  LET n == cmd[t].node IN
  /\ At(t, "await", "LinkUp")
  /\ \E m \in Replies(t, "LinkUpAck") :
       /\ ledger' = [ledger EXCEPT ![n] =
                       LinkUpMerge(ledger[n], spent[n], m.ledger, m.spent)]
       /\ link' = [link EXCEPT ![n] = @ \cup {m.from}]
       /\ net' = net \ {m}
  /\ Goto(t, "persist")
  /\ UNCHANGED <<up, spent, disk, history>>

\* Faulty variant: what is delivered replaces the ledger.
ReceivePropagateReplyReplacing(t) ==
  LET n == cmd[t].node IN
  /\ At(t, "await", "Propagate")
  /\ \E m \in Replies(t, "PropagateReply") :
       /\ ledger' = [ledger EXCEPT ![n] =
                       PropagateDeliverable(@, spent[n], m.ledger)]
       /\ net' = net \ {m}
  /\ Goto(t, "persist")
  /\ UNCHANGED <<up, spent, link, disk, history>>

ReceivePropagateReply(t) ==
  LET n == cmd[t].node IN
  /\ At(t, "await", "Propagate")
  /\ \E m \in Replies(t, "PropagateReply") :
       /\ ledger' = [ledger EXCEPT ![n] =
                       @ \cup PropagateDeliverable(@, spent[n], m.ledger)]
       /\ net' = net \ {m}
  /\ Goto(t, "persist")
  /\ UNCHANGED <<up, spent, link, disk, history>>

ApplyLinkDown(t) ==
  /\ At(t, "apply", "LinkDown")
  /\ link' = [link EXCEPT ![cmd[t].node] = @ \ {cmd[t].peer}]
  /\ Goto(t, "persist")
  /\ UNCHANGED <<up, ledger, spent, disk, net, history>>

\* Faulty variant: nobody notes which peer is being asked.
AskStatusUnnamed(t, p) ==
  /\ At(t, "gather", "ConversionDay")
  /\ p \in cmd[t].left
  /\ cmd' = [cmd EXCEPT ![t] = [cmd[t] EXCEPT !.pc = "await",
                                              !.left = @ \ {p}]]
  /\ Send(Msg("StatusRequest", t, cmd[t].node, p, {}, {}))
  /\ UNCHANGED <<up, memory, disk, history>>

\* Faulty variant: a peer that was asked is asked again.
AskStatusAgain(t, p) ==
  /\ At(t, "gather", "ConversionDay")
  /\ p \in cmd[t].left
  /\ cmd' = [cmd EXCEPT ![t] = [cmd[t] EXCEPT !.pc = "await", !.peer = p]]
  /\ Send(Msg("StatusRequest", t, cmd[t].node, p, {}, {}))
  /\ UNCHANGED <<up, memory, disk, history>>

\* The peers are asked one after the other, in the order of a hash map.
AskStatus(t, p) ==
  /\ At(t, "gather", "ConversionDay")
  /\ p \in cmd[t].left
  /\ cmd' = [cmd EXCEPT ![t] = [cmd[t] EXCEPT !.pc = "await", !.peer = p,
                                              !.left = @ \ {p}]]
  /\ Send(Msg("StatusRequest", t, cmd[t].node, p, {}, {}))
  /\ UNCHANGED <<up, memory, disk, history>>

\* Faulty variant: a snapshot replaces the ones before it.
ReceiveStatusReplyOnly(t) ==
  /\ At(t, "await", "ConversionDay")
  /\ \E m \in Replies(t, "StatusReply") :
       /\ cmd' = [cmd EXCEPT ![t] =
                    [cmd[t] EXCEPT
                       !.pc = "gather",
                       !.seen = [n \in Nodes |->
                                   IF n = m.from THEN m.spent ELSE {}]]]
       /\ net' = net \ {m}
  /\ UNCHANGED <<up, memory, disk, history>>

ReceiveStatusReply(t) ==
  /\ At(t, "await", "ConversionDay")
  /\ \E m \in Replies(t, "StatusReply") :
       /\ cmd' = [cmd EXCEPT ![t] = [cmd[t] EXCEPT !.pc = "gather",
                                                  !.seen[m.from] = m.spent]]
       /\ net' = net \ {m}
  /\ UNCHANGED <<up, memory, disk, history>>

\* The connection is over without a reply.  An error to the administrator,
\* except that a ConversionDay first asks the remaining peers.
ExchangeFails(t) ==
  /\ cmd[t].pc = "await"
  /\ \A m \in net : m.op # t
  /\ IF cmd[t].kind = "ConversionDay"
       THEN cmd' = [cmd EXCEPT ![t] =
                           [cmd[t] EXCEPT !.pc = "gather",
                                          !.missing = @ \cup {cmd[t].peer}]]
       ELSE Finish(t)
  /\ UNCHANGED <<up, memory, disk, net, history>>

\* Every peer was asked.
Gathered(t) == At(t, "gather", "ConversionDay") /\ cmd[t].left = {}

\* The quorum rule: a round that missed one peer settles nothing.
Defer(t) ==
  /\ Gathered(t)
  /\ cmd[t].missing # {}
  /\ Finish(t)
  /\ UNCHANGED <<up, memory, disk, net, history>>

RejectConflict(t) ==
  /\ Gathered(t)
  /\ cmd[t].missing = {}
  /\ Conflicts(cmd[t].seen) # {}
  /\ Finish(t)
  /\ UNCHANGED <<up, memory, disk, net, history>>

\* Faulty variant: the round of before the quorum rule, which settles with
\* whoever answered.
BurnBestEffort(t) ==
  LET n    == cmd[t].node
      burn == BurnSet(cmd[t].seen)
  IN
  /\ Gathered(t)
  /\ Conflicts(cmd[t].seen) = {}
  /\ ledger' = [ledger EXCEPT ![n] = @ \ burn]
  /\ cmd' = [cmd EXCEPT ![t] = [cmd[t] EXCEPT !.pc = "persist",
                                              !.todo = Peers(n) \X burn]]
  /\ UNCHANGED <<up, spent, link, disk, net, history>>

\* Faulty variant: the burn is broadcast to linked peers only, as a spend is.
BurnForLinked(t) ==
  LET n    == cmd[t].node
      burn == BurnSet(cmd[t].seen)
  IN
  /\ Gathered(t)
  /\ cmd[t].missing = {}
  /\ Conflicts(cmd[t].seen) = {}
  /\ ledger' = [ledger EXCEPT ![n] = @ \ burn]
  /\ cmd' = [cmd EXCEPT ![t] = [cmd[t] EXCEPT !.pc = "persist",
                                              !.todo = link[n] \X burn]]
  /\ UNCHANGED <<up, spent, link, disk, net, history>>

Burn(t) ==
  LET n    == cmd[t].node
      burn == BurnSet(cmd[t].seen)
  IN
  /\ Gathered(t)
  /\ cmd[t].missing = {}
  /\ Conflicts(cmd[t].seen) = {}
  /\ ledger' = [ledger EXCEPT ![n] = @ \ burn]
  /\ cmd' = [cmd EXCEPT ![t] = [cmd[t] EXCEPT !.pc = "persist",
                                              !.todo = Peers(n) \X burn]]
  /\ UNCHANGED <<up, spent, link, disk, net, history>>

\* What a save writes: the two sets as they are, never a mix of two states.
Saved(n) == [ledger |-> ledger[n], spent |-> spent[n]]

\* The state file gets the state of now, which another thread may have
\* changed since.  A failed save is a warning: the command goes on.
Persist(t) ==
  LET n == cmd[t].node IN
  /\ cmd[t].pc = "persist"
  /\ \/ disk' = [disk EXCEPT ![n] = Saved(n)]
     \/ "disk" \in Faults /\ UNCHANGED disk
  /\ IF cmd[t].kind \in {"SpendAt", "ConversionDay"}
       THEN Goto(t, "notify")
       ELSE Finish(t)
  /\ UNCHANGED <<up, memory, net, history>>

\* Best effort: a failed send is a warning.
Notify(t) ==
  /\ cmd[t].pc = "notify"
  /\ \E d \in cmd[t].todo :
       /\ Send(Msg("SpentNotify", t, cmd[t].node, d[1], {}, {d[2]}))
       /\ cmd' = [cmd EXCEPT ![t] = [cmd[t] EXCEPT !.todo = @ \ {d}]]
  /\ UNCHANGED <<up, memory, disk, history>>

Answer(t) ==
  LET n == cmd[t].node IN
  /\ cmd[t].pc = "notify"
  /\ cmd[t].todo = {}
  /\ acked' = IF cmd[t].kind = "SpendAt"
                THEN [acked EXCEPT ![n] = @ \cup {cmd[t].bearer}]
                ELSE acked
  /\ settled' = IF cmd[t].kind = "ConversionDay"
                  THEN settled \cup BurnSet(cmd[t].seen)
                  ELSE settled
  /\ Finish(t)
  /\ UNCHANGED <<up, memory, disk, net, issued, reseeded, ever>>

Continue(t) ==
  \/ ReceiveLinkUpAck(t)
  \/ ReceivePropagateReply(t)
  \/ ApplyLinkDown(t)
  \/ \E p \in Nodes : AskStatus(t, p)
  \/ ReceiveStatusReply(t)
  \/ ExchangeFails(t)
  \/ Defer(t)
  \/ RejectConflict(t)
  \/ Burn(t)
  \/ Persist(t)
  \/ Notify(t)
  \/ Answer(t)

-----------------------------------------------------------------------------
(* Faults *)

\* The process is killed: its memory, its threads and the connections to it
\* are gone.  What it sent may still arrive.
Crash(n) ==
  /\ "crash" \in Faults
  /\ up[n]
  /\ up' = [up EXCEPT ![n] = FALSE]
  /\ ledger' = [ledger EXCEPT ![n] = {}]
  /\ spent' = [spent EXCEPT ![n] = {}]
  /\ link' = [link EXCEPT ![n] = {}]
  /\ cmd' = [t \in Threads |-> IF cmd[t].node = n THEN Idle ELSE cmd[t]]
  /\ net' = {m \in net : m.to # n}
  /\ UNCHANGED <<disk, history>>

\* Faulty variant: only the ledger is restored.
RestartForgets(n) ==
  /\ ~up[n]
  /\ up' = [up EXCEPT ![n] = TRUE]
  /\ ledger' = [ledger EXCEPT ![n] = disk[n].ledger]
  /\ UNCHANGED <<spent, link, disk, cmd, net, history>>

\* What a start finds: the last save.  A file that cannot be read is a
\* warning, and the node starts fresh.
Loaded(n) == {disk[n]} \cup {s \in {Fresh} : "load" \in Faults}

\* The links are down until the next LinkUp.
Restart(n) ==
  /\ ~up[n]
  /\ up' = [up EXCEPT ![n] = TRUE]
  /\ \E s \in Loaded(n) :
       /\ ledger' = [ledger EXCEPT ![n] = s.ledger]
       /\ spent' = [spent EXCEPT ![n] = s.spent]
  /\ UNCHANGED <<link, disk, cmd, net, history>>

\* A connection breaks with its line under way.
Lose(m) ==
  /\ "loss" \in Faults
  /\ net' = net \ {m}
  /\ UNCHANGED <<up, memory, disk, cmd, history>>

-----------------------------------------------------------------------------
(* The specification *)

\* Every bearer is in one node's state file, or not issued yet, and the
\* nodes have just started.
Init ==
  /\ up = [n \in Nodes |-> TRUE]
  /\ \E home \in [Bearers -> Nodes \cup {None}] :
       /\ ledger = [n \in Nodes |-> {b \in Bearers : home[b] = n}]
       /\ issued = {b \in Bearers : home[b] # None}
  /\ spent = [n \in Nodes |-> {}]
  /\ link = [n \in Nodes |-> {}]
  /\ disk = [n \in Nodes |-> [ledger |-> ledger[n], spent |-> {}]]
  /\ cmd = [t \in Threads |-> Idle]
  /\ net = {}
  /\ reseeded = {}
  /\ ever = {}
  /\ acked = [n \in Nodes |-> {}]
  /\ settled = {}

\* The bearers an administrator seeds: any, or (no "reseed") only new ones.
Seedable == {b \in Bearers : "reseed" \in Faults \/ b \notin issued}

Admin(t) ==
  /\ Free(t)
  /\ \E n \in {x \in Nodes : up[x]} :
       \/ "LinkUp" \in Kinds /\ \E p \in Peers(n) : AdminLinkUp(t, n, p)
       \/ "LinkDown" \in Kinds /\ \E p \in Peers(n) : AdminLinkDown(t, n, p)
       \/ "Propagate" \in Kinds /\ \E p \in Peers(n) : AdminPropagate(t, n, p)
       \/ "SpendAt" \in Kinds /\ \E b \in Bearers : AdminSpendAt(t, n, b)
       \/ "Seed" \in Kinds /\ \E b \in Seedable : AdminSeed(t, n, b)
       \/ "ConversionDay" \in Kinds /\ AdminConversionDay(t, n)

\* A message of thread t reaches its handler.
Deliver(t) == \E m \in net : m.op = t /\ HandlePeerMessage(m)

Next ==
  \/ \E t \in Threads : Admin(t) \/ Continue(t) \/ Deliver(t)
  \/ \E n \in Nodes : Crash(n) \/ Restart(n)
  \/ \E m \in net : Lose(m)

Spec == Init /\ [][Next]_vars

\* The operating system runs every thread, and TCP delivers a line or breaks
\* the connection.  Nobody is obliged to open an admin connection.
Fairness == \A t \in Threads : WF_vars(Continue(t)) /\ WF_vars(Deliver(t))

FairSpec == Spec /\ Fairness

-----------------------------------------------------------------------------
(* Safety *)

\* The type invariant.
TypeOK ==
  /\ up \in [Nodes -> BOOLEAN]
  /\ ledger \in [Nodes -> SUBSET Bearers]
  /\ spent \in [Nodes -> SUBSET Bearers]
  /\ link \in [Nodes -> SUBSET Nodes]
  /\ disk \in [Nodes -> NodeState]
  /\ cmd \in [Threads -> Command]
  /\ net \in SUBSET Message
  /\ issued \in SUBSET Bearers
  /\ reseeded \in SUBSET Bearers
  /\ ever \in SUBSET Bearers
  /\ acked \in [Nodes -> SUBSET Bearers]
  /\ settled \in SUBSET Bearers

\* The thread executes a SpendAt of b at node n that already took place.
Spending(t, n, b) ==
  cmd[t].kind = "SpendAt" /\ cmd[t].node = n /\ cmd[t].bearer = b

\* An administrator is told Ok, and the SpendAt itself notifies peers, only
\* when the spend is in the node's state file, and no later save or restart
\* takes it out again.  Nor is any other spend of a running node unsaved: it
\* is on disk, or its own thread is between local_spend and persist in the
\* SpendAt branch of handle_admin_command.  (The mutex is free there, so that
\* in this one window an ack, a hello or a StatusReply can carry a spend that
\* a kill undoes.)
SpendSavedBeforeAnswered ==
  \A n \in Nodes :
    /\ acked[n] \subseteq disk[n].spent
    /\ \A t \in Threads, b \in Bearers :
         Spending(t, n, b) /\ cmd[t].pc = "notify" => b \in disk[n].spent
    /\ up[n] => \A b \in spent[n] \ disk[n].spent :
                  \E t \in Threads : Spending(t, n, b) /\ cmd[t].pc = "persist"

\* A node accepts the spend of a bearer at most once over all its commands,
\* concurrent or separated by crashes, unless the bearer is seeded again: no
\* two threads are in the middle of it, and none is once the administrator of
\* another was told Ok.
SpendAcceptedOnce ==
  \A t \in Threads, n \in Nodes, b \in Bearers \ reseeded :
    Spending(t, n, b) =>
      /\ b \notin acked[n]
      /\ \A u \in Threads \ {t} : ~Spending(u, n, b)

\* A ConversionDay that gets as far as the burn began when no two state
\* files recorded a spend of the same bearer: with every peer asked and
\* every conflict refused, no double spend that was durable at the start of
\* the round is settled, although the spent sets are read one after another
\* while spends and crashes go on.
HonestSettlement ==
  \A t \in Threads :
    cmd[t].kind = "ConversionDay" /\ cmd[t].pc \in {"persist", "notify"}
      => cmd[t].atStart = {}

\* A running node has in memory every spend of its state file; what it
\* reports to a ConversionDay is therefore never older than its disk.
MemoryCoversDisk ==
  \A n \in Nodes : up[n] => disk[n].spent \subseteq spent[n]

-----------------------------------------------------------------------------
(* What a step may never do *)

\* What a node knows it has spent it neither forgets nor holds: a running node
\* keeps every spend, a spend that reached the state file stays there through
\* kills, restarts and saves, and no merge, delivery or restart makes the node
\* hold a bearer whose spend it has in memory or in its file.  Only a second
\* Seed does, which asks for no provenance (habi_node.rs, Seed branch).  A kill
\* before the save undoes a spend, and a node that is started again holds the
\* bearer: SpendSavedBeforeAnswered says of which spends that can be true.
OwnSpendFinal ==
  [][\A n \in Nodes :
       /\ up[n] /\ up'[n] => spent[n] \subseteq spent'[n]
       /\ disk[n].spent \subseteq disk'[n].spent
       /\ up'[n] => ledger'[n] \cap (spent'[n] \cup disk'[n].spent)
                     \subseteq reseeded'
       /\ disk'[n].ledger \cap disk'[n].spent \subseteq reseeded']_vars

\* A bearer nobody ever spent stays where it is: no merge, delivery, notice,
\* burn, save or restart removes it from the state file of a node, nor, while
\* the process runs, from its memory.
UnspentNeverLost ==
  [][\A n \in Nodes :
       /\ disk[n].ledger \ ever' \subseteq disk'[n].ledger
       /\ up[n] /\ up'[n] => ledger[n] \ ever' \subseteq ledger'[n]]_vars

\* The bearers some node holds, in memory or on disk, or some message brings.
Copies ==
  UNION ({ledger[n] : n \in Nodes} \cup {disk[n].ledger : n \in Nodes}
           \cup {m.ledger : m \in net})

\* A bearer whose last copy is gone comes back by a Seed only: spent sets
\* travel in the same messages as ledgers, and no handler or restart turns a
\* record of a spend into a bearer.
GoneStaysGone ==
  [][\A b \in Copies' \ Copies :
       \E t \in Threads, n \in Nodes : AdminSeed(t, n, b)]_vars

\* Both ends of a LinkUp converge: the initiator ends up with the merge of
\* the two states the messages carry, the one the peer's handler computed
\* (peer_protocol.rs, apply_link_up_reply; wire.rs, header comment).
LinkUpConverges ==
  [][\A t \in Threads :
       ReceiveLinkUpAck(t) =>
         \E m \in Replies(t, "LinkUpAck") :
           ledger'[cmd[t].node] =
             LinkUpMerge(cmd[t].sent.ledger, cmd[t].sent.spent,
                         m.ledger, m.spent)]_vars

\* When the burn is applied no two nodes have spent the same bearer: the
\* settlement the quorum rule is there for (habi_node.rs, "QUORUM FIX").
SettlementIsGlobal ==
  [][\A t \in Threads : Burn(t) => Conflicts(spent) = {}]_vars

-----------------------------------------------------------------------------
(* What holds between commands *)

\* No command is being executed and no message is under way.
Quiet == net = {} /\ \A t \in Threads : cmd[t].pc = "idle"

\* Between commands two nodes agree whether their link is up: LinkUpHello and
\* its ack, and LinkDown, change the link table at both ends.
LinksAgree ==
  Quiet => \A n, p \in Nodes : p \in link[n] <=> n \in link[p]

\* Between commands no node holds a bearer a ConversionDay has settled: the
\* burn and its SpentNotify broadcast reach every ledger, linked or not, and
\* no later merge or delivery brings the bearer back.
SettledIsGone ==
  Quiet => \A n \in Nodes : ledger[n] \cap settled = {}

-----------------------------------------------------------------------------
(* Liveness and permanence *)

\* Every admin command is answered: no exchange is waited for forever.
CommandEnds ==
  \A t \in Threads : cmd[t].pc # "idle" ~> cmd[t].pc = "idle"

\* A process is killed, a connection breaks or a bearer is seeded again.
Disturbed ==
  \/ \E n \in Nodes : Crash(n)
  \/ \E m \in net : Lose(m)
  \/ \E t \in Threads, n \in Nodes, b \in issued : AdminSeed(t, n, b)

\* No node holds what a node has spent.
SpendsAreHeard == \A n, m \in Nodes : ledger[n] \cap spent[m] = {}

\* What a broken round or a lost SpentNotify has left behind, later rounds
\* repair, although nothing is sent again (the best-effort broadcast of
\* habi_node.rs): when, with one command at a time, processes and connections
\* stop failing, nothing is seeded again and ConversionDays go on to succeed,
\* in the end no node holds what any node has spent.
RoundsRepair ==
  <>[][~Disturbed]_vars /\ []<><<\E t \in Threads : Burn(t)>>_vars
    => <>[]SpendsAreHeard

\* A settled bearer is burned at every node: all run, none holds it.
BurnedEverywhere(b) ==
  b \in settled /\ Quiet /\ \A n \in Nodes : up[n] /\ b \notin ledger[n]

\* A bearer burned at every node stays burned, restarts included ("a node
\* recovering from a burn shows the bearer as unspendable", README.md).
BurnIsPermanent ==
  \A b \in Bearers :
    [](BurnedEverywhere(b) => [](\A n \in Nodes : b \notin ledger[n]))
=============================================================================
