------------------------ MODULE NodesAsNetworkProofs ------------------------
(***************************************************************************)
(* With one command at a time and no faults the distributed nodes are the  *)
(* centralised network, for any number of nodes and bearers; what holds of *)
(* the network carries over to the nodes between commands.                 *)
(*                                                                         *)
(* The argument: all messages are of the one command that is executed, or  *)
(* of one that has ended but for its notices, and apart from notices there *)
(* is never more than one.  What such a message says of a node is still    *)
(* true when it is read, because nobody else changes that node meanwhile.  *)
(***************************************************************************)
EXTENDS NodesAsNetwork, HabiNodeProofs

\* What the theorems of this module assume.
UndisturbedTurns == TakingTurns /\ Faults = {}

-----------------------------------------------------------------------------
(* The invariant: what the command being executed and the messages under   *)
(* way say of the nodes.                                                   *)

Outgoing(m)  == m.from = cmd[m.op].node /\ m.to = cmd[m.op].peer
Answering(m) == m.from = cmd[m.op].peer /\ m.to = cmd[m.op].node

\* The last line of an ack: the peer has applied its half of the merge.
AckTrue(m) ==
  /\ At(m.op, "await", "LinkUp") /\ Answering(m)
  /\ m.spent = spent[m.from] /\ m.to \in link[m.from]
  /\ LinkUpMerge(ledger[m.to], spent[m.to], m.ledger, m.spent) = ledger[m.from]

MessageTrue(m) ==
  /\ m.type = "LinkUpHello" =>
       /\ At(m.op, "await", "LinkUp") /\ Outgoing(m)
       /\ m.ledger = ledger[m.from] /\ m.spent = spent[m.from]
  /\ m.type = "LinkUpAck" => AckTrue(m)
  /\ m.type = "LinkDown" =>
       /\ \/ cmd[m.op].pc = "idle"
          \/ cmd[m.op].kind = "LinkDown" /\ Outgoing(m)
       /\ cmd[m.op].pc # "apply" => m.to \notin link[m.from]
  /\ m.type = "PropagateRequest" =>
       At(m.op, "await", "Propagate") /\ Outgoing(m)
  /\ m.type = "PropagateReply" =>
       /\ At(m.op, "await", "Propagate") /\ Answering(m)
       /\ m.ledger = ledger[m.from] /\ m.to \in link[m.from]
  /\ m.type = "SpentNotify" => cmd[m.op].pc \in {"idle", "notify"}
  /\ m.type = "StatusRequest" =>
       At(m.op, "await", "ConversionDay") /\ Outgoing(m)
  /\ m.type = "StatusReply" =>
       /\ At(m.op, "await", "ConversionDay") /\ Answering(m)
       /\ m.spent = spent[m.from]

\* The snapshots gathered so far are the spent sets of now.
GatheredTrue(t) ==
  cmd[t].kind = "ConversionDay" /\ cmd[t].pc \in {"gather", "await"} =>
    \A q \in Nodes \ (cmd[t].left \cup cmd[t].missing) :
      \/ cmd[t].seen[q] = spent[q]
      \/ cmd[t].pc = "await" /\ q = cmd[t].peer

CommandTrue(t) ==
  /\ cmd[t].pc = "await" => cmd[t].kind \in {"LinkUp", "Propagate", "ConversionDay"}
  /\ cmd[t].pc = "apply" => cmd[t].kind = "LinkDown"
  /\ cmd[t].pc = "gather" => cmd[t].kind = "ConversionDay"
  /\ cmd[t].pc = "notify" => cmd[t].kind \in {"SpendAt", "ConversionDay"}
  /\ cmd[t].todo # {} => /\ cmd[t].pc \in {"persist", "notify"}
                         /\ cmd[t].kind \in {"SpendAt", "ConversionDay"}
  /\ cmd[t].kind \in {"LinkUp", "LinkDown", "Propagate"} =>
       cmd[t].peer \in Peers(cmd[t].node)
  /\ At(t, "await", "LinkUp") => cmd[t].sent = Saved(cmd[t].node)
  /\ GatheredTrue(t)

\* Only notices are under way together.
Alone ==
  \A m, k \in net : m = k \/ (m.type = "SpentNotify" /\ k.type = "SpentNotify")

SerialInv ==
  /\ \A n \in Nodes : up[n]
  /\ \A t \in Threads : CommandTrue(t)
  /\ \A m \in net : MessageTrue(m)
  /\ Alone

\* All that a step may take for granted, and what it has to show.
Before == UndisturbedTurns /\ TypeOK /\ ThreadsOK /\ SerialInv

LEMMA SerialInvNext ==
  ASSUME UndisturbedTurns, NEW t \in Threads,
         \A n \in Nodes : up'[n], CommandTrue(t)',
         \A m \in net' : MessageTrue(m)', Alone'
  PROVE  SerialInv'
BY DEF SerialInv, UndisturbedTurns, TakingTurns

\* Every message belongs to the one thread.
LEMMA OneThread ==
  ASSUME Before, NEW t \in Threads
  PROVE  /\ Threads = {t}
         /\ \A m \in net : m.op = t
         /\ cmd[t].pc = "idle" => cmd[t] = Idle
BY DEF Before, UndisturbedTurns, TakingTurns, TypeOK, Message, ThreadsOK, ThreadOK, Idle

\* A command starts in silence.
LEMMA FreeIsQuiet ==
  ASSUME Before, NEW t \in Threads, Free(t)
  PROVE  net = {} /\ cmd[t] = Idle
BY OneThread DEF Free
-----------------------------------------------------------------------------
(* Each step keeps the invariant *)

\* The fields of the messages and commands that are made.
LEMMA MsgFields ==
  ASSUME NEW type, NEW t, NEW from, NEW to, NEW led, NEW spt
  PROVE  LET m == Msg(type, t, from, to, led, spt)
         IN  /\ m.type = type /\ m.op = t /\ m.from = from /\ m.to = to
             /\ m.ledger = led /\ m.spent = spt
BY DEF Msg

LEMMA BeginTodo ==
  ASSUME NEW t \in Threads, NEW pc, NEW kind, NEW n
  PROVE  LET c == Begin(t, pc, kind, n)
         IN  /\ c.pc = pc /\ c.kind = kind /\ c.node = n /\ c.todo = {}
             /\ c.left = {} /\ c.missing = {}
             /\ c.seen = [m \in Nodes |-> {}]
BY DEF Begin, Idle

\* To a running node a line is always sent.
LEMMA SendToRunning ==
  ASSUME Before, NEW m, m.to \in Nodes, Send(m)
  PROVE  net' = net \cup {m}
BY DEF Send, Before, SerialInv

LEMMA AdminLinkUpTrue ==
  ASSUME Before, NEW t \in Threads, Free(t), NEW n \in Nodes,
         NEW p \in Peers(n), AdminLinkUp(t, n, p)
  PROVE  /\ SerialInv'
         /\ net' = {Msg("LinkUpHello", t, n, p, ledger[n], spent[n])}
         /\ cmd'[t].todo = {} /\ cmd'[t].pc = "await"
<1> DEFINE hello == Msg("LinkUpHello", t, n, p, ledger[n], spent[n])
           c == Begin(t, "await", "LinkUp", n)
           s == Saved(n)
<1>1. net = {} /\ p \in Nodes
  BY FreeIsQuiet DEF Peers
<1>2. /\ cmd'[t] = [c EXCEPT !.peer = p, !.sent = s]
      /\ UNCHANGED <<up, ledger, spent, link>>
  BY DEF AdminLinkUp, Before, TypeOK, memory, Saved
<1>3. /\ c \in Command /\ c.pc = "await" /\ c.kind = "LinkUp" /\ c.node = n
      /\ c.todo = {}
  BY BeginTyped, BeginTodo DEF Steps, Commands
<1>4. /\ cmd'[t].pc = "await" /\ cmd'[t].kind = "LinkUp" /\ cmd'[t].node = n
      /\ cmd'[t].peer = p /\ cmd'[t].sent = s /\ cmd'[t].todo = {}
  <2> HIDE DEF c, s
  <2> QED BY <1>2, <1>3 DEF Command
<1>5. net' = {hello}
  <2>1. net' = net \cup {hello}
    BY <1>1, MsgFields, SendToRunning DEF AdminLinkUp
  <2> QED BY <1>1, <2>1
<1>6. CommandTrue(t)'
  BY <1>2, <1>4 DEF CommandTrue, GatheredTrue, At, Saved, Peers
<1>7. ASSUME NEW m \in net' PROVE MessageTrue(m)'
  <2>1. /\ m.type = "LinkUpHello" /\ m.op = t /\ m.from = n
        /\ m.to = p /\ m.ledger = ledger[n] /\ m.spent = spent[n]
    BY <1>5, MsgFields
  <2> QED BY <1>2, <1>4, <2>1 DEF MessageTrue, Outgoing, At
<1>8. Alone' /\ \A x \in Nodes : up'[x]
  BY <1>2, <1>5 DEF Alone, Before, SerialInv
<1> QED BY <1>4, <1>5, <1>6, <1>7, <1>8, SerialInvNext DEF Before

LEMMA AdminLinkDownTrue ==
  ASSUME Before, NEW t \in Threads, Free(t), NEW n \in Nodes,
         NEW p \in Peers(n), AdminLinkDown(t, n, p)
  PROVE  /\ SerialInv'
         /\ net' = {Msg("LinkDown", t, n, p, {}, {})}
         /\ At(t, "apply", "LinkDown")' /\ cmd'[t].node = n
         /\ cmd'[t].peer = p /\ cmd'[t].todo = {}
<1> DEFINE c == Begin(t, "apply", "LinkDown", n)
<1>1. net = {} /\ p \in Nodes
  BY FreeIsQuiet DEF Peers
<1>2. /\ cmd'[t] = [c EXCEPT !.peer = p]
      /\ UNCHANGED <<up, ledger, spent, link>>
  BY DEF AdminLinkDown, Before, TypeOK, memory
<1>3. /\ c \in Command /\ c.pc = "apply" /\ c.kind = "LinkDown" /\ c.node = n
      /\ c.todo = {}
  BY BeginTyped, BeginTodo DEF Steps, Commands
<1>4. /\ cmd'[t].pc = "apply" /\ cmd'[t].kind = "LinkDown" /\ cmd'[t].node = n
      /\ cmd'[t].peer = p /\ cmd'[t].todo = {}
  <2> HIDE DEF c
  <2> QED BY <1>2, <1>3 DEF Command
<1>5. net' = {Msg("LinkDown", t, n, p, {}, {})}
  BY <1>1, MsgFields, SendToRunning DEF AdminLinkDown
<1>6. CommandTrue(t)'
  BY <1>2, <1>4 DEF CommandTrue, GatheredTrue, At, Peers
<1>7. ASSUME NEW m \in net' PROVE MessageTrue(m)'
  <2>1. m.type = "LinkDown" /\ m.op = t /\ m.from = n /\ m.to = p
    BY <1>5, MsgFields
  <2> QED BY <1>2, <1>4, <2>1 DEF MessageTrue, Outgoing, At
<1>8. Alone' /\ \A x \in Nodes : up'[x]
  BY <1>2, <1>5 DEF Alone, Before, SerialInv
<1> QED BY <1>4, <1>5, <1>6, <1>7, <1>8, SerialInvNext DEF Before, At

LEMMA AdminPropagateTrue ==
  ASSUME Before, NEW t \in Threads, Free(t), NEW n \in Nodes,
         NEW p \in Peers(n), AdminPropagate(t, n, p)
  PROVE  /\ SerialInv'
         /\ net' = {Msg("PropagateRequest", t, n, p, {}, {})}
         /\ cmd'[t].todo = {} /\ cmd'[t].pc = "await"
<1> DEFINE c == Begin(t, "await", "Propagate", n)
<1>1. net = {} /\ p \in Nodes
  BY FreeIsQuiet DEF Peers
<1>2. /\ cmd'[t] = [c EXCEPT !.peer = p]
      /\ UNCHANGED <<up, ledger, spent, link>>
  BY DEF AdminPropagate, Before, TypeOK, memory
<1>3. /\ c \in Command /\ c.pc = "await" /\ c.kind = "Propagate" /\ c.node = n
      /\ c.todo = {}
  BY BeginTyped, BeginTodo DEF Steps, Commands
<1>4. /\ cmd'[t].pc = "await" /\ cmd'[t].kind = "Propagate" /\ cmd'[t].node = n
      /\ cmd'[t].peer = p /\ cmd'[t].todo = {}
  <2> HIDE DEF c
  <2> QED BY <1>2, <1>3 DEF Command
<1>5. net' = {Msg("PropagateRequest", t, n, p, {}, {})}
  BY <1>1, MsgFields, SendToRunning DEF AdminPropagate
<1>6. CommandTrue(t)'
  BY <1>2, <1>4 DEF CommandTrue, GatheredTrue, At, Peers
<1>7. ASSUME NEW m \in net' PROVE MessageTrue(m)'
  <2>1. m.type = "PropagateRequest" /\ m.op = t /\ m.from = n /\ m.to = p
    BY <1>5, MsgFields
  <2> QED BY <1>2, <1>4, <2>1 DEF MessageTrue, Outgoing, At
<1>8. Alone' /\ \A x \in Nodes : up'[x]
  BY <1>2, <1>5 DEF Alone, Before, SerialInv
<1> QED BY <1>4, <1>5, <1>6, <1>7, <1>8, SerialInvNext DEF Before

LEMMA AdminSpendAtTrue ==
  ASSUME Before, NEW t \in Threads, Free(t), NEW n \in Nodes,
         NEW b \in Bearers, AdminSpendAt(t, n, b)
  PROVE  /\ SerialInv'
         /\ net' = {} /\ cmd'[t].todo = link[n] \X {b}
         /\ cmd'[t].pc = "persist" /\ cmd'[t].kind = "SpendAt"
<1> DEFINE c == Begin(t, "persist", "SpendAt", n)
           x == link[n] \X {b}
<1>1. net = {} /\ net' = net /\ up' = up
  BY FreeIsQuiet DEF AdminSpendAt
<1>2. cmd'[t] = [c EXCEPT !.bearer = b, !.todo = x]
  BY DEF AdminSpendAt, Before, TypeOK
<1>3. /\ c \in Command /\ c.pc = "persist" /\ c.kind = "SpendAt"
  BY BeginTyped, BeginTodo DEF Steps, Commands
<1>4. cmd'[t].pc = "persist" /\ cmd'[t].kind = "SpendAt" /\ cmd'[t].todo = x
  <2> HIDE DEF c, x
  <2> QED BY <1>2, <1>3 DEF Command
<1>5. CommandTrue(t)'
  <2> HIDE DEF x
  <2> QED BY <1>4 DEF CommandTrue, GatheredTrue, At
<1>6. Alone' /\ \A z \in Nodes : up'[z]
  BY <1>1 DEF Alone, Before, SerialInv
<1> QED BY <1>1, <1>4, <1>5, <1>6, SerialInvNext DEF Before

LEMMA AdminSeedTrue ==
  ASSUME Before, NEW t \in Threads, Free(t), NEW n \in Nodes,
         NEW b \in Bearers, AdminSeed(t, n, b)
  PROVE  /\ SerialInv'
         /\ net' = {} /\ cmd'[t].todo = {}
         /\ cmd'[t].pc = "persist" /\ cmd'[t].kind = "Seed"
<1>1. net = {} /\ net' = net /\ up' = up
  BY FreeIsQuiet DEF AdminSeed
<1>2. cmd'[t] = Begin(t, "persist", "Seed", n)
  BY DEF AdminSeed, Before, TypeOK
<1>3. cmd'[t].pc = "persist" /\ cmd'[t].kind = "Seed" /\ cmd'[t].todo = {}
  BY <1>2, BeginTodo
<1>4. CommandTrue(t)'
  BY <1>3 DEF CommandTrue, GatheredTrue, At
<1>5. Alone' /\ \A z \in Nodes : up'[z]
  BY <1>1 DEF Alone, Before, SerialInv
<1> QED BY <1>1, <1>3, <1>4, <1>5, SerialInvNext DEF Before

LEMMA AdminConversionDayTrue ==
  ASSUME Before, NEW t \in Threads, Free(t), NEW n \in Nodes,
         AdminConversionDay(t, n)
  PROVE  /\ SerialInv'
         /\ net' = {} /\ cmd'[t].todo = {} /\ cmd'[t].pc = "gather"
<1> DEFINE c == Begin(t, "gather", "ConversionDay", n)
           s == spent[n]
           x == Conflicts([m \in Nodes |-> disk[m].spent])
<1>1. net = {} /\ net' = net /\ up' = up /\ spent' = spent
  BY FreeIsQuiet DEF AdminConversionDay, memory
<1>2. cmd'[t] = [c EXCEPT !.seen[n] = s, !.left = Peers(n), !.atStart = x]
  BY DEF AdminConversionDay, Before, TypeOK
<1>3. /\ c \in Command /\ c.pc = "gather" /\ c.kind = "ConversionDay"
      /\ c.todo = {}
  BY BeginTyped, BeginTodo DEF Steps, Commands
<1>4. /\ cmd'[t].pc = "gather" /\ cmd'[t].kind = "ConversionDay"
      /\ cmd'[t].todo = {} /\ cmd'[t].left = Peers(n)
      /\ cmd'[t].seen[n] = s
  <2> HIDE DEF c, s, x
  <2> QED BY <1>2, <1>3 DEF Command
<1>5. CommandTrue(t)'
  BY <1>1, <1>4 DEF CommandTrue, GatheredTrue, At, Peers
<1>6. Alone' /\ \A z \in Nodes : up'[z]
  BY <1>1 DEF Alone, Before, SerialInv
<1> QED BY <1>1, <1>4, <1>5, <1>6, SerialInvNext DEF Before

LEMMA GotoFields ==
  ASSUME Before, NEW t \in Threads, NEW pc, Goto(t, pc)
  PROVE  /\ cmd'[t].pc = pc
         /\ cmd'[t].kind = cmd[t].kind /\ cmd'[t].node = cmd[t].node
         /\ cmd'[t].peer = cmd[t].peer /\ cmd'[t].sent = cmd[t].sent
         /\ cmd'[t].seen = cmd[t].seen /\ cmd'[t].left = cmd[t].left
         /\ cmd'[t].missing = cmd[t].missing /\ cmd'[t].todo = cmd[t].todo
<1> DEFINE c == cmd[t]
<1>1. c \in Command /\ cmd'[t] = [c EXCEPT !.pc = pc]
  BY DEF Before, TypeOK, Goto
<1> HIDE DEF c
<1>2. /\ cmd'[t].pc = pc
      /\ cmd'[t].kind = c.kind /\ cmd'[t].node = c.node
      /\ cmd'[t].peer = c.peer /\ cmd'[t].sent = c.sent
      /\ cmd'[t].seen = c.seen /\ cmd'[t].left = c.left
      /\ cmd'[t].missing = c.missing /\ cmd'[t].todo = c.todo
  BY <1>1 DEF Command
<1> QED BY <1>2 DEF c

LEMMA FinishFields ==
  ASSUME Before, NEW t \in Threads, Finish(t)
  PROVE  /\ cmd'[t] = Idle /\ cmd'[t].pc = "idle" /\ cmd'[t].kind = "none"
         /\ cmd'[t].todo = {}
         /\ CommandTrue(t)'
<1>1. cmd'[t] = Idle
  BY DEF Finish, Before, TypeOK
<1>2. Idle.pc = "idle" /\ Idle.kind = "none" /\ Idle.todo = {}
  BY DEF Idle
<1> QED BY <1>1, <1>2 DEF CommandTrue, GatheredTrue, At

\* Between the exchanges of a command nothing is under way, except the line
\* of a LinkDown.
LEMMA Silence ==
  ASSUME Before, NEW t \in Threads,
         cmd[t].pc \in {"gather", "persist"}, cmd[t].kind # "LinkDown"
  PROVE  net = {}
<1>1. ASSUME NEW m \in net PROVE FALSE
  <2>1. m.op = t /\ m.type \in PeerMessages /\ MessageTrue(m)
    BY OneThread DEF Before, SerialInv, TypeOK, Message
  <2> QED BY <2>1 DEF MessageTrue, AckTrue, At, PeerMessages
<1> QED BY <1>1

LEMMA OnlyMessage ==
  ASSUME Before, NEW m \in net, m.type # "SpentNotify"
  PROVE  net = {m} /\ MessageTrue(m) /\ m.from \in Nodes /\ m.to \in Nodes
BY DEF Before, SerialInv, Alone, TypeOK, Message

LEMMA SilentNext ==
  ASSUME UndisturbedTurns, NEW t \in Threads,
         \A n \in Nodes : up'[n], CommandTrue(t)', net' = {}
  PROVE  SerialInv'
BY SerialInvNext DEF Alone

LEMMA ReceiveLinkUpAckTrue ==
  ASSUME Before, NEW t \in Threads, ReceiveLinkUpAck(t)
  PROVE  /\ SerialInv'
         /\ At(t, "persist", "LinkUp")' /\ cmd'[t].todo = {}
         /\ \E m \in net :
              /\ net = {m} /\ m.type = "LinkUpAck" /\ AckTrue(m)
              /\ m.op = t /\ m.to \in Nodes /\ m.from \in Nodes
              /\ m.from # m.to /\ net' = {} /\ cmd[t].todo = {}
              /\ ledger' = [ledger EXCEPT ![m.to] =
                   LinkUpMerge(ledger[m.to], spent[m.to], m.ledger, m.spent)]
              /\ link' = [link EXCEPT ![m.to] = @ \cup {m.from}]
<1>1. PICK m \in Replies(t, "LinkUpAck") :
        /\ ledger' = [ledger EXCEPT ![cmd[t].node] =
             LinkUpMerge(ledger[cmd[t].node], spent[cmd[t].node],
                         m.ledger, m.spent)]
        /\ link' = [link EXCEPT ![cmd[t].node] = @ \cup {m.from}]
        /\ net' = net \ {m}
  BY DEF ReceiveLinkUpAck
<1>2. /\ m \in net /\ m.op = t /\ m.type = "LinkUpAck"
      /\ net = {m} /\ MessageTrue(m) /\ m.from \in Nodes /\ m.to \in Nodes
  BY <1>1, OnlyMessage DEF Replies
<1>3. AckTrue(m) /\ m.to = cmd[t].node /\ m.from = cmd[t].peer
  BY <1>2 DEF MessageTrue, AckTrue, Answering
<1>4. /\ cmd[t].pc = "await" /\ cmd[t].kind = "LinkUp" /\ CommandTrue(t)
      /\ Goto(t, "persist") /\ UNCHANGED <<up, spent>>
  BY DEF ReceiveLinkUpAck, At, Before, SerialInv
<1>5. m.from # m.to /\ cmd[t].todo = {}
  BY <1>3, <1>4 DEF CommandTrue, Peers
<1>6. CommandTrue(t)' /\ At(t, "persist", "LinkUp")' /\ cmd'[t].todo = {}
  BY <1>4, <1>5, GotoFields DEF CommandTrue, GatheredTrue, At, Peers
<1>7. net' = {}
  BY <1>1, <1>2
<1>8. SerialInv'
  BY <1>4, <1>6, <1>7, SilentNext DEF Before, SerialInv
<1> QED BY <1>1, <1>2, <1>3, <1>5, <1>6, <1>7, <1>8

LEMMA ReceivePropagateReplyTrue ==
  ASSUME Before, NEW t \in Threads, ReceivePropagateReply(t)
  PROVE  /\ SerialInv'
         /\ At(t, "persist", "Propagate")' /\ cmd'[t].todo = {}
         /\ \E m \in net :
              /\ net = {m} /\ m.type = "PropagateReply" /\ m.op = t
              /\ m.to \in Nodes /\ m.from \in Nodes
              /\ m.from # m.to /\ net' = {} /\ cmd[t].todo = {}
              /\ m.ledger = ledger[m.from] /\ m.to \in link[m.from]
              /\ ledger' = [ledger EXCEPT ![m.to] =
                   @ \cup PropagateDeliverable(@, spent[m.to], m.ledger)]
<1>1. PICK m \in Replies(t, "PropagateReply") :
        /\ ledger' = [ledger EXCEPT ![cmd[t].node] =
             @ \cup PropagateDeliverable(@, spent[cmd[t].node], m.ledger)]
        /\ net' = net \ {m}
  BY DEF ReceivePropagateReply
<1>2. /\ m \in net /\ m.op = t /\ m.type = "PropagateReply"
      /\ net = {m} /\ MessageTrue(m) /\ m.from \in Nodes /\ m.to \in Nodes
  BY <1>1, OnlyMessage DEF Replies
<1>3. /\ m.to = cmd[t].node /\ m.from = cmd[t].peer
      /\ m.ledger = ledger[m.from] /\ m.to \in link[m.from]
  BY <1>2 DEF MessageTrue, Answering
<1>4. /\ cmd[t].pc = "await" /\ cmd[t].kind = "Propagate" /\ CommandTrue(t)
      /\ Goto(t, "persist") /\ UNCHANGED <<up, spent>>
  BY DEF ReceivePropagateReply, At, Before, SerialInv
<1>5. m.from # m.to /\ cmd[t].todo = {}
  BY <1>3, <1>4 DEF CommandTrue, Peers
<1>6. CommandTrue(t)' /\ At(t, "persist", "Propagate")' /\ cmd'[t].todo = {}
  BY <1>4, <1>5, GotoFields DEF CommandTrue, GatheredTrue, At, Peers
<1>7. net' = {}
  BY <1>1, <1>2
<1>8. SerialInv'
  BY <1>4, <1>6, <1>7, SilentNext DEF Before, SerialInv
<1> QED BY <1>1, <1>2, <1>3, <1>5, <1>6, <1>7, <1>8

LEMMA ApplyLinkDownTrue ==
  ASSUME Before, NEW t \in Threads, ApplyLinkDown(t)
  PROVE  /\ SerialInv'
         /\ At(t, "persist", "LinkDown")' /\ cmd'[t].todo = {}
         /\ cmd[t].todo = {} /\ cmd[t].node \in Nodes
<1>1. /\ cmd[t].pc = "apply" /\ cmd[t].kind = "LinkDown" /\ CommandTrue(t)
      /\ Goto(t, "persist") /\ UNCHANGED <<up, ledger, spent, net>>
      /\ link' = [link EXCEPT ![cmd[t].node] = @ \ {cmd[t].peer}]
  BY DEF ApplyLinkDown, At, Before, SerialInv
<1>2. cmd[t].node \in Nodes
  BY <1>1 DEF Before, ThreadsOK, ThreadOK, Idle
<1>3. /\ CommandTrue(t)' /\ At(t, "persist", "LinkDown")'
      /\ cmd[t].todo = {} /\ cmd'[t].todo = {}
  BY <1>1, GotoFields DEF CommandTrue, GatheredTrue, At, Peers
<1>4. ASSUME NEW m \in net PROVE MessageTrue(m)'
  <2>1. m.op = t /\ m.type \in PeerMessages /\ MessageTrue(m)
    BY OneThread DEF Before, SerialInv, TypeOK, Message
  <2>2. m.type = "LinkDown" /\ m.from = cmd[t].node /\ m.to = cmd[t].peer
    BY <1>1, <2>1 DEF MessageTrue, AckTrue, At, PeerMessages, Outgoing
  <2>3. m.to \notin link'[m.from]
    BY <1>1, <1>2, <2>2 DEF Before, TypeOK
  <2>4. /\ cmd'[t].kind = "LinkDown" /\ cmd'[t].node = cmd[t].node
        /\ cmd'[t].peer = cmd[t].peer
    BY <1>1, GotoFields
  <2> QED BY <2>1, <2>2, <2>3, <2>4 DEF MessageTrue, Outgoing
<1>5. Alone' /\ \A n \in Nodes : up'[n]
  BY <1>1 DEF Before, SerialInv, Alone
<1>6. SerialInv'
  BY <1>1, <1>3, <1>4, <1>5, SerialInvNext DEF Before
<1> QED BY <1>2, <1>3, <1>6

LEMMA AskStatusTrue ==
  ASSUME Before, NEW t \in Threads, NEW p \in Nodes, AskStatus(t, p)
  PROVE  /\ SerialInv'
         /\ net = {} /\ cmd[t].todo = {} /\ cmd'[t].todo = {}
         /\ net' = {Msg("StatusRequest", t, cmd[t].node, p, {}, {})}
         /\ cmd'[t].pc = "await"
<1> DEFINE c == cmd[t]
<1>1. /\ c \in Command /\ c.pc = "gather" /\ c.kind = "ConversionDay"
      /\ CommandTrue(t) /\ c.todo = {} /\ p \in c.left
  BY DEF AskStatus, At, Before, SerialInv, TypeOK, CommandTrue
<1>2. /\ UNCHANGED <<up, ledger, spent, link>>
      /\ cmd'[t] = [c EXCEPT !.pc = "await", !.peer = p, !.left = @ \ {p}]
  BY DEF AskStatus, Before, TypeOK, memory
<1>3. /\ cmd'[t].pc = "await" /\ cmd'[t].kind = "ConversionDay"
      /\ cmd'[t].node = c.node /\ cmd'[t].peer = p
      /\ cmd'[t].left = c.left \ {p} /\ cmd'[t].missing = c.missing
      /\ cmd'[t].seen = c.seen /\ cmd'[t].todo = {}
  <2> HIDE DEF c
  <2> QED BY <1>1, <1>2 DEF Command
<1>4. net = {}
  BY <1>1, Silence
<1>5. net' = {Msg("StatusRequest", t, c.node, p, {}, {})}
  BY <1>4, MsgFields, SendToRunning DEF AskStatus
<1>6. CommandTrue(t)'
  BY <1>1, <1>2, <1>3 DEF CommandTrue, GatheredTrue, At
<1>7. ASSUME NEW m \in net' PROVE MessageTrue(m)'
  <2>1. m.type = "StatusRequest" /\ m.op = t /\ m.from = c.node /\ m.to = p
    BY <1>5, MsgFields
  <2> QED BY <1>3, <2>1 DEF MessageTrue, Outgoing, At
<1>8. Alone' /\ \A x \in Nodes : up'[x]
  BY <1>2, <1>5 DEF Alone, Before, SerialInv
<1> QED
  BY <1>1, <1>3, <1>4, <1>5, <1>6, <1>7, <1>8, SerialInvNext DEF Before

LEMMA ReceiveStatusReplyTrue ==
  ASSUME Before, NEW t \in Threads, ReceiveStatusReply(t)
  PROVE  /\ SerialInv'
         /\ cmd[t].todo = {} /\ cmd'[t].todo = {} /\ net' = {}
         /\ cmd'[t].pc = "gather"
         /\ \E m : net = {m} /\ m.type = "StatusReply"
<1> DEFINE c == cmd[t]
<1>1. /\ c \in Command /\ c.pc = "await" /\ c.kind = "ConversionDay"
      /\ CommandTrue(t) /\ c.todo = {} /\ c.seen \in [Nodes -> SUBSET Bearers]
      /\ UNCHANGED <<up, ledger, spent, link>>
  BY DEF ReceiveStatusReply, At, Before, SerialInv, TypeOK, CommandTrue, memory,
         Command
<1>2. PICK m \in Replies(t, "StatusReply") :
        /\ cmd' = [cmd EXCEPT ![t] = [cmd[t] EXCEPT !.pc = "gather",
                                                    !.seen[m.from] = m.spent]]
        /\ net' = net \ {m}
  BY DEF ReceiveStatusReply
<1>3. /\ m \in net /\ m.op = t /\ m.type = "StatusReply"
      /\ net = {m} /\ MessageTrue(m) /\ m.from \in Nodes
  BY <1>2, OnlyMessage DEF Replies
<1>4. m.from = c.peer /\ m.spent = spent[m.from]
  BY <1>3 DEF MessageTrue, Answering
<1>5. cmd'[t] = [c EXCEPT !.pc = "gather", !.seen[m.from] = m.spent]
  BY <1>2 DEF Before, TypeOK
<1>6. /\ cmd'[t].pc = "gather" /\ cmd'[t].kind = "ConversionDay"
      /\ cmd'[t].left = c.left /\ cmd'[t].missing = c.missing
      /\ cmd'[t].seen = [c.seen EXCEPT ![m.from] = m.spent]
      /\ cmd'[t].todo = {}
  <2> HIDE DEF c
  <2> QED BY <1>1, <1>5 DEF Command
<1>7. GatheredTrue(t)'
  <2>1. GatheredTrue(t)
    BY <1>1 DEF CommandTrue
  <2> QED BY <1>1, <1>3, <1>4, <1>6, <2>1 DEF GatheredTrue
<1>8. CommandTrue(t)'
  BY <1>6, <1>7 DEF CommandTrue, At
<1>9. net' = {}
  BY <1>2, <1>3
<1>10. SerialInv'
  BY <1>1, <1>8, <1>9, SilentNext DEF Before, SerialInv
<1> QED BY <1>1, <1>3, <1>6, <1>9, <1>10

LEMMA ExchangeFailsTrue ==
  ASSUME Before, NEW t \in Threads, ExchangeFails(t)
  PROVE  /\ SerialInv'
         /\ net = {} /\ net' = {} /\ cmd[t].todo = {} /\ cmd'[t].todo = {}
         /\ cmd'[t].pc \in {"gather", "idle"}
<1> DEFINE c == cmd[t]
<1>1. /\ c \in Command /\ c.pc = "await" /\ CommandTrue(t) /\ c.todo = {}
      /\ UNCHANGED <<up, ledger, spent, link, net>> /\ net = {}
  BY OneThread
  DEF ExchangeFails, At, Before, SerialInv, TypeOK, CommandTrue, memory
<1>2. CASE c.kind = "ConversionDay"
  <2>1. cmd'[t] = [c EXCEPT !.pc = "gather", !.missing = @ \cup {c.peer}]
    BY <1>2 DEF ExchangeFails, Before, TypeOK
  <2>2. /\ cmd'[t].pc = "gather" /\ cmd'[t].kind = "ConversionDay"
        /\ cmd'[t].left = c.left /\ cmd'[t].missing = c.missing \cup {c.peer}
        /\ cmd'[t].seen = c.seen /\ cmd'[t].todo = {}
    <3> HIDE DEF c
    <3> QED BY <1>1, <1>2, <2>1 DEF Command
  <2>3. CommandTrue(t)'
    BY <1>1, <1>2, <2>2 DEF CommandTrue, GatheredTrue, At
  <2> QED BY <1>1, <2>2, <2>3, SilentNext DEF Before, SerialInv
<1>3. CASE c.kind # "ConversionDay"
  <2>1. Finish(t)
    BY <1>3 DEF ExchangeFails
  <2> QED BY <1>1, <2>1, FinishFields, SilentNext DEF Before, SerialInv
<1> QED BY <1>2, <1>3

LEMMA RefusedTrue ==
  ASSUME Before, NEW t \in Threads, Defer(t) \/ RejectConflict(t)
  PROVE  /\ SerialInv'
         /\ net = {} /\ net' = {} /\ cmd[t].todo = {} /\ cmd'[t].todo = {}
         /\ cmd'[t].pc = "idle"
<1>1. /\ cmd[t].pc = "gather" /\ cmd[t].kind = "ConversionDay"
      /\ CommandTrue(t) /\ Finish(t) /\ UNCHANGED <<up, net>>
  BY DEF Defer, RejectConflict, Gathered, At, Before, SerialInv
<1>2. net = {} /\ cmd[t].todo = {}
  BY <1>1, Silence DEF CommandTrue
<1> QED BY <1>1, <1>2, FinishFields, SilentNext DEF Before, SerialInv

\* When every peer has answered, the snapshots are the spent sets of now.
LEMMA GatheredAll ==
  ASSUME Before, NEW t \in Threads, Gathered(t), cmd[t].missing = {}
  PROVE  cmd[t].seen = spent
<1> DEFINE s == cmd[t].seen
<1>1. s \in [Nodes -> SUBSET Bearers] /\ spent \in [Nodes -> SUBSET Bearers]
  BY DEF Before, TypeOK, Command
<1>2. CommandTrue(t) /\ cmd[t].left = {}
  BY DEF Before, SerialInv, Gathered
<1>3. \A q \in Nodes : s[q] = spent[q]
  BY <1>2 DEF CommandTrue, GatheredTrue, Gathered, At
<1> HIDE DEF s
<1>4. s = spent
  BY <1>1, <1>3
<1> QED BY <1>4 DEF s

LEMMA BurnTrue ==
  ASSUME Before, NEW t \in Threads, Burn(t)
  PROVE  /\ SerialInv'
         /\ net = {} /\ net' = {} /\ cmd[t].todo = {}
         /\ cmd[t].node \in Nodes /\ cmd[t].seen = spent
         /\ cmd'[t].todo = Peers(cmd[t].node) \X BurnSet(spent)
         /\ cmd'[t].pc = "persist" /\ cmd'[t].kind = "ConversionDay"
         /\ cmd'[t].seen = spent
<1> DEFINE c == cmd[t]
           x == Peers(c.node) \X BurnSet(c.seen)
<1>1. /\ c \in Command /\ c.pc = "gather" /\ c.kind = "ConversionDay"
      /\ CommandTrue(t) /\ UNCHANGED <<up, net>>
      /\ cmd'[t] = [c EXCEPT !.pc = "persist", !.todo = x]
  BY DEF Burn, Gathered, At, Before, SerialInv, TypeOK
<1>2. net = {} /\ c.todo = {} /\ c.node \in Nodes
  <2>1. net = {}
    BY <1>1, Silence
  <2>2. c.todo = {}
    BY <1>1 DEF CommandTrue
  <2>3. ThreadOK(c) /\ Idle.pc = "idle"
    BY IdleTyped DEF Before, ThreadsOK
  <2> QED BY <1>1, <2>1, <2>2, <2>3 DEF ThreadOK
<1>3. c.seen = spent
  BY GatheredAll DEF Burn
<1>4. /\ cmd'[t].pc = "persist" /\ cmd'[t].kind = "ConversionDay"
      /\ cmd'[t].todo = x /\ cmd'[t].seen = c.seen
  <2> HIDE DEF c, x
  <2> QED BY <1>1 DEF Command
<1>5. CommandTrue(t)'
  <2> HIDE DEF x
  <2> QED BY <1>4 DEF CommandTrue, GatheredTrue, At
<1>6. SerialInv'
  BY <1>1, <1>2, <1>5, SilentNext DEF Before, SerialInv
<1> QED BY <1>1, <1>2, <1>3, <1>4, <1>6

LEMMA PersistTrue ==
  ASSUME Before, NEW t \in Threads, Persist(t)
  PROVE  /\ SerialInv'
         /\ net' = net /\ cmd[t].pc = "persist" /\ cmd'[t].todo = cmd[t].todo
         /\ cmd[t].kind \in {"SpendAt", "ConversionDay"} =>
              /\ cmd'[t].pc = "notify" /\ cmd'[t].kind = cmd[t].kind
              /\ cmd'[t].seen = cmd[t].seen
         /\ cmd[t].kind \notin {"SpendAt", "ConversionDay"} =>
              cmd'[t].pc = "idle" /\ cmd'[t].kind = "none"
<1>1. /\ cmd[t].pc = "persist" /\ CommandTrue(t)
      /\ UNCHANGED <<up, ledger, spent, link, net>>
      /\ \A m \in net : m.op = t /\ m.type \in PeerMessages /\ MessageTrue(m)
  BY OneThread DEF Persist, Before, SerialInv, memory, TypeOK, Message
<1>2. Alone' /\ \A n \in Nodes : up'[n]
  BY <1>1 DEF Before, SerialInv, Alone
<1>3. CASE cmd[t].kind \in {"SpendAt", "ConversionDay"}
  <2>1. Goto(t, "notify")
    BY <1>3 DEF Persist
  <2>2. net = {}
    BY <1>1, <1>3, Silence
  <2>3. CommandTrue(t)'
    BY <1>1, <1>3, <2>1, GotoFields DEF CommandTrue, GatheredTrue, At
  <2> QED
    BY <1>1, <1>2, <1>3, <2>1, <2>2, <2>3, GotoFields, SilentNext DEF Before
<1>4. CASE cmd[t].kind \notin {"SpendAt", "ConversionDay"}
  <2>1. Finish(t)
    BY <1>4 DEF Persist
  <2>2. cmd[t].todo = {}
    BY <1>1, <1>4 DEF CommandTrue
  <2>3. ASSUME NEW m \in net PROVE MessageTrue(m)'
    <3>1. m.type = "LinkDown" /\ m.to \notin link[m.from]
      BY <1>1 DEF MessageTrue, AckTrue, At, PeerMessages
    <3> QED BY <1>1, <2>1, <3>1, FinishFields DEF MessageTrue
  <2> QED
    BY <1>1, <1>2, <1>4, <2>1, <2>2, <2>3, FinishFields, SerialInvNext
    DEF Before
<1> QED BY <1>3, <1>4

\* While a command broadcasts, notices are all that is under way.
LEMMA OnlyNotices ==
  ASSUME Before, NEW t \in Threads, cmd[t].pc = "notify"
  PROVE  \A m \in net : m.type = "SpentNotify"
<1>1. CommandTrue(t)
  BY DEF Before, SerialInv
<1>2. ASSUME NEW m \in net PROVE m.type = "SpentNotify"
  <2>1. m.op = t /\ m.type \in PeerMessages /\ MessageTrue(m)
    BY OneThread DEF Before, SerialInv, TypeOK, Message
  <2> QED BY <1>1, <2>1 DEF MessageTrue, AckTrue, At, PeerMessages, CommandTrue
<1> QED BY <1>2

LEMMA NotifyTrue ==
  ASSUME Before, NEW t \in Threads, Notify(t)
  PROVE  /\ SerialInv'
         /\ cmd[t].pc = "notify" /\ cmd'[t].pc = "notify"
         /\ cmd'[t].kind = cmd[t].kind /\ cmd'[t].seen = cmd[t].seen
         /\ \A m \in net : m.type = "SpentNotify"
         /\ \E d \in cmd[t].todo :
              /\ net' = net \cup {Msg("SpentNotify", t, cmd[t].node, d[1], {}, {d[2]})}
              /\ cmd'[t].todo = cmd[t].todo \ {d}
<1> DEFINE c == cmd[t]
<1>1. /\ c \in Command /\ c.pc = "notify" /\ CommandTrue(t)
      /\ UNCHANGED <<up, ledger, spent, link>>
  BY DEF Notify, Before, SerialInv, TypeOK, memory
<1>2. PICK d \in c.todo :
        /\ Send(Msg("SpentNotify", t, c.node, d[1], {}, {d[2]}))
        /\ cmd' = [cmd EXCEPT ![t] = [cmd[t] EXCEPT !.todo = @ \ {d}]]
  BY DEF Notify
<1>3. cmd'[t] = [c EXCEPT !.todo = @ \ {d}]
  BY <1>2 DEF Before, TypeOK
<1>4. /\ cmd'[t].pc = "notify" /\ cmd'[t].kind = c.kind
      /\ cmd'[t].seen = c.seen /\ cmd'[t].todo = c.todo \ {d}
  <2> HIDE DEF c
  <2> QED BY <1>1, <1>3 DEF Command
<1>5. d[1] \in Nodes
  <2>1. c.todo \in SUBSET (Nodes \X Bearers)
    BY <1>1 DEF Command
  <2> QED BY <1>2, <2>1
<1>6. net' = net \cup {Msg("SpentNotify", t, c.node, d[1], {}, {d[2]})}
  BY <1>2, <1>5, MsgFields, SendToRunning
<1>7. \A m \in net : m.type = "SpentNotify"
  BY <1>1, OnlyNotices
<1>8. CommandTrue(t)'
  BY <1>1, <1>2, <1>4 DEF CommandTrue, GatheredTrue, At
<1>9. ASSUME NEW m \in net' PROVE m.type = "SpentNotify" /\ MessageTrue(m)'
  <2>1. m.type = "SpentNotify" /\ m.op = t
    BY <1>6, <1>7, MsgFields, OneThread
  <2> QED BY <1>4, <2>1 DEF MessageTrue
<1>10. Alone' /\ \A x \in Nodes : up'[x]
  BY <1>1, <1>9 DEF Alone, Before, SerialInv
<1>11. SerialInv'
  BY <1>8, <1>9, <1>10, SerialInvNext DEF Before
<1> QED BY <1>1, <1>2, <1>4, <1>6, <1>7, <1>11

LEMMA AnswerTrue ==
  ASSUME Before, NEW t \in Threads, Answer(t)
  PROVE  /\ SerialInv'
         /\ net' = net /\ cmd[t].pc = "notify" /\ cmd'[t].pc = "idle"
         /\ cmd[t].todo = {} /\ cmd'[t].todo = {}
         /\ cmd'[t].kind = "none"
         /\ \A m \in net : m.type = "SpentNotify"
<1>1. /\ cmd[t].pc = "notify" /\ cmd[t].todo = {} /\ Finish(t)
      /\ UNCHANGED <<up, ledger, spent, link, net>>
  BY DEF Answer, memory
<1>2. \A m \in net : m.type = "SpentNotify"
  BY <1>1, OnlyNotices
<1>3. ASSUME NEW m \in net PROVE MessageTrue(m)'
  <2>1. m.type = "SpentNotify" /\ m.op = t
    BY <1>2, OneThread
  <2> QED BY <1>1, <2>1, FinishFields DEF MessageTrue
<1>4. Alone' /\ \A x \in Nodes : up'[x]
  BY <1>1 DEF Alone, Before, SerialInv
<1>5. SerialInv'
  BY <1>1, <1>3, <1>4, FinishFields, SerialInvNext DEF Before
<1> QED BY <1>1, <1>2, <1>5, FinishFields

\* A handler leaves the command alone; what the command relies on stays.
LEMMA CommandStays ==
  ASSUME Before, NEW t \in Threads, UNCHANGED <<cmd, spent>>,
         At(t, "await", "LinkUp") => ledger'[cmd[t].node] = ledger[cmd[t].node]
  PROVE  CommandTrue(t)'
<1>1. CommandTrue(t)
  BY DEF Before, SerialInv
<1>2. At(t, "await", "LinkUp") => Saved(cmd[t].node)' = Saved(cmd[t].node)
  BY DEF Saved
<1> QED BY <1>1, <1>2 DEF CommandTrue, GatheredTrue, At

LEMMA HandleLinkUpHelloTrue ==
  ASSUME Before, NEW m \in net, HandleLinkUpHello(m)
  PROVE  /\ SerialInv'
         /\ net = {m} /\ m.type = "LinkUpHello" /\ m.op \in Threads
         /\ m.from \in Nodes /\ m.to \in Nodes /\ m.from # m.to
         /\ cmd[m.op].todo = {} /\ At(m.op, "await", "LinkUp")
         /\ ledger' = [ledger EXCEPT ![m.to] =
              LinkUpMerge(ledger[m.to], spent[m.to], ledger[m.from], spent[m.from])]
         /\ link' = [link EXCEPT ![m.to] = @ \cup {m.from}]
         /\ net' = {Msg("LinkUpAck", m.op, m.to, m.from, ledger[m.to], spent[m.to])}
         /\ UNCHANGED <<spent, cmd, settled>>
<1> DEFINE t == m.op
           n == m.to
           i == m.from
           ack == Msg("LinkUpAck", t, n, i, ledger[n], spent[n])
<1>1. m.type = "LinkUpHello" /\ t \in Threads
  BY DEF HandleLinkUpHello, Incoming, Before, TypeOK, Message
<1>2. net = {m} /\ MessageTrue(m) /\ i \in Nodes /\ n \in Nodes
  BY <1>1, OnlyMessage
<1>3. /\ At(t, "await", "LinkUp") /\ i = cmd[t].node /\ n = cmd[t].peer
      /\ m.ledger = ledger[i] /\ m.spent = spent[i]
  BY <1>1, <1>2 DEF MessageTrue, Outgoing
<1>4. i # n /\ cmd[t].todo = {}
  <2>1. CommandTrue(t)
    BY <1>1 DEF Before, SerialInv
  <2> QED BY <1>3, <2>1 DEF CommandTrue, At, Peers
<1>5. /\ ledger' = [ledger EXCEPT ![n] =
           LinkUpMerge(ledger[n], spent[n], ledger[i], spent[i])]
      /\ link' = [link EXCEPT ![n] = @ \cup {i}]
      /\ UNCHANGED <<up, spent, cmd, settled>>
  BY <1>3 DEF HandleLinkUpHello, history
<1>6. net' = {ack}
  <2>1. HandledWith(m, {ack})
    BY DEF HandleLinkUpHello
  <2>2. ack.op = t
    BY MsgFields
  <2> HIDE DEF ack
  <2> QED BY <1>2, <1>3, <2>1, <2>2 DEF HandledWith, At
<1>7. CommandTrue(t)'
  BY <1>1, <1>2, <1>3, <1>4, <1>5, CommandStays DEF Before, TypeOK
<1>8. ASSUME NEW k \in net' PROVE MessageTrue(k)'
  <2>1. /\ k.type = "LinkUpAck" /\ k.op = t /\ k.from = n /\ k.to = i
        /\ k.ledger = ledger[n] /\ k.spent = spent[n]
    BY <1>6, MsgFields
  <2>2. /\ ledger'[i] = ledger[i]
        /\ ledger'[n] = LinkUpMerge(ledger[n], spent[n], ledger[i], spent[i])
        /\ i \in link'[n]
    BY <1>2, <1>4, <1>5 DEF Before, TypeOK
  <2>3. LinkUpMerge(ledger'[i], spent'[i], k.ledger, k.spent) = ledger'[n]
    BY <1>5, <2>1, <2>2 DEF LinkUpMerge
  <2>4. AckTrue(k)'
    BY <1>3, <1>5, <2>1, <2>2, <2>3 DEF AckTrue, Answering, At
  <2> QED BY <2>1, <2>4 DEF MessageTrue
<1>9. Alone' /\ \A x \in Nodes : up'[x]
  BY <1>5, <1>6 DEF Alone, Before, SerialInv
<1>10. SerialInv'
  BY <1>1, <1>7, <1>8, <1>9, SerialInvNext DEF Before
<1> QED BY <1>1, <1>2, <1>3, <1>4, <1>5, <1>6, <1>10

LEMMA HandleLinkDownTrue ==
  ASSUME Before, NEW m \in net, HandleLinkDown(m)
  PROVE  /\ SerialInv'
         /\ net = {m} /\ m.type = "LinkDown" /\ m.op \in Threads
         /\ m.from \in Nodes /\ m.to \in Nodes
         /\ cmd[m.op].todo = {}
         /\ At(m.op, "apply", "LinkDown") =>
              cmd[m.op].node = m.from /\ cmd[m.op].peer = m.to
         /\ link' = [link EXCEPT ![m.to] = @ \ {m.from}]
         /\ net' = {}
         /\ UNCHANGED <<ledger, spent, cmd, settled>>
<1>1. /\ m.type = "LinkDown" /\ m.op \in Threads /\ CommandTrue(m.op)
      /\ link' = [link EXCEPT ![m.to] = @ \ {m.from}] /\ HandledWith(m, {})
      /\ UNCHANGED <<up, ledger, spent, cmd, settled>>
  BY DEF HandleLinkDown, Incoming, Before, TypeOK, Message, SerialInv, history
<1>2. net = {m} /\ MessageTrue(m) /\ m.from \in Nodes /\ m.to \in Nodes
  BY <1>1, OnlyMessage
<1>3. /\ cmd[m.op].todo = {}
      /\ At(m.op, "apply", "LinkDown") =>
           cmd[m.op].node = m.from /\ cmd[m.op].peer = m.to
  BY <1>1, <1>2 DEF MessageTrue, Outgoing, At, CommandTrue
<1>4. net' = {}
  BY <1>1, <1>2 DEF HandledWith
<1>5. SerialInv'
  BY <1>1, <1>4, CommandStays, SilentNext DEF Before, SerialInv
<1> QED BY <1>1, <1>2, <1>3, <1>4, <1>5

LEMMA HandlePropagateRequestTrue ==
  ASSUME Before, NEW m \in net, HandlePropagateRequest(m)
  PROVE  /\ SerialInv'
         /\ net = {m} /\ m.type = "PropagateRequest"
         /\ \A k \in net' : k.type = "PropagateReply"
         /\ UNCHANGED <<ledger, spent, link, cmd, settled>>
<1> DEFINE t == m.op
           r == Msg("PropagateReply", t, m.to, m.from, ledger[m.to], {})
<1>1. /\ m.type = "PropagateRequest" /\ t \in Threads
      /\ HandledWith(m, IF m.from \in link[m.to] THEN {r} ELSE {})
      /\ UNCHANGED <<up, ledger, spent, link, cmd, settled>>
  BY DEF HandlePropagateRequest, Incoming, Before, TypeOK, Message, memory,
         history
<1>2. net = {m} /\ MessageTrue(m) /\ m.from \in Nodes /\ m.to \in Nodes
  BY <1>1, OnlyMessage
<1>3. /\ At(t, "await", "Propagate") /\ m.from = cmd[t].node
      /\ m.to = cmd[t].peer
  BY <1>1, <1>2 DEF MessageTrue, Outgoing
<1>4. \A k \in net' : k = r /\ m.from \in link[m.to]
  <2> HIDE DEF r
  <2> QED BY <1>1, <1>2 DEF HandledWith
<1>5. ASSUME NEW k \in net'
      PROVE  k.type = "PropagateReply" /\ MessageTrue(k)'
  <2>1. /\ k.type = "PropagateReply" /\ k.op = t /\ k.from = m.to
        /\ k.to = m.from /\ k.ledger = ledger[m.to] /\ m.from \in link[m.to]
    BY <1>4, MsgFields
  <2> QED BY <1>1, <1>3, <2>1 DEF MessageTrue, Answering, At
<1>6. Alone' /\ \A x \in Nodes : up'[x]
  <2> HIDE DEF r
  <2> QED BY <1>1, <1>4 DEF Alone, Before, SerialInv
<1>7. SerialInv'
  BY <1>1, <1>5, <1>6, CommandStays, SerialInvNext DEF Before
<1> QED BY <1>1, <1>2, <1>5, <1>7

LEMMA HandleSpentNotifyTrue ==
  ASSUME Before, NEW m \in net, HandleSpentNotify(m)
  PROVE  /\ SerialInv'
         /\ \A k \in net : k.type = "SpentNotify"
         /\ m.to \in Nodes /\ cmd[m.op].pc # "apply"
         /\ ledger' = [ledger EXCEPT ![m.to] = @ \ m.spent]
         /\ net' = net \ {m}
         /\ UNCHANGED <<spent, link, cmd, settled>>
<1>1. /\ m.type = "SpentNotify" /\ m.op \in Threads /\ m.to \in Nodes
      /\ ledger' = [ledger EXCEPT ![m.to] = @ \ m.spent] /\ HandledWith(m, {})
      /\ UNCHANGED <<up, spent, link, cmd, settled>> /\ MessageTrue(m)
  BY DEF HandleSpentNotify, Incoming, Before, TypeOK, Message, SerialInv, history
<1>2. cmd[m.op].pc \in {"idle", "notify"}
  BY <1>1 DEF MessageTrue
<1>3. \A k \in net : k.type = "SpentNotify" /\ k.op = m.op
  BY <1>1, OneThread DEF Before, SerialInv, Alone
<1>4. net' = net \ {m}
  BY <1>1 DEF HandledWith
<1>5. ASSUME NEW k \in net' PROVE MessageTrue(k)'
  BY <1>1, <1>2, <1>3, <1>4 DEF MessageTrue
<1>6. Alone' /\ \A x \in Nodes : up'[x]
  BY <1>1, <1>4 DEF Alone, Before, SerialInv
<1>7. CommandTrue(m.op)'
  BY <1>1, <1>2, CommandStays DEF At
<1>8. SerialInv'
  BY <1>1, <1>5, <1>6, <1>7, SerialInvNext DEF Before
<1> QED BY <1>1, <1>2, <1>3, <1>4, <1>8

LEMMA HandleStatusRequestTrue ==
  ASSUME Before, NEW m \in net, HandleStatusRequest(m)
  PROVE  /\ SerialInv'
         /\ net = {m} /\ m.type = "StatusRequest"
         /\ \A k \in net' : k.type = "StatusReply"
         /\ UNCHANGED <<ledger, spent, link, cmd, settled>>
<1> DEFINE t == m.op
           r == Msg("StatusReply", t, m.to, m.from, {}, spent[m.to])
<1>1. /\ m.type = "StatusRequest" /\ t \in Threads /\ HandledWith(m, {r})
      /\ UNCHANGED <<up, ledger, spent, link, cmd, settled>>
  BY DEF HandleStatusRequest, Incoming, Before, TypeOK, Message, memory,
         history
<1>2. net = {m} /\ MessageTrue(m) /\ m.from \in Nodes /\ m.to \in Nodes
  BY <1>1, OnlyMessage
<1>3. /\ At(t, "await", "ConversionDay") /\ m.from = cmd[t].node
      /\ m.to = cmd[t].peer
  BY <1>1, <1>2 DEF MessageTrue, Outgoing
<1>4. \A k \in net' : k = r
  <2> HIDE DEF r
  <2> QED BY <1>1, <1>2 DEF HandledWith
<1>5. ASSUME NEW k \in net'
      PROVE  k.type = "StatusReply" /\ MessageTrue(k)'
  <2>1. /\ k.type = "StatusReply" /\ k.op = t /\ k.from = m.to
        /\ k.to = m.from /\ k.spent = spent[m.to]
    BY <1>4, MsgFields
  <2> QED BY <1>1, <1>3, <2>1 DEF MessageTrue, Answering, At
<1>6. Alone' /\ \A x \in Nodes : up'[x]
  <2> HIDE DEF r
  <2> QED BY <1>1, <1>4 DEF Alone, Before, SerialInv
<1>7. SerialInv'
  BY <1>1, <1>5, <1>6, CommandStays, SerialInvNext DEF Before
<1> QED BY <1>1, <1>2, <1>5, <1>7

\* The first half of every step: the invariant is kept.
LEMMA AdminTrue ==
  ASSUME Before, NEW t \in Threads, Admin(t)
  PROVE  SerialInv'
BY AdminLinkUpTrue, AdminLinkDownTrue, AdminPropagateTrue, AdminSpendAtTrue,
   AdminSeedTrue, AdminConversionDayTrue
DEF Admin, Seedable

LEMMA ContinueTrue ==
  ASSUME Before, NEW t \in Threads, Continue(t)
  PROVE  SerialInv'
BY ReceiveLinkUpAckTrue, ReceivePropagateReplyTrue, ApplyLinkDownTrue,
   AskStatusTrue, ReceiveStatusReplyTrue, ExchangeFailsTrue, RefusedTrue,
   BurnTrue, PersistTrue, NotifyTrue, AnswerTrue
DEF Continue

LEMMA HandlerTrue ==
  ASSUME Before, NEW m \in net, HandlePeerMessage(m)
  PROVE  SerialInv'
BY HandleLinkUpHelloTrue, HandleLinkDownTrue, HandlePropagateRequestTrue,
   HandleSpentNotifyTrue, HandleStatusRequestTrue
DEF HandlePeerMessage

\* Without faults a step is a command's, a thread's or a handler's.
LEMMA FaultlessStep ==
  ASSUME Before, [Next]_vars
  PROVE  \/ \E t \in Threads : Admin(t) \/ Continue(t)
         \/ \E m \in net : HandlePeerMessage(m)
         \/ UNCHANGED vars
<1>1. ~ \E n \in Nodes : Crash(n) \/ Restart(n)
  BY DEF Crash, Restart, Before, UndisturbedTurns, TakingTurns, SerialInv
<1>2. ~ \E m \in net : Lose(m)
  BY DEF Lose, Before, UndisturbedTurns, TakingTurns
<1> QED BY <1>1, <1>2 DEF Next, Deliver

LEMMA UnchangedTrue ==
  ASSUME Before, UNCHANGED vars
  PROVE  SerialInv'
<1>1. UNCHANGED <<up, ledger, spent, link, cmd, net>>
  BY DEF vars, memory
<1> QED
  BY <1>1
  DEF Before, SerialInv, CommandTrue, GatheredTrue, MessageTrue, AckTrue,
      Outgoing, Answering, Alone, At, Saved

LEMMA StepTrue == Before /\ [Next]_vars => SerialInv'
BY FaultlessStep, AdminTrue, ContinueTrue, HandlerTrue, UnchangedTrue

LEMMA InitTrue == Init => SerialInv
<1> SUFFICES ASSUME Init PROVE SerialInv
  OBVIOUS
<1>1. net = {} /\ \A n \in Nodes : up[n]
  BY DEF Init
<1>2. ASSUME NEW t \in Threads PROVE CommandTrue(t)
  BY DEF Init, Idle, CommandTrue, GatheredTrue, At
<1> QED BY <1>1, <1>2 DEF SerialInv, Alone

LEMMA SerialInvHolds ==
  ASSUME UndisturbedTurns
  PROVE  Spec => []Before
<1>1. TypeOK /\ ThreadsOK /\ SerialInv /\ [Next]_vars => SerialInv'
  BY StepTrue DEF Before
<1>2. UndisturbedTurns /\ TypeOK /\ ThreadsOK /\ SerialInv => Before
  BY DEF Before
<1>3. Spec => [](TypeOK /\ ThreadsOK /\ SerialInv)
  BY <1>1, InitTrue, Typing, PTL DEF Spec
<1>4. TypeOK /\ ThreadsOK /\ SerialInv => Before
  BY <1>2
<1> QED BY <1>3, <1>4, PTL

-----------------------------------------------------------------------------
(* The network the nodes stand for, by what is under way *)

\* Nothing is under way that counts as done.
Plain ==
  /\ \A m \in net : m.type \notin {"LinkUpAck", "LinkDown", "SpentNotify"}
  /\ \A t \in Threads : cmd[t].todo = {} /\ cmd[t].pc # "apply"

LEMMA PlainMapping == TypeOK /\ Plain => Ledgers = ledger /\ Links = link
<1> SUFFICES ASSUME TypeOK, Plain PROVE Ledgers = ledger /\ Links = link
  OBVIOUS
<1>1. ASSUME NEW n \in Nodes PROVE LedgerOf(n) = ledger[n]
  <2>1. To(n, "LinkUpAck") = {} /\ To(n, "SpentNotify") = {}
    BY DEF Plain, To
  <2>2. Leaving(n) = {}
    BY <2>1 DEF Plain, Leaving
  <2> QED BY <2>1, <2>2 DEF LedgerOf
<1>2. ASSUME NEW n \in Nodes PROVE LinkOf(n) = link[n]
  <2>1. To(n, "LinkUpAck") = {} /\ To(n, "LinkDown") = {}
    BY DEF Plain, To
  <2> QED BY <2>1 DEF Plain, LinkOf, At
<1> QED BY <1>1, <1>2 DEF Ledgers, Links, TypeOK

LEMMA PlainMappingNext ==
  (TypeOK /\ Plain => Ledgers = ledger /\ Links = link)'
BY PlainMapping, PTL

\* The ack of a LinkUp counts as merged at the initiator.
AckUnderWay(m) ==
  /\ net = {m} /\ m.type = "LinkUpAck"
  /\ \A t \in Threads : cmd[t].todo = {} /\ cmd[t].pc # "apply"

LEMMA AckMapping ==
  \A m : TypeOK /\ AckUnderWay(m) =>
    /\ Ledgers = [ledger EXCEPT ![m.to] =
                    LinkUpMerge(ledger[m.to], spent[m.to], m.ledger, m.spent)]
    /\ Links = [link EXCEPT ![m.to] = @ \cup {m.from}]
<1> SUFFICES ASSUME NEW m, TypeOK, AckUnderWay(m)
             PROVE  /\ Ledgers = [ledger EXCEPT ![m.to] =
                        LinkUpMerge(ledger[m.to], spent[m.to], m.ledger, m.spent)]
                    /\ Links = [link EXCEPT ![m.to] = @ \cup {m.from}]
  OBVIOUS
<1> DEFINE merged == LinkUpMerge(ledger[m.to], spent[m.to], m.ledger, m.spent)
<1>1. m \in net /\ m.type = "LinkUpAck"
  BY DEF AckUnderWay
<1>2. ASSUME NEW n \in Nodes
      PROVE  /\ To(n, "SpentNotify") = {} /\ To(n, "LinkDown") = {}
             /\ n = m.to => To(n, "LinkUpAck") = {m}
             /\ n # m.to => To(n, "LinkUpAck") = {}
  <2>1. net = {m} /\ m.type = "LinkUpAck"
    BY DEF AckUnderWay
  <2>2. To(n, "SpentNotify") = {} /\ To(n, "LinkDown") = {}
    BY <2>1 DEF To
  <2>3. CASE n = m.to
    BY <2>1, <2>2, <2>3 DEF To
  <2>4. CASE n # m.to
    BY <2>1, <2>2, <2>4 DEF To
  <2> QED BY <2>3, <2>4
<1>3. ASSUME NEW n \in Nodes PROVE Leaving(n) = {}
  BY <1>2 DEF AckUnderWay, Leaving
<1>4. ASSUME NEW n \in Nodes, n # m.to PROVE LedgerOf(n) = ledger[n]
  BY <1>2, <1>3, <1>4 DEF LedgerOf
<1>5. ASSUME m.to \in Nodes PROVE LedgerOf(m.to) = merged
  <2>1. To(m.to, "LinkUpAck") = {m} /\ Leaving(m.to) = {}
    BY <1>2, <1>3, <1>5
  <2>2. UNION {LinkUpMerge(ledger[m.to], spent[m.to], k.ledger, k.spent) :
                 k \in {m}} = merged
    OBVIOUS
  <2> HIDE DEF merged
  <2> QED BY <2>1, <2>2 DEF LedgerOf
<1>6. ASSUME NEW n \in Nodes
      PROVE  LinkOf(n) = IF n = m.to THEN link[n] \cup {m.from} ELSE link[n]
  BY <1>2 DEF AckUnderWay, LinkOf, At
<1> HIDE DEF merged
<1>7. Ledgers = [ledger EXCEPT ![m.to] = merged]
  BY <1>4, <1>5 DEF Ledgers, TypeOK
<1>8. Links = [link EXCEPT ![m.to] = @ \cup {m.from}]
  BY <1>6 DEF Links, TypeOK
<1> QED BY <1>7, <1>8 DEF merged

LEMMA AckMappingNext ==
  (\A m : TypeOK /\ AckUnderWay(m) =>
    /\ Ledgers = [ledger EXCEPT ![m.to] =
                    LinkUpMerge(ledger[m.to], spent[m.to], m.ledger, m.spent)]
    /\ Links = [link EXCEPT ![m.to] = @ \cup {m.from}])'
BY AckMapping, PTL

\* Notices that are under way, or still to be sent, count as handled.
Broadcasting ==
  /\ \A m \in net : m.type = "SpentNotify"
  /\ \A t \in Threads : cmd[t].pc # "apply"

LEMMA BroadcastMapping ==
  TypeOK /\ Broadcasting =>
    Ledgers = [n \in Nodes |-> ledger[n] \ Leaving(n)] /\ Links = link
<1> SUFFICES ASSUME TypeOK, Broadcasting
             PROVE  /\ Ledgers = [n \in Nodes |-> ledger[n] \ Leaving(n)]
                    /\ Links = link
  OBVIOUS
<1>1. ASSUME NEW n \in Nodes
      PROVE  To(n, "LinkUpAck") = {} /\ To(n, "LinkDown") = {}
  BY DEF Broadcasting, To
<1>2. ASSUME NEW n \in Nodes PROVE LedgerOf(n) = ledger[n] \ Leaving(n)
  BY <1>1 DEF LedgerOf
<1>3. ASSUME NEW n \in Nodes PROVE LinkOf(n) = link[n]
  BY <1>1 DEF Broadcasting, LinkOf, At
<1> QED BY <1>2, <1>3 DEF Ledgers, Links, TypeOK

LEMMA BroadcastMappingNext ==
  (TypeOK /\ Broadcasting =>
    Ledgers = [n \in Nodes |-> ledger[n] \ Leaving(n)] /\ Links = link)'
BY BroadcastMapping, PTL

\* A LinkDown that is under way, or not applied yet, counts as applied.
Unlinking ==
  /\ \A m \in net : m.type = "LinkDown"
  /\ \A t \in Threads : cmd[t].todo = {}

Applying(n) ==
  {cmd[t].peer : t \in {u \in Threads : At(u, "apply", "LinkDown") /\ cmd[u].node = n}}

LEMMA UnlinkMapping ==
  TypeOK /\ Unlinking =>
    /\ Ledgers = ledger
    /\ Links = [n \in Nodes |->
                  link[n] \ ({m.from : m \in To(n, "LinkDown")} \cup Applying(n))]
<1> SUFFICES ASSUME TypeOK, Unlinking
             PROVE  /\ Ledgers = ledger
                    /\ Links = [n \in Nodes |->
                         link[n] \ ({m.from : m \in To(n, "LinkDown")}
                                      \cup Applying(n))]
  OBVIOUS
<1>1. ASSUME NEW n \in Nodes PROVE LedgerOf(n) = ledger[n]
  <2>1. To(n, "LinkUpAck") = {} /\ To(n, "SpentNotify") = {}
    BY DEF Unlinking, To
  <2>2. Leaving(n) = {}
    BY <2>1 DEF Unlinking, Leaving
  <2> QED BY <2>1, <2>2 DEF LedgerOf
<1>2. ASSUME NEW n \in Nodes
      PROVE  LinkOf(n) =
               link[n] \ ({m.from : m \in To(n, "LinkDown")} \cup Applying(n))
  <2>1. To(n, "LinkUpAck") = {}
    BY DEF Unlinking, To
  <2> QED BY <2>1 DEF LinkOf, Applying
<1> QED BY <1>1, <1>2 DEF Ledgers, Links, TypeOK

LEMMA UnlinkMappingNext ==
  (TypeOK /\ Unlinking =>
    /\ Ledgers = ledger
    /\ Links = [n \in Nodes |->
                  link[n] \ ({m.from : m \in To(n, "LinkDown")} \cup Applying(n))])'
BY UnlinkMapping, PTL

\* A burn counts as settled before it is answered.
LEMMA SettledMapping ==
  \A t : Threads = {t} =>
    Settled = IF Settling(t) THEN settled \cup BurnSet(cmd[t].seen) ELSE settled
BY DEF Settled

LEMMA SettledMappingNext ==
  (\A t : Threads = {t} =>
    Settled = IF Settling(t) THEN settled \cup BurnSet(cmd[t].seen) ELSE settled)'
BY SettledMapping, PTL

-----------------------------------------------------------------------------
(* Each step is a step of the network, or leaves it unchanged *)

Stutter == UNCHANGED <<Ledgers, spent, Links, Settled>>

\* Between exchanges, and with one of these messages, nothing counts as done.
LEMMA PlainSilence ==
  ASSUME Before, NEW t \in Threads, net = {},
         cmd[t].todo = {}, cmd[t].pc # "apply"
  PROVE  Plain
BY DEF Plain, Before, UndisturbedTurns, TakingTurns

LEMMA PlainExchange ==
  ASSUME Before, NEW m \in net,
         m.type \in {"LinkUpHello", "PropagateRequest", "PropagateReply",
                     "StatusRequest", "StatusReply"}
  PROVE  Plain /\ m.op \in Threads /\ cmd[m.op].pc = "await"
<1>1. net = {m} /\ MessageTrue(m) /\ m.op \in Threads
  BY OnlyMessage DEF Before, TypeOK, Message
<1>2. cmd[m.op].pc = "await" /\ CommandTrue(m.op)
  BY <1>1 DEF MessageTrue, At, Before, SerialInv
<1>3. cmd[m.op].todo = {}
  BY <1>2 DEF CommandTrue
<1> QED BY <1>1, <1>2, <1>3 DEF Plain, Before, UndisturbedTurns, TakingTurns

LEMMA PlainNext ==
  ASSUME UndisturbedTurns, NEW t \in Threads,
         cmd'[t].todo = {}, cmd'[t].pc # "apply",
         \A m \in net' : m.type \notin {"LinkUpAck", "LinkDown", "SpentNotify"}
  PROVE  Plain'
BY DEF Plain, UndisturbedTurns, TakingTurns

LEMMA MessageTypes ==
  ASSUME Before, NEW m \in net
  PROVE  m.type \in PeerMessages /\ m.op \in Threads
BY DEF Before, TypeOK, Message

\* A thread that stays away from the end of a ConversionDay settles nothing.
LEMMA SettledStays ==
  ASSUME Before, NEW t \in Threads, settled' = settled,
         ~Settling(t), ~Settling(t)'
  PROVE  Settled' = Settled
<1>1. Threads = {t}
  BY OneThread
<1> QED BY <1>1, SettledMapping, SettledMappingNext

LEMMA PlainStutter ==
  ASSUME Before, TypeOK', NEW t \in Threads, Plain, Plain',
         UNCHANGED <<ledger, spent, link, settled>>,
         ~Settling(t), ~Settling(t)'
  PROVE  Stutter
<1>1. Settled' = Settled
  BY SettledStays
<1>2. Ledgers' = Ledgers /\ Links' = Links
  BY PlainMapping, PlainMappingNext DEF Before
<1> QED BY <1>1, <1>2 DEF Stutter

LEMMA AdminStutters ==
  ASSUME Before, TypeOK', NEW t \in Threads, Free(t), NEW n \in Nodes,
         \/ \E p \in Peers(n) : AdminLinkUp(t, n, p) \/ AdminPropagate(t, n, p)
         \/ AdminConversionDay(t, n)
  PROVE  Stutter
<1>1. net = {} /\ cmd[t] = Idle
  BY FreeIsQuiet
<1>2. cmd[t].todo = {} /\ cmd[t].pc = "idle" /\ cmd[t].kind = "none"
  BY <1>1 DEF Idle
<1>3. UNCHANGED <<ledger, spent, link, settled>>
  BY DEF AdminLinkUp, AdminPropagate, AdminConversionDay, memory, history
<1>4. /\ cmd'[t].todo = {} /\ cmd'[t].pc \in {"await", "gather"}
      /\ \A m \in net' : m.type \in {"LinkUpHello", "PropagateRequest"}
  BY AdminLinkUpTrue, AdminPropagateTrue, AdminConversionDayTrue, MsgFields
<1>5. Plain /\ Plain'
  BY <1>1, <1>2, <1>4, PlainSilence, PlainNext DEF Before
<1> QED BY <1>2, <1>3, <1>4, <1>5, PlainStutter DEF Settling

LEMMA ContinueStutters ==
  ASSUME Before, TypeOK', NEW t \in Threads,
         \/ \E p \in Nodes : AskStatus(t, p)
         \/ ReceiveStatusReply(t) \/ ExchangeFails(t)
         \/ Defer(t) \/ RejectConflict(t)
  PROVE  Stutter
<1>1. UNCHANGED <<ledger, spent, link, settled>>
  BY DEF AskStatus, ReceiveStatusReply, ExchangeFails, Defer, RejectConflict,
         memory, history
<1>2. /\ cmd[t].todo = {} /\ cmd'[t].todo = {}
      /\ cmd'[t].pc \in {"await", "gather", "idle"}
      /\ \A m \in net' : m.type = "StatusRequest"
      /\ \A m \in net : m.type = "StatusReply"
  BY AskStatusTrue, ReceiveStatusReplyTrue, ExchangeFailsTrue, RefusedTrue,
     MsgFields
<1>3. cmd[t].pc \in {"await", "gather"}
  BY DEF AskStatus, ReceiveStatusReply, ExchangeFails, Defer, RejectConflict,
         Gathered, At
<1>4. Plain
  BY <1>2, <1>3 DEF Plain, Before, UndisturbedTurns, TakingTurns
<1>5. Plain'
  BY <1>2, PlainNext DEF Before
<1> QED BY <1>1, <1>2, <1>3, <1>4, <1>5, PlainStutter DEF Settling

LEMMA RequestStutters ==
  ASSUME Before, TypeOK', NEW m \in net,
         HandlePropagateRequest(m) \/ HandleStatusRequest(m)
  PROVE  Stutter
<1>1. /\ m.type \in {"PropagateRequest", "StatusRequest"}
      /\ \A k \in net' : k.type \in {"PropagateReply", "StatusReply"}
      /\ UNCHANGED <<ledger, spent, link, cmd, settled>>
  BY HandlePropagateRequestTrue, HandleStatusRequestTrue
<1>2. Plain /\ m.op \in Threads /\ cmd[m.op].pc = "await"
  BY <1>1, PlainExchange
<1>3. Plain'
  BY <1>1, <1>2 DEF Plain
<1> QED BY <1>1, <1>2, <1>3, PlainStutter DEF Settling

\* Both ends compute the same merge.
LEMMA MergeCommutes ==
  ASSUME NEW l1, NEW s1, NEW l2, NEW s2
  PROVE  LinkUpMerge(l1, s1, l2, s2) = LinkUpMerge(l2, s2, l1, s1)
BY DEF LinkUpMerge

\* A LinkUp takes effect when the hello is handled.
LEMMA HelloLinks ==
  ASSUME Before, TypeOK', NEW m \in net, HandleLinkUpHello(m)
  PROVE  LET merged == LinkUpMerge(ledger[m.from], spent[m.from],
                                   ledger[m.to], spent[m.to])
         IN  /\ m.from \in Nodes /\ m.to \in Nodes /\ m.from # m.to
             /\ Ledgers = ledger /\ Links = link /\ Settled' = Settled
             /\ spent' = spent
             /\ Ledgers' = [ledger EXCEPT ![m.from] = merged, ![m.to] = merged]
             /\ Links' = [link EXCEPT ![m.from] = @ \cup {m.to},
                                      ![m.to] = @ \cup {m.from}]
<1> DEFINE merged == LinkUpMerge(ledger[m.from], spent[m.from],
                                 ledger[m.to], spent[m.to])
           after == LinkUpMerge(ledger'[m.from], spent'[m.from],
                                ledger[m.to], spent[m.to])
<1>1. /\ m.type = "LinkUpHello" /\ m.op \in Threads
      /\ m.from \in Nodes /\ m.to \in Nodes /\ m.from # m.to
      /\ cmd[m.op].todo = {} /\ At(m.op, "await", "LinkUp")
      /\ ledger' = [ledger EXCEPT ![m.to] =
           LinkUpMerge(ledger[m.to], spent[m.to], ledger[m.from], spent[m.from])]
      /\ link' = [link EXCEPT ![m.to] = @ \cup {m.from}]
      /\ net' = {Msg("LinkUpAck", m.op, m.to, m.from,
                     ledger[m.to], spent[m.to])}
      /\ UNCHANGED <<spent, cmd, settled>>
  BY HandleLinkUpHelloTrue
<1>2. PICK ack \in net' :
        /\ net' = {ack}
        /\ ack.type = "LinkUpAck" /\ ack.from = m.to /\ ack.to = m.from
        /\ ack.ledger = ledger[m.to] /\ ack.spent = spent[m.to]
  BY <1>1, MsgFields
<1>3. AckUnderWay(ack)'
  BY <1>1, <1>2 DEF AckUnderWay, Before, UndisturbedTurns, TakingTurns, At
<1>4. Ledgers = ledger /\ Links = link
  BY <1>1, PlainExchange, PlainMapping DEF Before
<1>5. /\ Ledgers' = [ledger' EXCEPT ![m.from] = after]
      /\ Links' = [link' EXCEPT ![m.from] = @ \cup {m.to}]
  BY <1>2, <1>3, AckMappingNext
<1>6. /\ after = merged
      /\ LinkUpMerge(ledger[m.to], spent[m.to], ledger[m.from], spent[m.from])
           = merged
  <2>1. ledger'[m.from] = ledger[m.from]
    BY <1>1 DEF Before, TypeOK
  <2>2. after = merged
    BY <1>1, <2>1
  <2> QED BY <2>2, MergeCommutes
<1>7. Settled' = Settled
  BY <1>1, SettledStays DEF Settling, At
<1>8. /\ Ledgers' = [ledger EXCEPT ![m.from] = merged, ![m.to] = merged]
      /\ Links' = [link EXCEPT ![m.from] = @ \cup {m.to},
                               ![m.to] = @ \cup {m.from}]
  <2>1. /\ ledger' = [ledger EXCEPT ![m.to] = merged]
        /\ Ledgers' = [ledger' EXCEPT ![m.from] = merged]
    BY <1>1, <1>5, <1>6
  <2>2. Links' = [link' EXCEPT ![m.from] = @ \cup {m.to}]
    BY <1>5
  <2>3. ledger \in [Nodes -> SUBSET Bearers] /\ link \in [Nodes -> SUBSET Nodes]
    BY DEF Before, TypeOK
  <2> HIDE DEF merged, after
  <2>4. Ledgers' = [ledger EXCEPT ![m.from] = merged, ![m.to] = merged]
    BY <1>1, <2>1, <2>3
  <2>5. Links' = [link EXCEPT ![m.from] = @ \cup {m.to},
                              ![m.to] = @ \cup {m.from}]
    BY <1>1, <2>2, <2>3
  <2> QED BY <2>4, <2>5
<1> QED BY <1>1, <1>4, <1>7, <1>8

\* The network computes its sets as the nodes do.
LEMMA SameComputations ==
  /\ \A l1, s1, l2, s2 :
       Centralised!LinkUpMerge(l1, s1, l2, s2) = LinkUpMerge(l1, s1, l2, s2)
  /\ \A l1, s1, l2 :
       Centralised!PropagateDeliverable(l1, s1, l2)
         = PropagateDeliverable(l1, s1, l2)
  /\ \A snaps : Centralised!BurnSet(snaps) = BurnSet(snaps)
  /\ \A snaps : Centralised!Conflicts(snaps) = Conflicts(snaps)
BY DEF Centralised!LinkUpMerge, LinkUpMerge,
       Centralised!PropagateDeliverable, PropagateDeliverable,
       Centralised!BurnSet, BurnSet, Centralised!Conflicts, Conflicts

LEMMA HelloStep ==
  ASSUME Before, TypeOK', Centralised!LinksSymmetric,
         NEW m \in net, HandleLinkUpHello(m)
  PROVE  Centralised!SerialNext
<1> DEFINE n == m.from
           p == m.to
           merged == LinkUpMerge(ledger[n], spent[n], ledger[p], spent[p])
<1>1. /\ n \in Nodes /\ p \in Nodes /\ n # p
      /\ Ledgers = ledger /\ Links = link /\ Settled' = Settled
      /\ spent' = spent
      /\ Ledgers' = [Ledgers EXCEPT ![n] = merged, ![p] = merged]
      /\ Links' = [Links EXCEPT ![n] = @ \cup {p}, ![p] = @ \cup {n}]
  BY HelloLinks
<1>2. merged = Centralised!LinkUpMerge(Ledgers[n], spent[n], Ledgers[p], spent[p])
  BY <1>1, SameComputations
<1> HIDE DEF n, p, merged
<1>3. CASE p \notin Links[n]
  <2>1. Centralised!LinkUp(n, p)
    BY <1>1, <1>2, <1>3 DEF Centralised!LinkUp
  <2> QED BY <1>1, <2>1 DEF Centralised!SerialNext
<1>4. CASE p \in Links[n]
  <2>1. n \in Links[p]
    BY <1>1, <1>4 DEF Centralised!LinksSymmetric
  <2>2. Links \in [Nodes -> SUBSET Nodes]
    BY <1>1 DEF Before, TypeOK
  <2>3. Links[n] \cup {p} = Links[n] /\ Links[p] \cup {n} = Links[p]
    BY <1>4, <2>1
  <2>4. Links' = Links
    BY <1>1, <2>2, <2>3
  <2>5. Centralised!Relink(n, p)
    BY <1>1, <1>2, <1>4, <2>4 DEF Centralised!Relink
  <2> QED BY <1>1, <2>5 DEF Centralised!SerialNext
<1> QED BY <1>3, <1>4

\* The initiator catches up with what the ack stood for.
LEMMA AckStutters ==
  ASSUME Before, TypeOK', NEW t \in Threads, ReceiveLinkUpAck(t)
  PROVE  Stutter
<1>1. UNCHANGED <<spent, settled>>
  BY DEF ReceiveLinkUpAck, history
<1>2. PICK m \in net :
        /\ net = {m} /\ m.type = "LinkUpAck" /\ net' = {}
        /\ cmd[t].todo = {}
        /\ ledger' = [ledger EXCEPT ![m.to] =
             LinkUpMerge(ledger[m.to], spent[m.to], m.ledger, m.spent)]
        /\ link' = [link EXCEPT ![m.to] = @ \cup {m.from}]
  BY ReceiveLinkUpAckTrue
<1>3. /\ At(t, "await", "LinkUp") /\ cmd'[t].todo = {}
      /\ At(t, "persist", "LinkUp")'
  BY ReceiveLinkUpAckTrue DEF ReceiveLinkUpAck
<1>4. AckUnderWay(m)
  BY <1>2, <1>3 DEF AckUnderWay, At, Before, UndisturbedTurns, TakingTurns
<1>5. Ledgers = ledger' /\ Links = link'
  BY <1>2, <1>4, AckMapping DEF Before
<1>6. Plain'
  BY <1>2, <1>3, PlainNext DEF At, Before
<1>7. Ledgers' = ledger' /\ Links' = link'
  BY <1>6, PlainMappingNext
<1>8. Settled' = Settled
  BY <1>1, <1>3, SettledStays DEF Settling, At
<1> QED BY <1>1, <1>5, <1>7, <1>8 DEF Stutter

\* A Propagate takes effect when the reply is applied, if there is one bearer
\* in it for the requester.
LEMMA PropagateStep ==
  ASSUME Before, TypeOK', NEW t \in Threads, ReceivePropagateReply(t)
  PROVE  Centralised!SerialNext \/ Stutter
<1>1. UNCHANGED <<spent, link, settled>>
  BY DEF ReceivePropagateReply, history
<1>2. PICK m \in net :
        /\ net = {m} /\ m.type = "PropagateReply" /\ m.op = t
        /\ m.to \in Nodes /\ m.from \in Nodes /\ net' = {}
        /\ m.ledger = ledger[m.from] /\ m.to \in link[m.from]
        /\ ledger' = [ledger EXCEPT ![m.to] =
             @ \cup PropagateDeliverable(@, spent[m.to], m.ledger)]
  BY ReceivePropagateReplyTrue
<1> DEFINE new == PropagateDeliverable(ledger[m.to], spent[m.to], m.ledger)
<1>3. /\ At(t, "await", "Propagate") /\ cmd'[t].todo = {}
      /\ At(t, "persist", "Propagate")'
  BY ReceivePropagateReplyTrue DEF ReceivePropagateReply
<1>4. Plain /\ Plain'
  BY <1>2, <1>3, PlainExchange, PlainNext DEF At, Before
<1>5. /\ Ledgers = ledger /\ Links = link
      /\ Ledgers' = ledger' /\ Links' = link'
  BY <1>4, PlainMapping, PlainMappingNext DEF Before
<1>6. Settled' = Settled
  BY <1>1, <1>3, SettledStays DEF Settling, At
<1>7. CASE new # {}
  <2>1. new = Centralised!PropagateDeliverable(Ledgers[m.to], spent[m.to],
                                               Ledgers[m.from])
    BY <1>2, <1>5, SameComputations
  <2>2. Ledgers' = [Ledgers EXCEPT ![m.to] = @ \cup new]
    BY <1>2, <1>5
  <2> HIDE DEF new
  <2>3. Centralised!Propagate(m.from, m.to)
    BY <1>1, <1>2, <1>5, <1>6, <1>7, <2>1, <2>2 DEF Centralised!Propagate
  <2> QED BY <1>2, <2>3 DEF Centralised!SerialNext
<1>8. CASE new = {}
  <2>1. ledger' = ledger
    BY <1>2, <1>8 DEF Before, TypeOK
  <2> QED BY <1>1, <1>5, <1>6, <2>1 DEF Stutter
<1> QED BY <1>7, <1>8

\* A LinkDown takes effect when it is sent.
LEMMA LinkDownLinks ==
  ASSUME Before, TypeOK', NEW t \in Threads, Free(t), NEW n \in Nodes,
         NEW p \in Peers(n), AdminLinkDown(t, n, p)
  PROVE  /\ Ledgers = ledger /\ Links = link /\ Ledgers' = ledger
         /\ spent' = spent /\ Settled' = Settled
         /\ Links' = [link EXCEPT ![n] = @ \ {p}, ![p] = @ \ {n}]
<1>1. net = {} /\ cmd[t].todo = {} /\ cmd[t].pc = "idle" /\ p \in Nodes /\ p # n
  BY FreeIsQuiet DEF Idle, Peers
<1>2. UNCHANGED <<ledger, spent, link, settled>>
  BY DEF AdminLinkDown, memory, history
<1>3. /\ cmd'[t].pc = "apply" /\ cmd'[t].kind = "LinkDown"
      /\ cmd'[t].node = n /\ cmd'[t].peer = p /\ cmd'[t].todo = {}
  BY AdminLinkDownTrue DEF At
<1>4. PICK m \in net' : /\ net' = {m} /\ m.type = "LinkDown"
                        /\ m.from = n /\ m.to = p
  BY AdminLinkDownTrue, MsgFields
<1>5. Ledgers = ledger /\ Links = link
  BY <1>1, PlainSilence, PlainMapping DEF Before
<1>6. Unlinking'
  BY <1>3, <1>4 DEF Unlinking, Before, UndisturbedTurns, TakingTurns
<1>7. /\ Ledgers' = ledger'
      /\ Links' = [x \in Nodes |->
           link'[x] \ ({k.from : k \in To(x, "LinkDown")'} \cup Applying(x)')]
  BY <1>6, UnlinkMappingNext
<1>8. ASSUME NEW x \in Nodes
      PROVE  /\ To(x, "LinkDown")' = IF x = p THEN {m} ELSE {}
             /\ Applying(x)' = IF x = n THEN {p} ELSE {}
  <2>1. To(x, "LinkDown")' = IF x = p THEN {m} ELSE {}
    BY <1>4 DEF To
  <2>2. Applying(x)' = IF x = n THEN {p} ELSE {}
    BY <1>3 DEF Applying, At, Before, UndisturbedTurns, TakingTurns
  <2> QED BY <2>1, <2>2
<1>9. Links' = [link EXCEPT ![n] = @ \ {p}, ![p] = @ \ {n}]
  <2>1. link \in [Nodes -> SUBSET Nodes] /\ link' = link
    BY <1>2 DEF Before, TypeOK
  <2>2. ASSUME NEW x \in Nodes
        PROVE  {k.from : k \in To(x, "LinkDown")'} = IF x = p THEN {n} ELSE {}
    BY <1>4, <1>8
  <2>3. ASSUME NEW x \in Nodes
        PROVE  Links'[x] = IF x = n THEN link[x] \ {p}
                           ELSE IF x = p THEN link[x] \ {n} ELSE link[x]
    BY <1>1, <1>7, <1>8, <2>1, <2>2
  <2>4. Links' = [x \in Nodes |-> Links'[x]]
    BY <1>7
  <2> QED BY <1>1, <2>1, <2>3, <2>4
<1>10. Settled' = Settled
  BY <1>1, <1>2, <1>3, SettledStays DEF Settling
<1> QED BY <1>2, <1>5, <1>7, <1>9, <1>10

\* Without a link the LinkDown changes nothing.
LEMMA LinkDownStep ==
  ASSUME Before, TypeOK', Centralised!LinksSymmetric,
         NEW t \in Threads, Free(t), NEW n \in Nodes, NEW p \in Peers(n),
         AdminLinkDown(t, n, p)
  PROVE  Centralised!SerialNext \/ Stutter
<1>1. /\ Ledgers' = Ledgers /\ spent' = spent /\ Settled' = Settled
      /\ Links' = [Links EXCEPT ![n] = @ \ {p}, ![p] = @ \ {n}]
      /\ Links \in [Nodes -> SUBSET Nodes] /\ p \in Nodes /\ p # n
  BY LinkDownLinks DEF Before, TypeOK, Peers
<1>2. CASE p \in Links[n]
  <2>1. Centralised!LinkDown(n, p)
    BY <1>1, <1>2 DEF Centralised!LinkDown
  <2> QED BY <1>1, <2>1 DEF Centralised!SerialNext
<1>3. CASE p \notin Links[n]
  <2>1. n \notin Links[p]
    BY <1>1, <1>3 DEF Centralised!LinksSymmetric
  <2>2. Links[n] \ {p} = Links[n] /\ Links[p] \ {n} = Links[p]
    BY <1>3, <2>1
  <2>3. Links' = Links
    BY <1>1, <2>2
  <2> QED BY <1>1, <2>3 DEF Stutter
<1> QED BY <1>2, <1>3

LEMMA ApplyLinkDownStutters ==
  ASSUME Before, TypeOK', NEW t \in Threads, ApplyLinkDown(t)
  PROVE  Stutter
<1> DEFINE n == cmd[t].node
           p == cmd[t].peer
<1>1. /\ UNCHANGED <<ledger, spent, net, settled>> /\ At(t, "apply", "LinkDown")
      /\ link' = [link EXCEPT ![n] = @ \ {p}]
  BY DEF ApplyLinkDown, history
<1>2. cmd[t].todo = {} /\ cmd'[t].todo = {} /\ n \in Nodes
      /\ At(t, "persist", "LinkDown")'
  BY ApplyLinkDownTrue
<1>3. \A m \in net : m.type = "LinkDown"
  <2> SUFFICES ASSUME NEW m \in net PROVE m.type = "LinkDown"
    OBVIOUS
  <2>1. MessageTrue(m) /\ m.op = t /\ m.type \in PeerMessages
    BY OneThread, MessageTypes DEF Before, SerialInv
  <2> QED BY <1>1, <2>1 DEF MessageTrue, AckTrue, At, PeerMessages
<1>4. Unlinking /\ Unlinking'
  BY <1>1, <1>2, <1>3 DEF Unlinking, Before, UndisturbedTurns, TakingTurns
<1>5. /\ Ledgers = ledger /\ Ledgers' = ledger'
      /\ Links = [x \in Nodes |->
           link[x] \ ({k.from : k \in To(x, "LinkDown")} \cup Applying(x))]
      /\ Links' = [x \in Nodes |->
           link'[x] \ ({k.from : k \in To(x, "LinkDown")'} \cup Applying(x)')]
  BY <1>4, UnlinkMapping, UnlinkMappingNext DEF Before
<1>6. ASSUME NEW x \in Nodes
      PROVE  /\ To(x, "LinkDown")' = To(x, "LinkDown")
             /\ Applying(x) = IF x = n THEN {p} ELSE {}
             /\ Applying(x)' = {}
  <2>1. To(x, "LinkDown")' = To(x, "LinkDown")
    BY <1>1 DEF To
  <2>2. Applying(x) = IF x = n THEN {p} ELSE {}
    BY <1>1 DEF Applying, At, Before, UndisturbedTurns, TakingTurns
  <2>3. Applying(x)' = {}
    BY <1>2 DEF Applying, At, Before, UndisturbedTurns, TakingTurns
  <2> QED BY <2>1, <2>2, <2>3
<1> HIDE DEF n, p
<1>7. ASSUME NEW x \in Nodes
      PROVE  link'[x] = IF x = n THEN link[x] \ {p} ELSE link[x]
  BY <1>1 DEF Before, TypeOK
<1>8. Links' = Links
  BY <1>5, <1>6, <1>7
<1>9. Settled' = Settled
  BY <1>1, <1>2, SettledStays DEF Settling, At
<1> QED BY <1>1, <1>5, <1>8, <1>9 DEF Stutter

LEMMA HandleLinkDownStutters ==
  ASSUME Before, TypeOK', NEW m \in net, HandleLinkDown(m)
  PROVE  Stutter
<1> DEFINE n == m.from
           p == m.to
<1>1. /\ net = {m} /\ m.type = "LinkDown" /\ m.op \in Threads
      /\ cmd[m.op].todo = {}
      /\ link' = [link EXCEPT ![p] = @ \ {n}] /\ net' = {}
      /\ UNCHANGED <<ledger, spent, cmd, settled>>
  BY HandleLinkDownTrue
<1>2. Unlinking /\ Unlinking'
  BY <1>1 DEF Unlinking, Before, UndisturbedTurns, TakingTurns
<1>3. /\ Ledgers = ledger /\ Ledgers' = ledger'
      /\ Links = [x \in Nodes |->
           link[x] \ ({k.from : k \in To(x, "LinkDown")} \cup Applying(x))]
      /\ Links' = [x \in Nodes |->
           link'[x] \ ({k.from : k \in To(x, "LinkDown")'} \cup Applying(x)')]
  BY <1>2, UnlinkMapping, UnlinkMappingNext DEF Before
<1>4. ASSUME NEW x \in Nodes
      PROVE  /\ {k.from : k \in To(x, "LinkDown")} = IF x = p THEN {n} ELSE {}
             /\ {k.from : k \in To(x, "LinkDown")'} = {}
             /\ Applying(x)' = Applying(x)
  <2>1. To(x, "LinkDown") = IF x = p THEN {m} ELSE {}
    BY <1>1 DEF To
  <2>2. To(x, "LinkDown")' = {}
    BY <1>1 DEF To
  <2>3. Applying(x)' = Applying(x)
    BY <1>1 DEF Applying, At
  <2> QED BY <2>1, <2>2, <2>3
<1> HIDE DEF n, p
<1>5. ASSUME NEW x \in Nodes
      PROVE  link'[x] = IF x = p THEN link[x] \ {n} ELSE link[x]
  BY <1>1 DEF Before, TypeOK
<1>6. Links' = Links
  <2>1. ASSUME NEW x \in Nodes
        PROVE  link'[x] \ ({k.from : k \in To(x, "LinkDown")'} \cup Applying(x)')
                 = link[x] \ ({k.from : k \in To(x, "LinkDown")} \cup Applying(x))
    <3>1. link'[x] \ Applying(x)
            = link[x] \ ({k.from : k \in To(x, "LinkDown")} \cup Applying(x))
      BY <1>4, <1>5
    <3> QED BY <3>1, <1>4
  <2> QED BY <2>1, <1>3, Zenon
<1>7. Settling(m.op)' = Settling(m.op) /\ cmd' = cmd
  BY <1>1 DEF Settling
<1>8. Settled' = Settled
  BY <1>1, <1>7 DEF Settled, Settling
<1> QED BY <1>1, <1>3, <1>6, <1>8 DEF Stutter

\* Notices to n that are under way or to be sent.
LEMMA LeavingStays ==
  ASSUME UNCHANGED <<ledger, link>>, TypeOK, TypeOK', Broadcasting, Broadcasting',
         \A n \in Nodes : Leaving(n)' = Leaving(n)
  PROVE  Ledgers' = Ledgers /\ Links' = Links
BY BroadcastMapping, BroadcastMappingNext

\* A command saves between two exchanges, when nothing it waits for is under
\* way.
LEMMA PersistStutters ==
  ASSUME Before, TypeOK', NEW t \in Threads, Persist(t)
  PROVE  Stutter
<1>1. /\ UNCHANGED <<ledger, spent, link, net, settled>> /\ CommandTrue(t)
      /\ cmd[t].pc = "persist" /\ cmd'[t].todo = cmd[t].todo
  BY PersistTrue DEF Persist, memory, history, Before, SerialInv
<1>2. CASE cmd[t].kind \in {"SpendAt", "ConversionDay"}
  <2>1. /\ cmd'[t].pc = "notify" /\ cmd'[t].kind = cmd[t].kind
        /\ cmd'[t].seen = cmd[t].seen /\ net = {}
    BY <1>1, <1>2, PersistTrue, Silence
  <2>2. Broadcasting /\ Broadcasting'
    BY <1>1, <2>1 DEF Broadcasting, Before, UndisturbedTurns, TakingTurns
  <2>3. \A n \in Nodes : Leaving(n)' = Leaving(n)
    BY <1>1, <2>1 DEF Leaving, To, Before, UndisturbedTurns, TakingTurns
  <2>4. Ledgers' = Ledgers /\ Links' = Links
    BY <1>1, <2>2, <2>3, LeavingStays DEF Before
  <2>5. Settling(t)' = Settling(t) /\ Threads = {t}
    BY <1>1, <2>1, OneThread DEF Settling
  <2>6. Settled' = Settled
    BY <1>1, <2>1, <2>5, SettledMapping, SettledMappingNext
  <2> QED BY <1>1, <2>4, <2>6 DEF Stutter
<1>3. CASE cmd[t].kind \notin {"SpendAt", "ConversionDay"}
  <2>1. cmd'[t].pc = "idle" /\ cmd'[t].kind = "none" /\ cmd[t].todo = {}
    BY <1>1, <1>3, PersistTrue DEF CommandTrue
  <2>2. \A m \in net : m.type = "LinkDown"
    <3> SUFFICES ASSUME NEW m \in net PROVE m.type = "LinkDown"
      OBVIOUS
    <3>1. MessageTrue(m) /\ m.op = t /\ m.type \in PeerMessages
      BY OneThread, MessageTypes DEF Before, SerialInv
    <3> QED BY <1>1, <3>1 DEF MessageTrue, AckTrue, At, PeerMessages
  <2>3. Unlinking /\ Unlinking'
    BY <1>1, <2>1, <2>2 DEF Unlinking, Before, UndisturbedTurns, TakingTurns
  <2>4. \A x \in Nodes : /\ Applying(x) = {} /\ Applying(x)' = {}
                         /\ To(x, "LinkDown")' = To(x, "LinkDown")
    BY <1>1, <2>1 DEF Applying, To, At, Before, UndisturbedTurns, TakingTurns
  <2>5. Ledgers' = Ledgers /\ Links' = Links
    BY <1>1, <2>3, <2>4, UnlinkMapping, UnlinkMappingNext DEF Before
  <2>6. Settled' = Settled
    BY <1>1, <1>3, <2>1, SettledStays DEF Settling
  <2> QED BY <1>1, <2>5, <2>6 DEF Stutter
<1> QED BY <1>2, <1>3

LEMMA NoticesAnd ==
  ASSUME NEW S, NEW k
  PROVE  UNION {m.spent : m \in S \cup {k}}
           = (UNION {m.spent : m \in S}) \cup k.spent
<1>1. ASSUME NEW x
      PROVE  x \in UNION {m.spent : m \in S \cup {k}}
               <=> x \in UNION {m.spent : m \in S} \/ x \in k.spent
  OBVIOUS
<1> QED BY <1>1

\* From the list of notices to send to the notices under way.
LEMMA NotifyStutters ==
  ASSUME Before, TypeOK', NEW t \in Threads, Notify(t)
  PROVE  Stutter
<1>1. UNCHANGED <<ledger, spent, link, settled>> /\ Threads = {t}
  BY OneThread DEF Notify, memory, history
<1>2. PICK d \in cmd[t].todo :
        /\ net' = net \cup {Msg("SpentNotify", t, cmd[t].node, d[1], {}, {d[2]})}
        /\ cmd'[t].todo = cmd[t].todo \ {d}
  BY NotifyTrue
<1>3. /\ cmd[t].pc = "notify" /\ cmd'[t].pc = "notify"
      /\ cmd'[t].kind = cmd[t].kind /\ cmd'[t].seen = cmd[t].seen
      /\ \A m \in net : m.type = "SpentNotify"
  BY NotifyTrue
<1>4. PICK k \in net' : /\ net' = net \cup {k} /\ k.type = "SpentNotify"
                        /\ k.to = d[1] /\ k.spent = {d[2]}
  <2> DEFINE s == Msg("SpentNotify", t, cmd[t].node, d[1], {}, {d[2]})
  <2>1. s.type = "SpentNotify" /\ s.to = d[1] /\ s.spent = {d[2]}
    BY MsgFields
  <2>2. net' = net \cup {s} /\ s \in net'
    BY <1>2
  <2> HIDE DEF s
  <2> QED BY <2>1, <2>2
<1>5. Broadcasting /\ Broadcasting'
  BY <1>1, <1>3, <1>4 DEF Broadcasting
<1>6. cmd[t].todo \subseteq Nodes \X Bearers
  BY DEF Before, TypeOK, Command
<1>7. PICK x \in Nodes, b \in Bearers : d = <<x, b>>
  BY <1>6
<1>8. ASSUME NEW n \in Nodes PROVE Leaving(n)' = Leaving(n)
  <2>1. To(n, "SpentNotify")' = IF n = x THEN To(n, "SpentNotify") \cup {k}
                                         ELSE To(n, "SpentNotify")
    BY <1>4, <1>7 DEF To
  <2>2. UNION {m.spent : m \in To(n, "SpentNotify")'}
          = (UNION {m.spent : m \in To(n, "SpentNotify")})
              \cup (IF n = x THEN {b} ELSE {})
    <3>1. CASE n = x
      BY <1>4, <1>7, <2>1, <3>1, NoticesAnd
    <3>2. CASE n # x
      BY <2>1, <3>2
    <3> QED BY <3>1, <3>2
  <2>3. {c \in Bearers : \E u \in Threads : <<n, c>> \in cmd[u].todo}
          = {c \in Bearers : \E u \in Threads : <<n, c>> \in cmd'[u].todo}
              \cup (IF n = x THEN {b} ELSE {})
    BY <1>1, <1>2, <1>7
  <2> QED BY <2>2, <2>3 DEF Leaving
<1>9. Ledgers' = Ledgers /\ Links' = Links
  BY <1>1, <1>5, <1>8, LeavingStays DEF Before
<1>10. Settled' = Settled
  BY <1>1, <1>3, SettledMapping, SettledMappingNext DEF Settling
<1> QED BY <1>1, <1>9, <1>10 DEF Stutter

\* A notice that is handled was handled already.
LEMMA NoticeStutters ==
  ASSUME Before, TypeOK', NEW m \in net, HandleSpentNotify(m)
  PROVE  Stutter
<1>1. /\ \A k \in net : k.type = "SpentNotify"
      /\ m.to \in Nodes /\ cmd[m.op].pc # "apply"
      /\ ledger' = [ledger EXCEPT ![m.to] = @ \ m.spent]
      /\ net' = net \ {m}
      /\ UNCHANGED <<spent, link, cmd, settled>>
  BY HandleSpentNotifyTrue
<1>2. Broadcasting /\ Broadcasting'
  BY <1>1, MessageTypes DEF Broadcasting, Before, UndisturbedTurns, TakingTurns
<1>3. /\ Ledgers = [n \in Nodes |-> ledger[n] \ Leaving(n)]
      /\ Ledgers' = [n \in Nodes |-> ledger'[n] \ Leaving(n)']
      /\ Links = link /\ Links' = link'
  BY <1>2, BroadcastMapping, BroadcastMappingNext DEF Before
<1>4. ASSUME NEW n \in Nodes
      PROVE  Leaving(n) = Leaving(n)' \cup (IF n = m.to THEN m.spent ELSE {})
  <2>1. CASE n = m.to
    <3>1. To(n, "SpentNotify") = To(n, "SpentNotify")' \cup {m}
      BY <1>1, <2>1 DEF To
    <3>2. UNION {k.spent : k \in To(n, "SpentNotify")}
            = (UNION {k.spent : k \in To(n, "SpentNotify")'}) \cup m.spent
      <4> DEFINE before == To(n, "SpentNotify")
                 after == To(n, "SpentNotify")'
      <4>1. before = after \cup {m}
        BY <3>1
      <4> HIDE DEF before, after
      <4>2. UNION {k.spent : k \in before} = (UNION {k.spent : k \in after})
                                                    \cup m.spent
        BY <4>1, NoticesAnd
      <4> QED BY <4>2 DEF before, after
    <3> QED BY <1>1, <2>1, <3>2 DEF Leaving
  <2>2. CASE n # m.to
    <3>1. To(n, "SpentNotify") = To(n, "SpentNotify")'
      BY <1>1, <2>2 DEF To
    <3> QED BY <1>1, <2>2, <3>1 DEF Leaving
  <2> QED BY <2>1, <2>2
<1>5. ASSUME NEW n \in Nodes
      PROVE  ledger'[n] = ledger[n] \ (IF n = m.to THEN m.spent ELSE {})
  BY <1>1 DEF Before, TypeOK
<1>6. ASSUME NEW n \in Nodes
      PROVE  ledger'[n] \ Leaving(n)' = ledger[n] \ Leaving(n)
  BY <1>4, <1>5
<1>7. Ledgers' = Ledgers /\ Links' = Links
  BY <1>1, <1>3, <1>6
<1>8. Settled' = Settled
  BY <1>1 DEF Settled, Settling
<1> QED BY <1>1, <1>7, <1>8 DEF Stutter

\* The answer to a ConversionDay is what counted already.
LEMMA AnswerStutters ==
  ASSUME Before, TypeOK', NEW t \in Threads, Answer(t)
  PROVE  Stutter
<1>1. /\ UNCHANGED <<ledger, spent, link, net>> /\ Threads = {t}
      /\ settled' = IF cmd[t].kind = "ConversionDay"
                      THEN settled \cup BurnSet(cmd[t].seen)
                      ELSE settled
  BY OneThread DEF Answer, memory
<1>2. /\ cmd[t].pc = "notify" /\ cmd'[t].pc = "idle"
      /\ cmd[t].todo = {} /\ cmd'[t].todo = {} /\ cmd'[t].kind = "none"
      /\ \A m \in net : m.type = "SpentNotify"
  BY AnswerTrue
<1>3. Broadcasting /\ Broadcasting'
  BY <1>1, <1>2 DEF Broadcasting
<1>4. \A n \in Nodes : Leaving(n)' = Leaving(n)
  BY <1>1, <1>2 DEF Leaving, To
<1>5. Ledgers' = Ledgers /\ Links' = Links
  BY <1>1, <1>3, <1>4, LeavingStays DEF Before
<1>6. Settled' = Settled
  BY <1>1, <1>2, SettledMapping, SettledMappingNext DEF Settling
<1> QED BY <1>1, <1>5, <1>6 DEF Stutter

\* A SpendAt takes effect when the bearer leaves the ledger.
LEMMA SpendStep ==
  ASSUME Before, TypeOK', NEW t \in Threads, Free(t), NEW n \in Nodes,
         NEW b \in Bearers, AdminSpendAt(t, n, b)
  PROVE  Centralised!SerialNext
<1>1. net = {} /\ cmd[t].todo = {} /\ cmd[t].pc = "idle" /\ Threads = {t}
  BY FreeIsQuiet, OneThread DEF Idle
<1>2. /\ b \in ledger[n]
      /\ spent' = [spent EXCEPT ![n] = @ \cup {b}]
      /\ ledger' = [ledger EXCEPT ![n] = @ \ {b}]
      /\ UNCHANGED <<link, settled>>
  BY DEF AdminSpendAt
<1>3. /\ net' = {} /\ cmd'[t].todo = link[n] \X {b}
      /\ cmd'[t].pc = "persist" /\ cmd'[t].kind = "SpendAt"
  BY AdminSpendAtTrue
<1>4. Ledgers = ledger /\ Links = link
  BY <1>1, PlainSilence, PlainMapping DEF Before
<1>5. Broadcasting'
  BY <1>1, <1>3 DEF Broadcasting
<1>6. /\ Ledgers' = [x \in Nodes |-> ledger'[x] \ Leaving(x)'] /\ Links' = link'
  BY <1>5, BroadcastMappingNext
<1>7. ASSUME NEW x \in Nodes
      PROVE  Leaving(x)' = IF x \in link[n] THEN {b} ELSE {}
  <2>1. To(x, "SpentNotify")' = {}
    BY <1>3 DEF To
  <2>2. Leaving(x)' = {c \in Bearers : <<x, c>> \in link[n] \X {b}}
    BY <1>1, <1>3, <2>1 DEF Leaving
  <2> QED BY <2>2
<1>8. Ledgers' = [x \in Nodes |-> IF x \in Links[n] \cup {n}
                                    THEN Ledgers[x] \ {b}
                                    ELSE Ledgers[x]]
  BY <1>2, <1>4, <1>6, <1>7 DEF Before, TypeOK
<1>9. Settled' = Settled
  BY <1>1, <1>2, <1>3, SettledStays DEF Settling
<1>10. Centralised!SpendAt(n, b)
  BY <1>2, <1>4, <1>6, <1>8, <1>9 DEF Centralised!SpendAt
<1> QED BY <1>10 DEF Centralised!SerialNext

\* A ConversionDay takes effect, at every node at once, when it burns.
LEMMA BurnStep ==
  ASSUME Before, TypeOK', NEW t \in Threads, Burn(t)
  PROVE  Centralised!SerialNext
<1> DEFINE n == cmd[t].node
           burn == BurnSet(spent)
<1>1. /\ net = {} /\ net' = {} /\ cmd[t].todo = {} /\ n \in Nodes
      /\ cmd[t].seen = spent /\ cmd'[t].seen = spent
      /\ cmd'[t].todo = Peers(n) \X burn
      /\ cmd'[t].pc = "persist" /\ cmd'[t].kind = "ConversionDay"
      /\ Threads = {t}
  BY BurnTrue, OneThread
<1>2. /\ cmd[t].pc = "gather" /\ Conflicts(spent) = {}
      /\ ledger' = [ledger EXCEPT ![n] = @ \ burn]
      /\ UNCHANGED <<spent, link, settled>>
  BY <1>1 DEF Burn, Gathered, At, history
<1>3. burn \subseteq Bearers
  BY BurnTyped DEF Before, TypeOK
<1> HIDE DEF n, burn
<1>4. Ledgers = ledger /\ Links = link
  BY <1>1, <1>2, PlainSilence, PlainMapping DEF Before
<1>5. Broadcasting'
  BY <1>1 DEF Broadcasting
<1>6. /\ Ledgers' = [x \in Nodes |-> ledger'[x] \ Leaving(x)'] /\ Links' = link'
  BY <1>5, BroadcastMappingNext
<1>7. ASSUME NEW x \in Nodes
      PROVE  Leaving(x)' = IF x # n THEN burn ELSE {}
  <2>1. To(x, "SpentNotify")' = {}
    BY <1>1 DEF To
  <2>2. Leaving(x)' = {c \in Bearers : <<x, c>> \in Peers(n) \X burn}
    BY <1>1, <2>1 DEF Leaving
  <2> QED BY <1>3, <2>2 DEF Peers
<1>8. Ledgers' = [x \in Nodes |-> Ledgers[x] \ burn]
  BY <1>2, <1>4, <1>6, <1>7 DEF Before, TypeOK
<1>9. Settled' = Settled \cup burn
  <2>1. ~Settling(t) /\ Settling(t)'
    BY <1>1, <1>2 DEF Settling
  <2>2. Settled = settled /\ Settled' = settled' \cup BurnSet(cmd'[t].seen)
    BY <1>1, <2>1, SettledMapping, SettledMappingNext
  <2> QED BY <1>1, <1>2, <2>2 DEF burn
<1>10. [x \in Nodes |-> spent[x]] = spent
  BY DEF Before, TypeOK
<1>11. Centralised!ConversionDay(Nodes)
  BY <1>2, <1>4, <1>6, <1>8, <1>9, <1>10, SameComputations
  DEF Centralised!ConversionDay, burn
<1> QED BY <1>11 DEF Centralised!SerialNext

\* A Seed takes effect at once.
LEMMA SeedStep ==
  ASSUME Before, TypeOK', OnlyIssued, NEW t \in Threads, Free(t), NEW n \in Nodes,
         NEW b \in Bearers \ issued, AdminSeed(t, n, b)
  PROVE  Centralised!SerialNext
<1>1. net = {} /\ cmd[t].todo = {} /\ cmd[t].pc = "idle"
  BY FreeIsQuiet DEF Idle
<1>2. /\ ledger' = [ledger EXCEPT ![n] = @ \cup {b}]
      /\ UNCHANGED <<spent, link, settled>>
  BY DEF AdminSeed
<1>3. /\ net' = {} /\ cmd'[t].todo = {}
      /\ cmd'[t].pc = "persist" /\ cmd'[t].kind = "Seed"
  BY AdminSeedTrue
<1>4. Plain /\ Plain'
  BY <1>1, <1>3, PlainSilence, PlainNext DEF Before
<1>5. /\ Ledgers = ledger /\ Links = link
      /\ Ledgers' = ledger' /\ Links' = link'
  BY <1>4, PlainMapping, PlainMappingNext DEF Before
<1>6. Settled' = Settled
  BY <1>1, <1>2, <1>3, SettledStays DEF Settling
<1>7. Centralised!Seed(n, b)
  BY <1>2, <1>5, <1>6 DEF Centralised!Seed, OnlyIssued
<1> QED BY <1>7 DEF Centralised!SerialNext

LEMMA NothingStutters ==
  ASSUME UNCHANGED vars
  PROVE  Stutter
<1>1. UNCHANGED <<ledger, spent, link, cmd, net, settled>>
  BY DEF vars, memory, history
<1>2. Ledgers' = Ledgers
  BY <1>1 DEF Ledgers, LedgerOf, Leaving, To
<1>3. Links' = Links
  BY <1>1 DEF Links, LinkOf, To, At
<1>4. Settled' = Settled
  BY <1>1 DEF Settled, Settling
<1> QED BY <1>1, <1>2, <1>3, <1>4 DEF Stutter

LEMMA AdminRefines ==
  ASSUME Before, TypeOK', OnlyIssued, Centralised!LinksSymmetric,
         NEW t \in Threads, Admin(t)
  PROVE  Centralised!SerialNext \/ Stutter
<1>1. Seedable \subseteq Bearers \ issued
  BY DEF Seedable, Before, UndisturbedTurns
<1> QED BY <1>1, AdminStutters, LinkDownStep, SpendStep, SeedStep DEF Admin

LEMMA ContinueRefines ==
  ASSUME Before, TypeOK', NEW t \in Threads, Continue(t)
  PROVE  Centralised!SerialNext \/ Stutter
BY AckStutters, PropagateStep, ApplyLinkDownStutters, ContinueStutters, BurnStep,
   PersistStutters, NotifyStutters, AnswerStutters
DEF Continue

LEMMA HandlerRefines ==
  ASSUME Before, TypeOK', Centralised!LinksSymmetric,
         NEW m \in net, HandlePeerMessage(m)
  PROVE  Centralised!SerialNext \/ Stutter
BY HelloStep, HandleLinkDownStutters, RequestStutters, NoticeStutters
DEF HandlePeerMessage

LEMMA StepRefines ==
  ASSUME Before, TypeOK', OnlyIssued, Centralised!LinksSymmetric, [Next]_vars
  PROVE  Centralised!SerialNext \/ Stutter
BY FaultlessStep, AdminRefines, ContinueRefines, HandlerRefines, NothingStutters

\* Before the first command nothing is under way, and every bearer is where
\* the network has it.
LEMMA InitRefines == Init => Centralised!SerialInit
<1> SUFFICES ASSUME Init PROVE Centralised!SerialInit
  OBVIOUS
<1>1. /\ net = {} /\ settled = {} /\ spent = [n \in Nodes |-> {}]
      /\ link = [n \in Nodes |-> {}] /\ cmd = [t \in Threads |-> Idle]
  BY DEF Init
<1>2. Plain /\ \A t \in Threads : ~Settling(t)
  BY <1>1 DEF Plain, Settling, Idle
<1>3. Ledgers = ledger /\ Links = link
  BY <1>2, InitTyped, PlainMapping
<1>4. Settled = {}
  BY <1>1, <1>2 DEF Settled
<1>5. PICK home \in [Bearers -> Nodes \cup {None}] :
        ledger = [n \in Nodes |-> {b \in Bearers : home[b] = n}]
  BY DEF Init
<1> DEFINE homes == [b \in Bearers |-> {home[b]} \cap Nodes]
<1>6. homes \in [Bearers -> {{n} : n \in Nodes} \cup {{}}]
  BY NoneAssumption
<1>7. ledger = [n \in Nodes |-> {b \in Bearers : n \in homes[b]}]
  BY <1>5
<1> HIDE DEF homes
<1> QED BY <1>1, <1>3, <1>4, <1>6, <1>7 DEF Centralised!SerialInit

-----------------------------------------------------------------------------
(* What is proved of the network holds of the nodes *)

Proved ==
  INSTANCE NetworkProofs WITH ledger <- Ledgers, link <- Links, settled <- Settled

\* The network of NetworkProofs is the network of NodesAsNetwork.
LEMMA SameNetwork ==
  /\ Centralised!SerialInit <=> Proved!SerialInit
  /\ Centralised!SerialNext <=> Proved!SerialNext
  /\ Stutter <=> UNCHANGED Centralised!vars
  /\ Stutter <=> UNCHANGED Proved!vars
  /\ Centralised!LinksSymmetric <=> Proved!LinksSymmetric
<1>1. Centralised!SerialInit <=> Proved!SerialInit
  BY DEF Centralised!SerialInit, Proved!SerialInit
<1>2. Centralised!SerialNext <=> Proved!SerialNext
  BY DEF Centralised!SerialNext, Proved!SerialNext,
         Centralised!LinkDown, Proved!LinkDown,
         Centralised!LinkUp, Proved!LinkUp,
         Centralised!Relink, Proved!Relink,
         Centralised!LinkUpMerge, Proved!LinkUpMerge,
         Centralised!Propagate, Proved!Propagate,
         Centralised!PropagateDeliverable, Proved!PropagateDeliverable,
         Centralised!SpendAt, Proved!SpendAt,
         Centralised!Seed, Proved!Seed,
         Centralised!ConversionDay, Proved!ConversionDay,
         Centralised!Conflicts, Proved!Conflicts,
         Centralised!BurnSet, Proved!BurnSet
<1>3. /\ Stutter <=> UNCHANGED Centralised!vars
      /\ Stutter <=> UNCHANGED Proved!vars
  BY DEF Stutter, Centralised!vars, Proved!vars
<1>4. Centralised!LinksSymmetric <=> Proved!LinksSymmetric
  BY DEF Centralised!LinksSymmetric, Proved!LinksSymmetric
<1> QED BY <1>1, <1>2, <1>3, <1>4

LEMMA InvariantCarriesOver ==
  ASSUME UndisturbedTurns
  PROVE  Spec => []Proved!NetworkInv /\ [][Centralised!SerialNext]_Centralised!vars
<1>1. Init => Proved!NetworkInv
  BY InitRefines, SameNetwork, Proved!SerialInitInv
<1>2. Before /\ TypeOK' /\ OnlyIssued /\ Proved!NetworkInv /\ [Next]_vars
        => Proved!NetworkInv' /\ [Centralised!SerialNext]_Centralised!vars
  <2> SUFFICES ASSUME Before, TypeOK', OnlyIssued, Proved!NetworkInv, [Next]_vars
               PROVE  /\ Proved!NetworkInv'
                      /\ [Centralised!SerialNext]_Centralised!vars
    OBVIOUS
  <2>1. Centralised!LinksSymmetric
    BY SameNetwork DEF Proved!NetworkInv
  <2>2. Centralised!SerialNext \/ Stutter
    BY <2>1, StepRefines
  <2>3. [Proved!SerialNext]_Proved!vars
    BY <2>2, SameNetwork
  <2> QED BY <2>2, <2>3, SameNetwork, Proved!SerialStepInv
<1>3. Before => TypeOK
  BY DEF Before
<1> QED BY <1>1, <1>2, <1>3, SerialInvHolds, IssuedOnly, PTL DEF Spec

-----------------------------------------------------------------------------
(* The theorems *)

\* One command at a time and without faults the distributed nodes implement
\* the centralised network: every handler and every step of an admin thread
\* is an operation of network.rs or conversion_day.rs on the network of
\* NodesAsNetwork, or changes nothing there ("mirrors network.rs::link_up",
\* shared_state.rs).
THEOREM NodesImplementNetwork ==
  ASSUME UndisturbedTurns
  PROVE  Spec => ImplementsNetwork
BY InvariantCarriesOver, InitRefines, PTL
DEF Spec, ImplementsNetwork, Centralised!SerialSpec

\* Between commands the nodes are the network.
LEMMA QuietMapping ==
  ASSUME Before, Quiet
  PROVE  Ledgers = ledger /\ Links = link /\ settled \subseteq Settled
<1>1. Plain
  BY OneThread DEF Quiet, Plain, Idle
<1>2. settled \subseteq Settled
  BY DEF Settled
<1> QED BY <1>1, <1>2, PlainMapping DEF Before

\* The two ends of a link agree between commands: LinkUpHello with its ack,
\* and LinkDown, change both (peer_protocol.rs).
THEOREM LinksAgreeBetweenCommands ==
  ASSUME UndisturbedTurns
  PROVE  Spec => []LinksAgree
<1>1. Before /\ Proved!NetworkInv => LinksAgree
  <2> SUFFICES ASSUME Before, Proved!NetworkInv, Quiet,
                      NEW n \in Nodes, NEW p \in Nodes
               PROVE  p \in link[n] <=> n \in link[p]
    BY DEF LinksAgree
  <2>1. Links = link
    BY QuietMapping
  <2> QED BY <2>1 DEF Proved!NetworkInv, Proved!LinksSymmetric
<1> QED BY <1>1, InvariantCarriesOver, SerialInvHolds, PTL

\* What a ConversionDay has settled is gone from every node between commands,
\* for good: that the network's settlements are final carries over
\* (the ConversionDay branch of handle_admin_command, handle_spent_notify).
THEOREM SettledIsGoneBetweenCommands ==
  ASSUME UndisturbedTurns
  PROVE  Spec => []SettledIsGone
<1>1. Before /\ Proved!NetworkInv => SettledIsGone
  <2> SUFFICES ASSUME Before, Proved!NetworkInv, Quiet, NEW n \in Nodes
               PROVE  ledger[n] \cap settled = {}
    BY DEF SettledIsGone
  <2>1. Ledgers = ledger /\ settled \subseteq Settled
    BY QuietMapping
  <2> QED BY <2>1 DEF Proved!NetworkInv, Proved!SettledIsFinal
<1> QED BY <1>1, InvariantCarriesOver, SerialInvHolds, PTL
=============================================================================
