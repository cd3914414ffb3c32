--------------------------- MODULE HabiNodeProofs ---------------------------
(***************************************************************************)
(* What holds of the distributed node for any number of nodes, bearers and *)
(* admin threads.                                                          *)
(***************************************************************************)
EXTENDS HabiNode, TLAPS

-----------------------------------------------------------------------------
(* Typing *)

LEMMA IdleTyped == Idle \in Command /\ Idle.pc = "idle" /\ Idle.kind = "none"
BY DEF Idle, Command, Steps, Fresh, NodeState

\* The operators that update a thread's command keep it a command.
LEMMA BeginTyped ==
  ASSUME NEW t \in Threads, NEW n \in Nodes, NEW kind \in Commands,
         NEW pc \in Steps
  PROVE  Begin(t, pc, kind, n) \in Command
BY DEF Begin, Idle, Command, Steps, Fresh, NodeState

\* A command that begins is at its first step and has nothing gathered.
LEMMA BeginFields ==
  ASSUME NEW t \in Threads, NEW n \in Nodes, NEW kind \in Commands,
         NEW pc \in Steps
  PROVE  /\ Begin(t, pc, kind, n).pc = pc
         /\ Begin(t, pc, kind, n).kind = kind
         /\ Begin(t, pc, kind, n).node = n
         /\ Begin(t, pc, kind, n).missing = {}
         /\ Begin(t, pc, kind, n).seen = [m \in Nodes |-> {}]
BY DEF Begin, Idle

LEMMA UpdateTyped ==
  ASSUME TypeOK, NEW t \in Threads, NEW c \in Command,
         cmd' = [cmd EXCEPT ![t] = c]
  PROVE  cmd' \in [Threads -> Command]
BY DEF TypeOK

LEMMA GotoTyped ==
  ASSUME TypeOK, NEW t \in Threads, NEW pc \in Steps, Goto(t, pc)
  PROVE  cmd' \in [Threads -> Command]
<1> DEFINE c == cmd[t]
<1>1. c \in Command
  BY DEF TypeOK
<1>2. [c EXCEPT !.pc = pc] \in Command
  <2> HIDE DEF c
  <2> QED BY <1>1 DEF Command
<1> QED BY <1>2, UpdateTyped DEF Goto

LEMMA FinishTyped ==
  ASSUME TypeOK, NEW t \in Threads, Finish(t)
  PROVE  cmd' \in [Threads -> Command]
BY IdleTyped DEF TypeOK, Finish

LEMMA MsgTyped ==
  ASSUME NEW type \in PeerMessages, NEW t \in Threads,
         NEW from \in Nodes, NEW to \in Nodes,
         NEW led \in SUBSET Bearers, NEW spt \in SUBSET Bearers
  PROVE  Msg(type, t, from, to, led, spt) \in Message
BY DEF Msg, Message

\* The merge, the deliverable set and the burn set hold bearers only.
LEMMA MergeTyped ==
  ASSUME NEW l1 \in SUBSET Bearers, NEW s1 \in SUBSET Bearers,
         NEW l2 \in SUBSET Bearers, NEW s2 \in SUBSET Bearers
  PROVE  /\ LinkUpMerge(l1, s1, l2, s2) \in SUBSET Bearers
         /\ PropagateDeliverable(l1, s1, l2) \in SUBSET Bearers
BY DEF LinkUpMerge, PropagateDeliverable

LEMMA BurnTyped ==
  ASSUME NEW snaps \in [Nodes -> SUBSET Bearers]
  PROVE  /\ BurnSet(snaps) \in SUBSET Bearers
         /\ Conflicts(snaps) \in SUBSET Bearers
BY DEF BurnSet, Conflicts

\* The start of every admin command keeps the types.
LEMMA AdminTyped ==
  ASSUME TypeOK, NEW t \in Threads, Admin(t)
  PROVE  TypeOK'
<1> USE DEF TypeOK, memory, history
<1>1. ASSUME NEW n \in Nodes, NEW p \in Peers(n), AdminLinkUp(t, n, p)
      PROVE  TypeOK'
  <2>1. p \in Nodes
    BY DEF Peers
  <2>2. Begin(t, "await", "LinkUp", n) \in Command
    BY BeginTyped DEF Commands, Steps
  <2>3. [ledger |-> ledger[n], spent |-> spent[n]] \in NodeState
    BY DEF NodeState
  <2>4. cmd' \in [Threads -> Command]
    BY <1>1, <2>1, <2>2, <2>3 DEF AdminLinkUp, Command
  <2>5. net' \in SUBSET Message
    <3>1. Msg("LinkUpHello", t, n, p, ledger[n], spent[n]) \in Message
      BY <2>1, MsgTyped DEF PeerMessages
    <3> QED BY <1>1, <3>1 DEF AdminLinkUp, Send
  <2> QED BY <1>1, <2>4, <2>5 DEF AdminLinkUp
<1>2. ASSUME NEW n \in Nodes, NEW p \in Peers(n), AdminLinkDown(t, n, p)
      PROVE  TypeOK'
  <2>1. p \in Nodes
    BY DEF Peers
  <2>2. Begin(t, "apply", "LinkDown", n) \in Command
    BY BeginTyped DEF Commands, Steps
  <2>3. cmd' \in [Threads -> Command]
    BY <1>2, <2>1, <2>2 DEF AdminLinkDown, Command
  <2>4. net' \in SUBSET Message
    <3>1. Msg("LinkDown", t, n, p, {}, {}) \in Message
      BY <2>1, MsgTyped DEF PeerMessages
    <3> QED BY <1>2, <3>1 DEF AdminLinkDown, Send
  <2> QED BY <1>2, <2>3, <2>4 DEF AdminLinkDown
<1>3. ASSUME NEW n \in Nodes, NEW p \in Peers(n), AdminPropagate(t, n, p)
      PROVE  TypeOK'
  <2>1. p \in Nodes
    BY DEF Peers
  <2>2. Begin(t, "await", "Propagate", n) \in Command
    BY BeginTyped DEF Commands, Steps
  <2>3. cmd' \in [Threads -> Command]
    BY <1>3, <2>1, <2>2 DEF AdminPropagate, Command
  <2>4. net' \in SUBSET Message
    <3>1. Msg("PropagateRequest", t, n, p, {}, {}) \in Message
      BY <2>1, MsgTyped DEF PeerMessages
    <3> QED BY <1>3, <3>1 DEF AdminPropagate, Send
  <2> QED BY <1>3, <2>3, <2>4 DEF AdminPropagate
<1>4. ASSUME NEW n \in Nodes, NEW b \in Bearers, AdminSpendAt(t, n, b)
      PROVE  TypeOK'
  <2>1. Begin(t, "persist", "SpendAt", n) \in Command
    BY BeginTyped DEF Commands, Steps
  <2>2. link[n] \X {b} \in SUBSET (Nodes \X Bearers)
    OBVIOUS
  <2>3. cmd' \in [Threads -> Command]
    BY <1>4, <2>1, <2>2 DEF AdminSpendAt, Command
  <2> QED BY <1>4, <2>3 DEF AdminSpendAt
<1>5. ASSUME NEW n \in Nodes, NEW b \in Bearers, AdminSeed(t, n, b)
      PROVE  TypeOK'
  <2>1. Begin(t, "persist", "Seed", n) \in Command
    BY BeginTyped DEF Commands, Steps
  <2> QED BY <1>5, <2>1 DEF AdminSeed
<1>6. ASSUME NEW n \in Nodes, AdminConversionDay(t, n)
      PROVE  TypeOK'
  <2> DEFINE onDisk == [m \in Nodes |-> disk[m].spent]
  <2>1. Begin(t, "gather", "ConversionDay", n) \in Command
    BY BeginTyped DEF Commands, Steps
  <2>2. Peers(n) \in SUBSET Nodes
    BY DEF Peers
  <2>3. Conflicts(onDisk) \in SUBSET Bearers
    <3>1. onDisk \in [Nodes -> SUBSET Bearers]
      BY DEF NodeState
    <3> QED BY <3>1, BurnTyped
  <2> DEFINE c == [Begin(t, "gather", "ConversionDay", n) EXCEPT
                     !.seen[n] = spent[n]]
  <2>4. c \in Command
    BY <2>1 DEF Command
  <2>5. [c EXCEPT !.left = Peers(n), !.atStart = Conflicts(onDisk)] \in Command
    <3> HIDE DEF c, onDisk
    <3> QED BY <2>2, <2>3, <2>4 DEF Command
  <2>6. cmd' \in [Threads -> Command]
    BY <1>6, <2>5 DEF AdminConversionDay
  <2> QED BY <1>6, <2>6 DEF AdminConversionDay
<1> QED
  BY <1>1, <1>2, <1>3, <1>4, <1>5, <1>6 DEF Admin, Peers, Seedable

\* Handlers change the memory of the node they run on and the messages.
LEMMA HandledWithTyped ==
  ASSUME TypeOK, NEW m \in net, NEW replies \in SUBSET Message,
         HandledWith(m, replies)
  PROVE  net' \in SUBSET Message
BY DEF TypeOK, HandledWith

LEMMA HandlerTyped ==
  ASSUME TypeOK, NEW m \in net, HandlePeerMessage(m)
  PROVE  TypeOK'
<1> USE DEF TypeOK, memory, history
<1>0. /\ m.op \in Threads /\ m.from \in Nodes /\ m.to \in Nodes
      /\ m.ledger \in SUBSET Bearers /\ m.spent \in SUBSET Bearers
  BY DEF Message
<1>1. CASE HandleLinkUpHello(m)
  <2> DEFINE ack == Msg("LinkUpAck", m.op, m.to, m.from,
                        ledger[m.to], spent[m.to])
  <2>1. ack \in Message
    BY <1>0, MsgTyped DEF PeerMessages
  <2>2. net' \in SUBSET Message
    BY <1>1, <2>1, HandledWithTyped DEF HandleLinkUpHello
  <2>3. LinkUpMerge(ledger[m.to], spent[m.to], m.ledger, m.spent)
          \in SUBSET Bearers
    BY <1>0, MergeTyped
  <2> QED BY <1>0, <1>1, <2>2, <2>3 DEF HandleLinkUpHello
<1>2. CASE HandleLinkDown(m)
  BY <1>0, <1>2, HandledWithTyped DEF HandleLinkDown
<1>3. CASE HandlePropagateRequest(m)
  <2>1. Msg("PropagateReply", m.op, m.to, m.from, ledger[m.to], {}) \in Message
    BY <1>0, MsgTyped DEF PeerMessages
  <2>2. net' \in SUBSET Message
    BY <1>3, <2>1, HandledWithTyped DEF HandlePropagateRequest
  <2> QED BY <1>3, <2>2 DEF HandlePropagateRequest
<1>4. CASE HandleSpentNotify(m)
  BY <1>0, <1>4, HandledWithTyped DEF HandleSpentNotify
<1>5. CASE HandleStatusRequest(m)
  <2>1. Msg("StatusReply", m.op, m.to, m.from, {}, spent[m.to]) \in Message
    BY <1>0, MsgTyped DEF PeerMessages
  <2>2. net' \in SUBSET Message
    BY <1>5, <2>1, HandledWithTyped DEF HandleStatusRequest
  <2> QED BY <1>5, <2>2 DEF HandleStatusRequest
<1> QED BY <1>1, <1>2, <1>3, <1>4, <1>5 DEF HandlePeerMessage

\* What typing needs to know of the threads: one that is not idle belongs to
\* a node that runs and waits for another, and a SpendAt has its bearer.
ThreadOK(c) ==
  \/ c = Idle
  \/ /\ c.pc # "idle" /\ c.kind \in Commands /\ c.node \in Nodes
     /\ up[c.node]
     /\ c.pc = "await" => c.peer \in Nodes
     /\ c.kind = "SpendAt" => c.bearer \in Bearers /\ c.pc \in {"persist", "notify"}

ThreadsOK == \A t \in Threads : ThreadOK(cmd[t])

LEMMA ContinueTyped ==
  ASSUME TypeOK, ThreadsOK, NEW t \in Threads, Continue(t)
  PROVE  TypeOK'
<1> USE DEF TypeOK, memory, history
<1> DEFINE n == cmd[t].node
<1>0. /\ cmd[t] \in Command
      /\ cmd[t].pc # "idle" => n \in Nodes
      /\ cmd[t].pc = "await" => cmd[t].peer \in Nodes
      /\ cmd[t].kind = "SpendAt" => cmd[t].bearer \in Bearers
  BY IdleTyped DEF ThreadsOK, ThreadOK
<1>1. CASE ReceiveLinkUpAck(t)
  <2>1. n \in Nodes
    BY <1>0, <1>1 DEF ReceiveLinkUpAck, At
  <2>2. PICK m \in Replies(t, "LinkUpAck") :
          /\ ledger' = [ledger EXCEPT ![n] =
                          LinkUpMerge(ledger[n], spent[n], m.ledger, m.spent)]
          /\ link' = [link EXCEPT ![n] = @ \cup {m.from}]
          /\ net' = net \ {m}
    BY <1>1 DEF ReceiveLinkUpAck
  <2>3. m.ledger \in SUBSET Bearers /\ m.spent \in SUBSET Bearers
        /\ m.from \in Nodes
    BY DEF Replies, Message
  <2>4. LinkUpMerge(ledger[n], spent[n], m.ledger, m.spent) \in SUBSET Bearers
    BY <2>1, <2>3, MergeTyped
  <2>5. cmd' \in [Threads -> Command]
    BY <1>1, GotoTyped DEF ReceiveLinkUpAck, Steps
  <2>6. UNCHANGED <<up, spent, disk, history>>
    BY <1>1 DEF ReceiveLinkUpAck
  <2> HIDE DEF n
  <2> QED BY <2>1, <2>2, <2>3, <2>4, <2>5, <2>6
<1>2. CASE ReceivePropagateReply(t)
  <2>1. n \in Nodes
    BY <1>0, <1>2 DEF ReceivePropagateReply, At
  <2>2. PICK m \in Replies(t, "PropagateReply") :
          /\ ledger' = [ledger EXCEPT ![n] =
               @ \cup PropagateDeliverable(@, spent[n], m.ledger)]
          /\ net' = net \ {m}
    BY <1>2 DEF ReceivePropagateReply
  <2>3. m.ledger \in SUBSET Bearers
    BY DEF Replies, Message
  <2>4. PropagateDeliverable(ledger[n], spent[n], m.ledger) \in SUBSET Bearers
    BY <2>1, <2>3, MergeTyped
  <2>5. cmd' \in [Threads -> Command]
    BY <1>2, GotoTyped DEF ReceivePropagateReply, Steps
  <2> HIDE DEF n
  <2> QED BY <1>2, <2>1, <2>2, <2>4, <2>5 DEF ReceivePropagateReply
<1>3. CASE ApplyLinkDown(t)
  <2>1. cmd' \in [Threads -> Command]
    BY <1>3, GotoTyped DEF ApplyLinkDown, Steps
  <2> QED BY <1>0, <1>3, <2>1 DEF ApplyLinkDown, At
<1>4. ASSUME NEW p \in Nodes, AskStatus(t, p)
      PROVE  TypeOK'
  <2>1. n \in Nodes
    BY <1>0, <1>4 DEF AskStatus, At
  <2>2. cmd' \in [Threads -> Command]
    <3> DEFINE c == cmd[t]
    <3>0. c \in Command
      BY <1>0
    <3>1. [c EXCEPT !.pc = "await", !.peer = p, !.left = @ \ {p}] \in Command
      <4> HIDE DEF c
      <4> QED BY <3>0 DEF Command, Steps
    <3> QED BY <1>4, <3>1, UpdateTyped DEF AskStatus
  <2>3. net' \in SUBSET Message
    <3>1. Msg("StatusRequest", t, n, p, {}, {}) \in Message
      BY <2>1, MsgTyped DEF PeerMessages
    <3> QED BY <1>4, <3>1 DEF AskStatus, Send
  <2> QED BY <1>4, <2>2, <2>3 DEF AskStatus
<1>5. CASE ReceiveStatusReply(t)
  <2>1. PICK m \in Replies(t, "StatusReply") :
          /\ cmd' = [cmd EXCEPT ![t] = [cmd[t] EXCEPT !.pc = "gather",
                                                  !.seen[m.from] = m.spent]]
          /\ net' = net \ {m}
    BY <1>5 DEF ReceiveStatusReply
  <2>2. m.from \in Nodes /\ m.spent \in SUBSET Bearers
    BY DEF Replies, Message
  <2>3. cmd' \in [Threads -> Command]
    <3> DEFINE c == cmd[t]
    <3>0. c \in Command
      BY <1>0
    <3>1. [c EXCEPT !.pc = "gather", !.seen[m.from] = m.spent] \in Command
      <4> HIDE DEF c
      <4> QED BY <2>2, <3>0 DEF Command, Steps
    <3> QED BY <2>1, <3>1, UpdateTyped
  <2> QED BY <1>5, <2>1, <2>3 DEF ReceiveStatusReply
<1>6. CASE ExchangeFails(t)
  <2>1. CASE cmd[t].kind = "ConversionDay"
    <3>1. cmd[t].peer \in Nodes
      BY <1>0, <1>6 DEF ExchangeFails
    <3>2. cmd' = [cmd EXCEPT ![t] =
                           [cmd[t] EXCEPT !.pc = "gather",
                                          !.missing = @ \cup {cmd[t].peer}]]
      BY <1>6, <2>1 DEF ExchangeFails
    <3> DEFINE c == cmd[t]
    <3>0. c \in Command
      BY <1>0
    <3>3. [c EXCEPT !.pc = "gather", !.missing = @ \cup {c.peer}] \in Command
      <4>1. c.peer \in Nodes
        BY <3>1
      <4> HIDE DEF c
      <4> QED BY <3>0, <4>1 DEF Command, Steps
    <3>4. cmd' \in [Threads -> Command]
      BY <3>2, <3>3, UpdateTyped
    <3> QED BY <1>6, <3>4 DEF ExchangeFails
  <2>2. CASE cmd[t].kind # "ConversionDay"
    BY <1>6, <2>2, FinishTyped DEF ExchangeFails
  <2> QED BY <2>1, <2>2
<1>7. CASE Defer(t)
  BY <1>7, FinishTyped DEF Defer
<1>8. CASE RejectConflict(t)
  BY <1>8, FinishTyped DEF RejectConflict
<1>9. CASE Burn(t)
  <2> DEFINE burn == BurnSet(cmd[t].seen)
  <2>1. n \in Nodes
    BY <1>0, <1>9 DEF Burn, Gathered, At
  <2>2. burn \in SUBSET Bearers
    BY BurnTyped DEF Command
  <2>3. Peers(n) \X burn \in SUBSET (Nodes \X Bearers)
    BY <2>2 DEF Peers
  <2>4. cmd' = [cmd EXCEPT ![t] = [cmd[t] EXCEPT !.pc = "persist",
                                              !.todo = Peers(n) \X burn]]
    BY <1>9 DEF Burn
  <2>5. cmd' \in [Threads -> Command]
    <3> DEFINE c == cmd[t]
    <3>0. c \in Command
      BY <1>0
    <3>1. [c EXCEPT !.pc = "persist", !.todo = Peers(n) \X burn] \in Command
      <4> HIDE DEF c, burn, n
      <4> QED BY <2>3, <3>0 DEF Command, Steps
    <3> QED BY <2>4, <3>1, UpdateTyped
  <2> QED BY <1>9, <2>1, <2>5 DEF Burn
<1>10. CASE Persist(t)
  <2>1. n \in Nodes
    BY <1>0, <1>10 DEF Persist
  <2>2. cmd' \in [Threads -> Command]
    BY <1>10, GotoTyped, FinishTyped DEF Persist, Steps
  <2>3. disk' \in [Nodes -> NodeState]
    BY <1>10, <2>1 DEF Persist, Saved, NodeState
  <2> QED BY <1>10, <2>2, <2>3 DEF Persist
<1>11. CASE Notify(t)
  <2>1. n \in Nodes
    BY <1>0, <1>11 DEF Notify
  <2>2. PICK d \in cmd[t].todo :
          /\ Send(Msg("SpentNotify", t, n, d[1], {}, {d[2]}))
          /\ cmd' = [cmd EXCEPT ![t] = [cmd[t] EXCEPT !.todo = @ \ {d}]]
    BY <1>11 DEF Notify
  <2>3. d[1] \in Nodes /\ d[2] \in Bearers
    BY <1>0 DEF Command
  <2>4. cmd' \in [Threads -> Command]
    <3> DEFINE c == cmd[t]
    <3>0. c \in Command
      BY <1>0
    <3>1. [c EXCEPT !.todo = @ \ {d}] \in Command
      <4> HIDE DEF c
      <4> QED BY <3>0 DEF Command
    <3> QED BY <2>2, <3>1, UpdateTyped
  <2>5. net' \in SUBSET Message
    <3>1. Msg("SpentNotify", t, n, d[1], {}, {d[2]}) \in Message
      BY <2>1, <2>3, MsgTyped DEF PeerMessages
    <3> QED BY <2>2, <3>1 DEF Send
  <2> QED BY <1>11, <2>4, <2>5 DEF Notify
<1>12. CASE Answer(t)
  <2>1. n \in Nodes
    BY <1>0, <1>12 DEF Answer
  <2>2. cmd' \in [Threads -> Command]
    BY <1>12, FinishTyped DEF Answer
  <2>3. acked' \in [Nodes -> SUBSET Bearers]
    BY <1>0, <1>12, <2>1 DEF Answer
  <2>4. settled' \in SUBSET Bearers
    <3>1. BurnSet(cmd[t].seen) \in SUBSET Bearers
      BY BurnTyped DEF Command
    <3> QED BY <1>12, <3>1 DEF Answer
  <2> QED BY <1>12, <2>2, <2>3, <2>4 DEF Answer
<1> QED
  BY <1>1, <1>2, <1>3, <1>4, <1>5, <1>6, <1>7, <1>8, <1>9, <1>10, <1>11,
     <1>12 DEF Continue

LEMMA CrashTyped ==
  ASSUME TypeOK, NEW n \in Nodes, Crash(n)
  PROVE  TypeOK'
BY IdleTyped DEF TypeOK, Crash, history

LEMMA RestartTyped ==
  ASSUME TypeOK, NEW n \in Nodes, Restart(n)
  PROVE  TypeOK'
<1>1. PICK s \in Loaded(n) :
        /\ ledger' = [ledger EXCEPT ![n] = s.ledger]
        /\ spent' = [spent EXCEPT ![n] = s.spent]
  BY DEF Restart
<1>2. s \in NodeState
  BY DEF TypeOK, Loaded, Fresh, NodeState
<1>3. s.ledger \in SUBSET Bearers /\ s.spent \in SUBSET Bearers
  BY <1>2 DEF NodeState
<1> QED BY <1>1, <1>3 DEF TypeOK, Restart, history

LEMMA LoseTyped ==
  ASSUME TypeOK, NEW m \in net, Lose(m)
  PROVE  TypeOK'
BY DEF TypeOK, Lose, memory, history

-----------------------------------------------------------------------------
(* The threads *)

LEMMA UpdateThreads ==
  ASSUME TypeOK, ThreadsOK, NEW t \in Threads, NEW c,
         cmd' = [cmd EXCEPT ![t] = c], up' = up, ThreadOK(c)
  PROVE  ThreadsOK'
<1>1. ASSUME NEW u \in Threads PROVE ThreadOK(cmd[u])'
  <2>1. CASE u = t
    BY <2>1 DEF TypeOK, ThreadOK
  <2>2. CASE u # t
    BY <2>2 DEF TypeOK, ThreadOK, ThreadsOK
  <2> QED BY <2>1, <2>2
<1> QED BY <1>1 DEF ThreadsOK

LEMMA FinishThreads ==
  ASSUME TypeOK, ThreadsOK, NEW t \in Threads, Finish(t), up' = up
  PROVE  ThreadsOK'
BY UpdateThreads DEF Finish, ThreadOK

\* The start of a command on a running node.
LEMMA AdminThreads ==
  ASSUME TypeOK, ThreadsOK, NEW t \in Threads, Admin(t)
  PROVE  ThreadsOK'
<1> USE DEF Commands, Steps
<1>1. ASSUME NEW n \in Nodes, up[n], NEW p \in Peers(n), AdminLinkUp(t, n, p)
      PROVE  ThreadsOK'
  <2> DEFINE c == Begin(t, "await", "LinkUp", n)
             s == [ledger |-> ledger[n], spent |-> spent[n]]
  <2>1. c \in Command /\ c.pc = "await" /\ c.kind = "LinkUp" /\ c.node = n
    BY BeginTyped, BeginFields
  <2>2. ThreadOK([c EXCEPT !.peer = p, !.sent = s])
    <3> HIDE DEF c, s
    <3> QED BY <1>1, <2>1 DEF Command, ThreadOK, Peers
  <2> QED BY <1>1, <2>2, UpdateThreads DEF AdminLinkUp
<1>2. ASSUME NEW n \in Nodes, up[n], NEW p \in Peers(n), AdminLinkDown(t, n, p)
      PROVE  ThreadsOK'
  <2> DEFINE c == Begin(t, "apply", "LinkDown", n)
  <2>1. c \in Command /\ c.pc = "apply" /\ c.kind = "LinkDown" /\ c.node = n
    BY BeginTyped, BeginFields
  <2>2. ThreadOK([c EXCEPT !.peer = p])
    <3> HIDE DEF c
    <3> QED BY <1>2, <2>1 DEF Command, ThreadOK
  <2> QED BY <1>2, <2>2, UpdateThreads DEF AdminLinkDown
<1>3. ASSUME NEW n \in Nodes, up[n], NEW p \in Peers(n), AdminPropagate(t, n, p)
      PROVE  ThreadsOK'
  <2> DEFINE c == Begin(t, "await", "Propagate", n)
  <2>1. c \in Command /\ c.pc = "await" /\ c.kind = "Propagate" /\ c.node = n
    BY BeginTyped, BeginFields
  <2>2. ThreadOK([c EXCEPT !.peer = p])
    <3> HIDE DEF c
    <3> QED BY <1>3, <2>1 DEF Command, ThreadOK, Peers
  <2> QED BY <1>3, <2>2, UpdateThreads DEF AdminPropagate
<1>4. ASSUME NEW n \in Nodes, up[n], NEW b \in Bearers, AdminSpendAt(t, n, b)
      PROVE  ThreadsOK'
  <2> DEFINE c == Begin(t, "persist", "SpendAt", n)
             x == link[n] \X {b}
  <2>1. c \in Command /\ c.pc = "persist" /\ c.kind = "SpendAt" /\ c.node = n
    BY BeginTyped, BeginFields
  <2>2. ThreadOK([c EXCEPT !.bearer = b, !.todo = x])
    <3> HIDE DEF c, x
    <3> QED BY <1>4, <2>1 DEF Command, ThreadOK
  <2> QED BY <1>4, <2>2, UpdateThreads DEF AdminSpendAt
<1>5. ASSUME NEW n \in Nodes, up[n], NEW b \in Bearers, AdminSeed(t, n, b)
      PROVE  ThreadsOK'
  <2> DEFINE c == Begin(t, "persist", "Seed", n)
  <2>1. c \in Command /\ c.pc = "persist" /\ c.kind = "Seed" /\ c.node = n
    BY BeginTyped, BeginFields
  <2>2. ThreadOK(c)
    <3> HIDE DEF c
    <3> QED BY <1>5, <2>1 DEF ThreadOK
  <2> QED BY <1>5, <2>2, UpdateThreads DEF AdminSeed
<1>6. ASSUME NEW n \in Nodes, up[n], AdminConversionDay(t, n)
      PROVE  ThreadsOK'
  <2> DEFINE c == Begin(t, "gather", "ConversionDay", n)
             x == Conflicts([m \in Nodes |-> disk[m].spent])
             s == spent[n]
  <2>1. c \in Command /\ c.pc = "gather" /\ c.kind = "ConversionDay" /\ c.node = n
    BY BeginTyped, BeginFields
  <2>2. ThreadOK([c EXCEPT !.seen[n] = s, !.left = Peers(n), !.atStart = x])
    <3> HIDE DEF c, x, s
    <3> QED BY <1>6, <2>1 DEF Command, ThreadOK
  <2> QED BY <1>6, <2>2, UpdateThreads DEF AdminConversionDay
<1> QED
  BY <1>1, <1>2, <1>3, <1>4, <1>5, <1>6 DEF Admin, Peers, Seedable

\* A thread that goes on to another step of the same command.
LEMMA GotoThreads ==
  ASSUME TypeOK, ThreadsOK, NEW t \in Threads, NEW pc \in Steps \ {"idle", "await"},
         cmd[t].pc # "idle", cmd[t].kind = "SpendAt" => pc = "notify",
         Goto(t, pc), up' = up
  PROVE  ThreadsOK'
<1> DEFINE c == cmd[t]
<1>1. c \in Command /\ ThreadOK(c) /\ c.pc # "idle"
      /\ (c.kind = "SpendAt" => pc = "notify")
  BY DEF TypeOK, ThreadsOK
<1>2. ThreadOK([c EXCEPT !.pc = pc])
  <2> HIDE DEF c
  <2> QED BY <1>1, IdleTyped DEF Command, ThreadOK, Steps
<1> QED BY <1>2, UpdateThreads DEF Goto

LEMMA ContinueThreads ==
  ASSUME TypeOK, ThreadsOK, NEW t \in Threads, Continue(t)
  PROVE  ThreadsOK'
<1> DEFINE c == cmd[t]
<1>0. c \in Command /\ ThreadOK(c)
  BY DEF TypeOK, ThreadsOK
<1> USE DEF Steps
<1>1. CASE ReceiveLinkUpAck(t)
  BY <1>1, GotoThreads DEF ReceiveLinkUpAck, At
<1>2. CASE ReceivePropagateReply(t)
  BY <1>2, GotoThreads DEF ReceivePropagateReply, At
<1>3. CASE ApplyLinkDown(t)
  BY <1>3, GotoThreads DEF ApplyLinkDown, At
<1>4. ASSUME NEW p \in Nodes, AskStatus(t, p)
      PROVE  ThreadsOK'
  <2>1. c.pc = "gather" /\ c.kind = "ConversionDay"
    BY <1>4 DEF AskStatus, At
  <2>2. ThreadOK([c EXCEPT !.pc = "await", !.peer = p, !.left = @ \ {p}])
    <3> HIDE DEF c
    <3> QED BY <1>0, <2>1, IdleTyped DEF Command, ThreadOK
  <2> QED BY <1>4, <2>2, UpdateThreads DEF AskStatus
<1>5. CASE ReceiveStatusReply(t)
  <2>1. c.pc = "await" /\ c.kind = "ConversionDay"
    BY <1>5 DEF ReceiveStatusReply, At
  <2>2. PICK m \in Replies(t, "StatusReply") :
          cmd' = [cmd EXCEPT ![t] = [cmd[t] EXCEPT !.pc = "gather",
                                                  !.seen[m.from] = m.spent]]
    BY <1>5 DEF ReceiveStatusReply
  <2>3. ThreadOK([c EXCEPT !.pc = "gather", !.seen[m.from] = m.spent])
    <3> HIDE DEF c
    <3> QED BY <1>0, <2>1, IdleTyped DEF Command, ThreadOK
  <2> QED BY <1>5, <2>2, <2>3, UpdateThreads DEF ReceiveStatusReply
<1>6. CASE ExchangeFails(t)
  <2>1. CASE c.kind = "ConversionDay"
    <3>1. ThreadOK([c EXCEPT !.pc = "gather", !.missing = @ \cup {c.peer}])
      <4>1. c.pc = "await"
        BY <1>6 DEF ExchangeFails
      <4> HIDE DEF c
      <4> QED BY <1>0, <2>1, <4>1, IdleTyped DEF Command, ThreadOK
    <3> QED BY <1>6, <2>1, <3>1, UpdateThreads DEF ExchangeFails
  <2>2. CASE c.kind # "ConversionDay"
    BY <1>6, <2>2, FinishThreads DEF ExchangeFails
  <2> QED BY <2>1, <2>2
<1>7. CASE Defer(t)
  BY <1>7, FinishThreads DEF Defer
<1>8. CASE RejectConflict(t)
  BY <1>8, FinishThreads DEF RejectConflict
<1>9. CASE Burn(t)
  <2> DEFINE x == Peers(c.node) \X BurnSet(c.seen)
  <2>1. c.pc = "gather" /\ c.kind = "ConversionDay"
    BY <1>9 DEF Burn, Gathered, At
  <2>2. ThreadOK([c EXCEPT !.pc = "persist", !.todo = x])
    <3> HIDE DEF c, x
    <3> QED BY <1>0, <2>1, IdleTyped DEF Command, ThreadOK
  <2> QED BY <1>9, <2>2, UpdateThreads DEF Burn
<1>10. CASE Persist(t)
  BY <1>10, GotoThreads, FinishThreads DEF Persist
<1>11. CASE Notify(t)
  <2>1. PICK d \in c.todo : cmd' = [cmd EXCEPT ![t] = [cmd[t] EXCEPT !.todo = @ \ {d}]]
    BY <1>11 DEF Notify
  <2>2. c.pc = "notify"
    BY <1>11 DEF Notify
  <2>3. ThreadOK([c EXCEPT !.todo = @ \ {d}])
    <3> HIDE DEF c
    <3> QED BY <1>0, <2>2, IdleTyped DEF Command, ThreadOK
  <2> QED BY <1>11, <2>1, <2>3, UpdateThreads DEF Notify
<1>12. CASE Answer(t)
  BY <1>12, FinishThreads DEF Answer
<1> QED
  BY <1>1, <1>2, <1>3, <1>4, <1>5, <1>6, <1>7, <1>8, <1>9, <1>10, <1>11,
     <1>12 DEF Continue

\* A crash ends the threads of its node, a restart starts none.
LEMMA FaultThreads ==
  ASSUME TypeOK, ThreadsOK, NEW n \in Nodes, Crash(n) \/ Restart(n)
  PROVE  ThreadsOK'
<1>1. CASE Crash(n)
  <2>1. ASSUME NEW t \in Threads PROVE ThreadOK(cmd[t])'
    <3>1. CASE cmd[t].node = n
      BY <1>1, <3>1 DEF Crash, ThreadOK
    <3>2. CASE cmd[t].node # n
      <4>1. cmd'[t] = cmd[t] /\ ThreadOK(cmd[t])
        BY <1>1, <3>2 DEF Crash, ThreadsOK
      <4>2. \A x \in Nodes \ {n} : up'[x] = up[x]
        BY <1>1 DEF Crash, TypeOK
      <4> QED BY <3>2, <4>1, <4>2 DEF ThreadOK
    <3> QED BY <3>1, <3>2
  <2> QED BY <2>1 DEF ThreadsOK
<1>2. CASE Restart(n)
  <2>1. \A x \in Nodes : up[x] => up'[x]
    BY <1>2 DEF Restart, TypeOK
  <2>2. cmd' = cmd
    BY <1>2 DEF Restart
  <2> QED BY <2>1, <2>2 DEF ThreadsOK, ThreadOK
<1> QED BY <1>1, <1>2

LEMMA InitTyped == Init => TypeOK /\ ThreadsOK
<1> SUFFICES ASSUME Init PROVE TypeOK /\ ThreadsOK
  OBVIOUS
<1>1. cmd \in [Threads -> Command]
  BY IdleTyped DEF Init
<1>2. disk \in [Nodes -> NodeState]
  BY DEF Init, NodeState
<1>3. TypeOK
  <2>1. ledger \in [Nodes -> SUBSET Bearers] /\ issued \in SUBSET Bearers
    BY DEF Init
  <2>2. /\ up \in [Nodes -> BOOLEAN] /\ spent \in [Nodes -> SUBSET Bearers]
        /\ link \in [Nodes -> SUBSET Nodes] /\ net \in SUBSET Message
    BY DEF Init
  <2>3. /\ reseeded \in SUBSET Bearers /\ ever \in SUBSET Bearers
        /\ acked \in [Nodes -> SUBSET Bearers] /\ settled \in SUBSET Bearers
    BY DEF Init
  <2> QED BY <1>1, <1>2, <2>1, <2>2, <2>3 DEF TypeOK
<1>4. ThreadsOK
  BY DEF Init, ThreadsOK, ThreadOK
<1> QED BY <1>3, <1>4

LEMMA StepTyped == TypeOK /\ ThreadsOK /\ [Next]_vars => TypeOK' /\ ThreadsOK'
<1> SUFFICES ASSUME TypeOK, ThreadsOK, [Next]_vars
             PROVE  TypeOK' /\ ThreadsOK'
  OBVIOUS
<1>1. ASSUME NEW t \in Threads, Admin(t) \/ Continue(t)
      PROVE  TypeOK' /\ ThreadsOK'
  BY <1>1, AdminTyped, AdminThreads, ContinueTyped, ContinueThreads
<1>2. ASSUME NEW m \in net, HandlePeerMessage(m)
      PROVE  TypeOK' /\ ThreadsOK'
  <2>1. up' = up /\ cmd' = cmd
    BY <1>2 DEF HandlePeerMessage, HandleLinkUpHello, HandleLinkDown,
                HandlePropagateRequest, HandleSpentNotify, HandleStatusRequest
  <2> QED BY <1>2, <2>1, HandlerTyped DEF ThreadsOK, ThreadOK
<1>3. ASSUME NEW n \in Nodes, Crash(n) \/ Restart(n)
      PROVE  TypeOK' /\ ThreadsOK'
  BY <1>3, CrashTyped, RestartTyped, FaultThreads
<1>4. ASSUME NEW m \in net, Lose(m)
      PROVE  TypeOK' /\ ThreadsOK'
  BY <1>4, LoseTyped DEF Lose, ThreadsOK, ThreadOK
<1>5. CASE UNCHANGED vars
  <2>1. /\ up' = up /\ ledger' = ledger /\ spent' = spent /\ link' = link
        /\ disk' = disk /\ cmd' = cmd /\ net' = net
        /\ issued' = issued /\ reseeded' = reseeded /\ ever' = ever
        /\ acked' = acked /\ settled' = settled
    BY <1>5 DEF vars, memory, history
  <2>2. TypeOK'
    BY <2>1 DEF TypeOK
  <2>3. ThreadsOK'
    BY <2>1 DEF ThreadsOK, ThreadOK
  <2> QED BY <2>2, <2>3
<1> QED BY <1>1, <1>2, <1>3, <1>4, <1>5 DEF Next, Deliver

LEMMA Typing == Spec => [](TypeOK /\ ThreadsOK)
BY InitTyped, StepTyped, PTL DEF Spec

\* Every step of every node keeps the types: what is sent, received, merged,
\* gathered, saved and restored are sets of bearers.
THEOREM TypeCorrect == Spec => []TypeOK
BY Typing, PTL

-----------------------------------------------------------------------------
(* Assumptions of some theorems *)

\* A start finds what was saved last.
FilesAreRead == "load" \notin Faults

\* The administrators take turns: there is one command at a time, and a thread
\* takes the next one when the messages of the last are delivered or lost (Free).
TakingTurns == \A t, u \in Threads : t = u

-----------------------------------------------------------------------------
(* Own spends *)

\* Only bearers that were issued are held, spent, saved or sent: a bearer that
\* is seeded for the first time is new everywhere.
OnlyIssued ==
  /\ \A n \in Nodes : /\ ledger[n] \subseteq issued /\ spent[n] \subseteq issued
                      /\ disk[n].ledger \subseteq issued
                      /\ disk[n].spent \subseteq issued
  /\ \A m \in net : m.ledger \subseteq issued

LEMMA MsgLedger ==
  ASSUME NEW type, NEW t, NEW from, NEW to, NEW led, NEW spt
  PROVE  Msg(type, t, from, to, led, spt).ledger = led
BY DEF Msg

LEMMA AdminIssued ==
  ASSUME TypeOK, OnlyIssued, NEW t \in Threads, Admin(t)
  PROVE  OnlyIssued'
<1> USE DEF TypeOK, OnlyIssued, memory, history
<1>1. ASSUME NEW n \in Nodes, NEW p \in Peers(n), AdminLinkUp(t, n, p)
      PROVE  OnlyIssued'
  <2>1. \A m \in net' \ net : m.ledger = ledger[n]
    BY <1>1, MsgLedger DEF AdminLinkUp, Send
  <2> QED BY <1>1, <2>1 DEF AdminLinkUp
<1>2. ASSUME NEW n \in Nodes, NEW p \in Peers(n),
             AdminLinkDown(t, n, p) \/ AdminPropagate(t, n, p)
      PROVE  OnlyIssued'
  <2>1. \A m \in net' \ net : m.ledger = {}
    BY <1>2, MsgLedger DEF AdminLinkDown, AdminPropagate, Send
  <2> QED BY <1>2, <2>1 DEF AdminLinkDown, AdminPropagate
<1>3. ASSUME NEW n \in Nodes, NEW b \in Bearers, AdminSpendAt(t, n, b)
      PROVE  OnlyIssued'
  BY <1>3 DEF AdminSpendAt
<1>4. ASSUME NEW n \in Nodes, NEW b \in Bearers, AdminSeed(t, n, b)
      PROVE  OnlyIssued'
  BY <1>4 DEF AdminSeed
<1>5. ASSUME NEW n \in Nodes, AdminConversionDay(t, n)
      PROVE  OnlyIssued'
  BY <1>5 DEF AdminConversionDay
<1> QED BY <1>1, <1>2, <1>3, <1>4, <1>5 DEF Admin, Seedable

LEMMA HandlerIssued ==
  ASSUME TypeOK, OnlyIssued, NEW m \in net, HandlePeerMessage(m)
  PROVE  OnlyIssued'
<1> USE DEF TypeOK, OnlyIssued, memory, history
<1>0. m.to \in Nodes
  BY DEF Message
<1>1. CASE HandleLinkUpHello(m)
  <2>1. \A x \in net' \ net : x.ledger = ledger[m.to]
    BY <1>1, MsgLedger DEF HandleLinkUpHello, HandledWith
  <2> QED BY <1>0, <1>1, <2>1 DEF HandleLinkUpHello, LinkUpMerge
<1>2. CASE HandlePropagateRequest(m)
  <2>1. \A x \in net' \ net : x.ledger = ledger[m.to]
    BY <1>2, MsgLedger DEF HandlePropagateRequest, HandledWith
  <2> QED BY <1>0, <1>2, <2>1 DEF HandlePropagateRequest
<1>3. CASE HandleStatusRequest(m)
  <2>1. \A x \in net' \ net : x.ledger = {}
    BY <1>3, MsgLedger DEF HandleStatusRequest, HandledWith
  <2> QED BY <1>0, <1>3, <2>1 DEF HandleStatusRequest
<1>4. CASE HandleLinkDown(m) \/ HandleSpentNotify(m)
  <2>1. net' \subseteq net
    BY <1>4 DEF HandleLinkDown, HandleSpentNotify, HandledWith
  <2> QED BY <1>0, <1>4, <2>1 DEF HandleLinkDown, HandleSpentNotify
<1> QED BY <1>1, <1>2, <1>3, <1>4 DEF HandlePeerMessage

LEMMA ContinueIssued ==
  ASSUME TypeOK, ThreadsOK, OnlyIssued, NEW t \in Threads, Continue(t)
  PROVE  OnlyIssued'
<1> USE DEF TypeOK, OnlyIssued, memory, history
<1> DEFINE n == cmd[t].node
<1>0. cmd[t].pc # "idle" => n \in Nodes
  BY IdleTyped DEF ThreadsOK, ThreadOK
<1>1. CASE ReceiveLinkUpAck(t)
  BY <1>0, <1>1 DEF ReceiveLinkUpAck, At, Replies, LinkUpMerge
<1>2. CASE ReceivePropagateReply(t)
  BY <1>0, <1>2 DEF ReceivePropagateReply, At, Replies, PropagateDeliverable
<1>3. CASE \E p \in Nodes : AskStatus(t, p)
  <2>1. \A x \in net' \ net : x.ledger = {}
    BY <1>3, MsgLedger DEF AskStatus, Send
  <2> QED BY <1>3, <2>1 DEF AskStatus
<1>4. CASE Notify(t)
  <2>1. \A x \in net' \ net : x.ledger = {}
    BY <1>4, MsgLedger DEF Notify, Send
  <2> QED BY <1>4, <2>1 DEF Notify
<1>5. CASE Burn(t)
  BY <1>0, <1>5 DEF Burn, Gathered, At
<1>6. CASE Persist(t)
  <2>1. \A x \in Nodes : \/ disk'[x] = disk[x]
                         \/ disk'[x] = [ledger |-> ledger[x], spent |-> spent[x]]
    BY <1>0, <1>6 DEF Persist, Saved
  <2> QED BY <1>6, <2>1 DEF Persist, Saved
<1>7. CASE \/ ApplyLinkDown(t) \/ ReceiveStatusReply(t) \/ ExchangeFails(t)
           \/ Defer(t) \/ RejectConflict(t) \/ Answer(t)
  <2>1. /\ UNCHANGED <<ledger, spent, disk, issued>>
        /\ net' \subseteq net
    BY <1>7 DEF ApplyLinkDown, ReceiveStatusReply, ExchangeFails, Defer,
                RejectConflict, Answer
  <2> QED BY <2>1
<1> QED BY <1>1, <1>2, <1>3, <1>4, <1>5, <1>6, <1>7 DEF Continue

LEMMA FaultIssued ==
  ASSUME TypeOK, OnlyIssued,
         \/ \E n \in Nodes : Crash(n) \/ Restart(n)
         \/ \E m \in net : Lose(m)
  PROVE  OnlyIssued'
<1> USE DEF TypeOK, OnlyIssued, memory, history
<1>1. ASSUME NEW n \in Nodes, Crash(n) PROVE OnlyIssued'
  BY <1>1 DEF Crash
<1>2. ASSUME NEW n \in Nodes, Restart(n) PROVE OnlyIssued'
  BY <1>2 DEF Restart, Loaded, Fresh
<1>3. ASSUME NEW m \in net, Lose(m) PROVE OnlyIssued'
  BY <1>3 DEF Lose
<1> QED BY <1>1, <1>2, <1>3

LEMMA StepIssued ==
  TypeOK /\ ThreadsOK /\ OnlyIssued /\ [Next]_vars => OnlyIssued'
<1> SUFFICES ASSUME TypeOK, ThreadsOK, OnlyIssued, [Next]_vars
             PROVE  OnlyIssued'
  OBVIOUS
<1>1. CASE UNCHANGED vars
  BY <1>1 DEF vars, memory, history, OnlyIssued
<1>2. CASE Next
  BY <1>2, AdminIssued, HandlerIssued, ContinueIssued, FaultIssued
  DEF Next, Deliver
<1> QED BY <1>1, <1>2

LEMMA IssuedOnly == Spec => []OnlyIssued
<1>1. Init => OnlyIssued
  BY NoneAssumption DEF Init, OnlyIssued
<1> QED BY <1>1, StepIssued, Typing, PTL DEF Spec

\* A node holds nothing of its own spent set, and neither does its state file,
\* unless it was seeded again.
SpentApart ==
  \A n \in Nodes : /\ ledger[n] \cap spent[n] \subseteq reseeded
                   /\ disk[n].ledger \cap disk[n].spent \subseteq reseeded

LEMMA StepApart ==
  TypeOK /\ ThreadsOK /\ OnlyIssued /\ SpentApart /\ [Next]_vars
    => SpentApart'
<1> SUFFICES ASSUME TypeOK, ThreadsOK, OnlyIssued, SpentApart, [Next]_vars
             PROVE  SpentApart'
  OBVIOUS
<1> USE DEF TypeOK, SpentApart, memory, history
<1>0. /\ \A t \in Threads : cmd[t].pc # "idle" => cmd[t].node \in Nodes
      /\ \A m \in net : m.to \in Nodes
  BY IdleTyped DEF ThreadsOK, ThreadOK, Message
<1>1. ASSUME NEW t \in Threads, NEW n \in Nodes, NEW b \in Bearers,
             AdminSpendAt(t, n, b)
      PROVE  SpentApart'
  BY <1>1 DEF AdminSpendAt
<1>2. ASSUME NEW t \in Threads, NEW n \in Nodes, NEW b \in Bearers,
             AdminSeed(t, n, b)
      PROVE  SpentApart'
  <2>1. \/ b \in reseeded'
        \/ \A x \in Nodes : b \notin spent[x] /\ b \notin disk[x].spent
    BY <1>2 DEF AdminSeed, OnlyIssued
  <2> QED BY <1>2, <2>1 DEF AdminSeed
<1>3. ASSUME NEW m \in net, HandleLinkUpHello(m)
      PROVE  SpentApart'
  BY <1>0, <1>3 DEF HandleLinkUpHello, LinkUpMerge
<1>4. ASSUME NEW m \in net, HandleSpentNotify(m)
      PROVE  SpentApart'
  BY <1>0, <1>4 DEF HandleSpentNotify
<1>5. ASSUME NEW t \in Threads, ReceiveLinkUpAck(t)
      PROVE  SpentApart'
  BY <1>0, <1>5 DEF ReceiveLinkUpAck, At, LinkUpMerge
<1>6. ASSUME NEW t \in Threads, ReceivePropagateReply(t)
      PROVE  SpentApart'
  BY <1>0, <1>6 DEF ReceivePropagateReply, At, PropagateDeliverable
<1>7. ASSUME NEW t \in Threads, Burn(t)
      PROVE  SpentApart'
  BY <1>0, <1>7 DEF Burn, Gathered, At
<1>8. ASSUME NEW t \in Threads, Persist(t)
      PROVE  SpentApart'
  <2>1. \A x \in Nodes : \/ disk'[x] = disk[x]
                         \/ disk'[x] = [ledger |-> ledger[x], spent |-> spent[x]]
    BY <1>0, <1>8 DEF Persist, Saved
  <2> QED BY <1>8, <2>1 DEF Persist, Saved
<1>9. ASSUME NEW n \in Nodes, Crash(n)
      PROVE  SpentApart'
  BY <1>9 DEF Crash
<1>10. ASSUME NEW n \in Nodes, Restart(n)
       PROVE  SpentApart'
  BY <1>10 DEF Restart, Loaded, Fresh
<1>11. CASE UNCHANGED <<ledger, spent, disk, reseeded>>
  BY <1>11
<1>12. ASSUME NEW t \in Threads, Admin(t)
       PROVE  SpentApart'
  BY <1>1, <1>2, <1>11, <1>12
  DEF Admin, Seedable, AdminLinkUp, AdminLinkDown, AdminPropagate,
      AdminConversionDay
<1>13. ASSUME NEW t \in Threads, Continue(t)
       PROVE  SpentApart'
  BY <1>5, <1>6, <1>7, <1>8, <1>11, <1>13
  DEF Continue, ApplyLinkDown, AskStatus, ReceiveStatusReply, ExchangeFails,
      Defer, RejectConflict, Notify, Answer
<1>14. ASSUME NEW m \in net, HandlePeerMessage(m)
       PROVE  SpentApart'
  BY <1>3, <1>4, <1>11, <1>14
  DEF HandlePeerMessage, HandleLinkDown, HandlePropagateRequest,
      HandleStatusRequest
<1>15. ASSUME NEW m \in net, Lose(m)
       PROVE  SpentApart'
  BY <1>11, <1>15 DEF Lose
<1>16. CASE UNCHANGED vars
  BY <1>11, <1>16 DEF vars
<1> QED
  BY <1>9, <1>10, <1>12, <1>13, <1>14, <1>15, <1>16 DEF Next, Deliver

\* Every way into a ledger keeps the node's own spent set out (merge, delivery,
\* restart), except that the Seed command asks for nothing.
LEMMA ApartAlways == Spec => []SpentApart
<1>1. Init => SpentApart
  BY DEF Init, SpentApart
<1> QED BY <1>1, StepApart, IssuedOnly, Typing, PTL DEF Spec
=============================================================================
