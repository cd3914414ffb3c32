----------------------- MODULE HabiNodeHoldingProofs -----------------------
(***************************************************************************)
(* Where bearers are, for any number of nodes, bearers and admin threads:  *)
(* no step but a Seed brings back a bearer whose last copy is gone, and    *)
(* none removes a bearer that nobody has spent.  With commands one at a    *)
(* time, both ends of a LinkUp have the same ledger.                       *)
(***************************************************************************)
EXTENDS HabiNodeProofs

-----------------------------------------------------------------------------
(* No bearer comes back *)

\* b is nowhere: in no ledger, no state file and no message's ledger.
Absent(b) ==
  /\ \A n \in Nodes : b \notin ledger[n] /\ b \notin disk[n].ledger
  /\ \A m \in net : b \notin m.ledger

LEMMA AdminAbsent ==
  ASSUME TypeOK, NEW b, Absent(b), NEW t \in Threads, Admin(t),
         \A n \in Nodes : ~AdminSeed(t, n, b)
  PROVE  Absent(b)'
<1> USE DEF TypeOK, Absent, memory, history
<1>1. ASSUME NEW n \in Nodes, NEW p \in Peers(n), AdminLinkUp(t, n, p)
      PROVE  Absent(b)'
  <2>1. \A m \in net' \ net : m.ledger = ledger[n]
    BY <1>1, MsgLedger DEF AdminLinkUp, Send
  <2> QED BY <1>1, <2>1 DEF AdminLinkUp
<1>2. ASSUME NEW n \in Nodes, NEW p \in Peers(n),
             AdminLinkDown(t, n, p) \/ AdminPropagate(t, n, p)
      PROVE  Absent(b)'
  <2>1. \A m \in net' \ net : m.ledger = {}
    BY <1>2, MsgLedger DEF AdminLinkDown, AdminPropagate, Send
  <2> QED BY <1>2, <2>1 DEF AdminLinkDown, AdminPropagate
<1>3. ASSUME NEW n \in Nodes, NEW c \in Bearers, AdminSpendAt(t, n, c)
      PROVE  Absent(b)'
  BY <1>3 DEF AdminSpendAt
<1>4. ASSUME NEW n \in Nodes, NEW c \in Bearers, AdminSeed(t, n, c)
      PROVE  Absent(b)'
  BY <1>4 DEF AdminSeed
<1>5. ASSUME NEW n \in Nodes, AdminConversionDay(t, n)
      PROVE  Absent(b)'
  BY <1>5 DEF AdminConversionDay
<1> QED BY <1>1, <1>2, <1>3, <1>4, <1>5 DEF Admin, Seedable

LEMMA HandlerAbsent ==
  ASSUME TypeOK, NEW b, Absent(b), NEW m \in net, HandlePeerMessage(m)
  PROVE  Absent(b)'
<1> USE DEF TypeOK, Absent, memory, history
<1>0. m.to \in Nodes
  BY DEF Message
<1>1. CASE HandleLinkUpHello(m)
  <2>1. \A x \in net' \ net : x.ledger = ledger[m.to]
    BY <1>1, MsgLedger DEF HandleLinkUpHello, HandledWith
  <2> QED BY <1>0, <1>1, <2>1 DEF HandleLinkUpHello, LinkUpMerge
<1>2. CASE HandlePropagateRequest(m)
  <2>1. \A x \in net' \ net : x.ledger = ledger[m.to]
    BY <1>2, MsgLedger DEF HandlePropagateRequest, HandledWith
  <2> QED BY <1>0, <1>2, <2>1 DEF HandlePropagateRequest
<1>3. CASE HandleStatusRequest(m)
  <2>1. \A x \in net' \ net : x.ledger = {}
    BY <1>3, MsgLedger DEF HandleStatusRequest, HandledWith
  <2> QED BY <1>0, <1>3, <2>1 DEF HandleStatusRequest
<1>4. CASE HandleLinkDown(m) \/ HandleSpentNotify(m)
  <2>1. net' \subseteq net
    BY <1>4 DEF HandleLinkDown, HandleSpentNotify, HandledWith
  <2> QED BY <1>0, <1>4, <2>1 DEF HandleLinkDown, HandleSpentNotify
<1> QED BY <1>1, <1>2, <1>3, <1>4 DEF HandlePeerMessage

LEMMA ContinueAbsent ==
  ASSUME TypeOK, ThreadsOK, NEW b, Absent(b), NEW t \in Threads, Continue(t)
  PROVE  Absent(b)'
<1> USE DEF TypeOK, Absent, memory, history
<1> DEFINE n == cmd[t].node
<1>0. cmd[t].pc # "idle" => n \in Nodes
  BY IdleTyped DEF ThreadsOK, ThreadOK
<1>1. CASE ReceiveLinkUpAck(t)
  BY <1>0, <1>1 DEF ReceiveLinkUpAck, At, Replies, LinkUpMerge
<1>2. CASE ReceivePropagateReply(t)
  BY <1>0, <1>2 DEF ReceivePropagateReply, At, Replies, PropagateDeliverable
<1>3. CASE \E p \in Nodes : AskStatus(t, p)
  <2>1. \A x \in net' \ net : x.ledger = {}
    BY <1>3, MsgLedger DEF AskStatus, Send
  <2> QED BY <1>3, <2>1 DEF AskStatus
<1>4. CASE Notify(t)
  <2>1. \A x \in net' \ net : x.ledger = {}
    BY <1>4, MsgLedger DEF Notify, Send
  <2> QED BY <1>4, <2>1 DEF Notify
<1>5. CASE Burn(t)
  BY <1>0, <1>5 DEF Burn, Gathered, At
<1>6. CASE Persist(t)
  <2>1. \A x \in Nodes : \/ disk'[x] = disk[x]
                         \/ disk'[x] = [ledger |-> ledger[x], spent |-> spent[x]]
    BY <1>0, <1>6 DEF Persist, Saved
  <2> QED BY <1>6, <2>1 DEF Persist, Saved
<1>7. CASE \/ ApplyLinkDown(t) \/ ReceiveStatusReply(t) \/ ExchangeFails(t)
           \/ Defer(t) \/ RejectConflict(t) \/ Answer(t)
  <2>1. /\ UNCHANGED <<ledger, disk>>
        /\ net' \subseteq net
    BY <1>7 DEF ApplyLinkDown, ReceiveStatusReply, ExchangeFails, Defer,
                RejectConflict, Answer
  <2> QED BY <2>1
<1> QED BY <1>1, <1>2, <1>3, <1>4, <1>5, <1>6, <1>7 DEF Continue

LEMMA FaultAbsent ==
  ASSUME TypeOK, NEW b, Absent(b),
         \/ \E n \in Nodes : Crash(n) \/ Restart(n)
         \/ \E m \in net : Lose(m)
  PROVE  Absent(b)'
<1> USE DEF TypeOK, Absent, memory, history
<1>1. ASSUME NEW n \in Nodes, Crash(n) PROVE Absent(b)'
  BY <1>1 DEF Crash
<1>2. ASSUME NEW n \in Nodes, Restart(n) PROVE Absent(b)'
  BY <1>2 DEF Restart, Loaded, Fresh
<1>3. ASSUME NEW m \in net, Lose(m) PROVE Absent(b)'
  BY <1>3 DEF Lose
<1> QED BY <1>1, <1>2, <1>3

LEMMA AbsentIsGone == \A b : Absent(b) <=> b \notin Copies
BY DEF Absent, Copies

LEMMA AbsentIsGoneNext == \A b : Absent(b)' <=> b \notin Copies'
BY DEF Absent, Copies

\* A bearer whose last copy is gone comes back by a Seed of it only, whatever
\* fails: ledgers, state files and messages get bearers from each other.
THEOREM GoneForGood == Spec => GoneStaysGone
<1>1. TypeOK /\ ThreadsOK /\ [Next]_vars
        => [\A b \in Copies' \ Copies :
              \E t \in Threads, n \in Nodes : AdminSeed(t, n, b)]_vars
  <2> SUFFICES ASSUME TypeOK, ThreadsOK, Next, NEW b, Absent(b),
                      \A t \in Threads, n \in Nodes : ~AdminSeed(t, n, b)
               PROVE  Absent(b)'
    BY AbsentIsGone, AbsentIsGoneNext
  <2> QED
    BY AdminAbsent, HandlerAbsent, ContinueAbsent, FaultAbsent DEF Next, Deliver
<1> QED BY <1>1, Typing, PTL DEF Spec, GoneStaysGone

-----------------------------------------------------------------------------
(* No bearer is lost *)

\* No node, state file, message or admin thread takes b for spent.
NotSaidOf(c, b) ==
  /\ \A n \in Nodes : b \notin c.seen[n]
  /\ \A d \in c.todo : d[2] # b

Unheard(b) ==
  /\ \A n \in Nodes : b \notin spent[n] /\ b \notin disk[n].spent
  /\ \A m \in net : b \notin m.spent
  /\ \A t \in Threads : NotSaidOf(cmd[t], b)

\* A running node has in memory every bearer of its state file, except those
\* that somebody spent.
HoldsSaved(b) == \A n \in Nodes : up[n] /\ b \in disk[n].ledger => b \in ledger[n]

HoldingInv ==
  \A b \in Bearers : b \notin ever => Unheard(b) /\ HoldsSaved(b)

LEMMA MsgSpent ==
  ASSUME NEW type, NEW t, NEW from, NEW to, NEW led, NEW spt
  PROVE  Msg(type, t, from, to, led, spt).spent = spt
BY DEF Msg

LEMMA IdleUnheard == \A b : NotSaidOf(Idle, b)
BY DEF NotSaidOf, Idle

LEMMA BeginUnheard ==
  ASSUME NEW t \in Threads, NEW n \in Nodes, NEW kind \in Commands,
         NEW pc \in Steps
  PROVE  \A b : NotSaidOf(Begin(t, pc, kind, n), b)
BY DEF NotSaidOf, Begin, Idle

\* One thread's update and no other news of spends.
LEMMA UpdateUnheard ==
  ASSUME TypeOK, NEW b, Unheard(b), NEW t \in Threads, NEW c,
         cmd' = [cmd EXCEPT ![t] = c], NotSaidOf(c, b),
         UNCHANGED <<spent, disk>>, \A m \in net' \ net : b \notin m.spent
  PROVE  Unheard(b)'
<1>1. \A u \in Threads : cmd'[u] = IF u = t THEN c ELSE cmd[u]
  BY DEF TypeOK
<1>2. \A u \in Threads : NotSaidOf(cmd[u], b)'
  BY <1>1 DEF Unheard, NotSaidOf
<1> QED BY <1>2 DEF Unheard

\* Of the admin commands only SpendAt, of another bearer, spends.
LEMMA AdminUnheard ==
  ASSUME TypeOK, NEW b, Unheard(b), b \notin ever', NEW t \in Threads, Admin(t)
  PROVE  Unheard(b)'
<1> USE DEF Commands, Steps, memory
<1>0. \A n \in Nodes : b \notin spent[n]
  BY DEF Unheard
<1>1. ASSUME NEW n \in Nodes, NEW p \in Peers(n), AdminLinkUp(t, n, p)
      PROVE  Unheard(b)'
  <2> DEFINE c == Begin(t, "await", "LinkUp", n)
             s == [ledger |-> ledger[n], spent |-> spent[n]]
  <2>1. c \in Command /\ NotSaidOf(c, b)
    BY BeginTyped, BeginUnheard
  <2>2. NotSaidOf([c EXCEPT !.peer = p, !.sent = s], b)
    <3> HIDE DEF c, s
    <3> QED BY <2>1 DEF Command, NotSaidOf
  <2>3. \A m \in net' \ net : m.spent = spent[n]
    BY <1>1, MsgSpent DEF AdminLinkUp, Send
  <2> QED BY <1>0, <1>1, <2>2, <2>3, UpdateUnheard DEF AdminLinkUp
<1>2. ASSUME NEW n \in Nodes, NEW p \in Peers(n), AdminLinkDown(t, n, p)
      PROVE  Unheard(b)'
  <2> DEFINE c == Begin(t, "apply", "LinkDown", n)
  <2>1. c \in Command /\ NotSaidOf(c, b)
    BY BeginTyped, BeginUnheard
  <2>2. NotSaidOf([c EXCEPT !.peer = p], b)
    <3> HIDE DEF c
    <3> QED BY <2>1 DEF Command, NotSaidOf
  <2>3. \A m \in net' \ net : m.spent = {}
    BY <1>2, MsgSpent DEF AdminLinkDown, Send
  <2> QED BY <1>2, <2>2, <2>3, UpdateUnheard DEF AdminLinkDown
<1>3. ASSUME NEW n \in Nodes, NEW p \in Peers(n), AdminPropagate(t, n, p)
      PROVE  Unheard(b)'
  <2> DEFINE c == Begin(t, "await", "Propagate", n)
  <2>1. c \in Command /\ NotSaidOf(c, b)
    BY BeginTyped, BeginUnheard
  <2>2. NotSaidOf([c EXCEPT !.peer = p], b)
    <3> HIDE DEF c
    <3> QED BY <2>1 DEF Command, NotSaidOf
  <2>3. \A m \in net' \ net : m.spent = {}
    BY <1>3, MsgSpent DEF AdminPropagate, Send
  <2> QED BY <1>3, <2>2, <2>3, UpdateUnheard DEF AdminPropagate
<1>4. ASSUME NEW n \in Nodes, NEW x \in Bearers, AdminSpendAt(t, n, x)
      PROVE  Unheard(b)'
  <2> DEFINE c == Begin(t, "persist", "SpendAt", n)
             todo == link[n] \X {x}
             e == [c EXCEPT !.bearer = x, !.todo = todo]
  <2>1. x # b
    BY <1>4 DEF AdminSpendAt, TypeOK
  <2>2. c \in Command /\ NotSaidOf(c, b)
    BY BeginTyped, BeginUnheard
  <2>3. \A d \in todo : d[2] # b
    BY <2>1
  <2>4. NotSaidOf(e, b)
    <3> HIDE DEF c, todo
    <3> QED BY <2>2, <2>3 DEF Command, NotSaidOf
  <2>5. \A u \in Threads : NotSaidOf(cmd[u], b)'
    <3>1. \A u \in Threads : cmd'[u] = IF u = t THEN e ELSE cmd[u]
      BY <1>4 DEF AdminSpendAt, TypeOK
    <3> HIDE DEF e
    <3> QED BY <2>4, <3>1 DEF Unheard, NotSaidOf
  <2>6. /\ \A y \in Nodes : spent'[y] \subseteq spent[y] \cup {x}
        /\ disk' = disk /\ net' = net
    BY <1>4 DEF AdminSpendAt, TypeOK
  <2> QED BY <2>1, <2>5, <2>6 DEF Unheard
<1>5. ASSUME NEW n \in Nodes, NEW x \in Bearers, AdminSeed(t, n, x)
      PROVE  Unheard(b)'
  BY <1>5, BeginUnheard, UpdateUnheard DEF AdminSeed
<1>6. ASSUME NEW n \in Nodes, AdminConversionDay(t, n)
      PROVE  Unheard(b)'
  <2> DEFINE c == Begin(t, "gather", "ConversionDay", n)
             x == Conflicts([m \in Nodes |-> disk[m].spent])
             s == spent[n]
  <2>1. c \in Command /\ NotSaidOf(c, b) /\ b \notin s
    BY <1>0, BeginTyped, BeginUnheard
  <2>2. NotSaidOf([c EXCEPT !.seen[n] = s, !.left = Peers(n), !.atStart = x], b)
    <3> HIDE DEF c, x, s
    <3> QED BY <2>1 DEF Command, NotSaidOf
  <2> QED BY <1>6, <2>2, UpdateUnheard DEF AdminConversionDay
<1> QED BY <1>1, <1>2, <1>3, <1>4, <1>5, <1>6 DEF Admin, Seedable

LEMMA HandlerUnheard ==
  ASSUME TypeOK, NEW b, Unheard(b), NEW m \in net, HandlePeerMessage(m)
  PROVE  Unheard(b)'
<1>1. \A x \in net' \ net : b \notin x.spent
  <2>1. m.to \in Nodes
    BY DEF TypeOK, Message
  <2>2. \A x \in net' \ net : x.spent = {} \/ x.spent = spent[m.to]
    BY MsgSpent
    DEF HandlePeerMessage, HandleLinkUpHello, HandleLinkDown, HandledWith,
        HandlePropagateRequest, HandleSpentNotify, HandleStatusRequest
  <2> QED BY <2>1, <2>2 DEF Unheard
<1>2. UNCHANGED <<spent, disk, cmd>>
  BY DEF HandlePeerMessage, HandleLinkUpHello, HandleLinkDown, memory,
         HandlePropagateRequest, HandleSpentNotify, HandleStatusRequest
<1> QED BY <1>1, <1>2 DEF Unheard, NotSaidOf

LEMMA ContinueUnheard ==
  ASSUME TypeOK, ThreadsOK, NEW b \in Bearers, Unheard(b),
         NEW t \in Threads, Continue(t)
  PROVE  Unheard(b)'
<1> USE DEF Steps, memory
<1> DEFINE c == cmd[t]
           n == cmd[t].node
<1>0. /\ c \in Command /\ NotSaidOf(c, b)
      /\ c.pc # "idle" => n \in Nodes
  BY IdleTyped DEF TypeOK, Unheard, ThreadsOK, ThreadOK
<1>1. ASSUME NEW pc \in Steps
      PROVE  NotSaidOf([c EXCEPT !.pc = pc], b)
  <2> HIDE DEF c
  <2> QED BY <1>0 DEF Command, NotSaidOf
<1>2. CASE \/ ReceiveLinkUpAck(t) \/ ReceivePropagateReply(t) \/ ApplyLinkDown(t)
  <2>1. Goto(t, "persist") /\ UNCHANGED <<spent, disk>> /\ net' \subseteq net
    BY <1>2 DEF ReceiveLinkUpAck, ReceivePropagateReply, ApplyLinkDown
  <2> QED BY <1>1, <2>1, UpdateUnheard DEF Goto
<1>3. ASSUME NEW p \in Nodes, AskStatus(t, p)
      PROVE  Unheard(b)'
  <2>1. NotSaidOf([c EXCEPT !.pc = "await", !.peer = p, !.left = @ \ {p}], b)
    <3> HIDE DEF c
    <3> QED BY <1>0 DEF Command, NotSaidOf
  <2>2. \A m \in net' \ net : m.spent = {}
    BY <1>3, MsgSpent DEF AskStatus, Send
  <2> QED BY <1>3, <2>1, <2>2, UpdateUnheard DEF AskStatus
<1>4. CASE ReceiveStatusReply(t)
  <2>1. PICK m \in Replies(t, "StatusReply") :
          /\ cmd' = [cmd EXCEPT ![t] = [cmd[t] EXCEPT !.pc = "gather",
                                                  !.seen[m.from] = m.spent]]
          /\ net' = net \ {m}
    BY <1>4 DEF ReceiveStatusReply
  <2>2. b \notin m.spent
    BY DEF Unheard, Replies
  <2>3. NotSaidOf([c EXCEPT !.pc = "gather", !.seen[m.from] = m.spent], b)
    <3> HIDE DEF c
    <3> QED BY <1>0, <2>2 DEF Command, NotSaidOf
  <2> QED BY <1>4, <2>1, <2>3, UpdateUnheard DEF ReceiveStatusReply
<1>5. CASE ExchangeFails(t)
  <2>1. CASE c.kind = "ConversionDay"
    <3>1. NotSaidOf([c EXCEPT !.pc = "gather", !.missing = @ \cup {c.peer}], b)
      <4> HIDE DEF c
      <4> QED BY <1>0 DEF Command, NotSaidOf
    <3> QED BY <1>5, <2>1, <3>1, UpdateUnheard DEF ExchangeFails
  <2>2. CASE c.kind # "ConversionDay"
    BY <1>5, <2>2, IdleUnheard, UpdateUnheard DEF ExchangeFails, Finish
  <2> QED BY <2>1, <2>2
<1>6. CASE Defer(t) \/ RejectConflict(t)
  BY <1>6, IdleUnheard, UpdateUnheard DEF Defer, RejectConflict, Finish
<1>7. CASE Burn(t)
  <2> DEFINE todo == Peers(n) \X BurnSet(c.seen)
  <2>1. b \notin BurnSet(c.seen)
    <3> HIDE DEF c
    <3> QED BY <1>0 DEF BurnSet, NotSaidOf, Command
  <2>2. \A d \in todo : d[2] # b
    <3> HIDE DEF c
    <3> QED BY <2>1
  <2>3. NotSaidOf([c EXCEPT !.pc = "persist", !.todo = todo], b)
    <3> HIDE DEF c, todo
    <3> QED BY <1>0, <2>2 DEF Command, NotSaidOf
  <2> QED BY <1>7, <2>3, UpdateUnheard DEF Burn
<1>8. CASE Persist(t)
  <2>1. \A u \in Threads : NotSaidOf(cmd[u], b)'
    <3>1. PICK e : cmd' = [cmd EXCEPT ![t] = e] /\ NotSaidOf(e, b)
      BY <1>1, <1>8, IdleUnheard DEF Persist, Goto, Finish
    <3>2. \A u \in Threads : cmd'[u] = IF u = t THEN e ELSE cmd[u]
      BY <3>1 DEF TypeOK
    <3> QED BY <3>1, <3>2 DEF Unheard, NotSaidOf
  <2>2. ASSUME NEW x \in Nodes
        PROVE  disk'[x].spent = disk[x].spent \/ disk'[x].spent = spent[x]
    BY <1>0, <1>8 DEF Persist, Saved, TypeOK
  <2>3. \A x \in Nodes : b \notin disk'[x].spent
    BY <2>2 DEF Unheard
  <2>4. UNCHANGED <<spent, net>>
    BY <1>8 DEF Persist
  <2> QED BY <2>1, <2>3, <2>4 DEF Unheard
<1>9. CASE Notify(t)
  <2>1. PICK d \in c.todo :
          /\ Send(Msg("SpentNotify", t, n, d[1], {}, {d[2]}))
          /\ cmd' = [cmd EXCEPT ![t] = [cmd[t] EXCEPT !.todo = @ \ {d}]]
    BY <1>9 DEF Notify
  <2>2. NotSaidOf([c EXCEPT !.todo = @ \ {d}], b)
    <3> HIDE DEF c
    <3> QED BY <1>0 DEF Command, NotSaidOf
  <2>3. d[2] # b
    BY <1>0 DEF NotSaidOf
  <2>4. \A m \in net' \ net : b \notin m.spent
    <3> DEFINE e == d[2]
    <3>1. \A m \in net' \ net : m.spent = {e}
      BY <2>1, MsgSpent DEF Send
    <3> HIDE DEF e
    <3>2. e # b
      BY <2>3 DEF e
    <3> QED BY <3>1, <3>2
  <2>5. UNCHANGED <<spent, disk>>
    BY <1>9 DEF Notify
  <2> QED BY <2>1, <2>2, <2>4, <2>5, UpdateUnheard
<1>10. CASE Answer(t)
  BY <1>10, IdleUnheard, UpdateUnheard DEF Answer, Finish
<1> QED
  BY <1>2, <1>3, <1>4, <1>5, <1>6, <1>7, <1>8, <1>9, <1>10 DEF Continue

LEMMA FaultUnheard ==
  ASSUME TypeOK, NEW b, Unheard(b),
         \/ \E n \in Nodes : Crash(n) \/ Restart(n)
         \/ \E m \in net : Lose(m)
  PROVE  Unheard(b)'
<1> USE DEF TypeOK, memory, NotSaidOf
<1>1. ASSUME NEW n \in Nodes, Crash(n) PROVE Unheard(b)'
  <2>1. \A t \in Threads : NotSaidOf(cmd[t], b)'
    BY <1>1, IdleUnheard DEF Crash, Unheard
  <2> QED BY <1>1, <2>1 DEF Crash, Unheard
<1>2. ASSUME NEW n \in Nodes, Restart(n) PROVE Unheard(b)'
  BY <1>2 DEF Restart, Loaded, Fresh, Unheard
<1>3. ASSUME NEW m \in net, Lose(m) PROVE Unheard(b)'
  BY <1>3 DEF Lose, Unheard
<1> QED BY <1>1, <1>2, <1>3

\* Where a step leaves b at node n: what is in the state file stays there, and
\* what is in memory too, while the process runs.
Stays(n, b) ==
  /\ b \in disk[n].ledger => b \in disk'[n].ledger
  /\ up[n] /\ up'[n] /\ b \in ledger[n] => b \in ledger'[n]
  /\ up'[n] => up[n] \/ (b \in disk[n].ledger => b \in ledger'[n])
  /\ up'[n] /\ b \in disk'[n].ledger => b \in disk[n].ledger \/ b \in ledger'[n]

LEMMA LedgerStays ==
  ASSUME FilesAreRead, TypeOK, ThreadsOK, [Next]_vars,
         NEW n \in Nodes, NEW b \in Bearers,
         Unheard(b), HoldsSaved(b), b \notin ever'
  PROVE  Stays(n, b)
<1> USE DEF TypeOK, memory
<1>0. /\ \A x \in Nodes : b \notin spent[x]
      /\ \A x \in Nodes : up[x] /\ b \in disk[x].ledger => b \in ledger[x]
      /\ \A m \in net : m.to \in Nodes /\ b \notin m.spent
  BY DEF Unheard, HoldsSaved, Message
<1>1. \A t \in Threads :
        cmd[t].pc # "idle" => cmd[t].node \in Nodes /\ up[cmd[t].node]
  BY IdleTyped DEF ThreadsOK, ThreadOK
<1>2. ASSUME UNCHANGED <<up, disk>>,
             \A x \in Nodes : b \in ledger[x] => b \in ledger'[x]
      PROVE  Stays(n, b)
  BY <1>2 DEF Stays
<1>3. ASSUME NEW t \in Threads, Admin(t)
      PROVE  Stays(n, b)
  <2>1. ASSUME NEW x \in Nodes, NEW a \in Bearers, AdminSpendAt(t, x, a)
        PROVE  Stays(n, b)
    <3>1. a # b
      BY <2>1 DEF AdminSpendAt
    <3> QED BY <1>2, <2>1, <3>1 DEF AdminSpendAt
  <2>2. ASSUME NEW x \in Nodes, NEW a \in Bearers, AdminSeed(t, x, a)
        PROVE  Stays(n, b)
    BY <1>2, <2>2 DEF AdminSeed
  <2> QED
    BY <1>2, <1>3, <2>1, <2>2
    DEF Admin, Seedable, AdminLinkUp, AdminLinkDown, AdminPropagate,
        AdminConversionDay
<1>4. ASSUME NEW m \in net, HandlePeerMessage(m)
      PROVE  Stays(n, b)
  <2>1. CASE HandleLinkUpHello(m)
    BY <1>0, <1>2, <2>1 DEF HandleLinkUpHello, LinkUpMerge
  <2>2. CASE HandleSpentNotify(m)
    BY <1>0, <1>2, <2>2 DEF HandleSpentNotify
  <2> QED
    BY <1>2, <1>4, <2>1, <2>2
    DEF HandlePeerMessage, HandleLinkDown, HandlePropagateRequest,
        HandleStatusRequest
<1>5. ASSUME NEW t \in Threads, Continue(t)
      PROVE  Stays(n, b)
  <2>1. CASE ReceiveLinkUpAck(t)
    BY <1>0, <1>1, <1>2, <2>1 DEF ReceiveLinkUpAck, At, Replies, LinkUpMerge
  <2>2. CASE ReceivePropagateReply(t)
    BY <1>1, <1>2, <2>2 DEF ReceivePropagateReply, At
  <2>3. CASE Burn(t)
    <3>1. b \notin BurnSet(cmd[t].seen)
      BY DEF Unheard, NotSaidOf, BurnSet, Command
    <3> QED BY <1>1, <1>2, <2>3, <3>1 DEF Burn, Gathered, At
  <2>4. CASE Persist(t)
    <3>1. /\ up' = up /\ ledger' = ledger
          /\ \/ disk'[n] = disk[n]
             \/ up[n] /\ disk'[n] = [ledger |-> ledger[n], spent |-> spent[n]]
      BY <1>1, <2>4 DEF Persist, Saved
    <3> QED BY <1>0, <3>1 DEF Stays
  <2> QED
    BY <1>2, <1>5, <2>1, <2>2, <2>3, <2>4
    DEF Continue, ApplyLinkDown, AskStatus, ReceiveStatusReply, ExchangeFails,
        Defer, RejectConflict, Notify, Answer
<1>6. ASSUME NEW x \in Nodes, Crash(x)
      PROVE  Stays(n, b)
  BY <1>0, <1>6 DEF Crash, Stays
<1>7. ASSUME NEW x \in Nodes, Restart(x)
      PROVE  Stays(n, b)
  BY <1>0, <1>7 DEF Restart, Loaded, FilesAreRead, Stays
<1>8. CASE (\E m \in net : Lose(m)) \/ UNCHANGED vars
  BY <1>2, <1>8 DEF Lose, vars
<1> QED BY <1>3, <1>4, <1>5, <1>6, <1>7, <1>8 DEF Next, Deliver

\* What a node has spent it has spent for ever.
LEMMA EverGrows ==
  ASSUME [Next]_vars
  PROVE  ever \subseteq ever'
<1>1. ASSUME NEW t \in Threads, Admin(t)
      PROVE  ever \subseteq ever'
  BY <1>1 DEF Admin, AdminLinkUp, AdminLinkDown, AdminPropagate, AdminSpendAt,
              AdminSeed, AdminConversionDay, history
<1>2. ASSUME NEW t \in Threads, Continue(t)
      PROVE  UNCHANGED ever
  BY <1>2 DEF Continue, ReceiveLinkUpAck, ReceivePropagateReply,
              ApplyLinkDown, AskStatus, ReceiveStatusReply, ExchangeFails,
              Defer, RejectConflict, Burn, Persist, Notify, Answer, history
<1>3. ASSUME NEW m \in net, HandlePeerMessage(m) \/ Lose(m)
      PROVE  UNCHANGED ever
  BY <1>3 DEF HandlePeerMessage, HandleLinkUpHello, HandleLinkDown, history,
              HandlePropagateRequest, HandleSpentNotify,
              HandleStatusRequest, Lose
<1>4. ASSUME NEW n \in Nodes, Crash(n) \/ Restart(n)
      PROVE  UNCHANGED ever
  BY <1>4 DEF Crash, Restart, history
<1>5. CASE UNCHANGED vars
  BY <1>5 DEF vars, history
<1> QED BY <1>1, <1>2, <1>3, <1>4, <1>5 DEF Next, Deliver

LEMMA StepHolding ==
  ASSUME FilesAreRead, TypeOK, ThreadsOK, HoldingInv, [Next]_vars,
         NEW b \in Bearers, b \notin ever'
  PROVE  /\ Unheard(b)' /\ HoldsSaved(b)'
         /\ \A n \in Nodes : Stays(n, b)
<1>1. Unheard(b) /\ HoldsSaved(b)
  BY EverGrows DEF HoldingInv
<1>2. Unheard(b)'
  <2>1. CASE UNCHANGED vars
    BY <1>1, <2>1 DEF Unheard, NotSaidOf, vars, memory
  <2> QED
    BY <1>1, <2>1, AdminUnheard, HandlerUnheard, ContinueUnheard, FaultUnheard
    DEF Next, Deliver
<1>3. \A n \in Nodes : Stays(n, b)
  BY <1>1, LedgerStays
<1>4. HoldsSaved(b)'
  BY <1>1, <1>3 DEF HoldsSaved, Stays
<1> QED BY <1>2, <1>3, <1>4

LEMMA HoldingInvHolds ==
  ASSUME FilesAreRead
  PROVE  Spec => []HoldingInv
<1>1. Init => HoldingInv
  <2> SUFFICES ASSUME Init, NEW b \in Bearers
               PROVE  Unheard(b) /\ HoldsSaved(b)
    BY DEF HoldingInv
  <2>1. \A t \in Threads : NotSaidOf(cmd[t], b)
    BY IdleUnheard DEF Init
  <2> QED BY <2>1 DEF Init, Unheard, HoldsSaved
<1>2. TypeOK /\ ThreadsOK /\ HoldingInv /\ [Next]_vars => HoldingInv'
  BY StepHolding DEF HoldingInv
<1> QED BY <1>1, <1>2, Typing, PTL DEF Spec

\* A bearer that nobody spent stays in the state file of its node, and in
\* memory while the process runs, through any merges, notices, burns, saves,
\* crashes and restarts: every set of spends that is kept, sent or gathered
\* holds only bearers that were spent, and a running node has its file's
\* unspent bearers in memory, so that no save drops one.
THEOREM UnspentIsKept ==
  ASSUME FilesAreRead
  PROVE  Spec => UnspentNeverLost
<1>1. TypeOK /\ ThreadsOK /\ HoldingInv /\ [Next]_vars
        => [\A n \in Nodes :
              /\ disk[n].ledger \ ever' \subseteq disk'[n].ledger
              /\ up[n] /\ up'[n] =>
                   ledger[n] \ ever' \subseteq ledger'[n]]_vars
  <2> SUFFICES ASSUME TypeOK, ThreadsOK, HoldingInv, [Next]_vars,
                      NEW n \in Nodes, NEW b, b \notin ever'
               PROVE  /\ b \in disk[n].ledger => b \in disk'[n].ledger
                      /\ up[n] /\ up'[n] /\ b \in ledger[n] => b \in ledger'[n]
    OBVIOUS
  <2>1. CASE b \in Bearers
    BY <2>1, StepHolding DEF Stays
  <2>2. CASE b \notin Bearers
    BY <2>2 DEF TypeOK, NodeState
  <2> QED BY <2>1, <2>2
<1> QED BY <1>1, Typing, HoldingInvHolds, PTL DEF Spec, UnspentNeverLost

-----------------------------------------------------------------------------
(* Both ends of a LinkUp *)

\* While t waits for the ack of its LinkUp, its node is as the hello said and
\* the exchange changes the peer only.
HelloStands(t) ==
  At(t, "await", "LinkUp") =>
    /\ cmd[t].sent = Saved(cmd[t].node)
    /\ \A m \in net : \/ m.type = "LinkUpAck"
                      \/ m.type = "LinkUpHello" /\ m.to # cmd[t].node

LEMMA NotLinkingUp ==
  ASSUME NEW t \in Threads, ~At(t, "await", "LinkUp")'
  PROVE  HelloStands(t)'
BY DEF HelloStands

LEMMA AdminLinkUpStands ==
  ASSUME TypeOK, TakingTurns, NEW t \in Threads, Free(t), NEW n \in Nodes,
         NEW p \in Peers(n), AdminLinkUp(t, n, p)
  PROVE  HelloStands(t)'
<1> DEFINE c == Begin(t, "await", "LinkUp", n)
           s == Saved(n)
           hello == Msg("LinkUpHello", t, n, p, ledger[n], spent[n])
<1>1. c \in Command /\ c.node = n
  BY BeginTyped, BeginFields DEF Steps, Commands
<1>2. /\ cmd'[t] = [c EXCEPT !.peer = p, !.sent = s]
      /\ UNCHANGED <<ledger, spent>>
  BY DEF AdminLinkUp, TypeOK, memory, Saved
<1>3. cmd'[t].node = n /\ cmd'[t].sent = s
  <2> HIDE DEF c, s
  <2> QED BY <1>1, <1>2 DEF Command
<1>4. net = {}
  BY DEF Free, TakingTurns, TypeOK, Message
<1>5. net' \subseteq {hello} /\ hello.type = "LinkUpHello" /\ hello.to = p
  BY <1>4 DEF AdminLinkUp, Send, Msg
<1> HIDE DEF hello
<1>6. \A m \in net' : m.type = "LinkUpHello" /\ m.to # n
  BY <1>5 DEF Peers
<1> QED BY <1>2, <1>3, <1>6 DEF HelloStands, Saved

\* No other command waits for the ack of a LinkUp.
LEMMA OtherAdmin ==
  ASSUME TypeOK, NEW t \in Threads, NEW n \in Nodes, NEW p, NEW b,
         \/ AdminLinkDown(t, n, p) \/ AdminPropagate(t, n, p)
         \/ AdminSpendAt(t, n, b) \/ AdminSeed(t, n, b)
         \/ AdminConversionDay(t, n)
  PROVE  ~At(t, "await", "LinkUp")'
<1> USE DEF Steps, Commands
<1>1. CASE AdminLinkDown(t, n, p) \/ AdminPropagate(t, n, p)
  <2>1. PICK c \in {Begin(t, "apply", "LinkDown", n),
                    Begin(t, "await", "Propagate", n)} :
          cmd'[t] = [c EXCEPT !.peer = p]
    BY <1>1 DEF AdminLinkDown, AdminPropagate, TypeOK
  <2>2. c \in Command /\ c.kind # "LinkUp"
    BY BeginTyped, BeginFields
  <2> QED BY <2>1, <2>2 DEF Command, At
<1>2. CASE AdminSpendAt(t, n, b)
  <2> DEFINE c == Begin(t, "persist", "SpendAt", n)
             x == link[n] \X {b}
  <2>1. /\ c \in Command /\ c.kind = "SpendAt"
        /\ cmd'[t] = [c EXCEPT !.bearer = b, !.todo = x]
    BY <1>2, BeginTyped, BeginFields DEF AdminSpendAt, TypeOK
  <2> HIDE DEF c, x
  <2> QED BY <2>1 DEF Command, At
<1>3. CASE AdminSeed(t, n, b)
  BY <1>3, BeginFields DEF AdminSeed, TypeOK, At
<1>4. CASE AdminConversionDay(t, n)
  <2> DEFINE c == Begin(t, "gather", "ConversionDay", n)
             s == spent[n]
             x == Conflicts([m \in Nodes |-> disk[m].spent])
  <2>1. /\ c \in Command /\ c.kind = "ConversionDay"
        /\ cmd'[t] = [c EXCEPT !.seen[n] = s, !.left = Peers(n), !.atStart = x]
    BY <1>4, BeginTyped, BeginFields DEF AdminConversionDay, TypeOK
  <2> HIDE DEF c, s, x
  <2> QED BY <2>1 DEF Command, At
<1> QED BY <1>1, <1>2, <1>3, <1>4

LEMMA ContinueEndsExchange ==
  ASSUME TypeOK, NEW t \in Threads, Continue(t)
  PROVE  ~At(t, "await", "LinkUp")'
<1> DEFINE c == cmd[t]
<1>0. c \in Command
  BY DEF TypeOK
<1>1. CASE \E p \in Nodes : AskStatus(t, p)
  <2>1. PICK p \in Nodes :
          /\ c.kind = "ConversionDay"
          /\ cmd'[t] = [c EXCEPT !.pc = "await", !.peer = p, !.left = @ \ {p}]
    BY <1>1 DEF AskStatus, At, TypeOK
  <2> HIDE DEF c
  <2> QED BY <1>0, <2>1 DEF Command, At
<1>2. CASE Notify(t)
  <2>1. PICK d \in c.todo : cmd'[t] = [c EXCEPT !.todo = @ \ {d}]
    BY <1>2 DEF Notify, TypeOK
  <2>2. c.pc = "notify"
    BY <1>2 DEF Notify
  <2> HIDE DEF c
  <2> QED BY <1>0, <2>1, <2>2 DEF Command, At
<1>3. CASE Defer(t) \/ RejectConflict(t) \/ Answer(t)
  <2>1. cmd'[t] = Idle
    BY <1>3 DEF Defer, RejectConflict, Answer, Finish, TypeOK
  <2> QED BY <2>1, IdleTyped DEF At
<1>4. CASE \/ ReceiveLinkUpAck(t) \/ ReceivePropagateReply(t) \/ ApplyLinkDown(t)
           \/ Persist(t)
  <2>1. \/ cmd'[t] = [c EXCEPT !.pc = "persist"]
        \/ cmd'[t] = [c EXCEPT !.pc = "notify"]
        \/ cmd'[t] = Idle
    BY <1>4 DEF ReceiveLinkUpAck, ReceivePropagateReply, ApplyLinkDown, Persist,
                Goto, Finish, TypeOK
  <2> HIDE DEF c
  <2> QED BY <1>0, <2>1, IdleTyped DEF Command, At
<1>5. CASE ReceiveStatusReply(t)
  <2>1. PICK m \in Replies(t, "StatusReply") :
          cmd'[t] = [c EXCEPT !.pc = "gather", !.seen[m.from] = m.spent]
    BY <1>5 DEF ReceiveStatusReply, TypeOK
  <2> HIDE DEF c
  <2> QED BY <1>0, <2>1 DEF Command, At
<1>6. CASE ExchangeFails(t)
  <2>1. \/ cmd'[t] = [c EXCEPT !.pc = "gather", !.missing = @ \cup {c.peer}]
        \/ cmd'[t] = Idle
    BY <1>6 DEF ExchangeFails, Finish, TypeOK
  <2> HIDE DEF c
  <2> QED BY <1>0, <2>1, IdleTyped DEF Command, At
<1>7. CASE Burn(t)
  <2>1. PICK x : cmd'[t] = [c EXCEPT !.pc = "persist", !.todo = x]
    BY <1>7 DEF Burn, TypeOK
  <2> HIDE DEF c
  <2> QED BY <1>0, <2>1 DEF Command, At
<1> QED BY <1>1, <1>2, <1>3, <1>4, <1>5, <1>6, <1>7 DEF Continue

\* The peer's handler answers; the node that waits is not touched.
LEMMA HandlerStands ==
  ASSUME TypeOK, TakingTurns, NEW t \in Threads, HelloStands(t),
         NEW m \in net, HandlePeerMessage(m)
  PROVE  HelloStands(t)'
<1>1. cmd' = cmd /\ m.op = t
  BY DEF HandlePeerMessage, HandleLinkUpHello, HandleLinkDown,
         HandlePropagateRequest, HandleSpentNotify, HandleStatusRequest, memory,
         TakingTurns, TypeOK, Message
<1>2. CASE ~At(t, "await", "LinkUp")
  BY <1>1, <1>2, NotLinkingUp DEF At
<1>3. CASE At(t, "await", "LinkUp")
  <2> DEFINE n == cmd[t].node
             ack == Msg("LinkUpAck", m.op, m.to, m.from, ledger[m.to], spent[m.to])
  <2>1. HandleLinkUpHello(m) /\ m.to # n
    BY <1>3 DEF HelloStands, HandlePeerMessage, HandleLinkUpHello,
                HandleLinkDown, HandlePropagateRequest, HandleSpentNotify,
                HandleStatusRequest, Incoming
  <2>2. Saved(n)' = Saved(n)
    BY <1>1, <2>1 DEF HandleLinkUpHello, Saved, TypeOK
  <2>3. net' \subseteq net \cup {ack} /\ ack.type = "LinkUpAck"
    BY <2>1 DEF HandleLinkUpHello, HandledWith, Msg
  <2> HIDE DEF ack
  <2> QED BY <1>1, <1>3, <2>2, <2>3 DEF HelloStands
<1> QED BY <1>2, <1>3

\* A crash of the node ends the command, one of the peer leaves the node as it
\* is.
LEMMA FaultStands ==
  ASSUME TypeOK, ThreadsOK, NEW t \in Threads, HelloStands(t),
         \/ \E n \in Nodes : Crash(n) \/ Restart(n)
         \/ \E m \in net : Lose(m)
         \/ UNCHANGED vars
  PROVE  HelloStands(t)'
<1>1. CASE ~At(t, "await", "LinkUp")
  <2>1. cmd'[t] = cmd[t] \/ cmd'[t] = Idle
    BY DEF Crash, Restart, Lose, vars, TypeOK
  <2> QED BY <1>1, <2>1, IdleTyped, NotLinkingUp DEF At
<1>2. CASE At(t, "await", "LinkUp")
  <2> DEFINE n == cmd[t].node
  <2>1. n \in Nodes /\ up[n]
    BY <1>2, IdleTyped DEF ThreadsOK, ThreadOK, At
  <2>2. ASSUME NEW x \in Nodes, Crash(x) PROVE HelloStands(t)'
    <3>1. CASE x = n
      <4>1. cmd'[t] = Idle
        BY <2>2, <3>1 DEF Crash
      <4> QED BY <4>1, IdleTyped, NotLinkingUp DEF At
    <3>2. CASE x # n
      BY <1>2, <2>1, <2>2, <3>2 DEF Crash, HelloStands, Saved, TypeOK
    <3> QED BY <3>1, <3>2
  <2>3. ASSUME NEW x \in Nodes, Restart(x) PROVE HelloStands(t)'
    <3>1. x # n
      BY <2>1, <2>3 DEF Restart
    <3>2. Saved(n)' = Saved(n) /\ cmd' = cmd /\ net' = net
      BY <2>1, <2>3, <3>1 DEF Restart, Saved, TypeOK
    <3> QED BY <1>2, <3>2 DEF HelloStands
  <2>4. ASSUME net' \subseteq net, UNCHANGED <<ledger, spent, cmd>>
        PROVE  HelloStands(t)'
    BY <1>2, <2>4 DEF HelloStands, Saved
  <2> QED BY <2>2, <2>3, <2>4 DEF Lose, vars, memory
<1> QED BY <1>1, <1>2

LEMMA StepStands ==
  ASSUME TakingTurns, TypeOK, ThreadsOK,
         \A t \in Threads : HelloStands(t), [Next]_vars
  PROVE  \A t \in Threads : HelloStands(t)'
<1> SUFFICES ASSUME NEW t \in Threads PROVE HelloStands(t)'
  OBVIOUS
<1>1. CASE Admin(t)
  BY <1>1, AdminLinkUpStands, OtherAdmin, NotLinkingUp DEF Admin, Seedable
<1>2. CASE Continue(t)
  BY <1>2, ContinueEndsExchange, NotLinkingUp
<1>3. ASSUME NEW u \in Threads PROVE u = t
  BY DEF TakingTurns
<1> QED BY <1>1, <1>2, <1>3, HandlerStands, FaultStands DEF Next, Deliver

\* With administrators that take turns both ends of a LinkUp converge, also
\* when processes are killed, messages get lost and files cannot be written or
\* read: the initiator merges into the very state its hello carried, so that it
\* computes the merge the peer's handler computed (peer_protocol.rs,
\* apply_link_up_reply; wire.rs, header comment).
THEOREM LinkUpMakesEndsConverge ==
  ASSUME TakingTurns
  PROVE  Spec => LinkUpConverges
<1> DEFINE Inv == TypeOK /\ ThreadsOK /\ \A t \in Threads : HelloStands(t)
           Converging == \A t \in Threads :
             ReceiveLinkUpAck(t) =>
               \E m \in Replies(t, "LinkUpAck") :
                 ledger'[cmd[t].node] =
                   LinkUpMerge(cmd[t].sent.ledger, cmd[t].sent.spent,
                               m.ledger, m.spent)
<1>1. Init => Inv
  BY InitTyped, IdleTyped DEF Init, HelloStands, At
<1>2. Inv /\ [Next]_vars => Inv'
  BY StepTyped, StepStands
<1>3. Inv => Converging
  <2> SUFFICES ASSUME Inv, NEW t \in Threads, ReceiveLinkUpAck(t)
               PROVE  \E m \in Replies(t, "LinkUpAck") :
                        ledger'[cmd[t].node] =
                          LinkUpMerge(cmd[t].sent.ledger, cmd[t].sent.spent,
                                      m.ledger, m.spent)
    OBVIOUS
  <2> DEFINE n == cmd[t].node
  <2>1. n \in Nodes
    BY IdleTyped DEF ReceiveLinkUpAck, At, ThreadsOK, ThreadOK
  <2>2. cmd[t].sent.ledger = ledger[n] /\ cmd[t].sent.spent = spent[n]
    <3>1. At(t, "await", "LinkUp") /\ HelloStands(t)
      BY DEF ReceiveLinkUpAck
    <3>2. cmd[t].sent = Saved(n)
      BY <3>1 DEF HelloStands
    <3> QED BY <3>2 DEF Saved
  <2>3. PICK m \in Replies(t, "LinkUpAck") :
          ledger' = [ledger EXCEPT ![n] =
                       LinkUpMerge(ledger[n], spent[n], m.ledger, m.spent)]
    BY DEF ReceiveLinkUpAck
  <2> QED BY <2>1, <2>2, <2>3 DEF TypeOK
<1>4. Spec => [][Converging]_vars
  BY <1>1, <1>2, <1>3, PTL DEF Spec
<1> QED BY <1>4 DEF LinkUpConverges
=============================================================================
