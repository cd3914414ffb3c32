------------------------- MODULE HabiNodeSpendProofs -------------------------
(***************************************************************************)
(* What a spend is worth, for any number of nodes, bearers and admin       *)
(* threads, as long as state files can be read and written: saved before   *)
(* it is answered, and accepted once, over crashes and restarts.  And what *)
(* a ConversionDay settles of the spends, if state files can be read.      *)
(***************************************************************************)
EXTENDS HabiNodeProofs

\* State files are read back, and written when they are saved.
FilesAreSaved == {"disk", "load"} \cap Faults = {}

-----------------------------------------------------------------------------
(* Memory and disk *)

\* Where a step leaves the spent sets of a node that runs.
LEMMA SpentOfRunning ==
  ASSUME TypeOK, ThreadsOK, [Next]_vars, NEW n \in Nodes
  PROVE  \/ ~up'[n] /\ disk'[n] = disk[n]
         \/ /\ ~up[n]
            /\ spent'[n] = disk[n].spent \/ "load" \in Faults
            /\ disk'[n] = disk[n]
         \/ /\ up[n]
            /\ spent[n] \subseteq spent'[n]
            /\ disk'[n] = disk[n] \/ disk'[n].spent = spent'[n]
<1> USE DEF TypeOK, memory, history
<1>0. \A t \in Threads : cmd[t].pc # "idle" => cmd[t].node \in Nodes /\ up[cmd[t].node]
  BY IdleTyped DEF ThreadsOK, ThreadOK
<1>1. ASSUME NEW t \in Threads, NEW x \in Nodes, NEW b \in Bearers,
             AdminSpendAt(t, x, b)
      PROVE  up' = up /\ disk' = disk /\ \A y \in Nodes : spent[y] \subseteq spent'[y]
  BY <1>1 DEF AdminSpendAt
<1>2. ASSUME NEW t \in Threads, Persist(t)
      PROVE  /\ up' = up /\ spent' = spent
             /\ disk'[n] = disk[n] \/ (up[n] /\ disk'[n].spent = spent'[n])
  BY <1>0, <1>2 DEF Persist, Saved
<1>3. ASSUME NEW x \in Nodes, Crash(x)
      PROVE  /\ disk' = disk /\ (up'[n] => up[n] /\ spent'[n] = spent[n])
  BY <1>3 DEF Crash
<1>4. ASSUME NEW x \in Nodes, Restart(x)
      PROVE  /\ disk' = disk
             /\ \/ up'[n] = up[n] /\ spent'[n] = spent[n]
                \/ ~up[n] /\ (spent'[n] = disk[n].spent \/ "load" \in Faults)
  BY <1>4 DEF Restart, Loaded
<1>5. ASSUME UNCHANGED <<up, spent, disk>>
      PROVE  \/ ~up'[n] /\ disk'[n] = disk[n]
             \/ /\ up[n] /\ spent[n] \subseteq spent'[n] /\ disk'[n] = disk[n]
  BY <1>5
<1>6. ASSUME NEW t \in Threads, Admin(t)
      PROVE  \/ UNCHANGED <<up, spent, disk>>
             \/ \E x \in Nodes, b \in Bearers : AdminSpendAt(t, x, b)
  BY <1>6 DEF Admin, AdminLinkUp, AdminLinkDown, AdminPropagate, AdminSeed,
              AdminConversionDay
<1>7. ASSUME NEW t \in Threads, Continue(t)
      PROVE  UNCHANGED <<up, spent, disk>> \/ Persist(t)
  BY <1>7 DEF Continue, ReceiveLinkUpAck, ReceivePropagateReply, ApplyLinkDown,
              AskStatus, ReceiveStatusReply, ExchangeFails, Defer,
              RejectConflict, Burn, Notify, Answer
<1>8. ASSUME NEW m \in net, HandlePeerMessage(m) \/ Lose(m)
      PROVE  UNCHANGED <<up, spent, disk>>
  BY <1>8 DEF HandlePeerMessage, HandleLinkUpHello, HandleLinkDown,
              HandlePropagateRequest, HandleSpentNotify, HandleStatusRequest, Lose
<1>9. CASE UNCHANGED vars
  BY <1>5, <1>9 DEF vars
<1>10. CASE \E t \in Threads : Admin(t)
  BY <1>1, <1>5, <1>6, <1>10
<1>11. CASE \E t \in Threads : Continue(t)
  BY <1>2, <1>5, <1>7, <1>11
<1>12. CASE \/ \E t \in Threads : Deliver(t)
            \/ \E m \in net : Lose(m)
  BY <1>5, <1>8, <1>12 DEF Deliver
<1>13. CASE \E x \in Nodes : Crash(x) \/ Restart(x)
  BY <1>3, <1>4, <1>13
<1> QED BY <1>9, <1>10, <1>11, <1>12, <1>13 DEF Next

LEMMA StepMemory ==
  ASSUME FilesAreRead
  PROVE  TypeOK /\ ThreadsOK /\ MemoryCoversDisk /\ [Next]_vars
           => MemoryCoversDisk'
<1> SUFFICES ASSUME TypeOK, ThreadsOK, MemoryCoversDisk, [Next]_vars,
                    NEW n \in Nodes, up'[n]
             PROVE  disk'[n].spent \subseteq spent'[n]
  BY DEF MemoryCoversDisk
<1> QED BY SpentOfRunning DEF MemoryCoversDisk, FilesAreRead

\* A running node has in memory every spend of its state file, through any
\* saves, crashes and restarts, provided that a restart reads the file.
THEOREM MemoryAlwaysCoversDisk ==
  ASSUME FilesAreRead
  PROVE  Spec => []MemoryCoversDisk
<1>1. Init => MemoryCoversDisk
  BY DEF Init, MemoryCoversDisk
<1> QED BY <1>1, StepMemory, Typing, PTL DEF Spec

-----------------------------------------------------------------------------
(* Own spends *)

\* A state file never loses a spend.
LEMMA DiskKeepsSpends ==
  ASSUME FilesAreRead, TypeOK, ThreadsOK, MemoryCoversDisk, [Next]_vars,
         NEW n \in Nodes
  PROVE  disk[n].spent \subseteq disk'[n].spent
<1>1. CASE disk'[n] = disk[n]
  BY <1>1
<1>2. CASE up[n] /\ spent[n] \subseteq spent'[n] /\ disk'[n].spent = spent'[n]
  BY <1>2 DEF MemoryCoversDisk
<1> QED BY <1>1, <1>2, SpentOfRunning DEF FilesAreRead

\* A running node forgets no spend and its state file loses none, through any
\* saves, failed saves, kills and restarts, and of a bearer whose spend the node
\* has in memory or in the file it holds neither copy, unless it is seeded again.
\* The restart has to read the file; a spend that a kill catches before its
\* save is in neither, and not covered.
THEOREM OwnSpendStaysFinal ==
  ASSUME FilesAreRead
  PROVE  Spec => OwnSpendFinal
<1> DEFINE Kept(n) ==
      /\ up[n] /\ up'[n] => spent[n] \subseteq spent'[n]
      /\ disk[n].spent \subseteq disk'[n].spent
      /\ up'[n] => ledger'[n] \cap (spent'[n] \cup disk'[n].spent)
                    \subseteq reseeded'
      /\ disk'[n].ledger \cap disk'[n].spent \subseteq reseeded'
<1>1. TypeOK /\ ThreadsOK /\ MemoryCoversDisk /\ SpentApart'
        /\ MemoryCoversDisk' /\ [Next]_vars => [\A n \in Nodes : Kept(n)]_vars
  <2> SUFFICES ASSUME TypeOK, ThreadsOK, MemoryCoversDisk, SpentApart',
                      MemoryCoversDisk', Next, NEW n \in Nodes
               PROVE  Kept(n)
    OBVIOUS
  <2>1. up[n] /\ up'[n] => spent[n] \subseteq spent'[n]
    BY SpentOfRunning
  <2>2. disk[n].spent \subseteq disk'[n].spent
    BY DiskKeepsSpends
  <2>3. up'[n] => ledger'[n] \cap (spent'[n] \cup disk'[n].spent)
                    \subseteq reseeded'
    BY DEF SpentApart, MemoryCoversDisk
  <2>4. disk'[n].ledger \cap disk'[n].spent \subseteq reseeded'
    BY DEF SpentApart
  <2> QED BY <2>1, <2>2, <2>3, <2>4
<1> QED BY <1>1, Typing, MemoryAlwaysCoversDisk, ApartAlways, PTL
    DEF Spec, OwnSpendFinal

-----------------------------------------------------------------------------
(* The threads that execute a SpendAt *)

\* The spend a thread executes is in memory; once it broadcasts, and once it
\* has answered, the spend is on disk.  A spend of a running node that is not
\* on disk has a thread that is about to save it.
SpendsAreSaved ==
  /\ \A n \in Nodes : acked[n] \subseteq disk[n].spent
  /\ \A t \in Threads, n \in Nodes, b \in Bearers :
       Spending(t, n, b) =>
         /\ b \in spent[n]
         /\ cmd[t].pc = "notify" => b \in disk[n].spent
  /\ \A n \in Nodes : up[n] =>
       \A b \in spent[n] \ disk[n].spent :
         \E t \in Threads : Spending(t, n, b) /\ cmd[t].pc = "persist"

SpendInv ==
  /\ SpentApart
  /\ MemoryCoversDisk
  /\ SpendsAreSaved
  /\ SpendAcceptedOnce

\* A step that begins no SpendAt, saves none and answers none.
SameSpends ==
  /\ UNCHANGED acked
  /\ \A t \in Threads, n \in Nodes, b \in Bearers :
       /\ Spending(t, n, b)' =>
            /\ Spending(t, n, b)
            /\ cmd'[t].pc = "notify" => cmd[t].pc = "notify"
       /\ Spending(t, n, b) /\ cmd[t].pc = "persist" =>
            Spending(t, n, b)' /\ cmd'[t].pc = "persist"

\* A thread's update keeps its spend, or ends it after the save.
LEMMA UpdateSpends ==
  ASSUME TypeOK, NEW t \in Threads, NEW c,
         cmd' = [cmd EXCEPT ![t] = c], UNCHANGED acked,
         \/ /\ c.kind # "SpendAt"
            /\ cmd[t].kind # "SpendAt" \/ cmd[t].pc # "persist"
         \/ /\ c.kind = cmd[t].kind /\ c.node = cmd[t].node
            /\ c.bearer = cmd[t].bearer /\ c.pc = cmd[t].pc
  PROVE  SameSpends
<1>1. \A u \in Threads : cmd'[u] = IF u = t THEN c ELSE cmd[u]
  BY DEF TypeOK
<1> QED BY <1>1 DEF SameSpends, Spending

\* Of the admin commands only SpendAt begins one.
LEMMA AdminSpends ==
  ASSUME TypeOK, NEW t \in Threads, Admin(t)
  PROVE  \/ SameSpends
         \/ \E n \in Nodes, b \in Bearers : up[n] /\ AdminSpendAt(t, n, b)
<1> USE DEF Commands, Steps, history
<1>0. cmd[t].pc # "persist"
  BY DEF Admin, Free
<1>1. ASSUME NEW n \in Nodes, NEW p \in Peers(n), AdminLinkUp(t, n, p)
      PROVE  SameSpends
  <2> DEFINE c == Begin(t, "await", "LinkUp", n)
             s == [ledger |-> ledger[n], spent |-> spent[n]]
  <2>1. c \in Command /\ c.kind = "LinkUp"
    BY BeginTyped, BeginFields
  <2>2. [c EXCEPT !.peer = p, !.sent = s].kind = "LinkUp"
    <3> HIDE DEF c, s
    <3> QED BY <2>1 DEF Command
  <2> QED BY <1>1, <2>2, <1>0, UpdateSpends DEF AdminLinkUp
<1>2. ASSUME NEW n \in Nodes, NEW p \in Peers(n), AdminLinkDown(t, n, p)
      PROVE  SameSpends
  <2> DEFINE c == Begin(t, "apply", "LinkDown", n)
  <2>1. c \in Command /\ c.kind = "LinkDown"
    BY BeginTyped, BeginFields
  <2>2. [c EXCEPT !.peer = p].kind = "LinkDown"
    <3> HIDE DEF c
    <3> QED BY <2>1 DEF Command
  <2> QED BY <1>2, <2>2, <1>0, UpdateSpends DEF AdminLinkDown
<1>3. ASSUME NEW n \in Nodes, NEW p \in Peers(n), AdminPropagate(t, n, p)
      PROVE  SameSpends
  <2> DEFINE c == Begin(t, "await", "Propagate", n)
  <2>1. c \in Command /\ c.kind = "Propagate"
    BY BeginTyped, BeginFields
  <2>2. [c EXCEPT !.peer = p].kind = "Propagate"
    <3> HIDE DEF c
    <3> QED BY <2>1 DEF Command
  <2> QED BY <1>3, <2>2, <1>0, UpdateSpends DEF AdminPropagate
<1>4. ASSUME NEW n \in Nodes, NEW b \in Bearers, AdminSeed(t, n, b)
      PROVE  SameSpends
  <2>1. Begin(t, "persist", "Seed", n).kind = "Seed"
    BY BeginFields
  <2> QED BY <1>4, <2>1, <1>0, UpdateSpends DEF AdminSeed
<1>5. ASSUME NEW n \in Nodes, AdminConversionDay(t, n)
      PROVE  SameSpends
  <2> DEFINE c == Begin(t, "gather", "ConversionDay", n)
             x == Conflicts([m \in Nodes |-> disk[m].spent])
             s == spent[n]
  <2>1. c \in Command /\ c.kind = "ConversionDay"
    BY BeginTyped, BeginFields
  <2>2. [c EXCEPT !.seen[n] = s, !.left = Peers(n), !.atStart = x].kind
          = "ConversionDay"
    <3> HIDE DEF c, x, s
    <3> QED BY <2>1 DEF Command
  <2> QED BY <1>5, <2>2, <1>0, UpdateSpends DEF AdminConversionDay
<1> QED BY <1>1, <1>2, <1>3, <1>4, <1>5 DEF Admin, Seedable

\* Only its save takes a spend to the broadcast, only Answer ends it with Ok.
LEMMA ContinueSpends ==
  ASSUME TypeOK, NEW t \in Threads, Continue(t)
  PROVE  SameSpends \/ Persist(t) \/ Answer(t)
<1> USE DEF Steps, history
<1> DEFINE c == cmd[t]
<1>0. c \in Command
  BY DEF TypeOK
<1>1. CASE \/ ReceiveLinkUpAck(t) \/ ReceivePropagateReply(t) \/ ApplyLinkDown(t)
  <2>1. Goto(t, "persist") /\ c.kind # "SpendAt" /\ UNCHANGED acked
    BY <1>1 DEF ReceiveLinkUpAck, ReceivePropagateReply, ApplyLinkDown, At
  <2>2. [c EXCEPT !.pc = "persist"].kind # "SpendAt"
    <3> HIDE DEF c
    <3> QED BY <1>0, <2>1 DEF Command
  <2> QED BY <2>1, <2>2, UpdateSpends DEF Goto
<1>2. ASSUME NEW p \in Nodes, AskStatus(t, p)
      PROVE  SameSpends
  <2>1. c.kind = "ConversionDay"
    BY <1>2 DEF AskStatus, At
  <2>2. [c EXCEPT !.pc = "await", !.peer = p, !.left = @ \ {p}].kind # "SpendAt"
    <3> HIDE DEF c
    <3> QED BY <1>0, <2>1 DEF Command
  <2> QED BY <1>2, <2>1, <2>2, UpdateSpends DEF AskStatus
<1>3. CASE ReceiveStatusReply(t)
  <2>1. c.kind = "ConversionDay"
    BY <1>3 DEF ReceiveStatusReply, At
  <2>2. PICK m \in Replies(t, "StatusReply") :
          cmd' = [cmd EXCEPT ![t] = [cmd[t] EXCEPT !.pc = "gather",
                                                  !.seen[m.from] = m.spent]]
    BY <1>3 DEF ReceiveStatusReply
  <2>3. [c EXCEPT !.pc = "gather", !.seen[m.from] = m.spent].kind # "SpendAt"
    <3> HIDE DEF c
    <3> QED BY <1>0, <2>1 DEF Command
  <2> QED BY <1>3, <2>1, <2>2, <2>3, UpdateSpends DEF ReceiveStatusReply
<1>4. CASE ExchangeFails(t)
  <2>1. CASE c.kind = "ConversionDay"
    <3>1. [c EXCEPT !.pc = "gather", !.missing = @ \cup {c.peer}].kind # "SpendAt"
      <4> HIDE DEF c
      <4> QED BY <1>0, <2>1 DEF Command
    <3> QED BY <1>4, <2>1, <3>1, UpdateSpends DEF ExchangeFails
  <2>2. CASE c.kind # "ConversionDay"
    BY <1>4, <2>2, IdleTyped, UpdateSpends DEF ExchangeFails, Finish
  <2> QED BY <2>1, <2>2
<1>5. CASE Defer(t) \/ RejectConflict(t)
  BY <1>5, IdleTyped, UpdateSpends
  DEF Defer, RejectConflict, Gathered, At, Finish
<1>6. CASE Burn(t)
  <2> DEFINE x == Peers(c.node) \X BurnSet(c.seen)
  <2>1. c.kind = "ConversionDay"
    BY <1>6 DEF Burn, Gathered, At
  <2>2. [c EXCEPT !.pc = "persist", !.todo = x].kind # "SpendAt"
    <3> HIDE DEF c, x
    <3> QED BY <1>0, <2>1 DEF Command
  <2> QED BY <1>6, <2>1, <2>2, UpdateSpends DEF Burn
<1>7. CASE Notify(t)
  <2>1. PICK d \in c.todo :
          cmd' = [cmd EXCEPT ![t] = [cmd[t] EXCEPT !.todo = @ \ {d}]]
    BY <1>7 DEF Notify
  <2> DEFINE e == [c EXCEPT !.todo = @ \ {d}]
  <2>2. /\ e.kind = c.kind /\ e.node = c.node /\ e.bearer = c.bearer
        /\ e.pc = c.pc
    <3> HIDE DEF c
    <3> QED BY <1>0 DEF Command
  <2> QED BY <1>7, <2>1, <2>2, UpdateSpends DEF Notify
<1> QED BY <1>1, <1>2, <1>3, <1>4, <1>5, <1>6, <1>7 DEF Continue

-----------------------------------------------------------------------------
(* The invariant *)

\* A bearer that was seeded again stays marked.
LEMMA ReseededGrows ==
  ASSUME [Next]_vars
  PROVE  reseeded \subseteq reseeded'
<1> USE DEF history
<1>1. ASSUME NEW t \in Threads, Admin(t) PROVE reseeded \subseteq reseeded'
  BY <1>1 DEF Admin, AdminLinkUp, AdminLinkDown, AdminPropagate, AdminSpendAt,
              AdminSeed, AdminConversionDay
<1>2. ASSUME NEW t \in Threads, Continue(t) PROVE UNCHANGED reseeded
  BY <1>2 DEF Continue, ReceiveLinkUpAck, ReceivePropagateReply, ApplyLinkDown,
              AskStatus, ReceiveStatusReply, ExchangeFails, Defer,
              RejectConflict, Burn, Persist, Notify, Answer
<1>3. ASSUME NEW m \in net, HandlePeerMessage(m) \/ Lose(m)
      PROVE  UNCHANGED reseeded
  BY <1>3 DEF HandlePeerMessage, HandleLinkUpHello, HandleLinkDown,
              HandlePropagateRequest, HandleSpentNotify, HandleStatusRequest, Lose
<1>4. ASSUME NEW n \in Nodes, Crash(n) \/ Restart(n) PROVE UNCHANGED reseeded
  BY <1>4 DEF Crash, Restart
<1>5. CASE UNCHANGED vars
  BY <1>5 DEF vars
<1> QED BY <1>1, <1>2, <1>3, <1>4, <1>5 DEF Next, Deliver

LEMMA SameSpendsInv ==
  ASSUME FilesAreSaved, TypeOK, ThreadsOK, SpendInv, [Next]_vars, SameSpends,
         UNCHANGED <<up, spent>>
  PROVE  SpendsAreSaved' /\ SpendAcceptedOnce'
<1>1. \A n \in Nodes : disk[n].spent \subseteq disk'[n].spent
  BY DiskKeepsSpends DEF SpendInv, FilesAreSaved, FilesAreRead
<1>2. SpendsAreSaved'
  <2>1. ASSUME NEW n \in Nodes, up'[n], NEW b \in spent'[n] \ disk'[n].spent
        PROVE  \E t \in Threads : Spending(t, n, b)' /\ cmd'[t].pc = "persist"
    <3>1. b \in spent[n] \ disk[n].spent /\ b \in Bearers /\ up[n]
      BY <1>1, <2>1 DEF TypeOK
    <3> QED BY <3>1 DEF SpendInv, SpendsAreSaved, SameSpends
  <2> QED BY <1>1, <2>1 DEF SpendInv, SpendsAreSaved, SameSpends
<1>3. reseeded \subseteq reseeded'
  BY ReseededGrows
<1>4. SpendAcceptedOnce'
  BY <1>3 DEF SpendInv, SpendAcceptedOnce, SameSpends
<1> QED BY <1>2, <1>4

\* A bearer that can be spent was not spent before, or it was seeded again:
\* the second of two commands finds it gone, and so does one after a crash.
LEMMA AdminSpendAtInv ==
  ASSUME FilesAreSaved, TypeOK, ThreadsOK, SpendInv, [Next]_vars,
         NEW t \in Threads, NEW n \in Nodes, NEW b \in Bearers, up[n],
         cmd[t].pc # "persist", AdminSpendAt(t, n, b)
  PROVE  SpendsAreSaved' /\ SpendAcceptedOnce'
<1> DEFINE c == Begin(t, "persist", "SpendAt", n)
           x == link[n] \X {b}
           e == [c EXCEPT !.bearer = b, !.todo = x]
<1>1. c \in Command /\ c.pc = "persist" /\ c.kind = "SpendAt" /\ c.node = n
  BY BeginTyped, BeginFields DEF Commands, Steps
<1>2. e.kind = "SpendAt" /\ e.node = n /\ e.bearer = b /\ e.pc = "persist"
  <2> HIDE DEF c, x
  <2> QED BY <1>1 DEF Command
<1>3. \A u \in Threads : cmd'[u] = IF u = t THEN e ELSE cmd[u]
  BY DEF AdminSpendAt, TypeOK
<1>4. /\ acked' = acked /\ disk' = disk /\ reseeded' = reseeded
      /\ \A y \in Nodes : spent'[y] = IF y = n THEN spent[y] \cup {b} ELSE spent[y]
  BY DEF AdminSpendAt, TypeOK
<1>5. b \in reseeded \/ b \notin spent[n]
  BY DEF AdminSpendAt, SpendInv, SpentApart
<1>6. b \in reseeded \/ (b \notin acked[n] /\ \A u \in Threads : ~Spending(u, n, b))
  BY <1>5 DEF SpendInv, SpendsAreSaved, MemoryCoversDisk
<1> HIDE DEF c, x, e
<1>7. \A u \in Threads, y \in Nodes, z \in Bearers :
        /\ u = t /\ Spending(u, y, z)' => y = n /\ z = b
        /\ u # t => /\ Spending(u, y, z)' <=> Spending(u, y, z)
                    /\ cmd'[u].pc = cmd[u].pc
  <2>1. cmd'[t] = e /\ \A u \in Threads \ {t} : cmd'[u] = cmd[u]
    BY <1>3
  <2> QED BY <1>2, <2>1 DEF Spending
<1>8. cmd'[t].pc = "persist"
  BY <1>2, <1>3
<1>9. Spending(t, n, b)'
  BY <1>2, <1>3 DEF Spending
<1>10. SpendsAreSaved'
  <2>1. ASSUME NEW y \in Nodes, up'[y], NEW z \in spent'[y] \ disk'[y].spent
        PROVE  \E u \in Threads : Spending(u, y, z)' /\ cmd'[u].pc = "persist"
    <3>1. CASE y = n /\ z = b
      BY <1>8, <1>9, <3>1
    <3>2. CASE ~(y = n /\ z = b)
      <4>1. up[y] /\ z \in spent[y] \ disk[y].spent /\ z \in Bearers
        BY <1>4, <2>1, <3>2 DEF AdminSpendAt, TypeOK
      <4>2. PICK u \in Threads : Spending(u, y, z) /\ cmd[u].pc = "persist"
        BY <4>1 DEF SpendInv, SpendsAreSaved
      <4>3. u # t
        BY <4>2
      <4> QED BY <1>7, <4>1, <4>2, <4>3
    <3> QED BY <3>1, <3>2
  <2>2. \A y \in Nodes : acked'[y] \subseteq disk'[y].spent
    BY <1>4 DEF SpendInv, SpendsAreSaved
  <2>3. \A u \in Threads, y \in Nodes, z \in Bearers :
          Spending(u, y, z)' =>
            z \in spent'[y] /\ (cmd'[u].pc = "notify" => z \in disk'[y].spent)
    <3>1. \A u \in Threads, y \in Nodes, z \in Bearers :
            Spending(u, y, z) =>
              z \in spent[y] /\ (cmd[u].pc = "notify" => z \in disk[y].spent)
      BY DEF SpendInv, SpendsAreSaved
    <3> QED BY <1>4, <1>7, <1>8, <3>1
  <2> QED BY <2>1, <2>2, <2>3 DEF SpendsAreSaved
<1>11. SpendAcceptedOnce'
  BY <1>4, <1>6, <1>7 DEF SpendInv, SpendAcceptedOnce
<1> QED BY <1>10, <1>11

LEMMA PersistInv ==
  ASSUME FilesAreSaved, TypeOK, ThreadsOK, SpendInv, [Next]_vars,
         NEW t \in Threads, Persist(t)
  PROVE  SpendsAreSaved' /\ SpendAcceptedOnce'
<1> DEFINE n == cmd[t].node
<1>1. n \in Nodes /\ up[n]
  BY IdleTyped DEF Persist, ThreadsOK, ThreadOK
<1>2. disk' = [disk EXCEPT ![n] = [ledger |-> ledger[n], spent |-> spent[n]]]
  BY DEF Persist, Saved, FilesAreSaved
<1>3. disk'[n].spent = spent[n] /\ spent' = spent /\ acked' = acked
  BY <1>1, <1>2 DEF Persist, TypeOK, memory, history
<1>4. \A y \in Nodes : disk[y].spent \subseteq disk'[y].spent
  BY DiskKeepsSpends DEF SpendInv, FilesAreSaved, FilesAreRead
<1>5. \A u \in Threads, y \in Nodes, b \in Bearers :
        Spending(u, y, b)' => /\ Spending(u, y, b)
                              /\ u # t => cmd'[u].pc = cmd[u].pc
  <2>1. CASE cmd[t].kind \in {"SpendAt", "ConversionDay"}
    <3> DEFINE c == cmd[t]
    <3>1. c \in Command
      BY DEF TypeOK
    <3> DEFINE e == [c EXCEPT !.pc = "notify"]
    <3>2. e.kind = c.kind /\ e.node = c.node /\ e.bearer = c.bearer
      <4> HIDE DEF c
      <4> QED BY <3>1 DEF Command
    <3>3. \A u \in Threads : cmd'[u] = IF u = t THEN e ELSE cmd[u]
      BY <2>1 DEF Persist, Goto, TypeOK
    <3> QED BY <3>2, <3>3 DEF Spending
  <2>2. CASE cmd[t].kind \notin {"SpendAt", "ConversionDay"}
    <3>1. \A u \in Threads : cmd'[u] = IF u = t THEN Idle ELSE cmd[u]
      BY <2>2 DEF Persist, Finish, TypeOK
    <3> QED BY <3>1, IdleTyped DEF Spending
  <2> QED BY <2>1, <2>2
<1>6. SpendsAreSaved'
  <2>1. \A y \in Nodes : acked'[y] \subseteq disk'[y].spent
    BY <1>3, <1>4 DEF SpendInv, SpendsAreSaved
  <2>2. ASSUME NEW u \in Threads, NEW y \in Nodes, NEW b \in Bearers,
               Spending(u, y, b)'
        PROVE  b \in spent'[y] /\ (cmd'[u].pc = "notify" => b \in disk'[y].spent)
    <3>1. Spending(u, y, b) /\ b \in spent'[y]
      BY <1>3, <1>5, <2>2 DEF SpendInv, SpendsAreSaved
    <3>2. CASE u = t
      BY <1>3, <3>1, <3>2 DEF Spending
    <3>3. CASE u # t
      BY <1>4, <1>5, <2>2, <3>1, <3>3 DEF SpendInv, SpendsAreSaved
    <3> QED BY <3>1, <3>2, <3>3
  <2>3. ASSUME NEW y \in Nodes, up'[y], NEW b \in spent'[y] \ disk'[y].spent
        PROVE  \E u \in Threads : Spending(u, y, b)' /\ cmd'[u].pc = "persist"
    <3>1. y # n
      BY <1>3, <2>3
    <3>2. up[y] /\ b \in spent[y] \ disk[y].spent
      BY <1>3, <1>4, <2>3 DEF Persist
    <3>3. PICK u \in Threads : Spending(u, y, b) /\ cmd[u].pc = "persist"
      BY <3>2 DEF SpendInv, SpendsAreSaved
    <3>4. u # t
      BY <3>1, <3>3 DEF Spending
    <3>5. cmd'[u] = cmd[u]
      BY <3>4 DEF Persist, Goto, Finish, TypeOK
    <3> QED BY <3>3, <3>5 DEF Spending
  <2> QED BY <2>1, <2>2, <2>3 DEF SpendsAreSaved
<1>7. SpendAcceptedOnce'
  BY <1>3, <1>5 DEF SpendInv, SpendAcceptedOnce, Persist, history
<1> QED BY <1>6, <1>7

\* Ok is said of a spend that is on disk, and no other thread has it.
LEMMA AnswerInv ==
  ASSUME TypeOK, ThreadsOK, SpendInv, NEW t \in Threads, Answer(t)
  PROVE  SpendsAreSaved' /\ SpendAcceptedOnce'
<1> DEFINE n == cmd[t].node
           b == cmd[t].bearer
<1>1. n \in Nodes
  BY IdleTyped DEF Answer, ThreadsOK, ThreadOK
<1>2. spent' = spent /\ disk' = disk
  BY DEF Answer, memory
<1>3. \A u \in Threads, y \in Nodes, z \in Bearers :
        Spending(u, y, z)' => u # t /\ Spending(u, y, z) /\ cmd'[u].pc = cmd[u].pc
  <2>1. \A u \in Threads : cmd'[u] = IF u = t THEN Idle ELSE cmd[u]
    BY DEF Answer, Finish, TypeOK
  <2> QED BY <2>1, IdleTyped DEF Spending
<1>4. \A y \in Nodes, z \in Bearers :
        z \in acked'[y] => z \in acked[y] \/ Spending(t, y, z)
  BY <1>1 DEF Answer, TypeOK, Spending
<1>5. \A y \in Nodes : acked'[y] \subseteq Bearers
  <2>1. cmd[t].kind = "SpendAt" => b \in Bearers
    BY IdleTyped DEF ThreadsOK, ThreadOK
  <2> QED BY <1>1, <2>1 DEF Answer, TypeOK
<1>6. cmd[t].pc = "notify"
  BY DEF Answer
<1>7. SpendsAreSaved'
  <2>1. ASSUME NEW y \in Nodes, up'[y], NEW z \in spent'[y] \ disk'[y].spent
        PROVE  \E u \in Threads : Spending(u, y, z)' /\ cmd'[u].pc = "persist"
    <3>1. up[y] /\ z \in spent[y] \ disk[y].spent
      BY <1>2, <2>1 DEF Answer
    <3>2. PICK u \in Threads : Spending(u, y, z) /\ cmd[u].pc = "persist"
      BY <3>1 DEF SpendInv, SpendsAreSaved
    <3>3. cmd'[u] = cmd[u]
      BY <1>6, <3>2 DEF Answer, Finish, TypeOK
    <3> QED BY <3>2, <3>3 DEF Spending
  <2> QED BY <1>2, <1>3, <1>4, <1>5, <1>6, <2>1 DEF SpendInv, SpendsAreSaved
<1>8. SpendAcceptedOnce'
  BY <1>3, <1>4 DEF SpendInv, SpendAcceptedOnce, Answer
<1> QED BY <1>7, <1>8

LEMMA CrashInv ==
  ASSUME FilesAreSaved, TypeOK, ThreadsOK, SpendInv, NEW n \in Nodes, Crash(n) \/ Restart(n)
  PROVE  SpendsAreSaved' /\ SpendAcceptedOnce'
<1>1. disk' = disk /\ acked' = acked
  BY DEF Crash, Restart, history
<1>2. \A t \in Threads, y \in Nodes, b \in Bearers :
        Spending(t, y, b)' => y # n /\ Spending(t, y, b) /\ cmd'[t] = cmd[t]
  <2>1. CASE Crash(n)
    BY <2>1, IdleTyped DEF Crash, Spending
  <2>2. CASE Restart(n)
    BY <2>2, IdleTyped DEF Restart, Spending, ThreadsOK, ThreadOK
  <2> QED BY <2>1, <2>2
<1>3. \A y \in Nodes : y # n => spent'[y] = spent[y]
  BY DEF Crash, Restart, TypeOK
<1>4. SpendsAreSaved'
  <2>1. ASSUME NEW y \in Nodes, up'[y], NEW b \in spent'[y] \ disk'[y].spent
        PROVE  \E t \in Threads : Spending(t, y, b)' /\ cmd'[t].pc = "persist"
    <3>1. y # n
      <4>1. CASE Crash(n)
        BY <2>1, <4>1 DEF Crash, TypeOK
      <4>2. CASE Restart(n)
        BY <1>1, <2>1, <4>2 DEF Restart, Loaded, FilesAreSaved, TypeOK
      <4> QED BY <4>1, <4>2
    <3>2. up[y] /\ b \in spent[y] \ disk[y].spent
      BY <1>1, <1>3, <2>1, <3>1 DEF Crash, Restart, TypeOK
    <3>3. PICK t \in Threads : Spending(t, y, b) /\ cmd[t].pc = "persist"
      BY <3>2 DEF SpendInv, SpendsAreSaved
    <3>4. cmd'[t] = cmd[t]
      BY <3>1, <3>3 DEF Crash, Restart, Spending, TypeOK
    <3> QED BY <3>3, <3>4 DEF Spending
  <2> QED BY <1>1, <1>2, <1>3, <2>1 DEF SpendInv, SpendsAreSaved
<1>5. SpendAcceptedOnce'
  BY <1>1, <1>2 DEF SpendInv, SpendAcceptedOnce, Crash, Restart, history
<1> QED BY <1>4, <1>5

LEMMA StepSpend ==
  ASSUME FilesAreSaved
  PROVE  TypeOK /\ ThreadsOK /\ OnlyIssued /\ SpendInv /\ [Next]_vars => SpendInv'
<1> SUFFICES ASSUME TypeOK, ThreadsOK, OnlyIssued, SpendInv, [Next]_vars
             PROVE  SpendInv'
  OBVIOUS
<1>1. SpentApart' /\ MemoryCoversDisk'
  BY StepApart, StepMemory DEF SpendInv, FilesAreSaved, FilesAreRead
<1>2. SpendsAreSaved' /\ SpendAcceptedOnce'
  <2>1. CASE UNCHANGED vars
    <3>1. SameSpends /\ UNCHANGED <<up, spent>>
      BY <2>1 DEF vars, memory, history, SameSpends, Spending
    <3> QED BY <3>1, SameSpendsInv
  <2>2. ASSUME NEW t \in Threads, Admin(t)
        PROVE  SpendsAreSaved' /\ SpendAcceptedOnce'
    <3>1. cmd[t].pc # "persist"
      BY <2>2 DEF Admin, Free
    <3>2. \/ UNCHANGED <<up, spent>>
          \/ \E n \in Nodes, b \in Bearers : up[n] /\ AdminSpendAt(t, n, b)
      BY <2>2 DEF Admin, AdminLinkUp, AdminLinkDown, AdminPropagate,
                  AdminSeed, AdminConversionDay, memory
    <3> QED BY <2>2, <3>1, <3>2, AdminSpends, SameSpendsInv, AdminSpendAtInv
  <2>3. ASSUME NEW t \in Threads, Continue(t)
        PROVE  SpendsAreSaved' /\ SpendAcceptedOnce'
    <3>1. UNCHANGED <<up, spent>>
      BY <2>3 DEF memory, Continue, ReceiveLinkUpAck, ReceivePropagateReply,
                  ApplyLinkDown, AskStatus, ReceiveStatusReply, ExchangeFails,
                  Defer, RejectConflict, Burn, Persist, Notify, Answer
    <3> QED BY <2>3, <3>1, ContinueSpends, SameSpendsInv, PersistInv, AnswerInv
  <2>4. ASSUME NEW m \in net, HandlePeerMessage(m) \/ Lose(m)
        PROVE  SpendsAreSaved' /\ SpendAcceptedOnce'
    <3>1. UNCHANGED <<up, spent, cmd, acked>>
      BY <2>4 DEF memory, HandlePeerMessage, HandleLinkUpHello, HandleLinkDown,
                  HandlePropagateRequest, HandleSpentNotify,
                  HandleStatusRequest, Lose, history
    <3> QED BY <3>1, SameSpendsInv DEF SameSpends, Spending
  <2> QED BY <2>1, <2>2, <2>3, <2>4, CrashInv DEF Next, Deliver
<1> QED BY <1>1, <1>2 DEF SpendInv

LEMMA SpendInvHolds ==
  ASSUME FilesAreSaved
  PROVE  Spec => []SpendInv
<1>1. Init => SpendInv
  BY IdleTyped DEF Init, SpendInv, SpentApart, MemoryCoversDisk,
                   SpendsAreSaved, SpendAcceptedOnce, Spending
<1> QED BY <1>1, StepSpend, IssuedOnly, Typing, PTL DEF Spec

\* A spend is in the state file, for good, when its SpendAt notifies peers or
\* answers Ok (later saves write a spent set that covers the file), and any
\* other spend of a running node is one whose SpendAt is about to save it.
THEOREM SpendIsSavedBeforeAnswered ==
  ASSUME FilesAreSaved
  PROVE  Spec => []SpendSavedBeforeAnswered
<1>1. SpendInv => SpendSavedBeforeAnswered
  BY DEF SpendInv, SpendsAreSaved, SpendSavedBeforeAnswered
<1> QED BY <1>1, SpendInvHolds, PTL

\* A node accepts the spend of a bearer at most once, over all concurrent
\* admin commands and all crashes and restarts, unless it is seeded again.
THEOREM SpendIsAcceptedOnce ==
  ASSUME FilesAreSaved
  PROVE  Spec => []SpendAcceptedOnce
<1>1. SpendInv => SpendAcceptedOnce
  BY DEF SpendInv
<1> QED BY <1>1, SpendInvHolds, PTL

-----------------------------------------------------------------------------
(* The exchanges of a ConversionDay *)

\* The messages of t's exchange.
Mine(t) == {m \in net : m.op = t}

Gathering(t) == cmd[t].kind = "ConversionDay" /\ cmd[t].pc \in {"gather", "await"}

\* Between two peers nothing is under way; while t waits for a peer there is
\* at most its request or the peer's reply.
OneExchange(t) ==
  cmd[t].kind = "ConversionDay" =>
    /\ cmd[t].pc = "gather" => Mine(t) = {}
    /\ cmd[t].pc = "await" =>
         \A m \in Mine(t) :
           /\ \A k \in Mine(t) : k = m
           /\ \/ m.type = "StatusRequest" /\ m.to = cmd[t].peer
              \/ m.type = "StatusReply" /\ m.from = cmd[t].peer

\* Node p has b's spend on disk, and t will hear of it unless p is missed.
Reported(t, b, p) ==
  /\ b \in disk[p].spent
  /\ \/ p \in cmd[t].left
     \/ p \in cmd[t].missing
     \/ cmd[t].pc = "await" /\ cmd[t].peer = p
     \/ b \in cmd[t].seen[p]
  /\ cmd[t].pc = "await" /\ cmd[t].peer = p =>
       \A m \in Mine(t) : m.type = "StatusReply" => b \in m.spent

\* Each conflict of the start has two spenders t hears of.
ConflictsReported(t) ==
  Gathering(t) =>
    \A b \in cmd[t].atStart :
      \E x, y \in Nodes : x # y /\ Reported(t, b, x) /\ Reported(t, b, y)

HonestThread(t) ==
  cmd[t].kind = "ConversionDay" /\ cmd[t].pc \in {"persist", "notify"}
    => cmd[t].atStart = {}

GatherOK(t) == OneExchange(t) /\ ConflictsReported(t) /\ HonestThread(t)

GatherInv == MemoryCoversDisk /\ \A t \in Threads : GatherOK(t)

-----------------------------------------------------------------------------
(* Steps of other threads and nodes *)

\* The files only gain spends, t is not concerned and its messages only get
\* fewer.
LEMMA OtherStep ==
  ASSUME NEW t \in Threads, GatherOK(t), cmd'[t] = cmd[t],
         Mine(t)' \subseteq Mine(t),
         \A n \in Nodes : disk[n].spent \subseteq disk'[n].spent
  PROVE  GatherOK(t)'
<1>1. OneExchange(t)'
  BY DEF GatherOK, OneExchange
<1>2. ASSUME NEW b, NEW p \in Nodes, Reported(t, b, p) PROVE Reported(t, b, p)'
  BY <1>2 DEF Reported
<1>3. ConflictsReported(t)'
  BY <1>2 DEF GatherOK, ConflictsReported, Gathering
<1>4. HonestThread(t)'
  BY DEF GatherOK, HonestThread
<1> QED BY <1>1, <1>3, <1>4 DEF GatherOK

\* A thread that is not collecting and did not get past a burn is fine.
LEMMA NotGathering ==
  ASSUME NEW t \in Threads, cmd'[t].kind # "ConversionDay"
  PROVE  GatherOK(t)'
BY DEF GatherOK, OneExchange, ConflictsReported, Gathering, HonestThread

\* The messages of a step of thread u are u's.
LEMMA SendMine ==
  ASSUME NEW t \in Threads, NEW u \in Threads \ {t}, NEW type, NEW from,
         NEW to, NEW led, NEW spt, Send(Msg(type, u, from, to, led, spt))
  PROVE  Mine(t)' \subseteq Mine(t)
BY DEF Send, Msg, Mine

LEMMA AdminMine ==
  ASSUME TypeOK, NEW t \in Threads, NEW u \in Threads \ {t}, Admin(u)
  PROVE  cmd'[t] = cmd[t] /\ Mine(t)' \subseteq Mine(t)
<1>1. cmd'[t] = cmd[t]
  BY DEF Admin, AdminLinkUp, AdminLinkDown, AdminPropagate, AdminSpendAt,
         AdminSeed, AdminConversionDay, TypeOK
<1>2. ASSUME NEW n \in Nodes, NEW p \in Nodes,
             \/ AdminLinkUp(u, n, p) \/ AdminLinkDown(u, n, p)
             \/ AdminPropagate(u, n, p)
      PROVE  Mine(t)' \subseteq Mine(t)
  BY <1>2, SendMine DEF AdminLinkUp, AdminLinkDown, AdminPropagate
<1>3. ASSUME net' = net PROVE Mine(t)' \subseteq Mine(t)
  BY <1>3 DEF Mine
<1>4. Mine(t)' \subseteq Mine(t)
  BY <1>2, <1>3 DEF Admin, AdminSpendAt, AdminSeed, AdminConversionDay, Peers
<1> QED BY <1>1, <1>4

LEMMA ContinueMine ==
  ASSUME TypeOK, NEW t \in Threads, NEW u \in Threads \ {t}, Continue(u)
  PROVE  cmd'[t] = cmd[t] /\ Mine(t)' \subseteq Mine(t)
<1>1. cmd'[t] = cmd[t]
  BY DEF Continue, ReceiveLinkUpAck, ReceivePropagateReply, ApplyLinkDown,
         AskStatus, ReceiveStatusReply, ExchangeFails, Defer, RejectConflict,
         Burn, Persist, Notify, Answer, Goto, Finish, TypeOK
<1>2. ASSUME net' \subseteq net PROVE Mine(t)' \subseteq Mine(t)
  BY <1>2 DEF Mine
<1>3. CASE \/ ReceiveLinkUpAck(u) \/ ReceivePropagateReply(u)
           \/ ApplyLinkDown(u) \/ ReceiveStatusReply(u) \/ ExchangeFails(u)
           \/ Defer(u) \/ RejectConflict(u) \/ Burn(u) \/ Persist(u)
           \/ Answer(u)
  BY <1>1, <1>2, <1>3
  DEF ReceiveLinkUpAck, ReceivePropagateReply, ApplyLinkDown,
      ReceiveStatusReply, ExchangeFails, Defer, RejectConflict, Burn, Persist,
      Answer
<1>4. CASE \/ \E p \in Nodes : AskStatus(u, p)
           \/ Notify(u)
  BY <1>1, <1>4, SendMine DEF AskStatus, Notify
<1> QED BY <1>3, <1>4 DEF Continue

\* A handler answers on the connection of the message.
LEMMA HandlerMine ==
  ASSUME TypeOK, NEW t \in Threads, NEW m \in net, HandlePeerMessage(m)
  PROVE  /\ cmd' = cmd /\ disk' = disk
         /\ m.op # t => Mine(t)' \subseteq Mine(t)
         /\ m.type # "StatusReply"
<1> USE DEF HandlePeerMessage, HandleLinkUpHello, HandleLinkDown,
            HandlePropagateRequest, HandleSpentNotify, HandleStatusRequest
<1>1. cmd' = cmd /\ disk' = disk /\ m.type # "StatusReply"
  BY DEF Incoming
<1>2. ASSUME NEW replies, HandledWith(m, replies),
             \A r \in replies : r.op = m.op, m.op # t
      PROVE  Mine(t)' \subseteq Mine(t)
  BY <1>2 DEF HandledWith, Mine
<1>3. ASSUME NEW type, NEW led, NEW spt
      PROVE  Msg(type, m.op, m.to, m.from, led, spt).op = m.op
  BY DEF Msg
<1>4. m.op # t => Mine(t)' \subseteq Mine(t)
  BY <1>2, <1>3
<1> QED BY <1>1, <1>4

-----------------------------------------------------------------------------
(* The round itself *)

\* The messages of t when a handler takes one of them.
LEMMA HandlerKeeps ==
  ASSUME TypeOK, MemoryCoversDisk, NEW t \in Threads, GatherOK(t),
         NEW m \in net, m.op = t, HandlePeerMessage(m)
  PROVE  GatherOK(t)'
<1>1. cmd' = cmd /\ disk' = disk /\ m.type # "StatusReply" /\ m \in Mine(t)
  BY HandlerMine DEF Mine
<1>2. HonestThread(t)'
  BY <1>1 DEF GatherOK, HonestThread
<1>3. CASE ~Gathering(t)
  BY <1>1, <1>2, <1>3
  DEF GatherOK, OneExchange, ConflictsReported, Gathering
<1>4. CASE Gathering(t)
  <2> DEFINE p == cmd[t].peer
             r == Msg("StatusReply", m.op, m.to, m.from, {}, spent[m.to])
  <2>1. /\ cmd[t].kind = "ConversionDay" /\ cmd[t].pc = "await"
        /\ m.type = "StatusRequest" /\ m.to = p
        /\ \A k \in Mine(t) : k = m
    BY <1>1, <1>4 DEF GatherOK, OneExchange, Gathering
  <2>2. HandledWith(m, {r}) /\ up[p]
    BY <2>1 DEF HandlePeerMessage, HandleLinkUpHello, HandleLinkDown,
                HandlePropagateRequest, HandleSpentNotify,
                HandleStatusRequest, Incoming
  <2>3. r.op = t /\ r.type = "StatusReply" /\ r.from = p /\ r.spent = spent[p]
    BY <2>1 DEF Msg
  <2> HIDE DEF r
  <2>4. Mine(t)' \subseteq {r}
    BY <2>1, <2>2 DEF HandledWith, Mine
  <2>5. OneExchange(t)'
    BY <1>1, <2>1, <2>3, <2>4 DEF OneExchange
  <2>6. ASSUME NEW b, NEW x \in Nodes, Reported(t, b, x) PROVE Reported(t, b, x)'
    <3>1. x = p => b \in spent[p]
      BY <2>2, <2>6 DEF Reported, MemoryCoversDisk
    <3> QED BY <1>1, <2>3, <2>4, <2>6, <3>1 DEF Reported
  <2>7. ConflictsReported(t)'
    BY <1>1, <1>4, <2>6 DEF GatherOK, ConflictsReported, Gathering
  <2> QED BY <1>2, <2>5, <2>7 DEF GatherOK
<1> QED BY <1>3, <1>4

\* The start of a round: the coordinator has its own spends, the rest it will
\* ask.
LEMMA ConversionDayStarts ==
  ASSUME TypeOK, MemoryCoversDisk, NEW t \in Threads, Free(t),
         NEW n \in Nodes, up[n], AdminConversionDay(t, n)
  PROVE  GatherOK(t)'
<1> DEFINE c == Begin(t, "gather", "ConversionDay", n)
           onDisk == [m \in Nodes |-> disk[m].spent]
           x == Conflicts(onDisk)
           s == spent[n]
           e == [c EXCEPT !.seen[n] = s, !.left = Peers(n), !.atStart = x]
<1>1. c \in Command /\ c.pc = "gather" /\ c.kind = "ConversionDay"
      /\ c.seen = [m \in Nodes |-> {}]
  <2>1. "gather" \in Steps /\ "ConversionDay" \in Commands
    BY DEF Commands, Steps
  <2>2. Begin(t, "gather", "ConversionDay", n).seen = [m \in Nodes |-> {}]
    BY <2>1, BeginFields, Zenon
  <2> QED BY <2>1, <2>2, BeginTyped, BeginFields
<1>2. /\ e.pc = "gather" /\ e.kind = "ConversionDay" /\ e.left = Peers(n)
      /\ e.atStart = x /\ e.seen[n] = s
  <2> HIDE DEF c, x, s
  <2> QED BY <1>1 DEF Command
<1>3. cmd'[t] = e /\ disk' = disk /\ net' = net
  BY DEF AdminConversionDay, TypeOK
<1> HIDE DEF c, e
<1>4. Mine(t)' = {}
  BY <1>3 DEF Free, Mine
<1>5. OneExchange(t)' /\ HonestThread(t)'
  BY <1>2, <1>3, <1>4 DEF OneExchange, HonestThread
<1>6. ASSUME NEW b \in Bearers, NEW y \in Nodes, b \in disk[y].spent
      PROVE  Reported(t, b, y)'
  <2>1. y = n => b \in s
    BY <1>6 DEF MemoryCoversDisk
  <2> QED BY <1>2, <1>3, <1>4, <1>6, <2>1 DEF Reported, Peers
<1>7. \A b \in x : \E y, z \in Nodes :
        y # z /\ b \in disk[y].spent /\ b \in disk[z].spent
  BY DEF Conflicts
<1>8. x \subseteq Bearers
  <2>1. onDisk \in [Nodes -> SUBSET Bearers]
    BY DEF TypeOK, NodeState
  <2> HIDE DEF onDisk
  <2> QED BY <2>1, BurnTyped
<1>9. ConflictsReported(t)'
  <2>1. cmd'[t].atStart = x
    BY <1>2, <1>3
  <2> HIDE DEF x
  <2> QED BY <1>6, <1>7, <1>8, <2>1 DEF ConflictsReported
<1> QED BY <1>5, <1>9 DEF GatherOK

LEMMA AskStatusKeeps ==
  ASSUME TypeOK, NEW t \in Threads, GatherOK(t), NEW p \in Nodes, AskStatus(t, p)
  PROVE  GatherOK(t)'
<1> DEFINE c == cmd[t]
           r == Msg("StatusRequest", t, cmd[t].node, p, {}, {})
           e == [c EXCEPT !.pc = "await", !.peer = p, !.left = @ \ {p}]
<1>1. c \in Command /\ c.pc = "gather" /\ c.kind = "ConversionDay"
  BY DEF AskStatus, At, TypeOK
<1>2. /\ e.pc = "await" /\ e.kind = "ConversionDay" /\ e.peer = p
      /\ e.left = c.left \ {p} /\ e.missing = c.missing /\ e.seen = c.seen
      /\ e.atStart = c.atStart
  <2> HIDE DEF c
  <2> QED BY <1>1 DEF Command
<1>3. cmd'[t] = e /\ disk' = disk /\ net' \subseteq net \cup {r}
  BY DEF AskStatus, Send, TypeOK
<1>4. r.type = "StatusRequest" /\ r.to = p
  BY DEF Msg
<1> HIDE DEF r, e
<1>5. Mine(t)' \subseteq {r}
  BY <1>1, <1>3 DEF GatherOK, OneExchange, Mine
<1>6. OneExchange(t)' /\ HonestThread(t)'
  BY <1>2, <1>3, <1>4, <1>5 DEF OneExchange, HonestThread
<1>7. ASSUME NEW b, NEW x \in Nodes, Reported(t, b, x) PROVE Reported(t, b, x)'
  <2>1. b \in disk'[x].spent
    BY <1>3, <1>7 DEF Reported
  <2>2. \A m \in Mine(t)' : m.type # "StatusReply"
    BY <1>4, <1>5
  <2>3. \/ x \in e.left \/ x \in e.missing \/ x = p \/ b \in e.seen[x]
    BY <1>1, <1>2, <1>7 DEF Reported
  <2> QED BY <1>2, <1>3, <2>1, <2>2, <2>3 DEF Reported
<1>8. ConflictsReported(t)'
  BY <1>1, <1>2, <1>3, <1>7 DEF GatherOK, ConflictsReported, Gathering
<1> QED BY <1>6, <1>8 DEF GatherOK

LEMMA ReceiveStatusReplyKeeps ==
  ASSUME TypeOK, NEW t \in Threads, GatherOK(t), ReceiveStatusReply(t)
  PROVE  GatherOK(t)'
<1> DEFINE c == cmd[t]
<1>1. c \in Command /\ c.pc = "await" /\ c.kind = "ConversionDay"
  BY DEF ReceiveStatusReply, At, TypeOK
<1>2. PICK m \in Replies(t, "StatusReply") :
        /\ cmd' = [cmd EXCEPT ![t] = [cmd[t] EXCEPT !.pc = "gather",
                                                   !.seen[m.from] = m.spent]]
        /\ net' = net \ {m}
  BY DEF ReceiveStatusReply
<1>3. /\ m \in Mine(t) /\ m.type = "StatusReply" /\ m.from = c.peer
      /\ \A k \in Mine(t) : k = m
      /\ m.from \in Nodes
  BY <1>1 DEF Replies, Mine, GatherOK, OneExchange, TypeOK, Message
<1> DEFINE e == [c EXCEPT !.pc = "gather", !.seen[m.from] = m.spent]
<1>4. /\ e.pc = "gather" /\ e.kind = "ConversionDay" /\ e.left = c.left
      /\ e.missing = c.missing /\ e.atStart = c.atStart
      /\ e.seen = [c.seen EXCEPT ![m.from] = m.spent]
  <2> HIDE DEF c
  <2> QED BY <1>1 DEF Command
<1>5. cmd'[t] = e /\ disk' = disk
  BY <1>2 DEF ReceiveStatusReply, TypeOK
<1>6. Mine(t)' = {}
  BY <1>2, <1>3 DEF Mine
<1>7. \A x \in Nodes : e.seen[x] = IF x = m.from THEN m.spent ELSE c.seen[x]
  <2>1. c.seen \in [Nodes -> SUBSET Bearers]
    <3> HIDE DEF c
    <3> QED BY <1>1 DEF Command
  <2> HIDE DEF c, e
  <2> QED BY <1>3, <1>4, <2>1
<1> HIDE DEF e
<1>8. OneExchange(t)' /\ HonestThread(t)'
  BY <1>4, <1>5, <1>6 DEF OneExchange, HonestThread
<1>9. ASSUME NEW b, NEW x \in Nodes, Reported(t, b, x) PROVE Reported(t, b, x)'
  <2>1. x = m.from => b \in m.spent
    BY <1>1, <1>3, <1>9 DEF Reported
  <2>2. x \in e.left \/ x \in e.missing \/ b \in e.seen[x]
    BY <1>3, <1>4, <1>7, <1>9, <2>1 DEF Reported
  <2> QED BY <1>4, <1>5, <1>9, <2>2 DEF Reported
<1>10. ConflictsReported(t)'
  BY <1>1, <1>4, <1>5, <1>9 DEF GatherOK, ConflictsReported, Gathering
<1> QED BY <1>8, <1>10 DEF GatherOK

\* A peer that does not answer is missed.
LEMMA ExchangeFailsKeeps ==
  ASSUME TypeOK, NEW t \in Threads, GatherOK(t), ExchangeFails(t)
  PROVE  GatherOK(t)'
<1>1. CASE cmd[t].kind # "ConversionDay"
  <2>1. cmd'[t] = Idle
    BY <1>1 DEF ExchangeFails, Finish, TypeOK
  <2> QED BY <2>1, IdleTyped, NotGathering
<1>2. CASE cmd[t].kind = "ConversionDay"
  <2> DEFINE c == cmd[t]
             e == [c EXCEPT !.pc = "gather", !.missing = @ \cup {c.peer}]
  <2>1. c \in Command /\ c.pc = "await" /\ c.kind = "ConversionDay"
    BY <1>2 DEF ExchangeFails, TypeOK
  <2>2. /\ e.pc = "gather" /\ e.kind = "ConversionDay" /\ e.left = c.left
        /\ e.missing = c.missing \cup {c.peer} /\ e.seen = c.seen
        /\ e.atStart = c.atStart
    <3> HIDE DEF c
    <3> QED BY <2>1 DEF Command
  <2>3. cmd'[t] = e /\ disk' = disk
    BY <1>2 DEF ExchangeFails, TypeOK
  <2> HIDE DEF e
  <2>4. Mine(t)' = {}
    BY DEF ExchangeFails, Mine
  <2>5. OneExchange(t)' /\ HonestThread(t)'
    BY <2>2, <2>3, <2>4 DEF OneExchange, HonestThread
  <2>6. ASSUME NEW b, NEW x \in Nodes, Reported(t, b, x) PROVE Reported(t, b, x)'
    BY <2>2, <2>3, <2>6 DEF Reported
  <2>7. ConflictsReported(t)'
    BY <2>1, <2>2, <2>3, <2>6 DEF GatherOK, ConflictsReported, Gathering
  <2> QED BY <2>5, <2>7 DEF GatherOK
<1> QED BY <1>1, <1>2

\* A burn of a complete, conflict-free round: no conflict of the start can
\* have been overlooked.
LEMMA BurnKeeps ==
  ASSUME TypeOK, NEW t \in Threads, GatherOK(t), Burn(t)
  PROVE  GatherOK(t)'
<1> DEFINE c == cmd[t]
           x == Peers(c.node) \X BurnSet(c.seen)
           e == [c EXCEPT !.pc = "persist", !.todo = x]
<1>1. /\ c \in Command /\ c.pc = "gather" /\ c.kind = "ConversionDay"
      /\ c.left = {} /\ c.missing = {} /\ Conflicts(c.seen) = {}
  BY DEF Burn, Gathered, At, TypeOK
<1>2. c.atStart = {}
  <2>1. SUFFICES ASSUME NEW b \in c.atStart PROVE FALSE
    OBVIOUS
  <2>2. PICK y, z \in Nodes : y # z /\ Reported(t, b, y) /\ Reported(t, b, z)
    BY <1>1 DEF GatherOK, ConflictsReported, Gathering
  <2>3. b \in c.seen[y] /\ b \in c.seen[z]
    BY <1>1, <2>2 DEF Reported
  <2>4. DOMAIN c.seen = Nodes
    <3> HIDE DEF c
    <3> QED BY <1>1 DEF Command
  <2>5. b \in Conflicts(c.seen)
    BY <2>2, <2>3, <2>4 DEF Conflicts, BurnSet
  <2> QED BY <1>1, <2>5
<1>3. e.pc = "persist" /\ e.kind = "ConversionDay" /\ e.atStart = c.atStart
  <2> HIDE DEF c, x
  <2> QED BY <1>1 DEF Command
<1>4. cmd'[t] = e
  BY DEF Burn, TypeOK
<1> HIDE DEF e
<1> QED BY <1>2, <1>3, <1>4
        DEF GatherOK, OneExchange, ConflictsReported, Gathering, HonestThread

\* After the burn the round is saved, broadcast and answered.
LEMMA AfterBurnKeeps ==
  ASSUME TypeOK, NEW t \in Threads, GatherOK(t),
         Defer(t) \/ RejectConflict(t) \/ Persist(t) \/ Notify(t) \/ Answer(t)
  PROVE  GatherOK(t)'
<1> DEFINE c == cmd[t]
<1>0. c \in Command
  BY DEF TypeOK
<1>1. \/ cmd'[t] = Idle
      \/ /\ c.pc \in {"persist", "notify"}
         /\ cmd'[t].pc \in {"persist", "notify"}
         /\ cmd'[t].kind = c.kind /\ cmd'[t].atStart = c.atStart
  <2>1. CASE Defer(t) \/ RejectConflict(t) \/ Answer(t)
    BY <2>1 DEF Defer, RejectConflict, Answer, Finish, TypeOK
  <2>2. CASE Persist(t)
    <3>1. cmd'[t] = Idle \/ cmd'[t] = [c EXCEPT !.pc = "notify"]
      BY <2>2 DEF Persist, Goto, Finish, TypeOK
    <3>2. c.pc = "persist"
      BY <2>2 DEF Persist
    <3> HIDE DEF c
    <3> QED BY <1>0, <3>1, <3>2 DEF Command
  <2>3. CASE Notify(t)
    <3>1. PICK d \in c.todo : cmd'[t] = [c EXCEPT !.todo = @ \ {d}]
      BY <2>3 DEF Notify, TypeOK
    <3>2. c.pc = "notify"
      BY <2>3 DEF Notify
    <3> HIDE DEF c
    <3> QED BY <1>0, <3>1, <3>2 DEF Command
  <2> QED BY <2>1, <2>2, <2>3
<1>2. CASE cmd'[t] = Idle
  BY <1>2, IdleTyped, NotGathering
<1>3. CASE cmd'[t] # Idle
  BY <1>1, <1>3
  DEF GatherOK, OneExchange, ConflictsReported, Gathering, HonestThread
<1> QED BY <1>2, <1>3

\* Only one admin command is a ConversionDay.
LEMMA AdminKinds ==
  ASSUME TypeOK, NEW t \in Threads, Admin(t),
         ~\E n \in Nodes : up[n] /\ AdminConversionDay(t, n)
  PROVE  cmd'[t].kind # "ConversionDay"
<1> USE DEF Commands, Steps
<1>1. ASSUME NEW n \in Nodes, NEW p \in Nodes, AdminLinkUp(t, n, p)
      PROVE  cmd'[t].kind # "ConversionDay"
  <2> DEFINE c == Begin(t, "await", "LinkUp", n)
             s == [ledger |-> ledger[n], spent |-> spent[n]]
  <2>1. c \in Command /\ c.kind = "LinkUp"
    BY BeginTyped, BeginFields
  <2>2. cmd'[t] = [c EXCEPT !.peer = p, !.sent = s]
    BY <1>1 DEF AdminLinkUp, TypeOK
  <2> HIDE DEF c, s
  <2> QED BY <2>1, <2>2 DEF Command
<1>2. ASSUME NEW n \in Nodes, NEW p \in Nodes,
             AdminLinkDown(t, n, p) \/ AdminPropagate(t, n, p)
      PROVE  cmd'[t].kind # "ConversionDay"
  <2>1. PICK c \in {Begin(t, "apply", "LinkDown", n),
                    Begin(t, "await", "Propagate", n)} :
          cmd'[t] = [c EXCEPT !.peer = p]
    BY <1>2 DEF AdminLinkDown, AdminPropagate, TypeOK
  <2>2. c \in Command /\ c.kind # "ConversionDay"
    BY BeginTyped, BeginFields
  <2> QED BY <2>1, <2>2 DEF Command
<1>3. ASSUME NEW n \in Nodes, NEW b \in Bearers, AdminSpendAt(t, n, b)
      PROVE  cmd'[t].kind # "ConversionDay"
  <2> DEFINE c == Begin(t, "persist", "SpendAt", n)
             x == link[n] \X {b}
  <2>1. c \in Command /\ c.kind = "SpendAt"
    BY BeginTyped, BeginFields
  <2>2. cmd'[t] = [c EXCEPT !.bearer = b, !.todo = x]
    BY <1>3 DEF AdminSpendAt, TypeOK
  <2> HIDE DEF c, x
  <2> QED BY <2>1, <2>2 DEF Command
<1>4. ASSUME NEW n \in Nodes, NEW b \in Bearers, AdminSeed(t, n, b)
      PROVE  cmd'[t].kind # "ConversionDay"
  BY <1>4, BeginFields DEF AdminSeed, TypeOK
<1> QED BY <1>1, <1>2, <1>3, <1>4 DEF Admin, Seedable, Peers

\* What t itself does.
LEMMA OwnStepKeeps ==
  ASSUME TypeOK, ThreadsOK, MemoryCoversDisk, NEW t \in Threads, GatherOK(t),
         Admin(t) \/ Continue(t)
  PROVE  GatherOK(t)'
<1>1. CASE Admin(t)
  <2>1. CASE \E n \in Nodes : up[n] /\ AdminConversionDay(t, n)
    BY <1>1, <2>1, ConversionDayStarts DEF Admin
  <2>2. CASE ~\E n \in Nodes : up[n] /\ AdminConversionDay(t, n)
    BY <1>1, <2>2, AdminKinds, NotGathering
  <2> QED BY <2>1, <2>2
<1>2. CASE ReceiveLinkUpAck(t) \/ ReceivePropagateReply(t) \/ ApplyLinkDown(t)
  <2> DEFINE c == cmd[t]
  <2>1. /\ c \in Command /\ c.kind # "ConversionDay"
        /\ cmd'[t] = [c EXCEPT !.pc = "persist"]
    BY <1>2 DEF ReceiveLinkUpAck, ReceivePropagateReply, ApplyLinkDown, At,
                Goto, TypeOK
  <2>2. cmd'[t].kind # "ConversionDay"
    <3> HIDE DEF c
    <3> QED BY <2>1 DEF Command
  <2> QED BY <2>2, NotGathering
<1> QED BY <1>1, <1>2, AskStatusKeeps, ReceiveStatusReplyKeeps,
           ExchangeFailsKeeps, BurnKeeps, AfterBurnKeeps DEF Continue

LEMMA StepGather ==
  ASSUME FilesAreRead
  PROVE  TypeOK /\ ThreadsOK /\ GatherInv /\ [Next]_vars => GatherInv'
<1> SUFFICES ASSUME TypeOK, ThreadsOK, GatherInv, [Next]_vars
             PROVE  GatherInv'
  OBVIOUS
<1>1. MemoryCoversDisk /\ MemoryCoversDisk'
  BY StepMemory DEF GatherInv
<1>2. \A n \in Nodes : disk[n].spent \subseteq disk'[n].spent
  BY <1>1, DiskKeepsSpends
<1> SUFFICES ASSUME NEW t \in Threads PROVE GatherOK(t)'
  BY <1>1 DEF GatherInv
<1>3. GatherOK(t)
  BY DEF GatherInv
<1>4. ASSUME NEW u \in Threads, Admin(u) \/ Continue(u)
      PROVE  GatherOK(t)'
  <2>1. CASE u = t
    BY <1>1, <1>3, <1>4, <2>1, OwnStepKeeps
  <2>2. CASE u # t
    BY <1>2, <1>3, <1>4, <2>2, AdminMine, ContinueMine, OtherStep
  <2> QED BY <2>1, <2>2
<1>5. ASSUME NEW m \in net, HandlePeerMessage(m)
      PROVE  GatherOK(t)'
  <2>1. CASE m.op = t
    BY <1>1, <1>3, <1>5, <2>1, HandlerKeeps
  <2>2. CASE m.op # t
    BY <1>2, <1>3, <1>5, <2>2, HandlerMine, OtherStep
  <2> QED BY <2>1, <2>2
<1>6. ASSUME NEW n \in Nodes, Crash(n)
      PROVE  GatherOK(t)'
  <2>1. CASE cmd[t].node = n
    <3>1. cmd'[t] = Idle
      BY <1>6, <2>1 DEF Crash
    <3> QED BY <3>1, IdleTyped, NotGathering
  <2>2. CASE cmd[t].node # n
    <3>1. cmd'[t] = cmd[t] /\ Mine(t)' \subseteq Mine(t)
      BY <1>6, <2>2 DEF Crash, Mine
    <3> QED BY <1>2, <1>3, <3>1, OtherStep
  <2> QED BY <2>1, <2>2
<1>7. ASSUME net' \subseteq net, cmd' = cmd
      PROVE  GatherOK(t)'
  <2>1. Mine(t)' \subseteq Mine(t)
    BY <1>7 DEF Mine
  <2> QED BY <1>2, <1>3, <1>7, <2>1, OtherStep
<1>8. ASSUME NEW n \in Nodes, Restart(n)
      PROVE  GatherOK(t)'
  BY <1>7, <1>8 DEF Restart
<1>9. ASSUME NEW m \in net, Lose(m)
      PROVE  GatherOK(t)'
  BY <1>7, <1>9 DEF Lose
<1>10. CASE UNCHANGED vars
  BY <1>7, <1>10 DEF vars
<1> QED BY <1>4, <1>5, <1>6, <1>8, <1>9, <1>10 DEF Next, Deliver

\* A ConversionDay that burns began when no double spend was on disk anywhere,
\* however spends, links, saves, crashes and lost messages interleave with
\* its requests, and also when saves fail: a peer it asks has in memory what
\* it had on disk, and a peer it could not ask makes it give up.
THEOREM SettlementIsHonest ==
  ASSUME FilesAreRead
  PROVE  Spec => []HonestSettlement
<1>1. Init => GatherInv
  BY IdleTyped DEF Init, GatherInv, MemoryCoversDisk, GatherOK, OneExchange,
                   ConflictsReported, Gathering, HonestThread
<1>2. GatherInv => HonestSettlement
  BY DEF GatherInv, GatherOK, HonestThread, HonestSettlement
<1> QED BY <1>1, <1>2, StepGather, Typing, PTL DEF Spec

-----------------------------------------------------------------------------
(* One command at a time, whatever fails *)

\* Every spend of p, in memory or on disk.
SpendsOf(p) == spent[p] \cup disk[p].spent

\* The round of t knows every spend of the nodes that it has heard, and a
\* reply that is under way tells of every spend of its sender: nobody spends
\* while the round lasts, and a restart brings back only what the disk had.
RoundComplete(t) ==
  Gathering(t) =>
    /\ \A p \in Nodes \ (cmd[t].left \cup cmd[t].missing) :
         \/ SpendsOf(p) \subseteq cmd[t].seen[p]
         \/ cmd[t].pc = "await" /\ p = cmd[t].peer
    /\ \A m \in Mine(t) :
         m.type = "StatusReply" => SpendsOf(m.from) \subseteq m.spent

LEMMA NoNewSpends ==
  ASSUME TypeOK, NEW t \in Threads, RoundComplete(t), cmd'[t] = cmd[t],
         Mine(t)' \subseteq Mine(t),
         \A p \in Nodes : SpendsOf(p)' \subseteq SpendsOf(p)
  PROVE  RoundComplete(t)'
<1>1. \A m \in Mine(t) : m.from \in Nodes
  BY DEF Mine, TypeOK, Message
<1> QED BY <1>1 DEF RoundComplete, Gathering

LEMMA HandlerCompletes ==
  ASSUME TypeOK, MemoryCoversDisk, NEW t \in Threads, RoundComplete(t),
         NEW m \in net, HandlePeerMessage(m)
  PROVE  RoundComplete(t)'
<1>1. cmd' = cmd /\ disk' = disk /\ spent' = spent
  BY DEF HandlePeerMessage, HandleLinkUpHello, HandleLinkDown,
         HandlePropagateRequest, HandleSpentNotify, HandleStatusRequest, memory
<1>2. m.to \in Nodes /\ \A k \in net : k.from \in Nodes
  BY DEF TypeOK, Message
<1>3. ASSUME NEW k \in net', k \notin net, k.type = "StatusReply"
      PROVE  k.from = m.to /\ k.spent = spent[m.to] /\ up[m.to]
  <2>1. CASE HandleStatusRequest(m)
    BY <1>3, <2>1 DEF HandleStatusRequest, HandledWith, Incoming, Msg
  <2>2. CASE ~HandleStatusRequest(m)
    BY <1>3, <2>2
    DEF HandlePeerMessage, HandleLinkUpHello, HandleLinkDown,
        HandlePropagateRequest, HandleSpentNotify, HandledWith, Msg
  <2> QED BY <2>1, <2>2
<1>4. ASSUME NEW k \in net', k \notin net, k.type = "StatusReply"
      PROVE  SpendsOf(k.from) \subseteq k.spent
  BY <1>2, <1>3, <1>4 DEF MemoryCoversDisk, SpendsOf
<1> QED BY <1>1, <1>4 DEF RoundComplete, Gathering, Mine, SpendsOf

\* The coordinator knows its own spends.
LEMMA ConversionDayCompletes ==
  ASSUME TypeOK, MemoryCoversDisk, NEW t \in Threads, Free(t),
         NEW n \in Nodes, up[n], AdminConversionDay(t, n)
  PROVE  RoundComplete(t)'
<1> DEFINE c == Begin(t, "gather", "ConversionDay", n)
           s == spent[n]
           x == Conflicts([m \in Nodes |-> disk[m].spent])
<1>1. c \in Command
  BY BeginTyped DEF Steps, Commands
<1>2. cmd'[t] = [c EXCEPT !.seen[n] = s, !.left = Peers(n), !.atStart = x]
      /\ UNCHANGED <<spent, disk, net>>
  BY DEF AdminConversionDay, TypeOK, memory
<1>3. cmd'[t].left = Peers(n) /\ cmd'[t].seen[n] = s
  <2> HIDE DEF c, s, x
  <2> QED BY <1>1, <1>2 DEF Command
<1>4. Mine(t)' = {}
  BY <1>2 DEF Mine, Free
<1>5. SpendsOf(n)' \subseteq s
  BY <1>2 DEF SpendsOf, MemoryCoversDisk
<1> HIDE DEF s
<1> QED BY <1>3, <1>4, <1>5 DEF RoundComplete, Peers

LEMMA AskStatusCompletes ==
  ASSUME TypeOK, NEW t \in Threads, RoundComplete(t), GatherOK(t),
         NEW p \in Nodes, AskStatus(t, p)
  PROVE  RoundComplete(t)'
<1> DEFINE c == cmd[t]
           r == Msg("StatusRequest", t, cmd[t].node, p, {}, {})
<1>1. /\ c \in Command /\ c.pc = "gather" /\ c.kind = "ConversionDay"
      /\ cmd'[t] = [c EXCEPT !.pc = "await", !.peer = p, !.left = @ \ {p}]
      /\ UNCHANGED <<spent, disk>> /\ net' \subseteq net \cup {r}
  BY DEF AskStatus, At, Send, TypeOK, memory
<1>2. /\ cmd'[t].pc = "await" /\ cmd'[t].peer = p
      /\ cmd'[t].left = c.left \ {p} /\ cmd'[t].missing = c.missing
      /\ cmd'[t].seen = c.seen
  <2> HIDE DEF c
  <2> QED BY <1>1 DEF Command
<1>3. r.type = "StatusRequest"
  BY DEF Msg
<1> HIDE DEF r
<1>4. \A m \in Mine(t)' : m.type # "StatusReply"
  BY <1>1, <1>3 DEF GatherOK, OneExchange, Mine
<1>5. \A q \in Nodes : SpendsOf(q)' = SpendsOf(q)
  BY <1>1 DEF SpendsOf
<1> QED BY <1>1, <1>2, <1>4, <1>5 DEF RoundComplete, Gathering

LEMMA ReceiveStatusReplyCompletes ==
  ASSUME TypeOK, NEW t \in Threads, RoundComplete(t), GatherOK(t),
         ReceiveStatusReply(t)
  PROVE  RoundComplete(t)'
<1> DEFINE c == cmd[t]
<1>1. /\ c \in Command /\ c.pc = "await" /\ c.kind = "ConversionDay"
      /\ UNCHANGED <<spent, disk>>
  BY DEF ReceiveStatusReply, At, TypeOK, memory
<1>2. PICK m \in Replies(t, "StatusReply") :
        /\ cmd' = [cmd EXCEPT ![t] = [cmd[t] EXCEPT !.pc = "gather",
                                                   !.seen[m.from] = m.spent]]
        /\ net' = net \ {m}
  BY DEF ReceiveStatusReply
<1>3. /\ m \in Mine(t) /\ m.type = "StatusReply" /\ m.from = c.peer
      /\ \A k \in Mine(t) : k = m
      /\ m.from \in Nodes
  BY <1>1 DEF Replies, Mine, GatherOK, OneExchange, TypeOK, Message
<1>4. cmd'[t] = [c EXCEPT !.pc = "gather", !.seen[m.from] = m.spent]
  BY <1>2 DEF TypeOK
<1>5. /\ cmd'[t].left = c.left /\ cmd'[t].missing = c.missing
      /\ cmd'[t].seen = [c.seen EXCEPT ![m.from] = m.spent]
      /\ c.seen \in [Nodes -> SUBSET Bearers]
  <2> HIDE DEF c
  <2> QED BY <1>1, <1>4 DEF Command
<1>6. Mine(t)' = {}
  BY <1>2, <1>3 DEF Mine
<1>7. SpendsOf(m.from) \subseteq m.spent
  BY <1>1, <1>3 DEF RoundComplete, Gathering
<1>8. ASSUME NEW q \in Nodes PROVE SpendsOf(q)' = SpendsOf(q)
  BY <1>1 DEF SpendsOf
<1>9. ASSUME NEW q \in Nodes, q \notin c.left, q \notin c.missing
      PROVE  SpendsOf(q) \subseteq cmd'[t].seen[q]
  <2>1. q = m.from => cmd'[t].seen[q] = m.spent
    BY <1>5
  <2>2. q # m.from => cmd'[t].seen[q] = c.seen[q]
    BY <1>5
  <2> QED BY <1>1, <1>3, <1>7, <1>9, <2>1, <2>2 DEF RoundComplete, Gathering
<1> QED BY <1>5, <1>6, <1>8, <1>9 DEF RoundComplete

LEMMA ExchangeFailsCompletes ==
  ASSUME TypeOK, NEW t \in Threads, RoundComplete(t), ExchangeFails(t)
  PROVE  RoundComplete(t)'
<1>1. CASE cmd[t].kind # "ConversionDay"
  <2>1. cmd'[t] = Idle
    BY <1>1 DEF ExchangeFails, Finish, TypeOK
  <2> QED BY <2>1, IdleTyped DEF RoundComplete, Gathering
<1>2. CASE cmd[t].kind = "ConversionDay"
  <2> DEFINE c == cmd[t]
  <2>1. /\ c \in Command /\ c.pc = "await" /\ UNCHANGED <<spent, disk>>
        /\ cmd'[t] = [c EXCEPT !.pc = "gather", !.missing = @ \cup {c.peer}]
    BY <1>2 DEF ExchangeFails, TypeOK, memory
  <2>2. /\ cmd'[t].left = c.left /\ cmd'[t].missing = c.missing \cup {c.peer}
        /\ cmd'[t].seen = c.seen
    <3> HIDE DEF c
    <3> QED BY <2>1 DEF Command
  <2>3. Mine(t)' = {}
    BY DEF ExchangeFails, Mine
  <2>4. \A q \in Nodes : SpendsOf(q)' = SpendsOf(q)
    BY <2>1 DEF SpendsOf
  <2> QED BY <1>2, <2>1, <2>2, <2>3, <2>4 DEF RoundComplete, Gathering
<1> QED BY <1>1, <1>2

\* Outside its round a thread has nothing to know.
LEMMA OutOfRound ==
  ASSUME NEW t \in Threads, ~Gathering(t)'
  PROVE  RoundComplete(t)'
BY DEF RoundComplete

LEMMA OwnStepCompletes ==
  ASSUME TypeOK, ThreadsOK, MemoryCoversDisk, NEW t \in Threads,
         RoundComplete(t), GatherOK(t), Admin(t) \/ Continue(t)
  PROVE  RoundComplete(t)'
<1> DEFINE c == cmd[t]
<1>0. c \in Command
  BY DEF TypeOK
<1>1. CASE Admin(t)
  <2>1. CASE \E n \in Nodes : up[n] /\ AdminConversionDay(t, n)
    BY <1>1, <2>1, ConversionDayCompletes DEF Admin
  <2>2. CASE ~\E n \in Nodes : up[n] /\ AdminConversionDay(t, n)
    BY <1>1, <2>2, AdminKinds, OutOfRound DEF Gathering
  <2> QED BY <2>1, <2>2
<1>2. CASE ReceiveLinkUpAck(t) \/ ReceivePropagateReply(t) \/ ApplyLinkDown(t)
           \/ Burn(t)
  <2>1. PICK x : \/ cmd'[t] = [c EXCEPT !.pc = "persist"]
                 \/ cmd'[t] = [c EXCEPT !.pc = "persist", !.todo = x]
    BY <1>2 DEF ReceiveLinkUpAck, ReceivePropagateReply, ApplyLinkDown, Burn,
                Goto, TypeOK
  <2>2. cmd'[t].pc = "persist"
    <3> HIDE DEF c
    <3> QED BY <1>0, <2>1 DEF Command
  <2> QED BY <2>2, OutOfRound DEF Gathering
<1>3. CASE Defer(t) \/ RejectConflict(t) \/ Answer(t)
  <2>1. cmd'[t] = Idle
    BY <1>3 DEF Defer, RejectConflict, Answer, Finish, TypeOK
  <2> QED BY <2>1, IdleTyped, OutOfRound DEF Gathering
<1>4. CASE Persist(t)
  <2>1. cmd'[t] = Idle \/ cmd'[t] = [c EXCEPT !.pc = "notify"]
    BY <1>4 DEF Persist, Goto, Finish, TypeOK
  <2>2. cmd'[t].pc \in {"idle", "notify"}
    <3> HIDE DEF c
    <3> QED BY <1>0, <2>1, IdleTyped DEF Command
  <2> QED BY <2>2, OutOfRound DEF Gathering
<1>5. CASE Notify(t)
  <2>1. PICK d \in c.todo : cmd'[t] = [c EXCEPT !.todo = @ \ {d}]
    BY <1>5 DEF Notify, TypeOK
  <2>2. c.pc = "notify"
    BY <1>5 DEF Notify
  <2>3. cmd'[t].pc = "notify"
    <3> HIDE DEF c
    <3> QED BY <1>0, <2>1, <2>2 DEF Command
  <2> QED BY <2>3, OutOfRound DEF Gathering
<1> QED BY <1>1, <1>2, <1>3, <1>4, <1>5, AskStatusCompletes,
           ReceiveStatusReplyCompletes, ExchangeFailsCompletes DEF Continue

\* A node that is started again knows the spends of its disk, no others.
LEMMA FaultCompletes ==
  ASSUME FilesAreRead, TypeOK, NEW t \in Threads, RoundComplete(t),
         \/ \E n \in Nodes : Crash(n) \/ Restart(n)
         \/ \E m \in net : Lose(m)
         \/ UNCHANGED vars
  PROVE  RoundComplete(t)'
<1>1. ASSUME NEW n \in Nodes, Crash(n) PROVE RoundComplete(t)'
  <2>1. \A p \in Nodes : SpendsOf(p)' \subseteq SpendsOf(p)
    BY <1>1 DEF Crash, SpendsOf, TypeOK
  <2>2. Mine(t)' \subseteq Mine(t)
    BY <1>1 DEF Crash, Mine
  <2>3. CASE cmd'[t] = Idle
    BY <2>3, IdleTyped, OutOfRound DEF Gathering
  <2>4. CASE cmd'[t] = cmd[t]
    BY <2>1, <2>2, <2>4, NoNewSpends
  <2> QED BY <1>1, <2>3, <2>4 DEF Crash
<1>2. ASSUME NEW n \in Nodes, Restart(n) PROVE RoundComplete(t)'
  <2>1. Loaded(n) = {disk[n]}
    BY DEF Loaded, FilesAreRead
  <2>2. /\ spent' = [spent EXCEPT ![n] = disk[n].spent]
        /\ UNCHANGED <<cmd, disk, net>>
    BY <1>2, <2>1 DEF Restart
  <2>3. \A p \in Nodes : SpendsOf(p)' \subseteq SpendsOf(p)
    BY <2>2 DEF SpendsOf, TypeOK
  <2> QED BY <2>2, <2>3, NoNewSpends DEF Mine
<1>3. ASSUME net' \subseteq net, UNCHANGED <<spent, disk, cmd>>
      PROVE  RoundComplete(t)'
  BY <1>3, NoNewSpends DEF Mine, SpendsOf
<1> QED BY <1>1, <1>2, <1>3 DEF Lose, vars, memory

LEMMA StepCompletes ==
  ASSUME TakingTurns, FilesAreRead, TypeOK, ThreadsOK, GatherInv,
         \A t \in Threads : RoundComplete(t), [Next]_vars
  PROVE  \A t \in Threads : RoundComplete(t)'
<1> SUFFICES ASSUME NEW t \in Threads PROVE RoundComplete(t)'
  OBVIOUS
<1>1. MemoryCoversDisk /\ GatherOK(t)
  BY DEF GatherInv
<1>2. ASSUME NEW u \in Threads, Admin(u) \/ Continue(u)
      PROVE  RoundComplete(t)'
  <2>1. u = t
    BY DEF TakingTurns
  <2> QED BY <1>1, <1>2, <2>1, OwnStepCompletes
<1>3. ASSUME NEW m \in net, HandlePeerMessage(m)
      PROVE  RoundComplete(t)'
  BY <1>1, <1>3, HandlerCompletes
<1> QED BY <1>2, <1>3, FaultCompletes DEF Next, Deliver

\* A complete round without a conflict has not overlooked one.
LEMMA NoConflictOverlooked ==
  ASSUME TypeOK, NEW t \in Threads, RoundComplete(t), Burn(t)
  PROVE  Conflicts(spent) = {}
<1>1. /\ Gathering(t) /\ cmd[t].pc = "gather" /\ cmd[t].left = {}
      /\ cmd[t].missing = {} /\ Conflicts(cmd[t].seen) = {}
  BY DEF Burn, Gathered, At, Gathering
<1>2. \A p \in Nodes : spent[p] \subseteq cmd[t].seen[p]
  BY <1>1 DEF RoundComplete, SpendsOf
<1>3. DOMAIN cmd[t].seen = Nodes /\ DOMAIN spent = Nodes
  BY DEF TypeOK, Command
<1>4. ASSUME NEW b \in Conflicts(spent) PROVE b \in Conflicts(cmd[t].seen)
  <2>1. PICK p, q \in Nodes : p # q /\ b \in spent[p] /\ b \in spent[q]
    BY <1>3 DEF Conflicts
  <2>2. b \in cmd[t].seen[p] /\ b \in cmd[t].seen[q]
    BY <1>2, <2>1
  <2> QED BY <1>3, <2>1, <2>2 DEF Conflicts, BurnSet
<1> QED BY <1>1, <1>4

\* With administrators that take turns a ConversionDay burns only when no two
\* nodes have spent the same bearer, also when processes are killed and
\* started again during the round, messages get lost and saves fail: what the
\* quorum rule is for (habi_node.rs, "QUORUM FIX").
THEOREM SettlementCoversAllNodes ==
  ASSUME TakingTurns, FilesAreRead
  PROVE  Spec => SettlementIsGlobal
<1> DEFINE Inv == /\ TypeOK /\ ThreadsOK /\ GatherInv
                  /\ \A t \in Threads : RoundComplete(t)
<1>1. Init => Inv
  <2>1. Init => GatherInv /\ \A t \in Threads : RoundComplete(t)
    BY IdleTyped
    DEF Init, GatherInv, MemoryCoversDisk, GatherOK, OneExchange,
        ConflictsReported, Gathering, HonestThread, RoundComplete
  <2> QED BY <2>1, InitTyped
<1>2. Inv /\ [Next]_vars => Inv'
  BY StepTyped, StepGather, StepCompletes
<1>3. Inv /\ [Next]_vars => [\A t \in Threads : Burn(t) => Conflicts(spent) = {}]_vars
  BY NoConflictOverlooked
<1> QED BY <1>1, <1>2, <1>3, PTL DEF Spec, SettlementIsGlobal
=============================================================================
