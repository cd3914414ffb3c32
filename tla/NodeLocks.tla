------------------------------ MODULE NodeLocks ------------------------------
(***************************************************************************)
(* Who waits for whom in the processes of habi_node.  A process has two    *)
(* mutexes, neither of them reentrant: one around its NodeShared and one   *)
(* around its table of peers.  Every admin connection is a thread that     *)
(* carries out one command, and every connection to a peer is a thread at  *)
(* that peer.                                                              *)
(*                                                                         *)
(* Module HabiNode takes a critical section as one step; here it is taking *)
(* the lock, what is done under it, and dropping the guard, and a command  *)
(* is the script of these.  What the sections compute is left out.         *)
(*                                                                         *)
(* A thread that panics poisons the mutexes it holds, and every later      *)
(* lock().unwrap() of them panics as well.  The one thing that can panic   *)
(* is a warning: eprintln! does when standard error is gone.               *)
(***************************************************************************)
EXTENDS Naturals, Sequences

CONSTANTS
  Nodes,    \* the nodes
  Admins,   \* admin connections, over all nodes; each carries one command
  Hung,     \* nodes that let a connection wait for ever
  Faults,   \* "stderr": a warning may panic
  None      \* no thread, no node

ASSUME HungAssumption == Hung \subseteq Nodes
ASSUME NoneAssumption == None \notin Nodes \cup Admins \cup (Admins \X Nodes)
ASSUME AdminsAssumption == Admins \cap (Admins \X Nodes) = {}

Kinds ==
  {"LinkUp", "LinkDown", "Propagate", "SpendAt", "Seed", "ConversionDay",
   "Status"}

-----------------------------------------------------------------------------
(* What a command does, in order.                                          *)
(*                                                                         *)
(*   lockBook, freeBook     take and drop the guard of the peers table     *)
(*   lockState, freeState   take and drop the guard of NodeShared          *)
(*   save                   write the state file, or warn, under the guard *)
(*   ask                    exchange with each peer, one after the other   *)
(*   tell                   send to each peer, no reply                    *)
(*   notify                 the same under the guard of the peers table    *)
(*   warn                   print to standard error                        *)

\* Faulty variant: the ConversionDay of before the fix, with the three guards
\* of one statement held together.
ScriptThreeGuards(kind) ==
  CASE kind = "ConversionDay" ->
         <<"lockState", "lockState", "lockState", "freeState", "ask", "tell">>
    [] OTHER -> <<"lockState", "freeState">>

\* Faulty variant: a LinkUp keeps its guard while it waits for the ack.
ScriptGuardKept(kind) ==
  CASE kind = "LinkUp" ->
         <<"lockBook", "freeBook", "lockState", "ask", "freeState">>
    [] OTHER -> <<"lockState", "freeState">>

\* Faulty variant: SpendAt notifies before it drops the guard of the spend.
ScriptNotifyLocked(kind) ==
  CASE kind = "SpendAt" -> <<"lockState", "tell", "freeState">>
    [] OTHER -> <<"lockState", "freeState">>

Script(kind) ==
  CASE kind = "LinkUp" ->
         <<"lockBook", "freeBook", "lockState", "freeState", "ask",
           "lockState", "freeState", "lockState", "save", "freeState">>
    [] kind = "LinkDown" ->
         <<"lockBook", "freeBook", "lockState", "freeState", "tell",
           "lockState", "freeState", "lockState", "save", "freeState">>
    [] kind = "Propagate" ->
         <<"lockBook", "freeBook", "lockState", "freeState", "ask",
           "lockState", "freeState", "lockState", "save", "freeState">>
    [] kind = "SpendAt" ->
         <<"lockState", "freeState", "lockState", "save", "freeState",
           "lockBook", "notify", "freeBook">>
    [] kind = "ConversionDay" ->
         <<"lockState", "freeState", "lockBook", "freeBook", "ask",
           "lockState", "freeState", "lockState", "save", "freeState",
           "tell">>
    [] kind = "Seed" ->
         <<"lockState", "freeState", "warn", "lockState", "save",
           "freeState">>
    [] kind = "Status" -> <<"lockState", "freeState">>

Sends == {"ask", "tell", "notify"}

\* The peers a command of node n is about.
Contacts(kind, n) ==
  LET peers == Nodes \ {n} IN
  CASE kind \in {"LinkUp", "LinkDown", "Propagate"} -> {{p} : p \in peers}
    [] kind = "SpendAt" -> SUBSET peers
    [] kind = "ConversionDay" -> {peers}
    [] OTHER -> {{}}

-----------------------------------------------------------------------------
(* State *)

Locks == Nodes \X {"book", "state"}

\* The thread at node p that serves a connection of an admin thread.  The
\* several notices of one command to one node are one connection here.
Handlers == Admins \X Nodes

Threads == Admins \cup Handlers

VARIABLES
  cmd,       \* cmd[a]: the command of the admin thread a, and how far it is
  serve,     \* serve[h]: how far a handler is
  owner,     \* owner[l]: the thread that holds a mutex
  poisoned   \* the mutexes a thread panicked with

vars == <<cmd, serve, owner, poisoned>>

\* pc is the place in the script.  todo are the peers the present send has
\* still to connect to, peer is the one whose reply is waited for.  failed:
\* an exchange, or a send the command cannot do without, has failed.
Command ==
  [kind : Kinds \cup {"idle", "over"}, node : Nodes \cup {None}, pc : Nat,
   peers : SUBSET Nodes, todo : SUBSET Nodes, peer : Nodes \cup {None},
   failed : BOOLEAN]

\* A connection that is not open yet, and one whose command was answered or
\* whose thread panicked.
NoCommand(kind) ==
  [kind |-> kind, node |-> None, pc |-> 0, peers |-> {}, todo |-> {},
   peer |-> None, failed |-> FALSE]

Idle == NoCommand("idle")

Over == NoCommand("over")

Running(a) == cmd[a].kind \in Kinds

Instr(a) == Script(cmd[a].kind)[cmd[a].pc]

At(a, ops) == Running(a) /\ Instr(a) \in ops

\* The mutex a thread takes next, as a set of at most one.
Wants(t) ==
  IF t \in Admins
    THEN {l \in Locks : \/ At(t, {"lockBook"}) /\ l = <<cmd[t].node, "book">>
                        \/ At(t, {"lockState"}) /\ l = <<cmd[t].node, "state">>}
    ELSE {l \in Locks : serve[t] = "start" /\ l = <<t[2], "state">>}

Held(t) == {l \in Locks : owner[l] = t}

\* Faulty variant: nothing ends.
AdvancedPastEnd(a) == [cmd[a] EXCEPT !.pc = @ + 1, !.todo = cmd[a].peers]

\* The command after the present instruction.
Advanced(a) ==
  IF cmd[a].pc = Len(Script(cmd[a].kind))
    THEN Over
    ELSE [cmd[a] EXCEPT !.pc = @ + 1, !.todo = cmd[a].peers]

Release(t) == owner' = [l \in Locks |-> IF owner[l] = t THEN None ELSE owner[l]]

-----------------------------------------------------------------------------
(* Admin threads *)

Start(a) ==
  /\ cmd[a] = Idle
  /\ \E n \in Nodes \ Hung, kind \in Kinds :
       \E peers \in Contacts(kind, n) :
         cmd' = [cmd EXCEPT ![a] =
                   [kind |-> kind, node |-> n, pc |-> 1, peers |-> peers,
                    todo |-> peers, peer |-> None, failed |-> FALSE]]
  /\ UNCHANGED <<serve, owner, poisoned>>

Lock(a) ==
  \E l \in Wants(a) :
    /\ owner[l] = None
    /\ l \notin poisoned
    /\ owner' = [owner EXCEPT ![l] = a]
    /\ cmd' = [cmd EXCEPT ![a] = Advanced(a)]
    /\ UNCHANGED <<serve, poisoned>>

Unlock(a) ==
  /\ At(a, {"freeBook", "freeState"})
  /\ Release(a)
  /\ cmd' = [cmd EXCEPT ![a] = Advanced(a)]
  /\ UNCHANGED <<serve, poisoned>>

\* A save, or a warning, that does not panic.
Work(a) ==
  /\ At(a, {"save", "warn"})
  /\ cmd' = [cmd EXCEPT ![a] = Advanced(a)]
  /\ UNCHANGED <<serve, owner, poisoned>>

\* Connect to one more peer; at the other end a thread is spawned.  Then wait
\* for its reply, or go on when none is expected.  A hung peer does not let
\* the connection through.
Connect(a, p) ==
  /\ At(a, Sends)
  /\ cmd[a].peer = None
  /\ p \in cmd[a].todo \ Hung
  /\ serve[<<a, p>>] = "none"
  /\ serve' = [serve EXCEPT ![<<a, p>>] = "start"]
  /\ cmd' = [cmd EXCEPT ![a].todo = @ \ {p},
                        ![a].peer = IF Instr(a) = "ask" THEN p ELSE None]
  /\ UNCHANGED <<owner, poisoned>>

\* A failure here ends the command, after a ConversionDay has asked everybody.
\* A broadcast is best effort.
Needed(a) == Instr(a) = "ask" \/ cmd[a].kind = "LinkDown"

\* The peer is down.
Refused(a, p) ==
  /\ At(a, Sends)
  /\ cmd[a].peer = None
  /\ p \in cmd[a].todo \ Hung
  /\ cmd' = [cmd EXCEPT ![a].todo = @ \ {p}, ![a].failed = Needed(a)]
  /\ UNCHANGED <<serve, owner, poisoned>>

\* The reply is there, or the connection is closed without one.
Answered(a) ==
  /\ At(a, {"ask"})
  /\ cmd[a].peer # None
  /\ serve[<<a, cmd[a].peer>>] = "none"
  /\ \E failed \in {cmd[a].failed, TRUE} :
       cmd' = [cmd EXCEPT ![a].peer = None, ![a].failed = failed]
  /\ UNCHANGED <<serve, owner, poisoned>>

\* Every peer of the send was connected to.
AllSent(a) == At(a, Sends) /\ cmd[a].peer = None /\ cmd[a].todo = {}

Sent(a) ==
  /\ AllSent(a)
  /\ ~cmd[a].failed
  /\ cmd' = [cmd EXCEPT ![a] = Advanced(a)]
  /\ UNCHANGED <<serve, owner, poisoned>>

\* The guard that is about to be dropped is the command's first one.
FirstGuard(a) ==
  /\ At(a, {"freeBook", "freeState"})
  /\ cmd[a].pc = 2

\* Where a command may end with an error: the peer is not in the table, the
\* bearer of a SpendAt is not held, a Propagate has no link, a send failed,
\* or a ConversionDay finds a conflict.
Fails(a) ==
  \/ FirstGuard(a) /\ cmd[a].kind \in {"LinkUp", "LinkDown", "Propagate",
                                      "SpendAt"}
  \/ At(a, {"freeState"}) /\ cmd[a].kind = "Propagate" /\ cmd[a].pc = 4
  \/ AllSent(a) /\ cmd[a].failed
  \/ AllSent(a) /\ cmd[a].kind = "ConversionDay" /\ Instr(a) = "ask"

\* An early return: every guard in scope is dropped.
ReturnError(a) ==
  /\ Fails(a)
  /\ Release(a)
  /\ cmd' = [cmd EXCEPT ![a] = Over]
  /\ UNCHANGED <<serve, poisoned>>

\* A warning: a save has failed, a peer cannot be told, or it is a Seed.
Warning(a) ==
  \/ At(a, {"save", "warn"})
  \/ /\ At(a, Sends)
     /\ cmd[a].kind \in {"SpendAt", "ConversionDay"}
     /\ cmd[a].peer = None
     /\ cmd[a].todo \ Hung # {}

\* The thread ends in the middle, at a warning or at a poisoned mutex.
Panic(a) ==
  /\ \/ "stderr" \in Faults /\ Warning(a)
     \/ \E l \in Wants(a) \cap poisoned : owner[l] = None
  /\ poisoned' = poisoned \cup Held(a)
  /\ Release(a)
  /\ cmd' = [cmd EXCEPT ![a] = Over]
  /\ UNCHANGED serve

Step(a) ==
  \/ Lock(a) \/ Unlock(a) \/ Work(a) \/ Answered(a) \/ Sent(a)
  \/ ReturnError(a) \/ Panic(a)
  \/ \E p \in Nodes : Connect(a, p) \/ Refused(a, p)

-----------------------------------------------------------------------------
(* Threads that serve a peer *)

\* The message is handled and the reply written.
Handle(h) ==
  /\ serve[h] = "locked"
  /\ Release(h)
  /\ serve' = [serve EXCEPT ![h] = "none"]
  /\ UNCHANGED <<cmd, poisoned>>

LockForPeer(h) ==
  \E l \in Wants(h) :
    /\ owner[l] = None
    /\ l \notin poisoned
    /\ owner' = [owner EXCEPT ![l] = h]
    /\ serve' = [serve EXCEPT ![h] = "locked"]
    /\ UNCHANGED <<cmd, poisoned>>

\* The connection closes without a reply.
PanicForPeer(h) ==
  /\ \E l \in Wants(h) \cap poisoned : owner[l] = None
  /\ serve' = [serve EXCEPT ![h] = "none"]
  /\ UNCHANGED <<cmd, owner, poisoned>>

Serve(h) == LockForPeer(h) \/ Handle(h) \/ PanicForPeer(h)

-----------------------------------------------------------------------------
(* The specification *)

Init ==
  /\ cmd = [a \in Admins |-> Idle]
  /\ serve = [h \in Handlers |-> "none"]
  /\ owner = [l \in Locks |-> None]
  /\ poisoned = {}

Next ==
  \/ \E a \in Admins : Start(a) \/ Step(a)
  \/ \E h \in Handlers : Serve(h)

Spec == Init /\ [][Next]_vars

\* The operating system runs every thread that is not blocked.  Weak fairness
\* is enough for the mutexes, too: finitely many commands compete for them.
Fairness ==
  /\ \A a \in Admins : WF_vars(Step(a))
  /\ \A h \in Handlers : WF_vars(Serve(h))

FairSpec == Spec /\ Fairness

-----------------------------------------------------------------------------
(* Properties *)

\* The type invariant.
TypeOK ==
  /\ cmd \in [Admins -> Command]
  /\ \A a \in Admins : Running(a) => cmd[a].pc \in DOMAIN Script(cmd[a].kind)
  /\ serve \in [Handlers -> {"none", "start", "locked"}]
  /\ owner \in [Locks -> Threads \cup {None}]
  /\ poisoned \in SUBSET Locks

\* t cannot go on before u does something.
WaitsFor(t, u) ==
  \/ \E l \in Wants(t) : owner[l] = u
  \/ /\ t \in Admins
     /\ At(t, {"ask"})
     /\ cmd[t].peer # None
     /\ u = <<t, cmd[t].peer>>
     /\ serve[u] # "none"

Blocked == {t \in Threads : \E u \in Threads : WaitsFor(t, u)}

\* No threads, of one process or of several, wait for each other in a circle,
\* and none waits for itself: the self-deadlock the ConversionDay branch once
\* had ("a genuine self-deadlock", habi_node.rs), and its distributed form,
\* two nodes that exchange while each holds its own guard.
NoCircularWait ==
  \A S \in SUBSET Blocked :
    S # {} => \E t \in S : \A u \in S : ~WaitsFor(t, u)

\* The command waits for a peer that does not let a connection through.
Hangs(a) ==
  /\ At(a, Sends)
  /\ cmd[a].peer = None
  /\ cmd[a].todo # {} /\ cmd[a].todo \subseteq Hung

\* Every command ends, or hangs at a hung peer, itself or because a SpendAt of
\* its node does with the peers table locked: threads and locks alone never
\* stop one, also when a warning has panicked under a guard and the mutex is
\* poisoned.
CommandsEnd ==
  \A a \in Admins :
    Running(a) ~>
      \/ ~Running(a)
      \/ \E c \in Admins :
           Hangs(c) /\ (c = a \/ (At(c, {"notify"}) /\ cmd[c].node = cmd[a].node))

\* A hung peer stops the commands that connect to it and, because a SpendAt
\* sends with the peers table locked, others of the same node.  It never
\* stops the node from serving its peers, nor a Status or a Seed.
HungPeerStaysLocal ==
  /\ \A a \in Admins :
       cmd[a].kind \in {"Status", "Seed"} ~> ~Running(a)
  /\ \A h \in Handlers : serve[h] # "none" ~> serve[h] = "none"
=============================================================================
