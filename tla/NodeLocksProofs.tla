--------------------------- MODULE NodeLocksProofs ---------------------------
(***************************************************************************)
(* No threads of NodeLocks wait for each other in a circle, for any number *)
(* of nodes, of admin connections and of hung nodes, with and without      *)
(* panics.                                                                 *)
(*                                                                         *)
(* The argument: whoever holds a mutex is between two instructions that do *)
(* not wait, because a script takes one guard at a time and exchanges with *)
(* no peer under it.  A thread waits for the holder of a mutex or for a    *)
(* handler, and a handler waits for the holder of a mutex only; so every   *)
(* chain of waits ends after two steps.                                    *)
(***************************************************************************)
EXTENDS NodeLocks, TLAPS

-----------------------------------------------------------------------------
(* The scripts *)

Ops ==
  {"lockBook", "freeBook", "lockState", "freeState", "save", "ask", "tell",
   "notify", "warn"}

\* A script is a sequence of instructions.
LEMMA ScriptType ==
  \A k \in Kinds : Script(k) \in Seq(Ops) /\ Len(Script(k)) >= 1
<1> TAKE k \in Kinds
<1>1. CASE k = "LinkUp"  BY <1>1 DEF Script, Ops
<1>2. CASE k = "LinkDown"  BY <1>2 DEF Script, Ops
<1>3. CASE k = "Propagate"  BY <1>3 DEF Script, Ops
<1>4. CASE k = "SpendAt"  BY <1>4 DEF Script, Ops
<1>5. CASE k = "ConversionDay"  BY <1>5 DEF Script, Ops
<1>6. CASE k = "Seed"  BY <1>6 DEF Script, Ops
<1>7. CASE k = "Status"  BY <1>7 DEF Script, Ops
<1> QED  BY <1>1, <1>2, <1>3, <1>4, <1>5, <1>6, <1>7 DEF Kinds

\* Under a guard a script saves or notifies, and then drops the guard.
Disciplined(s) ==
  \A i \in 1..Len(s) :
    /\ s[i] = "lockState" => i < Len(s) /\ s[i + 1] \in {"save", "freeState"}
    /\ s[i] = "save" => i < Len(s) /\ s[i + 1] = "freeState"
    /\ s[i] = "lockBook" => i < Len(s) /\ s[i + 1] \in {"freeBook", "notify"}
    /\ s[i] = "notify" => i < Len(s) /\ s[i + 1] = "freeBook"

LEMMA ScriptsAreDisciplined == \A k \in Kinds : Disciplined(Script(k))
<1> TAKE k \in Kinds
<1>1. CASE k = "LinkUp"  BY <1>1 DEF Script, Disciplined
<1>2. CASE k = "LinkDown"  BY <1>2 DEF Script, Disciplined
<1>3. CASE k = "Propagate"  BY <1>3 DEF Script, Disciplined
<1>4. CASE k = "SpendAt"  BY <1>4 DEF Script, Disciplined
<1>5. CASE k = "ConversionDay"  BY <1>5 DEF Script, Disciplined
<1>6. CASE k = "Seed"  BY <1>6 DEF Script, Disciplined
<1>7. CASE k = "Status"  BY <1>7 DEF Script, Disciplined
<1> QED  BY <1>1, <1>2, <1>3, <1>4, <1>5, <1>6, <1>7 DEF Kinds

-----------------------------------------------------------------------------
(* Types *)

\* What the instruction of a running command can be.
LEMMA InstrType ==
  ASSUME TypeOK, NEW a \in Admins, Running(a)
  PROVE  /\ cmd[a].kind \in Kinds
         /\ cmd[a].pc \in 1..Len(Script(cmd[a].kind))
         /\ Instr(a) \in Ops
         /\ Len(Script(cmd[a].kind)) \in Nat
         /\ cmd[a] \in Command
<1>1. cmd[a].kind \in Kinds /\ cmd[a].pc \in DOMAIN Script(cmd[a].kind)
  BY DEF TypeOK, Running
<1>2. Script(cmd[a].kind) \in Seq(Ops)
  BY <1>1, ScriptType
<1> QED  BY <1>1, <1>2 DEF Instr, TypeOK

LEMMA IdleType == Idle \in Command /\ Over \in Command
BY DEF Idle, Over, NoCommand, Command

\* Going on keeps a command inside its script, and is the next instruction.
LEMMA AdvancedType ==
  ASSUME TypeOK, NEW a \in Admins, Running(a)
  PROVE  /\ Advanced(a) \in Command
         /\ Advanced(a).kind \in Kinds =>
              /\ Advanced(a).kind = cmd[a].kind
              /\ Advanced(a).node = cmd[a].node
              /\ Advanced(a).pc = cmd[a].pc + 1
              /\ Advanced(a).pc \in DOMAIN Script(Advanced(a).kind)
         /\ cmd[a].pc < Len(Script(cmd[a].kind)) => Advanced(a).kind \in Kinds
<1>1. /\ cmd[a].kind \in Kinds
      /\ cmd[a].pc \in 1..Len(Script(cmd[a].kind))
      /\ cmd[a] \in Command
      /\ Script(cmd[a].kind) \in Seq(Ops)
  BY InstrType, ScriptType
<1>2. CASE cmd[a].pc = Len(Script(cmd[a].kind))
  BY <1>1, <1>2, IdleType DEF Advanced, Over, NoCommand, Kinds
<1>3. CASE cmd[a].pc # Len(Script(cmd[a].kind))
  <2>1. Advanced(a) = [cmd[a] EXCEPT !.pc = @ + 1, !.todo = cmd[a].peers]
    BY <1>3 DEF Advanced
  <2>2. cmd[a].pc + 1 \in 1..Len(Script(cmd[a].kind)) /\ cmd[a].peers \in SUBSET Nodes
    BY <1>1, <1>3 DEF Command
  <2>a. cmd[a].pc + 1 \in Nat
    BY <1>1
  <2>3. Advanced(a) \in Command
    BY <2>1, <2>2, <2>a, <1>1, Zenon DEF Command
  <2>4. /\ Advanced(a).kind = cmd[a].kind
        /\ Advanced(a).node = cmd[a].node
        /\ Advanced(a).pc = cmd[a].pc + 1
    BY <2>1, <1>1 DEF Command
  <2> QED  BY <2>2, <2>3, <2>4, <1>1
<1> QED  BY <1>2, <1>3

\* A step that changes one command keeps the part of TypeOK about commands.
CmdOK(c) == c \in Command /\ (c.kind \in Kinds => c.pc \in DOMAIN Script(c.kind))

LEMMA CmdStep ==
  ASSUME TypeOK, NEW a \in Admins, NEW c, CmdOK(c),
         cmd' = [cmd EXCEPT ![a] = c]
  PROVE  /\ cmd' \in [Admins -> Command]
         /\ \A x \in Admins :
              Running(x)' => (cmd[x].pc \in DOMAIN Script(cmd[x].kind))'
BY DEF TypeOK, CmdOK, Running

LEMMA ReleaseType ==
  ASSUME TypeOK, NEW t, Release(t)
  PROVE  owner' \in [Locks -> Threads \cup {None}]
BY DEF TypeOK, Release

LEMMA TypeStep == TypeOK /\ [Next]_vars => TypeOK'
<1> SUFFICES ASSUME TypeOK, [Next]_vars PROVE TypeOK'
  OBVIOUS
<1> USE DEF CmdOK
<1>1. ASSUME NEW a \in Admins, Start(a) PROVE TypeOK'
  <2>1. PICK n \in Nodes \ Hung, kind \in Kinds :
          \E peers \in Contacts(kind, n) :
            cmd' = [cmd EXCEPT ![a] =
                      [kind |-> kind, node |-> n, pc |-> 1, peers |-> peers,
                       todo |-> peers, peer |-> None, failed |-> FALSE]]
    BY <1>1 DEF Start
  <2>2. PICK peers \in Contacts(kind, n) :
            cmd' = [cmd EXCEPT ![a] =
                      [kind |-> kind, node |-> n, pc |-> 1, peers |-> peers,
                       todo |-> peers, peer |-> None, failed |-> FALSE]]
    BY <2>1
  <2>3. peers \in SUBSET Nodes
    BY <2>2 DEF Contacts, Kinds
  <2> DEFINE c == [kind |-> kind, node |-> n, pc |-> 1, peers |-> peers,
                   todo |-> peers, peer |-> None, failed |-> FALSE]
  <2>4. c \in Command
    BY <2>3 DEF Command
  <2>5. c.pc \in DOMAIN Script(c.kind)
    BY ScriptType
  <2>6. CmdOK(c)
    BY <2>4, <2>5
  <2>7. cmd' = [cmd EXCEPT ![a] = c]
    BY <2>2
  <2> HIDE DEF c
  <2> QED  BY <2>6, <2>7, <1>1, CmdStep DEF Start, TypeOK
<1>2. ASSUME NEW a \in Admins, Lock(a) PROVE TypeOK'
  <2>1. Running(a)
    BY <1>2 DEF Lock, Wants, At
  <2>2. CmdOK(Advanced(a))
    BY <2>1, AdvancedType
  <2>3. cmd' = [cmd EXCEPT ![a] = Advanced(a)] /\ UNCHANGED <<serve, poisoned>>
    BY <1>2 DEF Lock
  <2>4. owner' \in [Locks -> Threads \cup {None}]
    BY <1>2 DEF Lock, TypeOK, Wants, Threads
  <2> QED  BY <2>2, <2>3, <2>4, CmdStep DEF TypeOK
<1>3. ASSUME NEW a \in Admins, Unlock(a) \/ Work(a) \/ Sent(a) PROVE TypeOK'
  <2>1. Running(a)
    BY <1>3 DEF Unlock, Work, Sent, AllSent, At
  <2>2. CmdOK(Advanced(a))
    BY <2>1, AdvancedType
  <2>3. /\ cmd' = [cmd EXCEPT ![a] = Advanced(a)]
        /\ UNCHANGED <<serve, poisoned>>
        /\ UNCHANGED owner \/ Release(a)
    BY <1>3 DEF Unlock, Work, Sent
  <2> QED  BY <2>2, <2>3, CmdStep, ReleaseType DEF TypeOK
<1>4. ASSUME NEW a \in Admins, ReturnError(a) \/ Panic(a) PROVE TypeOK'
  <2>1. CmdOK(Over)
    BY IdleType DEF Over, NoCommand, Kinds
  <2>2. cmd' = [cmd EXCEPT ![a] = Over] /\ UNCHANGED serve /\ Release(a)
    BY <1>4 DEF ReturnError, Panic
  <2>3. poisoned' \in SUBSET Locks
    BY <1>4 DEF ReturnError, Panic, Held, TypeOK
  <2> QED  BY <2>1, <2>2, <2>3, CmdStep, ReleaseType DEF TypeOK
<1>5. ASSUME NEW a \in Admins, NEW p \in Nodes, Connect(a, p) PROVE TypeOK'
  <2> DEFINE c == [cmd[a] EXCEPT !.todo = @ \ {p},
                                 !.peer = IF Instr(a) = "ask" THEN p ELSE None]
  <2>1. Running(a)
    BY <1>5 DEF Connect, At
  <2>2. CmdOK(c)
    BY <2>1 DEF TypeOK, Running, Command
  <2>3. cmd' = [cmd EXCEPT ![a] = c]
    BY <1>5 DEF Connect, TypeOK
  <2> HIDE DEF c
  <2>4. serve' \in [Handlers -> {"none", "start", "locked"}]
    BY <1>5 DEF Connect, TypeOK
  <2> QED  BY <2>2, <2>3, <2>4, <1>5, CmdStep DEF Connect, TypeOK
<1>6. ASSUME NEW a \in Admins, NEW p \in Nodes, Refused(a, p) PROVE TypeOK'
  <2> DEFINE c == [cmd[a] EXCEPT !.todo = @ \ {p}, !.failed = Needed(a)]
  <2>1. Running(a)
    BY <1>6 DEF Refused, At
  <2>2. CmdOK(c)
    BY <2>1 DEF TypeOK, Running, Command, Needed
  <2>3. cmd' = [cmd EXCEPT ![a] = c]
    BY <1>6 DEF Refused, TypeOK
  <2> HIDE DEF c
  <2> QED  BY <2>2, <2>3, <1>6, CmdStep DEF Refused, TypeOK
<1>7. ASSUME NEW a \in Admins, Answered(a) PROVE TypeOK'
  <2>1. PICK f \in {cmd[a].failed, TRUE} :
          cmd' = [cmd EXCEPT ![a].peer = None, ![a].failed = f]
    BY <1>7 DEF Answered
  <2> DEFINE c == [cmd[a] EXCEPT !.peer = None, !.failed = f]
  <2>2. Running(a)
    BY <1>7 DEF Answered, At
  <2>3. CmdOK(c)
    BY <2>1, <2>2 DEF TypeOK, Running, Command
  <2>4. cmd' = [cmd EXCEPT ![a] = c]
    BY <2>1 DEF TypeOK
  <2> HIDE DEF c
  <2> QED  BY <2>3, <2>4, <1>7, CmdStep DEF Answered, TypeOK
<1>8. ASSUME NEW h \in Handlers, Serve(h) PROVE TypeOK'
  <2>1. cmd' = cmd /\ poisoned' = poisoned
    BY <1>8 DEF Serve, LockForPeer, Handle, PanicForPeer
  <2>2. serve' \in [Handlers -> {"none", "start", "locked"}]
    BY <1>8 DEF Serve, LockForPeer, Handle, PanicForPeer, TypeOK
  <2>3. owner' \in [Locks -> Threads \cup {None}]
    <3>1. CASE Handle(h)  BY <3>1, ReleaseType DEF Handle
    <3>2. CASE LockForPeer(h)
      BY <3>2 DEF LockForPeer, Wants, Threads, TypeOK
    <3>3. CASE PanicForPeer(h)  BY <3>3 DEF PanicForPeer, TypeOK
    <3> QED  BY <1>8, <3>1, <3>2, <3>3 DEF Serve
  <2> QED  BY <2>1, <2>2, <2>3 DEF TypeOK, Running
<1>9. CASE UNCHANGED vars
  BY <1>9 DEF vars, TypeOK, Running
<1> QED
  BY <1>1, <1>2, <1>3, <1>4, <1>5, <1>6, <1>7, <1>8, <1>9 DEF Next, Step

LEMMA TypeInit == Init => TypeOK
BY IdleType DEF Init, TypeOK, Running, Idle, NoCommand, Kinds

\* TypeOK holds always: the state of every thread and mutex, and that a command
\* never runs past the end of its script.
THEOREM TypeCorrect == Spec => []TypeOK
<1> QED  BY TypeInit, TypeStep, PTL DEF Spec

-----------------------------------------------------------------------------
(* Guards *)

\* Who holds a mutex is at an instruction that does not wait.
AdminGuards ==
  \A a \in Admins, n \in Nodes :
    /\ owner[<<n, "state">>] = a => At(a, {"save", "freeState"})
    /\ owner[<<n, "book">>] = a => At(a, {"freeBook", "notify"})

HandlerGuards ==
  \A h \in Handlers, l \in Locks : owner[l] = h => serve[h] = "locked"

GuardInv == TypeOK /\ AdminGuards /\ HandlerGuards

\* At most one of the two node mutexes concerns an instruction, so a thread at
\* any other instruction holds nothing.
LEMMA HoldsNothing ==
  ASSUME GuardInv, NEW a \in Admins,
         ~At(a, {"save", "freeState", "freeBook", "notify"})
  PROVE  \A l \in Locks : owner[l] # a
<1>1. ASSUME NEW n \in Nodes PROVE owner[<<n, "state">>] # a
  BY DEF GuardInv, AdminGuards, At
<1>2. ASSUME NEW n \in Nodes PROVE owner[<<n, "book">>] # a
  BY DEF GuardInv, AdminGuards, At
<1> QED  BY <1>1, <1>2 DEF Locks

\* Who holds a mutex waits for nobody.
LEMMA HoldersDoNotWait ==
  ASSUME GuardInv, NEW t \in Threads, NEW l \in Locks, owner[l] = t, NEW u
  PROVE  ~WaitsFor(t, u)
<1>1. CASE t \in Admins
  <2>1. At(t, {"save", "freeState", "freeBook", "notify"})
    BY <1>1, HoldsNothing
  <2> QED  BY <1>1, <2>1 DEF WaitsFor, Wants, At
<1>2. CASE t \in Handlers
  <2>1. t \notin Admins
    BY <1>2, AdminsAssumption DEF Handlers
  <2>2. serve[t] = "locked"
    BY <1>2 DEF GuardInv, HandlerGuards
  <2> QED  BY <2>1, <2>2 DEF WaitsFor, Wants
<1> QED  BY <1>1, <1>2 DEF Threads

LEMMA GuardsPreventCircles == GuardInv => NoCircularWait
<1> SUFFICES ASSUME GuardInv, NEW S \in SUBSET Blocked, S # {}
             PROVE  \E t \in S : \A u \in S : ~WaitsFor(t, u)
  BY DEF NoCircularWait
<1>1. \A u \in S : u \in Threads /\ \A l \in Locks : owner[l] # u
  BY HoldersDoNotWait DEF Blocked
<1>2. CASE \E h \in S : h \in Handlers
  <2>1. PICK h \in S : h \in Handlers
    BY <1>2
  <2>2. h \notin Admins
    BY <2>1, AdminsAssumption DEF Handlers
  <2>3. \A u \in S : ~WaitsFor(h, u)
    BY <1>1, <2>2 DEF WaitsFor, Wants
  <2> QED  BY <2>3
<1>3. CASE \A t \in S : t \notin Handlers
  <2>1. PICK t \in S : t \in Admins
    BY <1>1, <1>3 DEF Threads
  <2>2. ASSUME NEW u \in S, WaitsFor(t, u) PROVE FALSE
    <3>1. \A l \in Wants(t) : l \in Locks
      BY <2>1 DEF Wants
    <3>2. /\ At(t, {"ask"})
          /\ cmd[t].peer # None
          /\ u = <<t, cmd[t].peer>>
      BY <2>2, <1>1, <3>1 DEF WaitsFor
    <3>3. cmd[t].peer \in Nodes
      BY <3>2, <2>1 DEF GuardInv, TypeOK, Command
    <3> QED  BY <2>1, <3>2, <3>3, <1>3 DEF Handlers
  <2> QED  BY <2>1, <2>2
<1> QED  BY <1>2, <1>3

-----------------------------------------------------------------------------
(* The guards are kept *)

\* A step that changes the command of a only, and gives a mutex to nobody else,
\* keeps the guards of everybody else.
LEMMA OthersKeepGuards ==
  ASSUME GuardInv, NEW a \in Admins, NEW c,
         cmd' = [cmd EXCEPT ![a] = c],
         \A l \in Locks : owner'[l] \in {owner[l], None, a},
         \A h \in Handlers : serve[h] = "locked" => serve'[h] = "locked",
         \A n \in Nodes :
           /\ owner'[<<n, "state">>] = a => At(a, {"save", "freeState"})'
           /\ owner'[<<n, "book">>] = a => At(a, {"freeBook", "notify"})'
  PROVE  AdminGuards' /\ HandlerGuards'
<1>1. ASSUME NEW b \in Admins, NEW n \in Nodes
      PROVE  /\ owner'[<<n, "state">>] = b => At(b, {"save", "freeState"})'
             /\ owner'[<<n, "book">>] = b => At(b, {"freeBook", "notify"})'
  <2>1. CASE b = a
    BY <2>1
  <2>2. CASE b # a
    <3>1. cmd'[b] = cmd[b]
      BY <2>2 DEF GuardInv, TypeOK
    <3>2. \A S : At(b, S)' <=> At(b, S)
      BY <3>1 DEF At, Running, Instr
    <3>3. b # None
      BY NoneAssumption
    <3>4. \A l \in Locks : owner'[l] = b => owner[l] = b
      BY <2>2, <3>3
    <3>5. <<n, "state">> \in Locks /\ <<n, "book">> \in Locks
      BY DEF Locks
    <3> QED  BY <3>2, <3>4, <3>5 DEF GuardInv, AdminGuards
  <2> QED  BY <2>1, <2>2
<1>2. ASSUME NEW h \in Handlers, NEW l \in Locks, owner'[l] = h
      PROVE  serve'[h] = "locked"
  <2>1. h # None /\ h # a
    BY NoneAssumption, AdminsAssumption DEF Handlers
  <2>2. owner[l] = h
    BY <1>2, <2>1
  <2> QED  BY <2>2 DEF GuardInv, HandlerGuards
<1> QED  BY <1>1, <1>2 DEF AdminGuards, HandlerGuards

\* The instruction after the present one.
LEMMA NextInstr ==
  ASSUME GuardInv, NEW a \in Admins, Running(a),
         cmd' = [cmd EXCEPT ![a] = Advanced(a)]
  PROVE  /\ Instr(a) = "lockState" => At(a, {"save", "freeState"})'
         /\ Instr(a) = "save" => At(a, {"save", "freeState"})'
         /\ Instr(a) = "lockBook" => At(a, {"freeBook", "notify"})'
         /\ Instr(a) = "notify" => At(a, {"freeBook", "notify"})'
<1> DEFINE k == cmd[a].kind
           i == cmd[a].pc
<1>1. /\ TypeOK
      /\ k \in Kinds
      /\ i \in 1..Len(Script(k))
      /\ Disciplined(Script(k))
      /\ cmd'[a] = Advanced(a)
  BY InstrType, ScriptsAreDisciplined DEF GuardInv, TypeOK
<1>2. /\ Instr(a) = "lockState" =>
           i < Len(Script(k)) /\ Script(k)[i + 1] \in {"save", "freeState"}
      /\ Instr(a) = "save" =>
           i < Len(Script(k)) /\ Script(k)[i + 1] = "freeState"
      /\ Instr(a) = "lockBook" =>
           i < Len(Script(k)) /\ Script(k)[i + 1] \in {"freeBook", "notify"}
      /\ Instr(a) = "notify" =>
           i < Len(Script(k)) /\ Script(k)[i + 1] = "freeBook"
  BY <1>1 DEF Disciplined, Instr
<1>3. ASSUME i < Len(Script(k))
      PROVE  /\ Running(a)'
             /\ Instr(a)' = Script(k)[i + 1]
  BY <1>1, <1>3, AdvancedType DEF Running, Instr
<1> QED  BY <1>2, <1>3 DEF At

LEMMA GuardStep == GuardInv /\ [Next]_vars => GuardInv'
<1> SUFFICES ASSUME GuardInv, [Next]_vars PROVE GuardInv'
  OBVIOUS
<1>t. TypeOK /\ TypeOK'
  BY TypeStep DEF GuardInv
<1> SUFFICES AdminGuards' /\ HandlerGuards'
  BY <1>t DEF GuardInv
<1>n. \A n \in Nodes : <<n, "state">> \in Locks /\ <<n, "book">> \in Locks
  BY DEF Locks
<1>1. ASSUME NEW a \in Admins, Start(a) PROVE AdminGuards' /\ HandlerGuards'
  <2>1. PICK c : cmd' = [cmd EXCEPT ![a] = c]
    BY <1>1 DEF Start
  <2>2. ~At(a, {"save", "freeState", "freeBook", "notify"})
    BY <1>1 DEF Start, At, Running, Idle, NoCommand, Kinds
  <2>3. owner' = owner /\ serve' = serve
    BY <1>1 DEF Start
  <2>4. \A l \in Locks : owner'[l] # a
    BY <2>2, <2>3, HoldsNothing
  <2> QED  BY <2>1, <2>3, <2>4, <1>n, OthersKeepGuards
<1>2. ASSUME NEW a \in Admins, Lock(a) PROVE AdminGuards' /\ HandlerGuards'
  <2>1. PICK l \in Wants(a) : owner' = [owner EXCEPT ![l] = a]
    BY <1>2 DEF Lock
  <2>2. /\ Running(a)
        /\ \/ Instr(a) = "lockBook" /\ l = <<cmd[a].node, "book">>
           \/ Instr(a) = "lockState" /\ l = <<cmd[a].node, "state">>
        /\ l \in Locks
    BY <2>1 DEF Wants, At
  <2>3. cmd' = [cmd EXCEPT ![a] = Advanced(a)] /\ serve' = serve
    BY <1>2 DEF Lock
  <2>4. \A m \in Locks : owner[m] # a
    BY <2>2, HoldsNothing DEF At
  <2>5. \A m \in Locks : owner'[m] = IF m = l THEN a ELSE owner[m]
    BY <2>1, <1>t DEF TypeOK
  <2>6. ASSUME NEW n \in Nodes
        PROVE  /\ owner'[<<n, "state">>] = a => At(a, {"save", "freeState"})'
               /\ owner'[<<n, "book">>] = a => At(a, {"freeBook", "notify"})'
    <3>1. CASE Instr(a) = "lockBook" /\ l = <<cmd[a].node, "book">>
      <4>1. At(a, {"freeBook", "notify"})'
        BY <3>1, <2>2, <2>3, NextInstr
      <4> QED  BY <4>1, <3>1, <2>4, <2>5, <1>n
    <3>2. CASE Instr(a) = "lockState" /\ l = <<cmd[a].node, "state">>
      <4>1. At(a, {"save", "freeState"})'
        BY <3>2, <2>2, <2>3, NextInstr
      <4> QED  BY <4>1, <3>2, <2>4, <2>5, <1>n
    <3> QED  BY <3>1, <3>2, <2>2
  <2> QED  BY <2>3, <2>5, <2>6, OthersKeepGuards
<1>3. ASSUME NEW a \in Admins, Unlock(a) \/ ReturnError(a) \/ Panic(a)
      PROVE  AdminGuards' /\ HandlerGuards'
  <2>1. PICK c : cmd' = [cmd EXCEPT ![a] = c]
    BY <1>3 DEF Unlock, ReturnError, Panic
  <2>2. serve' = serve
        /\ owner' = [l \in Locks |-> IF owner[l] = a THEN None ELSE owner[l]]
    BY <1>3 DEF Unlock, ReturnError, Panic, Release
  <2>3. \A l \in Locks : owner'[l] # a
    BY <2>2, NoneAssumption
  <2> QED  BY <2>1, <2>2, <2>3, <1>n, OthersKeepGuards
<1>4. ASSUME NEW a \in Admins, Work(a) \/ Sent(a)
      PROVE  AdminGuards' /\ HandlerGuards'
  <2>1. /\ cmd' = [cmd EXCEPT ![a] = Advanced(a)]
        /\ serve' = serve
        /\ owner' = owner
        /\ Running(a)
        /\ Instr(a) \in {"save", "warn", "ask", "tell", "notify"}
    BY <1>4 DEF Work, Sent, AllSent, At, Sends
  <2>2. ASSUME NEW n \in Nodes
        PROVE  /\ owner'[<<n, "state">>] = a => At(a, {"save", "freeState"})'
               /\ owner'[<<n, "book">>] = a => At(a, {"freeBook", "notify"})'
    BY <2>1, NextInstr DEF GuardInv, AdminGuards, At
  <2> QED  BY <2>1, <2>2, OthersKeepGuards
<1>5. ASSUME NEW a \in Admins,
             Answered(a) \/ \E p \in Nodes : Connect(a, p) \/ Refused(a, p)
      PROVE  AdminGuards' /\ HandlerGuards'
  <2>1. PICK c : cmd' = [cmd EXCEPT ![a] = c]
    <3>1. CASE \E p \in Nodes : Connect(a, p)
      BY <3>1 DEF Connect
    <3>2. CASE \E p \in Nodes : Refused(a, p)
      BY <3>2 DEF Refused
    <3>3. CASE Answered(a)
      BY <3>3 DEF Answered
    <3> QED  BY <3>1, <3>2, <3>3, <1>5
  <2>2. /\ owner' = owner
        /\ cmd'[a].kind = cmd[a].kind
        /\ cmd'[a].pc = cmd[a].pc
    <3>1. cmd[a] \in Command
      BY <1>t DEF TypeOK
    <3>2. CASE Answered(a)
      BY <3>1, <3>2, <1>t DEF Answered, TypeOK, Command
    <3>3. ASSUME NEW p \in Nodes, Connect(a, p) PROVE <2>2!:
      BY <3>1, <3>3, <1>t DEF Connect, TypeOK, Command
    <3>4. ASSUME NEW p \in Nodes, Refused(a, p) PROVE <2>2!:
      BY <3>1, <3>4, <1>t DEF Refused, TypeOK, Command
    <3> QED  BY <3>2, <3>3, <3>4, <1>5
  <2>3. \A h \in Handlers : serve[h] = "locked" => serve'[h] = "locked"
    BY <1>5, <1>t DEF Connect, Refused, Answered, TypeOK
  <2>4. \A S : At(a, S)' <=> At(a, S)
    BY <2>2 DEF At, Running, Instr
  <2>5. ASSUME NEW n \in Nodes
        PROVE  /\ owner'[<<n, "state">>] = a => At(a, {"save", "freeState"})'
               /\ owner'[<<n, "book">>] = a => At(a, {"freeBook", "notify"})'
    BY <2>2, <2>4 DEF GuardInv, AdminGuards
  <2> QED  BY <2>1, <2>2, <2>3, <2>5, OthersKeepGuards
<1>6. ASSUME NEW h \in Handlers, Serve(h) PROVE AdminGuards' /\ HandlerGuards'
  <2>1. cmd' = cmd
    BY <1>6 DEF Serve, LockForPeer, Handle, PanicForPeer
  <2>2. h \notin Admins /\ h # None
    BY NoneAssumption, AdminsAssumption DEF Handlers
  <2>3. \A l \in Locks : owner'[l] \in {owner[l], None, h}
    <3>1. CASE LockForPeer(h)
      BY <3>1, <1>t DEF LockForPeer, TypeOK
    <3>2. CASE Handle(h)
      BY <3>2 DEF Handle, Release
    <3>3. CASE PanicForPeer(h)
      BY <3>3 DEF PanicForPeer
    <3> QED  BY <3>1, <3>2, <3>3, <1>6 DEF Serve
  <2>4. \A a \in Admins : \A S : At(a, S)' <=> At(a, S)
    BY <2>1 DEF At, Running, Instr
  <2>5. \A a \in Admins, l \in Locks : owner'[l] = a => owner[l] = a
    BY <2>2, <2>3, NoneAssumption
  <2>6. AdminGuards'
    BY <2>4, <2>5, <1>n DEF GuardInv, AdminGuards
  <2>7. ASSUME NEW g \in Handlers, NEW l \in Locks, owner'[l] = g
        PROVE  serve'[g] = "locked"
    <3>1. CASE LockForPeer(h)
      <4>1. serve' = [serve EXCEPT ![h] = "locked"]
        BY <3>1 DEF LockForPeer
      <4>2. g = h \/ owner[l] = g
        BY <2>7, <2>3, NoneAssumption DEF Handlers
      <4> QED  BY <4>1, <4>2, <1>t DEF GuardInv, HandlerGuards, TypeOK
    <3>2. CASE Handle(h)
      <4>1. owner[l] = g /\ g # h
        BY <3>2, <2>7, NoneAssumption DEF Handle, Release, Handlers
      <4> QED  BY <3>2, <4>1, <1>t DEF Handle, GuardInv, HandlerGuards, TypeOK
    <3>3. CASE PanicForPeer(h)
      <4>1. owner[l] = g
        BY <3>3, <2>7 DEF PanicForPeer
      <4>2. serve[g] = "locked" /\ serve[h] = "start"
        BY <4>1, <3>3, <2>2 DEF GuardInv, HandlerGuards, PanicForPeer, Wants
      <4> QED  BY <3>3, <4>2, <1>t DEF PanicForPeer, TypeOK
    <3> QED  BY <3>1, <3>2, <3>3, <1>6 DEF Serve
  <2> QED  BY <2>6, <2>7 DEF HandlerGuards
<1>7. CASE UNCHANGED vars
  BY <1>7 DEF vars, GuardInv, AdminGuards, HandlerGuards, At, Running, Instr
<1> QED
  BY <1>1, <1>2, <1>3, <1>4, <1>5, <1>6, <1>7 DEF Next, Step

LEMMA GuardInit == Init => GuardInv
<1> SUFFICES ASSUME Init PROVE AdminGuards /\ HandlerGuards
  BY TypeInit DEF GuardInv
<1>1. \A l \in Locks : owner[l] = None
  BY DEF Init
<1>2. \A n \in Nodes : <<n, "state">> \in Locks /\ <<n, "book">> \in Locks
  BY DEF Locks
<1> QED  BY <1>1, <1>2, NoneAssumption DEF AdminGuards, HandlerGuards, Handlers

\* No set of threads waits in a circle, across the mutexes of a node and the
\* exchanges between nodes: the ConversionDay self-deadlock is gone, and no
\* two commands of two nodes can deadlock each other.
THEOREM NoThreadsWaitInACircle == Spec => []NoCircularWait
<1> QED  BY GuardInit, GuardStep, GuardsPreventCircles, PTL DEF Spec

=============================================================================
