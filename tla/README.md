# Verification of habi_core

TLA+ models of the HABI bearer-instrument prototype: a set of nodes hold named
bearers, spend them, and exchange what they hold and spent over links that come
and go; a *Conversion Day* settles, for all nodes at once, what was spent. The
modules are written from the Rust code in `src/src/`; `PROJECT.json` maps each
definition to the lines it stands for. The repository has TLA+ specifications of
its own (`src/tla/`) that were written before the code; nothing here is taken from
them, and where they are quoted it is as a document about the program.

## The system

| Component | State | Operations | Hard behaviour |
|---|---|---|---|
| Node process, `bin/habi_node.rs` with `shared_state.rs`, `peer_protocol.rs` | `NodeShared` behind a mutex: ledger, own spent set, link table; a peers table that never changes | admin commands LinkUp, LinkDown, Propagate, SpendAt, Seed, ConversionDay, Status; peer messages LinkUpHello/Ack, LinkDown, PropagateRequest/Reply, SpentNotify, StatusRequest/Reply | a thread per connection; a command is several critical sections with network calls between them; peers crash, restart and do not answer |
| Conversion Day coordinator, `conversion_day_coordinator.rs` | none (pure) | `compute_conversion_day` over the snapshots of all nodes | the snapshots are of different moments |
| State file, `persistence.rs` | `NODE_ID`, `LEDGER`, `SPENT` lines | save (write a temporary file, sync, rename), load | crash inside a save, failed save, unreadable file |
| Wire format, `wire.rs` | none | encode, decode, escape, split | characters that are separators, empty lists, lines that end early |
| Locks of a node process | the `NodeShared` mutex, the peers mutex | lock, unlock, panic | guards that live longer than they seem, poisoned mutexes, sends under a guard, peers that hang |
| Centralised network, `network.rs`, `conversion_day.rs` | all nodes and the link matrix in one program | `link_down`, `link_up`, `propagate`, `spend_at`, `run_conversion_day` | long sequences of legal calls |
| `habi_admin.rs`, `main.rs` | none | send one line; scripted demonstration | none |

An administrator connects to a node's admin port and sends one command. The
command's thread reads or changes `NodeShared` under the mutex, releases it,
connects to peers, takes the mutex again for what they answered, saves, and
answers. A peer connection is a thread that reads one message, takes the mutex,
handles the message, and writes at most one reply. There is no timeout, no retry
and no recovery protocol: what an operation could not do is left to the next
LinkUp or ConversionDay.

What makes each part correct:

* node: a running node never forgets a spend, its state file never loses one, and
  what the node knows it spent it does not hold, unless it is seeded again; it
  accepts the spend of a bearer once; a spend is in the file before its SpendAt
  notifies a peer or answers Ok; a bearer nobody spent is never lost, and one that
  is gone comes back by a Seed only; every command is answered;
* coordinator: a settlement is not done over a double spend;
* links: the two ends of a link agree, and so do two ledgers after a LinkUp;
* network and barrier: what a barrier cleared stays cleared.

## The modules

| Module | Models | Extends |
|---|---|---|
| `NodeShared` | the pure set computations: link-up merge, propagate filter, burn set, conflicts | |
| `HabiNode` | the node processes, their threads, connections, state files and faults | `NodeShared` |
| `Network` | the centralised network and its barrier | `NodeShared` |
| `SerialNetwork` | the network as the abstract specification of nodes that execute one command at a time | `Network` |
| `NodesAsNetwork` | the refinement mapping from `HabiNode` to `SerialNetwork` | `HabiNode`, instance of `SerialNetwork` |
| `NodeText` | the text of a state file: what is written for a node, what is read from a text | |
| `StateStore` | what state files promise: an atomic save | `NodeText` |
| `StateFile` | a save step by step on a file system; implements `StateStore` | `NodeText`, instance of `StateStore` |
| `NodeLocks` | the two mutexes of each process and the order in which every command locks, sends, waits and saves | |
| `Wire` | the messages and the lines of a state file, character by character, and a connection | |
| `MCHabiNode`, `MCNetwork`, `MCNodesAsNetwork`, `MCNodeLocks`, `MCStateFile`, `MCWire` | symmetry and small sets for TLC | the ones above |
| `NetworkProofs` | proofs about `Network` and `SerialNetwork` | `SerialNetwork`, `TLAPS` |
| `HabiNodeProofs` | typing of `HabiNode`; spends and holdings are apart | `HabiNode`, `TLAPS` |
| `HabiNodeHoldingProofs` | no bearer is lost, none comes back; both ends of a LinkUp converge | `HabiNodeProofs` |
| `HabiNodeSpendProofs` | permanence, durability and uniqueness of spends; honesty of a settlement, and what it covers | `HabiNodeProofs` |
| `NodesAsNetworkProofs` | the nodes implement the centralised network; what carries over | `NodesAsNetwork`, `HabiNodeProofs`, instance of `NetworkProofs` |
| `NodeLocksProofs` | no circular wait | `NodeLocks`, `TLAPS` |
| `WireProofs` | what is written is what is read; cut lines; names in state files | `Wire`, `TLAPS` |
| `StateFileProofs` | round trip, whole files, `StateFile` implements `StateStore` | `StateFile`, `TLAPS` |

Some definitions are preceded by a *faulty variant*, which nothing uses: the same
definition with a mistake the code could have. `PROJECT.json` ("mutants") names
for each property a variant that violates it.

### HabiNode

| Variable | In the code |
|---|---|
| `ledger`, `spent`, `link` | `NodeShared.node.ledger`, `.node.spent`, `NodeShared.links` of each process |
| `disk` | the state file of each process |
| `up` | whether the process runs |
| `cmd[t]` | the locals and the program counter of `handle_admin_command` in the admin thread `t` |
| `net` | the lines on open connections |
| `issued`, `reseeded`, `ever`, `acked`, `settled`, and `atStart` in `cmd` | history, read by the properties only; without `"reseed"`, `issued` also keeps Seed to new bearers |

An action is one critical section of the `NodeShared` mutex, or one network or
disk operation between two of them. `AdminLinkUp` ... `AdminConversionDay` start a
command, the actions under `Continue` are the rest of it, and the ones under
`HandlePeerMessage` are `handle_incoming_peer_message`, which holds the mutex
throughout. `Crash`, `Restart` and `Lose` are the faults. Commands of one node and
of several nodes interleave, up to the number of `Threads`.

What is simplified:

* A connection is a request with at most one reply. A message may be delivered at
  any later time, in any order with those of other connections; it is never
  duplicated, because a connection is used once.
* A state is read and the connection that carries it is opened in one step. If the
  peer is down at that moment the exchange fails.
* The peers mutex is left out. It guards a constant table, so the model has more
  interleavings than the program, never fewer.
* Every node has a state file and lists every other node as a peer.
* Seed puts any bearer into the ledger, checking nothing (`habi_node.rs:382-386`),
  also one the node itself has spent. Its documentation says that it is for tests
  and bootstrap and has no provenance check (`wire.rs:77-82`), and leaves open which
  bearers may be seeded. That is a choice of administrators, so it is an element of
  `Faults`: with `"reseed"` they seed any bearer at any time, without it only bearers
  that were not seeded before.
* An admin command that returns an error without a network call changes nothing
  and is no action.

`Faults` selects what may go wrong: `"crash"` (a process is killed), `"loss"` (a
connection breaks with its line under way), `"disk"` (a save fails and is only
warned about), `"load"` (a state file cannot be read, and the node starts fresh),
`"reseed"` (a bearer that was seeded before is seeded again).

A message of `HabiNode` arrives whole or not at all. The code does not see to it:
see `Wire` and finding 5.

### Network, SerialNetwork, NodesAsNetwork

`Network` has the operations of `network.rs` and `run_conversion_day` as one-step
actions, without the log. It is what the distributed node is written after:
comments in `shared_state.rs` and `habi_node.rs` say of each command which
function of `network.rs` it mirrors. `SerialNetwork` takes the differences that
are intended into account (links are down at first, a LinkUp may come over a link
that is up, bearers may be seeded, a ConversionDay is for all nodes), and
`NodesAsNetwork` says when a command of the nodes takes effect: a LinkUp when the
peer has handled the hello (the ack under way counts as merged), a LinkDown when
it is sent, a Propagate when its reply is applied, a SpendAt when the bearer leaves
the ledger and a ConversionDay when it burns (notices under way, or still to be
sent, count as handled).

### NodeText, StateStore, StateFile

| Variable | In the code |
|---|---|
| `mem`, `saver` | the `Node` of each process, and where its `save_node_state` is: which file it has open and how much it has written |
| `dir`, `data` | the directory and the contents of the inodes, as processes see them |
| `journal`, `flushed` | the same as the device has them |

`Create`, `Write`, `SyncAll` and `Rename` are the calls of `save_node_state`;
`writeln!` to an unbuffered file is several writes, so a line may be cut after its
tag. Each may fail (`SaveFails`), the process may be killed between any two, and
the device gets each inode and the directory whenever it likes (`Flush`,
`FlushDir`), except that `sync_all` waits for the inode. The guard of `NodeShared`
is held throughout, so the node does not change during its own save. A temporary
file that a killed process left is truncated and used again.

`StateStore` is the same without pieces: `Save` replaces a file, `Commit` brings
the files to the device. `StateFile` implements it; a save takes effect at its
rename. `HabiNode` uses the store without power losses: `Persist` and `Restart`.

### NodeLocks

A command is a *script*: the sequence of what it locks (`lockBook` for the peers
table, `lockState` for `NodeShared`), unlocks, asks a peer and waits for, tells a
peer, saves and warns of. Guards live to the end of the statement or block they
are in, as in Rust. `serve` are the threads that serve the connections. A peer in
`Hung` lets a connection wait for ever. With `"stderr"` among the faults a warning
may panic (`eprintln!` panics when it cannot write), which poisons the mutexes the
thread holds; `lock().unwrap()` of a poisoned mutex panics in turn. What is sent
and merged is left out: `HabiNode` has it, with each critical section as one step.

### Wire

Texts are sequences of characters; the three that are escaped have names, `Backslash`,
`Bar` and `Comma`. `Shapes` lists every message of `PeerMessage`,
`AdminMessage` and `AdminReply` with the kinds of its fields; `Encode` and `Decode`
are the encoders and decoders over that table. The tag counts as one character.
`WriteLine`, `CutLine` and `Receive` are a connection whose writer may be killed.
`StateLine` and `ReadLine` are a line of a state file, where names are not escaped.
`Scan` is a loop over the characters of a text, `UnescapeStep` and `SplitStep` are
the bodies of the loops of `unescape`, `split_fields` and `decode_list`, with a flag
for a backslash in front where the code looks one character ahead.

No line feed is in a name (`NamesAssumption`). A node cannot get one: its names come
in lines, from peers, administrators and its state file. `habi_admin` can be given
one on its command line and does not escape it; the node then reads a cut line.

## What TLC checks

| Run | Instance | Shows |
|---|---|---|
| `crash` | 2 nodes, 1 bearer, 2 threads, all commands, crash and loss | `OwnSpendFinal`, `SpendSavedBeforeAnswered`, `SpendAcceptedOnce`, `HonestSettlement`, `MemoryCoversDisk`, `UnspentNeverLost`, `GoneStaysGone` |
| `live` | 2 nodes, 1 bearer, 1 thread, all commands; crash, loss, failed saves and second Seeds | `CommandEnds`, `RoundsRepair`, and `OwnSpendFinal` and `GoneStaysGone` with the latter two faults |
| `serial` | 3 nodes, 2 bearers, 1 thread, all commands, no faults | `ImplementsNetwork`, `LinksAgree`, `SettledIsGone`, `LinkUpConverges`, `SettlementIsGlobal` |
| `network` | 4 nodes, 2 bearers | `LinksSymmetric`, `OwnSpendFinal`, `SettledIsFinal`, `OnlyMissedSpendBreaksBarrier` |
| `locks` | 3 nodes, one of them hung, 2 commands, panicking warnings | `NoCircularWait`, `CommandsEnd`, `HungPeerStaysLocal` |
| `state_file` | 1 process, 1 bearer, 4 inodes | `WholeFiles`, `ImplementsStore` |
| `wire` | every message, 1 id, 9 names, lists of at most 2 | `WholeLineIsRead`, `OnlyLastFieldIsCut`, `NameSurvivesRestart` |
| `stale_merge` | 2 nodes, 2 threads | `LinkUpConverges` is violated |
| `stale_gather` | 2 nodes, 2 threads | `SettlementIsGlobal` is violated |
| `stale_hello` | 2 nodes, 2 threads | `SettledIsGone` is violated |
| `restart` | 2 nodes, 1 thread, crash | `BurnIsPermanent` is violated |
| `cut_line` | every message, lists of at most 1 | `ReceivedAsSent` is violated |

No run bounds a counter: every variable is finite for finite constants. Why the
instances are large enough:

* Two nodes and two threads give every pair of concurrent operations, at one node
  and at two (`crash`). A third node matters to links between others, to notices to
  several peers and to the gather loop (`serial`), a fourth to relays in the
  centralised network. What concerns three nodes *and* concurrency or faults
  (`HonestSettlement`, `OwnSpendFinal`, the spends) is proved for any number.
* A bearer's fate does not depend on the others except through whole sets in one
  message; one bearer is enough for the properties of one bearer, and `serial` has
  two.
* `locks`: a circle needs two commands; a third node is there to hang. Each
  command is executed once per connection, as a connection carries one.
* `state_file`: processes meet only in the temporary name, which the assumption
  `DistinctTemps` of the proofs excludes; four inodes are the state file, its
  temporary file and two that an interrupted save left, and when all are in use
  `Create` fails. The values are few, the pieces in which they are written matter.
* `wire`: a name can hold a separator, a backslash before a separator, before
  another character and at its end, nothing, or a carriage return at its end; two
  such names in a list and one in each other field give every neighbourhood.

Nodes, bearers and threads are interchangeable; the runs of safety properties use
symmetry, the liveness runs do not. Deadlock is not checked in `locks` and `wire`,
where everything ends.

Fairness (`live`, `restart`, `locks`): a thread that can take its next step takes
it, and a line that was sent is delivered or lost. The first is the operating
system's scheduling of threads, the second is TCP. Weak fairness is enough also for
the mutexes: finitely many commands compete for one. No administrator is obliged to
connect and no killed process to be restarted. A peer that accepts a connection and
never answers is excluded from `live`: `exchange_with_peer` has no timeout and
would wait for good. `locks` has such a peer and shows what it stops: commands that
need it and, because a SpendAt sends with the peers table locked, other commands
of that node; never the service to peers, nor a Status or Seed.

`RoundsRepair` says what the best-effort notices rely on. It assumes that failures
and second Seeds stop and that ConversionDays go on to succeed, not that anything is
sent again, and holds with one command at a time; with two, `stale_hello` brings a
settled bearer back in between.

### Where documents and code differ

The five violated runs are findings, each quoted in `PROJECT.json`:

1. `stale_merge`: the two ends of a LinkUp do not converge when another command
   runs at the initiator between the hello and its ack.
2. `stale_gather`: a ConversionDay answers Ok although two nodes have spent one
   bearer, because the spends took place after the snapshots. What the quorum rule
   does guarantee is `HonestSettlement`: a double spend that was on disk when the
   round began is always found.
3. `stale_hello`: a LinkUpHello older than a settlement puts a settled bearer back,
   also when its sender has spent the bearer meanwhile: the hello carries the spent
   set of when it was made. Only a receiver that spent the bearer itself is safe.
4. `restart`: a burn that a peer learned of by SpentNotify is not saved, so the
   bearer is back after a restart.

5. `cut_line`: a line whose writer is killed in the middle is taken for a message
   ("newline-terminated", `wire.rs`): `read_one_line` returns what there is when the
   stream ends. A notice or a Seed then names a shorter bearer, a hello has a
   shorter spent set. `OnlyLastFieldIsCut` shows that it is never worse than that.

The first three need two commands at a time: `serial` shows that the same
properties hold, and the nodes implement the centralised network, when one command
is executed after the other. That is proved, too, for any number of nodes and with
as many faults as each of them bears (below).

Noticed while modelling, without a run of their own:

* A spend may be heard of before it is saved. Between `local_spend` and `persist`
  (`habi_node.rs:232-237`) the mutex is free; a StatusReply, LinkUpAck or LinkUpHello
  of another thread carries the spend, a ConversionDay of another node burns on it,
  the owner is killed, and after its restart it holds the bearer and does not know
  that it was spent. `SpendSavedBeforeAnswered` says that this window is the only
  one: a spend of a running node is on disk, or its own thread is in between.
* A failed save is a warning (`habi_node.rs:88`), and the spend is announced; a kill
  then undoes it, although the administrator was told Ok.
* A second Seed makes a node hold, in memory and in its file, a bearer that is in
  its own spent set. It can spend it again, and the next merge removes it.
* The comment at `habi_node.rs:241-243` says that a peer that missed a notice learns
  of the spend "via LinkUp/Propagate", but a Propagate only adds to a ledger; LinkUp
  and ConversionDay remove.
* Two state files of one directory that differ in the extension only share their
  temporary file (`persistence.rs:34`) and spoil each other; `DistinctTemps` excludes
  them.

## What is proved

The proofs hold for any sets of nodes, bearers and threads, any selection of
commands and, unless said otherwise, all faults (`"load"` and `"reseed"` among them).
`"load"` is in no run: most promises do not hold with it. The constants need only
`NoneAssumption`, `KindsAssumption` and `FaultsAssumption`. Four assumptions are
made by some theorems and named in their statements:

| Assumption | Says | Why |
|---|---|---|
| `FilesAreRead` | "load" is not among the faults: a start reads what was saved | a node that starts fresh has forgotten its spends; `main` accepts that with a warning |
| `FilesAreSaved` | "disk" is not either | a failed save is a warning, and the spend is announced all the same |
| `TakingTurns` | there is one thread: one admin command at a time, at all nodes together, and the next begins when the notices of the last are delivered or lost | findings 1 to 3 are what happens otherwise |
| `UndisturbedTurns` | `TakingTurns` and no faults at all | a lost ack or notice leaves the two ends of a link, or a spent bearer, apart: the code has no retry |

With one thread the steps of a command still interleave with the handlers of its
messages, in any order, and with the faults.

`NetworkProofs`: `TypeCorrect`, `LinksStaySymmetric`, `OwnSpendStaysFinal`,
`SettledStaysFinal`, `BarrierIsBrokenByMissedSpendsOnly`, and the same for
`SerialNetwork` (`SerialNetworkIsSafe`, `SerialBarrierIsBrokenByMissedSpendsOnly`).
The invariants are
inductive together with the type invariant. For `SettledIsFinal` the point is that
merges and propagations only move what somebody holds, and that nobody can spend
what nobody holds.

`HabiNodeProofs`:

* `TypeCorrect`. The type invariant is not inductive alone: that a thread which is
  not idle belongs to a running node, and a waiting one has a peer, is `ThreadsOK`.
* `ApartAlways`, a lemma, under all faults: of one node, in memory and in its file,
  ledger and spent set have only bearers in common that were seeded again
  (`SpentApart`). It needs `OnlyIssued`: whatever is held, spent, saved or under way
  was issued, so a bearer that is seeded for the first time is nowhere yet.

`HabiNodeHoldingProofs`:

* `GoneForGood`, under all faults: a bearer that is in no ledger, file or message
  (`Absent`) stays so, action by action, but for a Seed of that very bearer.
* `UnspentIsKept`, for `FilesAreRead`, failing saves included. A bearer is removed
  only where some spent set names it, and a save could drop a bearer of the file
  that memory does not have. The inductive invariant `HoldingInv` excludes both: of
  a bearer nobody ever spent no spent set, message, snapshot or list of notices
  knows (`Unheard`), and a running node has it in memory if its file has it
  (`HoldsSaved`).
* `LinkUpMakesEndsConverge`, for `TakingTurns`, under all faults. While a thread
  waits for its ack, its node is still as the hello said: the exchange changes only
  the peer, a killed initiator takes its command with it, and nothing but the hello
  or its ack is under way (`HelloStands`).

`HabiNodeSpendProofs`, for `FilesAreRead` ("load" is not among the faults) or
`FilesAreSaved` ("disk" is not either):

* `MemoryAlwaysCoversDisk`: in memory a spent set only grows while the process
  runs, a save copies it, a restart copies it back (`SpentOfRunning`).
* `SpendIsSavedBeforeAnswered`, `SpendIsAcceptedOnce`. The inductive invariant is
  `SpendInv`: the spend a thread executes is in memory, hence (by `SpentApart`) not
  in the ledger unless it was seeded again, so no second thread can begin it; after
  the save it is on disk, and (by `MemoryCoversDisk`) no save takes it out; what was
  acknowledged is on disk, so it is in memory after a restart, too. A spend
  enters memory with a thread about to save it, and only the save or a kill, which
  clears the memory, takes the thread from there.

And in the same module, for `FilesAreRead`:

* `OwnSpendStaysFinal`: memory covers the file, so a save adds to it and a restart
  brings back all of it (`DiskKeepsSpends`), and `SpentApart` does the rest. With an
  unreadable file the node forgets, so the assumption is needed.
* `SettlementIsHonest`. The inductive invariant `GatherInv` says of a thread that
  collects: at most one message of its exchange is under way and it is the request
  to, or the reply of, the peer it waits for (`OneExchange`); each conflict that was
  on disk at the start has two spenders that are still to be asked, were missed, are
  being asked, or have reported it (`ConflictsReported`). A burn needs that nobody is
  left or missed, so both have reported and the round sees the conflict.

* `SettlementCoversAllNodes`, for `TakingTurns` and `FilesAreRead`. The invariant
  `RoundComplete` says that what a peer has spent, in memory or in its file, is
  known to the round once it has been asked, and told by its reply while that is
  under way. Nobody spends during the round, and a peer that is killed in the middle
  of it comes back with nothing the round has not heard: its memory covered its
  file. With "load" among the faults TLC finds a violation (an unreadable file hides
  a spend from the round and is readable again afterwards), so the assumption is
  needed.

`NodesAsNetworkProofs`, for `UndisturbedTurns`:

* `NodesImplementNetwork`: each step of `HabiNode` is, under the mapping of
  `NodesAsNetwork`, a step of `SerialNetwork` or changes nothing there. The handling
  of a hello is `Relink`, the broken link of a LinkDown request is `LinkDown`, the
  application of a PropagateReply is `Propagate`; a SpendAt takes effect, notices
  and all, when the bearer leaves the ledger, and a ConversionDay when it burns.
  There is one lemma for each action. The invariant `SerialInv` says of every
  message under way that what it tells of a node is true when it is read
  (`MessageTrue`), of the command what it has learned (`CommandTrue`), and that apart
  from notices there is only one message (`Alone`).
* `LinksAgreeBetweenCommands` and `SettledIsGoneBetweenCommands`: when no command is
  being executed and no message is under way, the mapping is the identity, so the
  invariants of the centralised network are ones of the nodes. They are not proved
  again: `Proved` is an instance of `NetworkProofs` at the mapped state, and
  `InvariantCarriesOver` takes its invariant, step by step, to the nodes. This is
  the argument the comments of `shared_state.rs` rely on when they say that a
  function mirrors one of `network.rs`.

`NodeLocksProofs`, for any nodes, admin connections, hung peers and faults:

* `TypeCorrect` and `NoThreadsWaitInACircle`. Every wait goes down a ladder: who
  waits for a reply holds nothing; who waits for the `NodeShared` mutex holds
  nothing; who holds that mutex waits for nothing; who holds the peers mutex waits
  for no other. The invariant says of every thread which locks it holds at its place
  of its script; a set of waiting threads then has one that waits for none of them.

`StateFileProofs`, for any processes, bearers and inodes, under `DistinctTemps` (no
two of the state and temporary file names fall together):

* `RoundTrip`: what is loaded from the text saved for a node is the node.
* `TypeCorrect`, `FilesStayWhole` and `ImplementsAtomicStore`, from an inductive
  invariant that says that the inode a save writes to is named by nobody else, and
  holds just what was written; that a save that is about to rename has all of its
  text on the device; and that whatever state-file names lead to, in the
  directory or in the one on the device, is complete and on the device.

`WireProofs`, for any characters, ids, names and lengths of lists, under
`NamesAssumption`:

* `UnescapeUndoesEscape`, `DecodeUndoesEncodeList`, `DecodeUndoesEncode`. They are
  inductions over a text or a list. The induction theorems of the library take an
  operator as a parameter, which no prover here can instantiate; `NatInduct` and
  `SeqInduct` are the same rules for sets, and `NatInduct` is proved from the
  pigeonhole principle of `FiniteSetTheorems`: if 0 is in a set and with n also
  n + 1, but not k, then n |-> n + 1 maps the members up to k one-to-one into one
  less. From these the recursive functions behind `FlattenSeq`, `FoldLeft` and
  `MessagesOf` are shown to exist, and to do a loop's work one character at a time
  (`FlattenAppend`, `ScanAppend`, `JoinAppend`, `EscapeAppend`).
* The notion that carries decoding is `Plain`: a text that a splitter at its sep
  passes over without ending a part, or being left in an escape. Escaped names are
  plain for both separators, lists of them for the bar; so splitting what was joined
  gives the parts back (`SplitJoin`).
* `SpecWholeLineIsRead`, `SpecOnlyLastFieldIsCut`, `SpecNameSurvivesRestart`: the
  three invariants of the `wire` run, from the inductive invariant `IInv`, that the
  connection carries the message and a line feed (`Sent`) or some beginning of it
  (`Cut`). The parts of a beginning are those of the message up to the last, which
  is a beginning of one (`SplitGoesOn`, the monotonicity of the splitter), and the
  number of parts must be right for the line to be accepted.

Every safety property the passing runs check is proved. Only model-checked is
liveness (`CommandEnds`, `CommandsEnd`, `HungPeerStaysLocal`, `RoundsRepair`), which
is out of the prover's reach.

## Not modelled

* `habi_admin.rs` and `main.rs`: a command line that sends one line, and a scripted
  demonstration. Neither has state.
* Logs, the wording of errors, `print_state`, argument and peers-file parsing. The
  peers file is taken to list every other node under its id.
* `check_post_conversion_day_safety` and `pairwise_synced_no_double_spend`: unit
  tests call them, the program does not.
* The repository's own specifications and proofs, and what they describe and the
  code does not have (the policy gate, the bearer life cycle).
* Concurrent commands in the refinement: `ImplementsNetwork` is false then, as the
  findings show, and no weaker atomic specification is stated in the repository.

## Plan

Done: everything above. What could follow:

1. The safety part of `CommandEnds`: that every step of a command leaves less of it
   to do, and that a thread that waits always has a message of its exchange under
   way, or a failure to take.
2. The cut line in `HabiNode`: a fault that delivers a message with a smaller last
   field, to see what of the safety properties is left.
3. State files whose temporary names fall together, if a document says which file
   names may be used.
