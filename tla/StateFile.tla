----------------------------- MODULE StateFile -----------------------------
(***************************************************************************)
(* The state files of the node processes of one machine at the level of    *)
(* the file system: save_node_state writes a temporary file, syncs it and  *)
(* renames it over the state file; load_node_state reads the state file.   *)
(*                                                                         *)
(* A file is an inode.  data is what reads see, flushed what is on the     *)
(* device; dir is the directory reads see, journal the one on the device.  *)
(* The operating system writes either back when it likes.                  *)
(***************************************************************************)
EXTENDS NodeText

CONSTANTS
  Inodes,       \* the inodes of the file system; when all are in use it is full
  NoValue,      \* no inode
  Stem, Ext     \* the name of p's state file is Stem[p].Ext[p]

ASSUME NoValueAssumption == NoValue \notin Inodes

VARIABLES
  mem,       \* mem[p]: the node in memory
  up,        \* the processes that run
  saver,     \* saver[p]: the save p is in the middle of
  dir, journal,    \* the inode of each name
  data, flushed    \* the text of each inode

vars == <<mem, up, saver, dir, journal, data, flushed>>

StatePath(p) == <<Stem[p], Ext[p]>>

\* path.with_extension("tmp"): the extension is replaced, not added to.
TmpPath(p) == <<Stem[p], "tmp">>

Names == {StatePath(p) : p \in Procs} \cup {TmpPath(p) : p \in Procs}

\* pc: where a save is; fd: the inode it writes; pos: the pieces written.
Idle == [pc |-> "idle", fd |-> NoValue, pos |-> 0]

\* No two names fall together: a state file that is not a .tmp itself, and no
\* two that differ in the extension only.
DistinctTemps ==
  \A p, q \in Procs :
    /\ TmpPath(p) # StatePath(q)
    /\ p # q => TmpPath(p) # TmpPath(q) /\ StatePath(p) # StatePath(q)

\* The text of the inode d gives for a name.
TextAt(d, texts, name) == IF d[name] = NoValue THEN NoFile ELSE texts[d[name]]

FileOf(p) == TextAt(dir, data, StatePath(p))
KeptOf(p) == TextAt(journal, flushed, StatePath(p))

-----------------------------------------------------------------------------
(* A process *)

Saving(p) == saver[p].pc # "idle"

\* Faulty variant: the node changes while it is saved.
ChangeUnlocked(p) ==
  /\ p \in up
  /\ \E node \in Changes(mem[p]) : mem' = [mem EXCEPT ![p] = node]
  /\ UNCHANGED <<up, saver, dir, journal, data, flushed>>

\* A save is under the guard of the node, so the node does not change then.
Change(p) ==
  /\ p \in up
  /\ ~Saving(p)
  /\ \E node \in Changes(mem[p]) : mem' = [mem EXCEPT ![p] = node]
  /\ UNCHANGED <<up, saver, dir, journal, data, flushed>>

InUse(i) ==
  \/ \E n \in Names : i \in {dir[n], journal[n]}
  \/ \E p \in Procs : i = saver[p].fd

\* File::create: the file of that name is emptied, or a new one is made.
Create(p) ==
  /\ p \in up
  /\ ~Saving(p)
  /\ \E i \in Inodes :
       /\ \/ dir[TmpPath(p)] = i /\ UNCHANGED flushed
          \/ /\ dir[TmpPath(p)] = NoValue
             /\ ~InUse(i)
             /\ flushed' = [flushed EXCEPT ![i] = <<>>]
       /\ dir' = [dir EXCEPT ![TmpPath(p)] = i]
       /\ data' = [data EXCEPT ![i] = <<>>]
       /\ saver' = [saver EXCEPT ![p] = [pc |-> "write", fd |-> i, pos |-> 0]]
  /\ UNCHANGED <<mem, up, journal>>

\* The text with a piece at place i; what is before it and not written yet is
\* a hole.
WrittenAt(text, i, piece) ==
  [j \in 1..(IF i > Len(text) THEN i ELSE Len(text)) |->
     IF j = i THEN piece ELSE IF j <= Len(text) THEN text[j] ELSE Hole]

Write(p) ==
  LET i == saver[p].pos + 1 IN
  /\ p \in up
  /\ saver[p].pc = "write"
  /\ i <= Len(Text(mem[p]))
  /\ data' = [data EXCEPT ![saver[p].fd] =
                WrittenAt(@, i, Text(mem[p])[i])]
  /\ saver' = [saver EXCEPT ![p].pos = i]
  /\ UNCHANGED <<mem, up, dir, journal, flushed>>

WrittenAll(p) == saver[p].pc = "write" /\ saver[p].pos = Len(Text(mem[p]))

\* Faulty variant: the file is not synced.
SyncAllSkipped(p) ==
  /\ p \in up
  /\ WrittenAll(p)
  /\ saver' = [saver EXCEPT ![p].pc = "rename"]
  /\ UNCHANGED <<mem, up, dir, journal, data, flushed>>

\* Faulty variant: synced before everything is written.
SyncAllEarly(p) ==
  /\ p \in up
  /\ saver[p].pc = "write"
  /\ saver[p].pos = Len(Text(mem[p])) - 1
  /\ flushed' = [flushed EXCEPT ![saver[p].fd] = data[saver[p].fd]]
  /\ saver' = [saver EXCEPT ![p].pc = "rename"]
  /\ UNCHANGED <<mem, up, dir, journal, data>>

SyncAll(p) ==
  /\ p \in up
  /\ WrittenAll(p)
  /\ flushed' = [flushed EXCEPT ![saver[p].fd] = data[saver[p].fd]]
  /\ saver' = [saver EXCEPT ![p].pc = "rename"]
  /\ UNCHANGED <<mem, up, dir, journal, data>>

Rename(p) ==
  /\ p \in up
  /\ saver[p].pc = "rename"
  /\ dir[TmpPath(p)] # NoValue
  /\ dir' = [n \in Names |->
               CASE n = StatePath(p) -> dir[TmpPath(p)]
                 [] n = TmpPath(p) /\ n # StatePath(p) -> NoValue
                 [] OTHER -> dir[n]]
  /\ saver' = [saver EXCEPT ![p] = Idle]
  /\ UNCHANGED <<mem, up, journal, data, flushed>>

\* A step of the save fails, the rename also because there is no file any
\* more: persist warns, and the temporary file stays.
SaveFails(p) ==
  /\ p \in up
  /\ Saving(p)
  /\ saver' = [saver EXCEPT ![p] = Idle]
  /\ UNCHANGED <<mem, up, dir, journal, data, flushed>>

Kill(p) ==
  /\ p \in up
  /\ up' = up \ {p}
  /\ saver' = [saver EXCEPT ![p] = Idle]
  /\ UNCHANGED <<mem, dir, journal, data, flushed>>

\* main: load the state, or start fresh.
Start(p) ==
  /\ p \notin up
  /\ up' = up \cup {p}
  /\ mem' = [mem EXCEPT ![p] = Loaded(p, FileOf(p))]
  /\ UNCHANGED <<saver, dir, journal, data, flushed>>

-----------------------------------------------------------------------------
(* The machine *)

Flush(i) ==
  /\ InUse(i)
  /\ flushed[i] # data[i]
  /\ flushed' = [flushed EXCEPT ![i] = data[i]]
  /\ UNCHANGED <<mem, up, saver, dir, journal, data>>

FlushDir ==
  /\ journal' = dir
  /\ UNCHANGED <<mem, up, saver, dir, data, flushed>>

PowerLoss ==
  /\ up' = {}
  /\ saver' = [p \in Procs |-> Idle]
  /\ dir' = journal
  /\ data' = flushed
  /\ UNCHANGED <<mem, journal, flushed>>

-----------------------------------------------------------------------------
(* The specification *)

Init ==
  /\ mem = [p \in Procs |-> Fresh(p)]
  /\ up = Procs
  /\ saver = [p \in Procs |-> Idle]
  /\ dir = [n \in Names |-> NoValue]
  /\ journal = [n \in Names |-> NoValue]
  /\ data = [i \in Inodes |-> <<>>]
  /\ flushed = [i \in Inodes |-> <<>>]

Save(p) == Create(p) \/ Write(p) \/ SyncAll(p) \/ Rename(p) \/ SaveFails(p)

Next ==
  \/ \E p \in Procs : Change(p) \/ Save(p) \/ Kill(p) \/ Start(p)
  \/ \E i \in Inodes : Flush(i)
  \/ FlushDir \/ PowerLoss

Spec == Init /\ [][Next]_vars

-----------------------------------------------------------------------------
(* Properties *)

\* The type invariant.
TypeOK ==
  /\ mem \in [Procs -> NodeState]
  /\ up \in SUBSET Procs
  /\ saver \in [Procs -> [pc : {"idle", "write", "rename"},
                          fd : Inodes \cup {NoValue}, pos : Nat]]
  /\ \A p \in Procs :
       IF Saving(p)
         THEN /\ p \in up
              /\ saver[p].fd \in Inodes
              /\ saver[p].pos <= Len(Text(mem[p]))
         ELSE saver[p] = Idle
  /\ dir \in [Names -> Inodes \cup {NoValue}]
  /\ journal \in [Names -> Inodes \cup {NoValue}]
  /\ data \in [Inodes -> Seq(Pieces)]
  /\ flushed \in [Inodes -> Seq(Pieces)]

\* The state files, written piece by piece into another file, synced and
\* renamed, are the atomic store of StateStore: with kills and power losses
\* at every point of a save, with failed steps, and with the temporary file a
\* killed save leaves behind ("readers always see either the old complete
\* file or the new complete file", persistence.rs).
Store ==
  INSTANCE StateStore WITH
    file <- [p \in Procs |-> FileOf(p)],
    kept <- [p \in Procs |-> KeptOf(p)]

ImplementsStore == Store!Spec

\* A state file, and what a power loss would leave of it, is the whole text of
\* a node of its process: nobody starts under another id, or with a part of a
\* ledger, or with the name from a line that was cut.
WholeFiles ==
  \A p \in Procs : \A text \in {FileOf(p), KeptOf(p)} :
    text # NoFile =>
      /\ Readable(text)
      /\ Loaded(p, text).node_id = p
      /\ Text(Loaded(p, text)) = text
=============================================================================
