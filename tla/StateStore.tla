----------------------------- MODULE StateStore -----------------------------
(***************************************************************************)
(* What the state files of the node processes promise: a save replaces a   *)
(* file as a whole, so whoever looks sees the old or the new complete file *)
(* (persistence.rs, its module comment).  A process may be killed, and the *)
(* machine may lose power, at any moment; after a power loss a file may be *)
(* an older one, still complete.                                           *)
(***************************************************************************)
EXTENDS NodeText

VARIABLES
  mem,    \* mem[p]: the node in memory
  up,     \* the processes that run
  file,   \* file[p]: the text of the state file
  kept    \* kept[p]: what a power loss leaves of it

vars == <<mem, up, file, kept>>

Init ==
  /\ mem = [p \in Procs |-> Fresh(p)]
  /\ up = Procs
  /\ file = [p \in Procs |-> NoFile]
  /\ kept = [p \in Procs |-> NoFile]

Change(p) ==
  /\ p \in up
  /\ \E node \in Changes(mem[p]) : mem' = [mem EXCEPT ![p] = node]
  /\ UNCHANGED <<up, file, kept>>

Save(p) ==
  /\ p \in up
  /\ file' = [file EXCEPT ![p] = Text(mem[p])]
  /\ UNCHANGED <<mem, up, kept>>

\* The operating system gets round to what it was told.
Commit ==
  /\ kept' = file
  /\ UNCHANGED <<mem, up, file>>

Kill(p) ==
  /\ p \in up
  /\ up' = up \ {p}
  /\ UNCHANGED <<mem, file, kept>>

Start(p) ==
  /\ p \notin up
  /\ up' = up \cup {p}
  /\ mem' = [mem EXCEPT ![p] = Loaded(p, file[p])]
  /\ UNCHANGED <<file, kept>>

PowerLoss ==
  /\ up' = {}
  /\ file' = kept
  /\ UNCHANGED <<mem, kept>>

Next ==
  \/ \E p \in Procs : Change(p) \/ Save(p) \/ Kill(p) \/ Start(p)
  \/ Commit \/ PowerLoss

Spec == Init /\ [][Next]_vars
=============================================================================
