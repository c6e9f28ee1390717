--------------------------- MODULE MirrorContract ---------------------------
(***************************************************************************)
(* What one replication job promises about the partitions it mirrors,     *)
(* without consumers, produce calls or group membership.                  *)
(*                                                                         *)
(* A partition is an append-only log of written[p] records.  Records of   *)
(* it are copied to the target or given up, in any order and possibly     *)
(* again after a restart; the group's committed offset may stand          *)
(* anywhere that leaves only copied or given-up records below it.         *)
(***************************************************************************)
EXTENDS Naturals

CONSTANTS Partition,   \* partitions of the source topics of the job
          MaxOffset    \* the number of records a source partition may hold

Offset   == 0 .. (MaxOffset - 1)
Position == 0 .. MaxOffset

VARIABLES written,     \* number of records in each source partition
          copied,      \* offsets of which the target holds at least one copy
          givenUp,     \* offsets the job passed over without copying them
          committed    \* the group's committed position on each partition

vars == <<written, copied, givenUp, committed>>

TypeOK ==
  /\ written \in [Partition -> Position]
  /\ copied \in [Partition -> SUBSET Offset]
  /\ givenUp \in [Partition -> SUBSET Offset]
  /\ committed \in [Partition -> Position]

Settled(p, o) == o \in copied[p] \cup givenUp[p]

Init ==
  /\ written = [p \in Partition |-> 0]
  /\ copied = [p \in Partition |-> {}]
  /\ givenUp = [p \in Partition |-> {}]
  /\ committed = [p \in Partition |-> 0]

(* An application appends a record to the source partition. *)
Write(p) ==
  /\ written[p] < MaxOffset
  /\ written' = [written EXCEPT ![p] = @ + 1]
  /\ UNCHANGED <<copied, givenUp, committed>>

(* The target stores a copy of record o, not before everything below o is *)
(* settled: the copy of a partition has no gap that is still to be filled. *)
Copy(p, o) ==
  /\ o < written[p]
  /\ \A q \in 0 .. (o - 1) : Settled(p, q)
  /\ copied' = [copied EXCEPT ![p] = @ \cup {o}]
  /\ UNCHANGED <<written, givenUp, committed>>

(* The job passes over record o. *)
GiveUp(p, o) ==
  /\ o < written[p]
  /\ \A q \in 0 .. (o - 1) : Settled(p, q)
  /\ givenUp' = [givenUp EXCEPT ![p] = @ \cup {o}]
  /\ UNCHANGED <<written, copied, committed>>

(* A restarted job begins at this position and looks at nothing below it. *)
Commit(p, c) ==
  /\ c <= written[p]
  /\ \A q \in 0 .. (c - 1) : Settled(p, q)
  /\ committed' = [committed EXCEPT ![p] = c]
  /\ UNCHANGED <<written, copied, givenUp>>

Next ==
  \E p \in Partition :
    \/ Write(p)
    \/ \E o \in Offset : Copy(p, o) \/ GiveUp(p, o)
    \/ \E c \in Position : Commit(p, c)

Spec == Init /\ [][Next]_vars
=============================================================================
