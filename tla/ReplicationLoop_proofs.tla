----------------------- MODULE ReplicationLoop_proofs -----------------------
(***************************************************************************)
(* Safety of the replication loop for any number of partitions, instances *)
(* and records, that no duplicate comes from the loop itself, and that    *)
(* the loop implements MirrorContract.                                    *)
(***************************************************************************)
EXTENDS ReplicationLoop, FiniteSets, FiniteSetTheorems, TLAPS

LEMMA InitTypeOK == Init => TypeOK
  BY LoopAssumption DEF Init, TypeOK, Nowhere, Lives, Phases, Position

(* What an instance works on, while it does. *)
LEMMA HandTypes ==
  ASSUME TypeOK, HandInv, PositionsInLog,
         NEW i \in Instance, phase[i] # "idle"
  PROVE  /\ cur[i] \in Partition
         /\ InHand(i) \in Offset
         /\ InHand(i) + 1 \in Position
  BY LoopAssumption
     DEF TypeOK, HandInv, PositionsInLog, InHand, Offset, Position

(* One lemma for the counters and the positions: every step preserves the *)
(* types, given that batches end within the log.                          *)
LEMMA NextTypeOK ==
  ASSUME TypeOK, HandInv, PositionsInLog, [Next]_vars
  PROVE  TypeOK'
  <1> USE LoopAssumption DEF TypeOK, Lives, Phases, brokerVars, loopVars,
                             recordVars, countVars
  <1>1. ASSUME NEW p \in Partition, Arrive(p) PROVE TypeOK'
    BY <1>1 DEF Arrive, Position
  <1>2. ASSUME NEW i \in Instance, Start(i) PROVE TypeOK'
    BY <1>2 DEF Start
  <1>3. ASSUME NEW i \in Instance, Cancel(i) PROVE TypeOK'
    BY <1>3 DEF Cancel
  <1>4. ASSUME NEW i \in Instance, Panic(i) PROVE TypeOK'
    BY <1>4 DEF Panic
  <1>5. ASSUME NEW i \in Instance, Close(i) PROVE TypeOK'
    BY <1>5 DEF Close, Forget, Nowhere, Position
  <1>6. ASSUME NEW i \in Instance, NEW p \in Partition, Assign(i, p)
        PROVE  TypeOK'
    BY <1>6 DEF Assign, GiveTo
  <1>7. ASSUME NEW i \in Instance, NEW p \in Partition, Move(i, p)
        PROVE  TypeOK'
    BY <1>7 DEF Move, GiveTo
  <1>8. ASSUME NEW i \in Instance, Poll(i) PROVE TypeOK'
    BY <1>8 DEF Poll
  <1>9. ASSUME NEW i \in Instance, NEW p \in Partition, HandleRecord(i, p)
        PROVE  TypeOK'
    <2>1. next[i][p] \in Offset
      BY <1>9 DEF HandleRecord, Offset, Position
    <2>2. skipped' \in [Partition -> SUBSET Offset]
      BY <1>9, <2>1 DEF HandleRecord
    <2> QED BY <1>9, <2>2 DEF HandleRecord
  <1>10. \A i \in Instance : phase[i] # "idle" =>
           cur[i] \in Partition /\ InHand(i) \in Offset
             /\ InHand(i) + 1 \in Position
    BY HandTypes
  <1>11. ASSUME NEW i \in Instance, TargetWrite(i) PROVE TypeOK'
    BY <1>10, <1>11 DEF TargetWrite
  <1>12. ASSUME NEW i \in Instance, TargetRetry(i) PROVE TypeOK'
    BY <1>10, <1>12 DEF TargetRetry
  <1>13. ASSUME NEW i \in Instance, ProduceAck(i) PROVE TypeOK'
    BY <1>13 DEF ProduceAck
  <1>14. ASSUME NEW i \in Instance, Advance(i), phase[i] # "idle"
         PROVE  /\ next' \in [Instance -> [Partition -> Position]]
                /\ phase' \in [Instance -> Phases]
                /\ cur' \in [Instance -> Partition \cup {None}]
    BY <1>10, <1>14 DEF Advance, InHand
  <1>15. ASSUME NEW i \in Instance, ProduceFail(i) PROVE TypeOK'
    <2>1. failed' \in [Partition -> SUBSET Offset]
      BY <1>10, <1>15 DEF ProduceFail
    <2> QED BY <1>14, <1>15, <2>1 DEF ProduceFail
  <1>16. ASSUME NEW i \in Instance, CommitOk(i) \/ CommitFail(i) PROVE TypeOK'
    <2>1. committed' \in [Partition -> Position]
      BY <1>10, <1>16 DEF CommitOk, CommitFail
    <2> QED BY <1>14, <1>16, <2>1 DEF CommitOk, CommitFail
  <1>17. ASSUME Crash PROVE TypeOK'
    BY <1>17 DEF Crash, Forget, Nowhere, Position
  <1>18. CASE UNCHANGED vars
    BY <1>18 DEF vars
  <1> QED
    BY <1>1, <1>2, <1>3, <1>4, <1>5, <1>6, <1>7, <1>8, <1>9, <1>11, <1>12,
       <1>13, <1>14, <1>15, <1>16, <1>17, <1>18 DEF Next, Loop

-----------------------------------------------------------------------------
LEMMA NextHandInv ==
  ASSUME TypeOK, HandInv, [Next]_vars
  PROVE  HandInv'
  <1> USE DEF TypeOK, HandInv
  <1>1. CASE phase' = phase /\ cur' = cur
    BY <1>1
  <1>2. ASSUME NEW gone \in SUBSET Instance, Forget(gone) PROVE HandInv'
    BY <1>2 DEF Forget
  <1>3. ASSUME NEW i \in Instance, NEW p \in Partition, HandleRecord(i, p)
        PROVE  HandInv'
    BY <1>3, LoopAssumption DEF HandleRecord
  <1>4. ASSUME NEW i \in Instance, TargetWrite(i) \/ ProduceAck(i)
        PROVE  HandInv'
    BY <1>4 DEF TargetWrite, ProduceAck
  <1>5. ASSUME NEW i \in Instance, Advance(i) PROVE HandInv'
    BY <1>5 DEF Advance
  <1> QED
    BY <1>1, <1>2, <1>3, <1>4, <1>5
       DEF Next, vars, loopVars, Arrive, Start, Cancel, Panic, Close, Crash,
           Assign, Move, GiveTo, Loop, Poll, TargetRetry, ProduceFail,
           CommitOk, CommitFail

(* The record in hand lies in the batch, so that a position moves past it *)
(* without leaving the log.                                               *)
LEMMA NextPositionsInLog ==
  ASSUME TypeOK, HandInv, PositionsInLog, [Next]_vars
  PROVE  PositionsInLog'
  <1> USE LoopAssumption DEF TypeOK, PositionsInLog, InHand, Position
  <1>1. ASSUME NEW p \in Partition, Arrive(p) PROVE PositionsInLog'
    BY <1>1 DEF Arrive, loopVars
  <1>2. ASSUME NEW i \in Instance, Start(i) \/ Cancel(i) \/ Panic(i)
        PROVE  PositionsInLog'
    BY <1>2 DEF Start, Cancel, Panic, brokerVars
  <1>3. ASSUME NEW gone \in SUBSET Instance, Forget(gone) PROVE PositionsInLog'
    BY <1>3 DEF Forget, Nowhere
  <1>4. ASSUME NEW i \in Instance, NEW p \in Partition, GiveTo(i, p)
        PROVE  PositionsInLog'
    BY <1>4 DEF GiveTo
  <1>5. ASSUME NEW i \in Instance, Poll(i) PROVE PositionsInLog'
    BY <1>5 DEF Poll, brokerVars
  <1>6. ASSUME NEW i \in Instance, NEW p \in Partition, HandleRecord(i, p)
        PROVE  PositionsInLog'
    BY <1>6 DEF HandleRecord, brokerVars
  <1>7. ASSUME NEW i \in Instance,
               TargetWrite(i) \/ TargetRetry(i) \/ ProduceAck(i)
        PROVE  PositionsInLog'
    BY <1>7 DEF TargetWrite, TargetRetry, ProduceAck, brokerVars, loopVars
  <1>8. ASSUME NEW i \in Instance,
               ProduceFail(i) \/ CommitOk(i) \/ CommitFail(i)
        PROVE  PositionsInLog'
    <2>1. phase[i] # "idle" /\ Advance(i)
      BY <1>8 DEF ProduceFail, CommitOk, CommitFail
    <2>2. cur[i] \in Partition
      BY <2>1 DEF HandInv
    <2>3. /\ UNCHANGED <<logEnd, upto, fetchPos>>
          /\ \A p \in Partition :
               committed'[p] \in {committed[p], next[i][cur[i]] + 1}
                 /\ (committed'[p] # committed[p] => p = cur[i])
      BY <1>8, <2>2 DEF ProduceFail, CommitOk, CommitFail, brokerVars
    <2>4. /\ \A j \in Instance, p \in Partition :
               next'[j][p] <= upto[j][p]
          /\ \A j \in Instance :
               phase'[j] # "idle" => /\ j # i
                                     /\ cur'[j] = cur[j]
                                     /\ next'[j] = next[j]
                                     /\ phase[j] # "idle"
      BY <2>1, <2>2 DEF Advance
    <2>5. next[i][cur[i]] + 1 <= logEnd[cur[i]]
      BY <2>1, <2>2
    <2>6. \A p \in Partition : committed'[p] <= logEnd[p]
      BY <2>2, <2>3, <2>5
    <2> QED
      BY <2>3, <2>4, <2>6
  <1>9. CASE UNCHANGED vars
    BY <1>9 DEF vars, brokerVars, loopVars
  <1> QED
    BY <1>1, <1>2, <1>3, <1>4, <1>5, <1>6, <1>7, <1>8, <1>9
       DEF Next, Loop, Close, Crash, Assign, Move
-----------------------------------------------------------------------------
(* Settled records stay settled. *)
LEMMA SettledIsStable ==
  ASSUME TypeOK, HandInv, PositionsInLog, [Next]_vars,
         NEW p \in Partition, NEW o \in Offset, Settled(p, o)
  PROVE  Settled(p, o)'
  <1> USE DEF Settled, Copied
  <1>1. CASE copies' = copies /\ failed' = failed /\ skipped' = skipped
    BY <1>1
  <1>2. ASSUME NEW i \in Instance, NEW q \in Partition, HandleRecord(i, q)
        PROVE  Settled(p, o)'
    <2>1. copies' = copies /\ failed' = failed
      BY <1>2 DEF HandleRecord, brokerVars
    <2>2. \/ skipped' = skipped
          \/ skipped' = [skipped EXCEPT ![q] = @ \cup {next[i][q]}]
      BY <1>2 DEF HandleRecord
    <2>3. skipped[p] \subseteq skipped'[p]
      BY <2>2 DEF TypeOK
    <2> QED BY <2>1, <2>3
  <1>3. ASSUME NEW i \in Instance, TargetWrite(i) \/ TargetRetry(i)
        PROVE  Settled(p, o)'
    <2>1. cur[i] \in Partition /\ InHand(i) \in Offset
      BY <1>3, HandTypes DEF TargetWrite, TargetRetry
    <2>2. failed' = failed /\ skipped' = skipped
      BY <1>3 DEF TargetWrite, TargetRetry, recordVars
    <2>3. copies' = [copies EXCEPT ![cur[i]][InHand(i)] = @ + 1]
      BY <1>3 DEF TargetWrite, TargetRetry
    <2>4. copies[p][o] > 0 => copies'[p][o] > 0
      BY <2>1, <2>3 DEF TypeOK
    <2> QED BY <2>2, <2>4
  <1>4. ASSUME NEW i \in Instance, ProduceFail(i)
        PROVE  Settled(p, o)'
    BY <1>4 DEF ProduceFail, TypeOK, brokerVars
  <1> QED
    BY <1>1, <1>2, <1>3, <1>4
       DEF Next, vars, Arrive, Start, Cancel, Panic, Close, Crash, Forget,
           Assign, Move, GiveTo, Loop, Poll, ProduceAck, CommitOk, CommitFail,
           brokerVars, recordVars

LEMMA SettledStays ==
  ASSUME TypeOK, HandInv, PositionsInLog, [Next]_vars
  PROVE  \A p \in Partition, o \in Offset : Settled(p, o) => Settled(p, o)'
  BY SettledIsStable

(* Two facts about one step of the loop: a record that reaches the target *)
(* or is skipped is settled, and so is one that is given up.              *)
LEMMA StepSettles ==
  ASSUME TypeOK, HandInv, PositionsInLog, NEW i \in Instance
  PROVE  /\ TargetWrite(i) => Settled(cur[i], InHand(i))'
         /\ ProduceFail(i) => InHand(i) \in failed'[cur[i]]
         /\ \A p \in Partition :
              HandleRecord(i, p) /\ p \in Unmapped =>
                next[i][p] \in skipped'[p]
  <1>1. ASSUME TargetWrite(i) PROVE Settled(cur[i], InHand(i))'
    <2>1. cur[i] \in Partition /\ InHand(i) \in Offset
      BY <1>1, HandTypes DEF TargetWrite
    <2>2. copies'[cur[i]][InHand(i)] > 0
      BY <1>1, <2>1 DEF TargetWrite, TypeOK
    <2>3. cur' = cur /\ InHand(i)' = InHand(i)
      BY <1>1 DEF TargetWrite, InHand
    <2> QED BY <2>1, <2>2, <2>3 DEF Settled, Copied
  <1>2. ASSUME ProduceFail(i) PROVE InHand(i) \in failed'[cur[i]]
    <2>1. cur[i] \in Partition
      BY <1>2, HandTypes DEF ProduceFail
    <2> QED BY <1>2, <2>1 DEF ProduceFail, TypeOK
  <1>3. ASSUME NEW p \in Partition, HandleRecord(i, p), p \in Unmapped
        PROVE  next[i][p] \in skipped'[p]
    BY <1>3 DEF HandleRecord, TypeOK
  <1> QED BY <1>1, <1>2, <1>3

(* Settled prefixes stay settled; 0 .. (n - 1) holds offsets only.        *)
LEMMA PrefixStays ==
  ASSUME TypeOK, HandInv, PositionsInLog, [Next]_vars,
         NEW p \in Partition, NEW n \in Position, SettledBelow(p, n),
         NEW o \in 0 .. (n - 1)
  PROVE  Settled(p, o)'
  <1>1. o \in Offset
    BY LoopAssumption DEF Offset, Position
  <1>2. Settled(p, o)
    BY DEF SettledBelow
  <1> QED BY <1>1, <1>2, SettledIsStable

LEMMA NextCommittedIsSettled ==
  ASSUME IInv, [Next]_vars
  PROVE  CommittedIsSettled'
  <1> SUFFICES ASSUME NEW p \in Partition, NEW o \in 0 .. (committed'[p] - 1)
               PROVE  Settled(p, o)'
    BY DEF CommittedIsSettled, SettledBelow
  <1>1. CASE committed'[p] = committed[p]
    <2>1. committed[p] \in Position /\ SettledBelow(p, committed[p])
      BY DEF IInv, TypeOK, CommittedIsSettled
    <2>2. o \in 0 .. (committed[p] - 1)
      BY <1>1
    <2> QED BY <2>1, <2>2, PrefixStays DEF IInv
  <1>2. ASSUME NEW i \in Instance, CommitOk(i), p = cur[i]
        PROVE  Settled(p, o)'
    <2>1. phase[i] = "commit" /\ next[i][p] \in Offset
      BY <1>2, HandTypes DEF CommitOk, IInv, InHand
    <2>2. committed'[p] = next[i][p] + 1
      BY <1>2 DEF CommitOk, IInv, TypeOK, InHand
    <2>3. Settled(p, next[i][p]) /\ SettledBelow(p, next[i][p])
      BY <1>2, <2>1 DEF IInv, LoopSettled
    <2>4. o = next[i][p] \/ o \in 0 .. (next[i][p] - 1)
      BY <2>1, <2>2 DEF Offset
    <2>5. CASE o = next[i][p]
      BY <2>1, <2>3, <2>5, SettledIsStable DEF IInv
    <2>6. CASE o \in 0 .. (next[i][p] - 1)
      <3>1. next[i][p] \in Position
        BY DEF IInv, TypeOK
      <3> QED BY <2>3, <2>6, <3>1, PrefixStays DEF IInv
    <2> QED BY <2>4, <2>5, <2>6
  <1>3. ASSUME NEW i \in Instance, CommitOk(i), p # cur[i]
        PROVE  committed'[p] = committed[p]
    BY <1>3 DEF CommitOk, IInv, TypeOK
  <1> QED
    BY <1>1, <1>2, <1>3
       DEF Next, vars, Arrive, Start, Cancel, Panic, Close, Crash, Forget,
           Assign, Move, GiveTo, Loop, Poll, HandleRecord, TargetWrite,
           TargetRetry, ProduceAck, ProduceFail, CommitFail, brokerVars
-----------------------------------------------------------------------------
(* LoopSettled for one instance and one partition.                        *)
LoopSettledAt(i, p) ==
  /\ SettledBelow(p, next[i][p])
  /\ \A o \in 0 .. (fetchPos[i][p] - 1) :
       Settled(p, o) \/ o \in next[i][p] .. (upto[i][p] - 1)
  /\ phase[i] \in {"written", "commit"} /\ cur[i] = p =>
       Settled(p, next[i][p])

(* A step that leaves an instance's position on a partition alone, and    *)
(* after which the record in hand is settled if it has to be.             *)
LEMMA InHandSettled ==
  ASSUME IInv, [Next]_vars, NEW i \in Instance, NEW p \in Partition,
         next'[i][p] = next[i][p],
         upto'[i][p] = upto[i][p],
         fetchPos'[i][p] = fetchPos[i][p],
         NEW inHand, inHand = next[i][p],
         phase'[i] \in {"written", "commit"} /\ cur'[i] = p =>
           Settled(p, inHand)'
  PROVE  LoopSettledAt(i, p)'
  <1>1. next[i][p] \in Position /\ fetchPos[i][p] \in Position
    BY DEF IInv, TypeOK
  <1>2. LoopSettledAt(i, p)
    BY DEF IInv, LoopSettled, LoopSettledAt
  <1>3. ASSUME NEW o \in 0 .. (next'[i][p] - 1) PROVE Settled(p, o)'
    <2>1. o \in 0 .. (next[i][p] - 1)
      BY <1>3
    <2> QED BY <1>1, <1>2, <2>1, PrefixStays DEF IInv, LoopSettledAt
  <1>4. ASSUME NEW o \in 0 .. (fetchPos'[i][p] - 1)
        PROVE  Settled(p, o)' \/ o \in next'[i][p] .. (upto'[i][p] - 1)
    <2>1. o \in 0 .. (fetchPos[i][p] - 1) /\ o \in Offset
      BY <1>1, <1>4, LoopAssumption DEF Position, Offset
    <2>2. Settled(p, o) \/ o \in next[i][p] .. (upto[i][p] - 1)
      BY <1>2, <2>1 DEF LoopSettledAt
    <2> QED BY <2>1, <2>2, SettledIsStable DEF IInv
  <1> QED BY <1>3, <1>4 DEF LoopSettledAt, SettledBelow

(* A step that does not touch an instance on a partition at all.          *)
LEMMA PositionKept ==
  ASSUME IInv, [Next]_vars, NEW i \in Instance, NEW p \in Partition,
         next'[i][p] = next[i][p],
         upto'[i][p] = upto[i][p],
         fetchPos'[i][p] = fetchPos[i][p],
         phase'[i] \in {"written", "commit"} /\ cur'[i] = p =>
           phase[i] \in {"written", "commit"} /\ cur[i] = p
  PROVE  LoopSettledAt(i, p)'
  <1>1. PICK o : o = next[i][p]
    OBVIOUS
  <1>2. ASSUME phase'[i] \in {"written", "commit"}, cur'[i] = p
        PROVE  Settled(p, o)'
    <2>1. Settled(p, o)
      BY <1>1, <1>2 DEF IInv, LoopSettled
    <2>2. o \in Offset
      BY <1>1, <1>2, HandTypes DEF IInv, InHand
    <2> QED BY <2>1, <2>2, SettledIsStable DEF IInv
  <1> QED BY <1>1, <1>2, InHandSettled

(* The group hands out the committed offset, below which all is settled.  *)
LEMMA GivenPosition ==
  ASSUME IInv, [Next]_vars, NEW i \in Instance, NEW p \in Partition,
         GiveTo(i, p)
  PROVE  LoopSettledAt(i, p)'
  <1>1. /\ next' = next /\ upto' = upto /\ phase' = phase /\ cur' = cur
        /\ copies' = copies /\ failed' = failed /\ skipped' = skipped
    BY DEF GiveTo, recordVars
  <1>2. fetchPos'[i][p] = committed[p]
    BY DEF GiveTo, IInv, TypeOK
  <1>3. LoopSettledAt(i, p) /\ SettledBelow(p, committed[p])
    BY DEF IInv, LoopSettled, LoopSettledAt, CommittedIsSettled
  <1> QED BY <1>1, <1>2, <1>3 DEF LoopSettledAt, SettledBelow, Settled, Copied

(* Before a poll nothing of the last batch is left, so that everything    *)
(* below the position it reads from is settled.                           *)
LEMMA PolledBatch ==
  ASSUME IInv, [Next]_vars, NEW i \in Instance, NEW p \in Partition, Poll(i)
  PROVE  LoopSettledAt(i, p)'
  <1>1. /\ phase' = phase /\ cur' = cur /\ phase[i] = "idle"
        /\ copies' = copies /\ failed' = failed /\ skipped' = skipped
        /\ next[i][p] = upto[i][p]
    BY DEF Poll, recordVars, brokerVars, BatchDone
  <1>2. PICK end \in [Partition -> Position] :
               /\ next' = [next EXCEPT ![i] = fetchPos[i]]
               /\ upto' = [upto EXCEPT ![i] = end]
               /\ fetchPos' = [fetchPos EXCEPT ![i] = end]
    BY DEF Poll
  <1>3. /\ next'[i][p] = fetchPos[i][p]
        /\ upto'[i][p] = end[p]
        /\ fetchPos'[i][p] = end[p]
        /\ end[p] \in Nat /\ fetchPos[i][p] \in Nat /\ upto[i][p] \in Nat
    BY <1>2, LoopAssumption DEF IInv, TypeOK, Position
  <1>4. \A o \in 0 .. (fetchPos[i][p] - 1) : Settled(p, o)
    BY <1>1, <1>3 DEF IInv, LoopSettled
  <1>5. \A o : Settled(p, o)' <=> Settled(p, o)
    BY <1>1 DEF Settled, Copied
  <1>6. \A o \in 0 .. (next'[i][p] - 1) : Settled(p, o)'
    BY <1>3, <1>4, <1>5
  <1>7. \A o \in 0 .. (fetchPos'[i][p] - 1) :
          Settled(p, o)' \/ o \in next'[i][p] .. (upto'[i][p] - 1)
    BY <1>3, <1>4, <1>5
  <1> QED BY <1>1, <1>6, <1>7 DEF LoopSettledAt, SettledBelow

(* Consume moves past the record in hand once that record is settled.     *)
LEMMA AdvancedPosition ==
  ASSUME IInv, [Next]_vars, NEW i \in Instance, NEW p \in Partition,
         phase[i] # "idle", cur[i] = p, Advance(i), UNCHANGED <<upto, fetchPos>>,
         NEW inHand, inHand = next[i][p], Settled(p, inHand)'
  PROVE  LoopSettledAt(i, p)'
  <1>1. /\ next'[i][p] = next[i][p] + 1
        /\ phase'[i] = "idle"
        /\ upto'[i][p] = upto[i][p] /\ fetchPos'[i][p] = fetchPos[i][p]
        /\ next[i][p] \in Nat /\ upto[i][p] \in Nat /\ fetchPos[i][p] \in Nat
        /\ next[i][p] \in Position /\ fetchPos[i][p] \in Position
    BY LoopAssumption DEF Advance, IInv, TypeOK, Position
  <1>2. LoopSettledAt(i, p)
    BY DEF IInv, LoopSettled, LoopSettledAt
  <1>3. ASSUME NEW o \in 0 .. (next'[i][p] - 1) PROVE Settled(p, o)'
    <2>1. o = inHand \/ o \in 0 .. (next[i][p] - 1)
      BY <1>1, <1>3
    <2>2. CASE o \in 0 .. (next[i][p] - 1)
      BY <1>1, <1>2, <2>2, PrefixStays DEF IInv, LoopSettledAt
    <2> QED BY <2>1, <2>2
  <1>4. ASSUME NEW o \in 0 .. (fetchPos'[i][p] - 1)
        PROVE  Settled(p, o)' \/ o \in next'[i][p] .. (upto'[i][p] - 1)
    <2>1. o \in 0 .. (fetchPos[i][p] - 1) /\ o \in Offset
      BY <1>1, <1>4, LoopAssumption DEF Position, Offset
    <2>2. CASE Settled(p, o)
      BY <2>1, <2>2, SettledIsStable DEF IInv
    <2>3. CASE o \in next[i][p] .. (upto[i][p] - 1)
      <3>1. o = inHand \/ o \in next'[i][p] .. (upto'[i][p] - 1)
        BY <1>1, <2>1, <2>3
      <3> QED BY <3>1
    <2> QED BY <1>2, <2>1, <2>2, <2>3 DEF LoopSettledAt
  <1> QED BY <1>1, <1>3, <1>4 DEF LoopSettledAt, SettledBelow

LEMMA NextLoopSettled ==
  ASSUME IInv, [Next]_vars
  PROVE  LoopSettled'
  <1> SUFFICES ASSUME NEW i \in Instance, NEW p \in Partition
               PROVE  LoopSettledAt(i, p)'
    BY DEF LoopSettled, LoopSettledAt
  <1> USE DEF IInv, TypeOK
  <1>1. CASE UNCHANGED loopVars
    BY <1>1, PositionKept DEF loopVars
  <1>2. ASSUME NEW j \in Instance, Start(j) \/ Cancel(j) \/ Panic(j)
        PROVE  LoopSettledAt(i, p)'
    BY <1>2, PositionKept DEF Start, Cancel, Panic
  <1>3. ASSUME NEW gone \in SUBSET Instance, Forget(gone)
        PROVE  LoopSettledAt(i, p)'
    <2>1. CASE i \in gone
      <3>1. next'[i][p] = 0 /\ fetchPos'[i][p] = 0 /\ phase'[i] = "idle"
        BY <1>3, <2>1 DEF Forget, Nowhere
      <3> QED BY <3>1 DEF LoopSettledAt, SettledBelow
    <2>2. CASE i \notin gone
      BY <1>3, <2>2, PositionKept DEF Forget
    <2> QED BY <2>1, <2>2
  <1>4. ASSUME NEW j \in Instance, NEW q \in Partition, GiveTo(j, q)
        PROVE  LoopSettledAt(i, p)'
    <2>1. CASE i = j /\ p = q
      BY <1>4, <2>1, GivenPosition
    <2>2. CASE ~(i = j /\ p = q)
      BY <1>4, <2>2, PositionKept DEF GiveTo
    <2> QED BY <2>1, <2>2
  <1>5. ASSUME NEW j \in Instance, Poll(j) PROVE LoopSettledAt(i, p)'
    <2>1. CASE i = j
      BY <1>5, <2>1, PolledBatch
    <2>2. CASE i # j
      BY <1>5, <2>2, PositionKept DEF Poll
    <2> QED BY <2>1, <2>2
  <1>6. ASSUME NEW j \in Instance, NEW q \in Partition, HandleRecord(j, q)
        PROVE  LoopSettledAt(i, p)'
    <2>1. CASE i = j /\ p = q /\ p \in Unmapped
      <3>1. next' = next /\ upto' = upto /\ fetchPos' = fetchPos
        BY <1>6 DEF HandleRecord
      <3>2. next[i][p] \in skipped'[p]
        BY <1>6, <2>1, StepSettles
      <3>3. PICK o : o = next[i][p]
        OBVIOUS
      <3>4. Settled(p, o)'
        BY <3>2, <3>3 DEF Settled
      <3> QED BY <3>1, <3>3, <3>4, InHandSettled
    <2>2. CASE ~(i = j /\ p = q /\ p \in Unmapped)
      BY <1>6, <2>2, PositionKept DEF HandleRecord, HandInv
    <2> QED BY <2>1, <2>2
  <1>7. ASSUME NEW j \in Instance, TargetWrite(j) PROVE LoopSettledAt(i, p)'
    <2>1. CASE i = j /\ p = cur[j]
      <3>1. /\ next' = next /\ upto' = upto /\ fetchPos' = fetchPos
            /\ cur' = cur
        BY <1>7 DEF TargetWrite
      <3>2. PICK o : o = next[i][p]
        OBVIOUS
      <3>3. Settled(p, o)'
        BY <1>7, <2>1, <3>1, <3>2, StepSettles DEF InHand
      <3> QED BY <3>1, <3>2, <3>3, InHandSettled
    <2>2. CASE ~(i = j /\ p = cur[j])
      BY <1>7, <2>2, PositionKept DEF TargetWrite
    <2> QED BY <2>1, <2>2
  <1>8. ASSUME NEW j \in Instance, ProduceAck(j) PROVE LoopSettledAt(i, p)'
    BY <1>8, PositionKept DEF ProduceAck
  <1>9. ASSUME NEW j \in Instance,
               ProduceFail(j) \/ CommitOk(j) \/ CommitFail(j)
        PROVE  LoopSettledAt(i, p)'
    <2>1. /\ phase[j] # "idle" /\ Advance(j)
          /\ upto' = upto /\ fetchPos' = fetchPos
      BY <1>9 DEF ProduceFail, CommitOk, CommitFail
    <2>2. CASE i = j /\ p = cur[j]
      <3>1. PICK o : o = next[i][p]
        OBVIOUS
      <3>2. o \in Offset
        BY <2>1, <2>2, <3>1, HandTypes DEF InHand
      <3>3. CASE ProduceFail(j)
        <4>1. o \in failed'[p]
          BY <2>2, <3>1, <3>3, StepSettles DEF InHand
        <4>2. Settled(p, o)'
          BY <4>1 DEF Settled
        <4> QED BY <2>1, <2>2, <3>1, <4>2, AdvancedPosition
      <3>4. CASE CommitOk(j) \/ CommitFail(j)
        <4>1. Settled(p, o)
          BY <2>2, <3>1, <3>4 DEF CommitOk, CommitFail, LoopSettled
        <4>2. Settled(p, o)'
          BY <3>2, <4>1, SettledIsStable
        <4> QED BY <2>1, <2>2, <3>1, <4>2, AdvancedPosition
      <3> QED BY <1>9, <3>3, <3>4
    <2>3. CASE ~(i = j /\ p = cur[j])
      BY <2>1, <2>3, PositionKept DEF Advance
    <2> QED BY <2>2, <2>3
  <1> QED
    BY <1>1, <1>2, <1>3, <1>4, <1>5, <1>6, <1>7, <1>8, <1>9
       DEF Next, vars, Loop, Arrive, Close, Crash, Assign, Move, TargetRetry

-----------------------------------------------------------------------------
LEMMA InitIInv == Init => IInv
  <1> SUFFICES ASSUME Init PROVE IInv
    OBVIOUS
  <1>1. TypeOK
    BY InitTypeOK
  <1>2. HandInv /\ PositionsInLog
    BY LoopAssumption DEF Init, HandInv, PositionsInLog, Nowhere
  <1>3. CommittedIsSettled /\ LoopSettled
    BY DEF Init, CommittedIsSettled, LoopSettled, SettledBelow, Nowhere
  <1> QED BY <1>1, <1>2, <1>3 DEF IInv

LEMMA NextIInv == IInv /\ [Next]_vars => IInv'
  <1> SUFFICES ASSUME IInv, [Next]_vars PROVE IInv'
    OBVIOUS
  <1>1. TypeOK /\ HandInv /\ PositionsInLog
    BY DEF IInv
  <1>2. TypeOK' /\ HandInv' /\ PositionsInLog'
    BY <1>1, NextTypeOK, NextHandInv, NextPositionsInLog
  <1>3. CommittedIsSettled' /\ LoopSettled'
    BY NextCommittedIsSettled, NextLoopSettled
  <1> QED BY <1>2, <1>3 DEF IInv

(* The inductive invariant holds, whatever the interleaving of instances, *)
(* rebalances, crashes and refused calls.                                 *)
THEOREM Inductive == Spec => []IInv
  BY InitIInv, NextIInv, PTL DEF Spec

(* Every variable keeps its type: no position ever leaves 0 .. MaxOffset. *)
THEOREM TypeCorrect == Spec => []TypeOK
  <1>1. IInv => TypeOK
    BY DEF IInv
  <1> QED BY <1>1, Inductive, PTL

(* A restarted job skips nothing but records that were copied, failed or  *)
(* had no target (Consumer.Consume commits what the handler accepted).    *)
THEOREM NothingForgotten == Spec => []CommittedIsSettled
  <1>1. IInv => CommittedIsSettled
    BY DEF IInv
  <1> QED BY <1>1, Inductive, PTL

(* No instance reads or commits beyond the end of the source log.         *)
THEOREM NeverPastTheEnd == Spec => []PositionsInLog
  <1>1. IInv => PositionsInLog
    BY DEF IInv
  <1> QED BY <1>1, Inductive, PTL

(* An instance leaves nothing unsettled behind it: not below the record   *)
(* it handles next, and below its fetch position only what it has fetched.*)
THEOREM SettledBehindTheLoop == Spec => []LoopSettled
  <1>1. IInv => LoopSettled
    BY DEF IInv
  <1> QED BY <1>1, Inductive, PTL

-----------------------------------------------------------------------------
(* Only a produce call adds copies, of the record in hand, and everything *)
(* below that record is settled.                                          *)
LEMMA StepCopies ==
  ASSUME IInv, [Next]_vars, copies' # copies
  PROVE  \E i \in Instance :
           /\ cur[i] \in Partition /\ InHand(i) \in Offset
           /\ copies' = [copies EXCEPT ![cur[i]][InHand(i)] = @ + 1]
           /\ SettledBelow(cur[i], InHand(i))
           /\ InHand(i) < logEnd[cur[i]]
           /\ UNCHANGED <<logEnd, committed, failed, skipped>>
  <1>1. PICK i \in Instance : TargetWrite(i) \/ TargetRetry(i)
    BY DEF Next, vars, Arrive, Start, Cancel, Panic, Close, Crash, Forget,
           Assign, Move, GiveTo, Loop, Poll, HandleRecord, ProduceAck,
           ProduceFail, CommitOk, CommitFail, brokerVars
  <1>2. cur[i] \in Partition /\ InHand(i) \in Offset
    BY <1>1, HandTypes DEF TargetWrite, TargetRetry, IInv
  <1>3. SettledBelow(cur[i], InHand(i))
    BY <1>2 DEF IInv, LoopSettled, InHand
  <1>4. phase[i] # "idle"
    BY <1>1 DEF TargetWrite, TargetRetry
  <1>5. InHand(i) < logEnd[cur[i]]
    <2>1. /\ InHand(i) < upto[i][cur[i]]
          /\ upto[i][cur[i]] <= logEnd[cur[i]]
      BY <1>2, <1>4 DEF IInv, PositionsInLog
    <2>2. /\ InHand(i) \in Nat /\ upto[i][cur[i]] \in Nat
          /\ logEnd[cur[i]] \in Nat
      BY <1>2, LoopAssumption DEF IInv, TypeOK, Position, Offset
    <2> QED BY <2>1, <2>2
  <1> QED
    BY <1>1, <1>2, <1>3, <1>5
       DEF TargetWrite, TargetRetry, recordVars

LEMMA StepInOrder ==
  ASSUME IInv, [Next]_vars, NEW p \in Partition, NEW o \in Offset,
         copies[p][o] = 0, copies'[p][o] > 0
  PROVE  SettledBelow(p, o)
  <1>1. copies' # copies
    OBVIOUS
  <1>2. PICK i \in Instance :
          /\ cur[i] \in Partition /\ InHand(i) \in Offset
          /\ copies' = [copies EXCEPT ![cur[i]][InHand(i)] = @ + 1]
          /\ SettledBelow(cur[i], InHand(i))
    BY <1>1, StepCopies
  <1>3. p = cur[i] /\ o = InHand(i)
    BY <1>2 DEF IInv, TypeOK
  <1> QED BY <1>2, <1>3

(* The copy of a partition grows without holes, however many instances of *)
(* the job are at work on it (handleRecord waits for ProduceSync).        *)
THEOREM InOrder == Spec => CopyInOrder
  <1>1. IInv /\ [Next]_vars =>
          [\A p \in Partition : \A o \in Offset :
             copies[p][o] = 0 /\ copies'[p][o] > 0 => SettledBelow(p, o)]_vars
    BY StepInOrder
  <1> QED BY <1>1, Inductive, PTL DEF Spec, CopyInOrder

-----------------------------------------------------------------------------
(* The refinement mapping, by name.                                       *)
CopiedMap  == [p \in Partition |-> Copied(p)]
GivenUpMap == [p \in Partition |-> failed[p] \cup skipped[p]]

LEMMA ContractInit == Init => Contract!Init
  BY DEF Init, Contract!Init, Copied, Nowhere

LEMMA CopyStep ==
  ASSUME IInv, [Next]_vars, copies' # copies
  PROVE  Contract!Next
  <1>1. PICK i \in Instance :
          /\ cur[i] \in Partition /\ InHand(i) \in Offset
          /\ copies' = [copies EXCEPT ![cur[i]][InHand(i)] = @ + 1]
          /\ SettledBelow(cur[i], InHand(i))
          /\ InHand(i) < logEnd[cur[i]]
          /\ UNCHANGED <<logEnd, committed, failed, skipped>>
    BY StepCopies
  <1>2. PICK p \in Partition, o \in Offset : p = cur[i] /\ o = InHand(i)
    BY <1>1
  <1>3. CopiedMap' = [CopiedMap EXCEPT ![p] = @ \cup {o}]
    <2>1. ASSUME NEW q \in Partition, NEW r \in Offset
          PROVE  copies'[q][r] > 0 <=> copies[q][r] > 0 \/ (q = p /\ r = o)
      BY <1>1, <1>2, <2>1 DEF IInv, TypeOK
    <2>2. \A q \in Partition :
            {r \in Offset : copies'[q][r] > 0} =
              IF q = p THEN {r \in Offset : copies[q][r] > 0} \cup {o}
                       ELSE {r \in Offset : copies[q][r] > 0}
      BY <1>2, <2>1
    <2> QED BY <2>2 DEF CopiedMap, Copied
  <1>4. Contract!Copy(p, o)
    BY <1>1, <1>2, <1>3
       DEF Contract!Copy, Contract!Settled, CopiedMap, SettledBelow, Settled
  <1> QED BY <1>4 DEF Contract!Next, Contract!Offset, Offset

LEMMA GiveUpStep ==
  ASSUME IInv, NEW p \in Partition, NEW o \in Offset,
         o < logEnd[p], SettledBelow(p, o),
         \/ failed' = [failed EXCEPT ![p] = @ \cup {o}] /\ skipped' = skipped
         \/ skipped' = [skipped EXCEPT ![p] = @ \cup {o}] /\ failed' = failed,
         UNCHANGED <<logEnd, copies, committed>>
  PROVE  Contract!Next
  <1>1. GivenUpMap' = [GivenUpMap EXCEPT ![p] = @ \cup {o}]
    BY DEF GivenUpMap, IInv, TypeOK
  <1>2. CopiedMap' = CopiedMap
    BY DEF CopiedMap, Copied
  <1>3. Contract!GiveUp(p, o)
    BY <1>1, <1>2
       DEF Contract!GiveUp, Contract!Settled, CopiedMap, GivenUpMap,
           SettledBelow, Settled
  <1> QED BY <1>3 DEF Contract!Next, Contract!Offset, Offset

LEMMA CommitStep ==
  ASSUME IInv, [Next]_vars, NEW i \in Instance, CommitOk(i)
  PROVE  Contract!Next
  <1>1. phase[i] = "commit" /\ cur[i] \in Partition /\ InHand(i) + 1 \in Position
    BY HandTypes DEF CommitOk, IInv
  <1>2. PICK p \in Partition, c \in Position : p = cur[i] /\ c = InHand(i) + 1
    BY <1>1
  <1>3. committed' = [committed EXCEPT ![p] = c]
    BY <1>2 DEF CommitOk
  <1>4. c <= logEnd[p] /\ SettledBelow(p, c)
    <2>1. committed'[p] = c
      BY <1>3 DEF IInv, TypeOK
    <2>2. CommittedIsSettled' /\ PositionsInLog'
      BY NextIInv DEF IInv
    <2>3. /\ logEnd' = logEnd
          /\ copies' = copies /\ failed' = failed /\ skipped' = skipped
      BY DEF CommitOk, recordVars
    <2>4. c <= logEnd[p]
      BY <2>1, <2>2, <2>3 DEF PositionsInLog
    <2>5. SettledBelow(p, c)
      BY <2>1, <2>2, <2>3
         DEF CommittedIsSettled, SettledBelow, Settled, Copied
    <2> QED BY <2>4, <2>5
  <1>5. Contract!Commit(p, c)
    BY <1>3, <1>4
       DEF CommitOk, recordVars, Contract!Commit, Contract!Settled, Copied,
           SettledBelow, Settled
  <1> QED BY <1>5 DEF Contract!Next, Contract!Position, Position

LEMMA ContractNext ==
  ASSUME IInv, [Next]_vars
  PROVE  [Contract!Next]_Contract!vars
  <1>1. CASE copies' # copies
    BY <1>1, CopyStep
  <1>2. CASE UNCHANGED <<logEnd, copies, committed, failed, skipped>>
    BY <1>2 DEF Contract!vars, Copied
  <1>3. ASSUME NEW p \in Partition, Arrive(p) PROVE Contract!Next
    <2>1. Contract!Write(p)
      BY <1>3 DEF Arrive, recordVars, Contract!Write, Copied
    <2> QED BY <2>1 DEF Contract!Next
  <1>4. ASSUME NEW i \in Instance, ProduceFail(i) PROVE Contract!Next
    <2>1. /\ phase[i] # "idle"
          /\ failed' = [failed EXCEPT ![cur[i]] = @ \cup {InHand(i)}]
          /\ UNCHANGED <<logEnd, copies, committed, skipped>>
      BY <1>4 DEF ProduceFail, brokerVars
    <2>2. PICK p \in Partition, o \in Offset : p = cur[i] /\ o = InHand(i)
      BY <2>1, HandTypes DEF IInv
    <2>3. SettledBelow(p, o)
      BY <2>2 DEF IInv, LoopSettled, InHand
    <2>4. o < upto[i][p] /\ upto[i][p] <= logEnd[p]
      BY <2>1, <2>2 DEF IInv, PositionsInLog
    <2>5. o < logEnd[p]
      BY <2>4, LoopAssumption DEF IInv, TypeOK, Position, Offset
    <2> QED BY <2>1, <2>2, <2>3, <2>5, GiveUpStep
  <1>5. ASSUME NEW i \in Instance, NEW p \in Partition, HandleRecord(i, p),
               skipped' # skipped
        PROVE  Contract!Next
    <2>1. /\ next[i][p] < upto[i][p] /\ upto[i][p] <= logEnd[p]
          /\ skipped' = [skipped EXCEPT ![p] = @ \cup {next[i][p]}]
          /\ UNCHANGED <<logEnd, copies, committed, failed>>
      BY <1>5 DEF HandleRecord, brokerVars, IInv, PositionsInLog
    <2>2. next[i][p] \in Offset /\ next[i][p] < logEnd[p]
      BY <2>1, LoopAssumption DEF IInv, TypeOK, Position, Offset
    <2>3. SettledBelow(p, next[i][p])
      BY DEF IInv, LoopSettled
    <2> QED BY <2>1, <2>2, <2>3, GiveUpStep
  <1>6. ASSUME NEW i \in Instance, CommitOk(i) PROVE Contract!Next
    BY <1>6, CommitStep
  <1> QED
    BY <1>1, <1>2, <1>3, <1>4, <1>5, <1>6
       DEF Next, vars, Start, Cancel, Panic, Close, Crash, Forget, Assign,
           Move, GiveTo, Loop, Poll, HandleRecord, ProduceAck, CommitFail,
           TargetWrite, TargetRetry, brokerVars, recordVars

(* The loop implements the contract of the job: each of its steps is a    *)
(* step of MirrorContract or changes nothing the contract speaks of.      *)
THEOREM Implements == Spec => ContractSpec
  BY ContractInit, ContractNext, Inductive, PTL
     DEF Spec, ContractSpec, Contract!Spec

-----------------------------------------------------------------------------
(* An instance still has to write a record of its batch: one that comes    *)
(* next, or later.                                                         *)
HasToWrite(i, p, o) ==
  /\ next[i][p] <= o /\ o < upto[i][p]
  /\ ~ (/\ cur[i] = p /\ next[i][p] = o
        /\ phase[i] \in {"written", "commit"})

Holders(p, o) == {i \in Instance : HasToWrite(i, p, o)}

(* The owner of a partition has not fetched the record yet.                *)
ToBeFetched(p, o) ==
  owner[p] # None /\ fetchPos[owner[p]][p] <= o

(* Every copy there is, and every one there will be without a new          *)
(* assignment, is paid for by an assignment of its own.                    *)
PaidFor(p, o) ==
  /\ IsFiniteSet(Holders(p, o))
  /\ copies[p][o] + Cardinality(Holders(p, o))
       + (IF ToBeFetched(p, o) THEN 1 ELSE 0) <= assigned[p]

CopiesArePaidFor ==
  Idempotent => \A p \in Partition : \A o \in Offset : PaidFor(p, o)

(* A step without a copy, after which nobody has more to write.            *)
LEMMA StaysPaidFor ==
  ASSUME TypeOK, TypeOK', NEW p \in Partition, NEW o \in Offset, PaidFor(p, o),
         Holders(p, o)' \subseteq Holders(p, o),
         ToBeFetched(p, o)' => ToBeFetched(p, o),
         copies'[p][o] = copies[p][o], assigned'[p] = assigned[p]
  PROVE  PaidFor(p, o)'
<1>1. IsFiniteSet(Holders(p, o))
  BY DEF PaidFor
<1>2. /\ IsFiniteSet(Holders(p, o)')
      /\ Cardinality(Holders(p, o)') <= Cardinality(Holders(p, o))
      /\ Cardinality(Holders(p, o)') \in Nat /\ Cardinality(Holders(p, o)) \in Nat
  BY <1>1, FS_Subset, FS_CardinalityType
<1>3. /\ copies[p][o] \in Nat /\ assigned[p] \in Nat
  BY DEF TypeOK
<1> DEFINE now  == IF ToBeFetched(p, o) THEN 1 ELSE 0
           then == IF ToBeFetched(p, o)' THEN 1 ELSE 0
<1>4. now \in {0, 1} /\ then \in {0, 1} /\ then <= now
  OBVIOUS
<1>5. copies[p][o] + Cardinality(Holders(p, o)) + now <= assigned[p]
  BY DEF PaidFor
<1> HIDE DEF now, then
<1>6. copies'[p][o] + Cardinality(Holders(p, o)') + then <= assigned'[p]
  BY <1>2, <1>3, <1>4, <1>5
<1> QED
  BY <1>2, <1>6 DEF PaidFor, then

(* The owner fetches the record: it is no longer to be fetched, and the    *)
(* owner has to write it.                                                  *)
LEMMA FetchedIsPaidFor ==
  ASSUME TypeOK, TypeOK', NEW p \in Partition, NEW o \in Offset, PaidFor(p, o),
         NEW i \in Instance, Holders(p, o)' \subseteq Holders(p, o) \cup {i},
         ToBeFetched(p, o), ~ToBeFetched(p, o)',
         copies'[p][o] = copies[p][o], assigned'[p] = assigned[p]
  PROVE  PaidFor(p, o)'
<1>1. IsFiniteSet(Holders(p, o))
  BY DEF PaidFor
<1>2. /\ IsFiniteSet(Holders(p, o) \cup {i})
      /\ Cardinality(Holders(p, o) \cup {i}) <= Cardinality(Holders(p, o)) + 1
      /\ Cardinality(Holders(p, o)) \in Nat
  <2>1. Cardinality(Holders(p, o)) \in Nat
    BY <1>1, FS_CardinalityType
  <2>2. /\ IsFiniteSet(Holders(p, o) \cup {i})
        /\ Cardinality(Holders(p, o) \cup {i}) =
             IF i \in Holders(p, o) THEN Cardinality(Holders(p, o))
             ELSE Cardinality(Holders(p, o)) + 1
    BY <1>1, FS_AddElement
  <2> QED
    BY <2>1, <2>2
<1>3. /\ IsFiniteSet(Holders(p, o)')
      /\ Cardinality(Holders(p, o)') <= Cardinality(Holders(p, o) \cup {i})
      /\ Cardinality(Holders(p, o)') \in Nat
      /\ Cardinality(Holders(p, o) \cup {i}) \in Nat
  BY <1>2, FS_Subset, FS_CardinalityType
<1>4. /\ copies[p][o] \in Nat /\ assigned[p] \in Nat
  BY DEF TypeOK
<1>5. copies[p][o] + Cardinality(Holders(p, o)) + 1 <= assigned[p]
  BY DEF PaidFor
<1>6. copies'[p][o] + Cardinality(Holders(p, o)') + 0 <= assigned'[p]
  BY <1>2, <1>3, <1>4, <1>5
<1> QED
  BY <1>3, <1>6 DEF PaidFor

(* An instance writes the record: one copy more, one holder less.          *)
LEMMA WrittenIsPaidFor ==
  ASSUME TypeOK, TypeOK', NEW p \in Partition, NEW o \in Offset, PaidFor(p, o),
         NEW i \in Holders(p, o), Holders(p, o)' \subseteq Holders(p, o) \ {i},
         ToBeFetched(p, o)' => ToBeFetched(p, o),
         copies'[p][o] = copies[p][o] + 1, assigned'[p] = assigned[p]
  PROVE  PaidFor(p, o)'
<1>1. IsFiniteSet(Holders(p, o))
  BY DEF PaidFor
<1>2. /\ IsFiniteSet(Holders(p, o) \ {i})
      /\ Cardinality(Holders(p, o) \ {i}) = Cardinality(Holders(p, o)) - 1
      /\ Cardinality(Holders(p, o)) \in Nat
  BY <1>1, FS_RemoveElement, FS_CardinalityType
<1>3. /\ IsFiniteSet(Holders(p, o)')
      /\ Cardinality(Holders(p, o)') <= Cardinality(Holders(p, o) \ {i})
      /\ Cardinality(Holders(p, o)') \in Nat
  BY <1>2, FS_Subset, FS_CardinalityType
<1>4. /\ copies[p][o] \in Nat /\ assigned[p] \in Nat
  BY DEF TypeOK
<1> DEFINE now  == IF ToBeFetched(p, o) THEN 1 ELSE 0
           then == IF ToBeFetched(p, o)' THEN 1 ELSE 0
<1>5. now \in {0, 1} /\ then \in {0, 1} /\ then <= now
  OBVIOUS
<1>6. copies[p][o] + Cardinality(Holders(p, o)) + now <= assigned[p]
  BY DEF PaidFor
<1> HIDE DEF now, then
<1>7. copies'[p][o] + Cardinality(Holders(p, o)') + then <= assigned'[p]
  BY <1>2, <1>3, <1>4, <1>5, <1>6
<1> QED
  BY <1>3, <1>7 DEF PaidFor, then

(* A partition is assigned, which pays for what the new owner fetches.     *)
LEMMA AssignedIsPaidFor ==
  ASSUME TypeOK, TypeOK', NEW p \in Partition, NEW o \in Offset, PaidFor(p, o),
         Holders(p, o)' = Holders(p, o),
         copies'[p][o] = copies[p][o], assigned'[p] = assigned[p] + 1
  PROVE  PaidFor(p, o)'
<1>1. IsFiniteSet(Holders(p, o)) /\ Cardinality(Holders(p, o)) \in Nat
  BY FS_CardinalityType DEF PaidFor
<1>2. /\ copies[p][o] \in Nat /\ assigned[p] \in Nat
  BY DEF TypeOK
<1> DEFINE now  == IF ToBeFetched(p, o) THEN 1 ELSE 0
           then == IF ToBeFetched(p, o)' THEN 1 ELSE 0
<1>3. now \in {0, 1} /\ then \in {0, 1}
  OBVIOUS
<1>4. copies[p][o] + Cardinality(Holders(p, o)) + now <= assigned[p]
  BY DEF PaidFor
<1> HIDE DEF now, then
<1>5. copies'[p][o] + Cardinality(Holders(p, o)') + then <= assigned'[p]
  BY <1>1, <1>2, <1>3, <1>4
<1> QED
  BY <1>1, <1>5 DEF PaidFor, then

(* Every step pays for the copies it makes, or leaves them as they are.    *)
LEMMA NextCopiesArePaidFor ==
  ASSUME IInv, IInv', Idempotent, NEW p \in Partition, NEW o \in Offset,
         PaidFor(p, o), [Next]_vars
  PROVE  PaidFor(p, o)'
<1> USE LoopAssumption
<1>1. TypeOK /\ TypeOK' /\ HandInv /\ PositionsInLog
  BY DEF IInv
<1>2. CASE UNCHANGED <<copies, owner, phase, cur, fetchPos, next, upto,
                       assigned>>
  <2>1. Holders(p, o)' = Holders(p, o) /\ ToBeFetched(p, o)' = ToBeFetched(p, o)
    BY <1>2 DEF Holders, HasToWrite, ToBeFetched
  <2> QED
    BY <1>1, <1>2, <2>1, StaysPaidFor
<1>3. ASSUME NEW i \in Instance, NEW q \in Partition, GiveTo(i, q)
      PROVE  PaidFor(p, o)'
  <2>1. /\ UNCHANGED <<copies, phase, cur, next, upto>>
        /\ assigned' = [assigned EXCEPT ![q] = @ + 1]
        /\ owner' = [owner EXCEPT ![q] = i]
        /\ fetchPos' = [fetchPos EXCEPT ![i][q] = committed[q]]
    BY <1>3 DEF GiveTo
  <2>2. Holders(p, o)' = Holders(p, o)
    BY <2>1 DEF Holders, HasToWrite
  <2>3. CASE q = p
    <3>1. assigned'[p] = assigned[p] + 1
      BY <1>1, <2>1, <2>3 DEF TypeOK
    <3> QED
      BY <1>1, <2>1, <2>2, <3>1, AssignedIsPaidFor
  <2>4. CASE q # p
    <3>1. /\ assigned'[p] = assigned[p] /\ owner'[p] = owner[p]
          /\ \A j \in Instance : fetchPos'[j][p] = fetchPos[j][p]
      BY <1>1, <2>1, <2>4 DEF TypeOK
    <3>2. ToBeFetched(p, o)' => ToBeFetched(p, o)
      BY <1>1, <3>1 DEF ToBeFetched, TypeOK
    <3> QED
      BY <1>1, <2>1, <2>2, <3>1, <3>2, StaysPaidFor
  <2> QED
    BY <2>3, <2>4
<1>4. ASSUME NEW gone \in SUBSET Instance, Forget(gone), assigned' = assigned
      PROVE  PaidFor(p, o)'
  <2>1. /\ copies' = copies
        /\ \A j \in Instance :
             /\ next'[j] = IF j \in gone THEN Nowhere ELSE next[j]
             /\ upto'[j] = IF j \in gone THEN Nowhere ELSE upto[j]
             /\ phase'[j] = IF j \in gone THEN "idle" ELSE phase[j]
             /\ cur'[j] = IF j \in gone THEN None ELSE cur[j]
             /\ fetchPos'[j] = IF j \in gone THEN Nowhere ELSE fetchPos[j]
        /\ owner'[p] = IF owner[p] \in gone THEN None ELSE owner[p]
    BY <1>4 DEF Forget
  <2>2. Nowhere[p] = 0 /\ ~(0 <= o /\ o < 0)
    BY DEF Nowhere, Offset
  <2>3. Holders(p, o)' \subseteq Holders(p, o)
    <3> SUFFICES ASSUME NEW j \in Instance, HasToWrite(j, p, o)'
                 PROVE  HasToWrite(j, p, o)
      BY DEF Holders
    <3>1. j \notin gone
      BY <2>1, <2>2 DEF HasToWrite
    <3> QED
      BY <2>1, <3>1 DEF HasToWrite
  <2>4. ToBeFetched(p, o)' => ToBeFetched(p, o)
    BY <1>1, <2>1 DEF ToBeFetched, TypeOK
  <2> QED
    BY <1>1, <1>4, <2>1, <2>3, <2>4, StaysPaidFor
<1>5. ASSUME NEW i \in Instance, Poll(i) PROVE PaidFor(p, o)'
  <2>1. PICK end \in [Partition -> Position] :
          /\ \A q \in Partition :
               IF owner[q] = i
               THEN fetchPos[i][q] <= end[q] /\ end[q] <= logEnd[q]
               ELSE end[q] = fetchPos[i][q]
          /\ next' = [next EXCEPT ![i] = fetchPos[i]]
          /\ upto' = [upto EXCEPT ![i] = end]
          /\ fetchPos' = [fetchPos EXCEPT ![i] = end]
    BY <1>5 DEF Poll
  <2>2. /\ phase[i] = "idle" /\ BatchDone(i)
        /\ UNCHANGED <<copies, owner, phase, cur, assigned>>
    BY <1>5 DEF Poll, brokerVars, countVars
  <2>3. /\ next'[i][p] = fetchPos[i][p] /\ upto'[i][p] = end[p]
        /\ fetchPos'[i][p] = end[p]
        /\ \A j \in Instance \ {i} :
             /\ next'[j] = next[j] /\ upto'[j] = upto[j]
             /\ fetchPos'[j] = fetchPos[j]
    BY <1>1, <2>1 DEF TypeOK
  <2>4. \A j \in Instance \ {i} : HasToWrite(j, p, o)' <=> HasToWrite(j, p, o)
    BY <2>2, <2>3 DEF HasToWrite
  <2>5. /\ fetchPos[i][p] \in Nat /\ end[p] \in Nat /\ o \in Nat
        /\ next[i][p] = upto[i][p]
    BY <1>1, <2>2 DEF TypeOK, BatchDone, Position, Offset
  <2>6. CASE HasToWrite(i, p, o)'
    <3>1. fetchPos[i][p] <= o /\ o < end[p]
      BY <2>3, <2>6 DEF HasToWrite
    <3>2. owner[p] = i
      BY <2>1, <2>5, <3>1
    <3>3. ToBeFetched(p, o) /\ ~ToBeFetched(p, o)'
      BY <2>2, <2>3, <2>5, <3>1, <3>2 DEF ToBeFetched
    <3>4. Holders(p, o)' \subseteq Holders(p, o) \cup {i}
      BY <2>4 DEF Holders
    <3> QED
      BY <1>1, <2>2, <3>3, <3>4, FetchedIsPaidFor
  <2>7. CASE ~HasToWrite(i, p, o)'
    <3>1. Holders(p, o)' \subseteq Holders(p, o)
      BY <2>4, <2>7 DEF Holders
    <3>2. ToBeFetched(p, o)' => ToBeFetched(p, o)
      <4>1. CASE owner[p] = i
        <5>1. fetchPos[i][p] <= end[p]
          BY <2>1, <4>1
        <5> QED
          BY <2>2, <2>3, <2>5, <4>1, <5>1 DEF ToBeFetched
      <4>2. CASE owner[p] # i
        BY <1>1, <2>2, <2>3, <4>2 DEF ToBeFetched, TypeOK
      <4> QED
        BY <4>1, <4>2
    <3> QED
      BY <1>1, <2>2, <3>1, <3>2, StaysPaidFor
  <2> QED
    BY <2>6, <2>7
<1>6. ASSUME NEW i \in Instance,
             \/ \E q \in Partition : HandleRecord(i, q)
             \/ ProduceAck(i)
      PROVE  PaidFor(p, o)'
  <2>1. UNCHANGED <<copies, owner, fetchPos, next, upto, assigned>>
    BY <1>6 DEF HandleRecord, ProduceAck, brokerVars, countVars
  <2>2. Holders(p, o)' \subseteq Holders(p, o)
    <3> SUFFICES ASSUME NEW j \in Instance, HasToWrite(j, p, o)'
                 PROVE  HasToWrite(j, p, o)
      BY DEF Holders
    <3>1. CASE phase[j] = "idle"
      BY <2>1, <3>1 DEF HasToWrite
    <3>2. CASE phase[j] # "idle" /\ \E q \in Partition : HandleRecord(i, q)
      <4>1. j # i
        BY <3>2 DEF HandleRecord
      <4>2. phase'[j] = phase[j] /\ cur'[j] = cur[j]
        BY <1>1, <3>2, <4>1 DEF HandleRecord, TypeOK
      <4> QED
        BY <2>1, <4>2 DEF HasToWrite
    <3>3. CASE ProduceAck(i)
      <4>1. cur' = cur
        BY <3>3 DEF ProduceAck
      <4>2. phase[j] \in {"written", "commit"}
              => phase'[j] \in {"written", "commit"}
        BY <1>1, <3>3 DEF ProduceAck, TypeOK
      <4> QED
        BY <2>1, <4>1, <4>2 DEF HasToWrite
    <3> QED
      BY <1>6, <3>1, <3>2, <3>3
  <2>3. ToBeFetched(p, o)' => ToBeFetched(p, o)
    BY <2>1 DEF ToBeFetched
  <2> QED
    BY <1>1, <2>1, <2>2, <2>3, StaysPaidFor
<1>7. ASSUME NEW i \in Instance, TargetWrite(i) PROVE PaidFor(p, o)'
  <2>1. /\ phase[i] = "produce"
        /\ copies' = [copies EXCEPT ![cur[i]][InHand(i)] = @ + 1]
        /\ phase' = [phase EXCEPT ![i] = "written"]
        /\ UNCHANGED <<owner, cur, fetchPos, next, upto, assigned>>
    BY <1>7 DEF TargetWrite, countVars
  <2>2. cur[i] \in Partition /\ InHand(i) \in Offset
    BY <1>1, <2>1, HandTypes
  <2>3. /\ phase'[i] = "written"
        /\ \A j \in Instance \ {i} : phase'[j] = phase[j]
    BY <1>1, <2>1 DEF TypeOK
  <2>4. ToBeFetched(p, o)' => ToBeFetched(p, o)
    BY <2>1 DEF ToBeFetched
  <2>5. \A j \in Instance : HasToWrite(j, p, o)' => HasToWrite(j, p, o)
    BY <2>1, <2>3 DEF HasToWrite
  <2>6. CASE cur[i] = p /\ InHand(i) = o
    <3>1. copies'[p][o] = copies[p][o] + 1
      BY <1>1, <2>1, <2>6 DEF TypeOK
    <3>2. HasToWrite(i, p, o) /\ ~HasToWrite(i, p, o)'
      <4>1. next[i][p] = o /\ o \in Nat
        BY <2>6 DEF InHand, Offset
      <4>2. o < upto[i][p]
        BY <1>1, <2>1, <2>6, <4>1 DEF PositionsInLog, InHand
      <4>3. phase[i] \notin {"written", "commit"} /\ phase'[i] = "written"
        BY <2>1, <2>3
      <4> QED
        BY <2>1, <2>6, <4>1, <4>2, <4>3 DEF HasToWrite
    <3>3. i \in Holders(p, o) /\ Holders(p, o)' \subseteq Holders(p, o) \ {i}
      BY <2>5, <3>2 DEF Holders
    <3> QED
      BY <1>1, <2>1, <2>4, <3>1, <3>3, WrittenIsPaidFor
  <2>7. CASE ~(cur[i] = p /\ InHand(i) = o)
    <3>1. copies'[p][o] = copies[p][o]
      BY <1>1, <2>1, <2>2, <2>7 DEF TypeOK
    <3>2. Holders(p, o)' \subseteq Holders(p, o)
      BY <2>5 DEF Holders
    <3> QED
      BY <1>1, <2>1, <2>4, <3>1, <3>2, StaysPaidFor
  <2> QED
    BY <2>6, <2>7
<1>8. ASSUME NEW i \in Instance, ProduceFail(i) \/ CommitOk(i) \/ CommitFail(i)
      PROVE  PaidFor(p, o)'
  <2>1. /\ phase[i] # "idle" /\ Advance(i)
        /\ UNCHANGED <<copies, owner, fetchPos, upto, assigned>>
        /\ cur[i] \in Partition
    BY <1>1, <1>8
       DEF ProduceFail, CommitOk, CommitFail, brokerVars, countVars, HandInv,
           TypeOK
  <2>2. /\ next'[i] = [next[i] EXCEPT ![cur[i]] = @ + 1]
        /\ \A j \in Instance \ {i} :
             next'[j] = next[j] /\ phase'[j] = phase[j] /\ cur'[j] = cur[j]
    BY <1>1, <2>1 DEF Advance, TypeOK
  <2>3. /\ next[i][p] \in Nat /\ o \in Nat
        /\ next'[i][p] = IF p = cur[i] THEN next[i][p] + 1 ELSE next[i][p]
    <3>1. next[i] \in [Partition -> Position]
      BY <1>1 DEF TypeOK
    <3>2. next[i][p] \in Nat /\ o \in Nat
      BY <3>1 DEF Position, Offset
    <3> QED
      BY <2>1, <2>2, <3>1, <3>2
  <2>4. Holders(p, o)' \subseteq Holders(p, o)
    <3> SUFFICES ASSUME NEW j \in Instance, HasToWrite(j, p, o)'
                 PROVE  HasToWrite(j, p, o)
      BY DEF Holders
    <3>1. CASE j = i
      BY <2>1, <2>3, <3>1 DEF HasToWrite
    <3>2. CASE j # i
      BY <2>1, <2>2, <3>2 DEF HasToWrite
    <3> QED
      BY <3>1, <3>2
  <2>5. ToBeFetched(p, o)' => ToBeFetched(p, o)
    BY <2>1 DEF ToBeFetched
  <2> QED
    BY <1>1, <2>1, <2>4, <2>5, StaysPaidFor
<1>9. CASE \/ \E q \in Partition : Arrive(q)
           \/ \E i \in Instance : Start(i) \/ Cancel(i) \/ Panic(i)
           \/ UNCHANGED vars
  BY <1>2, <1>9
     DEF Arrive, Start, Cancel, Panic, vars, brokerVars, loopVars, countVars
<1>10. ASSUME NEW i \in Instance,
              Close(i) \/ \E q \in Partition : Assign(i, q) \/ Move(i, q)
       PROVE  PaidFor(p, o)'
  <2>1. CASE Close(i)
    <3>1. Forget({i}) /\ assigned' = assigned
      BY <2>1 DEF Close, countVars
    <3> QED
      BY <1>4, <3>1
  <2>2. CASE \E q \in Partition : Assign(i, q) \/ Move(i, q)
    BY <1>3, <2>2 DEF Assign, Move
  <2> QED
    BY <1>10, <2>1, <2>2
<1>11. CASE Crash
  BY <1>4, <1>11 DEF Crash
<1>12. ASSUME NEW i \in Instance PROVE ~TargetRetry(i)
  BY DEF TargetRetry
<1> QED
  BY <1>5, <1>6, <1>7, <1>8, <1>9, <1>10, <1>11, <1>12 DEF Next, Loop

(* However instances overlap, restart and lose their partitions, a record  *)
(* reaches the target at most once for each time its partition was         *)
(* assigned, if the producer is idempotent: the loop itself writes no      *)
(* record of a batch twice (Consumer.Consume, KafMirrorImpl.handleRecord). *)
THEOREM DuplicatesArePaidFor == Spec => []DuplicatesNeedReassignment
<1>1. Init => CopiesArePaidFor
  <2> SUFFICES ASSUME Init, NEW p \in Partition, NEW o \in Offset
               PROVE  PaidFor(p, o)
    BY DEF CopiesArePaidFor
  <2>1. Holders(p, o) = {}
    BY DEF Init, Holders, HasToWrite, Nowhere, Offset
  <2>2. ~ToBeFetched(p, o)
    BY DEF Init, ToBeFetched
  <2>3. copies[p][o] = 0 /\ assigned[p] = 0
    BY DEF Init
  <2> QED
    BY <2>1, <2>2, <2>3, FS_EmptySet DEF PaidFor
<1>2. IInv /\ IInv' /\ CopiesArePaidFor /\ [Next]_vars => CopiesArePaidFor'
  BY NextCopiesArePaidFor DEF CopiesArePaidFor
<1>3. IInv /\ CopiesArePaidFor => DuplicatesNeedReassignment
  <2> SUFFICES ASSUME IInv, CopiesArePaidFor, Idempotent,
                      NEW p \in Partition, NEW o \in Offset
               PROVE  copies[p][o] <= assigned[p]
    BY DEF DuplicatesNeedReassignment
  <2>1. /\ IsFiniteSet(Holders(p, o))
        /\ copies[p][o] + Cardinality(Holders(p, o))
             + (IF ToBeFetched(p, o) THEN 1 ELSE 0) <= assigned[p]
    BY DEF CopiesArePaidFor, PaidFor
  <2>2. /\ copies[p][o] \in Nat /\ assigned[p] \in Nat
        /\ Cardinality(Holders(p, o)) \in Nat
    BY <2>1, FS_CardinalityType DEF IInv, TypeOK
  <2> QED
    BY <2>1, <2>2
<1> QED
  BY <1>1, <1>2, <1>3, Inductive, PTL DEF Spec
=============================================================================
