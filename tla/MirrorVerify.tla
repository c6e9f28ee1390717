----------------------------- MODULE MirrorVerify -----------------------------
(***************************************************************************)
(* The answer to whether a migration is safe: VerifyMirror looks for the   *)
(* mapped topics on both clusters, then reads the end offsets of the       *)
(* source and then what the job's consumer group has committed, one after  *)
(* the other, while records arrive and are copied.  It runs for            *)
(* handleValidateMigration, and at the start of a job that has progress.   *)
(*                                                                         *)
(* One topic without a pattern in its mapping.                             *)
(***************************************************************************)
EXTENDS Integers

CONSTANTS
  Shard,      \* partitions of the topic
  MaxRecords  \* bound: records of a partition

ASSUME MirrorVerifyAssumption == MaxRecords \in Nat

VARIABLES
  sourceThere, targetThere,  \* the topic exists on the cluster
  arrived,   \* records of each partition on the source
  committed,  \* of them, by the consumer group; -1 when it never has
  furthest,   \* history: the most it has ever committed
  check,      \* where VerifyMirror is: "idle", "listed", "ends" or "done"
  ends,       \* the end offsets it has read
  unlisted,   \* the partitions the listing of the ends has left out
  answer,     \* what it has found: critical, warned and the lag
  began       \* history: the records there were when it began

brokerVars == <<sourceThere, targetThere, arrived, committed, furthest>>
answerVars == <<check, ends, unlisted, answer, began>>
verifyVars == <<brokerVars, answerVars>>

Counts == [Shard -> 0 .. MaxRecords]
Nothing == [critical |-> FALSE, warned |-> FALSE, lag |-> "none"]

VerifyTypeOK ==
  /\ sourceThere \in BOOLEAN /\ targetThere \in BOOLEAN
  /\ arrived \in Counts /\ ends \in Counts /\ began \in Counts
  /\ committed \in [Shard -> -1 .. MaxRecords] /\ furthest \in Counts
  /\ unlisted \in SUBSET Shard
  /\ check \in {"idle", "listed", "ends", "done"}
  /\ answer \in [critical : BOOLEAN, warned : BOOLEAN, lag : {"none", "some"}]

VerifyInit ==
  /\ sourceThere \in BOOLEAN /\ targetThere = FALSE
  /\ arrived = [s \in Shard |-> 0]
  /\ committed = [s \in Shard |-> -1] /\ furthest = arrived
  /\ check = "idle" /\ ends = [s \in Shard |-> 0] /\ answer = Nothing
  /\ began = ends /\ unlisted = {}

-----------------------------------------------------------------------------
(* The clusters and the replication.                                      *)

Produce(s) ==
  /\ arrived[s] < MaxRecords
  /\ arrived' = [arrived EXCEPT ![s] = @ + 1] /\ sourceThere' = TRUE
  /\ UNCHANGED <<targetThere, committed, furthest, answerVars>>

CreateTarget ==
  /\ ~targetThere /\ targetThere' = TRUE
  /\ UNCHANGED <<sourceThere, arrived, committed, furthest, answerVars>>

(* After a rebalance an instance may commit less than another has.        *)
Commit(s) ==
  /\ targetThere /\ sourceThere
  /\ \E n \in 0 .. arrived[s] :
       /\ committed' = [committed EXCEPT ![s] = n]
       /\ furthest' = [furthest EXCEPT ![s] = IF n > @ THEN n ELSE @]
  /\ UNCHANGED <<sourceThere, targetThere, arrived, answerVars>>

-----------------------------------------------------------------------------
(* VerifyMirror.                                                          *)

(* A source topic that is missing is critical; a target topic that is, or *)
(* has another number of partitions, a warning.                           *)
ListBothClusters ==
  /\ check \in {"idle", "done"}
  /\ check' = "listed" /\ began' = arrived
  /\ \E differ \in BOOLEAN :
       answer' = [critical |-> ~sourceThere, warned |-> ~targetThere \/ differ,
                  lag |-> "none"]
  /\ UNCHANGED <<brokerVars, ends, unlisted>>

(* A partition whose end cannot be listed is left out, without a word.    *)
GetTopicHighWaterMarks == ends' = arrived /\ unlisted' \in SUBSET Shard

ReadSourceEnds ==
  /\ check = "listed" /\ check' = "ends"
  /\ GetTopicHighWaterMarks
  /\ UNCHANGED <<brokerVars, answer, began>>

(* Where the group is: a partition whose offset is not there or cannot be *)
(* read counts from the start, or from before it when the client reports  *)
(* -1.                                                                    *)
GetConsumerGroupOffsets(unread, start) ==
  [s \in Shard |-> IF s \in unread \/ committed[s] = -1 THEN start
                   ELSE committed[s]]

Finds(lag) ==
  /\ check = "ends" /\ check' = "done"
  /\ answer' = [answer EXCEPT !.lag = lag]
  /\ UNCHANGED <<brokerVars, ends, unlisted, began>>

(* A partition without a commit is left out.                              *)
ReadCommittedOnly ==
  Finds(IF \E s \in Shard \ unlisted :
             committed[s] >= 0 /\ ends[s] > committed[s]
        THEN "some" ELSE "none")

(* The sum of the lags, where what was committed after the ends were read *)
(* is not counted as negative.                                            *)
ReadCommitted ==
  \E unread \in SUBSET Shard, start \in {-1, 0} :
    LET at == GetConsumerGroupOffsets(unread, start)
    IN Finds(IF \E s \in Shard \ unlisted : ends[s] > at[s]
             THEN "some" ELSE "none")

(* Either read fails: a warning, and no lag.                              *)
ReadFails ==
  /\ check \in {"listed", "ends"} /\ check' = "done"
  /\ answer' = [answer EXCEPT !.warned = TRUE]
  /\ UNCHANGED <<brokerVars, ends, unlisted, began>>

VerifyNext ==
  \/ \E s \in Shard : Produce(s) \/ Commit(s)
  \/ CreateTarget \/ ListBothClusters \/ ReadSourceEnds \/ ReadCommitted
  \/ ReadFails

VerifySpec == VerifyInit /\ [][VerifyNext]_verifyVars

-----------------------------------------------------------------------------
(* When validate-mirror finds no lag and warns of nothing, every record   *)
(* that was there when it began had been committed by then, though it     *)
(* reads the ends and the commits one after the other, and though the     *)
(* group's offsets go back (verify.go:43-129, handlers.go:2376-2460).     *)
(* Without the warnings that is not so: a read that fails reports no lag  *)
(* too.  Of a partition that the listing of the ends has left out the     *)
(* answer says nothing, and does not say that.                            *)
NoLagMeansCommitted ==
  check = "done" /\ answer = Nothing =>
    \A s \in Shard \ unlisted : furthest[s] >= began[s]
=============================================================================
