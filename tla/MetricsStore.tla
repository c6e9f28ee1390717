---------------------------- MODULE MetricsStore ----------------------------
(***************************************************************************)
(* From the counters of a running mirror to the rows of a job: the        *)
(* consume loop that counts, collectMetrics that reads the counters every *)
(* ten seconds, InsertMetrics that stores what they gained, and           *)
(* PruneOldData that deletes old rows.                                     *)
(*                                                                         *)
(* The counters are atomics that the loop raises while they are read, one *)
(* after the other.  InsertMetrics runs two statements, and the pruning   *)
(* may fall between them.  Of the five counters that are stored alike     *)
(* only the messages produced are followed into the rows.  Rows are kept  *)
(* in the order of their timestamps, so that old rows are a prefix.       *)
(***************************************************************************)
EXTENDS Naturals, Sequences

CONSTANTS
  ErrorLimit,     \* consecutive errors a mirror survives (100 in the code)
  MaxCount,       \* bound: records a mirror produces
  MaxSkips,       \* bound: records without a mapping a mirror handles
  MaxRows,        \* bound: rows of the table
  MaxMirrors      \* bound: mirrors started for the job

ASSUME MetricsAssumption ==
  /\ ErrorLimit \in Nat /\ MaxCount \in Nat /\ MaxSkips \in Nat
  /\ MaxRows \in Nat /\ MaxMirrors \in Nat

VARIABLES
  alive,      \* a mirror of the job runs
  consumed,   \* recordsProcessed of its consumer
  produced,   \* recordsProduced of its producer
  errorRun,   \* consecutiveErrors of its producer
  acked,      \* a record is produced and not yet counted as consumed
  collect,    \* collectMetrics: "wait", "consumer", "sampled", "totals", "over"
  sample,     \* what it has read of the counters
  totals,     \* what GetLatestMetrics returned to InsertMetrics
  rows,       \* aggregated_metrics: the job's rows and those of others
  skipped,    \* history: records without a mapping that count as consumed
  raced,      \* history: rows were deleted since "totals" was read
  floor,      \* history: what the stored total may not fall below
  mirrors     \* mirrors started so far

counterVars == <<consumed, produced, errorRun, acked, skipped>>
collectVars == <<collect, sample, totals>>
metricRows   == <<rows, raced, floor>>
metricsVars == <<alive, counterVars, collectVars, metricRows, mirrors>>

NoSample == [consumed |-> 0, skipped |-> 0, produced |-> 0]
MetricsRow == [mine : BOOLEAN, delta : Nat]

MetricsTypeOK ==
  /\ alive \in BOOLEAN /\ acked \in BOOLEAN
  /\ raced \in BOOLEAN
  /\ consumed \in Nat /\ produced \in Nat /\ errorRun \in Nat
  /\ skipped \in Nat /\ totals \in Nat /\ floor \in Nat
  /\ collect \in {"wait", "consumer", "sampled", "totals", "over"}
  /\ sample \in [consumed : Nat, skipped : Nat, produced : Nat]
  /\ rows \in Seq(MetricsRow)
  /\ mirrors \in 0 .. MaxMirrors

(* The sums of the first numbers of d.                                    *)
SumsOf(d) ==
  LET sum[n \in 0 .. Len(d)] == IF n = 0 THEN 0 ELSE sum[n - 1] + d[n]
  IN  sum

(* The sum of the deltas without the WHERE clause.                        *)
TotalsOfAll == SumsOf([n \in DOMAIN rows |-> rows[n].delta])[Len(rows)]

(* SUM(messages_replicated_delta) WHERE job_id = ?                        *)
Mine(table) ==
  [n \in DOMAIN table |-> IF table[n].mine THEN table[n].delta ELSE 0]

Totals == SumsOf(Mine(rows))[Len(rows)]

MetricsInit ==
  /\ alive = FALSE /\ acked = FALSE
  /\ consumed = 0 /\ produced = 0 /\ errorRun = 0 /\ skipped = 0
  /\ collect = "over" /\ sample = NoSample /\ totals = 0
  /\ rows = <<>> /\ raced = FALSE /\ floor = 0
  /\ mirrors = 0

-----------------------------------------------------------------------------
(* The mirror: its counters start at zero, whatever the rows say.         *)

MirrorStarts ==
  /\ ~alive /\ mirrors < MaxMirrors
  /\ alive' = TRUE /\ mirrors' = mirrors + 1 /\ collect' = "wait"
  /\ UNCHANGED <<counterVars, sample, totals, metricRows>>

(* What was read of the counters, and the counters, are gone.             *)
MirrorGone ==
  /\ alive' = FALSE /\ acked' = FALSE
  /\ consumed' = 0 /\ produced' = 0 /\ errorRun' = 0 /\ skipped' = 0
  /\ collect' = "over" /\ sample' = NoSample /\ totals' = 0

(* Stop waits for collectMetrics, which finishes the tick it is in.       *)
MirrorStops ==
  /\ alive /\ collect \in {"wait", "over"}
  /\ MirrorGone /\ UNCHANGED <<metricRows, mirrors>>

(* The program is killed in the middle of a tick.                         *)
MirrorCrashes ==
  /\ alive
  /\ MirrorGone /\ UNCHANGED <<metricRows, mirrors>>

(* The callback of Produce counts the record before handleRecord returns, *)
(* and only then Consume counts it.                                       *)
RecordProduced ==
  /\ alive /\ ~acked /\ produced < MaxCount
  /\ produced' = produced + 1 /\ errorRun' = 0 /\ acked' = TRUE
  /\ UNCHANGED <<alive, consumed, skipped, collectVars, metricRows, mirrors>>

RecordConsumed ==
  /\ alive /\ acked
  /\ consumed' = consumed + 1 /\ acked' = FALSE
  /\ UNCHANGED <<alive, produced, errorRun, skipped, collectVars, metricRows,
                 mirrors>>

(* handleRecord returns nil for a topic without a mapping.                *)
RecordSkipped ==
  /\ alive /\ ~acked /\ skipped < MaxSkips
  /\ consumed' = consumed + 1 /\ skipped' = skipped + 1
  /\ UNCHANGED <<alive, produced, errorRun, acked, collectVars, metricRows,
                 mirrors>>

(* A consumer that counts a record its handler refused.                   *)
RecordFailedCounted ==
  /\ alive /\ ~acked /\ errorRun <= ErrorLimit
  /\ errorRun' = errorRun + 1 /\ consumed' = consumed + 1
  /\ UNCHANGED <<alive, produced, acked, skipped, collectVars, metricRows,
                 mirrors>>

RecordFailed ==
  /\ alive /\ ~acked /\ errorRun <= ErrorLimit
  /\ errorRun' = errorRun + 1
  /\ UNCHANGED <<alive, consumed, produced, acked, skipped, collectVars,
                 metricRows, mirrors>>

-----------------------------------------------------------------------------
(* collectMetrics, ProcessMetrics and InsertMetrics.                      *)

(* The consumer's counters are read first ...                             *)
ReadConsumer ==
  /\ alive /\ collect = "wait"
  /\ sample' = [sample EXCEPT !.consumed = consumed, !.skipped = skipped]
  /\ collect' = "consumer"
  /\ UNCHANGED <<alive, counterVars, totals, metricRows, mirrors>>

(* ... and the producer's after them.  A producer that keeps failing ends *)
(* the loop through onPanic.                                              *)
ReadProducer ==
  /\ alive /\ collect = "consumer"
  /\ IF errorRun > ErrorLimit
       THEN collect' = "over" /\ sample' = NoSample
       ELSE /\ collect' = "sampled"
            /\ sample' = [sample EXCEPT !.produced = produced]
  /\ UNCHANGED <<alive, counterVars, totals, metricRows, mirrors>>

(* The first statement without its WHERE clause.                          *)
ReadTotalsOfAll ==
  /\ alive /\ collect = "sampled"
  /\ collect' = "totals" /\ totals' = TotalsOfAll /\ raced' = FALSE
  /\ UNCHANGED <<alive, counterVars, sample, rows, floor,
                 mirrors>>

(* InsertMetrics, first statement: the deltas stored so far.              *)
ReadTotals ==
  /\ alive /\ collect = "sampled"
  /\ collect' = "totals" /\ totals' = Totals /\ raced' = FALSE
  /\ UNCHANGED <<alive, counterVars, sample, rows, floor,
                 mirrors>>

(* A delta that knows nothing of restarts.                                *)
DeltaSigned == sample.produced - totals

(* A counter below the sum is taken for one that started anew.            *)
Delta ==
  IF sample.produced < totals THEN sample.produced ELSE sample.produced - totals

TickEnds == collect' = "wait" /\ sample' = NoSample /\ totals' = 0

(* Second statement.                                                      *)
Insert ==
  /\ alive /\ collect = "totals" /\ Len(rows) < MaxRows
  /\ rows' = Append(rows, [mine |-> TRUE, delta |-> Delta])
  /\ TickEnds
  /\ floor' = IF raced THEN 0 ELSE sample.produced
  /\ UNCHANGED <<alive, counterVars, raced, mirrors>>

(* Either statement fails, which is logged: the sample is lost, and the   *)
(* next one makes up for it.                                              *)
InsertFails ==
  /\ alive /\ collect \in {"sampled", "totals"}
  /\ TickEnds
  /\ UNCHANGED <<alive, counterVars, metricRows, mirrors>>

(* Another job's metrics.                                                 *)
OtherJobInserts ==
  /\ Len(rows) < MaxRows
  /\ rows' = Append(rows, [mine |-> FALSE, delta |-> 1])
  /\ UNCHANGED <<alive, counterVars, collectVars, raced,
                 floor, mirrors>>

(* PruneOldData: rows older than the retention, those of every job.       *)
Prune ==
  \E n \in 1 .. Len(rows) :
    /\ rows' = SubSeq(rows, n + 1, Len(rows))
    /\ raced' = (collect = "totals") /\ floor' = 0
    /\ UNCHANGED <<alive, counterVars, collectVars, mirrors>>

MetricsNext ==
  \/ MirrorStarts \/ MirrorStops \/ MirrorCrashes
  \/ RecordProduced \/ RecordConsumed \/ RecordSkipped \/ RecordFailed
  \/ ReadConsumer \/ ReadProducer \/ ReadTotals \/ Insert \/ InsertFails
  \/ OtherJobInserts \/ Prune

MetricsSpec == MetricsInit /\ [][MetricsNext]_metricsVars

-----------------------------------------------------------------------------
(* A sample never shows more records consumed than were produced or had   *)
(* no mapping, although the counters move while they are read: otherwise  *)
(* collectMetrics would report a stalled target that takes records.       *)
SampleConsistent ==
  collect \in {"sampled", "totals"} =>
    sample.consumed <= sample.produced + sample.skipped

(* Across restarts of the mirror the stored total is never below what the *)
(* newest stored sample counted, unless rows are pruned after the sample  *)
(* or between its two statements.                                         *)
NeverBelowCurrent == Totals >= floor
=============================================================================
