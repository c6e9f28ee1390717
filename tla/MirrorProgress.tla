---------------------------- MODULE MirrorProgress ----------------------------
(***************************************************************************)
(* What the server stores about how far a job has come: a row of progress  *)
(* for each partition, resume points and gaps.                             *)
(*                                                                         *)
(* Every five minutes, and two seconds after a start, a goroutine compares *)
(* the end offsets of a job's topics on both clusters, twice, and stores   *)
(* what it has seen; a request has the resume points calculated in another *)
(* goroutine.  Nothing keeps two of them apart.  A partition whose offset  *)
(* cannot be read is passed over, a statement that fails is logged, and    *)
(* the goroutine goes on.  The resume points of the last hour are replaced;*)
(* the time of a row is written in local time and compared, as a text,     *)
(* with a time in UTC.                                                     *)
(*                                                                         *)
(* One job with one mapped topic.  Of what is stored only the partitions   *)
(* of the rows are told apart; of the resume points of a calculation, and  *)
(* of the gaps, whether there are any.                                     *)
(***************************************************************************)
EXTENDS Integers, FiniteSets

CONSTANTS
  Partition,
  Worker,        \* goroutines that can be at work at a time
  Hour,          \* in the units of the clock
  MaxClock,      \* bound: length of a run
  MaxWorks       \* bound: goroutines started

Zones == {0 - Hour, 0, Hour}

ASSUME MirrorProgressAssumption ==
  /\ Hour \in Nat \ {0}
  /\ MaxClock \in Nat /\ MaxWorks \in Nat

VARIABLES
  jobRow,     \* "active", "paused" or "gone"
  clock,
  zone,       \* of the server, ahead of UTC
  worker,     \* the goroutines
  works,      \* how many were started
  progress,   \* the work a partition's row is of, 0 when it has none
  points,     \* calculations that resume points are of, and when
  gaps,       \* whether a partition was ever reported missing on the target
  stored,     \* history: the last update that has stored its rows
  unwritten,     \* history: the partitions it had no row for, and those that
              \* one cut short since has written
  crowded     \* history: two have been at work at a time, and none alone has
              \* stored its rows since

progressVars  == <<progress, points, gaps>>
rowVars      == <<stored, unwritten, crowded>>
workVars     == <<works, rowVars>>
mirrorVars == <<jobRow, clock, zone, worker, progressVars, workVars>>

Resting == [stage |-> "idle", of |-> 0, compared |-> {}, todo |-> {},
            alone |-> FALSE]

MirrorTypeOK ==
  /\ jobRow \in {"active", "paused", "gone"}
  /\ clock \in 0 .. MaxClock /\ zone \in Zones /\ works \in 0 .. MaxWorks
  /\ \A w \in Worker :
       /\ worker[w].stage \in {"idle", "calculate", "rows", "gaps"}
       /\ worker[w].of \in 0 .. MaxWorks
       /\ worker[w].todo \subseteq worker[w].compared
       /\ worker[w].compared \subseteq Partition
       /\ worker[w].alone \in BOOLEAN
  /\ progress \in [Partition -> 0 .. MaxWorks]
  /\ points \subseteq [of : 1 .. MaxWorks, at : 0 .. MaxClock]
  /\ gaps \in BOOLEAN
  /\ stored \in 0 .. MaxWorks /\ unwritten \subseteq Partition
  /\ crowded \in BOOLEAN

MirrorInit ==
  /\ jobRow = "active"
  /\ clock = 0 /\ zone \in Zones
  /\ worker = [w \in Worker |-> Resting] /\ works = 0
  /\ progress = [p \in Partition |-> 0] /\ points = {} /\ gaps = FALSE
  /\ stored = 0 /\ unwritten = {} /\ crowded = FALSE

-----------------------------------------------------------------------------
(* Who changes the job, and the time.                                     *)

PauseOrStart ==
  /\ jobRow # "gone"
  /\ jobRow' = IF jobRow = "active" THEN "paused" ELSE "active"
  /\ UNCHANGED <<clock, zone, worker, progressVars, workVars>>

(* The rows go with their job.                                            *)
JobDeleted ==
  /\ jobRow' = "gone"
  /\ progress' = [p \in Partition |-> 0] /\ points' = {} /\ gaps' = FALSE
  /\ stored' = 0 /\ unwritten' = {}
  /\ UNCHANGED <<clock, zone, worker, works, crowded>>

Later ==
  /\ clock < MaxClock
  /\ clock' = clock + 1
  /\ UNCHANGED <<jobRow, zone, worker, progressVars, workVars>>

-----------------------------------------------------------------------------
(* updateMirrorState and handleCalculateResumePoints.                     *)

AtWork(w, stage) == worker[w].stage = stage
WorkerIs(w, r)    == worker' = [worker EXCEPT ![w] = r]
Rest == UNCHANGED <<jobRow, clock, zone>>

(* From here on none that is at work is alone.                            *)
Begin(w, stage, read) ==
  LET others == \E v \in Worker \ {w} : ~AtWork(v, "idle")
  IN /\ AtWork(w, "idle") /\ works < MaxWorks
     /\ works' = works + 1
     /\ worker' = [v \in Worker |->
                     IF v = w THEN [stage |-> stage, of |-> works + 1,
                                    compared |-> read, todo |-> read,
                                    alone |-> ~others]
                     ELSE [worker[v] EXCEPT !.alone = FALSE]]
     /\ crowded' = (crowded \/ others)
     /\ UNCHANGED <<progressVars, stored, unwritten>> /\ Rest

(* Of an active job, by the ticker or after its start.  One that cannot   *)
(* reach a cluster is over at once.  CompareClusterOffsets leaves out a   *)
(* partition whose end cannot be read on the source; nothing else that is *)
(* read of the clusters, in either comparison, is kept here.              *)
UpdateMirrorState(w, read) == jobRow = "active" /\ Begin(w, "rows", read)
CalculateResumePoints(w)   == jobRow # "gone" /\ Begin(w, "calculate", {})

(* An upsert that leaves a row that is there.                             *)
KeepRow(w, p) ==
  /\ AtWork(w, "rows") /\ p \in worker[w].todo
  /\ progress' = IF jobRow = "gone" \/ progress[p] # 0 THEN progress
                 ELSE [progress EXCEPT ![p] = worker[w].of]
  /\ WorkerIs(w, [worker[w] EXCEPT !.todo = @ \ {p}])
  /\ UNCHANGED <<points, gaps, workVars>> /\ Rest

(* A row without its job is refused.                                      *)
UpdateMirrorProgress(w, p) ==
  /\ AtWork(w, "rows") /\ p \in worker[w].todo
  /\ progress' = IF jobRow = "gone" THEN progress
                 ELSE [progress EXCEPT ![p] = worker[w].of]
  /\ WorkerIs(w, [worker[w] EXCEPT !.todo = @ \ {p}])
  /\ UNCHANGED <<points, gaps, workVars>> /\ Rest

(* Any other error is logged, and the loop goes on with the next row.     *)
RowFails(w, p) ==
  /\ AtWork(w, "rows") /\ p \in worker[w].todo
  /\ WorkerIs(w, [worker[w] EXCEPT !.todo = @ \ {p}, !.compared = @ \ {p}])
  /\ UNCHANGED <<progressVars, workVars>> /\ Rest

(* The comparison the wrong way round.                                    *)
OlderThanAnHour(r) == r.at + zone < clock - Hour

(* calculated_at > datetime('now', '-1 hour')                             *)
OfTheLastHour(r) == r.at + zone > clock - Hour

(* What the loop over the rows has come to.  One that was alone all along *)
(* ends a mixture.                                                        *)
RowsStored(w) ==
  IF worker[w].compared = {} \/ jobRow = "gone" THEN UNCHANGED rowVars
  ELSE /\ stored' = worker[w].of
       /\ unwritten' = Partition \ worker[w].compared
       /\ crowded' = (crowded /\ ~worker[w].alone)

(* One transaction: with an insert that is refused, for want of the job or*)
(* by an error, the delete is undone.  There may be no points to insert.  *)
ReplacePoints(w) ==
  \/ points' = points
  \/ /\ jobRow # "gone"
     /\ \E new \in SUBSET {[of |-> worker[w].of, at |-> clock]} :
          points' = {r \in points : ~OfTheLastHour(r)} \cup new

(* Of an update, when the loop over its rows has ended.                   *)
StorePoints(w) ==
  /\ AtWork(w, "rows") /\ worker[w].todo = {}
  /\ ReplacePoints(w) /\ RowsStored(w)
  /\ WorkerIs(w, [worker[w] EXCEPT !.stage = "gaps"])
  /\ UNCHANGED <<works, progress, gaps>> /\ Rest

(* Of a request; it stores nothing else.                                  *)
StoreCalculated(w) ==
  /\ AtWork(w, "calculate")
  /\ ReplacePoints(w)
  /\ WorkerIs(w, Resting)
  /\ UNCHANGED <<progress, gaps, workVars>> /\ Rest

(* One transaction too, which a row refused leaves undone.                *)
DetectMirrorGaps == gaps' \in {gaps, gaps \/ jobRow # "gone"}

(* An update ends with them, if a partition is missing on the target.     *)
(* The analysis it stores last is read by nobody but the user.            *)
StoreGaps(w) ==
  /\ AtWork(w, "gaps")
  /\ DetectMirrorGaps
  /\ WorkerIs(w, Resting)
  /\ UNCHANGED <<progress, points, workVars>> /\ Rest

(* The goroutines end with their process, anywhere in their loops.        *)
GoroutinesEnd ==
  /\ \E w \in Worker : ~AtWork(w, "idle")
  /\ worker' = [w \in Worker |-> Resting]
  /\ unwritten' = unwritten \cup
       UNION {worker[w].compared \ worker[w].todo : w \in Worker}
  /\ UNCHANGED <<progressVars, works, stored, crowded>> /\ Rest

MirrorNext ==
  \/ PauseOrStart \/ JobDeleted \/ Later \/ GoroutinesEnd
  \/ \E w \in Worker :
       \/ \E read \in SUBSET Partition : UpdateMirrorState(w, read)
       \/ \E p \in Partition : UpdateMirrorProgress(w, p) \/ RowFails(w, p)
       \/ CalculateResumePoints(w) \/ StorePoints(w) \/ StoreCalculated(w)
       \/ StoreGaps(w)

MirrorSpec == MirrorInit /\ [][MirrorNext]_mirrorVars

-----------------------------------------------------------------------------
(* Every row is of the last update that has stored its rows, but for the  *)
(* partitions that one could not read or store, those an update cut short *)
(* since has written, and those that the one at work has.  Two at work    *)
(* together may leave a mixture, the older over the newer, which lasts    *)
(* until one has been at work alone: that one puts right whatever it      *)
(* reads and stores, after any overlap, crash or failing statement        *)
(* (manager.go:2101-2203, mirror_progress.go:24-76).                      *)
RowsOfOneUpdate ==
  ~crowded =>
    \A p \in Partition :
      \/ progress[p] = stored \/ p \in unwritten
      \/ \E w \in Worker :
           /\ progress[p] = worker[w].of
           /\ p \in worker[w].compared \ worker[w].todo

(* The resume points of the last hour are of one calculation, for every   *)
(* order of the updates and requests, while the server's zone is not      *)
(* behind UTC; where it is, by an hour or more, they pile up              *)
(* (mirror_progress.go:125-172).                                          *)
PointsOfOneCalculation ==
  zone >= 0 =>
    \A r, s \in {q \in points : q.at > clock - Hour} : r.of = s.of
==============================================================================
