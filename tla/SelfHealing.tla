------------------------------ MODULE SelfHealing ------------------------------
(***************************************************************************)
(* What the manager does to a job on its own: every five minutes it looks  *)
(* at the metrics of an active job, adjusts its batch size and parallelism *)
(* and restarts it, asks the AI about it, and forces a restart when        *)
(* nothing moves.  Each of these runs in a goroutine of its own, started   *)
(* by a tick that saw the job active, beside a user who stops, starts and  *)
(* edits the job.  An adjustment holds the manager's mutex for as long as  *)
(* it takes; what it does was decided before it had it.                    *)
(*                                                                         *)
(* One job.  Of its metrics only what the decisions depend on is kept:     *)
(*   few      fewer rows than are needed        calm  nothing to do        *)
(*   lagging  lag above 5000, few errors        failing  errors above 2 %  *)
(*   slow     below 50 messages, no lag         stalled  none, and a lag   *)
(***************************************************************************)
EXTENDS Integers, FiniteSets

CONSTANTS
  Throttle,    \* goroutines that adjust the job, at most so many at a time
  Sizes,       \* batch sizes a user gives the job
  MaxTicks,    \* bound: of the five-minute ticker
  MaxEdits     \* bound: of the user

Unlocked == "nobody"

SmallestBatch == 100
LargestBatch  == 10000

ASSUME SelfHealingAssumption ==
  /\ Unlocked \notin Throttle
  /\ Sizes \subseteq Nat
  /\ MaxTicks \in Nat /\ MaxEdits \in Nat

VARIABLES
  metric,     \* what the stored metrics look like
  rowStatus,  \* of the job's row: "active" or "paused"
  rowBatch, rowParallel,  \* as stored
  runsWith,     \* the batch size the job runs with, 0 when it does not run
  locked,     \* the goroutine that holds Mu for its adjustment
  throttle,   \* the goroutines
  stopping,   \* a StopJob has removed the mirror and has the row to write
  remedy,     \* where ForceRestartJob is: "idle", "called", "dropped", "reset"
  adjustedAt, \* the tick of the throttling_adjustment stored last, or -9
  advised,    \* there are insights of an analysis in the table
  asked,      \* an analysis is at work
  ticks, edits,
  stopped,    \* history: "no", "yes", "overtaken" by a forced restart
  appliedAt,  \* history: the tick of the last one that came through, or -9
  hurried,    \* history: one came less than ten minutes after another
  atLimit     \* history: one began at 100 or less, or at 10000 or more,
              \* or a user has set the size beyond these

jobVars     == <<rowStatus, rowBatch, rowParallel, runsWith>>
healVars    == <<locked, throttle, stopping, remedy>>
insightVars == <<adjustedAt, advised, asked>>
limitVars   == <<stopped, appliedAt, hurried, atLimit>>
selfHealingVars ==
  <<metric, jobVars, healVars, insightVars, ticks, edits, limitVars>>

Metrics  == {"few", "calm", "lagging", "failing", "slow", "stalled"}
Analyses == {"enhanced_analysis", "recommendation", "optimization"}

(* The CHECK of the table; "throttling_adjustment" and "fallback_analysis"*)
(* are not in it.                                                         *)
AcceptedKinds ==
  Analyses \cup {"anomaly", "prediction", "incident_report", "log_analysis",
                 "incident_analysis", "historical_trend"}

Waiting == [stage |-> "idle", from |-> 0, batch |-> 0, parallel |-> 0,
            sure |-> FALSE]

SelfHealingTypeOK ==
  /\ metric \in Metrics
  /\ rowStatus \in {"active", "paused"} /\ rowBatch \in Int
  /\ rowParallel \in 1 .. 20 /\ runsWith \in Nat
  /\ locked \in Throttle \cup {Unlocked}
  /\ \A t \in Throttle : throttle[t].stage \in {"idle", "called", "decided",
                                              "approved", "restart"}
  /\ stopping \in BOOLEAN /\ remedy \in {"idle", "called", "dropped", "reset"}
  /\ adjustedAt \in Int /\ advised \in BOOLEAN /\ asked \in BOOLEAN
  /\ ticks \in 0 .. MaxTicks /\ edits \in 0 .. MaxEdits
  /\ stopped \in {"no", "yes", "overtaken"} /\ appliedAt \in Int
  /\ hurried \in BOOLEAN /\ atLimit \in BOOLEAN

(* The sizes calculateOptimalBatchSize keeps to; handleUpdateJob takes any. *)
WithinLimits(b) == b \in SmallestBatch .. LargestBatch

SelfHealingInit ==
  /\ metric = "few"
  /\ rowStatus = "active" /\ rowBatch \in Sizes /\ rowParallel = 4
  /\ runsWith = rowBatch
  /\ locked = Unlocked /\ throttle = [t \in Throttle |-> Waiting]
  /\ stopping = FALSE /\ remedy = "idle"
  /\ adjustedAt = -9 /\ advised = FALSE /\ asked = FALSE
  /\ ticks = 0 /\ edits = 0
  /\ stopped = "no" /\ appliedAt = -9 /\ hurried = FALSE
  /\ atLimit = ~WithinLimits(rowBatch)

Is(t, stage)   == throttle[t].stage = stage
Turns(t, r)    == throttle' = [throttle EXCEPT ![t] = r]
Gives(t)       == Turns(t, Waiting)
SameHistory    == UNCHANGED limitVars
SameElse       == UNCHANGED <<metric, ticks, edits>>

-----------------------------------------------------------------------------
(* The ticker: performSmartAnalysis.                                      *)

(* An adjustment for an active job, and an analysis, unless its metrics   *)
(* are as they were at the last one; with it a forced restart when there  *)
(* was nothing for ten minutes in spite of a lag.  (Without a lag the     *)
(* error rate is not a number, and no anomaly.)                           *)
Tick ==
  /\ ticks < MaxTicks /\ ticks' = ticks + 1
  /\ \/ /\ rowStatus = "active"
        /\ \E t \in Throttle :
             Is(t, "idle") /\ Turns(t, [Waiting EXCEPT !.stage = "called"])
        /\ \E analyse \in BOOLEAN :
             /\ analyse => metric # "few"
             /\ asked' = (asked \/ analyse)
             /\ remedy' = IF analyse /\ metric = "stalled" /\ remedy = "idle"
                          THEN "called" ELSE remedy
     \/ rowStatus = "paused" /\ UNCHANGED <<throttle, asked, remedy>>
  /\ UNCHANGED <<metric, jobVars, locked, stopping, adjustedAt, advised, edits,
                 limitVars>>

MetricsChange ==
  /\ ticks < MaxTicks
  /\ \E m \in Metrics \ {metric} : metric' = m
  /\ UNCHANGED <<jobVars, healVars, insightVars, ticks, edits, limitVars>>

-----------------------------------------------------------------------------
(* Dynamic throttling.                                                    *)

Least(a, b)    == IF a < b THEN a ELSE b
Greatest(a, b) == IF a > b THEN a ELSE b

(* Without its limits.                                                    *)
BatchSizeUnlimited(b, way) ==
  CASE way = "lagging" -> (b * 3) \div 2
    [] way = "failing" -> (b * 7) \div 10
    [] way = "slow"    -> Greatest(SmallestBatch, b \div 2)

(* calculateOptimalBatchSize: a size at a limit is moved past it.         *)
OptimalBatchSize(b, way) ==
  LET more == Least(LargestBatch, (b * 3) \div 2)
      less == Greatest(SmallestBatch, (b * 7) \div 10)
  IN CASE way = "lagging" -> IF more <= b THEN b + 500 ELSE more
       [] way = "failing" -> IF less >= b THEN b - 200 ELSE less
       [] way = "slow"    -> Greatest(SmallestBatch, b \div 2)

OptimalParallelism(n, way) ==
  CASE way = "lagging" -> Least(20, n + 2)
    [] way = "failing" -> Greatest(1, n - 1)
    [] way = "slow"    -> n

(* analyzeThrottlingMetrics.  Its decisions upon a low throughput are not *)
(* sure enough ever to be applied.                                        *)
Decide(t) ==
  /\ Is(t, "called")
  /\ IF metric \in {"lagging", "failing", "slow"}
        /\ OptimalBatchSize(rowBatch, metric) # rowBatch
     THEN Turns(t, [stage |-> "decided", from |-> rowBatch,
                    batch |-> OptimalBatchSize(rowBatch, metric),
                    parallel |-> OptimalParallelism(rowParallel, metric),
                    sure |-> metric # "slow"])
     ELSE Gives(t)
  /\ UNCHANGED <<jobVars, locked, stopping, remedy, insightVars>>
  /\ SameElse /\ SameHistory

(* shouldApplyThrottling: none within ten minutes, that is two ticks.     *)
CheckCooldown(t) ==
  /\ Is(t, "decided")
  /\ IF throttle[t].sure /\ ticks - adjustedAt >= 2
     THEN Turns(t, [throttle[t] EXCEPT !.stage = "approved"])
     ELSE Gives(t)
  /\ UNCHANGED <<jobVars, locked, stopping, remedy, insightVars>>
  /\ SameElse /\ SameHistory

Adjusts(t) ==
  /\ rowBatch' = throttle[t].batch /\ rowParallel' = throttle[t].parallel
  /\ runsWith' = 0 /\ locked' = t
  /\ Turns(t, [throttle[t] EXCEPT !.stage = "restart"])
  /\ atLimit' = (atLimit \/
       throttle[t].from \notin SmallestBatch + 1 .. LargestBatch - 1)

(* Whether or not the job still runs.                                     *)
ApplyUnchecked(t) ==
  /\ Is(t, "approved") /\ locked = Unlocked
  /\ Adjusts(t)
  /\ UNCHANGED <<rowStatus, stopping, remedy, insightVars, stopped, appliedAt,
                 hurried>>
  /\ SameElse

(* applyThrottlingChanges, up to its two seconds of sleep: the row is     *)
(* written and the mirror stopped, under Mu.                              *)
Apply(t) ==
  /\ Is(t, "approved") /\ locked = Unlocked /\ runsWith > 0
  /\ Adjusts(t)
  /\ UNCHANGED <<rowStatus, stopping, remedy, insightVars, stopped, appliedAt,
                 hurried>>
  /\ SameElse

(* The job is no longer running, or its row cannot be written.            *)
ApplyFails(t) ==
  /\ Is(t, "approved") /\ locked = Unlocked
  /\ Gives(t)
  /\ UNCHANGED <<jobVars, locked, stopping, remedy, insightVars>>
  /\ SameElse /\ SameHistory

(* startJobWithNewConfig.  The row is written again as it was decided,    *)
(* over what the user has changed meanwhile; then the insight, which the  *)
(* table refuses: an error that is logged.                                *)
Restart(t) ==
  /\ Is(t, "restart") /\ throttle[t].batch > 0
  /\ runsWith' = throttle[t].batch /\ rowStatus' = "active"
  /\ rowBatch' = throttle[t].batch /\ rowParallel' = throttle[t].parallel
  /\ adjustedAt' = IF "throttling_adjustment" \in AcceptedKinds
                   THEN ticks ELSE adjustedAt
  /\ locked' = Unlocked /\ Gives(t)
  /\ appliedAt' = ticks /\ hurried' = (hurried \/ ticks - appliedAt < 2)
  /\ UNCHANGED <<stopping, remedy, advised, asked, stopped, atLimit>>
  /\ SameElse

(* A cluster is gone, or the client refuses the size: the row stays       *)
(* active without a mirror.                                               *)
RestartFails(t) ==
  /\ Is(t, "restart")
  /\ locked' = Unlocked /\ Gives(t)
  /\ UNCHANGED <<jobVars, stopping, remedy, insightVars>>
  /\ SameElse /\ SameHistory

-----------------------------------------------------------------------------
(* The analysis of a job, at a tick or on request.                        *)

AnalyzeJobNow ==
  /\ ~asked /\ asked' = TRUE
  /\ UNCHANGED <<jobVars, healVars, adjustedAt, advised>>
  /\ SameElse /\ SameHistory

(* Three questions, of which some are answered, which comes to the same   *)
(* as all; when none is, a fallback whose insight the table refuses.      *)
AnalyzeJobTimeSeries ==
  /\ asked /\ asked' = FALSE
  /\ \E answered \in {Analyses, {}} :
       advised' = (advised \/ answered \cap AcceptedKinds # {})
  /\ UNCHANGED <<jobVars, healVars, adjustedAt>>
  /\ SameElse /\ SameHistory

(* A stalled job without automated remediation, ten seconds later.        *)
Recommend ==
  /\ remedy = "called" /\ remedy' = "idle"
  /\ advised' = TRUE
  /\ UNCHANGED <<jobVars, locked, throttle, stopping, adjustedAt, asked>>
  /\ SameElse /\ SameHistory

(* ForceRestartJob: the mirror goes, the row is reset, the job started.   *)
DropMirror ==
  /\ remedy = "called" /\ locked = Unlocked
  /\ runsWith' = 0 /\ remedy' = "dropped"
  /\ UNCHANGED <<rowStatus, rowBatch, rowParallel, locked, throttle, stopping,
                 insightVars>>
  /\ SameElse /\ SameHistory

ResetRow ==
  /\ remedy = "dropped"
  /\ rowStatus' = "paused" /\ remedy' = "reset"
  /\ UNCHANGED <<rowBatch, rowParallel, runsWith, locked, throttle, stopping,
                 insightVars>>
  /\ SameElse /\ SameHistory

StartAgain ==
  /\ remedy = "reset" /\ locked = Unlocked /\ remedy' = "idle"
  /\ \/ /\ rowBatch > 0 /\ runsWith = 0
        /\ runsWith' = rowBatch /\ rowStatus' = "active"
     \/ UNCHANGED <<runsWith, rowStatus>>
  /\ stopped' = IF stopping \/ stopped = "yes" THEN "overtaken" ELSE stopped
  /\ UNCHANGED <<rowBatch, rowParallel, locked, throttle, stopping, insightVars,
                 appliedAt, hurried, atLimit>>
  /\ SameElse

-----------------------------------------------------------------------------
(* The user.                                                              *)

(* A job whose row is active and that does not run is paused all the same.*)
StopTheJob ==
  /\ locked = Unlocked /\ ~stopping
  /\ runsWith > 0 \/ rowStatus = "active"
  /\ runsWith' = 0 /\ stopping' = TRUE
  /\ UNCHANGED <<rowStatus, rowBatch, rowParallel, locked, throttle, remedy,
                 insightVars>>
  /\ SameElse /\ SameHistory

WriteStopped ==
  /\ stopping /\ stopping' = FALSE
  /\ rowStatus' = "paused"
  /\ stopped' = IF remedy = "idle" /\ stopped = "no" THEN "yes" ELSE "overtaken"
  /\ UNCHANGED <<rowBatch, rowParallel, runsWith, locked, throttle, remedy,
                 insightVars, appliedAt, hurried, atLimit>>
  /\ SameElse

StartTheJob ==
  /\ locked = Unlocked /\ ~stopping /\ runsWith = 0 /\ rowBatch > 0
  /\ runsWith' = rowBatch /\ rowStatus' = "active" /\ stopped' = "no"
  /\ UNCHANGED <<rowBatch, rowParallel, healVars, insightVars, appliedAt,
                 hurried, atLimit>>
  /\ SameElse

(* Of the row only; the mirror runs on as it was started.                 *)
EditTheJob ==
  /\ edits < MaxEdits /\ edits' = edits + 1
  /\ \E b \in Sizes :
       rowBatch' = b /\ atLimit' = (atLimit \/ ~WithinLimits(b))
  /\ UNCHANGED <<metric, rowStatus, rowParallel, runsWith, healVars,
                 insightVars, ticks, stopped, appliedAt, hurried>>

SelfHealingNext ==
  \/ Tick \/ MetricsChange \/ AnalyzeJobNow \/ AnalyzeJobTimeSeries \/ Recommend
  \/ DropMirror \/ ResetRow \/ StartAgain
  \/ StopTheJob \/ WriteStopped \/ StartTheJob \/ EditTheJob
  \/ \E t \in Throttle :
       \/ Decide(t) \/ CheckCooldown(t) \/ Apply(t) \/ ApplyFails(t)
       \/ Restart(t) \/ RestartFails(t)

SelfHealingSpec == SelfHealingInit /\ [][SelfHealingNext]_selfHealingVars

-----------------------------------------------------------------------------
(* A job that a user has stopped stays stopped: an adjustment that was    *)
(* decided while it ran finds, once it has Mu, that it runs no more       *)
(* (manager.go:1836-1845).  A forced restart that was under way at the    *)
(* stop starts it again.                                                  *)
StoppedStaysStopped == stopped = "yes" => runsWith = 0 /\ rowStatus = "paused"

(* Until an adjustment begins at a limit, or a user goes beyond them, the *)
(* stored batch size is within 100 .. 10000, however the adjustments      *)
(* follow upon one another and upon edits (manager.go:1767-1800).         *)
BatchWithinLimits == ~atLimit => WithinLimits(rowBatch)

(* "Throttling changes suppressed ... to prevent oscillation": there are  *)
(* ten minutes between two adjustments (manager.go:1689, 1822-1834).      *)
AdjustmentsKeepApart == ~hurried
=============================================================================
