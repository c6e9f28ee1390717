----------------------------- MODULE Compliance -----------------------------
(***************************************************************************)
(* The reports of internal/database/compliance.go: the scheduler of the   *)
(* job manager, the reports users ask for, and the deletion of users.     *)
(*                                                                         *)
(* The scheduler looks at the clock when the program starts and every ten *)
(* minutes, the unit of time here.  What it has made it remembers in      *)
(* memory alone.  Whether it runs it decides once, at the start, and here *)
(* it does; the rest of the schedule it reads each time, and edits change *)
(* it until the next start reads the file again.  "monthly" differs from  *)
(* "weekly" in the length of the period only, and is left out.  A report  *)
(* is its period and the time it covers, and is made less than a unit     *)
(* after the look that finds it due.                                      *)
(***************************************************************************)
EXTENDS Integers

CONSTANTS
  UnitsPerHour, HoursPerDay, DaysPerWeek,   \* lengths
  MaxTime,         \* bound: units of time
  MaxStarts,       \* bound: starts of the program
  MaxScheduleEdits,      \* bound: edits of the schedule
  MaxBroken        \* bound: units in which the database fails

ASSUME ComplianceAssumption ==
  /\ UnitsPerHour \in Nat \ {0} /\ HoursPerDay \in Nat \ {0}
  /\ DaysPerWeek \in Nat \ {0} /\ MaxTime \in Nat
  /\ MaxStarts \in Nat /\ MaxScheduleEdits \in Nat /\ MaxBroken \in Nat

VARIABLES
  now,         \* the time
  file,        \* the schedule in the configuration file
  schedule,    \* the schedule in memory
  running,     \* the program runs, and with it the scheduler
  looked,      \* it has looked at the clock in this unit
  lastMade,        \* lastComplianceReport: when it made a report, or Never
  reports,     \* the table of reports: those the scheduler made
  ofUsers,     \* and whether there are others, that users asked for
  starts, scheduleEdits, broken,  \* counters
  due,         \* history: reports that were due in this unit and did not fail
  disturbed    \* history: a start, edit or failure since the last weekly one

complianceVars ==
  <<now, file, schedule, running, looked, lastMade, reports, ofUsers, starts,
    scheduleEdits, broken, due, disturbed>>

Never  == -1
Day    == UnitsPerHour * HoursPerDay
Week   == Day * DaysPerWeek
Period == {"daily", "weekly"}

HourOf(t)   == (t % Day) \div UnitsPerHour
IsMonday(t) == (t % Week) \div Day = 0
Midnight(t) == (t \div Day) * Day

Schedules ==
  [periods : SUBSET Period, hour : 0 .. HoursPerDay - 1]

(* at is when the scheduler looked, run counts the starts, and calm is    *)
(* whether nothing was disturbed.                                         *)
Reports ==
  [period : Period, from : -Week .. MaxTime + 1, to : 0 .. MaxTime + 1 + Day,
   at : 0 .. MaxTime, run : 0 .. MaxStarts,
   calm : BOOLEAN]

ComplianceTypeOK ==
  /\ now \in 0 .. MaxTime /\ file \in Schedules /\ schedule \in Schedules
  /\ running \in BOOLEAN /\ looked \in BOOLEAN
  /\ lastMade \in [Period -> Never .. MaxTime]
  /\ reports \subseteq Reports /\ ofUsers \in BOOLEAN
  /\ starts \in 0 .. MaxStarts /\ scheduleEdits \in 0 .. MaxScheduleEdits
  /\ broken \in 0 .. MaxBroken
  /\ due \subseteq Period /\ disturbed \in BOOLEAN

(* New: the program has started, at midnight of a Monday.                 *)
ComplianceInit ==
  /\ now = 0 /\ file \in Schedules
  /\ schedule = file /\ running = TRUE /\ looked = FALSE
  /\ lastMade = [p \in Period |-> Never] /\ reports = {} /\ ofUsers = FALSE
  /\ starts = 0 /\ scheduleEdits = 0 /\ broken = 0
  /\ due = {} /\ disturbed = FALSE

-----------------------------------------------------------------------------
(* Of the same day, or week.                                              *)
SamePeriod(p, s, t) ==
  s # Never /\ IF p = "daily" THEN s \div Day = t \div Day
                              ELSE s \div Week = t \div Week

(* shouldRunComplianceReport.                                             *)
ShouldRun(p) ==
  /\ HourOf(now) = schedule.hour
  /\ p = "weekly" => IsMonday(now)
  /\ ~SamePeriod(p, lastMade[p], now)

(* GenerateComplianceReport, which asks the clock again: a daily report   *)
(* covers the day it is made on, a weekly one the days before it.         *)
Generated(p, t) ==
  [period |-> p, at |-> now, run |-> starts, calm |-> ~disturbed,
   from |-> IF p = "daily" THEN Midnight(t) ELSE t - Week,
   to   |-> IF p = "daily" THEN Midnight(t) + Day ELSE t]

(* The times are remembered of reports that were not made, too.           *)
MarkAll(made, failed) ==
  [p \in Period |-> IF p \in made \cup failed THEN now ELSE lastMade[p]]

(* lastComplianceReport, once these were made and those failed.           *)
Mark(made, failed) == [p \in Period |-> IF p \in made THEN now ELSE lastMade[p]]

(* The scheduler looks at the clock; each report may fail, and all do     *)
(* when the initial user cannot be read.  For those of slow the next unit *)
(* has begun when they are made.                                          *)
Look ==
  LET todo == {p \in schedule.periods : ShouldRun(p)}
  IN /\ running /\ ~looked
     /\ looked' = TRUE
     /\ \E failed, slow \in SUBSET todo :
          /\ failed = {} \/ broken < MaxBroken
          /\ broken' = IF failed = {} THEN broken ELSE broken + 1
          /\ disturbed' =
               (failed # {} \/ (disturbed /\ "weekly" \notin todo))
          /\ reports' = reports \cup
               {Generated(p, IF p \in slow THEN now + 1 ELSE now) :
                  p \in todo \ failed}
          /\ lastMade' = Mark(todo \ failed, failed)
          /\ due' = {p \in schedule.periods \ failed :
               HourOf(now) = schedule.hour /\ (p = "weekly" => IsMonday(now))}
     /\ UNCHANGED <<now, file, schedule, running, ofUsers, starts,
                    scheduleEdits>>

(* Time passes, but not over a look that is due.                          *)
Pass ==
  /\ now < MaxTime /\ (running => looked)
  /\ now' = now + 1 /\ looked' = FALSE /\ due' = {}
  /\ UNCHANGED <<file, schedule, running, lastMade, reports, ofUsers, starts,
                 scheduleEdits, broken, disturbed>>

-----------------------------------------------------------------------------
(* The program ends, and starts at some time after.                       *)
ProgramEnds ==
  /\ running /\ starts < MaxStarts
  /\ running' = FALSE
  /\ UNCHANGED <<now, file, schedule, looked, lastMade, reports, ofUsers,
                 starts, scheduleEdits, broken, due, disturbed>>

ProgramStarts ==
  /\ ~running /\ starts < MaxStarts
  /\ starts' = starts + 1
  /\ schedule' = file /\ running' = TRUE /\ looked' = FALSE
  /\ lastMade' = [p \in Period |-> Never]
  /\ disturbed' = TRUE
  /\ UNCHANGED <<now, file, reports, ofUsers, scheduleEdits, broken, due>>

(* config edit compliance; its "enabled" has no effect on what runs.      *)
ChangeSchedule ==
  /\ running /\ scheduleEdits < MaxScheduleEdits
  /\ scheduleEdits' = scheduleEdits + 1
  /\ \/ \E h \in 0 .. HoursPerDay - 1 : schedule' = [schedule EXCEPT !.hour = h]
     \/ \E p \in Period : schedule' = [schedule EXCEPT !.periods =
          (@ \ {p}) \cup ({p} \ @)]
  /\ disturbed' = TRUE
  /\ UNCHANGED <<now, file, running, looked, lastMade, reports, ofUsers, starts,
                 broken, due>>

(* handleGenerateComplianceReport: lastComplianceReport is left as it is. *)
RequestReport ==
  /\ running /\ ofUsers' = TRUE
  /\ UNCHANGED <<now, file, schedule, running, looked, lastMade, reports,
                 starts, scheduleEdits, broken, due, disturbed>>

(* A user is deleted, and with it every report it asked for; the initial *)
(* user, whose the scheduler's are, cannot be.                            *)
DeleteUserWithReports ==
  /\ ofUsers /\ ofUsers' = FALSE
  /\ UNCHANGED <<now, file, schedule, running, looked, lastMade, reports,
                 starts, scheduleEdits, broken, due, disturbed>>

ComplianceNext ==
  \/ Look \/ Pass \/ ProgramEnds \/ ProgramStarts \/ ChangeSchedule
  \/ RequestReport \/ DeleteUserWithReports

ComplianceSpec == ComplianceInit /\ [][ComplianceNext]_complianceVars

-----------------------------------------------------------------------------
Scheduled(p) == {r \in reports : r.period = p}
OfItsDay(r)  == r.from <= r.at /\ r.at < r.to

(* What was due and could be made has been made, whatever failed before   *)
(* in the same hour, and by one run of the program only once; and a daily *)
(* report is of the day it was due on, unless it was due in the last ten  *)
(* minutes of it.  Of two weekly reports in a row, made in one hour of    *)
(* the day, the later begins no more than an hour after the end of the    *)
(* earlier, and no more than ten minutes unless the program was started,  *)
(* its schedule edited or a report failed since (manager.go:208-306,      *)
(* compliance.go:36-54).                                                  *)
ReportsFollow ==
  /\ \A p \in due : \E r \in Scheduled(p) : SamePeriod(p, r.at, now)
  /\ \A p \in Period : \A r, s \in Scheduled(p) :
       r.run = s.run /\ SamePeriod(p, r.at, s.at) => r = s
  /\ \A r \in Scheduled("daily") :
       OfItsDay(r) \/ (r.at + 1) % Day = 0
  /\ \A r, s \in Scheduled("weekly") :
       s.at \div Week = r.at \div Week + 1 /\ HourOf(s.at) = HourOf(r.at)
         => /\ s.from <= r.to + UnitsPerHour
            /\ s.calm => s.from <= r.to + 1
=============================================================================
