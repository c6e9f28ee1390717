------------------------------ MODULE AutoHalt ------------------------------
(***************************************************************************)
(* The automatic halt: Observe puts the samples of all running jobs into  *)
(* one window of a minute and compares the first with the last; an alarm  *)
(* calls Halt and then HaltRunningJobs, from the goroutine that took the  *)
(* sample, while an admin enables, disables, halts and resumes.           *)
(*                                                                         *)
(* Controller.mu covers the window only.  The enabled and halted flags    *)
(* are columns of one row, read and written by separate statements, each  *)
(* of which may fail.  A sample holds a job's counters, which start at    *)
(* zero with its mirror.                                                  *)
(* Time passes in ticks; a minute is "Window" of them.  The third         *)
(* heuristic, payload inflation, compares ratios of bytes and is left     *)
(* out.                                                                    *)
(***************************************************************************)
EXTENDS Naturals

CONSTANTS
  Mirrored,       \* jobs with a mirror
  Window,         \* ticks a sample is kept
  Burst,          \* errors that make a storm (auth_error_burst)
  TombstoneMin,   \* empty records that make one (tombstone_min)
  MaxCounted,     \* bound: records and errors of all mirrors
  MaxSamples,     \* bound: samples taken
  MaxAsks     \* bound: requests of the admin and restarts of mirrors

ASSUME AutoHaltAssumption ==
  /\ Window \in Nat \ {0} /\ Burst \in Nat \ {0} /\ TombstoneMin \in Nat \ {0}
  /\ MaxCounted \in Nat /\ MaxSamples \in Nat /\ MaxAsks \in Nat

VARIABLES
  enabled, halted,  \* protection_state
  mirroring,        \* jobs whose mirror runs
  counter,          \* their counters of records, tombstones and errors
  samples,          \* Controller.samples by their numbers, with their ages
  metering,         \* each job's metrics callback: "idle", "alarm" or "halting"
  stoppers,         \* goroutines that are to run HaltRunningJobs
  admin,            \* the admin's request: "none", "halting" or "disabling"
  happened,         \* history: all tombstones and errors ...
  past,             \* ... and those before each of the last ticks
  unfounded,        \* history: an alarm the samples of one job raised wrongly
  overlapped,       \* history: a halt was set while a disable was under way
  uncleared,        \* history: the last disable failed to clear the halt
  records, taken, asks

flagVars  == <<enabled, halted, overlapped, uncleared>>
alarmVars == <<samples, metering, unfounded, taken>>
historyVars == <<happened, past>>
haltVars == <<flagVars, mirroring, counter, alarmVars, stoppers, admin,
              historyVars, records, asks>>

Zero == [records |-> 0, tombstones |-> 0, errors |-> 0]
Counters == [records : Nat, tombstones : Nat, errors : Nat]
Totalled == [tombstones : Nat, errors : Nat]

AutoHaltTypeOK ==
  /\ enabled \in BOOLEAN /\ halted \in BOOLEAN
  /\ mirroring \in SUBSET Mirrored
  /\ counter \in [Mirrored -> Counters]
  /\ DOMAIN samples \subseteq 1 .. taken
  /\ \A n \in DOMAIN samples :
       samples[n] \in [job : Mirrored, age : 0 .. Window, s : Counters]
  /\ metering \in [Mirrored -> {"idle", "alarm", "halting"}]
  /\ stoppers \in Nat
  /\ admin \in {"none", "halting", "disabling"}
  /\ happened \in Totalled /\ past \in [0 .. Window - 1 -> Totalled]
  /\ unfounded \in BOOLEAN /\ overlapped \in BOOLEAN
  /\ uncleared \in BOOLEAN
  /\ records \in Nat /\ taken \in Nat /\ asks \in Nat

None2 == [tombstones |-> 0, errors |-> 0]

AutoHaltInit ==
  /\ enabled \in BOOLEAN /\ halted = FALSE
  /\ mirroring = Mirrored
  /\ counter = [j \in Mirrored |-> Zero]
  /\ samples = <<>> /\ metering = [j \in Mirrored |-> "idle"]
  /\ stoppers = 0 /\ admin = "none"
  /\ happened = None2 /\ past = [a \in 0 .. Window - 1 |-> None2]
  /\ unfounded = FALSE /\ overlapped = FALSE /\ uncleared = FALSE
  /\ records = 0 /\ taken = 0 /\ asks = 0

-----------------------------------------------------------------------------
(* The mirrors and the clock.                                             *)

(* A record is copied, or an empty one, or one cannot be produced.        *)
Count(j, kind) ==
  /\ j \in mirroring /\ records < MaxCounted
  /\ counter' = [counter EXCEPT
       ![j].records    = @ + (IF kind = "error" THEN 0 ELSE 1),
       ![j].tombstones = @ + (IF kind = "tombstone" THEN 1 ELSE 0),
       ![j].errors     = @ + (IF kind = "error" THEN 1 ELSE 0)]
  /\ happened' = [happened EXCEPT
       !.tombstones = @ + (IF kind = "tombstone" THEN 1 ELSE 0),
       !.errors     = @ + (IF kind = "error" THEN 1 ELSE 0)]
  /\ records' = records + 1
  /\ UNCHANGED <<flagVars, mirroring, alarmVars, stoppers, admin, past, asks>>

(* A mirror starts, if GuardStart lets it, and counts from zero: the      *)
(* counters of the one before went with it.                               *)
StartMirror(j) ==
  /\ j \notin mirroring /\ asks < MaxAsks
  /\ ~(enabled /\ halted)
  /\ mirroring' = mirroring \cup {j}
  /\ asks' = asks + 1
  /\ UNCHANGED <<flagVars, counter, alarmVars, stoppers, admin, historyVars,
                 records>>

(* Stop waits for a callback of the metrics loop that is under way.       *)
StopMirror(j) ==
  /\ j \in mirroring /\ metering[j] = "idle" /\ asks < MaxAsks
  /\ mirroring' = mirroring \ {j}
  /\ counter' = [counter EXCEPT ![j] = Zero]
  /\ asks' = asks + 1
  /\ UNCHANGED <<flagVars, alarmVars, stoppers, admin, historyVars, records>>

Older(s) == [s EXCEPT !.age = IF @ < Window THEN @ + 1 ELSE @]

TimePasses ==
  /\ samples' = [n \in DOMAIN samples |-> Older(samples[n])]
  /\ past' = [a \in 0 .. Window - 1 |->
                IF a = 0 THEN happened ELSE past[a - 1]]
  /\ samples' # samples
  /\ UNCHANGED <<happened, flagVars, mirroring, counter, metering, unfounded,
                 taken, stoppers, admin, records, asks>>

-----------------------------------------------------------------------------
(* Observe, and what ProcessMetrics does with its answer.                 *)

(* A window that is never cleaned.                                        *)
KeptForever(window) == window

Kept(window) ==
  [n \in {m \in DOMAIN window : window[m].age < Window} |-> window[n]]

(* A counter that went down has started anew.                             *)
Gain(first, last) == IF last < first THEN last ELSE last - first

TombstoneStorm(a, b) ==
  LET tombstones == Gain(a.tombstones, b.tombstones)
      all        == Gain(a.records, b.records)
  IN  all > 0 /\ tombstones >= TombstoneMin /\ 2 * tombstones >= all

ErrorStorm(a, b) == Gain(a.errors, b.errors) >= Burst

(* What happened within the minute.                                       *)
Happened(kind) == happened[kind] - past[Window - 1][kind]

Solo(window) == \A i, k \in DOMAIN window : window[i].job = window[k].job

(* The samples of the minute with the new one, last.                      *)
WithSample(j) ==
  LET kept == Kept(samples)
      last == taken + 1
  IN  [n \in DOMAIN kept \cup {last} |->
         IF n = last THEN [job |-> j, age |-> 0, s |-> counter[j]]
         ELSE kept[n]]

(* Off, or with a single sample, it is silent; else the first is compared *)
(* with the last.                                                         *)
Observe(j) ==
  /\ j \in mirroring /\ metering[j] = "idle" /\ taken < MaxSamples
  /\ enabled
  /\ samples' = WithSample(j)
  /\ \E first \in DOMAIN samples' :
       LET a == samples'[first].s
           b == counter[j]
           tombs  == first # taken + 1 /\ TombstoneStorm(a, b)
           errors == first # taken + 1 /\ ErrorStorm(a, b)
       IN
        /\ \A n \in DOMAIN samples' : first <= n
        /\ metering' = [metering EXCEPT ![j] =
                          IF tombs \/ errors THEN "alarm" ELSE "idle"]
        /\ unfounded' = (unfounded \/
             /\ Solo(samples')
             /\ \/ tombs /\ Happened("tombstones") < TombstoneMin
                \/ ~tombs /\ errors /\ Happened("errors") < Burst)
  /\ taken' = taken + 1
  /\ UNCHANGED <<flagVars, mirroring, counter, stoppers, admin, historyVars,
                 records, asks>>

(* Halt(reason, "auto") asks whether protection is enabled, and a row that *)
(* cannot be read says no; an error is dropped, and HaltRunningJobs is    *)
(* started in any case.                                                   *)
AutoHaltChecks(j) ==
  /\ metering[j] = "alarm"
  /\ \/ /\ enabled
        /\ metering' = [metering EXCEPT ![j] = "halting"]
        /\ UNCHANGED stoppers
     \/ /\ metering' = [metering EXCEPT ![j] = "idle"]
        /\ stoppers' = stoppers + 1
  /\ UNCHANGED <<flagVars, mirroring, counter, samples, unfounded, taken, admin,
                 historyVars, records, asks>>

(* UPDATE protection_state SET halted = 1, whatever "enabled" is by now.  *)
SetHalted ==
  /\ halted' = TRUE
  /\ overlapped' = (overlapped \/ admin = "disabling" \/ ~enabled)
  /\ UNCHANGED <<enabled, uncleared>>

AutoHaltSets(j) ==
  /\ metering[j] = "halting"
  /\ SetHalted \/ UNCHANGED flagVars
  /\ metering' = [metering EXCEPT ![j] = "idle"]
  /\ stoppers' = stoppers + 1
  /\ UNCHANGED <<mirroring, counter, samples, unfounded, taken, admin,
                 historyVars, records, asks>>

(* HaltRunningJobs on a goroutine of its own: every mirror that runs by   *)
(* then, whether or not the halt still stands; Stop waits for callbacks.  *)
StopAllMirrors ==
  /\ stoppers > 0 /\ stoppers' = stoppers - 1
  /\ \A j \in mirroring : metering[j] = "idle"
  /\ mirroring' = {} /\ counter' = [j \in Mirrored |-> Zero]
  /\ UNCHANGED <<flagVars, alarmVars, admin, historyVars, records, asks>>

-----------------------------------------------------------------------------
(* The admin.                                                             *)

Asks == admin = "none" /\ asks < MaxAsks /\ asks' = asks + 1

EnableProtection ==
  /\ Asks
  /\ enabled' = TRUE
  /\ UNCHANGED <<halted, overlapped, uncleared, mirroring, counter, alarmVars,
                 stoppers, admin, historyVars, records>>

(* Resume: the halt is cleared.                                           *)
ClearHalt == halted' = FALSE /\ overlapped' = FALSE /\ uncleared' = FALSE

ResumeProtection ==
  /\ Asks /\ ClearHalt
  /\ UNCHANGED <<enabled, mirroring, counter, alarmVars, stoppers, admin,
                 historyVars, records>>

(* A disable that only turns the switch off.                              *)
DisableWithoutResume ==
  /\ Asks /\ admin' = "disabling"
  /\ UNCHANGED <<flagVars, mirroring, counter, alarmVars, stoppers, historyVars,
                 records>>

(* Resume, whose error is dropped: a halt it could not clear stays ...    *)
DisableProtection ==
  /\ Asks /\ admin' = "disabling"
  /\ \/ ClearHalt
     \/ uncleared' = halted /\ UNCHANGED <<halted, overlapped>>
  /\ UNCHANGED <<enabled, mirroring, counter, alarmVars, stoppers, historyVars,
                 records>>

(* ... and SetEnabled(false), which may fail.                             *)
SetDisabled ==
  /\ admin = "disabling" /\ admin' = "none"
  /\ enabled' \in {FALSE, enabled}
  /\ UNCHANGED <<halted, overlapped, uncleared, mirroring, counter, alarmVars, stoppers,
                 historyVars, records, asks>>

HaltProtection ==
  /\ Asks
  /\ enabled /\ admin' = "halting"
  /\ UNCHANGED <<flagVars, mirroring, counter, alarmVars, stoppers, historyVars,
                 records>>

HaltSets ==
  /\ admin = "halting" /\ admin' = "none"
  /\ \/ SetHalted /\ stoppers' = stoppers + 1
     \/ UNCHANGED <<flagVars, stoppers>>
  /\ UNCHANGED <<mirroring, counter, alarmVars, historyVars, records, asks>>

AutoHaltNext ==
  \/ \E j \in Mirrored :
       \/ \E kind \in {"record", "tombstone", "error"} : Count(j, kind)
       \/ StartMirror(j) \/ StopMirror(j) \/ Observe(j)
       \/ AutoHaltChecks(j) \/ AutoHaltSets(j)
  \/ TimePasses \/ StopAllMirrors
  \/ EnableProtection \/ ResumeProtection \/ DisableProtection \/ SetDisabled
  \/ HaltProtection \/ HaltSets

AutoHaltSpec == AutoHaltInit /\ [][AutoHaltNext]_haltVars

-----------------------------------------------------------------------------
(* While one job is sampled, an alarm is about what happened within the   *)
(* minute: at least the burst of errors or the least number of empty      *)
(* records, also when the mirror was restarted between the samples.       *)
SoloHaltIsJustified == ~unfounded

(* A disable clears the halt: a halted flag is left behind a disabled     *)
(* protection, to freeze replication at the next enable, only where the   *)
(* halt was set in the middle of a disable or after it, or where the      *)
(* disable failed to clear it and went on.                                *)
LeftoverHasCause == halted /\ ~enabled => overlapped \/ uncleared
=============================================================================
