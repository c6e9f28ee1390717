---------------------------- MODULE Guards_proofs ----------------------------
(***************************************************************************)
(* Proofs about what watches a job and acts on it by itself: the automatic *)
(* halt (AutoHalt), the adjustments and forced restarts (SelfHealing), and *)
(* the watch on payloads (PayloadWatch).  For any jobs, goroutines, sizes, *)
(* keys, values and bounds.                                                *)
(***************************************************************************)
EXTENDS AutoHalt, SelfHealing, PayloadWatch, FiniteSetTheorems, TLAPS

(* The halt is set and cleared beside the switch; a disable clears it      *)
(* first and turns the switch off after, and what sets it in between is    *)
(* the overlap.  If it cannot clear it, it turns the switch off all the    *)
(* same.                                                                   *)
FlagTypes ==
  /\ enabled \in BOOLEAN /\ halted \in BOOLEAN /\ overlapped \in BOOLEAN
  /\ uncleared \in BOOLEAN
  /\ admin \in {"none", "halting", "disabling"}

HaltedWhileDisabling ==
  halted = TRUE /\ (admin = "disabling" \/ enabled # TRUE) =>
    overlapped = TRUE \/ uncleared = TRUE

HaltInv == FlagTypes /\ HaltedWhileDisabling

LEMMA HaltStarts == AutoHaltInit => HaltInv
<1> SUFFICES ASSUME AutoHaltInit
             PROVE  HaltInv
  OBVIOUS
<1>1. /\ halted \in BOOLEAN /\ overlapped \in BOOLEAN /\ halted # TRUE
      /\ uncleared \in BOOLEAN
  BY Zenon DEF AutoHaltInit
<1> QED
  BY <1>1 DEF AutoHaltInit, HaltInv, FlagTypes, HaltedWhileDisabling

LEMMA SetHaltedKeeps ==
  ASSUME HaltInv, SetHalted, admin' \in {"none", admin}
  PROVE  HaltInv'
<1>1. halted' \in BOOLEAN /\ enabled' = enabled /\ uncleared' = uncleared
  BY Zenon DEF SetHalted
<1>2. overlapped' \in BOOLEAN
  BY DEF SetHalted
<1> QED
  BY <1>1, <1>2 DEF HaltInv, FlagTypes, HaltedWhileDisabling, SetHalted

LEMMA HaltStep == HaltInv /\ [AutoHaltNext]_haltVars => HaltInv'
<1> SUFFICES ASSUME HaltInv, [AutoHaltNext]_haltVars
             PROVE  HaltInv'
  OBVIOUS
<1> USE DEF HaltInv, FlagTypes, HaltedWhileDisabling, flagVars
<1>1. ASSUME NEW j \in Mirrored, NEW kind, Count(j, kind)
      PROVE  HaltInv'
  BY <1>1 DEF Count
<1>2. ASSUME NEW j \in Mirrored,
             StartMirror(j) \/ StopMirror(j) \/ Observe(j) \/ AutoHaltChecks(j)
      PROVE  HaltInv'
  BY <1>2 DEF StartMirror, StopMirror, Observe, AutoHaltChecks
<1>3. ASSUME NEW j \in Mirrored, AutoHaltSets(j)
      PROVE  HaltInv'
  <2>1. SetHalted \/ UNCHANGED <<enabled, halted, overlapped, uncleared>>
    BY <1>3, Zenon DEF AutoHaltSets, flagVars
  <2>2. admin' = admin
    BY <1>3 DEF AutoHaltSets
  <2> QED
    BY <2>1, <2>2, SetHaltedKeeps
<1>4. CASE TimePasses \/ StopAllMirrors
  BY <1>4 DEF TimePasses, StopAllMirrors
<1>5. CASE EnableProtection
  <2>1. enabled' = TRUE /\ enabled' \in BOOLEAN
    BY <1>5, Zenon DEF EnableProtection
  <2> QED
    BY <1>5, <2>1 DEF EnableProtection, Asks
<1>6. CASE ResumeProtection \/ DisableProtection
  <2>1. UNCHANGED enabled /\ admin' \in {admin, "disabling"}
    BY <1>6 DEF ResumeProtection, DisableProtection
  <2>2. CASE ClearHalt
    <3>1. /\ halted' \in BOOLEAN /\ overlapped' \in BOOLEAN
          /\ uncleared' \in BOOLEAN /\ halted' # TRUE
      BY <2>2, Zenon DEF ClearHalt
    <3> QED
      BY <2>1, <3>1
  <2>3. CASE uncleared' = halted /\ UNCHANGED <<halted, overlapped>>
    BY <2>1, <2>3
  <2> QED
    BY <1>6, <2>2, <2>3 DEF ResumeProtection, DisableProtection
<1>7. CASE SetDisabled
  <2>1. enabled' \in BOOLEAN /\ admin' = "none" /\ admin = "disabling"
    BY <1>7, Zenon DEF SetDisabled
  <2> QED
    BY <1>7, <2>1 DEF SetDisabled
<1>8. CASE HaltProtection
  BY <1>8 DEF HaltProtection, Asks
<1>9. CASE HaltSets
  <2>1. SetHalted \/ UNCHANGED <<enabled, halted, overlapped, uncleared>>
    BY <1>9, Zenon DEF HaltSets, flagVars
  <2>2. admin' = "none"
    BY <1>9 DEF HaltSets
  <2> QED
    BY <2>1, <2>2, SetHaltedKeeps
<1>10. CASE UNCHANGED haltVars
  BY <1>10 DEF haltVars
<1> QED
  BY <1>1, <1>2, <1>3, <1>4, <1>5, <1>6, <1>7, <1>8, <1>9, <1>10
  DEF AutoHaltNext

(* A halted flag is left behind a disabled protection only where the halt  *)
(* was set in the middle of a disable or after it, as nothing keeps the    *)
(* statements of Disable and Halt apart (protection.go), or where the      *)
(* disable failed to clear it (handlers.go:1707).                          *)
THEOREM LeftoversHaveCauses == AutoHaltSpec => []LeftoverHasCause
<1>1. HaltInv => LeftoverHasCause
  BY DEF HaltInv, FlagTypes, HaltedWhileDisabling, LeftoverHasCause
<1> QED
  BY HaltStarts, HaltStep, <1>1, PTL DEF AutoHaltSpec

-----------------------------------------------------------------------------
(* The samples of the window, each with what happened before the tick it   *)
(* was taken in.                                                           *)
Ticks == 0 .. Window - 1

TakenSample == [job : Mirrored, age : 0 .. Window, s : Counters]

SampleTypes ==
  /\ counter \in [Mirrored -> Counters]
  /\ happened \in Totalled /\ past \in [Ticks -> Totalled]
  /\ taken \in Nat
  /\ \A n \in DOMAIN samples : n \in 1 .. taken /\ samples[n] \in TakenSample

(* Events are counted and never taken back.                                *)
AtMost(x, y) == x.tombstones <= y.tombstones /\ x.errors <= y.errors

PastGrows ==
  /\ \A a \in Ticks : AtMost(past[a], happened)
  /\ \A a, b \in Ticks : a <= b => AtMost(past[b], past[a])

(* What a job has counted since a sample happened after it, whatever       *)
(* restarts of its mirror there were.                                      *)
GainHappened(t) ==
  t.age < Window =>
    /\ Gain(t.s.tombstones, counter[t.job].tombstones)
         + past[t.age].tombstones <= happened.tombstones
    /\ Gain(t.s.errors, counter[t.job].errors)
         + past[t.age].errors <= happened.errors

WindowInv ==
  /\ SampleTypes /\ PastGrows
  /\ \A n \in DOMAIN samples : GainHappened(samples[n])
  /\ unfounded # TRUE

(* One more counted is at most one more gained; nothing counted, at a      *)
(* start, is nothing gained.                                               *)
LEMMA GainGrows ==
  ASSUME NEW first \in Nat, NEW last \in Nat, NEW d \in {0, 1}
  PROVE  /\ Gain(first, last) \in Nat
         /\ Gain(first, last + d) <= Gain(first, last) + d
         /\ Gain(first, 0) = 0 /\ Gain(first, first) = 0
BY DEF Gain

LEMMA WindowStarts == AutoHaltInit => WindowInv
<1> SUFFICES ASSUME AutoHaltInit PROVE WindowInv
  OBVIOUS
<1>1. unfounded # TRUE
  BY Zenon DEF AutoHaltInit
<1>2. DOMAIN samples = {}
  BY DEF AutoHaltInit
<1>3. /\ Zero \in Counters /\ None2 \in Totalled
      /\ None2.tombstones = 0 /\ None2.errors = 0
  BY DEF Zero, Counters, None2, Totalled
<1>4. /\ counter = [j \in Mirrored |-> Zero] /\ happened = None2 /\ taken = 0
      /\ past = [a \in Ticks |-> None2]
  BY DEF AutoHaltInit, Ticks
<1>5. SampleTypes
  BY <1>2, <1>3, <1>4 DEF SampleTypes
<1>6. PastGrows
  BY <1>3, <1>4 DEF PastGrows, AtMost
<1> QED
  BY <1>1, <1>2, <1>5, <1>6 DEF WindowInv

(* A step that counts nothing and takes no sample.                         *)
LEMMA WindowStays ==
  ASSUME WindowInv, UNCHANGED <<counter, samples, unfounded, taken, historyVars>>
  PROVE  WindowInv'
<1>1. UNCHANGED <<happened, past>>
  BY DEF historyVars
<1>2. \A t : GainHappened(t)' <=> GainHappened(t)
  BY <1>1 DEF GainHappened
<1> QED
  BY <1>1, <1>2 DEF WindowInv, SampleTypes, PastGrows

LEMMA RaisedCounters ==
  ASSUME NEW c \in Counters, NEW r \in Nat, NEW t \in Nat, NEW e \in Nat
  PROVE  LET d == [c EXCEPT !.records = @ + r, !.tombstones = @ + t,
                            !.errors = @ + e]
         IN  /\ d \in Counters /\ d.tombstones = c.tombstones + t
             /\ d.errors = c.errors + e
<1>1. /\ c.records + r \in Nat /\ c.tombstones + t \in Nat
      /\ c.errors + e \in Nat
  BY DEF Counters
<1> DEFINE x == c.records + r
           y == c.tombstones + t
           z == c.errors + e
           d == [c EXCEPT !.records = x, !.tombstones = y, !.errors = z]
<1>2. x \in Nat /\ y \in Nat /\ z \in Nat
  BY <1>1
<1> HIDE DEF x, y, z
<1>3. d \in Counters /\ d.tombstones = y /\ d.errors = z
  BY <1>2 DEF Counters
<1> QED
  BY <1>3 DEF x, y, z

LEMMA RaisedTotals ==
  ASSUME NEW c \in Totalled, NEW t \in Nat, NEW e \in Nat
  PROVE  LET d == [c EXCEPT !.tombstones = @ + t, !.errors = @ + e]
         IN  /\ d \in Totalled /\ d.tombstones = c.tombstones + t
             /\ d.errors = c.errors + e
<1>1. c.tombstones + t \in Nat /\ c.errors + e \in Nat
  BY DEF Totalled
<1> DEFINE y == c.tombstones + t
           z == c.errors + e
           d == [c EXCEPT !.tombstones = y, !.errors = z]
<1>2. y \in Nat /\ z \in Nat
  BY <1>1
<1> HIDE DEF y, z
<1>3. d \in Totalled /\ d.tombstones = y /\ d.errors = z
  BY <1>2 DEF Totalled
<1> QED
  BY <1>3 DEF y, z

(* A mirror counts: its gain and what happened grow together.              *)
LEMMA EventCounted ==
  ASSUME WindowInv, NEW j \in Mirrored,
         NEW kind \in {"record", "tombstone", "error"}, Count(j, kind)
  PROVE  WindowInv'
<1> DEFINE r == IF kind = "error" THEN 0 ELSE 1
           t == IF kind = "tombstone" THEN 1 ELSE 0
           e == IF kind = "error" THEN 1 ELSE 0
<1>1. r \in {0, 1} /\ t \in {0, 1} /\ e \in {0, 1}
  OBVIOUS
<1>2. /\ counter' = [counter EXCEPT ![j].records = @ + r,
                                    ![j].tombstones = @ + t,
                                    ![j].errors = @ + e]
      /\ happened' = [happened EXCEPT !.tombstones = @ + t, !.errors = @ + e]
      /\ UNCHANGED <<samples, unfounded, taken, past>>
  BY DEF Count, alarmVars
<1> HIDE DEF r, t, e
<1>3. /\ counter \in [Mirrored -> Counters] /\ happened \in Totalled
      /\ past \in [Ticks -> Totalled]
  BY DEF WindowInv, SampleTypes
<1>4. /\ counter' \in [Mirrored -> Counters]
      /\ counter'[j].tombstones = counter[j].tombstones + t
      /\ counter'[j].errors = counter[j].errors + e
      /\ \A i \in Mirrored \ {j} : counter'[i] = counter[i]
  <2> DEFINE c == counter[j]
             d == [c EXCEPT !.records = @ + r, !.tombstones = @ + t,
                            !.errors = @ + e]
  <2>1. counter' = [counter EXCEPT ![j] = d]
    BY <1>2, <1>3
  <2>2. c \in Counters /\ r \in Nat /\ t \in Nat /\ e \in Nat
    BY <1>1, <1>3
  <2>3. /\ d \in Counters /\ d.tombstones = c.tombstones + t
        /\ d.errors = c.errors + e
    <3> HIDE DEF c
    <3> QED
      BY <2>2, RaisedCounters
  <2> HIDE DEF d
  <2> QED
    BY <1>3, <2>1, <2>3
<1>5. /\ happened' \in Totalled
      /\ happened'.tombstones = happened.tombstones + t
      /\ happened'.errors = happened.errors + e
  <2>1. t \in Nat /\ e \in Nat
    BY <1>1
  <2> QED
    BY <1>2, <1>3, <2>1, RaisedTotals
<1>6. SampleTypes'
  BY <1>2, <1>4, <1>5 DEF WindowInv, SampleTypes
<1>7. PastGrows'
  <2>1. \A a \in Ticks : AtMost(past[a], happened)'
    BY <1>1, <1>2, <1>3, <1>5 DEF WindowInv, PastGrows, AtMost, Totalled
  <2>2. \A a, b \in Ticks : a <= b => AtMost(past[b], past[a])'
    BY <1>2 DEF WindowInv, PastGrows, AtMost
  <2> QED
    BY <2>1, <2>2 DEF PastGrows
<1>8. ASSUME NEW n \in DOMAIN samples PROVE GainHappened(samples[n])'
  <2> DEFINE x == samples[n]
  <2>1. x \in TakenSample /\ GainHappened(x)
    BY DEF WindowInv, SampleTypes
  <2> SUFFICES ASSUME x.age < Window
               PROVE  /\ Gain(x.s.tombstones, counter'[x.job].tombstones)
                           + past[x.age].tombstones <= happened'.tombstones
                      /\ Gain(x.s.errors, counter'[x.job].errors)
                           + past[x.age].errors <= happened'.errors
    BY <1>2 DEF GainHappened
  <2>2. /\ x.job \in Mirrored /\ x.s.tombstones \in Nat /\ x.s.errors \in Nat
        /\ x.age \in Ticks
    BY <2>1, AutoHaltAssumption DEF TakenSample, Counters, Ticks
  <2>3. /\ past[x.age].tombstones \in Nat /\ past[x.age].errors \in Nat
        /\ happened.tombstones \in Nat /\ happened.errors \in Nat
        /\ counter[x.job].tombstones \in Nat /\ counter[x.job].errors \in Nat
    BY <1>3, <2>2 DEF Totalled, Counters
  <2>4. /\ Gain(x.s.tombstones, counter[x.job].tombstones)
             + past[x.age].tombstones <= happened.tombstones
        /\ Gain(x.s.errors, counter[x.job].errors)
             + past[x.age].errors <= happened.errors
    BY <2>1 DEF GainHappened
  <2>5. /\ Gain(x.s.tombstones, counter[x.job].tombstones) \in Nat
        /\ Gain(x.s.errors, counter[x.job].errors) \in Nat
        /\ Gain(x.s.tombstones, counter[x.job].tombstones + t)
             <= Gain(x.s.tombstones, counter[x.job].tombstones) + t
        /\ Gain(x.s.errors, counter[x.job].errors + e)
             <= Gain(x.s.errors, counter[x.job].errors) + e
    BY <1>1, <2>2, <2>3, GainGrows
  <2>6. CASE x.job = j
    <3>1. /\ Gain(x.s.tombstones, counter[x.job].tombstones + t) \in Nat
          /\ Gain(x.s.errors, counter[x.job].errors + e) \in Nat
      BY <1>1, <2>2, <2>3 DEF Gain
    <3> QED
      BY <1>1, <1>4, <1>5, <2>3, <2>4, <2>5, <2>6, <3>1
  <2>7. CASE x.job # j
    <3>1. counter'[x.job] = counter[x.job]
      BY <1>4, <2>2, <2>7
    <3> QED
      BY <1>1, <1>5, <2>3, <2>4, <2>5, <3>1
  <2> QED
    BY <2>6, <2>7
<1> QED
  BY <1>2, <1>6, <1>7, <1>8 DEF WindowInv

(* Mirrors stop and start anew from zero.                                  *)
LEMMA RestartedStep ==
  ASSUME WindowInv, counter' \in [Mirrored -> Counters],
         \A j \in Mirrored : counter'[j] \in {counter[j], Zero},
         UNCHANGED <<samples, unfounded, taken, historyVars>>
  PROVE  WindowInv'
<1>1. UNCHANGED <<happened, past, samples, taken, unfounded>>
  BY DEF historyVars
<1>2. SampleTypes' /\ PastGrows'
  BY <1>1 DEF WindowInv, SampleTypes, PastGrows
<1>3. ASSUME NEW n \in DOMAIN samples PROVE GainHappened(samples[n])'
  <2> DEFINE x == samples[n]
  <2>1. x \in TakenSample /\ GainHappened(x)
    BY DEF WindowInv, SampleTypes
  <2> SUFFICES ASSUME x.age < Window
               PROVE  /\ Gain(x.s.tombstones, counter'[x.job].tombstones)
                           + past[x.age].tombstones <= happened.tombstones
                      /\ Gain(x.s.errors, counter'[x.job].errors)
                           + past[x.age].errors <= happened.errors
    BY <1>1 DEF GainHappened
  <2>2. /\ x.job \in Mirrored /\ x.s.tombstones \in Nat /\ x.s.errors \in Nat
        /\ x.age \in Ticks
    BY <2>1, AutoHaltAssumption DEF TakenSample, Counters, Ticks
  <2>3. CASE counter'[x.job] = counter[x.job]
    BY <2>1, <2>3 DEF GainHappened
  <2>4. CASE counter'[x.job] = Zero
    <3>1. /\ Gain(x.s.tombstones, counter'[x.job].tombstones) = 0
          /\ Gain(x.s.errors, counter'[x.job].errors) = 0
      <4>1. /\ counter'[x.job].tombstones = 0 /\ counter'[x.job].errors = 0
        BY <2>4 DEF Zero
      <4> QED
        BY <2>2, <4>1 DEF Gain
    <3>2. AtMost(past[x.age], happened) /\ past[x.age] \in Totalled
      BY <2>2 DEF WindowInv, PastGrows, SampleTypes
    <3> QED
      BY <3>1, <3>2 DEF AtMost, Totalled
  <2> QED
    BY <2>2, <2>3, <2>4
<1> QED
  BY <1>1, <1>2, <1>3 DEF WindowInv

(* The clock: samples and what happened before them grow older together.   *)
LEMMA TimeStep ==
  ASSUME WindowInv, TimePasses
  PROVE  WindowInv'
<1>1. /\ samples' = [n \in DOMAIN samples |-> Older(samples[n])]
      /\ past' = [a \in Ticks |-> IF a = 0 THEN happened ELSE past[a - 1]]
      /\ UNCHANGED <<happened, counter, unfounded, taken>>
  BY DEF TimePasses, Ticks
<1>2. /\ happened \in Totalled /\ past \in [Ticks -> Totalled]
  BY DEF WindowInv, SampleTypes
<1>3. \A a \in Ticks : a # 0 => a - 1 \in Ticks
  BY AutoHaltAssumption DEF Ticks
<1>4. past' \in [Ticks -> Totalled]
  BY <1>1, <1>2, <1>3
<1>5. ASSUME NEW n \in DOMAIN samples
      PROVE  /\ n \in 1 .. taken /\ samples[n] \in TakenSample
             /\ Older(samples[n]) \in TakenSample
             /\ Older(samples[n]).job = samples[n].job
             /\ Older(samples[n]).s = samples[n].s
             /\ Older(samples[n]).age =
                  IF samples[n].age < Window THEN samples[n].age + 1
                  ELSE samples[n].age
  <2>1. n \in 1 .. taken /\ samples[n] \in TakenSample
    BY DEF WindowInv, SampleTypes
  <2> QED
    BY <2>1, AutoHaltAssumption DEF Older, TakenSample
<1>6. SampleTypes'
  <2>1. DOMAIN samples' = DOMAIN samples
    BY <1>1
  <2>2. \A n \in DOMAIN samples' : n \in 1 .. taken /\ samples'[n] \in TakenSample
    BY <1>1, <1>5
  <2> QED
    BY <1>1, <1>2, <1>4, <2>2 DEF WindowInv, SampleTypes
<1>7. PastGrows'
  <2>1. ASSUME NEW a \in Ticks PROVE AtMost(past'[a], happened)
    <3>1. AtMost(happened, happened)
      BY <1>2 DEF AtMost, Totalled
    <3> QED
      BY <1>1, <1>3, <3>1 DEF WindowInv, PastGrows
  <2>2. ASSUME NEW a \in Ticks, NEW b \in Ticks, a <= b
        PROVE  AtMost(past'[b], past'[a])
    <3>1. CASE a = 0
      BY <1>1, <2>1, <3>1
    <3>2. CASE a # 0
      <4>1. b # 0 /\ a - 1 <= b - 1
        BY <2>2, <3>2 DEF Ticks
      <4> QED
        BY <1>1, <1>3, <3>2, <4>1 DEF WindowInv, PastGrows
    <3> QED
      BY <3>1, <3>2
  <2> QED
    BY <1>1, <2>1, <2>2 DEF PastGrows
<1>8. ASSUME NEW n \in DOMAIN samples PROVE GainHappened(samples[n])'
  <2> DEFINE x == samples[n]
             y == samples'[n]
  <2>1. x \in TakenSample /\ GainHappened(x)
    BY DEF WindowInv, SampleTypes
  <2>2. /\ y.job = x.job /\ y.s = x.s
        /\ y.age = IF x.age < Window THEN x.age + 1 ELSE x.age
    BY <1>1, <1>5
  <2> HIDE DEF y
  <2>3. ASSUME y.age < Window
        PROVE  x.age < Window /\ past'[y.age] = past[x.age]
    <3>1. x.age \in Nat
      BY <2>1 DEF TakenSample
    <3>2. x.age < Window /\ y.age = x.age + 1
      BY <2>2, <2>3, <3>1
    <3>3. y.age \in Ticks /\ y.age # 0 /\ y.age - 1 = x.age
      BY <2>3, <3>1, <3>2, AutoHaltAssumption DEF Ticks
    <3> QED
      BY <1>1, <3>2, <3>3
  <2>4. y.age < Window =>
          /\ Gain(y.s.tombstones, counter[y.job].tombstones)
               + past'[y.age].tombstones <= happened.tombstones
          /\ Gain(y.s.errors, counter[y.job].errors)
               + past'[y.age].errors <= happened.errors
    BY <2>1, <2>2, <2>3 DEF GainHappened
  <2> QED
    BY <1>1, <2>4 DEF y, GainHappened
<1> QED
  BY <1>1, <1>6, <1>7, <1>8 DEF WindowInv

(* A sample is taken.  If all are of one job, the first was taken within   *)
(* the minute, and what its counters gained since happened since.          *)
LEMMA ObserveStep ==
  ASSUME WindowInv, NEW j \in Mirrored, Observe(j)
  PROVE  WindowInv'
<1> DEFINE last == taken + 1
           new == [job |-> j, age |-> 0, s |-> counter[j]]
<1>1. /\ samples' = WithSample(j) /\ taken' = last
      /\ UNCHANGED <<counter, happened, past>>
  BY DEF Observe, historyVars
<1>2. /\ counter \in [Mirrored -> Counters] /\ taken \in Nat
      /\ happened \in Totalled /\ past \in [Ticks -> Totalled]
  BY DEF WindowInv, SampleTypes
<1>3. 0 \in Ticks /\ Window - 1 \in Ticks /\ \A a \in Ticks : a <= Window - 1
  BY AutoHaltAssumption DEF Ticks
<1>4. /\ samples'[last] = new
      /\ \A n \in DOMAIN samples' :
           \/ n = last
           \/ /\ n \in DOMAIN samples /\ samples'[n] = samples[n]
              /\ samples[n].age < Window /\ n # last
  BY <1>1, <1>2 DEF WithSample, Kept, WindowInv, SampleTypes
<1>5. new \in TakenSample
  BY <1>2, AutoHaltAssumption DEF TakenSample
<1>6. SampleTypes'
  <2>1. \A n \in DOMAIN samples' : n \in 1 .. taken' /\ samples'[n] \in TakenSample
    <3>1. \A n \in DOMAIN samples : n \in 1 .. taken /\ samples[n] \in TakenSample
      BY DEF WindowInv, SampleTypes
    <3>2. last \in 1 .. taken' /\ \A n \in 1 .. taken : n \in 1 .. taken'
      BY <1>1, <1>2
    <3> QED
      BY <1>4, <1>5, <3>1, <3>2
  <2> QED
    BY <1>1, <1>2, <2>1 DEF SampleTypes
<1>7. PastGrows'
  BY <1>1 DEF WindowInv, PastGrows
<1>8. GainHappened(new)
  <2>1. /\ new.s = counter[j] /\ new.age = 0 /\ new.job = j
    OBVIOUS
  <2> HIDE DEF new
  <2>2. /\ counter[j].tombstones \in Nat /\ counter[j].errors \in Nat
    BY <1>2 DEF Counters
  <2>3. /\ Gain(counter[j].tombstones, counter[j].tombstones) = 0
        /\ Gain(counter[j].errors, counter[j].errors) = 0
    BY <2>2, GainGrows
  <2>4. AtMost(past[0], happened) /\ past[0] \in Totalled
    BY <1>2, <1>3 DEF WindowInv, PastGrows
  <2> QED
    BY <2>1, <2>3, <2>4 DEF GainHappened, AtMost, Totalled
<1> HIDE DEF new
<1>9. \A n \in DOMAIN samples' : GainHappened(samples'[n])
  BY <1>4, <1>8 DEF WindowInv
<1>10. (\A n \in DOMAIN samples : GainHappened(samples[n]))'
  <2>1. \A t : GainHappened(t)' <=> GainHappened(t)
    BY <1>1 DEF GainHappened
  <2> QED
    BY <1>9, <2>1
<1>11. unfounded' # TRUE
  <2>1. PICK first \in DOMAIN samples' :
          LET a == samples'[first].s
              b == counter[j]
              tombs  == first # taken + 1 /\ TombstoneStorm(a, b)
              errors == first # taken + 1 /\ ErrorStorm(a, b)
          IN  unfounded' = (unfounded \/
                /\ Solo(samples')
                /\ \/ tombs /\ Happened("tombstones") < TombstoneMin
                   \/ ~tombs /\ errors /\ Happened("errors") < Burst)
    BY DEF Observe
  <2> DEFINE a == samples'[first].s
             b == counter[j]
             tombs  == first # taken + 1 /\ TombstoneStorm(a, b)
             errors == first # taken + 1 /\ ErrorStorm(a, b)
             wrong  == /\ Solo(samples')
                       /\ \/ tombs /\ Happened("tombstones") < TombstoneMin
                          \/ ~tombs /\ errors /\ Happened("errors") < Burst
  <2>2. unfounded' = (unfounded \/ wrong)
    BY <2>1
  <2>3. ~wrong
    <3> SUFFICES ASSUME Solo(samples'), first # last
                 PROVE  /\ TombstoneStorm(a, b) =>
                             ~(Happened("tombstones") < TombstoneMin)
                        /\ ErrorStorm(a, b) => ~(Happened("errors") < Burst)
      OBVIOUS
    <3>1. /\ first \in DOMAIN samples /\ samples'[first] = samples[first]
          /\ samples[first].age < Window
      BY <1>4
    <3>2. samples[first] \in TakenSample /\ GainHappened(samples[first])
      BY <3>1 DEF WindowInv, SampleTypes
    <3>3. samples[first].age \in Ticks
      BY <3>1, <3>2, AutoHaltAssumption DEF TakenSample, Ticks
    <3>4. samples'[last].job = j /\ last \in DOMAIN samples'
      BY <1>1, <1>4 DEF new, WithSample
    <3>5. samples[first].job = j
      BY <3>1, <3>4 DEF Solo
    <3>6. AtMost(past[Window - 1], past[samples[first].age])
      BY <1>3, <3>3 DEF WindowInv, PastGrows
    <3> DEFINE age == samples[first].age
    <3>7. /\ Gain(a.tombstones, b.tombstones)
               + past[age].tombstones <= happened.tombstones
          /\ Gain(a.errors, b.errors) + past[age].errors <= happened.errors
      BY <3>1, <3>2, <3>5 DEF GainHappened
    <3>8. /\ past[age] \in Totalled /\ past[Window - 1] \in Totalled
          /\ a \in Counters /\ b \in Counters
      BY <1>2, <1>3, <3>1, <3>2, <3>3 DEF TakenSample
    <3>9. /\ Gain(a.tombstones, b.tombstones) \in Nat
          /\ Gain(a.errors, b.errors) \in Nat
      BY <3>8, GainGrows DEF Counters
    <3>10. /\ Gain(a.tombstones, b.tombstones)
                <= happened.tombstones - past[Window - 1].tombstones
           /\ Gain(a.errors, b.errors)
                <= happened.errors - past[Window - 1].errors
      BY <1>2, <3>6, <3>7, <3>8, <3>9 DEF AtMost, Totalled
    <3>11. /\ Happened("tombstones")
                = happened.tombstones - past[Window - 1].tombstones
           /\ Happened("errors") = happened.errors - past[Window - 1].errors
      BY <1>2, <3>8 DEF Happened, Totalled
    <3>12. /\ happened.tombstones - past[Window - 1].tombstones \in Int
           /\ happened.errors - past[Window - 1].errors \in Int
      BY <1>2, <3>8 DEF Totalled
    <3>13. /\ TombstoneStorm(a, b) =>
                Gain(a.tombstones, b.tombstones) >= TombstoneMin
           /\ ErrorStorm(a, b) => Gain(a.errors, b.errors) >= Burst
      BY DEF TombstoneStorm, ErrorStorm
    <3> HIDE DEF a, b, age
    <3> QED
      BY <3>9, <3>10, <3>11, <3>12, <3>13, AutoHaltAssumption
  <2> HIDE DEF wrong
  <2>4. unfounded # TRUE
    BY DEF WindowInv
  <2> QED
    BY <2>2, <2>3, <2>4
<1> QED
  BY <1>6, <1>7, <1>10, <1>11 DEF WindowInv

LEMMA WindowStep == WindowInv /\ [AutoHaltNext]_haltVars => WindowInv'
<1> SUFFICES ASSUME WindowInv, [AutoHaltNext]_haltVars
             PROVE  WindowInv'
  OBVIOUS
<1>1. ASSUME NEW j \in Mirrored, NEW kind \in {"record", "tombstone", "error"},
             Count(j, kind)
      PROVE  WindowInv'
  BY <1>1, EventCounted
<1>2. ASSUME NEW j \in Mirrored, Observe(j) PROVE WindowInv'
  BY <1>2, ObserveStep
<1>3. Zero \in Counters
  BY DEF Zero, Counters
<1>4. counter \in [Mirrored -> Counters]
  BY DEF WindowInv, SampleTypes
<1>5. ASSUME NEW j \in Mirrored, StopMirror(j) PROVE WindowInv'
  <2>1. /\ counter' = [counter EXCEPT ![j] = Zero]
        /\ UNCHANGED <<samples, unfounded, taken, historyVars>>
    BY <1>5 DEF StopMirror, alarmVars
  <2> QED
    BY <1>3, <1>4, <2>1, RestartedStep
<1>6. CASE StopAllMirrors
  <2>1. /\ counter' = [j \in Mirrored |-> Zero]
        /\ UNCHANGED <<samples, unfounded, taken, historyVars>>
    BY <1>6 DEF StopAllMirrors, alarmVars
  <2> QED
    BY <1>3, <1>4, <2>1, RestartedStep
<1>7. CASE TimePasses
  BY <1>7, TimeStep
<1>8. ASSUME NEW j \in Mirrored,
             StartMirror(j) \/ AutoHaltChecks(j) \/ AutoHaltSets(j)
      PROVE  WindowInv'
  BY <1>8, WindowStays DEF StartMirror, AutoHaltChecks, AutoHaltSets, alarmVars
<1>9. CASE \/ EnableProtection \/ ResumeProtection \/ DisableProtection
           \/ SetDisabled \/ HaltProtection \/ HaltSets \/ UNCHANGED haltVars
  BY <1>9, WindowStays
     DEF EnableProtection, ResumeProtection, DisableProtection, SetDisabled,
         HaltProtection, HaltSets, haltVars, alarmVars
<1> QED
  BY <1>1, <1>2, <1>5, <1>6, <1>7, <1>8, <1>9 DEF AutoHaltNext

(* While one job is sampled, an automatic halt is raised only for what     *)
(* happened within the minute: as many errors or empty records as the      *)
(* settings ask for, even if the mirror was restarted between the samples  *)
(* and its counters began anew (Controller.Observe).                       *)
THEOREM SoloHaltsAreJustified == AutoHaltSpec => []SoloHaltIsJustified
<1>1. WindowInv => SoloHaltIsJustified
  BY DEF WindowInv, SoloHaltIsJustified
<1> QED
  BY <1>1, WindowStarts, WindowStep, PTL DEF AutoHaltSpec

-----------------------------------------------------------------------------
(* An adjustment of the batch size, from its decision to the restart.      *)
ThrottleType ==
  [stage : {"idle", "called", "decided", "approved", "restart"}, from : Int,
   batch : Int, parallel : Int, sure : BOOLEAN]

HealingTypes ==
  /\ metric \in Metrics /\ rowStatus \in {"active", "paused"}
  /\ rowBatch \in Int /\ rowParallel \in Int /\ runsWith \in Int
  /\ locked \in Throttle \cup {Unlocked}
  /\ throttle \in [Throttle -> ThrottleType]
  /\ stopping \in BOOLEAN /\ remedy \in {"idle", "called", "dropped", "reset"}
  /\ stopped \in {"no", "yes", "overtaken"} /\ atLimit \in BOOLEAN

(* Who restarts the job has the lock since it found the job running.       *)
RestartHasLock ==
  \A t \in Throttle : throttle[t].stage = "restart" => locked = t

(* A stop takes the mirror under the lock and writes the row without it;   *)
(* nobody adjusts the job in between or after, because it runs no more.    *)
StopHolds ==
  /\ stopping = TRUE /\ stopped = "no" => runsWith = 0 /\ locked = Unlocked
  /\ stopped = "yes" => /\ runsWith = 0 /\ rowStatus = "paused"
                        /\ stopping # TRUE /\ locked = Unlocked

(* What was decided within the limits stays within them.                   *)
Decided == {"decided", "approved", "restart"}
Limits  == SmallestBatch .. LargestBatch
Between == SmallestBatch + 1 .. LargestBatch - 1

DecidedWithinLimits ==
  \A t \in Throttle : throttle[t].stage \in Decided =>
    /\ throttle[t].from \in Between => throttle[t].batch \in Limits
    /\ throttle[t].stage = "restart" /\ atLimit # TRUE =>
         throttle[t].from \in Between

RowWithinLimits == atLimit # TRUE => rowBatch \in Limits

HealingInv ==
  /\ HealingTypes /\ RestartHasLock /\ StopHolds /\ DecidedWithinLimits
  /\ RowWithinLimits

LEMMA LimitsAre ==
  /\ SmallestBatch = 100 /\ LargestBatch = 10000
  /\ \A b : b \in Limits <=>
              b \in Int /\ SmallestBatch <= b /\ b <= LargestBatch
  /\ \A b : b \in Between <=>
              b \in Int /\ SmallestBatch < b /\ b < LargestBatch
<1>1. SmallestBatch = 100 /\ LargestBatch = 10000
  BY DEF SmallestBatch, LargestBatch
<1>2. SmallestBatch \in Int /\ LargestBatch \in Int
  BY <1>1
<1>3. \A b : b \in Limits <=>
              b \in Int /\ SmallestBatch <= b /\ b <= LargestBatch
  BY <1>2 DEF Limits
<1>4. \A b : b \in Between <=>
              b \in Int /\ SmallestBatch < b /\ b < LargestBatch
  BY <1>2 DEF Between
<1> QED
  BY <1>1, <1>3, <1>4

(* calculateOptimalBatchSize keeps to its limits except at them.           *)
LEMMA OptimalWithinLimits ==
  ASSUME NEW b \in Int, NEW way \in {"lagging", "failing", "slow"}
  PROVE  /\ OptimalBatchSize(b, way) \in Int
         /\ b \in Between => OptimalBatchSize(b, way) \in Limits
<1>1. \A x \in Int : /\ x \div 2 \in Int /\ x \div 10 \in Int
                     /\ 2 * (x \div 2) <= x /\ x < 2 * (x \div 2) + 2
                     /\ 10 * (x \div 10) <= x /\ x < 10 * (x \div 10) + 10
  BY SMT
<1>2. CASE way = "lagging"
  <2> DEFINE x == (b * 3) \div 2
  <2>1. OptimalBatchSize(b, way) =
          IF Least(LargestBatch, x) <= b THEN b + 500 ELSE Least(LargestBatch, x)
    BY <1>2 DEF OptimalBatchSize
  <2>2. x \in Int /\ 2 * x <= b * 3 /\ b * 3 < 2 * x + 2
    BY <1>1
  <2> HIDE DEF x
  <2> QED
    BY <2>1, <2>2, LimitsAre DEF Least
<1>3. CASE way = "failing"
  <2> DEFINE x == (b * 7) \div 10
  <2>1. OptimalBatchSize(b, way) =
          IF Greatest(SmallestBatch, x) >= b THEN b - 200 ELSE Greatest(SmallestBatch, x)
    BY <1>3 DEF OptimalBatchSize
  <2>2. x \in Int /\ 10 * x <= b * 7 /\ b * 7 < 10 * x + 10
    BY <1>1
  <2> HIDE DEF x
  <2> QED
    BY <2>1, <2>2, LimitsAre DEF Greatest
<1>4. CASE way = "slow"
  <2>1. OptimalBatchSize(b, way) = Greatest(SmallestBatch, b \div 2)
    BY <1>4 DEF OptimalBatchSize
  <2> QED
    BY <1>1, <2>1, LimitsAre DEF Greatest
<1> QED
  BY <1>2, <1>3, <1>4

LEMMA WaitingType ==
  /\ Waiting \in ThrottleType /\ Waiting.stage = "idle"
  /\ [Waiting EXCEPT !.stage = "called"] \in ThrottleType
  /\ [Waiting EXCEPT !.stage = "called"].stage = "called"
<1>1. Waiting \in ThrottleType /\ Waiting.stage = "idle"
  BY DEF Waiting, ThrottleType
<1> QED
  BY <1>1 DEF ThrottleType

(* What a user sets is within the limits, or noticed.                      *)
LEMMA SizesAreNoticed ==
  ASSUME NEW b \in Sizes
  PROVE  b \in Int /\ (WithinLimits(b) => b \in Limits)
  BY SelfHealingAssumption DEF Limits, WithinLimits

LEMMA HealingStarts == SelfHealingInit => HealingInv
<1> SUFFICES ASSUME SelfHealingInit
             PROVE  HealingInv
  OBVIOUS
<1>1. /\ stopping \in BOOLEAN /\ atLimit \in BOOLEAN /\ stopping # TRUE
      /\ atLimit # TRUE => WithinLimits(rowBatch)
  BY Zenon DEF SelfHealingInit
<1>2. /\ atLimit # TRUE => rowBatch \in Limits
      /\ rowBatch \in Int /\ runsWith = rowBatch /\ rowParallel = 4
  BY <1>1, SizesAreNoticed DEF SelfHealingInit
<1>3. /\ throttle \in [Throttle -> ThrottleType]
      /\ \A t \in Throttle : throttle[t].stage = "idle"
  BY WaitingType DEF SelfHealingInit
<1>4. HealingTypes
  BY <1>1, <1>2, <1>3 DEF SelfHealingInit, HealingTypes, Metrics
<1>5. RestartHasLock /\ DecidedWithinLimits
  BY <1>3 DEF RestartHasLock, DecidedWithinLimits, Decided
<1>6. StopHolds /\ RowWithinLimits
  BY <1>1, <1>2 DEF SelfHealingInit, StopHolds, RowWithinLimits
<1> QED
  BY <1>4, <1>5, <1>6 DEF HealingInv

(* A goroutine's step.                                                     *)
LEMMA ThrottleTurns ==
  ASSUME HealingTypes, NEW t \in Throttle, NEW r \in ThrottleType, Turns(t, r)
  PROVE  /\ throttle' \in [Throttle -> ThrottleType] /\ throttle'[t] = r
         /\ \A u \in Throttle : u # t => throttle'[u] = throttle[u]
  BY DEF HealingTypes, Turns

(* A step of a goroutine that leaves the job as it is.                     *)
LEMMA QuietTurn ==
  ASSUME HealingInv, NEW t \in Throttle, NEW r \in ThrottleType, Turns(t, r),
         UNCHANGED <<metric, rowStatus, rowBatch, rowParallel, runsWith,
                     stopping, stopped, atLimit>>,
         locked' = locked \/ (locked' = Unlocked /\ locked = t),
         remedy' \in {"idle", "called", "dropped", "reset"},
         r.stage # "restart",
         r.stage \in Decided /\ r.from \in Between => r.batch \in Limits
  PROVE  HealingInv'
<1>1. /\ throttle' \in [Throttle -> ThrottleType] /\ throttle'[t] = r
      /\ \A u \in Throttle : u # t => throttle'[u] = throttle[u]
  BY ThrottleTurns DEF HealingInv
<1>2. HealingTypes'
  BY <1>1 DEF HealingInv, HealingTypes
<1>3. RestartHasLock'
  BY <1>1, SelfHealingAssumption DEF HealingInv, RestartHasLock
<1>4. StopHolds'
  BY DEF HealingInv, StopHolds
<1>5. DecidedWithinLimits'
  BY <1>1 DEF HealingInv, DecidedWithinLimits
<1>6. RowWithinLimits'
  BY DEF HealingInv, RowWithinLimits
<1> QED
  BY <1>2, <1>3, <1>4, <1>5, <1>6 DEF HealingInv

(* A step that leaves the goroutines as they are.                          *)
LEMMA QuietStep ==
  ASSUME HealingInv, throttle' = throttle, locked' = locked,
         HealingTypes', StopHolds', atLimit' # TRUE => atLimit # TRUE,
         rowBatch' = rowBatch \/ (atLimit' # TRUE => rowBatch' \in Limits)
  PROVE  HealingInv'
  BY DEF HealingInv, RestartHasLock, DecidedWithinLimits, RowWithinLimits

LEMMA TickStep == ASSUME HealingInv, Tick PROVE HealingInv'
<1> USE DEF HealingInv
<1>1. CASE rowStatus = "active" /\ throttle' # throttle
  <2>1. PICK t \in Throttle :
          Is(t, "idle") /\ Turns(t, [Waiting EXCEPT !.stage = "called"])
    BY <1>1 DEF Tick, HealingTypes
  <2>2. remedy' \in {"idle", "called", "dropped", "reset"}
    BY <1>1 DEF Tick, HealingTypes
  <2>3. /\ UNCHANGED <<metric, rowStatus, rowBatch, rowParallel, runsWith,
                       stopping, stopped, atLimit>>
        /\ locked' = locked
    BY DEF Tick, jobVars, limitVars
  <2> QED
    BY <2>1, <2>2, <2>3, WaitingType, QuietTurn DEF Decided
<1>2. CASE throttle' = throttle
  <2>1. remedy' \in {"idle", "called", "dropped", "reset"}
    BY DEF Tick, HealingTypes
  <2>2. /\ UNCHANGED <<metric, rowStatus, rowBatch, rowParallel, runsWith,
                       stopping, stopped, atLimit>>
        /\ locked' = locked
    BY DEF Tick, jobVars, limitVars
  <2>3. HealingTypes' /\ StopHolds'
    BY <1>2, <2>1, <2>2 DEF HealingTypes, StopHolds
  <2> QED
    BY <1>2, <2>2, <2>3, QuietStep
<1> QED
  BY <1>1, <1>2 DEF Tick

LEMMA DecideStep ==
  ASSUME HealingInv, NEW t \in Throttle,
         Decide(t) \/ CheckCooldown(t) \/ ApplyFails(t) \/ RestartFails(t)
  PROVE  HealingInv'
<1> USE DEF HealingInv
<1>1. /\ UNCHANGED <<metric, rowStatus, rowBatch, rowParallel, runsWith,
                     stopping, remedy, stopped, atLimit>>
      /\ remedy' \in {"idle", "called", "dropped", "reset"}
  BY DEF Decide, CheckCooldown, ApplyFails, RestartFails, jobVars, SameElse,
         SameHistory, limitVars, HealingTypes
<1>2. locked' = locked \/ (locked' = Unlocked /\ locked = t)
  <2>1. CASE RestartFails(t)
    BY <2>1 DEF RestartFails, Is, RestartHasLock
  <2>2. CASE ~RestartFails(t)
    BY <2>2 DEF Decide, CheckCooldown, ApplyFails
  <2> QED
    BY <2>1, <2>2
<1>3. throttle[t] \in ThrottleType
  BY DEF HealingTypes
<1>4. CASE Gives(t)
  BY <1>1, <1>2, <1>4, WaitingType, QuietTurn DEF Gives, Decided
<1>5. CASE CheckCooldown(t) /\ ~Gives(t)
  <2> DEFINE r == [throttle[t] EXCEPT !.stage = "approved"]
  <2>1. Turns(t, r) /\ throttle[t].stage = "decided"
    BY <1>5 DEF CheckCooldown, Is
  <2>2. /\ r \in ThrottleType /\ r.stage = "approved"
        /\ r.from = throttle[t].from /\ r.batch = throttle[t].batch
    BY <1>3 DEF ThrottleType
  <2> HIDE DEF r
  <2>3. r.from \in Between => r.batch \in Limits
    BY <2>1, <2>2 DEF DecidedWithinLimits, Decided
  <2> QED
    BY <1>1, <1>2, <2>1, <2>2, <2>3, QuietTurn
<1>6. CASE Decide(t) /\ ~Gives(t)
  <2> DEFINE r == [stage |-> "decided", from |-> rowBatch,
                   batch |-> OptimalBatchSize(rowBatch, metric),
                   parallel |-> OptimalParallelism(rowParallel, metric),
                   sure |-> metric # "slow"]
  <2>1. Turns(t, r) /\ metric \in {"lagging", "failing", "slow"}
    BY <1>6 DEF Decide
  <2>2. rowBatch \in Int /\ rowParallel \in Int
    BY DEF HealingTypes
  <2>3. OptimalParallelism(rowParallel, metric) \in Int
    BY <2>1, <2>2 DEF OptimalParallelism, Least, Greatest
  <2>4. /\ OptimalBatchSize(rowBatch, metric) \in Int
        /\ rowBatch \in Between => OptimalBatchSize(rowBatch, metric) \in Limits
    BY <2>1, <2>2, OptimalWithinLimits
  <2>5. r \in ThrottleType
    BY <2>2, <2>3, <2>4 DEF ThrottleType
  <2>6. /\ r.stage = "decided" /\ r.from = rowBatch
        /\ r.batch = OptimalBatchSize(rowBatch, metric)
    OBVIOUS
  <2> HIDE DEF r
  <2>7. r.from \in Between => r.batch \in Limits
    BY <2>4, <2>6
  <2> QED
    BY <1>1, <1>2, <2>1, <2>5, <2>6, <2>7, QuietTurn
<1> QED
  BY <1>4, <1>5, <1>6 DEF Decide, CheckCooldown, ApplyFails, RestartFails

(* The job runs when the adjustment has the lock: no stop has come between.*)
LEMMA ApplyStep ==
  ASSUME HealingInv, NEW t \in Throttle, Apply(t) PROVE HealingInv'
<1> USE DEF HealingInv
<1> DEFINE r == [throttle[t] EXCEPT !.stage = "restart"]
<1>1. throttle[t] \in ThrottleType /\ throttle[t].stage = "approved"
  BY DEF HealingTypes, Apply, Is
<1>2. /\ r \in ThrottleType /\ r.stage = "restart"
      /\ r.from = throttle[t].from /\ r.batch = throttle[t].batch
  BY <1>1 DEF ThrottleType
<1>3. Turns(t, r) /\ locked = Unlocked /\ locked' = t /\ runsWith > 0
  BY DEF Apply, Adjusts
<1>4. /\ rowBatch' = throttle[t].batch /\ rowParallel' = throttle[t].parallel
      /\ runsWith' = 0
      /\ UNCHANGED <<metric, rowStatus, stopping, remedy, stopped>>
  BY DEF Apply, Adjusts, SameElse
<1>5. /\ atLimit' \in BOOLEAN
      /\ atLimit' # TRUE => atLimit # TRUE /\ throttle[t].from \in Between
  <2>1. atLimit' = (atLimit \/ throttle[t].from \notin Between)
    BY DEF Apply, Adjusts, Between
  <2>2. atLimit \in BOOLEAN
    BY DEF HealingTypes
  <2> QED
    BY <2>1, <2>2
<1> HIDE DEF r
<1>6. /\ throttle' \in [Throttle -> ThrottleType] /\ throttle'[t] = r
      /\ \A u \in Throttle : u # t => throttle'[u] = throttle[u]
  BY <1>2, <1>3, ThrottleTurns
<1>7. HealingTypes'
  BY <1>1, <1>3, <1>4, <1>5, <1>6 DEF HealingTypes, ThrottleType
<1>8. RestartHasLock'
  BY <1>3, <1>6, SelfHealingAssumption DEF RestartHasLock
<1>9. StopHolds'
  <2>1. runsWith # 0
    BY <1>3 DEF HealingTypes
  <2> QED
    BY <2>1, <1>4 DEF StopHolds
<1>10. throttle[t].from \in Between => throttle[t].batch \in Limits
  BY <1>1 DEF DecidedWithinLimits, Decided
<1>11. DecidedWithinLimits'
  BY <1>2, <1>5, <1>6, <1>10 DEF DecidedWithinLimits
<1>12. RowWithinLimits'
  BY <1>4, <1>5, <1>10 DEF RowWithinLimits
<1> QED
  BY <1>7, <1>8, <1>9, <1>11, <1>12

LEMMA RestartKeeps ==
  ASSUME HealingInv, NEW t \in Throttle, Restart(t) PROVE HealingInv'
<1> USE DEF HealingInv
<1>1. /\ throttle[t] \in ThrottleType /\ throttle[t].stage = "restart"
      /\ locked = t /\ locked # Unlocked
  BY SelfHealingAssumption DEF HealingTypes, Restart, Is, RestartHasLock
<1>2. /\ Turns(t, Waiting) /\ locked' = Unlocked
      /\ runsWith' = throttle[t].batch /\ rowStatus' = "active"
      /\ rowBatch' = throttle[t].batch /\ rowParallel' = throttle[t].parallel
      /\ UNCHANGED <<metric, stopping, remedy, stopped, atLimit>>
  BY DEF Restart, Gives, SameElse
<1>3. /\ throttle' \in [Throttle -> ThrottleType] /\ throttle'[t] = Waiting
      /\ \A u \in Throttle : u # t => throttle'[u] = throttle[u]
  BY <1>2, WaitingType, ThrottleTurns
<1>4. HealingTypes'
  BY <1>1, <1>2, <1>3 DEF HealingTypes, ThrottleType
<1>5. RestartHasLock'
  BY <1>1, <1>3, WaitingType DEF RestartHasLock
<1>6. StopHolds'
  BY <1>1, <1>2 DEF StopHolds
<1>7. DecidedWithinLimits'
  BY <1>2, <1>3, WaitingType DEF DecidedWithinLimits, Decided
<1>8. RowWithinLimits'
  BY <1>1, <1>2 DEF RowWithinLimits, DecidedWithinLimits, Decided
<1> QED
  BY <1>4, <1>5, <1>6, <1>7, <1>8

(* What the remedy and the user do to the job.                             *)
LEMMA RemedyStep ==
  ASSUME HealingInv,
         Recommend \/ DropMirror \/ ResetRow \/ StartAgain
  PROVE  HealingInv'
<1>1. UNCHANGED <<throttle, atLimit>> /\ locked' = locked /\ rowBatch' = rowBatch
  BY DEF Recommend, DropMirror, ResetRow, StartAgain, SameHistory, limitVars,
         jobVars
<1>2. HealingTypes'
  BY <1>1 DEF Recommend, DropMirror, ResetRow, StartAgain, SameHistory,
              limitVars, jobVars, SameElse, HealingInv, HealingTypes
<1>3. StopHolds'
  <2>1. CASE StartAgain
    BY <1>1, <2>1 DEF StartAgain, HealingInv, HealingTypes, StopHolds
  <2>2. CASE ~StartAgain
    <3>1. /\ UNCHANGED <<stopping, stopped>> /\ runsWith' \in {0, runsWith}
          /\ rowStatus' \in {"paused", rowStatus}
      BY <2>2 DEF Recommend, DropMirror, ResetRow, SameHistory, limitVars,
                  jobVars
    <3> QED
      BY <1>1, <3>1 DEF HealingInv, StopHolds
  <2> QED
    BY <2>1, <2>2
<1> QED
  BY <1>1, <1>2, <1>3, QuietStep

LEMMA UserKeeps ==
  ASSUME HealingInv, StopTheJob \/ WriteStopped \/ StartTheJob \/ EditTheJob
  PROVE  HealingInv'
<1>1. throttle' = throttle /\ locked' = locked
  BY DEF StopTheJob, WriteStopped, StartTheJob, EditTheJob, SameHistory,
         limitVars, healVars
<1>2. /\ atLimit' \in BOOLEAN
      /\ atLimit' # TRUE => atLimit # TRUE
      /\ rowBatch' \in Int
      /\ rowBatch' = rowBatch \/ (atLimit' # TRUE => rowBatch' \in Limits)
  <2>1. CASE StopTheJob \/ WriteStopped \/ StartTheJob
    BY <2>1 DEF StopTheJob, WriteStopped, StartTheJob, SameHistory, limitVars,
                HealingInv, HealingTypes
  <2>2. CASE EditTheJob
    <3>1. PICK b \in Sizes :
            rowBatch' = b /\ atLimit' = (atLimit \/ ~WithinLimits(b))
      BY <2>2 DEF EditTheJob
    <3>2. /\ atLimit' \in BOOLEAN
          /\ atLimit' # TRUE => atLimit # TRUE /\ WithinLimits(b)
      BY <3>1, Zenon
    <3> QED
      BY <3>1, <3>2, SizesAreNoticed
  <2> QED
    BY <2>1, <2>2
<1>3. stopping' \in BOOLEAN
  <2>1. CASE StopTheJob
    BY <2>1, Zenon DEF StopTheJob
  <2>2. CASE WriteStopped
    BY <2>2, Zenon DEF WriteStopped
  <2>3. CASE StartTheJob \/ EditTheJob
    BY <2>3 DEF StartTheJob, EditTheJob, healVars, HealingInv, HealingTypes
  <2> QED
    BY <2>1, <2>2, <2>3
<1>5. HealingTypes'
  BY <1>1, <1>2, <1>3
  DEF StopTheJob, WriteStopped, StartTheJob, EditTheJob, SameHistory,
      limitVars, healVars, SameElse, HealingInv, HealingTypes
<1>6. StopHolds'
  <2>1. CASE StopTheJob
    <3>1. /\ runsWith > 0 \/ rowStatus = "active"
          /\ runsWith' = 0 /\ stopped' = stopped /\ locked = Unlocked
      BY <2>1 DEF StopTheJob, SameHistory, limitVars
    <3>2. stopped = "yes" => ~(runsWith > 0) /\ rowStatus # "active"
      BY DEF HealingInv, StopHolds
    <3> QED
      BY <1>1, <3>1, <3>2 DEF StopHolds
  <2>2. CASE WriteStopped
    <3>1. stopping = TRUE /\ stopping' # TRUE
      BY <2>2, Zenon DEF WriteStopped
    <3> QED
      BY <2>2, <3>1 DEF WriteStopped, HealingInv, HealingTypes, StopHolds
  <2>3. CASE StartTheJob
    <3>1. stopping # TRUE /\ stopping' = stopping /\ stopped' = "no"
      BY <2>3 DEF StartTheJob, healVars
    <3> QED
      BY <3>1 DEF StopHolds
  <2>4. CASE EditTheJob
    BY <2>4 DEF EditTheJob, healVars, limitVars, HealingInv, StopHolds
  <2> QED
    BY <2>1, <2>2, <2>3, <2>4
<1> QED
  BY <1>1, <1>2, <1>5, <1>6, QuietStep

LEMMA HealingStep ==
  HealingInv /\ [SelfHealingNext]_selfHealingVars => HealingInv'
<1> SUFFICES ASSUME HealingInv, [SelfHealingNext]_selfHealingVars
             PROVE  HealingInv'
  OBVIOUS
<1>1. CASE Tick
  BY <1>1, TickStep
<1>2. CASE MetricsChange \/ AnalyzeJobNow \/ AnalyzeJobTimeSeries
           \/ UNCHANGED selfHealingVars
  <2>1. /\ UNCHANGED <<throttle, atLimit, rowBatch, locked, rowStatus,
                       rowParallel, runsWith, stopping, remedy, stopped>>
        /\ metric' \in Metrics
    BY <1>2 DEF MetricsChange, AnalyzeJobNow, AnalyzeJobTimeSeries,
                selfHealingVars, jobVars, healVars, limitVars, SameHistory,
                SameElse, HealingInv, HealingTypes
  <2>2. HealingTypes' /\ StopHolds'
    BY <2>1 DEF HealingInv, HealingTypes, StopHolds
  <2> QED
    BY <2>1, <2>2, QuietStep
<1>3. CASE Recommend \/ DropMirror \/ ResetRow \/ StartAgain
  BY <1>3, RemedyStep
<1>4. CASE StopTheJob \/ WriteStopped \/ StartTheJob \/ EditTheJob
  BY <1>4, UserKeeps
<1>5. ASSUME NEW t \in Throttle,
             Decide(t) \/ CheckCooldown(t) \/ ApplyFails(t) \/ RestartFails(t)
      PROVE  HealingInv'
  BY <1>5, DecideStep
<1>6. ASSUME NEW t \in Throttle, Apply(t) \/ Restart(t)
      PROVE  HealingInv'
  BY <1>6, ApplyStep, RestartKeeps
<1> QED
  BY <1>1, <1>2, <1>3, <1>4, <1>5, <1>6 DEF SelfHealingNext

(* A job that a user has stopped stays stopped, whatever adjustment was    *)
(* decided while it ran: it finds, under the lock, that the job runs no    *)
(* more (manager.go, applyThrottlingChanges).                              *)
THEOREM StopsStand == SelfHealingSpec => []StoppedStaysStopped
<1>1. HealingInv => StoppedStaysStopped
  BY DEF HealingInv, StopHolds, StoppedStaysStopped
<1> QED
  BY HealingStarts, HealingStep, <1>1, PTL DEF SelfHealingSpec

(* Until an adjustment begins at a limit, or a user goes beyond them, the  *)
(* stored batch size is within the limits, whatever is edited in between   *)
(* (manager.go, calculateOptimalBatchSize).                                *)
THEOREM BatchesWithinLimits == SelfHealingSpec => []BatchWithinLimits
<1>1. HealingInv => BatchWithinLimits
  BY DEF HealingInv, RowWithinLimits, Limits, WithinLimits, BatchWithinLimits
<1> QED
  BY HealingStarts, HealingStep, <1>1, PTL DEF SelfHealingSpec

-----------------------------------------------------------------------------
(* A rewritten hit is a change of the value of its key, of the same age;   *)
(* and as long as there is room for another key, the watch knows the last  *)
(* value of every key it did not miss and counts every change.  The first  *)
(* record of a key after one that was missed is left out.                  *)
PayloadTypes ==
  /\ ingested \in Nat
  /\ lastVal \in [Key -> Value \cup {NoValue}]
  /\ truth \in [Key -> Value \cup {NoValue}]
  /\ IsFiniteSet(Tracked)
  /\ \A n \in DOMAIN hits : n \in 1 .. ingested
  /\ \A n \in DOMAIN hits : hits[n] \in Hit
  /\ \A n \in DOMAIN changes : n \in 1 .. ingested

RewritesAreChanges ==
  \A n \in RewrittenHits(hits) \ doubtful :
    n \in DOMAIN changes /\ changes[n] = hits[n].age

RoomKnowsAll ==
  Cardinality(Tracked) < KeyCap =>
    /\ \A k \in Key \ missed : lastVal[k] = truth[k]
    /\ DOMAIN changes \ doubtful \subseteq RewrittenHits(hits)

WatchInv == PayloadTypes /\ RewritesAreChanges /\ RoomKnowsAll

LEMMA WatchStarts == PayloadInit => WatchInv
<1> SUFFICES ASSUME PayloadInit PROVE WatchInv
  OBVIOUS
<1>1. Tracked = {} /\ DOMAIN hits = {} /\ DOMAIN changes = {}
  BY DEF PayloadInit, Tracked
<1>2. IsFiniteSet(Tracked)
  BY <1>1, FS_EmptySet
<1> QED
  BY <1>1, <1>2 DEF PayloadInit, WatchInv, PayloadTypes, RewritesAreChanges,
    RoomKnowsAll, RewrittenHits

(* A key is tracked for ever, and one more is at most by each record.      *)
LEMMA TrackedGrows ==
  ASSUME PayloadTypes, NEW k \in Key, NEW v \in Value, Ingest(k, v)
  PROVE  /\ Tracked \subseteq Tracked' /\ IsFiniteSet(Tracked')
         /\ lastVal' \in [Key -> Value \cup {NoValue}]
         /\ Cardinality(Tracked') < KeyCap => Cardinality(Tracked) < KeyCap
<1>1. lastVal' \in [Key -> Value \cup {NoValue}]
      /\ \A o \in Key : o # k => lastVal'[o] = lastVal[o]
  BY DEF Ingest, Remember, PayloadTypes
<1>2. lastVal[k] # NoValue => lastVal'[k] # NoValue
  BY PayloadAssumption DEF Ingest, Remember, PayloadTypes, Value
<1>3. Tracked \subseteq Tracked' /\ Tracked' \subseteq Tracked \cup {k}
  BY <1>1, <1>2 DEF Tracked
<1>4. IsFiniteSet(Tracked \cup {k})
  BY FS_AddElement DEF PayloadTypes
<1>5. IsFiniteSet(Tracked')
  BY <1>3, <1>4, FS_Subset
<1>6. Cardinality(Tracked) <= Cardinality(Tracked')
  BY <1>3, <1>5, FS_Subset
<1>7. Cardinality(Tracked) \in Nat /\ Cardinality(Tracked') \in Nat
  BY <1>5, FS_CardinalityType DEF PayloadTypes
<1>8. Cardinality(Tracked') < KeyCap => Cardinality(Tracked) < KeyCap
  BY <1>6, <1>7, PayloadAssumption
<1> QED
  BY <1>1, <1>3, <1>5, <1>8

LEMMA IngestKeeps ==
  ASSUME WatchInv, NEW k \in Key, NEW v \in Value, Ingest(k, v)
  PROVE  WatchInv'
<1> DEFINE new == ingested + 1
<1>t. /\ PayloadTypes /\ RewritesAreChanges /\ RoomKnowsAll
      /\ ingested \in Nat /\ ingested' = new
  BY DEF WatchInv, PayloadTypes, Ingest
<1>g. /\ Tracked \subseteq Tracked' /\ IsFiniteSet(Tracked')
      /\ lastVal' \in [Key -> Value \cup {NoValue}]
      /\ Cardinality(Tracked') < KeyCap => Cardinality(Tracked) < KeyCap
  BY <1>t, TrackedGrows
<1>h. PICK h : /\ h \in Hit /\ h.age = 0 /\ h.rewritten = Rewritten(k, v)
               /\ hits' = WithHit(h)
  <2>1. PICK high \in High(v) :
          hits' = WithHit([age |-> 0, high |-> high,
                           rewritten |-> Rewritten(k, v)])
    BY DEF Ingest
  <2>2. high \in BOOLEAN
    BY Zenon DEF High
  <2>3. Rewritten(k, v) \in BOOLEAN
    BY Zenon DEF Rewritten
  <2>4. 0 \in 0 .. HitTicks
    BY PayloadAssumption
  <2>5. [age |-> 0, high |-> high, rewritten |-> Rewritten(k, v)] \in Hit
    BY Zenon, <2>2, <2>3, <2>4 DEF Hit
  <2> QED
    BY Zenon, <2>1, <2>5
<1>n. new \notin DOMAIN hits /\ new \notin DOMAIN changes
  BY <1>t DEF PayloadTypes
<1>1. /\ DOMAIN hits' = DOMAIN Fresh(hits) \cup {new}
      /\ hits'[new] = h
      /\ DOMAIN Fresh(hits) = {n \in DOMAIN hits : hits[n].age < HitTicks}
      /\ \A n \in DOMAIN Fresh(hits) : hits'[n] = hits[n]
  BY <1>h, <1>n DEF WithHit, Fresh
<1>c. /\ DOMAIN changes' = {n \in DOMAIN changes : changes[n] < HitTicks}
           \cup (IF truth[k] \in {NoValue, v} THEN {} ELSE {new})
      /\ \A n \in DOMAIN changes : n \in DOMAIN changes' => changes'[n] = changes[n]
      /\ new \in DOMAIN changes' => changes'[new] = 0
  BY <1>n DEF Ingest, ChangesWith
<1>r. Rewritten(k, v) = TRUE <=>
        Cardinality(Tracked) < KeyCap /\ lastVal[k] \notin {NoValue, v}
  BY Zenon DEF Rewritten
<1>v. /\ truth' = [truth EXCEPT ![k] = v] /\ truth \in [Key -> Value \cup {NoValue}]
      /\ lastVal \in [Key -> Value \cup {NoValue}]
      /\ lastVal' = Remember(k, v)
  BY <1>t DEF Ingest, PayloadTypes
<1>d. /\ missed' = missed \ {k} /\ doubtful \subseteq doubtful'
      /\ new \notin doubtful' => k \notin missed
  BY DEF Ingest, Notice
<1>R. \A n : n \in RewrittenHits(hits)' <=>
        \/ n \in RewrittenHits(hits) /\ hits[n].age < HitTicks
        \/ n = new /\ Rewritten(k, v)
  BY <1>1, <1>h, <1>n DEF RewrittenHits
<1>2. PayloadTypes'
  <2>1. truth' \in [Key -> Value \cup {NoValue}]
    BY <1>v
  <2>2. \A n \in DOMAIN hits' : n \in 1 .. ingested' /\ hits'[n] \in Hit
    BY <1>1, <1>t, <1>h DEF PayloadTypes
  <2>3. \A n \in DOMAIN changes' : n \in 1 .. ingested'
    BY <1>c, <1>t DEF PayloadTypes
  <2> QED
    BY <1>t, <1>g, <2>1, <2>2, <2>3 DEF PayloadTypes
<1>3. RewritesAreChanges'
  <2> SUFFICES ASSUME NEW n \in RewrittenHits(hits)', n \notin doubtful'
               PROVE  n \in DOMAIN changes' /\ changes'[n] = hits'[n].age
    BY DEF RewritesAreChanges
  <2>1. CASE n \in RewrittenHits(hits) /\ hits[n].age < HitTicks
    <3>1. n \in DOMAIN changes /\ changes[n] = hits[n].age
      BY <2>1, <1>t, <1>d DEF RewritesAreChanges
    <3>2. n \in DOMAIN Fresh(hits)
      BY <2>1, <1>1 DEF RewrittenHits
    <3> QED
      BY <3>1, <3>2, <2>1, <1>1, <1>c
  <2>2. CASE n = new /\ Rewritten(k, v)
    <3>1. truth[k] \notin {NoValue, v}
      BY <2>2, <1>r, <1>t, <1>d DEF RoomKnowsAll
    <3> QED
      BY <3>1, <2>2, <1>c, <1>1, <1>h
  <2> QED
    BY <2>1, <2>2, <1>R
<1>4. RoomKnowsAll'
  <2> SUFFICES ASSUME Cardinality(Tracked') < KeyCap
               PROVE  /\ \A o \in Key \ missed' : lastVal'[o] = truth'[o]
                      /\ DOMAIN changes' \ doubtful' \subseteq RewrittenHits(hits)'
    BY DEF RoomKnowsAll
  <2>1. /\ Cardinality(Tracked) < KeyCap
        /\ \A o \in Key \ missed : lastVal[o] = truth[o]
        /\ DOMAIN changes \ doubtful \subseteq RewrittenHits(hits)
    BY <1>g, <1>t DEF RoomKnowsAll
  <2>2. \A o \in Key \ missed' : lastVal'[o] = truth'[o]
    BY <2>1, <1>v, <1>d DEF Remember
  <2>3. ASSUME NEW n \in DOMAIN changes', n \notin doubtful'
        PROVE  n \in RewrittenHits(hits)'
    <3>1. CASE n \in DOMAIN changes /\ changes[n] < HitTicks
      BY <3>1, <2>3, <2>1, <1>R, <1>t, <1>d DEF RewritesAreChanges
    <3>2. CASE n = new /\ truth[k] \notin {NoValue, v}
      <4>1. lastVal[k] = truth[k]
        BY <3>2, <2>3, <2>1, <1>d
      <4> QED
        BY <4>1, <3>2, <2>1, <1>R, <1>r
    <3> QED
      BY <3>1, <3>2, <1>c
  <2> QED
    BY <2>2, <2>3
<1> QED
  BY <1>2, <1>3, <1>4 DEF WatchInv

LEMMA AgingKeeps == ASSUME WatchInv, HitsAge PROVE WatchInv'
<1>t. PayloadTypes /\ RewritesAreChanges /\ RoomKnowsAll
  BY DEF WatchInv
<1>1. /\ DOMAIN hits' = DOMAIN hits /\ DOMAIN changes' = DOMAIN changes
      /\ UNCHANGED <<lastVal, truth, missed, doubtful, ingested>>
      /\ \A n \in DOMAIN hits :
           hits'[n] = [hits[n] EXCEPT !.age = AgeAfterTick(hits[n].age)]
      /\ \A n \in DOMAIN changes : changes'[n] = AgeAfterTick(changes[n])
  BY DEF HitsAge
<1>2. ASSUME NEW n \in DOMAIN hits
      PROVE  /\ hits'[n] \in Hit
             /\ hits'[n].rewritten = hits[n].rewritten
             /\ hits'[n].age = AgeAfterTick(hits[n].age)
  <2>1. hits[n] \in Hit
    BY <1>t DEF PayloadTypes
  <2>2. AgeAfterTick(hits[n].age) \in 0 .. HitTicks
    BY <2>1, PayloadAssumption DEF Hit, AgeAfterTick
  <2> HIDE DEF AgeAfterTick
  <2> QED
    BY <1>1, <2>1, <2>2 DEF Hit
<1>3. RewrittenHits(hits)' = RewrittenHits(hits)
  BY <1>1, <1>2 DEF RewrittenHits
<1>4. PayloadTypes'
  BY <1>t, <1>1, <1>2 DEF PayloadTypes, Tracked
<1>5. RewritesAreChanges'
  BY <1>t, <1>1, <1>2, <1>3 DEF RewritesAreChanges, RewrittenHits
<1>6. RoomKnowsAll'
  BY <1>t, <1>1, <1>3 DEF RoomKnowsAll, Tracked
<1> QED
  BY <1>4, <1>5, <1>6 DEF WatchInv

LEMMA UnseenKeeps ==
  ASSUME WatchInv, NEW k \in Key, NEW v \in Value, PassUnseen(k, v)
  PROVE  WatchInv'
<1>t. /\ PayloadTypes /\ RewritesAreChanges /\ RoomKnowsAll
      /\ UNCHANGED <<lastVal, hits, changes, doubtful>>
      /\ ingested \in Nat /\ ingested' = ingested + 1
      /\ truth' = [truth EXCEPT ![k] = v] /\ missed' = missed \cup {k}
  BY DEF WatchInv, PayloadTypes, PassUnseen
<1>1. truth' \in [Key -> Value \cup {NoValue}]
      /\ \A o \in Key : o # k => truth'[o] = truth[o]
  BY <1>t DEF PayloadTypes
<1>2. PayloadTypes'
  BY <1>t, <1>1 DEF PayloadTypes, Tracked
<1>3. RewritesAreChanges'
  BY <1>t DEF RewritesAreChanges, RewrittenHits
<1>4. RoomKnowsAll'
  BY <1>t, <1>1 DEF RoomKnowsAll, Tracked, RewrittenHits
<1> QED
  BY <1>2, <1>3, <1>4 DEF WatchInv

LEMMA WatchStep == WatchInv /\ [PayloadNext]_payloadVars => WatchInv'
<1>1. ASSUME WatchInv, PayloadNext PROVE WatchInv'
  <2>1. CASE SwitchWatch
    BY <1>1, <2>1 DEF SwitchWatch, payloadHistory, WatchInv, PayloadTypes,
      RewritesAreChanges, RoomKnowsAll, RewrittenHits, Tracked
  <2> QED
    BY <1>1, <2>1, IngestKeeps, UnseenKeeps, AgingKeeps DEF PayloadNext
<1>2. ASSUME WatchInv, UNCHANGED payloadVars PROVE WatchInv'
  BY <1>2 DEF payloadVars, payloadHistory, WatchInv, PayloadTypes,
    RewritesAreChanges, RoomKnowsAll, RewrittenHits, Tracked
<1> QED
  BY <1>1, <1>2

(* The rewrites the alarm counts are changes of values that records of the *)
(* last minute made, never others and, while another key could be tracked, *)
(* all of them; the first record of a key after one that passed while the  *)
(* watch was off is the exception (Controller.Ingest,                      *)
(* evaluatePayloadLocked).                                                 *)
THEOREM RewritesAreCounted == PayloadSpec => []RewritesCounted
<1>1. WatchInv => RewritesCounted
  BY DEF WatchInv, RewritesAreChanges, RoomKnowsAll, RewritesCounted
<1> QED
  BY WatchStarts, WatchStep, <1>1, PTL DEF PayloadSpec
=============================================================================
