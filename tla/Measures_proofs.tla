--------------------------- MODULE Measures_proofs ---------------------------
(***************************************************************************)
(* Proofs about what is measured of a mirror while it moves: the sample of *)
(* its counters and the total of its rows (MetricsStore), the answer       *)
(* whether a migration is safe (MirrorVerify), and the rows of its         *)
(* progress (MirrorProgress).  For any number of records, partitions and   *)
(* goroutines and any bounds.                                              *)
(***************************************************************************)
EXTENDS MetricsStore, MirrorProgress, MirrorVerify, Integers,
        FiniteSetTheorems, TLAPS

(* What is counted as consumed was produced before, or had no mapping; and *)
(* that stays so for what the first read of the counters saw, because the  *)
(* producer's counter is read after the consumer's.                        *)
CountersFollow ==
  /\ consumed <= produced + skipped
  /\ acked = TRUE => consumed + 1 <= produced + skipped

HalfSample ==
  collect = "consumer" => sample.consumed <= produced + sample.skipped

CounterTypes ==
  /\ alive \in BOOLEAN /\ acked \in BOOLEAN
  /\ consumed \in Nat /\ produced \in Nat /\ skipped \in Nat
  /\ collect \in {"wait", "consumer", "sampled", "totals", "over"}
  /\ sample \in [consumed : Nat, skipped : Nat, produced : Nat]

SampleInv == CounterTypes /\ CountersFollow /\ HalfSample /\ SampleConsistent

LEMMA EmptySample ==
  /\ NoSample \in [consumed : Nat, skipped : Nat, produced : Nat]
  /\ NoSample.consumed = 0 /\ NoSample.skipped = 0
  BY DEF NoSample

LEMMA SampleInit == MetricsInit => SampleInv
<1> SUFFICES ASSUME MetricsInit
             PROVE  SampleInv
  OBVIOUS
<1>1. alive \in BOOLEAN /\ acked \in BOOLEAN /\ acked # TRUE
  BY Zenon DEF MetricsInit
<1> QED
  BY <1>1, EmptySample
  DEF MetricsInit, SampleInv, CounterTypes, CountersFollow, HalfSample,
      SampleConsistent

LEMMA SampleStep == SampleInv /\ [MetricsNext]_metricsVars => SampleInv'
<1> SUFFICES ASSUME SampleInv, [MetricsNext]_metricsVars
             PROVE  SampleInv'
  OBVIOUS
<1> USE EmptySample
    DEF SampleInv, CounterTypes, CountersFollow, HalfSample,
        SampleConsistent, counterVars, collectVars
<1>1. CASE MirrorStarts
  BY <1>1 DEF MirrorStarts
<1>2. CASE MirrorStops \/ MirrorCrashes
  <2>1. MirrorGone
    BY <1>2 DEF MirrorStops, MirrorCrashes
  <2>2. alive' \in BOOLEAN /\ acked' \in BOOLEAN /\ acked' # TRUE
    BY <2>1, Zenon DEF MirrorGone
  <2> QED
    BY <2>1, <2>2 DEF MirrorGone
<1>3. CASE RecordProduced
  BY <1>3 DEF RecordProduced
<1>4. CASE RecordConsumed
  <2>1. acked = TRUE /\ acked' \in BOOLEAN /\ acked' # TRUE
    BY <1>4, Zenon DEF RecordConsumed
  <2> QED
    BY <1>4, <2>1 DEF RecordConsumed
<1>5. CASE RecordSkipped \/ RecordFailed
  BY <1>5 DEF RecordSkipped, RecordFailed
<1>6. CASE ReadConsumer
  <2>1. /\ sample' \in [consumed : Nat, skipped : Nat, produced : Nat]
        /\ sample'.consumed = consumed /\ sample'.skipped = skipped
    BY <1>6 DEF ReadConsumer
  <2> QED
    BY <1>6, <2>1 DEF ReadConsumer
<1>7. CASE ReadProducer
  BY <1>7 DEF ReadProducer
<1>8. CASE ReadTotals
  BY <1>8 DEF ReadTotals
<1>9. CASE Insert \/ InsertFails
  BY <1>9 DEF Insert, InsertFails, TickEnds
<1>10. CASE OtherJobInserts \/ Prune \/ UNCHANGED metricsVars
  BY <1>10 DEF OtherJobInserts, Prune, metricsVars
<1> QED
  BY <1>1, <1>2, <1>3, <1>4, <1>5, <1>6, <1>7, <1>8, <1>9, <1>10
  DEF MetricsNext

(* No sample of collectMetrics shows more records consumed than were       *)
(* produced or had no mapping, however the counters move between its reads *)
(* (kaf-mirror.go).                                                        *)
THEOREM SamplesAreConsistent == MetricsSpec => []SampleConsistent
<1>1. SampleInv => SampleConsistent
  BY DEF SampleInv
<1> QED
  BY SampleInit, SampleStep, <1>1, PTL DEF MetricsSpec

-----------------------------------------------------------------------------
(* The totals of the rows are sums, and what a sum is takes induction: a   *)
(* set of numbers has a smallest one.  The initial segments below its      *)
(* members are finite sets, and of those some are minimal.                 *)
LEMMA Smallest ==
  ASSUME NEW S \in SUBSET Nat, S # {}
  PROVE  \E m \in S : \A k \in S : m <= k
<1>1. PICK e \in S : TRUE
  OBVIOUS
<1> DEFINE E == 0 .. e
           T == {0 .. k : k \in S \cap E}
<1>2. \A k \in S \cap E : IsFiniteSet(0 .. k) /\ 0 .. k \subseteq E
  <2> TAKE k \in S \cap E
  <2>1. 0 \in Int /\ k \in Int /\ e \in Int /\ k <= e
    OBVIOUS
  <2>2. IsFiniteSet(0 .. k)
    BY <2>1, FS_Interval
  <2> QED
    BY <2>1, <2>2
<1>3. T \subseteq FiniteSubsetsOf(E) /\ T # {}
  BY <1>2 DEF FiniteSubsetsOf
<1>4. IsWellFoundedOn(StrictSubsetOrdering(E), FiniteSubsetsOf(E))
  BY FS_StrictSubsetOrderingWellFounded
<1>5. PICK t \in T : \A y \in T : <<y, t>> \notin StrictSubsetOrdering(E)
  <2> HIDE DEF T, E
  <2> QED
    BY <1>3, <1>4, WFMin
<1>6. PICK m \in S \cap E : t = 0 .. m
  OBVIOUS
<1>7. ASSUME NEW k \in S, k < m PROVE FALSE
  <2>1. k \in S \cap E /\ 0 .. k \in T
    BY <1>6, <1>7
  <2>2. 0 .. k \subseteq 0 .. m /\ 0 .. k # 0 .. m /\ m \notin 0 .. k /\ m \in 0 .. m
    BY <1>7
  <2>3. <<0 .. k, t>> \in StrictSubsetOrdering(E)
    BY <2>1, <2>2, <1>2, <1>6 DEF StrictSubsetOrdering
  <2> QED
    BY <2>1, <2>3, <1>5
<1> QED
  BY <1>6, <1>7

(* f is the sums of d up to n.                                             *)
AddsUp(f, d, n) ==
  \A k \in 0 .. n : f[k] = IF k = 0 THEN 0 ELSE f[k - 1] + d[k]

Summed(d, n) == \E g \in [0 .. n -> Nat] : AddsUp(g, d, n)

LEMMA SumsThere ==
  ASSUME NEW d \in Seq(Nat), NEW n \in 0 .. Len(d)
  PROVE  Summed(d, n)
<1> DEFINE Bad == {k \in 0 .. Len(d) : ~Summed(d, k)}
<1> SUFFICES ASSUME Bad # {} PROVE FALSE
  OBVIOUS
<1>1. Bad \in SUBSET Nat
  OBVIOUS
<1>2. PICK m \in Bad : \A k \in Bad : m <= k
  <2> HIDE DEF Bad
  <2> QED
    BY <1>1, Smallest
<1>3. CASE m = 0
  <2> DEFINE h == [k \in 0 .. 0 |-> 0]
  <2>1. h \in [0 .. 0 -> Nat]
    OBVIOUS
  <2>3. \A k \in 0 .. 0 : k = 0 /\ h[k] = 0
    OBVIOUS
  <2> HIDE DEF h
  <2>4. \A k \in 0 .. 0 : h[k] = IF k = 0 THEN 0 ELSE h[k - 1] + d[k]
    BY <2>3
  <2>2. Summed(d, 0)
    BY <2>1, <2>4 DEF Summed, AddsUp
  <2> QED
    BY <2>2, <1>3
<1>4. CASE m # 0
  <2>1. m \in 1 .. Len(d) /\ m - 1 \in 0 .. Len(d) /\ m - 1 \notin Bad
    BY <1>2, <1>4
  <2>2. PICK g \in [0 .. m - 1 -> Nat] :
          \A k \in 0 .. m - 1 : g[k] = IF k = 0 THEN 0 ELSE g[k - 1] + d[k]
    BY <2>1 DEF Summed, AddsUp
  <2>3. d[m] \in Nat
    BY <2>1
  <2> DEFINE h == [k \in 0 .. m |-> IF k = m THEN g[m - 1] + d[m] ELSE g[k]]
  <2>4. h \in [0 .. m -> Nat]
    BY <2>1, <2>3
  <2>5. \A k \in 0 .. m : h[k] = IF k = 0 THEN 0 ELSE h[k - 1] + d[k]
    <3> TAKE k \in 0 .. m
    <3>1. CASE k = m
      BY <3>1, <2>1
    <3>2. CASE k # m
      BY <3>2, <2>1, <2>2
    <3> QED
      BY <3>1, <3>2
  <2> HIDE DEF h
  <2>6. Summed(d, m)
    BY <2>4, <2>5 DEF Summed, AddsUp
  <2> QED
    BY <2>6
<1> QED
  BY <1>3, <1>4

SameNumbers(d, e, n) == \A k \in 1 .. n : d[k] = e[k]

(* Sums of the same numbers are the same.                                  *)
LEMMA SumsAgree ==
  ASSUME NEW n \in Nat, NEW d, NEW e, SameNumbers(d, e, n), NEW f, NEW g,
         AddsUp(f, d, n), AddsUp(g, e, n)
  PROVE  \A k \in 0 .. n : f[k] = g[k]
<1> DEFINE Bad == {k \in 0 .. n : f[k] # g[k]}
<1> SUFFICES ASSUME Bad # {} PROVE FALSE
  OBVIOUS
<1>1. Bad \in SUBSET Nat
  OBVIOUS
<1>2. PICK m \in Bad : \A k \in Bad : m <= k
  <2> HIDE DEF Bad
  <2> QED
    BY <1>1, Smallest
<1>3. m # 0
  BY <1>2 DEF AddsUp
<1>4. m \in 1 .. n /\ m - 1 \in 0 .. n /\ m - 1 \notin Bad
  BY <1>2, <1>3
<1>5. f[m - 1] = g[m - 1] /\ d[m] = e[m] /\ f[m] # g[m]
  BY <1>4 DEF SameNumbers
<1>6. f[m] = f[m - 1] + d[m] /\ g[m] = g[m - 1] + e[m]
  BY <1>3, <1>4 DEF AddsUp
<1> QED
  BY <1>5, <1>6

LEMMA SumsAre ==
  ASSUME NEW d \in Seq(Nat)
  PROVE  /\ SumsOf(d) \in [0 .. Len(d) -> Nat]
         /\ AddsUp(SumsOf(d), d, Len(d))
<1> DEFINE n == Len(d)
           f == SumsOf(d)
<1>0. n \in Nat /\ n \in 0 .. n
  OBVIOUS
<1>1. PICK g \in [0 .. n -> Nat] : AddsUp(g, d, n)
  BY <1>0, SumsThere DEF Summed
<1>2. g = [k \in 0 .. n |-> IF k = 0 THEN 0 ELSE g[k - 1] + d[k]]
  BY <1>1 DEF AddsUp
<1>3. f = [k \in 0 .. n |-> IF k = 0 THEN 0 ELSE f[k - 1] + d[k]]
  BY Zenon, <1>2 DEF SumsOf
<1> HIDE DEF f, n
<1>5. AddsUp(f, d, n)
  BY <1>3 DEF AddsUp
<1>6. \A k \in 0 .. n : f[k] = g[k]
  <2>1. SameNumbers(d, d, n)
    BY DEF SameNumbers
  <2> QED
    BY <1>0, <1>1, <1>5, <2>1, SumsAgree
<1>7. f \in [0 .. n -> Nat]
  BY <1>3, <1>6
<1> QED
  BY <1>5, <1>7 DEF f, n

(* One number more.                                                       *)
LEMMA SumsGrow ==
  ASSUME NEW d \in Seq(Nat), NEW e \in Seq(Nat), Len(e) = Len(d) + 1,
         \A k \in 1 .. Len(d) : d[k] = e[k]
  PROVE  SumsOf(e)[Len(e)] = SumsOf(d)[Len(d)] + e[Len(e)]
<1> DEFINE n == Len(d)
<1>1. n \in Nat /\ Len(e) = n + 1
  OBVIOUS
<1>2. AddsUp(SumsOf(d), d, n) /\ AddsUp(SumsOf(e), e, n + 1)
  BY SumsAre, <1>1
<1> SUFFICES ASSUME NEW f, NEW g, AddsUp(f, d, n), AddsUp(g, e, n + 1)
             PROVE  g[n + 1] = f[n] + e[n + 1]
  BY <1>1, <1>2
<1>3. AddsUp(g, e, n)
  BY <1>1 DEF AddsUp
<1>4. SameNumbers(d, e, n)
  BY DEF SameNumbers
<1> HIDE DEF n
<1>5. \A k \in 0 .. n : f[k] = g[k]
  BY <1>1, <1>3, <1>4, SumsAgree
<1>6. n + 1 \in 0 .. n + 1 /\ n + 1 # 0 /\ (n + 1) - 1 = n
  BY <1>1
<1>7. g[n + 1] = g[n] + e[n + 1]
  BY <1>6 DEF AddsUp
<1> QED
  BY <1>1, <1>5, <1>7

(* What a number more in a row adds to the totals.                         *)
LEMMA ZeroIsNat == 0 \in Nat
  OBVIOUS

LEMMA MineAre ==
  ASSUME NEW s \in Seq(MetricsRow)
  PROVE  /\ Mine(s) \in Seq(Nat) /\ Len(Mine(s)) = Len(s)
         /\ SumsOf(Mine(s))[Len(s)] \in Nat
<1>1. \A n \in DOMAIN s : (IF s[n].mine THEN s[n].delta ELSE 0) \in Nat
  <2> TAKE n \in DOMAIN s
  <2>1. s[n] \in MetricsRow
    OBVIOUS
  <2>2. s[n].delta \in Nat
    BY <2>1 DEF MetricsRow
  <2> QED
    BY Zenon, <2>2, ZeroIsNat
<1>2. Mine(s) \in Seq(Nat) /\ Len(Mine(s)) = Len(s)
  BY <1>1 DEF Mine
<1>3. SumsOf(Mine(s)) \in [0 .. Len(s) -> Nat]
  BY <1>2, SumsAre
<1>4. Len(s) \in 0 .. Len(s)
  OBVIOUS
<1> QED
  BY <1>2, <1>3, <1>4

LEMMA RowAdds ==
  ASSUME rows \in Seq(MetricsRow), NEW r \in MetricsRow,
         rows' = Append(rows, r)
  PROVE  /\ rows' \in Seq(MetricsRow)
         /\ Totals' = Totals + (IF r.mine THEN r.delta ELSE 0)
<1> DEFINE x == IF r.mine THEN r.delta ELSE 0
           d == Mine(rows)
           e == Mine(rows')
<1>1. /\ rows' \in Seq(MetricsRow) /\ Len(rows') = Len(rows) + 1
      /\ Len(rows) \in Nat /\ rows'[Len(rows) + 1] = r
      /\ \A n \in 1 .. Len(rows) : rows'[n] = rows[n]
      /\ DOMAIN rows' = 1 .. Len(rows) + 1 /\ DOMAIN rows = 1 .. Len(rows)
  OBVIOUS
<1>2. /\ d \in Seq(Nat) /\ Len(d) = Len(rows)
      /\ e \in Seq(Nat) /\ Len(e) = Len(d) + 1
  BY <1>1, MineAre
<1>3. /\ \A n \in 1 .. Len(d) : d[n] = e[n]
      /\ e[Len(e)] = x
  BY <1>1, <1>2 DEF Mine
<1> HIDE DEF d, e
<1>4. SumsOf(e)[Len(e)] = SumsOf(d)[Len(d)] + e[Len(e)]
  BY <1>2, <1>3, SumsGrow
<1> QED
  BY <1>1, <1>2, <1>3, <1>4 DEF Totals, d, e

(* What ReadTotals found is still the total when the row is inserted, or   *)
(* rows were deleted in between.                                           *)
RowsTyped ==
  /\ rows \in Seq(MetricsRow) /\ totals \in Nat /\ floor \in Nat
  /\ raced \in BOOLEAN /\ sample.produced \in Nat

TotalsRead == collect = "totals" /\ raced = FALSE => totals = Totals

TotalsInv == RowsTyped /\ TotalsRead /\ NeverBelowCurrent

LEMMA TotalsStart == MetricsInit => TotalsInv
<1> SUFFICES ASSUME MetricsInit
             PROVE  TotalsInv
  OBVIOUS
<1>1. raced \in BOOLEAN /\ raced = FALSE
  BY Zenon DEF MetricsInit
<1>2. rows \in Seq(MetricsRow) /\ collect = "over" /\ floor = 0 /\ totals = 0
      /\ sample.produced \in Nat
  BY DEF MetricsInit, NoSample
<1>3. Totals \in Nat
  BY <1>2, MineAre DEF Totals
<1> QED
  BY <1>1, <1>2, <1>3 DEF TotalsInv, RowsTyped, TotalsRead, NeverBelowCurrent

(* Steps that leave the rows, and what was read of them, as they are.      *)
LEMMA TotalsStay ==
  ASSUME TotalsInv, UNCHANGED <<rows, floor>>, totals' \in Nat,
         raced' \in BOOLEAN, sample'.produced \in Nat,
         collect' = "totals" /\ raced' = FALSE => totals' = Totals
  PROVE  TotalsInv'
<1>1. Totals' = Totals
  BY DEF Totals, Mine
<1> QED
  BY <1>1 DEF TotalsInv, RowsTyped, TotalsRead, NeverBelowCurrent

LEMMA InsertAdds ==
  ASSUME SampleInv, TotalsInv, Insert
  PROVE  TotalsInv'
<1> DEFINE r == [mine |-> TRUE, delta |-> Delta]
<1>1. /\ rows \in Seq(MetricsRow) /\ totals \in Nat /\ sample.produced \in Nat
      /\ raced \in BOOLEAN /\ collect = "totals"
      /\ raced = FALSE => totals = Totals
  BY DEF TotalsInv, RowsTyped, TotalsRead, Insert
<1>2. Delta \in Nat /\ totals + Delta >= sample.produced
  BY <1>1 DEF Delta
<1>3. r \in MetricsRow /\ r.mine = TRUE /\ r.delta = Delta
  <2>1. TRUE \in BOOLEAN
    BY Zenon
  <2> HIDE DEF r
  <2> QED
    BY <2>1, <1>2 DEF MetricsRow, r
<1>4. rows' = Append(rows, r)
  BY Zenon DEF Insert
<1> HIDE DEF r
<1>5. /\ rows' \in Seq(MetricsRow) /\ Totals' = Totals + Delta
  BY <1>1, <1>3, <1>4, RowAdds
<1>6. Totals \in Nat
  BY <1>1, MineAre DEF Totals
<1>7. /\ collect' = "wait" /\ totals' = 0 /\ sample'.produced \in Nat
      /\ raced' = raced
      /\ raced = TRUE => floor' = 0
      /\ raced = FALSE => floor' = sample.produced
  BY DEF Insert, TickEnds, NoSample
<1>8. floor' \in Nat /\ Totals' >= floor'
  <2>1. CASE raced = TRUE
    BY <2>1, <1>2, <1>5, <1>6, <1>7
  <2>2. CASE raced = FALSE
    BY <2>2, <1>1, <1>2, <1>5, <1>6, <1>7
  <2> QED
    BY <2>1, <2>2, <1>1
<1> QED
  BY <1>1, <1>5, <1>7, <1>8
  DEF TotalsInv, RowsTyped, TotalsRead, NeverBelowCurrent

LEMMA TotalsStep == SampleInv /\ TotalsInv /\ [MetricsNext]_metricsVars => TotalsInv'
<1> SUFFICES ASSUME SampleInv, TotalsInv, [MetricsNext]_metricsVars
             PROVE  TotalsInv'
  OBVIOUS
<1>t. /\ RowsTyped /\ TotalsRead /\ NeverBelowCurrent
      /\ rows \in Seq(MetricsRow) /\ totals \in Nat /\ floor \in Nat
      /\ raced \in BOOLEAN /\ sample.produced \in Nat
      /\ consumed \in Nat /\ produced \in Nat /\ skipped \in Nat
      /\ sample \in [consumed : Nat, skipped : Nat, produced : Nat]
      /\ NoSample.produced = 0
  BY DEF TotalsInv, RowsTyped, SampleInv, CounterTypes, NoSample
<1>T. Totals \in Nat
  BY <1>t, MineAre DEF Totals
<1>1. CASE MirrorStarts \/ MirrorStops \/ MirrorCrashes
  <2>1. /\ collect' # "totals" /\ UNCHANGED <<rows, floor, raced>>
        /\ totals' \in Nat /\ sample' \in {sample, NoSample}
    BY Zenon, <1>1, <1>t, ZeroIsNat
    DEF MirrorStarts, MirrorStops, MirrorCrashes, MirrorGone, metricRows
  <2>2. sample'.produced \in Nat
    BY <2>1, <1>t
  <2> QED
    BY <2>1, <2>2, <1>t, TotalsStay
<1>2. CASE RecordProduced \/ RecordConsumed \/ RecordSkipped \/ RecordFailed
           \/ UNCHANGED metricsVars
  BY <1>2, <1>t, TotalsStay
  DEF RecordProduced, RecordConsumed, RecordSkipped, RecordFailed,
      metricsVars, metricRows, collectVars, TotalsRead
<1>3. CASE ReadConsumer \/ ReadProducer
  <2>1. /\ collect' # "totals" /\ UNCHANGED <<rows, floor, raced, totals>>
        /\ sample'.produced \in Nat
    <3>1. CASE ReadConsumer
      BY <3>1, <1>t DEF ReadConsumer, metricRows
    <3>2. CASE ReadProducer
      BY <3>2, <1>t DEF ReadProducer, metricRows
    <3> QED
      BY <1>3, <3>1, <3>2
  <2> QED
    BY <2>1, <1>t, TotalsStay
<1>4. CASE ReadTotals
  <2>1. raced' \in BOOLEAN
    BY Zenon, <1>4 DEF ReadTotals
  <2> QED
    BY <1>4, <2>1, <1>t, <1>T, TotalsStay DEF ReadTotals
<1>5. CASE Insert
  BY <1>5, InsertAdds
<1>6. CASE InsertFails
  BY <1>6, <1>t, TotalsStay DEF InsertFails, TickEnds, metricRows
<1>7. CASE OtherJobInserts
  <2> DEFINE r == [mine |-> FALSE, delta |-> 1]
  <2>1. r \in MetricsRow /\ r.mine = FALSE
    BY DEF MetricsRow
  <2>2. rows' = Append(rows, r)
    BY Zenon, <1>7 DEF OtherJobInserts
  <2> HIDE DEF r
  <2>3. rows' \in Seq(MetricsRow) /\ Totals' = Totals
    BY <2>1, <2>2, <1>t, <1>T, RowAdds
  <2>4. UNCHANGED <<totals, collect, sample, raced, floor>>
    BY <1>7 DEF OtherJobInserts, collectVars
  <2> QED
    BY <2>3, <2>4, <1>t
    DEF TotalsInv, RowsTyped, TotalsRead, NeverBelowCurrent
<1>8. CASE Prune
  <2>1. PICK n \in 1 .. Len(rows) :
          /\ rows' = SubSeq(rows, n + 1, Len(rows))
          /\ raced' = (collect = "totals") /\ floor' = 0
          /\ UNCHANGED <<alive, counterVars, collectVars, mirrors>>
    BY <1>8 DEF Prune
  <2>2. rows' \in Seq(MetricsRow)
    BY <2>1, <1>t
  <2>3. raced' \in BOOLEAN /\ (collect = "totals" => raced' = TRUE)
    BY Zenon, <2>1
  <2>4. Totals' \in Nat
    BY <2>2, MineAre DEF Totals
  <2>5. UNCHANGED <<totals, collect, sample>>
    BY <2>1 DEF collectVars
  <2> QED
    BY <2>1, <2>2, <2>3, <2>4, <2>5, <1>t
    DEF TotalsInv, RowsTyped, TotalsRead, NeverBelowCurrent
<1> QED
  BY <1>1, <1>2, <1>3, <1>4, <1>5, <1>6, <1>7, <1>8 DEF MetricsNext

(* However mirrors of the job stop and start anew from zero, and whatever  *)
(* other jobs store: the total of the stored deltas is not below what the  *)
(* newest stored sample counted, unless rows were pruned after it or       *)
(* between the two statements that stored it (InsertMetrics, metrics.go).  *)
THEOREM TotalsKeepUp == MetricsSpec => []NeverBelowCurrent
<1>1. TotalsInv => NeverBelowCurrent
  BY DEF TotalsInv
<1>2. SampleInv /\ TotalsInv /\ [MetricsNext]_metricsVars => SampleInv' /\ TotalsInv'
  BY SampleStep, TotalsStep
<1> QED
  BY SampleInit, TotalsStart, <1>1, <1>2, PTL DEF MetricsSpec

-----------------------------------------------------------------------------
(* VerifyMirror: the records there were when it began are still there when *)
(* it reads the ends.                                                      *)
EndsFollow ==
  \A s \in Shard : /\ check = "listed" => began[s] <= arrived[s]
                   /\ check = "ends" => began[s] <= ends[s]
                   /\ committed[s] <= furthest[s]

VerifyInv == VerifyTypeOK /\ EndsFollow /\ NoLagMeansCommitted

LEMMA VerifyStarts == VerifyInit => VerifyInv
<1> SUFFICES ASSUME VerifyInit
             PROVE  VerifyInv
  OBVIOUS
<1>1. Nothing \in [critical : BOOLEAN, warned : BOOLEAN, lag : {"none", "some"}]
  BY DEF Nothing
<1>2. targetThere \in BOOLEAN
  BY Zenon DEF VerifyInit
<1>3. VerifyTypeOK
  BY <1>1, <1>2, MirrorVerifyAssumption DEF VerifyInit, VerifyTypeOK, Counts
<1> QED
  BY <1>3 DEF VerifyInit, VerifyInv, EndsFollow, NoLagMeansCommitted

LEMMA VerifyStep == VerifyInv /\ [VerifyNext]_verifyVars => VerifyInv'
<1> SUFFICES ASSUME VerifyInv, [VerifyNext]_verifyVars
             PROVE  VerifyInv'
  OBVIOUS
<1> USE MirrorVerifyAssumption DEF VerifyInv, VerifyTypeOK, Counts
<1>1. ASSUME NEW s \in Shard, Produce(s)
      PROVE  VerifyInv'
  BY <1>1 DEF Produce, EndsFollow, NoLagMeansCommitted, answerVars
<1>2. ASSUME NEW s \in Shard, Commit(s)
      PROVE  VerifyInv'
  BY <1>2 DEF Commit, EndsFollow, NoLagMeansCommitted, answerVars
<1>3. CASE CreateTarget
  BY <1>3 DEF CreateTarget, EndsFollow, NoLagMeansCommitted, answerVars
<1>4. CASE ListBothClusters
  BY <1>4 DEF ListBothClusters, EndsFollow, NoLagMeansCommitted, brokerVars
<1>5. CASE ReadSourceEnds
  BY <1>5 DEF ReadSourceEnds, GetTopicHighWaterMarks, EndsFollow,
              NoLagMeansCommitted, brokerVars
<1>6. CASE ReadCommitted
  <2> PICK unread \in SUBSET Shard, start \in {-1, 0} :
        LET at == GetConsumerGroupOffsets(unread, start)
        IN Finds(IF \E s \in Shard \ unlisted : ends[s] > at[s]
                 THEN "some" ELSE "none")
    BY <1>6 DEF ReadCommitted
  <2> DEFINE at  == GetConsumerGroupOffsets(unread, start)
             lag == IF \E s \in Shard \ unlisted : ends[s] > at[s]
                    THEN "some" ELSE "none"
  <2>1. /\ check = "ends" /\ check' = "done"
        /\ answer' = [answer EXCEPT !.lag = lag]
        /\ UNCHANGED <<brokerVars, ends, unlisted, began>>
    BY DEF Finds
  <2>2. VerifyTypeOK'
    BY <2>1 DEF brokerVars
  <2>3. EndsFollow'
    BY <2>1 DEF EndsFollow, brokerVars
  <2>4. ASSUME answer' = Nothing, NEW s \in Shard \ unlisted
        PROVE  furthest[s] >= began[s]
    <3>1. lag = "none"
      BY <2>1, <2>4 DEF Nothing
    <3>2. ~ (ends[s] > at[s])
      BY <3>1
    <3>3. at[s] <= furthest[s]
      BY DEF EndsFollow, GetConsumerGroupOffsets
    <3> HIDE DEF at
    <3>4. ends[s] <= furthest[s]
      <4>1. at[s] \in Int
        BY DEF at, GetConsumerGroupOffsets
      <4> QED
        BY <3>2, <3>3, <4>1
    <3> QED
      BY <3>4, <2>1 DEF EndsFollow
  <2> QED
    BY <2>1, <2>2, <2>3, <2>4 DEF NoLagMeansCommitted, brokerVars
<1>7. CASE ReadFails
  <2>1. answer' # Nothing
    BY <1>7 DEF ReadFails, Nothing
  <2> QED
    BY <1>7, <2>1 DEF ReadFails, EndsFollow, NoLagMeansCommitted, brokerVars
<1>8. CASE UNCHANGED verifyVars
  BY <1>8 DEF verifyVars, answerVars, brokerVars, EndsFollow, NoLagMeansCommitted
<1> QED
  BY <1>1, <1>2, <1>3, <1>4, <1>5, <1>6, <1>7, <1>8 DEF VerifyNext

(* VerifyMirror reads the ends before the commits: when it finds no lag    *)
(* and warns of nothing, what was there when it began has been committed,  *)
(* whatever arrived and was committed in between, but for a partition the  *)
(* listing of the ends has left out (verify.go).                           *)
THEOREM SafeToMigrate == VerifySpec => []NoLagMeansCommitted
<1>1. VerifyInv => NoLagMeansCommitted
  BY DEF VerifyInv
<1> QED
  BY VerifyStarts, VerifyStep, <1>1, PTL DEF VerifySpec

-----------------------------------------------------------------------------
(* The goroutines that write what the server stores of a job's progress.   *)
WorkerType ==
  [stage : {"idle", "calculate", "rows", "gaps"}, of : 0 .. MaxWorks,
   compared : SUBSET Partition, todo : SUBSET Partition, alone : BOOLEAN]

PointType == [of : 1 .. MaxWorks, at : 0 .. MaxClock]

ProgressTypes ==
  /\ jobRow \in {"active", "paused", "gone"}
  /\ clock \in 0 .. MaxClock /\ zone \in Zones /\ works \in 0 .. MaxWorks
  /\ worker \in [Worker -> WorkerType]
  /\ progress \in [Partition -> 0 .. MaxWorks]
  /\ points \in SUBSET PointType /\ gaps \in BOOLEAN
  /\ stored \in 0 .. MaxWorks /\ unwritten \in SUBSET Partition
  /\ crowded \in BOOLEAN

(* What a goroutine has in hand at each stage.                             *)
InHand ==
  \A w \in Worker :
    /\ worker[w].stage # "idle" => worker[w].of \in 1 .. MaxWorks
    /\ worker[w].todo \subseteq worker[w].compared
    /\ worker[w].stage \in {"idle", "calculate"} => worker[w].compared = {}
    /\ worker[w].stage = "gaps" => worker[w].todo = {}

(* One that is alone is; where no two have overlapped, or one alone has    *)
(* made up for it, the one at work is alone.                               *)
AloneIs ==
  \A w \in Worker : worker[w].alone = TRUE =>
    /\ worker[w].stage # "idle"
    /\ \A v \in Worker : v # w => worker[v].stage = "idle"

OneAtWork ==
  crowded # TRUE =>
    \A w \in Worker : worker[w].stage # "idle" => worker[w].alone = TRUE

(* The rows that one alone has written are its own; with the points it has *)
(* stored them all.                                                        *)
OwnRows ==
  jobRow # "gone" =>
    \A w \in Worker : worker[w].alone = TRUE =>
      /\ \A p \in worker[w].compared \ worker[w].todo :
           progress[p] = worker[w].of
      /\ worker[w].stage = "gaps" /\ worker[w].compared # {} =>
           stored = worker[w].of

(* The rows go with their job, and none is written after.                  *)
NoRowsWithoutJob ==
  jobRow = "gone" => stored = 0 /\ \A p \in Partition : progress[p] = 0

RowsBy ==
  crowded # TRUE =>
    \A p \in Partition :
      \/ progress[p] = stored \/ p \in unwritten
      \/ \E w \in Worker : /\ progress[p] = worker[w].of
                           /\ p \in worker[w].compared \ worker[w].todo

ProgressInv ==
  /\ ProgressTypes /\ InHand /\ AloneIs /\ OneAtWork /\ OwnRows
  /\ NoRowsWithoutJob /\ RowsBy /\ PointsOfOneCalculation

-----------------------------------------------------------------------------
LEMMA RestingIs ==
  /\ Resting \in WorkerType /\ Resting.stage = "idle" /\ Resting.compared = {}
  /\ Resting.todo = {} /\ Resting.alone = FALSE
  BY MirrorProgressAssumption DEF Resting, WorkerType

LEMMA ProgressInit == MirrorInit => ProgressInv
<1> SUFFICES ASSUME MirrorInit
             PROVE  ProgressInv
  OBVIOUS
<1>1. crowded \in BOOLEAN /\ gaps \in BOOLEAN
  BY Zenon DEF MirrorInit
<1>2. worker \in [Worker -> WorkerType]
  BY RestingIs DEF MirrorInit
<1>3. ProgressTypes
  BY <1>1, <1>2, MirrorProgressAssumption DEF MirrorInit, ProgressTypes
<1>4. \A w \in Worker : worker[w] = Resting
  BY DEF MirrorInit
<1>5. /\ InHand /\ AloneIs /\ OneAtWork /\ OwnRows
  BY <1>4, RestingIs DEF InHand, AloneIs, OneAtWork, OwnRows
<1>6. NoRowsWithoutJob /\ RowsBy /\ PointsOfOneCalculation
  BY DEF MirrorInit, NoRowsWithoutJob, RowsBy, PointsOfOneCalculation
<1> QED
  BY <1>3, <1>5, <1>6 DEF ProgressInv

LEMMA WorkerTurns ==
  ASSUME ProgressTypes, NEW w \in Worker, NEW r \in WorkerType, WorkerIs(w, r)
  PROVE  /\ worker' \in [Worker -> WorkerType] /\ worker'[w] = r
         /\ \A v \in Worker : v # w => worker'[v] = worker[v]
  BY DEF ProgressTypes, WorkerIs

(* Where rows are not a mixture, the only goroutine at work has all those  *)
(* that are not of the update stored last, nor left by one before it.      *)
LEMMA Alone ==
  ASSUME ProgressInv, NEW w \in Worker, worker[w].stage # "idle",
         crowded # TRUE
  PROVE  /\ worker[w].alone = TRUE
         /\ \A p \in Partition :
              \/ progress[p] = stored \/ p \in unwritten
              \/ /\ progress[p] = worker[w].of
                 /\ p \in worker[w].compared \ worker[w].todo
<1>1. worker[w].alone = TRUE
  BY DEF ProgressInv, OneAtWork
<1>2. \A v \in Worker : v # w => worker[v].compared = {}
  BY <1>1 DEF ProgressInv, InHand, AloneIs
<1> QED
  BY <1>1, <1>2 DEF ProgressInv, RowsBy

(* A step of a goroutine at work: what it goes on with, and what it leaves *)
(* if it was alone.                                                        *)
LEMMA WorkerGoesOn ==
  ASSUME ProgressInv, NEW w \in Worker, worker[w].stage # "idle",
         NEW r \in WorkerType, WorkerIs(w, r), jobRow' = jobRow,
         r.stage # "idle" => r.of \in 1 .. MaxWorks,
         r.todo \subseteq r.compared,
         r.stage \in {"idle", "calculate"} => r.compared = {},
         r.stage = "gaps" => r.todo = {},
         r.alone = TRUE => worker[w].alone = TRUE /\ r.stage # "idle",
         r.stage # "idle" => r.alone = worker[w].alone,
         crowded' # TRUE => crowded # TRUE \/ worker[w].alone = TRUE,
         crowded' # TRUE =>
           \A p \in Partition :
             \/ progress'[p] = stored' \/ p \in unwritten'
             \/ progress'[p] = r.of /\ p \in r.compared \ r.todo,
         jobRow # "gone" /\ r.alone = TRUE =>
           /\ \A p \in r.compared \ r.todo : progress'[p] = r.of
           /\ r.stage = "gaps" /\ r.compared # {} => stored' = r.of,
         jobRow = "gone" => stored' = 0 /\ \A p \in Partition : progress'[p] = 0
  PROVE  /\ InHand' /\ AloneIs' /\ OneAtWork' /\ OwnRows'
         /\ NoRowsWithoutJob' /\ RowsBy'
<1>1. /\ worker'[w] = r
      /\ \A v \in Worker : v # w => worker'[v] = worker[v]
  BY WorkerTurns DEF ProgressInv
<1>2. InHand'
  BY <1>1 DEF InHand, ProgressInv
<1>3. \A v \in Worker : v # w => worker[v].alone # TRUE
  BY DEF ProgressInv, AloneIs
<1>4. AloneIs'
  BY <1>1, <1>3 DEF ProgressInv, AloneIs
<1>5. OneAtWork'
  <2> SUFFICES ASSUME crowded' # TRUE
               PROVE  \A v \in Worker :
                        worker'[v].stage # "idle" => worker'[v].alone = TRUE
    BY DEF OneAtWork
  <2>1. worker[w].alone = TRUE
    BY DEF ProgressInv, OneAtWork
  <2> QED
    BY <1>1, <2>1 DEF ProgressInv, AloneIs
<1>6. OwnRows'
  BY <1>1, <1>3 DEF OwnRows
<1>7. RowsBy'
  BY <1>1 DEF RowsBy
<1> QED
  BY <1>2, <1>4, <1>5, <1>6, <1>7 DEF NoRowsWithoutJob

LEMMA BeginStep ==
  ASSUME ProgressInv, NEW w \in Worker, NEW stage \in {"calculate", "rows"},
         NEW read \in SUBSET Partition, stage = "calculate" => read = {},
         Begin(w, stage, read)
  PROVE  ProgressInv'
<1> DEFINE others == \E v \in Worker \ {w} : ~AtWork(v, "idle")
           r == [stage |-> stage, of |-> works + 1, compared |-> read,
                 todo |-> read, alone |-> ~others]
<1>1. /\ works' \in 1 .. MaxWorks /\ works' = works + 1
      /\ worker[w].stage = "idle"
      /\ UNCHANGED <<progress, points, gaps, stored, unwritten>>
      /\ UNCHANGED <<jobRow, clock, zone>>
  BY MirrorProgressAssumption
  DEF Begin, ProgressInv, ProgressTypes, progressVars, Rest, AtWork
<1>2. worker' = [v \in Worker |-> IF v = w THEN r
                                  ELSE [worker[v] EXCEPT !.alone = FALSE]]
  BY DEF Begin
<1>3. crowded' = (crowded \/ others) /\ crowded' \in BOOLEAN
  BY DEF Begin
<1>4. others # TRUE => \A v \in Worker : v # w => worker[v].stage = "idle"
  BY DEF AtWork
<1>5. /\ r.stage = stage /\ r.of = works' /\ r.compared = read
      /\ r.todo = read /\ (r.alone = TRUE => others # TRUE)
      /\ (others # TRUE => r.alone = TRUE)
  BY <1>1
<1>6. r \in WorkerType
  <2>1. (~others) \in BOOLEAN
    OBVIOUS
  <2> HIDE DEF others
  <2>2. works + 1 \in 0 .. MaxWorks
    BY <1>1
  <2>3. stage \in {"idle", "calculate", "rows", "gaps"}
    OBVIOUS
  <2> QED
    BY <2>1, <2>2, <2>3 DEF WorkerType
<1> HIDE DEF r, others
<1>7. ASSUME NEW v \in Worker, v # w
      PROVE  /\ worker'[v] \in WorkerType /\ worker'[v].alone = FALSE
             /\ worker'[v].stage = worker[v].stage
             /\ worker'[v].of = worker[v].of
             /\ worker'[v].compared = worker[v].compared
             /\ worker'[v].todo = worker[v].todo
  <2>1. worker[v] \in WorkerType
    BY DEF ProgressInv, ProgressTypes
  <2>2. worker'[v] = [worker[v] EXCEPT !.alone = FALSE]
    BY <1>2, <1>7
  <2> QED
    BY <2>1, <2>2 DEF WorkerType
<1>8. worker'[w] = r
  BY <1>2
<1>9. ProgressTypes'
  <2>1. worker' \in [Worker -> WorkerType]
    BY <1>2, <1>6, <1>7, <1>8
  <2> QED
    BY <1>1, <1>3, <2>1 DEF ProgressInv, ProgressTypes
<1>10. InHand'
  <2> SUFFICES ASSUME NEW v \in Worker
               PROVE  /\ worker'[v].stage # "idle" =>
                           worker'[v].of \in 1 .. MaxWorks
                      /\ worker'[v].todo \subseteq worker'[v].compared
                      /\ worker'[v].stage \in {"idle", "calculate"} =>
                           worker'[v].compared = {}
                      /\ worker'[v].stage = "gaps" => worker'[v].todo = {}
    BY DEF InHand
  <2>1. CASE v = w
    BY <1>1, <1>5, <1>8, <2>1
  <2>2. CASE v # w
    BY <1>7, <2>2 DEF InHand, ProgressInv
  <2> QED
    BY <2>1, <2>2
<1>11. AloneIs'
  BY <1>4, <1>5, <1>7, <1>8 DEF AloneIs
<1>12. ASSUME crowded' # TRUE
       PROVE  /\ crowded # TRUE /\ others # TRUE
              /\ \A v \in Worker : worker[v].compared = {}
  <2>1. crowded # TRUE /\ others # TRUE
    BY <1>3, <1>12 DEF ProgressInv, ProgressTypes
  <2> QED
    BY <1>1, <1>4, <2>1 DEF ProgressInv, InHand
<1>13. OneAtWork'
  BY <1>4, <1>5, <1>7, <1>8, <1>12 DEF OneAtWork
<1>14. OwnRows'
  BY <1>5, <1>7, <1>8 DEF OwnRows
<1>15. RowsBy'
  BY <1>1, <1>12 DEF RowsBy, ProgressInv
<1>16. NoRowsWithoutJob' /\ PointsOfOneCalculation'
  BY <1>1 DEF NoRowsWithoutJob, PointsOfOneCalculation, ProgressInv
<1> QED
  BY <1>9, <1>10, <1>11, <1>13, <1>14, <1>15, <1>16 DEF ProgressInv

(* A row that is written, or whose statement fails.                        *)
LEMMA RowStep ==
  ASSUME ProgressInv, NEW w \in Worker, NEW p \in Partition,
         UpdateMirrorProgress(w, p)
  PROVE  ProgressInv'
<1> DEFINE r == [worker[w] EXCEPT !.todo = @ \ {p}]
<1>1. /\ worker[w] \in WorkerType /\ worker[w].stage = "rows"
      /\ p \in worker[w].todo
  BY DEF ProgressInv, ProgressTypes, UpdateMirrorProgress, AtWork
<1>2. r \in WorkerType
  BY <1>1 DEF WorkerType
<1>3. /\ r.stage = "rows" /\ r.of = worker[w].of
      /\ r.compared = worker[w].compared /\ r.todo = worker[w].todo \ {p}
      /\ r.alone = worker[w].alone
  BY <1>1 DEF WorkerType
<1>4. WorkerIs(w, r)
  BY DEF UpdateMirrorProgress
<1> HIDE DEF r
<1>5. /\ UNCHANGED <<jobRow, clock, zone, points, gaps>>
      /\ UNCHANGED <<works, stored, unwritten, crowded>>
      /\ progress' = IF jobRow = "gone" THEN progress
                     ELSE [progress EXCEPT ![p] = worker[w].of]
  BY DEF UpdateMirrorProgress, Rest, workVars, rowVars
<1>6. /\ r.of \in 1 .. MaxWorks /\ r.todo \subseteq r.compared
      /\ p \in r.compared
  BY <1>1, <1>3 DEF ProgressInv, InHand
<1>7. /\ progress' \in [Partition -> 0 .. MaxWorks]
      /\ jobRow = "gone" => progress' = progress
      /\ jobRow # "gone" => progress'[p] = r.of
      /\ \A q \in Partition : q # p => progress'[q] = progress[q]
  BY <1>3, <1>5, <1>6 DEF ProgressInv, ProgressTypes
<1>8. jobRow = "gone" => stored = 0 /\ \A q \in Partition : progress[q] = 0
  BY DEF ProgressInv, NoRowsWithoutJob
<1>9. /\ InHand' /\ AloneIs' /\ OneAtWork' /\ OwnRows'
      /\ NoRowsWithoutJob' /\ RowsBy'
  <2>1. ASSUME crowded' # TRUE, NEW q \in Partition
        PROVE  \/ progress'[q] = stored' \/ q \in unwritten'
               \/ progress'[q] = r.of /\ q \in r.compared \ r.todo
    <3>1. \/ progress[q] = stored \/ q \in unwritten
          \/ progress[q] = r.of /\ q \in r.compared \ worker[w].todo
      BY <1>1, <1>3, <1>5, <2>1, Alone
    <3>2. CASE q = p
      BY <1>3, <1>5, <1>6, <1>7, <1>8, <3>2
    <3>3. CASE q # p
      BY <1>3, <1>5, <1>7, <3>1, <3>3
    <3> QED
      BY <3>2, <3>3
  <2>2. ASSUME jobRow # "gone", r.alone = TRUE
        PROVE  /\ \A q \in r.compared \ r.todo : progress'[q] = r.of
               /\ r.stage = "gaps" /\ r.compared # {} => stored' = r.of
    <3>1. \A q \in r.compared \ worker[w].todo : progress[q] = r.of
      BY <1>3, <2>2 DEF ProgressInv, OwnRows
    <3>2. r.compared \subseteq Partition
      BY <1>2 DEF WorkerType
    <3> QED
      BY <1>3, <1>7, <2>2, <3>1, <3>2
  <2>3. jobRow = "gone" => stored' = 0 /\ \A q \in Partition : progress'[q] = 0
    BY <1>5, <1>7, <1>8
  <2>4. worker[w].stage # "idle" /\ jobRow' = jobRow /\ crowded' = crowded
    BY <1>1, <1>5
  <2> QED
    BY <1>2, <1>3, <1>4, <1>6, <2>1, <2>2, <2>3, <2>4, WorkerGoesOn
<1>10. worker' \in [Worker -> WorkerType]
  BY <1>2, <1>4, WorkerTurns DEF ProgressInv
<1>11. ProgressTypes' /\ PointsOfOneCalculation'
  BY <1>5, <1>7, <1>10 DEF ProgressInv, ProgressTypes, PointsOfOneCalculation
<1> QED
  BY <1>9, <1>11 DEF ProgressInv

LEMMA RowFailsStep ==
  ASSUME ProgressInv, NEW w \in Worker, NEW p \in Partition, RowFails(w, p)
  PROVE  ProgressInv'
<1> DEFINE r == [worker[w] EXCEPT !.todo = @ \ {p}, !.compared = @ \ {p}]
<1>1. /\ worker[w] \in WorkerType /\ worker[w].stage = "rows"
      /\ p \in worker[w].todo
  BY DEF ProgressInv, ProgressTypes, RowFails, AtWork
<1>2. r \in WorkerType
  BY <1>1 DEF WorkerType
<1>3. /\ r.stage = "rows" /\ r.of = worker[w].of
      /\ r.compared = worker[w].compared \ {p}
      /\ r.todo = worker[w].todo \ {p} /\ r.alone = worker[w].alone
  BY <1>1 DEF WorkerType
<1>4. WorkerIs(w, r)
  BY DEF RowFails
<1> HIDE DEF r
<1>5. /\ UNCHANGED <<jobRow, clock, zone, progress, points, gaps>>
      /\ UNCHANGED <<works, stored, unwritten, crowded>>
  BY DEF RowFails, Rest, progressVars, workVars, rowVars
<1>6. /\ r.of \in 1 .. MaxWorks /\ r.todo \subseteq r.compared
      /\ r.compared \ r.todo = worker[w].compared \ worker[w].todo
  BY <1>1, <1>3 DEF ProgressInv, InHand
<1>7. /\ InHand' /\ AloneIs' /\ OneAtWork' /\ OwnRows'
      /\ NoRowsWithoutJob' /\ RowsBy'
  <2>1. ASSUME crowded' # TRUE, NEW q \in Partition
        PROVE  \/ progress'[q] = stored' \/ q \in unwritten'
               \/ progress'[q] = r.of /\ q \in r.compared \ r.todo
    BY <1>1, <1>3, <1>5, <1>6, <2>1, Alone
  <2>2. ASSUME jobRow # "gone", r.alone = TRUE
        PROVE  /\ \A q \in r.compared \ r.todo : progress'[q] = r.of
               /\ r.stage = "gaps" /\ r.compared # {} => stored' = r.of
    BY <1>3, <1>5, <1>6, <2>2 DEF ProgressInv, OwnRows
  <2>3. jobRow = "gone" => stored' = 0 /\ \A q \in Partition : progress'[q] = 0
    BY <1>5 DEF ProgressInv, NoRowsWithoutJob
  <2>4. worker[w].stage # "idle" /\ jobRow' = jobRow /\ crowded' = crowded
    BY <1>1, <1>5
  <2> QED
    BY <1>2, <1>3, <1>4, <1>6, <2>1, <2>2, <2>3, <2>4, WorkerGoesOn
<1>8. worker' \in [Worker -> WorkerType]
  BY <1>2, <1>4, WorkerTurns DEF ProgressInv
<1>9. ProgressTypes' /\ PointsOfOneCalculation'
  BY <1>5, <1>8 DEF ProgressInv, ProgressTypes, PointsOfOneCalculation
<1> QED
  BY <1>7, <1>9 DEF ProgressInv

(* The points of the last hour are replaced, and what is left of the older *)
(* ones is no younger than an hour in a zone that is not behind UTC.       *)
LEMMA PointsReplaced ==
  ASSUME ProgressInv, NEW w \in Worker, worker[w].stage # "idle",
         ReplacePoints(w), UNCHANGED <<clock, zone>>
  PROVE  points' \in SUBSET PointType /\ PointsOfOneCalculation'
<1>1. CASE points' = points
  BY <1>1 DEF ProgressInv, ProgressTypes, PointsOfOneCalculation
<1>2. ASSUME NEW new \in SUBSET {[of |-> worker[w].of, at |-> clock]},
             points' = {q \in points : ~OfTheLastHour(q)} \cup new
      PROVE  points' \in SUBSET PointType /\ PointsOfOneCalculation'
  <2>1. worker[w].of \in 1 .. MaxWorks
    BY DEF ProgressInv, InHand
  <2>2. new \subseteq PointType /\ \A q \in new : q.of = worker[w].of
    BY <2>1 DEF PointType, ProgressInv, ProgressTypes
  <2>3. points' \in SUBSET PointType
    BY <1>2, <2>2 DEF ProgressInv, ProgressTypes
  <2>4. zone \in Int /\ clock \in Int /\ Hour \in Int
    BY MirrorProgressAssumption DEF ProgressInv, ProgressTypes, Zones
  <2>5. ASSUME zone >= 0, NEW q \in points', q.at > clock - Hour
        PROVE  q.of = worker[w].of
    <3>1. q \in new \/ (q \in points /\ ~OfTheLastHour(q))
      BY <1>2
    <3>2. q \in points => q.at \in Int
      BY DEF ProgressInv, ProgressTypes, PointType
    <3> QED
      BY <2>2, <2>4, <2>5, <3>1, <3>2 DEF OfTheLastHour
  <2> QED
    BY <2>3, <2>5 DEF PointsOfOneCalculation
<1> QED
  BY <1>1, <1>2 DEF ReplacePoints

LEMMA StoreStep ==
  ASSUME ProgressInv, NEW w \in Worker, StorePoints(w)
  PROVE  ProgressInv'
<1> DEFINE r == [worker[w] EXCEPT !.stage = "gaps"]
<1>1. /\ worker[w] \in WorkerType /\ worker[w].stage = "rows"
      /\ worker[w].todo = {}
  BY DEF ProgressInv, ProgressTypes, StorePoints, AtWork
<1>2. r \in WorkerType
  BY <1>1 DEF WorkerType
<1>3. /\ r.stage = "gaps" /\ r.of = worker[w].of /\ r.todo = {}
      /\ r.compared = worker[w].compared /\ r.alone = worker[w].alone
  BY <1>1 DEF WorkerType
<1>4. WorkerIs(w, r)
  BY DEF StorePoints
<1> HIDE DEF r
<1>5. /\ UNCHANGED <<jobRow, clock, zone, progress, gaps, works>>
      /\ ReplacePoints(w) /\ RowsStored(w)
  BY DEF StorePoints, Rest
<1>6. r.of \in 1 .. MaxWorks
  BY <1>1, <1>3 DEF ProgressInv, InHand
<1>7. jobRow = "gone" => stored = 0 /\ \A q \in Partition : progress[q] = 0
  BY DEF ProgressInv, NoRowsWithoutJob
<1>8. /\ stored' \in 0 .. MaxWorks /\ unwritten' \in SUBSET Partition
      /\ crowded' \in BOOLEAN
  <2>1. CASE worker[w].compared = {} \/ jobRow = "gone"
    BY <1>5, <2>1 DEF RowsStored, rowVars, ProgressInv, ProgressTypes
  <2>2. CASE ~(worker[w].compared = {} \/ jobRow = "gone")
    <3>1. stored' = worker[w].of /\ unwritten' = Partition \ worker[w].compared
      BY <1>5, <2>2 DEF RowsStored
    <3>2. crowded' \in BOOLEAN
      <4>1. crowded' = (crowded /\ ~worker[w].alone)
        BY <1>5, <2>2 DEF RowsStored
      <4> QED
        BY <4>1, Zenon
    <3> QED
      BY <1>3, <1>6, <3>1, <3>2
  <2> QED
    BY <2>1, <2>2
<1>9. /\ InHand' /\ AloneIs' /\ OneAtWork' /\ OwnRows'
      /\ NoRowsWithoutJob' /\ RowsBy'
  <2>1. ASSUME jobRow # "gone", r.alone = TRUE
        PROVE  \A q \in r.compared : progress'[q] = r.of
    BY <1>1, <1>3, <1>5, <2>1 DEF ProgressInv, OwnRows
  <2>2. CASE worker[w].compared = {} \/ jobRow = "gone"
    <3>1. /\ UNCHANGED <<stored, unwritten, crowded>>
      BY <1>5, <2>2 DEF RowsStored, rowVars
    <3>2. ASSUME crowded' # TRUE, NEW q \in Partition
          PROVE  \/ progress'[q] = stored' \/ q \in unwritten'
                 \/ progress'[q] = r.of /\ q \in r.compared \ r.todo
      BY <1>1, <1>3, <1>5, <3>1, <3>2, Alone
    <3>3. jobRow # "gone" /\ r.alone = TRUE =>
            /\ \A q \in r.compared \ r.todo : progress'[q] = r.of
            /\ r.stage = "gaps" /\ r.compared # {} => stored' = r.of
      BY <1>3, <2>1, <2>2
    <3>4. jobRow = "gone" => stored' = 0 /\ \A q \in Partition : progress'[q] = 0
      BY <1>5, <1>7, <3>1
    <3>5. crowded' # TRUE => crowded # TRUE \/ worker[w].alone = TRUE
      BY <3>1
    <3> QED
      BY <1>1, <1>2, <1>3, <1>4, <1>5, <1>6, <3>2, <3>3, <3>4, <3>5,
         WorkerGoesOn
  <2>3. CASE ~(worker[w].compared = {} \/ jobRow = "gone")
    <3>1. /\ stored' = r.of /\ unwritten' = Partition \ r.compared
          /\ crowded' = (crowded /\ ~worker[w].alone)
      BY <1>3, <1>5, <2>3 DEF RowsStored
    <3>2. crowded' # TRUE => worker[w].alone = TRUE
      <4>1. worker[w].alone \in BOOLEAN
        BY <1>1 DEF WorkerType
      <4>2. crowded # TRUE => worker[w].alone = TRUE
        BY <1>1, Alone
      <4>3. crowded \in BOOLEAN
        BY DEF ProgressInv, ProgressTypes
      <4> QED
        BY <3>1, <4>1, <4>2, <4>3
    <3>3. crowded' # TRUE =>
            \A q \in Partition :
              \/ progress'[q] = stored' \/ q \in unwritten'
              \/ progress'[q] = r.of /\ q \in r.compared \ r.todo
      BY <1>3, <2>1, <2>3, <3>1, <3>2
    <3>4. jobRow # "gone" /\ r.alone = TRUE =>
            /\ \A q \in r.compared \ r.todo : progress'[q] = r.of
            /\ r.stage = "gaps" /\ r.compared # {} => stored' = r.of
      BY <1>3, <2>1, <3>1
    <3> QED
      BY <1>1, <1>2, <1>3, <1>4, <1>5, <1>6, <2>3, <3>2, <3>3, <3>4,
         WorkerGoesOn
  <2> QED
    BY <2>2, <2>3
<1>10. worker' \in [Worker -> WorkerType]
  BY <1>2, <1>4, WorkerTurns DEF ProgressInv
<1>11. points' \in SUBSET PointType /\ PointsOfOneCalculation'
  BY <1>1, <1>5, PointsReplaced
<1>12. ProgressTypes'
  BY <1>5, <1>8, <1>10, <1>11 DEF ProgressInv, ProgressTypes
<1> QED
  BY <1>9, <1>11, <1>12 DEF ProgressInv

(* The last step of a request, and of an update.                           *)
LEMMA LastStep ==
  ASSUME ProgressInv, NEW w \in Worker,
         StoreCalculated(w) \/ StoreGaps(w)
  PROVE  ProgressInv'
<1>1. /\ worker[w] \in WorkerType /\ worker[w].stage \in {"calculate", "gaps"}
      /\ WorkerIs(w, Resting)
  BY DEF ProgressInv, ProgressTypes, StoreCalculated, StoreGaps, AtWork
<1>2. /\ UNCHANGED <<jobRow, clock, zone, progress>>
      /\ UNCHANGED <<works, stored, unwritten, crowded>>
  BY DEF StoreCalculated, StoreGaps, Rest, workVars, rowVars
<1>3. points' \in SUBSET PointType /\ PointsOfOneCalculation'
  <2>1. CASE StoreCalculated(w)
    BY <1>1, <1>2, <2>1, PointsReplaced DEF StoreCalculated
  <2>2. CASE StoreGaps(w)
    BY <1>2, <2>2
    DEF StoreGaps, ProgressInv, ProgressTypes, PointsOfOneCalculation
  <2> QED
    BY <2>1, <2>2
<1>4. gaps' \in BOOLEAN
  <2>1. CASE StoreCalculated(w)
    BY <2>1 DEF StoreCalculated, ProgressInv, ProgressTypes
  <2>2. CASE StoreGaps(w)
    <3>1. gaps \in BOOLEAN /\ (gaps \/ jobRow # "gone") \in BOOLEAN
      BY DEF ProgressInv, ProgressTypes
    <3> QED
      BY <2>2, <3>1, Zenon DEF StoreGaps, DetectMirrorGaps
  <2> QED
    BY <2>1, <2>2
<1>5. jobRow = "gone" => stored = 0 /\ \A q \in Partition : progress[q] = 0
  BY DEF ProgressInv, NoRowsWithoutJob
<1>6. ASSUME crowded # TRUE, NEW q \in Partition
      PROVE  progress[q] = stored \/ q \in unwritten
  <2>1. worker[w].alone = TRUE
    BY <1>1, <1>6, Alone
  <2>2. \/ progress[q] = stored \/ q \in unwritten
        \/ progress[q] = worker[w].of /\ q \in worker[w].compared
    BY <1>1, <1>6, Alone
  <2>3. CASE jobRow = "gone"
    BY <1>5, <2>3
  <2>4. CASE jobRow # "gone"
    <3>1. worker[w].compared # {} => stored = worker[w].of
      BY <1>1, <2>1, <2>4 DEF ProgressInv, OwnRows, InHand
    <3> QED
      BY <2>2, <3>1
  <2> QED
    BY <2>3, <2>4
<1>7. /\ InHand' /\ AloneIs' /\ OneAtWork' /\ OwnRows'
      /\ NoRowsWithoutJob' /\ RowsBy'
  <2>1. crowded' # TRUE =>
          \A q \in Partition :
            \/ progress'[q] = stored' \/ q \in unwritten'
            \/ /\ progress'[q] = Resting.of
               /\ q \in Resting.compared \ Resting.todo
    BY <1>2, <1>6
  <2>2. jobRow = "gone" => stored' = 0 /\ \A q \in Partition : progress'[q] = 0
    BY <1>2, <1>5
  <2>3. worker[w].stage # "idle" /\ jobRow' = jobRow /\ crowded' = crowded
    BY <1>1, <1>2
  <2> QED
    BY <1>1, <2>1, <2>2, <2>3, RestingIs, WorkerGoesOn
<1>8. worker' \in [Worker -> WorkerType]
  BY <1>1, RestingIs, WorkerTurns DEF ProgressInv
<1>9. ProgressTypes'
  BY <1>2, <1>3, <1>4, <1>8 DEF ProgressInv, ProgressTypes
<1> QED
  BY <1>3, <1>7, <1>9 DEF ProgressInv

(* The process dies: what its goroutines have written is told apart.       *)
LEMMA DeathStep == ASSUME ProgressInv, GoroutinesEnd PROVE ProgressInv'
<1>1. /\ worker' = [w \in Worker |-> Resting]
      /\ unwritten' = unwritten \cup
           UNION {worker[w].compared \ worker[w].todo : w \in Worker}
      /\ UNCHANGED <<jobRow, clock, zone, progress, points, gaps>>
      /\ UNCHANGED <<works, stored, crowded>>
  BY DEF GoroutinesEnd, Rest, progressVars
<1>2. \A w \in Worker : worker'[w] = Resting
  BY <1>1
<1>3. worker' \in [Worker -> WorkerType]
  BY <1>1, RestingIs
<1>4. \A w \in Worker : worker[w].compared \in SUBSET Partition
  BY DEF ProgressInv, ProgressTypes, WorkerType
<1>5. unwritten' \in SUBSET Partition
  BY <1>1, <1>4 DEF ProgressInv, ProgressTypes
<1>6. ProgressTypes'
  BY <1>1, <1>3, <1>5 DEF ProgressInv, ProgressTypes
<1>7. InHand' /\ AloneIs' /\ OneAtWork' /\ OwnRows'
  BY <1>2, RestingIs DEF InHand, AloneIs, OneAtWork, OwnRows
<1>8. RowsBy'
  <2> SUFFICES ASSUME crowded # TRUE, NEW p \in Partition
               PROVE  progress[p] = stored \/ p \in unwritten'
    BY <1>1 DEF RowsBy
  <2>1. \/ progress[p] = stored \/ p \in unwritten
        \/ \E w \in Worker : p \in worker[w].compared \ worker[w].todo
    BY DEF ProgressInv, RowsBy
  <2> QED
    BY <1>1, <2>1
<1>9. NoRowsWithoutJob' /\ PointsOfOneCalculation'
  BY <1>1 DEF ProgressInv, NoRowsWithoutJob, PointsOfOneCalculation
<1> QED
  BY <1>6, <1>7, <1>8, <1>9 DEF ProgressInv

LEMMA ProgressStep == ProgressInv /\ [MirrorNext]_mirrorVars => ProgressInv'
<1> SUFFICES ASSUME ProgressInv, [MirrorNext]_mirrorVars
             PROVE  ProgressInv'
  OBVIOUS
<1>1. CASE PauseOrStart
  <2>1. /\ jobRow' \in {"active", "paused"} /\ jobRow # "gone"
        /\ UNCHANGED <<clock, zone, worker, progress, points, gaps, works,
                       stored, unwritten, crowded>>
    BY <1>1 DEF PauseOrStart, progressVars, workVars, rowVars
  <2>2. ProgressTypes'
    BY <2>1 DEF ProgressInv, ProgressTypes
  <2>3. InHand' /\ AloneIs' /\ OneAtWork'
    BY <2>1 DEF ProgressInv, InHand, AloneIs, OneAtWork
  <2>4. OwnRows' /\ NoRowsWithoutJob' /\ RowsBy'
    BY <2>1 DEF ProgressInv, OwnRows, NoRowsWithoutJob, RowsBy
  <2>5. PointsOfOneCalculation'
    BY <2>1 DEF ProgressInv, PointsOfOneCalculation
  <2> QED
    BY <2>2, <2>3, <2>4, <2>5 DEF ProgressInv
<1>2. CASE JobDeleted
  <2>1. /\ PointsOfOneCalculation' /\ InHand' /\ AloneIs' /\ OneAtWork'
        /\ UNCHANGED <<clock, zone, worker, works, crowded>>
    BY <1>2 DEF JobDeleted, ProgressInv, InHand, AloneIs, OneAtWork,
                PointsOfOneCalculation
  <2>2. /\ progress' \in [Partition -> 0 .. MaxWorks] /\ stored' \in 0 .. MaxWorks
        /\ points' = {} /\ jobRow' = "gone" /\ unwritten' = {}
    BY <1>2, MirrorProgressAssumption DEF JobDeleted
  <2>3. gaps' \in BOOLEAN
    BY <1>2, Zenon DEF JobDeleted
  <2>4. ProgressTypes'
    BY <2>1, <2>2, <2>3 DEF ProgressInv, ProgressTypes
  <2>5. OwnRows' /\ NoRowsWithoutJob' /\ RowsBy'
    BY <1>2 DEF JobDeleted, OwnRows, NoRowsWithoutJob, RowsBy
  <2> QED
    BY <2>1, <2>4, <2>5 DEF ProgressInv
<1>3. CASE Later
  <2>1. /\ clock \in Nat /\ clock' = clock + 1 /\ clock' \in 0 .. MaxClock
        /\ points' = points /\ Hour \in Nat
    BY <1>3, MirrorProgressAssumption
    DEF Later, progressVars, ProgressInv, ProgressTypes
  <2>2. PointsOfOneCalculation'
    <3>1. \A q \in points : q.at \in Int
      BY DEF ProgressInv, ProgressTypes, PointType
    <3>2. \A q \in points : q.at > clock' - Hour => q.at > clock - Hour
      BY <2>1, <3>1
    <3> QED
      BY <1>3, <2>1, <3>2 DEF Later, ProgressInv, PointsOfOneCalculation
  <2>3. ProgressTypes'
    BY <1>3, <2>1
    DEF Later, progressVars, workVars, rowVars, ProgressInv, ProgressTypes
  <2>4. UNCHANGED <<jobRow, worker, progress, stored, unwritten, crowded>>
    BY <1>3 DEF Later, progressVars, workVars, rowVars
  <2>5. InHand' /\ AloneIs' /\ OneAtWork'
    BY <2>4 DEF ProgressInv, InHand, AloneIs, OneAtWork
  <2>6. OwnRows' /\ NoRowsWithoutJob' /\ RowsBy'
    BY <2>4 DEF ProgressInv, OwnRows, NoRowsWithoutJob, RowsBy
  <2> QED
    BY <2>2, <2>3, <2>5, <2>6 DEF ProgressInv
<1>4. CASE GoroutinesEnd
  BY <1>4, DeathStep
<1>5. ASSUME NEW w \in Worker, NEW read \in SUBSET Partition,
             UpdateMirrorState(w, read)
      PROVE  ProgressInv'
  BY <1>5, BeginStep DEF UpdateMirrorState
<1>6. ASSUME NEW w \in Worker, CalculateResumePoints(w)
      PROVE  ProgressInv'
  BY <1>6, BeginStep DEF CalculateResumePoints
<1>7. ASSUME NEW w \in Worker, NEW p \in Partition,
             UpdateMirrorProgress(w, p) \/ RowFails(w, p)
      PROVE  ProgressInv'
  BY <1>7, RowStep, RowFailsStep
<1>8. ASSUME NEW w \in Worker,
             StorePoints(w) \/ StoreCalculated(w) \/ StoreGaps(w)
      PROVE  ProgressInv'
  BY <1>8, StoreStep, LastStep
<1>9. CASE UNCHANGED mirrorVars
  <2>1. /\ UNCHANGED <<jobRow, clock, zone, worker, progress, points, gaps>>
        /\ UNCHANGED <<works, stored, unwritten, crowded>>
    BY <1>9 DEF mirrorVars, progressVars, workVars, rowVars
  <2>2. ProgressTypes'
    BY <2>1 DEF ProgressInv, ProgressTypes
  <2>3. InHand' /\ AloneIs' /\ OneAtWork'
    BY <2>1 DEF ProgressInv, InHand, AloneIs, OneAtWork
  <2>4. OwnRows' /\ NoRowsWithoutJob' /\ RowsBy'
    BY <2>1 DEF ProgressInv, OwnRows, NoRowsWithoutJob, RowsBy
  <2>5. PointsOfOneCalculation'
    BY <2>1 DEF ProgressInv, PointsOfOneCalculation
  <2> QED
    BY <2>2, <2>3, <2>4, <2>5 DEF ProgressInv
<1> QED
  BY <1>1, <1>2, <1>3, <1>4, <1>5, <1>6, <1>7, <1>8, <1>9 DEF MirrorNext

(* Every row of progress is of the update that was stored last, but for    *)
(* what one could not read or store, one cut short has written, or the one *)
(* at work has; after two have overlapped, from the next one alone on      *)
(* (manager.go, mirror_progress.go).                                       *)
THEOREM RowsAgree == MirrorSpec => []RowsOfOneUpdate
<1>1. ProgressInv => RowsOfOneUpdate
  BY DEF ProgressInv, RowsBy, RowsOfOneUpdate
<1> QED
  BY ProgressInit, ProgressStep, <1>1, PTL DEF MirrorSpec

(* The resume points of the last hour are of one calculation, however many *)
(* are at work together, in a zone that is not behind UTC                  *)
(* (mirror_progress.go).                                                   *)
THEOREM PointsAgree == MirrorSpec => []PointsOfOneCalculation
<1>1. ProgressInv => PointsOfOneCalculation
  BY DEF ProgressInv
<1> QED
  BY ProgressInit, ProgressStep, <1>1, PTL DEF MirrorSpec
=============================================================================
