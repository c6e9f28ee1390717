---------------------------- MODULE PayloadWatch ----------------------------
(***************************************************************************)
(* Ingest, called for each mapped record of a topic before it is          *)
(* produced: the topic's baseline of entropy, the last value of each key, *)
(* and the hits of the last minute that evaluatePayloadLocked counts.     *)
(*                                                                         *)
(* A value is plain or scrambled (of high entropy).  Whether a scrambled  *)
(* one stands out is sure if the average comes from plain values only,    *)
(* impossible if it comes from scrambled ones only, and open otherwise,   *)
(* because it is a float.  Empty values return before anything is kept,   *)
(* and so does every record while protection or its automatic halt is off.*)
(***************************************************************************)
EXTENDS Naturals, FiniteSets

CONSTANTS
  Key, Plain, Scrambled,  \* keys and values of records
  NoValue,                \* a key not seen yet
  Learning,               \* values the baseline is learnt from (20)
  KeyCap,                 \* maxTrackedKeys
  MinHits,                \* minEntropySamples
  MinRewrites,            \* minRewriteUnique
  HitTicks,               \* ticks in ingestWindow
  MaxIngested             \* bound: records

ASSUME PayloadAssumption ==
  /\ NoValue \notin Plain \cup Scrambled /\ Plain \cap Scrambled = {}
  /\ Learning \in Nat /\ KeyCap \in Nat /\ MinHits \in Nat
  /\ MinRewrites \in Nat /\ HitTicks \in Nat \ {0} /\ MaxIngested \in Nat

Value == Plain \cup Scrambled

VARIABLES
  watching,   \* protection and its automatic halt are enabled
  lastVal,    \* the value the watch remembers of each key, or NoValue
  learnt,     \* values of the baseline so far
  average,    \* the values the average comes from
  hits,       \* the kept ingestHits, by number of the record, with ages
  alarmed,    \* evaluatePayloadLocked answered with a reason
  truth,      \* history: the last non-empty value of each key
  changes,    \* history: records that changed a key's value, with ages
  missed,     \* history: keys whose last value came while the watch was off
  doubtful,   \* history: records that were the first of such a key
  ingested    \* records so far

payloadHistory == <<truth, changes, missed, doubtful>>
payloadVars == <<watching, lastVal, learnt, average, hits, alarmed,
                 payloadHistory, ingested>>

Hit == [age : 0 .. HitTicks, high : BOOLEAN, rewritten : BOOLEAN]

PayloadTypeOK ==
  /\ watching \in BOOLEAN
  /\ lastVal \in [Key -> Value \cup {NoValue}]
  /\ learnt \in 0 .. Learning /\ average \in SUBSET Value
  /\ \A n \in DOMAIN hits : n \in 1 .. ingested /\ hits[n] \in Hit
  /\ alarmed \in BOOLEAN
  /\ truth \in [Key -> Value \cup {NoValue}]
  /\ \A n \in DOMAIN changes :
       n \in 1 .. ingested /\ changes[n] \in 0 .. HitTicks
  /\ missed \in SUBSET Key /\ doubtful \in SUBSET (1 .. ingested)
  /\ ingested \in 0 .. MaxIngested

PayloadInit ==
  /\ watching \in BOOLEAN
  /\ lastVal = [k \in Key |-> NoValue] /\ learnt = 0 /\ average = {}
  /\ hits = <<>> /\ alarmed = FALSE
  /\ truth = [k \in Key |-> NoValue] /\ changes = <<>>
  /\ missed = {} /\ doubtful = {} /\ ingested = 0

Tracked == {k \in Key : lastVal[k] # NoValue}

(* The room for keys is asked before a known key is looked up, too.       *)
Rewritten(k, v) ==
  Cardinality(Tracked) < KeyCap /\ lastVal[k] \notin {NoValue, v}

(* A key is remembered once, with its first value.                        *)
RememberFirst(k, v) ==
  IF Cardinality(Tracked) < KeyCap /\ lastVal[k] = NoValue
    THEN [lastVal EXCEPT ![k] = v] ELSE lastVal

Remember(k, v) ==
  IF Cardinality(Tracked) < KeyCap THEN [lastVal EXCEPT ![k] = v] ELSE lastVal

(* Whether v may stand out of the average, and whether it must.           *)
High(v) ==
  IF v \in Plain \/ learnt < Learning THEN {FALSE}
  ELSE IF average \subseteq Plain THEN {TRUE}
  ELSE IF average \subseteq Scrambled THEN {FALSE}
  ELSE BOOLEAN

(* What is kept of a window when a record comes, and the window with it.  *)
Fresh(window) ==
  [n \in {m \in DOMAIN window : window[m].age < HitTicks} |-> window[n]]

WithHit(h) ==
  [n \in DOMAIN Fresh(hits) \cup {ingested + 1} |->
     IF n = ingested + 1 THEN h ELSE hits[n]]

HighHits(window)      == {n \in DOMAIN window : window[n].high}
RewrittenHits(window) == {n \in DOMAIN window : window[n].rewritten}

(* The two alarms; the second, for many samples of any key, at twice the  *)
(* least number of hits here.                                             *)
Storm(window) ==
  LET total == Cardinality(DOMAIN window)
  IN  /\ total >= MinHits
      /\ 2 * Cardinality(HighHits(window)) >= total
      /\ \/ Cardinality(RewrittenHits(window)) >= MinRewrites
         \/ total >= 2 * MinHits

(* History: the changes of the last minute, and this one if it is one.    *)
ChangesWith(k, v) ==
  LET young == {n \in DOMAIN changes : changes[n] < HitTicks}
      new   == IF truth[k] \in {NoValue, v} THEN {} ELSE {ingested + 1}
  IN  [n \in young \cup new |-> IF n \in new THEN 0 ELSE changes[n]]

(* History: what passes while the watch is off, and the first record of   *)
(* its key that it sees again.                                            *)
Notice(k) ==
  /\ doubtful' = IF k \in missed THEN doubtful \cup {ingested + 1} ELSE doubtful
  /\ missed' = missed \ {k}

(* What does not stand out moves the average, also once it is learnt.     *)
Ingest(k, v) ==
  /\ watching /\ ingested < MaxIngested
  /\ \E high \in High(v) :
       /\ hits' = WithHit([age |-> 0, high |-> high,
                           rewritten |-> Rewritten(k, v)])
       /\ average' = IF high THEN average ELSE average \cup {v}
  /\ alarmed' = Storm(hits')
  /\ lastVal' = Remember(k, v)
  /\ learnt' = IF learnt < Learning THEN learnt + 1 ELSE learnt
  /\ truth' = [truth EXCEPT ![k] = v]
  /\ changes' = ChangesWith(k, v)
  /\ Notice(k)
  /\ ingested' = ingested + 1
  /\ UNCHANGED watching

(* Off, it keeps nothing of the record.                                   *)
PassUnseen(k, v) ==
  /\ ~watching /\ ingested < MaxIngested
  /\ truth' = [truth EXCEPT ![k] = v]
  /\ missed' = missed \cup {k}
  /\ ingested' = ingested + 1
  /\ UNCHANGED <<watching, lastVal, learnt, average, hits, alarmed, changes,
                 doubtful>>

(* Protection is enabled or disabled; what was kept stays.                *)
SwitchWatch ==
  /\ watching' = ~watching
  /\ UNCHANGED <<lastVal, learnt, average, hits, alarmed, payloadHistory,
                 ingested>>

AgeAfterTick(age) == IF age < HitTicks THEN age + 1 ELSE HitTicks

HitsAge ==
  /\ \E n \in DOMAIN hits : hits[n].age < HitTicks
  /\ hits' = [n \in DOMAIN hits |-> [hits[n] EXCEPT !.age = AgeAfterTick(@)]]
  /\ changes' = [n \in DOMAIN changes |-> AgeAfterTick(changes[n])]
  /\ UNCHANGED <<watching, lastVal, learnt, average, alarmed, truth, missed,
                 doubtful, ingested>>

PayloadNext ==
  \/ \E k \in Key, v \in Value : Ingest(k, v) \/ PassUnseen(k, v)
  \/ HitsAge \/ SwitchWatch

PayloadSpec == PayloadInit /\ [][PayloadNext]_payloadVars

-----------------------------------------------------------------------------
(* The hits of the window that count as rewrites are changes of values    *)
(* that records of the last minute made; and as long as there is room for *)
(* another key, all of them are counted.  Nothing is said of the first    *)
(* record of a key after one that came while the watch was off: it is     *)
(* compared with the value before.                                        *)
RewritesCounted ==
  /\ RewrittenHits(hits) \ doubtful \subseteq DOMAIN changes
  /\ Cardinality(Tracked) < KeyCap =>
       DOMAIN changes \ doubtful \subseteq RewrittenHits(hits)
=============================================================================
