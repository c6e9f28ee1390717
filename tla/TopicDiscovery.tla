--------------------------- MODULE TopicDiscovery ---------------------------
(***************************************************************************)
(* Which source topics a job mirrors, and where to: the mapping that      *)
(* NewKafMirror resolves and validates, the discovery of new topics by a  *)
(* running mirror, and handleRecord, which reads the same maps.           *)
(*                                                                         *)
(* A mapping is exact (one source topic) or a rule, a regular expression  *)
(* with a substitution.  Of a rule only its effect on each topic occurs:  *)
(* the target it gives, "nomatch", or "empty" where the substitution is   *)
(* the empty string.  A topic is its number of partitions, 0 if it does   *)
(* not exist.  Others create, extend and delete source topics at any      *)
(* time; target topics they only create and extend.                       *)
(***************************************************************************)
EXTENDS Naturals

CONSTANTS
  Topic,          \* source topics that may exist
  Target,         \* target topics that may exist
  None,           \* no target
  RuleCount,      \* regex mappings, in the order of the configuration
  MaxPartitions,  \* bound: partitions of a topic
  MaxStarts,      \* bound: mirrors created for the job
  MaxChanges      \* bound: topics created, extended or deleted by others

ASSUME DiscoveryAssumption ==
  /\ {None, "nomatch", "empty"} \cap Target = {}
  /\ RuleCount \in Nat /\ MaxPartitions \in Nat
  /\ MaxStarts \in Nat /\ MaxChanges \in Nat

Rules == 1 .. RuleCount
Count == 0 .. MaxPartitions

VARIABLES
  exact, rules,     \* the configuration of the job
  source, target,   \* partitions of the topics of both clusters
  mode,             \* "down", "resolved", "validate", "running" or "ended"
  topicMap,         \* target of each mapped topic, or None
  targetPartitions, \* partitions the mirror believes a target has, or 0
  subscribed,       \* topics the consumer is subscribed to
  step,             \* discovery: "off", "sleep", "scan", "publish", "subscribe"
  seen,             \* the source topics as last fetched
  todo,             \* what is left to validate or to scan
  at,               \* the match in hand of the discovery, or None
  copiedTo,         \* history: which topic was copied to which target
  found,            \* history: targets the discovery did not have to create
  sized,            \* history: a mapped topic's partitions when it was mapped
  starts, changes

configVars  == <<exact, rules>>
clusterVars == <<source, target>>
mapVars     == <<topicMap, targetPartitions, subscribed, sized>>
scanVars    == <<step, seen, todo, at>>
countVars   == <<starts, changes>>
vars == <<configVars, clusterVars, mode, mapVars, scanVars, copiedTo, found,
          countVars>>

TypeOK ==
  /\ exact \in [Topic -> Target \cup {None}]
  /\ rules \in [Rules -> [Topic -> Target \cup {"nomatch", "empty"}]]
  /\ source \in [Topic -> Count] /\ target \in [Target -> Count]
  /\ mode \in {"down", "resolved", "validate", "running", "ended"}
  /\ topicMap \in [Topic -> Target \cup {None}]
  /\ targetPartitions \in [Target -> Count]
  /\ subscribed \in SUBSET Topic
  /\ step \in {"off", "sleep", "scan", "publish", "subscribe"}
  /\ seen \in [Topic -> Count]
  /\ todo \in SUBSET ((0 .. RuleCount) \X Topic)
  /\ at \in (Rules \X Topic) \cup {None}
  /\ copiedTo \in SUBSET (Topic \X Target)
  /\ found \in SUBSET Target
  /\ sized \in [Topic -> Count]
  /\ starts \in Nat /\ changes \in Nat

Nothing == [t \in Topic |-> None]
Unknown == [g \in Target |-> 0]
Absent  == [t \in Topic |-> 0]

(* What rule r says of topic t of a list of topics.                       *)
Matches(r, t, list) == list[t] > 0 /\ rules[r][t] # "nomatch"
Matched(list)       == {m \in Rules \X Topic : Matches(m[1], m[2], list)}
TargetOf(m)         == rules[m[1]][m[2]]

Init ==
  /\ exact \in [Topic -> Target \cup {None}]
  /\ rules \in [Rules -> [Topic -> Target \cup {"nomatch", "empty"}]]
  /\ source = Absent /\ target = Unknown
  /\ mode = "down"
  /\ topicMap = Nothing /\ targetPartitions = Unknown /\ subscribed = {}
  /\ step = "off" /\ seen = Absent /\ todo = {} /\ at = None
  /\ copiedTo = {} /\ found = {} /\ sized = Absent
  /\ starts = 0 /\ changes = 0
-----------------------------------------------------------------------------
(* Others create, extend and delete topics of the source ...              *)
ChangeSource(t, n) ==
  /\ changes < MaxChanges
  /\ n > source[t] \/ (n = 0 /\ source[t] > 0)
  /\ source' = [source EXCEPT ![t] = n]
  /\ changes' = changes + 1
  /\ UNCHANGED <<configVars, target, mode, mapVars, scanVars, copiedTo,
                 found, starts>>

(* ... and create and extend topics of the target.                        *)
ChangeTarget(g, n) ==
  /\ changes < MaxChanges
  /\ n > target[g]
  /\ target' = [target EXCEPT ![g] = n]
  /\ changes' = changes + 1
  /\ UNCHANGED <<configVars, source, mode, mapVars, scanVars, copiedTo,
                 found, starts>>
-----------------------------------------------------------------------------
(* resolveTopicMappings accepts the topics of the source: every match has *)
(* a target, a topic has one target, and a target that a rule gives has   *)
(* one source.  Two exact mappings are not compared with each other; the  *)
(* reverse map holds any one of them, which a rule may confirm.           *)
Resolvable(list) ==
  /\ \A m \in Matched(list) : TargetOf(m) # "empty"
  /\ \A m \in Matched(list) : exact[m[2]] \in {None, TargetOf(m)}
  /\ \A m, n \in Matched(list) : (m[2] = n[2]) <=> (TargetOf(m) = TargetOf(n))
  /\ \E holder \in [Target -> Topic] :
       /\ \A g \in Target :
            (\E t \in Topic : exact[t] = g) => exact[holder[g]] = g
       /\ \A m \in Matched(list) :
            (\E t \in Topic : exact[t] = TargetOf(m)) => holder[TargetOf(m)] = m[2]

(* NewKafMirror lists the source topics and resolves the mapping; with an *)
(* error there is no mirror, and nothing has changed.                     *)
Resolve ==
  /\ mode = "down"
  /\ starts < MaxStarts
  /\ Resolvable(source)
  /\ starts' = starts + 1
  /\ mode' = "resolved"
  /\ topicMap' =
       [t \in Topic |->
          IF \E r \in Rules : Matches(r, t, source)
          THEN TargetOf(CHOOSE m \in Matched(source) : m[2] = t)
          ELSE exact[t]]
  /\ UNCHANGED <<configVars, clusterVars, targetPartitions, subscribed, sized,
                 scanVars, copiedTo, found, changes>>

Mapped == {t \in Topic : topicMap[t] # None}

(* validateAndSyncClusters lists the topics again.                        *)
BeginValidate ==
  /\ mode = "resolved"
  /\ mode' = "validate"
  /\ seen' = source
  /\ todo' = {0} \X Mapped
  /\ UNCHANGED <<configVars, clusterVars, mapVars, step, at, copiedTo, found,
                 countVars>>

(* EnsureTopicExists creates a topic that is missing and takes any other. *)
Ensured(g, n) == IF target[g] = 0 THEN [target EXCEPT ![g] = n] ELSE target

(* Mutant of Compatible: ValidateTopicCompatibility finds nothing wrong.  *)
CompatibleAlways(n, m) == TRUE

(* ValidateTopicCompatibility of a source and a target topic.             *)
Compatible(n, m) == n = m

(* A mapping is valid if its source exists, its target can be had, and    *)
(* both have the same number of partitions.                               *)
ValidateTopic(t) ==
  /\ mode = "validate"
  /\ <<0, t>> \in todo
  /\ LET g == topicMap[t] IN
       /\ seen[t] > 0
       /\ target' = Ensured(g, seen[t])
       /\ Compatible(seen[t], target'[g])
       /\ targetPartitions' = [targetPartitions EXCEPT ![g] = target'[g]]
  /\ sized' = [sized EXCEPT ![t] = seen[t]]
  /\ todo' = todo \ {<<0, t>>}
  /\ UNCHANGED <<configVars, source, mode, topicMap, subscribed, step, seen,
                 at, copiedTo, found, countVars>>

(* A mapping that is not, or a cluster that does not answer, is an error; *)
(* what was created on the target stays.                                  *)
ValidateFails ==
  /\ mode = "validate"
  /\ todo # {}
  /\ mode' = "down"
  /\ topicMap' = Nothing /\ targetPartitions' = Unknown /\ sized' = Absent
  /\ todo' = {}
  /\ UNCHANGED <<configVars, clusterVars, subscribed, step, seen, at,
                 copiedTo, found, countVars>>

(* NewConsumer subscribes to the resolved topics; Start.                  *)
Start ==
  /\ mode = "validate"
  /\ todo = {}
  /\ mode' = "running"
  /\ subscribed' = Mapped
  /\ step' = IF RuleCount > 0 THEN "sleep" ELSE "off"
  /\ UNCHANGED <<configVars, clusterVars, topicMap, targetPartitions, sized,
                 seen, todo, at, copiedTo, found, countVars>>

(* The mirror is stopped, or has shut itself down, and is forgotten.      *)
Stop ==
  /\ mode \in {"running", "ended"}
  /\ step \in {"off", "sleep"}
  /\ mode' = "down"
  /\ topicMap' = Nothing /\ targetPartitions' = Unknown /\ subscribed' = {}
  /\ step' = "off" /\ todo' = {} /\ found' = {} /\ sized' = Absent
  /\ UNCHANGED <<configVars, clusterVars, seen, at, copiedTo, countVars>>
-----------------------------------------------------------------------------
(* A tick of discoverTopicsLoop: the source topics are listed.            *)
Tick ==
  /\ mode = "running"
  /\ step = "sleep"
  /\ seen' = source
  /\ todo' = Matched(source)
  /\ step' = "scan"
  /\ UNCHANGED <<configVars, clusterVars, mode, mapVars, at, copiedTo, found,
                 countVars>>

(* Mutant of Turn: the rules are gone through in any order.               *)
TurnAny(m) == m \in todo

(* The matches are gone through rule by rule.                             *)
Turn(m) == m \in todo /\ \A n \in todo : m[1] <= n[1]

(* A topic that is mapped already is passed over.                         *)
ScanKnown(m) ==
  /\ step = "scan"
  /\ Turn(m)
  /\ topicMap[m[2]] # None
  /\ todo' = todo \ {m}
  /\ UNCHANGED <<configVars, clusterVars, mode, mapVars, step, seen, at,
                 copiedTo, found, countVars>>

(* Mutant of Free: a target may be shared.                                *)
FreeAlways(g) == TRUE

(* No other topic is mapped to g.                                         *)
Free(g) == \A t \in Topic : topicMap[t] # g

(* The target of a new topic is created unless it exists.                 *)
ScanNew(m) ==
  /\ step = "scan"
  /\ Turn(m)
  /\ topicMap[m[2]] = None
  /\ TargetOf(m) # "empty" /\ Free(TargetOf(m))
  /\ LET g == TargetOf(m) IN
       /\ target' = Ensured(g, seen[m[2]])
       /\ found' = IF target[g] > 0 THEN found \cup {g} ELSE found
  /\ at' = m
  /\ step' = "publish"
  /\ UNCHANGED <<configVars, source, mode, mapVars, seen, todo, copiedTo,
                 countVars>>

(* Mutant of Publish: the consumer is subscribed first.                   *)
PublishLate ==
  /\ step = "publish"
  /\ subscribed' = subscribed \cup {at[2]}
  /\ step' = "subscribe"
  /\ UNCHANGED <<configVars, clusterVars, mode, topicMap, targetPartitions,
                 sized, seen, todo, at, copiedTo, found, countVars>>

(* Under mapMu, the maps get the new topic.                               *)
Publish ==
  /\ step = "publish"
  /\ topicMap' = [topicMap EXCEPT ![at[2]] = TargetOf(at)]
  /\ targetPartitions' = [targetPartitions EXCEPT ![TargetOf(at)] = seen[at[2]]]
  /\ sized' = [sized EXCEPT ![at[2]] = seen[at[2]]]
  /\ step' = "subscribe"
  /\ UNCHANGED <<configVars, clusterVars, mode, subscribed, seen, todo, at,
                 copiedTo, found, countVars>>

(* AddTopics.                                                             *)
Subscribe ==
  /\ step = "subscribe"
  /\ subscribed' = subscribed \cup {at[2]}
  /\ todo' = todo \ {at}
  /\ at' = None
  /\ step' = "scan"
  /\ UNCHANGED <<configVars, clusterVars, mode, topicMap, targetPartitions,
                 sized, seen, copiedTo, found, countVars>>

ScanDone ==
  /\ step = "scan"
  /\ todo = {}
  /\ step' = "sleep"
  /\ UNCHANGED <<configVars, clusterVars, mode, mapVars, seen, todo, at,
                 copiedTo, found, countVars>>

(* A cluster that does not answer, or a target that is empty, is taken or *)
(* cannot be created, ends the mirror.                                    *)
ScanFails ==
  /\ mode = "running"
  /\ \/ step = "sleep"
     \/ step = "scan" /\ \E m \in todo : Turn(m) /\ topicMap[m[2]] = None
  /\ mode' = "ended"
  /\ step' = "off"
  /\ todo' = {}
  /\ UNCHANGED <<configVars, clusterVars, mapVars, seen, at, copiedTo, found,
                 countVars>>
-----------------------------------------------------------------------------
(* What handleRecord does with a record of topic t: it looks t up in the  *)
(* map, and if it is not there takes the first rule that matches, unless  *)
(* that one gives nothing.                                                *)
Destination(t) ==
  IF topicMap[t] # None
  THEN {topicMap[t]}
  ELSE {rules[r][t] : r \in {q \in Rules :
                               /\ rules[q][t] # "nomatch"
                               /\ \A p \in 1 .. (q - 1) :
                                    rules[p][t] = "nomatch"}} \ {"empty"}

HandleRecord(t) ==
  /\ mode \in {"running", "ended"}
  /\ t \in subscribed
  /\ \E g \in Destination(t) : copiedTo' = copiedTo \cup {<<t, g>>}
  /\ UNCHANGED <<configVars, clusterVars, mode, mapVars, scanVars, found,
                 countVars>>

Discover ==
  \/ Tick \/ Publish \/ Subscribe \/ ScanDone \/ ScanFails
  \/ \E m \in Rules \X Topic : ScanKnown(m) \/ ScanNew(m)

Next ==
  \/ \E t \in Topic : \E n \in Count : ChangeSource(t, n)
  \/ \E g \in Target : \E n \in Count : ChangeTarget(g, n)
  \/ Resolve \/ BeginValidate \/ ValidateFails \/ Start \/ Stop
  \/ \E t \in Topic : ValidateTopic(t) \/ HandleRecord(t)
  \/ Discover

Spec == Init /\ [][Next]_vars
-----------------------------------------------------------------------------
(* A topic is mapped, and its target is there, before the consumer        *)
(* subscribes to it: no record of it is passed over, or sent where        *)
(* handleRecord's own reading of the rules would send it.                 *)
SubscribedIsMapped ==
  \A t \in subscribed : topicMap[t] # None /\ target[topicMap[t]] > 0

(* Two topics are merged into one target only by two exact mappings,      *)
(* whether topics were there at the start or discovered later.            *)
OneSourcePerTarget ==
  \A t, u \in Topic :
    t # u /\ topicMap[t] # None /\ topicMap[t] = topicMap[u] =>
      topicMap[t] = exact[t] /\ topicMap[u] = exact[u]

(* However often the job is restarted and whatever it discovers, a topic  *)
(* is copied to one target only.                                          *)
OneTargetEver ==
  \A a, b \in copiedTo : a[1] = b[1] => a[2] = b[2]

(* Partitions are aligned: the target of a mapped topic has the           *)
(* partitions recorded for it, and the topic had no more of them in the   *)
(* listing by which it was mapped, whatever others did to either topic    *)
(* between the listing, the making of the target and the record.  A       *)
(* target that the discovery finds is excepted: it does not compare.      *)
PartitionCountsTrue ==
  \A t \in Topic :
    LET g == topicMap[t] IN
      g \notin found \cup {None} =>
        sized[t] <= targetPartitions[g] /\ targetPartitions[g] <= target[g]
=============================================================================
