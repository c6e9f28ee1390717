----------------------- MODULE TopicDiscovery_proofs -----------------------
(***************************************************************************)
(* Proofs about TopicDiscovery, for any topics, targets, rules and        *)
(* bounds.  The mapping is right because each step of the discovery can   *)
(* rely on what the steps before it established: MapInv says what.        *)
(***************************************************************************)
EXTENDS TopicDiscovery, TLAPS

(* The target of a mapped topic is there, but for those that are still    *)
(* to be validated.                                                       *)
TargetsThere ==
  \A t \in Topic :
    topicMap[t] # None =>
      \/ target[topicMap[t]] > 0
      \/ mode = "resolved"
      \/ mode = "validate" /\ <<0, t>> \in todo

(* Nothing is subscribed, and nothing discovered, without a running       *)
(* mirror; what it subscribes to is mapped.                               *)
Subscriptions ==
  /\ mode \notin {"running", "ended"} => subscribed = {} /\ step = "off"
  /\ mode = "ended" => step = "off"
  /\ mode = "down" => topicMap = Nothing
  /\ \A t \in subscribed : topicMap[t] # None

(* The discovery works through matches of the rules; the one in hand has  *)
(* a target that is there, not taken before it is published, and mapped   *)
(* after.                                                                 *)
ScanInv ==
  /\ mode = "validate" => todo \subseteq {0} \X Mapped
  /\ step # "off" => todo \subseteq Matched(seen)
  /\ step \in {"publish", "subscribe"} => at \in Matched(seen)
  /\ step = "publish" =>
       /\ TargetOf(at) \in Target
       /\ topicMap[at[2]] = None
       /\ Free(TargetOf(at))
       /\ target[TargetOf(at)] > 0
  /\ step = "subscribe" => topicMap[at[2]] # None

MapInv ==
  /\ TypeOK
  /\ TargetsThere
  /\ Subscriptions
  /\ ScanInv
  /\ OneSourcePerTarget
-----------------------------------------------------------------------------
(* A match names a topic and, if it is not empty, a target.               *)
LEMMA MatchTarget ==
  ASSUME TypeOK, NEW list \in [Topic -> Count], NEW m \in Matched(list)
  PROVE  /\ m = <<m[1], m[2]>> /\ m[1] \in Rules /\ m[2] \in Topic
         /\ m \in (0 .. RuleCount) \X Topic
         /\ TargetOf(m) \in Target \cup {"empty"}
         /\ list[m[2]] > 0
<1>1. m \in Rules \X Topic /\ Matches(m[1], m[2], list)
  BY DEF Matched
<1>2. m = <<m[1], m[2]>> /\ m[1] \in Rules /\ m[2] \in Topic
  BY <1>1
<1>3. rules[m[1]][m[2]] \in Target \cup {"nomatch", "empty"}
  BY <1>2 DEF TypeOK
<1>4. m[1] \in 0 .. RuleCount
  BY <1>2, DiscoveryAssumption DEF Rules
<1> QED
  BY <1>1, <1>2, <1>3, <1>4 DEF Matches, TargetOf

(* What a start maps: each matched topic to the target of its match, and  *)
(* each other topic to its exact target.                                  *)
LEMMA Resolution ==
  ASSUME TypeOK, Resolve
  PROVE  \A t \in Topic :
           \/ \E m \in Matched(source) :
                /\ m[2] = t
                /\ topicMap'[t] = TargetOf(m) /\ TargetOf(m) \in Target
           \/ /\ \A m \in Matched(source) : m[2] # t
              /\ topicMap'[t] = exact[t]
<1> SUFFICES ASSUME NEW t \in Topic
             PROVE  \/ \E m \in Matched(source) :
                         /\ m[2] = t
                         /\ topicMap'[t] = TargetOf(m) /\ TargetOf(m) \in Target
                    \/ /\ \A m \in Matched(source) : m[2] # t
                       /\ topicMap'[t] = exact[t]
  OBVIOUS
<1>1. source \in [Topic -> Count]
  BY DEF TypeOK
<1>2. topicMap'[t] = IF \E r \in Rules : Matches(r, t, source)
                     THEN TargetOf(CHOOSE m \in Matched(source) : m[2] = t)
                     ELSE exact[t]
  BY DEF Resolve
<1>3. CASE \E r \in Rules : Matches(r, t, source)
  <2>1. PICK r \in Rules : Matches(r, t, source)
    BY <1>3
  <2>2. <<r, t>> \in Matched(source) /\ <<r, t>>[2] = t
    BY <2>1 DEF Matched
  <2> DEFINE c == CHOOSE m \in Matched(source) : m[2] = t
  <2>3. c \in Matched(source) /\ c[2] = t
    BY <2>2
  <2>4. TargetOf(c) # "empty"
    BY <2>3 DEF Resolve, Resolvable
  <2>5. TargetOf(c) \in Target \cup {"empty"}
    BY <1>1, <2>3, MatchTarget
  <2>6. topicMap'[t] = TargetOf(c)
    BY <1>2, <1>3
  <2> QED
    BY <2>3, <2>4, <2>5, <2>6
<1>4. CASE ~ \E r \in Rules : Matches(r, t, source)
  <2>1. ASSUME NEW m \in Matched(source), m[2] = t
        PROVE  FALSE
    <3>1. m[1] \in Rules /\ Matches(m[1], m[2], source)
      BY DEF Matched
    <3> QED
      BY <1>4, <2>1, <3>1
  <2> QED
    BY <1>2, <1>4, <2>1
<1> QED
  BY <1>3, <1>4

(* No step takes a target topic away.                                     *)
LEMMA TargetsStay ==
  ASSUME TypeOK, Next
  PROVE  \A g \in Target : target[g] > 0 => target'[g] > 0
<1> SUFFICES ASSUME NEW g \in Target, target[g] > 0
             PROVE  target'[g] > 0
  OBVIOUS
<1>0. target \in [Target -> Nat]
  BY DiscoveryAssumption DEF TypeOK, Count
<1>1. CASE \E h \in Target : \E n \in Count : ChangeTarget(h, n)
  BY <1>0, <1>1, DiscoveryAssumption DEF ChangeTarget, Count
<1>2. CASE \E t \in Topic : ValidateTopic(t)
  BY <1>0, <1>2 DEF ValidateTopic, Ensured
<1>3. CASE \E m \in Rules \X Topic : ScanNew(m)
  BY <1>0, <1>3 DEF ScanNew, Ensured
<1>4. CASE target' = target
  BY <1>4
<1> QED
  BY <1>1, <1>2, <1>3, <1>4
     DEF Next, Discover, ChangeSource, Resolve, BeginValidate, ValidateFails,
         Start, Stop, HandleRecord, Tick, ScanKnown, Publish, Subscribe,
         ScanDone, ScanFails, clusterVars
-----------------------------------------------------------------------------
LEMMA MappingTypes ==
  ASSUME MapInv, Next
  PROVE  /\ mode' \in {"down", "resolved", "validate", "running", "ended"}
         /\ topicMap' \in [Topic -> Target \cup {None}]
         /\ subscribed' \in SUBSET Topic
<1> USE DEF MapInv
<1>1. CASE Resolve
  <2>1. \A t \in Topic : topicMap'[t] \in Target \cup {None}
    BY <1>1, Resolution DEF TypeOK
  <2>2. topicMap' = [t \in Topic |-> topicMap'[t]]
    BY <1>1 DEF Resolve
  <2> QED
    BY <1>1, <2>1, <2>2 DEF Resolve, TypeOK
<1>2. CASE Publish
  <2>1. at[2] \in Topic /\ TargetOf(at) \in Target
    BY <1>2, MatchTarget DEF Publish, ScanInv, TypeOK
  <2> QED
    BY <1>2, <2>1 DEF Publish, TypeOK
<1>3. CASE Subscribe
  <2>1. at[2] \in Topic
    BY <1>3, MatchTarget DEF Subscribe, ScanInv, TypeOK
  <2> QED
    BY <1>3, <2>1 DEF Subscribe, TypeOK
<1>4. CASE BeginValidate \/ ValidateFails \/ Start \/ Stop \/ Tick \/ ScanDone
             \/ ScanFails
  BY <1>4 DEF BeginValidate, ValidateFails, Start, Stop, Tick, ScanDone,
              ScanFails, mapVars, Mapped, Nothing, TypeOK
<1>5. CASE UNCHANGED <<mode, topicMap, subscribed>>
  BY <1>5 DEF TypeOK
<1> QED
  BY <1>1, <1>2, <1>3, <1>4, <1>5
     DEF Next, Discover, ChangeSource, ChangeTarget, ValidateTopic,
         HandleRecord, ScanKnown, ScanNew, mapVars

LEMMA ClusterTypes ==
  ASSUME MapInv, Next
  PROVE  /\ source' \in [Topic -> Count] /\ target' \in [Target -> Count]
         /\ targetPartitions' \in [Target -> Count]
         /\ exact' = exact /\ rules' = rules
         /\ starts' \in Nat /\ changes' \in Nat
<1> USE DEF MapInv
<1>0. 0 \in Count
  BY DiscoveryAssumption DEF Count
<1>1. CASE \E t \in Topic : \E n \in Count : ChangeSource(t, n)
  BY <1>1 DEF ChangeSource, configVars, mapVars, TypeOK
<1>2. CASE \E g \in Target : \E n \in Count : ChangeTarget(g, n)
  BY <1>2 DEF ChangeTarget, configVars, mapVars, TypeOK
<1>3. ASSUME NEW t \in Topic, ValidateTopic(t)
      PROVE  /\ source' \in [Topic -> Count] /\ target' \in [Target -> Count]
             /\ targetPartitions' \in [Target -> Count]
             /\ exact' = exact /\ rules' = rules
             /\ starts' \in Nat /\ changes' \in Nat
  <2>1. topicMap[t] \in Target /\ seen[t] \in Count
    BY <1>3 DEF ValidateTopic, ScanInv, Mapped, TypeOK
  <2>2. target' \in [Target -> Count]
    BY <1>3, <2>1 DEF ValidateTopic, Ensured, TypeOK
  <2> QED
    BY <1>3, <2>1, <2>2 DEF ValidateTopic, configVars, countVars, TypeOK
<1>4. ASSUME NEW m \in Rules \X Topic, ScanNew(m)
      PROVE  /\ source' \in [Topic -> Count] /\ target' \in [Target -> Count]
             /\ targetPartitions' \in [Target -> Count]
             /\ exact' = exact /\ rules' = rules
             /\ starts' \in Nat /\ changes' \in Nat
  <2>1. m \in Matched(seen)
    BY <1>4 DEF ScanNew, Turn, ScanInv
  <2>2. TargetOf(m) \in Target /\ seen[m[2]] \in Count
    BY <1>4, <2>1, MatchTarget DEF ScanNew, TypeOK
  <2> QED
    BY <1>4, <2>2 DEF ScanNew, Ensured, configVars, mapVars, countVars, TypeOK
<1>5. CASE Publish
  <2>1. TargetOf(at) \in Target /\ seen[at[2]] \in Count
    BY <1>5, MatchTarget DEF Publish, ScanInv, TypeOK
  <2> QED
    BY <1>5, <2>1 DEF Publish, configVars, clusterVars, countVars, TypeOK
<1>6. CASE Resolve \/ ValidateFails \/ Stop
  BY <1>0, <1>6
     DEF Resolve, ValidateFails, Stop, Unknown, configVars, clusterVars,
         countVars, TypeOK
<1>7. CASE UNCHANGED <<configVars, clusterVars, targetPartitions, countVars>>
  BY <1>7 DEF configVars, clusterVars, countVars, TypeOK
<1> QED
  BY <1>1, <1>2, <1>3, <1>4, <1>5, <1>6, <1>7
     DEF Next, Discover, BeginValidate, Start, HandleRecord, Tick, ScanKnown,
         Subscribe, ScanDone, ScanFails, mapVars

LEMMA ScanTypes ==
  ASSUME MapInv, Next
  PROVE  /\ step' \in {"off", "sleep", "scan", "publish", "subscribe"}
         /\ seen' \in [Topic -> Count]
         /\ todo' \in SUBSET ((0 .. RuleCount) \X Topic)
         /\ at' \in (Rules \X Topic) \cup {None}
         /\ copiedTo' \in SUBSET (Topic \X Target)
         /\ found' \in SUBSET Target
<1> USE DEF MapInv
<1>1. CASE BeginValidate
  BY <1>1, DiscoveryAssumption DEF BeginValidate, Mapped, TypeOK
<1>2. CASE Tick
  <2>1. todo' \subseteq (0 .. RuleCount) \X Topic
    BY <1>2, MatchTarget DEF Tick, TypeOK
  <2> QED
    BY <1>2, <2>1 DEF Tick, TypeOK
<1>3. ASSUME NEW m \in Rules \X Topic, ScanNew(m)
      PROVE  /\ step' \in {"off", "sleep", "scan", "publish", "subscribe"}
             /\ seen' \in [Topic -> Count]
             /\ todo' \in SUBSET ((0 .. RuleCount) \X Topic)
             /\ at' \in (Rules \X Topic) \cup {None}
             /\ copiedTo' \in SUBSET (Topic \X Target)
             /\ found' \in SUBSET Target
  <2>1. m \in Matched(seen)
    BY <1>3 DEF ScanNew, Turn, ScanInv
  <2>2. TargetOf(m) \in Target
    BY <1>3, <2>1, MatchTarget DEF ScanNew, TypeOK
  <2> QED
    BY <1>3, <2>2 DEF ScanNew, TypeOK
<1>4. ASSUME NEW t \in Topic, HandleRecord(t)
      PROVE  copiedTo' \in SUBSET (Topic \X Target)
  <2>1. topicMap[t] \in Target
    BY <1>4 DEF HandleRecord, Subscriptions, TypeOK
  <2>2. Destination(t) = {topicMap[t]}
    BY <1>4 DEF HandleRecord, Subscriptions, Destination
  <2> QED
    BY <1>4, <2>1, <2>2 DEF HandleRecord, TypeOK
<1>5. CASE \E t \in Topic : ValidateTopic(t)
  BY <1>5 DEF ValidateTopic, TypeOK
<1>6. CASE \E m \in Rules \X Topic : ScanKnown(m)
  BY <1>6 DEF ScanKnown, TypeOK
<1>7. CASE ValidateFails \/ Start \/ Stop \/ Publish \/ Subscribe \/ ScanDone
             \/ ScanFails
  BY <1>7 DEF ValidateFails, Start, Stop, Publish, Subscribe, ScanDone,
              ScanFails, TypeOK
<1>8. CASE UNCHANGED <<scanVars, copiedTo, found>>
  BY <1>8 DEF scanVars, TypeOK
<1>9. CASE UNCHANGED <<scanVars, found>> /\ \E t \in Topic : HandleRecord(t)
  BY <1>9, <1>4 DEF scanVars, TypeOK
<1> QED
  BY <1>1, <1>2, <1>3, <1>5, <1>6, <1>7, <1>8, <1>9
     DEF Next, Discover, ChangeSource, ChangeTarget, Resolve, HandleRecord

LEMMA SizedTypes ==
  ASSUME MapInv, Next
  PROVE  sized' \in [Topic -> Count]
<1> USE DEF MapInv
<1>1. CASE \E t \in Topic : ValidateTopic(t)
  BY <1>1 DEF ValidateTopic, TypeOK
<1>2. CASE Publish
  <2>1. seen[at[2]] \in Count
    BY <1>2, MatchTarget DEF Publish, ScanInv, TypeOK
  <2> QED
    BY <1>2, <2>1 DEF Publish, TypeOK
<1>3. CASE ValidateFails \/ Stop
  BY <1>3, DiscoveryAssumption DEF ValidateFails, Stop, Absent, Count
<1>4. CASE UNCHANGED sized
  BY <1>4 DEF TypeOK
<1> QED
  BY <1>1, <1>2, <1>3, <1>4
     DEF Next, Discover, ChangeSource, ChangeTarget, Resolve, BeginValidate,
         Start, HandleRecord, Tick, ScanKnown, ScanNew, Subscribe, ScanDone,
         ScanFails, mapVars

LEMMA TypesKept ==
  ASSUME MapInv, Next
  PROVE  TypeOK'
<1>1. exact' \in [Topic -> Target \cup {None}]
  BY ClusterTypes DEF MapInv, TypeOK
<1>2. rules' \in [Rules -> [Topic -> Target \cup {"nomatch", "empty"}]]
  BY ClusterTypes DEF MapInv, TypeOK
<1> QED
  BY <1>1, <1>2, MappingTypes, ClusterTypes, ScanTypes, SizedTypes DEF TypeOK
-----------------------------------------------------------------------------
LEMMA TargetsThereKept ==
  ASSUME MapInv, Next
  PROVE  TargetsThere'
<1> USE DEF MapInv
<1>1. TypeOK' /\ \A g \in Target : target[g] > 0 => target'[g] > 0
  BY TypesKept, TargetsStay
<1>2. SUFFICES ASSUME NEW t \in Topic, topicMap'[t] # None
               PROVE  \/ target'[topicMap'[t]] > 0
                      \/ mode' = "resolved"
                      \/ mode' = "validate" /\ <<0, t>> \in todo'
  BY DEF TargetsThere
<1>3. CASE Resolve
  BY <1>3 DEF Resolve
<1>4. CASE BeginValidate
  BY <1>2, <1>4 DEF BeginValidate, Mapped, mapVars
<1>5. ASSUME NEW u \in Topic, ValidateTopic(u)
      PROVE  \/ target'[topicMap'[t]] > 0
             \/ mode' = "validate" /\ <<0, t>> \in todo'
  <2>1. topicMap' = topicMap /\ mode' = mode /\ mode = "validate"
    BY <1>5 DEF ValidateTopic
  <2>2. CASE t = u
    <3>1. target'[topicMap[t]] = seen[t] /\ seen[t] > 0
      BY <1>5, <2>2 DEF ValidateTopic, Compatible
    <3> QED
      BY <2>1, <3>1
  <2>3. CASE t # u
    <3>1. <<0, t>> \in todo => <<0, t>> \in todo'
      BY <1>5, <2>3 DEF ValidateTopic
    <3>2. topicMap[t] \in Target
      BY <1>2, <2>1 DEF TypeOK
    <3> QED
      BY <1>1, <1>2, <2>1, <3>1, <3>2 DEF TargetsThere
  <2> QED
    BY <2>2, <2>3
<1>6. CASE ValidateFails \/ Stop
  BY <1>2, <1>6 DEF ValidateFails, Stop, Nothing
<1>7. CASE Publish
  <2>1. mode = "running" /\ at[2] \in Topic
    BY <1>7, MatchTarget DEF Publish, Subscriptions, ScanInv, TypeOK
  <2>2. target' = target /\ topicMap \in [Topic -> Target \cup {None}]
    BY <1>7 DEF Publish, clusterVars, TypeOK
  <2>3. topicMap'[t] = IF t = at[2] THEN TargetOf(at) ELSE topicMap[t]
    BY <1>7, <2>2 DEF Publish
  <2>4. target[TargetOf(at)] > 0
    BY <1>7 DEF Publish, ScanInv
  <2> QED
    BY <1>2, <2>1, <2>2, <2>3, <2>4 DEF TargetsThere
<1>8. CASE /\ topicMap' = topicMap
           /\ mode \in {"running", "ended"} \/ (mode = "validate" /\ todo = {})
  <2>1. topicMap[t] \in Target
    BY <1>2, <1>8 DEF TypeOK
  <2> QED
    BY <1>1, <1>2, <1>8, <2>1 DEF TargetsThere
<1>9. CASE topicMap' = topicMap /\ mode' = mode /\ todo' = todo
  <2>1. topicMap[t] \in Target
    BY <1>2, <1>9 DEF TypeOK
  <2> QED
    BY <1>1, <1>2, <1>9, <2>1 DEF TargetsThere
<1>10. CASE Start \/ HandleRecord(t) \/ Tick \/ Subscribe \/ ScanDone \/ ScanFails
              \/ \E m \in Rules \X Topic : ScanKnown(m) \/ ScanNew(m)
  <2>1. topicMap' = topicMap
    BY <1>10 DEF Start, HandleRecord, Tick, Subscribe, ScanDone, ScanFails,
                 ScanKnown, ScanNew, mapVars
  <2>2. mode \in {"running", "ended"} \/ (mode = "validate" /\ todo = {})
    BY <1>10 DEF Start, HandleRecord, Tick, Subscribe, ScanDone, ScanFails,
                 ScanKnown, ScanNew, Subscriptions, TypeOK
  <2> QED
    BY <1>8, <2>1, <2>2
<1> QED
  BY <1>3, <1>4, <1>5, <1>6, <1>7, <1>9, <1>10
     DEF Next, Discover, ChangeSource, ChangeTarget, HandleRecord, mapVars,
         scanVars

LEMMA SubscriptionsKept ==
  ASSUME MapInv, Next
  PROVE  Subscriptions'
<1> USE DEF MapInv
<1>1. CASE Resolve
  BY <1>1 DEF Resolve, scanVars, Subscriptions
<1>2. CASE BeginValidate \/ ValidateFails \/ Stop
  BY <1>2 DEF BeginValidate, ValidateFails, Stop, mapVars, Subscriptions
<1>3. CASE Start
  BY <1>3 DEF Start, Mapped, Subscriptions
<1>4. CASE Publish
  <2>1. at[2] \in Topic /\ TargetOf(at) \in Target
    BY <1>4, MatchTarget DEF Publish, ScanInv, TypeOK
  <2>2. mode = "running" /\ mode' = "running"
    BY <1>4 DEF Publish, Subscriptions, TypeOK
  <2>3. \A t \in subscribed : topicMap'[t] # None
    BY <1>4, <2>1, DiscoveryAssumption DEF Publish, Subscriptions, TypeOK
  <2> QED
    BY <1>4, <2>2, <2>3 DEF Publish, Subscriptions
<1>5. CASE Subscribe
  BY <1>5 DEF Subscribe, ScanInv, Subscriptions
<1>6. CASE \E m \in Rules \X Topic : ScanKnown(m) \/ ScanNew(m)
  BY <1>6 DEF ScanKnown, ScanNew, mapVars, Subscriptions
<1>7. CASE Tick \/ ScanDone \/ ScanFails
  BY <1>7 DEF Tick, ScanDone, ScanFails, mapVars, Subscriptions
<1>8. CASE \E t \in Topic : ValidateTopic(t)
  BY <1>8 DEF ValidateTopic, Subscriptions
<1>9. CASE UNCHANGED <<mode, mapVars, step>>
  BY <1>9 DEF mapVars, Subscriptions
<1> QED
  BY <1>1, <1>2, <1>3, <1>4, <1>5, <1>6, <1>7, <1>8, <1>9
     DEF Next, Discover, ChangeSource, ChangeTarget, HandleRecord, scanVars

(* What ScanInv says, with the matches of the rules as they are.          *)
LEMMA ScanInvNext ==
  ASSUME rules' = rules,
         mode' = "validate" => todo' \subseteq {0} \X Mapped',
         step' # "off" => todo' \subseteq Matched(seen'),
         step' \in {"publish", "subscribe"} => at' \in Matched(seen'),
         step' = "publish" =>
           /\ TargetOf(at') \in Target
           /\ topicMap'[at'[2]] = None
           /\ \A t \in Topic : topicMap'[t] # TargetOf(at')
           /\ target'[TargetOf(at')] > 0,
         step' = "subscribe" => topicMap'[at'[2]] # None
  PROVE  ScanInv'
BY DEF ScanInv, Matched, Matches, TargetOf, Free

LEMMA ScanInvKept ==
  ASSUME MapInv, Next
  PROVE  ScanInv'
<1> USE DEF MapInv
<1>0. rules' = rules
  BY ClusterTypes
<1>1. CASE Resolve
  <2>1. step' = "off" /\ mode' = "resolved"
    BY <1>1 DEF Resolve, scanVars, Subscriptions
  <2> QED
    BY <1>0, <2>1, ScanInvNext
<1>2. CASE BeginValidate
  <2>1. step' = "off" /\ todo' = {0} \X Mapped'
    BY <1>2 DEF BeginValidate, Subscriptions, mapVars, Mapped
  <2> QED
    BY <1>0, <2>1, ScanInvNext
<1>3. CASE \E t \in Topic : ValidateTopic(t)
  <2>1. step' = "off" /\ todo' \subseteq {0} \X Mapped'
    BY <1>3 DEF ValidateTopic, Subscriptions, Mapped, ScanInv
  <2> QED
    BY <1>0, <2>1, ScanInvNext
<1>4. CASE ValidateFails \/ Start \/ Stop
  <2>1. todo' = {} /\ step' \in {"off", "sleep"} /\ mode' # "validate"
    BY <1>4 DEF ValidateFails, Start, Stop, Subscriptions
  <2> QED
    BY <1>0, <2>1, ScanInvNext
<1>5. CASE Tick
  <2>1. step' = "scan" /\ mode' = "running" /\ todo' = Matched(seen')
    BY <1>5 DEF Tick, Matched, Matches
  <2> QED
    BY <1>0, <2>1, ScanInvNext
<1>6. CASE (\E m \in Rules \X Topic : ScanKnown(m)) \/ ScanDone
  <2>1. /\ step' \in {"scan", "sleep"} /\ mode' # "validate"
        /\ todo' \subseteq Matched(seen')
    BY <1>6 DEF ScanKnown, ScanDone, Subscriptions, ScanInv, TypeOK
  <2> QED
    BY <1>0, <2>1, ScanInvNext
<1>7. ASSUME NEW m \in Rules \X Topic, ScanNew(m)
      PROVE  ScanInv'
  <2>1. m \in Matched(seen)
    BY <1>7 DEF ScanNew, Turn, ScanInv
  <2>2. TargetOf(m) \in Target /\ seen[m[2]] > 0
    BY <1>7, <2>1, MatchTarget DEF ScanNew, TypeOK
  <2>3. target'[TargetOf(m)] > 0
    BY <1>7, <2>2, DiscoveryAssumption DEF ScanNew, Ensured, TypeOK, Count
  <2>4. mode' # "validate" /\ step' = "publish" /\ at' = m /\ seen' = seen
        /\ topicMap' = topicMap /\ todo' \subseteq Matched(seen')
    BY <1>7 DEF ScanNew, mapVars, Subscriptions, ScanInv
  <2>5. topicMap'[m[2]] = None /\ \A t \in Topic : topicMap'[t] # TargetOf(m)
    BY <1>7, <2>4 DEF ScanNew, Free
  <2> QED
    BY <1>0, <2>1, <2>2, <2>3, <2>4, <2>5, ScanInvNext
<1>8. CASE Publish
  <2>1. at[2] \in Topic /\ TargetOf(at) \in Target
    BY <1>8, MatchTarget DEF Publish, ScanInv, TypeOK
  <2>2. topicMap'[at'[2]] # None
    BY <1>8, <2>1, DiscoveryAssumption DEF Publish, TypeOK
  <2>3. /\ mode' # "validate" /\ step' = "subscribe"
        /\ at' \in Matched(seen') /\ todo' \subseteq Matched(seen')
    BY <1>8 DEF Publish, Subscriptions, ScanInv
  <2> QED
    BY <1>0, <2>2, <2>3, ScanInvNext
<1>9. CASE Subscribe \/ ScanFails
  <2>1. /\ mode' # "validate" /\ step' \in {"off", "scan"}
        /\ step' # "off" => todo' \subseteq Matched(seen')
    BY <1>9 DEF Subscribe, ScanFails, Subscriptions, ScanInv
  <2> QED
    BY <1>0, <2>1, ScanInvNext
<1>10. CASE UNCHANGED <<mode, mapVars, scanVars>>
  <2>1. UNCHANGED <<mode, topicMap, step, seen, todo, at>>
    BY <1>10 DEF mapVars, scanVars
  <2>2. Mapped' = Mapped
    BY <2>1 DEF Mapped
  <2>3. step = "publish" => target'[TargetOf(at)] > 0
    BY TargetsStay DEF ScanInv
  <2> QED
    BY <1>0, <2>1, <2>2, <2>3, ScanInvNext DEF ScanInv, Free
<1> QED
  BY <1>1, <1>2, <1>3, <1>4, <1>5, <1>6, <1>7, <1>8, <1>9, <1>10
     DEF Next, Discover, ChangeSource, ChangeTarget, HandleRecord

LEMMA OneSourceKept ==
  ASSUME MapInv, Next
  PROVE  OneSourcePerTarget'
<1> USE DEF MapInv
<1>0. exact' = exact
  BY ClusterTypes
<1>1. CASE Resolve
  <2> SUFFICES ASSUME NEW t \in Topic, NEW u \in Topic, t # u,
                      topicMap'[t] # None, topicMap'[t] = topicMap'[u]
               PROVE  topicMap'[t] = exact[t] /\ topicMap'[u] = exact[u]
    BY <1>0 DEF OneSourcePerTarget
  <2> DEFINE g == topicMap'[t]
  <2>1. PICK holder \in [Target -> Topic] :
          /\ \A h \in Target :
               (\E v \in Topic : exact[v] = h) => exact[holder[h]] = h
          /\ \A m \in Matched(source) :
               (\E v \in Topic : exact[v] = TargetOf(m)) =>
                 holder[TargetOf(m)] = m[2]
    BY <1>1 DEF Resolve, Resolvable
  <2>2. ASSUME NEW v \in Topic, NEW w \in Topic, v # w,
               topicMap'[v] = g, topicMap'[w] = g
        PROVE  topicMap'[v] = exact[v]
    <3>1. CASE \A m \in Matched(source) : m[2] # v
      BY <1>1, <3>1, Resolution
    <3>2. ASSUME NEW m \in Matched(source), m[2] = v
          PROVE  topicMap'[v] = exact[v]
      <4>1. PICK k \in Matched(source) :
              k[2] = v /\ topicMap'[v] = TargetOf(k) /\ TargetOf(k) \in Target
        BY <1>1, <3>2, Resolution
      <4>2. \A n \in Matched(source) : TargetOf(n) = TargetOf(k) => n[2] = v
        BY <1>1, <4>1 DEF Resolve, Resolvable
      <4>3. topicMap'[w] = exact[w]
        BY <1>1, <2>2, <4>1, <4>2, Resolution
      <4>4. exact[w] = TargetOf(k)
        BY <2>2, <4>1, <4>3
      <4>5. holder[TargetOf(k)] = v
        BY <2>1, <4>1, <4>4
      <4> QED
        BY <2>1, <4>1, <4>4, <4>5
    <3> QED
      BY <3>1, <3>2
  <2> QED
    BY <2>2
<1>2. CASE Publish
  <2>1. at[2] \in Topic /\ Free(TargetOf(at))
    BY <1>2, MatchTarget DEF Publish, ScanInv, TypeOK
  <2>2. \A t \in Topic : topicMap'[t] = IF t = at[2] THEN TargetOf(at)
                                                   ELSE topicMap[t]
    BY <1>2 DEF Publish, TypeOK
  <2> QED
    BY <1>0, <2>1, <2>2 DEF OneSourcePerTarget, Free
<1>3. CASE ValidateFails \/ Stop
  BY <1>3 DEF ValidateFails, Stop, Nothing, OneSourcePerTarget
<1>4. CASE topicMap' = topicMap
  BY <1>0, <1>4 DEF OneSourcePerTarget
<1> QED
  BY <1>1, <1>2, <1>3, <1>4
     DEF Next, Discover, ChangeSource, ChangeTarget, BeginValidate,
         ValidateTopic, Start, HandleRecord, Tick, ScanKnown, ScanNew,
         Subscribe, ScanDone, ScanFails, mapVars

(* MapInv is inductive, and so holds in every reachable state.            *)
THEOREM MapInductive == Spec => []MapInv
<1>1. Init => MapInv
  <2> SUFFICES ASSUME Init PROVE MapInv
    OBVIOUS
  <2>1. TypeOK
    BY DiscoveryAssumption DEF Init, TypeOK, Nothing, Unknown, Absent,
                                Count
  <2> QED
    BY <2>1 DEF Init, MapInv, TargetsThere, Subscriptions, ScanInv,
                OneSourcePerTarget, Nothing
<1>2. MapInv /\ [Next]_vars => MapInv'
  <2> SUFFICES ASSUME MapInv, [Next]_vars PROVE MapInv'
    OBVIOUS
  <2>1. CASE Next
    BY <2>1, TypesKept, TargetsThereKept, SubscriptionsKept, ScanInvKept,
       OneSourceKept DEF MapInv
  <2>2. CASE UNCHANGED vars
    BY <2>2 DEF vars, configVars, clusterVars, mapVars, scanVars, countVars,
                MapInv, TypeOK, TargetsThere, Subscriptions, ScanInv,
                OneSourcePerTarget, Mapped, Matched, Matches, TargetOf, Free
  <2> QED
    BY <2>1, <2>2
<1> QED
  BY <1>1, <1>2, PTL DEF Spec

(* Every reachable state of the discovery is well typed.                  *)
THEOREM TypeCorrect == Spec => []TypeOK
<1>1. MapInv => TypeOK
  BY DEF MapInv
<1> QED
  BY <1>1, MapInductive, PTL

(* A topic is mapped and its target there before it is subscribed to,     *)
(* whatever others do to the topics meanwhile.                            *)
THEOREM MappedBeforeSubscribed == Spec => []SubscribedIsMapped
<1>1. MapInv => SubscribedIsMapped
  <2> SUFFICES ASSUME MapInv, NEW t \in subscribed
               PROVE  topicMap[t] # None /\ target[topicMap[t]] > 0
    BY DEF SubscribedIsMapped
  <2>1. t \in Topic /\ topicMap[t] # None
    BY DEF MapInv, TypeOK, Subscriptions
  <2>2. mode \in {"running", "ended"}
    BY DEF MapInv, Subscriptions
  <2> QED
    BY <2>1, <2>2 DEF MapInv, TargetsThere
<1> QED
  BY <1>1, MapInductive, PTL

(* Two topics share a target only by two exact mappings.                  *)
THEOREM TargetsAreNotShared == Spec => []OneSourcePerTarget
<1>1. MapInv => OneSourcePerTarget
  BY DEF MapInv
<1> QED
  BY <1>1, MapInductive, PTL
-----------------------------------------------------------------------------
(* The configuration alone says where a topic goes: to its exact target,  *)
(* or else where the first rule that matches sends it.                    *)
Gives(t, g) ==
  IF exact[t] # None
  THEN g = exact[t]
  ELSE \E r \in Rules : /\ rules[r][t] = g /\ g # "nomatch"
                        /\ \A p \in Rules :
                             p < r => rules[p][t] \in {"nomatch", g}

(* Maps, the discovery's match and the records copied so far follow it.   *)
(* The match does because nothing that matches is left out of todo before *)
(* its topic is mapped, and todo is gone through rule by rule.            *)
ChoiceInv ==
  /\ \A t \in Topic : topicMap[t] # None => Gives(t, topicMap[t])
  /\ mode # "down" => \A t \in Topic : exact[t] # None => topicMap[t] # None
  /\ step \in {"scan", "publish", "subscribe"} =>
       \A m \in Matched(seen) : topicMap[m[2]] = None => m \in todo
  /\ step = "publish" => Gives(at[2], TargetOf(at))
  /\ \A c \in copiedTo : Gives(c[1], c[2])

(* The counts the mirror goes by are those of targets that existed, or    *)
(* were created, with them, and cover the topics mapped to them.          *)
CountInv ==
  /\ \A g \in Target \ found : targetPartitions[g] <= target[g]
  /\ \A t \in Topic :
       \/ sized[t] = 0
       \/ /\ topicMap[t] \in Target
          /\ topicMap[t] \in found \/ sized[t] <= targetPartitions[topicMap[t]]
  /\ step = "publish" =>
       TargetOf(at) \in found \/ seen[at[2]] <= target[TargetOf(at)]

(* The configuration sends a topic to one target at most.                 *)
LEMMA GivesOne ==
  ASSUME NEW t \in Topic, NEW g, NEW h, Gives(t, g), Gives(t, h)
  PROVE  g = h
<1>1. CASE exact[t] # None
  BY <1>1 DEF Gives
<1>2. CASE exact[t] = None
  <2>1. PICK r \in Rules : /\ rules[r][t] = g /\ g # "nomatch"
                           /\ \A p \in Rules :
                                p < r => rules[p][t] \in {"nomatch", g}
    BY <1>2 DEF Gives
  <2>2. PICK q \in Rules : /\ rules[q][t] = h /\ h # "nomatch"
                           /\ \A p \in Rules :
                                p < q => rules[p][t] \in {"nomatch", h}
    BY <1>2 DEF Gives
  <2>3. r < q \/ q < r \/ r = q
    BY DiscoveryAssumption DEF Rules
  <2> QED
    BY <2>1, <2>2, <2>3
<1> QED
  BY <1>1, <1>2

(* A start follows the configuration.                                     *)
LEMMA ResolutionGives ==
  ASSUME TypeOK, Resolve, NEW t \in Topic
  PROVE  /\ topicMap'[t] # None => Gives(t, topicMap'[t])
         /\ exact[t] # None => topicMap'[t] = exact[t]
<1>1. CASE \A m \in Matched(source) : m[2] # t
  <2>1. topicMap'[t] = exact[t]
    BY <1>1, Resolution
  <2> QED
    BY <2>1 DEF Gives
<1>2. ASSUME NEW k \in Matched(source), k[2] = t
      PROVE  /\ Gives(t, topicMap'[t])
             /\ exact[t] # None => topicMap'[t] = exact[t]
  <2>1. PICK m \in Matched(source) :
          m[2] = t /\ topicMap'[t] = TargetOf(m) /\ TargetOf(m) \in Target
    BY <1>2, Resolution
  <2>2. exact[t] \in {None, TargetOf(m)}
    BY <2>1 DEF Resolve, Resolvable
  <2>3. CASE exact[t] = None
    <3>1. m[1] \in Rules /\ rules[m[1]][t] = TargetOf(m) /\ source[t] > 0
      BY <2>1, MatchTarget DEF TargetOf, TypeOK
    <3>2. ASSUME NEW p \in Rules, rules[p][t] # "nomatch"
          PROVE  rules[p][t] = TargetOf(m)
      <4>1. <<p, t>> \in Matched(source)
        BY <3>1, <3>2 DEF Matched, Matches
      <4>2. TargetOf(<<p, t>>) = TargetOf(m)
        BY <2>1, <4>1 DEF Resolve, Resolvable
      <4> QED
        BY <4>2 DEF TargetOf
    <3>3. TargetOf(m) # "nomatch"
      BY <2>1, DiscoveryAssumption
    <3> QED
      BY <2>1, <2>3, <3>1, <3>2, <3>3 DEF Gives
  <2> QED
    BY <2>1, <2>2, <2>3 DEF Gives
<1> QED
  BY <1>1, <1>2

(* So does the discovery, because it goes through the rules in order.     *)
LEMMA DiscoveryGives ==
  ASSUME MapInv, ChoiceInv, NEW m \in Rules \X Topic, ScanNew(m)
  PROVE  Gives(m[2], TargetOf(m))
<1>1. m \in Matched(seen) /\ step = "scan" /\ topicMap[m[2]] = None
  BY DEF ScanNew, Turn, MapInv, ScanInv
<1>2. m[1] \in Rules /\ m[2] \in Topic /\ TargetOf(m) \in Target /\ seen[m[2]] > 0
  BY <1>1, MatchTarget DEF ScanNew, MapInv, TypeOK
<1>3. exact[m[2]] = None
  <2>1. mode # "down"
    BY <1>1 DEF MapInv, Subscriptions
  <2> QED
    BY <1>1, <1>2, <2>1 DEF ChoiceInv
<1>4. ASSUME NEW p \in Rules, p < m[1], rules[p][m[2]] # "nomatch"
      PROVE  FALSE
  <2>1. <<p, m[2]>> \in Matched(seen)
    BY <1>2, <1>4 DEF Matched, Matches
  <2>2. <<p, m[2]>> \in todo
    BY <1>1, <2>1 DEF ChoiceInv
  <2>3. m[1] <= p
    BY <2>2 DEF ScanNew, Turn
  <2> QED
    BY <1>2, <1>4, <2>3, DiscoveryAssumption DEF Rules
<1>5. rules[m[1]][m[2]] = TargetOf(m) /\ TargetOf(m) # "nomatch"
  BY <1>2, DiscoveryAssumption DEF TargetOf
<1> QED
  BY <1>2, <1>3, <1>4, <1>5 DEF Gives

(* What ChoiceInv says, with the configuration as it is.                  *)
LEMMA ChoiceInvNext ==
  ASSUME exact' = exact, rules' = rules,
         \A t \in Topic : topicMap'[t] # None => Gives(t, topicMap'[t]),
         mode' # "down" =>
           \A t \in Topic : exact[t] # None => topicMap'[t] # None,
         step' \in {"scan", "publish", "subscribe"} =>
           \A m \in Matched(seen') : topicMap'[m[2]] = None => m \in todo',
         step' = "publish" => Gives(at'[2], TargetOf(at')),
         \A c \in copiedTo' : Gives(c[1], c[2])
  PROVE  ChoiceInv'
BY DEF ChoiceInv, Gives, Matched, Matches, TargetOf

LEMMA ChoiceInvKept ==
  ASSUME MapInv, ChoiceInv, Next
  PROVE  ChoiceInv'
<1>0. exact' = exact /\ rules' = rules
  BY ClusterTypes
<1>1. CASE Resolve
  <2>1. \A t \in Topic : topicMap'[t] # None => Gives(t, topicMap'[t])
    BY <1>1, ResolutionGives DEF MapInv
  <2>2. \A t \in Topic : exact[t] # None => topicMap'[t] # None
    BY <1>1, ResolutionGives DEF MapInv
  <2>3. step' = "off" /\ copiedTo' = copiedTo
    BY <1>1 DEF Resolve, scanVars, MapInv, Subscriptions
  <2>4. \A c \in copiedTo' : Gives(c[1], c[2])
    BY <2>3 DEF ChoiceInv
  <2> QED
    BY <1>0, <2>1, <2>2, <2>3, <2>4, ChoiceInvNext
<1>2. CASE ValidateFails \/ Stop
  <2>1. /\ \A t \in Topic : topicMap'[t] = None
        /\ mode' = "down" /\ step' = "off" /\ copiedTo' = copiedTo
    BY <1>2 DEF ValidateFails, Stop, Nothing, MapInv, Subscriptions
  <2>2. \A c \in copiedTo' : Gives(c[1], c[2])
    BY <2>1 DEF ChoiceInv
  <2> QED
    BY <1>0, <2>1, <2>2, ChoiceInvNext
<1>3. CASE Tick
  <2>1. /\ topicMap' = topicMap /\ mode' = mode /\ copiedTo' = copiedTo
        /\ step' = "scan" /\ \A m \in Matched(seen') : m \in todo'
    BY <1>3 DEF Tick, mapVars, Matched, Matches
  <2> QED
    BY <1>0, <2>1, ChoiceInvNext DEF ChoiceInv
<1>4. ASSUME NEW m \in Rules \X Topic, ScanKnown(m)
      PROVE  ChoiceInv'
  <2>1. /\ topicMap' = topicMap /\ mode' = mode /\ copiedTo' = copiedTo
        /\ step = "scan" /\ step' = "scan" /\ seen' = seen
        /\ todo' = todo \ {m} /\ topicMap[m[2]] # None
    BY <1>4 DEF ScanKnown, mapVars
  <2>2. \A n \in Matched(seen') : topicMap'[n[2]] = None => n \in todo'
    BY <2>1 DEF ChoiceInv
  <2> QED
    BY <1>0, <2>1, <2>2, ChoiceInvNext DEF ChoiceInv
<1>5. ASSUME NEW m \in Rules \X Topic, ScanNew(m)
      PROVE  ChoiceInv'
  <2>1. /\ topicMap' = topicMap /\ mode' = mode /\ copiedTo' = copiedTo
        /\ step = "scan" /\ step' = "publish" /\ seen' = seen /\ todo' = todo
        /\ at' = m
    BY <1>5 DEF ScanNew, mapVars
  <2>2. Gives(m[2], TargetOf(m))
    BY <1>5, DiscoveryGives
  <2> QED
    BY <1>0, <2>1, <2>2, ChoiceInvNext DEF ChoiceInv
<1>6. CASE Publish
  <2>1. at[2] \in Topic /\ TargetOf(at) \in Target
    BY <1>6, MatchTarget DEF Publish, MapInv, ScanInv, TypeOK
  <2>2. \A t \in Topic : topicMap'[t] = IF t = at[2] THEN TargetOf(at)
                                                   ELSE topicMap[t]
    BY <1>6 DEF Publish, MapInv, TypeOK
  <2>3. TargetOf(at) # None
    BY <2>1, DiscoveryAssumption
  <2>4. /\ mode' = mode /\ copiedTo' = copiedTo /\ step = "publish"
        /\ step' = "subscribe" /\ seen' = seen /\ todo' = todo
    BY <1>6 DEF Publish
  <2>5. \A t \in Topic : topicMap'[t] # None => Gives(t, topicMap'[t])
    BY <2>2, <2>4 DEF ChoiceInv
  <2>6. \A t \in Topic : topicMap[t] # None => topicMap'[t] # None
    BY <2>2, <2>3
  <2>7. ASSUME NEW n \in Matched(seen'), topicMap'[n[2]] = None
        PROVE  n \in todo'
    <3>1. n[2] \in Topic /\ n \in Matched(seen)
      BY <2>4, <2>7, <1>0, MatchTarget DEF Matched, Matches, MapInv, TypeOK
    <3> QED
      BY <2>4, <2>6, <2>7, <3>1 DEF ChoiceInv
  <2> QED
    BY <1>0, <2>4, <2>5, <2>6, <2>7, ChoiceInvNext DEF ChoiceInv
<1>7. CASE Subscribe
  <2>1. /\ topicMap' = topicMap /\ mode' = mode /\ copiedTo' = copiedTo
        /\ step = "subscribe" /\ step' = "scan" /\ seen' = seen
        /\ todo' = todo \ {at} /\ topicMap[at[2]] # None
    BY <1>7 DEF Subscribe, MapInv, ScanInv
  <2>2. \A n \in Matched(seen') : topicMap'[n[2]] = None => n \in todo'
    BY <2>1 DEF ChoiceInv
  <2> QED
    BY <1>0, <2>1, <2>2, ChoiceInvNext DEF ChoiceInv
<1>8. ASSUME NEW t \in Topic, HandleRecord(t)
      PROVE  ChoiceInv'
  <2>1. topicMap[t] # None /\ Destination(t) = {topicMap[t]}
    BY <1>8 DEF HandleRecord, MapInv, Subscriptions, Destination
  <2>2. copiedTo' = copiedTo \cup {<<t, topicMap[t]>>}
    BY <1>8, <2>1 DEF HandleRecord
  <2>3. \A c \in copiedTo' : Gives(c[1], c[2])
    BY <2>1, <2>2 DEF ChoiceInv
  <2>4. UNCHANGED <<topicMap, mode, step, seen, todo, at>>
    BY <1>8 DEF HandleRecord, mapVars, scanVars
  <2> QED
    BY <1>0, <2>3, <2>4, ChoiceInvNext DEF ChoiceInv
<1>9. CASE BeginValidate \/ Start \/ \E t \in Topic : ValidateTopic(t)
  <2>1. /\ topicMap' = topicMap /\ mode # "down" /\ copiedTo' = copiedTo
        /\ step' \in {"off", "sleep"}
    BY <1>9 DEF BeginValidate, Start, ValidateTopic, mapVars, MapInv,
                Subscriptions
  <2> QED
    BY <1>0, <2>1, ChoiceInvNext DEF ChoiceInv
<1>10. CASE ScanDone \/ ScanFails
  <2>1. /\ topicMap' = topicMap /\ mode # "down" /\ copiedTo' = copiedTo
        /\ step' \in {"off", "sleep"}
    BY <1>10 DEF ScanDone, ScanFails, mapVars, MapInv, Subscriptions
  <2> QED
    BY <1>0, <2>1, ChoiceInvNext DEF ChoiceInv
<1>11. CASE UNCHANGED <<mode, mapVars, scanVars, copiedTo>>
  <2>1. UNCHANGED <<mode, topicMap, step, seen, todo, at, copiedTo>>
    BY <1>11 DEF mapVars, scanVars
  <2> QED
    BY <1>0, <2>1, ChoiceInvNext DEF ChoiceInv
<1> QED
  BY <1>1, <1>2, <1>3, <1>4, <1>5, <1>6, <1>7, <1>8, <1>9, <1>10, <1>11
     DEF Next, Discover, ChangeSource, ChangeTarget

(* A step that changes nothing they speak of keeps the counts, and so     *)
(* does one that only makes targets larger.                               *)
LEMMA CountInvNext ==
  ASSUME MapInv, CountInv, rules' = rules, topicMap' = topicMap,
         targetPartitions' = targetPartitions, sized' = sized,
         found \subseteq found', target' \in [Target -> Nat],
         \A g \in Target : target[g] <= target'[g],
         step' = "publish" =>
           TargetOf(at') \in found' \/ seen'[at'[2]] <= target'[TargetOf(at')]
  PROVE  CountInv'
<1>1. \A g \in Target : target[g] \in Nat /\ targetPartitions[g] \in Nat
  BY DiscoveryAssumption DEF MapInv, TypeOK, Count
<1>2. ASSUME NEW g \in Target \ found'
      PROVE  targetPartitions'[g] <= target'[g]
  BY <1>1, <1>2 DEF CountInv
<1>3. TargetOf(at)' = TargetOf(at')
  BY DEF TargetOf
<1> QED
  BY <1>2, <1>3 DEF CountInv

LEMMA CountInvKept ==
  ASSUME MapInv, CountInv, Next
  PROVE  CountInv'
<1> USE DEF MapInv
<1>0. /\ rules' = rules
      /\ target \in [Target -> Nat] /\ target' \in [Target -> Nat]
      /\ targetPartitions \in [Target -> Nat] /\ sized \in [Topic -> Nat]
  BY ClusterTypes, DiscoveryAssumption DEF TypeOK, Count
<1>1. ASSUME NEW h \in Target, NEW n \in Count, ChangeTarget(h, n)
      PROVE  CountInv'
  <2>1. \A g \in Target : target[g] <= target'[g]
    BY <1>0, <1>1, DiscoveryAssumption DEF ChangeTarget, Count
  <2>2. UNCHANGED <<targetPartitions, topicMap, sized, step, at, seen, found>>
    BY <1>1 DEF ChangeTarget, mapVars, scanVars
  <2>3. step = "publish" => TargetOf(at) \in Target /\ seen[at[2]] \in Nat
    BY MatchTarget, DiscoveryAssumption DEF ScanInv, TypeOK, Count
  <2>4. step' = "publish" =>
          TargetOf(at') \in found' \/ seen'[at'[2]] <= target'[TargetOf(at')]
    BY <1>0, <2>1, <2>2, <2>3 DEF CountInv
  <2> QED
    BY <1>0, <2>1, <2>2, <2>4, CountInvNext
<1>2. ASSUME NEW t \in Topic, ValidateTopic(t)
      PROVE  CountInv'
  <2> DEFINE g == topicMap[t]
  <2>1. g \in Target /\ step = "off" /\ seen[t] \in Nat
    BY <1>2, DiscoveryAssumption
       DEF ValidateTopic, ScanInv, Mapped, Subscriptions, TypeOK, Count
  <2>2. \A h \in Target : h # g => target'[h] = target[h]
    BY <1>0, <1>2, <2>1 DEF ValidateTopic, Ensured
  <2>3. /\ targetPartitions' = [targetPartitions EXCEPT ![g] = target'[g]]
        /\ sized' = [sized EXCEPT ![t] = seen[t]] /\ target'[g] = seen[t]
        /\ UNCHANGED <<topicMap, found, step>>
    BY <1>2 DEF ValidateTopic, Compatible
  <2>4. target'[g] = target[g] \/ target[g] = 0
    BY <1>0, <1>2, <2>1 DEF ValidateTopic, Ensured
  <2>5. \A h \in Target \ found' : targetPartitions'[h] <= target'[h]
    BY <1>0, <2>1, <2>2, <2>3 DEF CountInv
  <2>6. ASSUME NEW u \in Topic, sized'[u] # 0, topicMap[u] \notin found
        PROVE  /\ topicMap'[u] \in Target
               /\ sized'[u] <= targetPartitions'[topicMap'[u]]
    <3>1. CASE u = t
      BY <1>0, <2>1, <2>3, <3>1
    <3>2. CASE u # t
      <4>1. /\ topicMap[u] \in Target
            /\ sized[u] <= targetPartitions[topicMap[u]] /\ sized'[u] = sized[u]
            /\ targetPartitions[topicMap[u]] <= target[topicMap[u]]
        BY <1>0, <2>3, <2>6, <3>2 DEF CountInv
      <4>2. CASE topicMap[u] # g
        BY <1>0, <2>3, <4>1, <4>2
      <4>3. CASE topicMap[u] = g
        <5>1. sized[u] <= target[g] /\ sized[u] # 0 /\ target[g] # 0
          BY <1>0, <2>1, <2>6, <4>1, <4>3
        <5> QED
          BY <1>0, <2>1, <2>3, <2>4, <4>1, <4>3, <5>1
      <4> QED
        BY <4>2, <4>3
    <3> QED
      BY <3>1, <3>2
  <2>7. \A u \in Topic :
          \/ sized'[u] = 0
          \/ /\ topicMap'[u] \in Target
             /\ \/ topicMap'[u] \in found'
                \/ sized'[u] <= targetPartitions'[topicMap'[u]]
    <3> SUFFICES ASSUME NEW u \in Topic, sized'[u] # 0
                 PROVE  /\ topicMap'[u] \in Target
                        /\ \/ topicMap'[u] \in found'
                           \/ sized'[u] <= targetPartitions'[topicMap'[u]]
      OBVIOUS
    <3>1. CASE topicMap[u] \notin found
      BY <2>6, <3>1
    <3>2. CASE topicMap[u] \in found
      BY <2>3, <3>2 DEF TypeOK
    <3> QED
      BY <3>1, <3>2
  <2> QED
    BY <2>1, <2>3, <2>5, <2>7 DEF CountInv
<1>3. ASSUME NEW m \in Rules \X Topic, ScanNew(m)
      PROVE  CountInv'
  <2> DEFINE g == TargetOf(m)
  <2>1. m \in Matched(seen)
    BY <1>3 DEF ScanNew, Turn, ScanInv
  <2>2. g \in Target /\ seen[m[2]] \in Nat
    BY <1>3, <2>1, MatchTarget, DiscoveryAssumption DEF ScanNew, TypeOK, Count
  <2>3. /\ \A h \in Target : target[h] <= target'[h]
        /\ g \in found' \/ seen[m[2]] <= target'[g]
    BY <1>0, <1>3, <2>2 DEF ScanNew, Ensured
  <2>4. found \subseteq found' /\ at' = m /\ seen' = seen
        /\ UNCHANGED <<targetPartitions, topicMap, sized>>
    BY <1>3 DEF ScanNew, mapVars
  <2> QED
    BY <1>0, <2>3, <2>4, CountInvNext
<1>4. CASE Publish
  <2> DEFINE g == TargetOf(at)
  <2>1. /\ g \in found \/ seen[at[2]] <= target[g]
        /\ \A t \in Topic : topicMap[t] # g
    BY <1>4 DEF Publish, CountInv, ScanInv, Free
  <2>2. g \in Target /\ at[2] \in Topic /\ seen[at[2]] \in Nat
    BY <1>4, MatchTarget, DiscoveryAssumption DEF Publish, ScanInv, TypeOK, Count
  <2>3. /\ \A h \in Target : targetPartitions'[h] =
              IF h = g THEN seen[at[2]] ELSE targetPartitions[h]
        /\ \A t \in Topic :
             /\ topicMap'[t] = IF t = at[2] THEN g ELSE topicMap[t]
             /\ sized'[t] = IF t = at[2] THEN seen[at[2]] ELSE sized[t]
    BY <1>4 DEF Publish, TypeOK
  <2>4. target' = target /\ found' = found /\ step' = "subscribe"
    BY <1>4 DEF Publish, clusterVars
  <2>5. \A h \in Target \ found' : targetPartitions'[h] <= target'[h]
    BY <2>1, <2>3, <2>4 DEF CountInv
  <2>6. ASSUME NEW t \in Topic
        PROVE  \/ sized'[t] = 0
               \/ /\ topicMap'[t] \in Target
                  /\ \/ topicMap'[t] \in found'
                     \/ sized'[t] <= targetPartitions'[topicMap'[t]]
    BY <2>1, <2>2, <2>3, <2>4 DEF CountInv
  <2> QED
    BY <2>4, <2>5, <2>6 DEF CountInv
<1>5. CASE ValidateFails \/ Stop
  <2>1. /\ step' = "off" /\ target' = target
        /\ targetPartitions' = Unknown /\ sized' = Absent
    BY <1>5 DEF ValidateFails, Stop, clusterVars, Subscriptions
  <2>2. \A g \in Target : targetPartitions'[g] <= target'[g]
    BY <1>0, <2>1 DEF Unknown
  <2> QED
    BY <2>1, <2>2 DEF CountInv, Absent
<1>6. CASE Resolve
  <2>1. \A t \in Topic : sized[t] = 0
    BY <1>6, DiscoveryAssumption
       DEF Resolve, CountInv, Subscriptions, Nothing
  <2>2. /\ UNCHANGED <<target, targetPartitions, found, sized>>
        /\ step' = "off"
    BY <1>6 DEF Resolve, clusterVars, scanVars, Subscriptions
  <2> QED
    BY <2>1, <2>2 DEF CountInv
<1>7. CASE /\ UNCHANGED <<target, targetPartitions, found, topicMap, sized>>
           /\ step' # "publish" \/ UNCHANGED <<step, seen, at>>
  BY <1>0, <1>7, CountInvNext DEF CountInv
<1>8. CASE BeginValidate \/ Start \/ Tick \/ Subscribe \/ ScanDone
             \/ ScanFails \/ \E m \in Rules \X Topic : ScanKnown(m)
  BY <1>7, <1>8
     DEF BeginValidate, Start, Tick, Subscribe, ScanDone, ScanFails,
         ScanKnown, clusterVars, mapVars, scanVars, Subscriptions
<1>9. CASE \E t \in Topic :
             HandleRecord(t) \/ \E n \in Count : ChangeSource(t, n)
  BY <1>7, <1>9 DEF HandleRecord, ChangeSource, clusterVars, mapVars, scanVars
<1> QED
  BY <1>1, <1>2, <1>3, <1>4, <1>5, <1>6, <1>8, <1>9 DEF Next, Discover

(* The two invariants hold beside MapInv.                                 *)
THEOREM ChoiceInductive == Spec => [](ChoiceInv /\ CountInv)
<1>1. Init => ChoiceInv /\ CountInv
  BY DEF Init, ChoiceInv, CountInv, Nothing, Unknown, Absent
<1>2. MapInv /\ ChoiceInv /\ CountInv /\ [Next]_vars => (ChoiceInv /\ CountInv)'
  <2> SUFFICES ASSUME MapInv, ChoiceInv, CountInv, [Next]_vars
               PROVE  (ChoiceInv /\ CountInv)'
    OBVIOUS
  <2>1. CASE Next
    BY <2>1, ChoiceInvKept, CountInvKept
  <2>2. CASE UNCHANGED vars
    BY <2>2 DEF vars, configVars, clusterVars, mapVars, scanVars, countVars,
                ChoiceInv, CountInv, Gives, Matched,
                Matches, TargetOf
  <2> QED
    BY <2>1, <2>2
<1> QED
  BY <1>1, <1>2, MapInductive, PTL DEF Spec

(* All the mirrors of a job together copy a topic to one target.          *)
THEOREM OneTargetForEver == Spec => []OneTargetEver
<1>1. MapInv /\ ChoiceInv => OneTargetEver
  <2> SUFFICES ASSUME MapInv, ChoiceInv, NEW a \in copiedTo, NEW b \in copiedTo,
                      a[1] = b[1]
               PROVE  a[2] = b[2]
    BY DEF OneTargetEver
  <2>1. a[1] \in Topic /\ Gives(a[1], a[2]) /\ Gives(a[1], b[2])
    BY DEF MapInv, TypeOK, ChoiceInv
  <2> QED
    BY <2>1, GivesOne
<1> QED
  BY <1>1, MapInductive, ChoiceInductive, PTL

(* A mapped topic had, when it was mapped, no more partitions than its    *)
(* target has, and the count the mirror goes by is between the two,       *)
(* except for targets the discovery did not create.                       *)
THEOREM CountsAreTrue == Spec => []PartitionCountsTrue
<1>1. MapInv /\ CountInv => PartitionCountsTrue
  <2> SUFFICES ASSUME MapInv, CountInv, NEW t \in Topic,
                      topicMap[t] \notin found \cup {None}
               PROVE  /\ sized[t] <= targetPartitions[topicMap[t]]
                      /\ targetPartitions[topicMap[t]] <= target[topicMap[t]]
    BY DEF PartitionCountsTrue
  <2>1. topicMap[t] \in Target /\ targetPartitions[topicMap[t]] \in Nat
    BY DiscoveryAssumption DEF MapInv, TypeOK, Count
  <2> QED
    BY <2>1 DEF CountInv
<1> QED
  BY <1>1, MapInductive, ChoiceInductive, PTL
=============================================================================
