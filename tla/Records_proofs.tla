--------------------------- MODULE Records_proofs ---------------------------
(***************************************************************************)
(* Proofs about the rows that requests read, change and write back, and    *)
(* about the file they are in: Credentials, DatabaseFile, Registry and     *)
(* ConfigStore, for any number of shells and requests.                     *)
(***************************************************************************)
EXTENDS ConfigStore, Credentials, DatabaseFile, Registry,
        SequenceTheorems, TLAPS

-----------------------------------------------------------------------------
(* The secrets of a cluster.                                               *)

Session ==
  [stage : {"none", "asking", "testing", "sending", "read"},
   provider : Provider, number : 0 .. MaxEditions, typed : SUBSET Part,
   body : Secrets, old : BOOLEAN, former : BOOLEAN]

SecretTypes ==
  /\ clusterRow = NoCluster
       \/ clusterRow \in [provider : Provider, secrets : Secrets]
  /\ session \in [Editing -> Session] /\ editions \in 0 .. MaxEditions
  /\ given \in Secrets /\ reverted \in SUBSET Part /\ mistaken \in BOOLEAN

(* What a command that has begun knows: it has a number, and it holds what *)
(* it is to send.                                                          *)
HasBegun(s) == s.stage # "none" => s.number # 0
HoldsRequest(s) ==
  s.stage \in {"testing", "sending"} =>
    \A p \in Part :
      /\ p \in s.typed => s.body[p] = s.number
      /\ p \notin s.typed => s.body[p] \in {0, Placeholder}
      /\ p \in Needs(s.provider) \/ p \in s.typed \/ s.body[p] = 0

(* A request that nothing has made old holds the row, but for what was     *)
(* entered.                                                                *)
HoldsRow(s) ==
  s.stage = "read" =>
    \A p \in Part :
      /\ p \in s.typed => s.body[p] = s.number
      /\ p \notin s.typed /\ s.old # TRUE /\ clusterRow # NoCluster =>
           s.body[p] = clusterRow.secrets[p]

(* An edit of the cluster that is there knows its provider and, once read, *)
(* all the secrets that one asks for.                                      *)
OfThisCluster(s) ==
  /\ s.stage # "none" /\ s.former # TRUE
  /\ clusterRow # NoCluster /\ mistaken # TRUE

Complete(s) ==
  OfThisCluster(s) =>
    /\ s.provider = clusterRow.provider
    /\ s.stage = "read" => \A p \in Needs(s.provider) : s.body[p] # 0

InHands ==
  \A c \in Editing :
    /\ HasBegun(session[c]) /\ HoldsRequest(session[c])
    /\ HoldsRow(session[c]) /\ Complete(session[c])

GivenLast ==
  clusterRow # NoCluster =>
    \A p \in Part : clusterRow.secrets[p] = given[p] \/ p \in reverted

AllAskedFor ==
  clusterRow # NoCluster /\ mistaken # TRUE =>
    \A p \in Needs(clusterRow.provider) : clusterRow.secrets[p] # 0

SecretsInv == SecretTypes /\ InHands /\ GivenLast /\ AllAskedFor

LEMMA SecretsInit == CredentialsInit => SecretsInv
<1> SUFFICES ASSUME CredentialsInit
             PROVE  SecretsInv
  OBVIOUS
<1>1. NoSecrets \in Secrets
  BY CredentialsAssumption DEF NoSecrets, Secrets
<1>2. NoSession \in Session
  BY <1>1, CredentialsAssumption DEF NoSession, Session, Provider, Part
<1>3. mistaken \in BOOLEAN
  BY Zenon DEF CredentialsInit
<1>4. SecretTypes
  BY <1>1, <1>2, <1>3, CredentialsAssumption DEF CredentialsInit, SecretTypes
<1>5. InHands
  BY DEF CredentialsInit, InHands, HasBegun, HoldsRequest, HoldsRow, Complete,
         OfThisCluster, NoSession
<1> QED
  BY <1>4, <1>5 DEF SecretsInv, CredentialsInit, GivenLast, AllAskedFor

(* A step of one shell that leaves the row alone.                          *)
LEMMA SessionStep ==
  ASSUME SecretsInv, NEW c \in Editing, NEW s \in Session, Becomes(c, s),
         UNCHANGED <<clusterRow, givenHistory>>, editions' \in 0 .. MaxEditions,
         HasBegun(s), HoldsRequest(s), HoldsRow(s), Complete(s)
  PROVE  SecretsInv'
<1>1. UNCHANGED <<clusterRow, given, reverted, mistaken>>
  BY DEF givenHistory
<1>2. \A d \in Editing : session'[d] = IF d = c THEN s ELSE session[d]
  BY DEF Becomes, SecretsInv, SecretTypes
<1>3. SecretTypes'
  BY <1>1 DEF SecretsInv, SecretTypes, Becomes
<1>4. InHands'
  <2>1. \A t : (HoldsRow(t)' <=> HoldsRow(t)) /\ (Complete(t)' <=> Complete(t))
    BY <1>1 DEF HoldsRow, Complete, OfThisCluster
  <2>2. \A t : (HasBegun(t)' <=> HasBegun(t))
               /\ (HoldsRequest(t)' <=> HoldsRequest(t))
    BY DEF HasBegun, HoldsRequest
  <2> QED
    BY <1>2, <2>1, <2>2 DEF SecretsInv, InHands
<1> QED
  BY <1>1, <1>3, <1>4 DEF SecretsInv, GivenLast, AllAskedFor

(* Every step but those that write the row.                                *)
LEMMA QuietSession ==
  ASSUME SecretsInv, NEW c \in Editing,
         FetchCluster(c) \/ AskSecrets(c) \/ TestConnection(c) \/ NotUpdated(c)
           \/ ReadExisting(c) \/ UpdateRefused(c)
  PROVE  SecretsInv'
<1> DEFINE s == session[c]
<1>1. /\ s \in Session /\ HasBegun(s) /\ HoldsRequest(s) /\ HoldsRow(s)
      /\ Complete(s)
  BY DEF SecretsInv, SecretTypes, InHands
<1>2. /\ NoSession \in Session /\ HasBegun(NoSession) /\ HoldsRequest(NoSession)
      /\ HoldsRow(NoSession) /\ Complete(NoSession)
  BY CredentialsAssumption
     DEF NoSession, NoSecrets, Session, Provider, Part, Secrets, HasBegun,
         HoldsRequest, HoldsRow, Complete, OfThisCluster
<1>3. editions \in 0 .. MaxEditions
  BY DEF SecretsInv, SecretTypes
<1>4. CASE FetchCluster(c)
  <2> DEFINE new == [NoSession EXCEPT !.stage = "asking",
                       !.provider = clusterRow.provider,
                       !.number = editions + 1]
  <2>1. /\ clusterRow # NoCluster /\ editions' = editions + 1
        /\ editions < MaxEditions /\ Becomes(c, new)
        /\ UNCHANGED <<clusterRow, givenHistory>>
    BY <1>4 DEF FetchCluster
  <2>2. clusterRow.provider \in Provider
    BY <2>1 DEF SecretsInv, SecretTypes
  <2>3. editions + 1 \in 0 .. MaxEditions /\ editions + 1 # 0
    BY <1>3, <2>1, CredentialsAssumption
  <2>4. /\ new.stage = "asking" /\ new.provider = clusterRow.provider
        /\ new.number = editions + 1 /\ new \in Session
    BY <1>2, <2>2, <2>3 DEF NoSession, Session
  <2> HIDE DEF new
  <2>5. HasBegun(new) /\ HoldsRequest(new) /\ HoldsRow(new) /\ Complete(new)
    BY <2>3, <2>4 DEF HasBegun, HoldsRequest, HoldsRow, Complete
  <2> QED
    BY <2>1, <2>3, <2>4, <2>5, SessionStep
<1>5. CASE AskSecrets(c)
  <2>1. PICK typed \in SUBSET Needs(s.provider) :
          Becomes(c, [s EXCEPT
            !.typed = typed, !.body = Sent(c, typed),
            !.stage = IF typed = Needs(s.provider) THEN "testing"
                      ELSE "sending"])
    BY <1>5 DEF AskSecrets
  <2>2. /\ s.stage = "asking" /\ UNCHANGED <<clusterRow, editions, givenHistory>>
    BY <1>5 DEF AskSecrets, Stage
  <2> DEFINE new == [s EXCEPT
            !.typed = typed, !.body = Sent(c, typed),
            !.stage = IF typed = Needs(s.provider) THEN "testing"
                      ELSE "sending"]
  <2>3. Needs(s.provider) \subseteq Part
    BY <1>1 DEF Needs, Session, Provider, Part
  <2>4. /\ Sent(c, typed) \in Secrets
        /\ \A p \in Part :
             /\ p \in typed => Sent(c, typed)[p] = s.number
             /\ p \notin typed => Sent(c, typed)[p] \in {0, Placeholder}
             /\ p \in Needs(s.provider) \/ p \in typed \/ Sent(c, typed)[p] = 0
    BY <1>1, CredentialsAssumption DEF Sent, Secrets, Session
  <2>5. /\ new \in Session /\ new.stage \in {"testing", "sending"}
        /\ new.typed = typed /\ new.body = Sent(c, typed)
        /\ new.number = s.number /\ new.provider = s.provider
        /\ new.former = s.former
    BY <1>1, <2>3, <2>4 DEF Session
  <2> HIDE DEF new
  <2>6. HasBegun(new) /\ HoldsRow(new) /\ Complete(new)
    BY <1>1, <2>2, <2>5 DEF HasBegun, HoldsRow, Complete, OfThisCluster
  <2>7. HoldsRequest(new)
    BY <2>4, <2>5 DEF HoldsRequest
  <2>8. Becomes(c, new) /\ editions' = editions
    BY <2>1, <2>2 DEF new
  <2> QED
    BY <1>3, <2>2, <2>5, <2>6, <2>7, <2>8, SessionStep
<1>6. CASE TestConnection(c)
  <2> DEFINE new == [s EXCEPT !.stage = "sending"]
  <2>1. /\ s.stage = "testing" /\ Becomes(c, new)
        /\ UNCHANGED <<clusterRow, editions, givenHistory>>
    BY <1>6 DEF TestConnection, Stage
  <2>2. /\ new \in Session /\ new.stage = "sending" /\ new.typed = s.typed
        /\ new.body = s.body /\ new.number = s.number
        /\ new.provider = s.provider /\ new.former = s.former
    BY <1>1 DEF Session
  <2> HIDE DEF new
  <2>3. HasBegun(new) /\ HoldsRequest(new) /\ HoldsRow(new) /\ Complete(new)
    BY <1>1, <2>1, <2>2
       DEF HasBegun, HoldsRequest, HoldsRow, Complete, OfThisCluster
  <2> QED
    BY <1>3, <2>1, <2>2, <2>3, SessionStep
<1>7. CASE NotUpdated(c) \/ UpdateRefused(c)
  BY <1>2, <1>3, <1>7, SessionStep DEF NotUpdated, UpdateRefused
<1>8. CASE ReadExisting(c)
  <2>1. CASE clusterRow = NoCluster
    BY <1>2, <1>3, <1>8, <2>1, SessionStep DEF ReadExisting
  <2>2. CASE clusterRow # NoCluster
    <3> DEFINE row  == clusterRow.secrets
               body == RestoreSecrets(s.body, row)
               new  == [s EXCEPT !.stage = "read", !.old = FALSE,
                                 !.body = RestoreSecrets(@, clusterRow.secrets)]
    <3>1. /\ s.stage = "sending" /\ Becomes(c, new)
          /\ UNCHANGED <<clusterRow, editions, givenHistory>>
      BY <1>8, <2>2 DEF ReadExisting, Stage
    <3>2. s.body \in Secrets /\ row \in Secrets
      BY <1>1, <2>2 DEF SecretsInv, SecretTypes, Session
    <3>3. /\ body \in Secrets
          /\ \A p \in Part : body[p] = IF s.body[p] \in {0, Placeholder}
                                         THEN row[p] ELSE s.body[p]
      BY <3>2 DEF RestoreSecrets, Secrets
    <3>4. /\ new \in Session /\ new.stage = "read" /\ new.old # TRUE
          /\ new.typed = s.typed /\ new.body = body /\ new.number = s.number
          /\ new.provider = s.provider /\ new.former = s.former
      BY <1>1, <3>3 DEF Session
    <3> HIDE DEF new, body
    <3>5. s.number \in 0 .. MaxEditions /\ s.number # 0
      BY <1>1, <3>1 DEF Session, HasBegun
    <3>6. \A p \in Part :
            /\ p \in s.typed => body[p] = s.number
            /\ p \notin s.typed => body[p] = row[p]
      BY <1>1, <3>1, <3>3, <3>5, CredentialsAssumption DEF HoldsRequest
    <3>7. HasBegun(new) /\ HoldsRequest(new) /\ HoldsRow(new)
      BY <3>4, <3>5, <3>6 DEF HasBegun, HoldsRequest, HoldsRow
    <3>8. Complete(new)
      <4> SUFFICES ASSUME OfThisCluster(new)
                   PROVE  /\ new.provider = clusterRow.provider
                          /\ \A p \in Needs(new.provider) : new.body[p] # 0
        BY DEF Complete
      <4>1. OfThisCluster(s)
        BY <3>1, <3>4 DEF OfThisCluster
      <4>2. s.provider = clusterRow.provider
        BY <1>1, <4>1 DEF Complete
      <4>3. \A p \in Needs(s.provider) : p \in Part /\ row[p] # 0
        BY <1>1, <4>1, <4>2
           DEF SecretsInv, AllAskedFor, OfThisCluster, Session, Needs, Provider,
               Part
      <4> QED
        BY <3>4, <3>5, <3>6, <4>2, <4>3
    <3> QED
      BY <1>3, <3>1, <3>4, <3>7, <3>8, SessionStep
  <2> QED
    BY <2>1, <2>2
<1> QED
  BY <1>4, <1>5, <1>6, <1>7, <1>8

LEMMA AddStep ==
  ASSUME SecretsInv, NEW provider \in Provider, AddCluster(provider)
  PROVE  SecretsInv'
<1> DEFINE new == [p \in Part |-> IF p \in Needs(provider) THEN editions + 1
                                  ELSE 0]
<1>1. /\ editions \in 0 .. MaxEditions /\ editions < MaxEditions
      /\ editions' = editions + 1
      /\ clusterRow' = [provider |-> provider, secrets |-> new]
      /\ given' = new /\ reverted' = {}
  BY DEF AddCluster, SecretsInv, SecretTypes
<1>2. mistaken' \in BOOLEAN /\ mistaken' # TRUE
  BY Zenon DEF AddCluster
<1>3. editions + 1 \in 0 .. MaxEditions /\ editions + 1 # 0
  BY <1>1, CredentialsAssumption
<1>4. new \in Secrets
  BY <1>3, CredentialsAssumption DEF Secrets
<1>5. /\ clusterRow' \in [provider : Provider, secrets : Secrets]
      /\ clusterRow'.secrets = new /\ clusterRow'.provider = provider
  BY <1>1, <1>4
<1>6. ASSUME NEW c \in Editing
      PROVE  /\ session'[c] \in Session
             /\ \/ session'[c].stage = "none"
                \/ /\ session'[c].former = TRUE /\ session'[c].old = TRUE
                   /\ session'[c].stage = session[c].stage
                   /\ session'[c].number = session[c].number
                   /\ session'[c].typed = session[c].typed
                   /\ session'[c].body = session[c].body
                   /\ session'[c].provider = session[c].provider
  <2>1. session[c] \in Session
    BY DEF SecretsInv, SecretTypes
  <2>2. session'[c] = IF session[c].stage = "none" THEN NoSession
                      ELSE [session[c] EXCEPT !.former = TRUE, !.old = TRUE]
    BY DEF AddCluster, Stage
  <2>3. NoSession \in Session /\ NoSession.stage = "none"
    BY CredentialsAssumption
       DEF NoSession, NoSecrets, Session, Provider, Part, Secrets
  <2> QED
    BY <2>1, <2>2, <2>3 DEF Session
<1>7. session' \in [Editing -> Session]
  <2>1. session' = [c \in Editing |->
          IF Stage(c) = "none" THEN NoSession
          ELSE [session[c] EXCEPT !.former = TRUE, !.old = TRUE]]
    BY DEF AddCluster
  <2> QED
    BY <1>6, <2>1
<1> HIDE DEF new
<1>8. SecretTypes'
  BY <1>1, <1>2, <1>3, <1>4, <1>5, <1>7 DEF SecretTypes
<1>9. InHands'
  <2> SUFFICES ASSUME NEW d \in Editing
               PROVE  (/\ HasBegun(session[d]) /\ HoldsRequest(session[d])
                       /\ HoldsRow(session[d]) /\ Complete(session[d]))'
    BY DEF InHands
  <2>1. HasBegun(session[d]) /\ HoldsRequest(session[d])
        /\ HoldsRow(session[d])
    BY DEF SecretsInv, InHands
  <2>2. (HasBegun(session[d]) /\ HoldsRequest(session[d]))'
    BY <1>6, <2>1 DEF HasBegun, HoldsRequest
  <2>3. (HoldsRow(session[d]) /\ Complete(session[d]))'
    BY <1>6, <2>1 DEF HoldsRow, Complete, OfThisCluster
  <2> QED
    BY <2>2, <2>3
<1>10. GivenLast' /\ AllAskedFor'
  <2>1. \A p \in Needs(provider) : p \in Part /\ new[p] # 0
    BY <1>3 DEF new, Needs, Provider, Part
  <2> QED
    BY <1>1, <1>5, <2>1 DEF GivenLast, AllAskedFor
<1> QED
  BY <1>8, <1>9, <1>10 DEF SecretsInv

LEMMA PurgeStep == ASSUME SecretsInv, PurgeCluster PROVE SecretsInv'
<1>1. /\ clusterRow' = NoCluster
      /\ UNCHANGED <<session, editions, given, reverted, mistaken>>
  BY DEF PurgeCluster, givenHistory
<1>2. InHands'
  BY <1>1 DEF SecretsInv, InHands, HasBegun, HoldsRequest, HoldsRow, Complete,
              OfThisCluster
<1> QED
  BY <1>1, <1>2 DEF SecretsInv, SecretTypes, GivenLast, AllAskedFor

(* The row is written: it holds what this request gives, and where the     *)
(* request is not old what the row held before.                            *)
LEMMA UpdateStep ==
  ASSUME SecretsInv, NEW c \in Editing, UpdateCluster(c)
  PROVE  SecretsInv'
<1> DEFINE s == session[c]
<1>1. /\ s \in Session /\ HasBegun(s) /\ HoldsRow(s) /\ Complete(s)
      /\ session \in [Editing -> Session]
  BY DEF SecretsInv, SecretTypes, InHands
<1>2. /\ s.stage = "read" /\ editions' = editions
      /\ clusterRow' = IF clusterRow = NoCluster THEN NoCluster
                       ELSE [provider |-> s.provider, secrets |-> s.body]
      /\ given' = [p \in Part |-> IF p \in s.typed THEN s.number ELSE given[p]]
      /\ reverted' = (IF s.old THEN Part ELSE reverted) \ s.typed
  BY DEF UpdateCluster, Stage
<1>3. /\ mistaken' \in BOOLEAN
      /\ mistaken' # TRUE => mistaken # TRUE /\ s.former # TRUE
  <2>1. mistaken \in BOOLEAN /\ s.former \in BOOLEAN
    BY <1>1 DEF SecretsInv, SecretTypes, Session
  <2>2. mistaken' = (mistaken \/ s.former)
    BY DEF UpdateCluster
  <2> QED
    BY <2>1, <2>2
<1>4. s.old \in BOOLEAN /\ s.body \in Secrets /\ s.provider \in Provider
      /\ s.number \in 0 .. MaxEditions /\ s.typed \subseteq Part
  BY <1>1 DEF Session
<1>5. ASSUME NEW d \in Editing
      PROVE  /\ session'[d] \in Session
             /\ \/ session'[d].stage = "none"
                \/ /\ session'[d].stage = session[d].stage
                   /\ session[d].stage = "read" => session'[d].old = TRUE
                   /\ session'[d].number = session[d].number
                   /\ session'[d].typed = session[d].typed
                   /\ session'[d].body = session[d].body
                   /\ session'[d].provider = session[d].provider
                   /\ session'[d].former = session[d].former
  <2>1. session[d] \in Session
    BY <1>1
  <2>2. session'[d] = IF d = c THEN NoSession
          ELSE [session[d] EXCEPT !.old = @ \/ session[d].stage = "read"]
    BY DEF UpdateCluster, Stage
  <2>3. NoSession \in Session /\ NoSession.stage = "none"
    BY CredentialsAssumption
       DEF NoSession, NoSecrets, Session, Provider, Part, Secrets
  <2>4. CASE d = c
    BY <2>2, <2>3, <2>4
  <2>5. CASE d # c
    <3>1. PICK b \in BOOLEAN : /\ b = (session[d].old \/ session[d].stage = "read")
                               /\ session[d].stage = "read" => b = TRUE
      <4>1. session[d].old \in BOOLEAN
        BY <2>1 DEF Session
      <4> QED
        BY <4>1
    <3>2. session'[d] = [session[d] EXCEPT !.old = b]
      BY <2>2, <2>5, <3>1
    <3> QED
      BY <2>1, <3>1, <3>2 DEF Session
  <2> QED
    BY <2>4, <2>5
<1>6. session' \in [Editing -> Session]
  <2>1. session' = [d \in Editing |->
          IF d = c THEN NoSession
          ELSE [session[d] EXCEPT !.old = @ \/ Stage(d) = "read"]]
    BY DEF UpdateCluster
  <2> QED
    BY <1>5, <2>1
<1>7. SecretTypes'
  <2>1. given' \in Secrets
    BY <1>2, <1>4 DEF SecretsInv, SecretTypes, Secrets
  <2>2. reverted' \in SUBSET Part
    BY <1>2 DEF SecretsInv, SecretTypes
  <2>3. editions' \in 0 .. MaxEditions
    BY <1>2 DEF SecretsInv, SecretTypes
  <2>4. \/ clusterRow' = NoCluster
        \/ clusterRow' \in [provider : Provider, secrets : Secrets]
    BY <1>2, <1>4
  <2> QED
    BY <1>3, <1>6, <2>1, <2>2, <2>3, <2>4 DEF SecretTypes
<1>8. CASE clusterRow = NoCluster
  <2>1. clusterRow' = NoCluster
    BY <1>2, <1>8
  <2>2. InHands'
    <3> SUFFICES ASSUME NEW d \in Editing
                 PROVE  (/\ HasBegun(session[d]) /\ HoldsRequest(session[d])
                         /\ HoldsRow(session[d]) /\ Complete(session[d]))'
      BY DEF InHands
    <3>1. HasBegun(session[d]) /\ HoldsRequest(session[d])
          /\ HoldsRow(session[d])
      BY DEF SecretsInv, InHands
    <3>2. (HasBegun(session[d]) /\ HoldsRequest(session[d]))'
      BY <1>5, <3>1 DEF HasBegun, HoldsRequest
    <3>3. (HoldsRow(session[d]) /\ Complete(session[d]))'
      BY <1>5, <3>1, <2>1 DEF HoldsRow, Complete, OfThisCluster
    <3> QED
      BY <3>2, <3>3
  <2> QED
    BY <1>7, <2>1, <2>2 DEF SecretsInv, GivenLast, AllAskedFor
<1>9. CASE clusterRow # NoCluster
  <2>1. clusterRow'.provider = s.provider /\ clusterRow'.secrets = s.body
    BY <1>2, <1>9
  <2>2. mistaken' # TRUE => OfThisCluster(s)
    BY <1>2, <1>3, <1>9 DEF OfThisCluster
  <2>3. mistaken' # TRUE => s.provider = clusterRow.provider
    BY <1>1, <2>2 DEF Complete
  <2>4. AllAskedFor'
    BY <1>1, <1>2, <2>1, <2>2 DEF AllAskedFor, Complete
  <2>5. GivenLast'
    <3> SUFFICES ASSUME NEW p \in Part
                 PROVE  s.body[p] = given'[p] \/ p \in reverted'
      BY <2>1 DEF GivenLast
    <3>1. CASE p \in s.typed
      BY <1>1, <1>2, <3>1 DEF HoldsRow
    <3>2. CASE p \notin s.typed /\ s.old
      BY <1>2, <3>2
    <3>3. CASE p \notin s.typed /\ ~s.old
      <4>1. s.body[p] = clusterRow.secrets[p]
        BY <1>1, <1>2, <1>4, <1>9, <3>3 DEF HoldsRow
      <4>2. clusterRow.secrets[p] = given[p] \/ p \in reverted
        BY <1>9 DEF SecretsInv, GivenLast
      <4> QED
        BY <1>2, <3>3, <4>1, <4>2
    <3> QED
      BY <3>1, <3>2, <3>3
  <2>6. InHands'
    <3> SUFFICES ASSUME NEW d \in Editing
                 PROVE  (/\ HasBegun(session[d]) /\ HoldsRequest(session[d])
                         /\ HoldsRow(session[d]) /\ Complete(session[d]))'
      BY DEF InHands
    <3>1. /\ HasBegun(session[d]) /\ HoldsRequest(session[d])
          /\ HoldsRow(session[d]) /\ Complete(session[d])
          /\ session[d].old \in BOOLEAN
      BY <1>1 DEF SecretsInv, InHands, Session
    <3>2. (HasBegun(session[d]) /\ HoldsRequest(session[d]))'
      BY <1>5, <3>1 DEF HasBegun, HoldsRequest
    <3>3. HoldsRow(session[d])'
      BY <1>5, <3>1 DEF HoldsRow
    <3>4. Complete(session[d])'
      <4> SUFFICES ASSUME OfThisCluster(session[d])'
                   PROVE  /\ session'[d].provider = clusterRow'.provider
                          /\ session'[d].stage = "read" =>
                               \A p \in Needs(session'[d].provider) :
                                 session'[d].body[p] # 0
        BY DEF Complete
      <4>1. /\ session'[d].stage # "none" /\ session'[d].former # TRUE
            /\ mistaken' # TRUE
        BY DEF OfThisCluster
      <4>2. OfThisCluster(session[d])
        BY <1>3, <1>5, <1>9, <4>1 DEF OfThisCluster
      <4> QED
        BY <1>5, <2>1, <2>3, <3>1, <4>1, <4>2 DEF Complete
    <3> QED
      BY <3>2, <3>3, <3>4
  <2> QED
    BY <1>7, <2>4, <2>5, <2>6 DEF SecretsInv
<1> QED
  BY <1>8, <1>9

LEMMA SecretsStep ==
  ASSUME SecretsInv, [CredentialsNext]_credentialVars
  PROVE  SecretsInv'
<1>1. CASE UNCHANGED credentialVars
  BY <1>1 DEF credentialVars, givenHistory, SecretsInv, SecretTypes, InHands,
       HasBegun, HoldsRequest, HoldsRow, Complete, OfThisCluster, GivenLast,
       AllAskedFor
<1> QED
  BY <1>1, AddStep, PurgeStep, QuietSession, UpdateStep DEF CredentialsNext

(* However many shells edit the cluster at once, and whenever it is purged *)
(* and added again: a secret left empty stays what the row held, unless    *)
(* two requests overlapped, and no secret the provider needs is emptied by *)
(* an edit of this cluster (handleUpdateCluster and                        *)
(* RestoreUnchangedSecrets, handlers.go:248-269, clusters.go:48-64).       *)
THEOREM SecretsKept == CredentialsSpec => []SecretsOfLastEdit
<1>1. SecretsInv => SecretsOfLastEdit
  BY DEF SecretsInv, SecretTypes, GivenLast, AllAskedFor, SecretsOfLastEdit
<1> QED
  BY <1>1, SecretsInit, SecretsStep, PTL DEF CredentialsSpec

-----------------------------------------------------------------------------
(* The statements of the upgrade.                                          *)

Kinds == {"probe", "schema", "rebuild", "create", "alter", "insert", "move",
          "drop"}

(* What there is once a statement has been run or passed over: what it     *)
(* adds, or of that what its probe stands for.                             *)
Provides(s) ==
  (CASE s.does = "rebuild" -> {"kinds"}
     [] s.does \in {"create", "alter", "insert"} ->
          IF s.unless = "nothing" THEN s.what ELSE s.what \cap {s.unless}
     [] OTHER -> {}) \ AIColumns

IsStatement(s) ==
  /\ s.does \in Kinds /\ s.what \in SUBSET Features
  /\ s.unless \in Features \cup {"nothing"}
  /\ s.does = "rebuild" => s.unless = "kinds"

(* The rows of the old table are moved right before it is dropped.         *)
WellMade(seq) ==
  /\ \A i \in 1 .. Len(seq) : IsStatement(seq[i])
  /\ \A i \in 1 .. Len(seq) : seq[i].does = "drop" =>
       /\ i # 1 /\ seq[i - 1].does = "move"
       /\ seq[i].unless = "aggregated" /\ seq[i - 1].unless = "aggregated"

Statements ==
  [does : Kinds, what : SUBSET Features, unless : Features \cup {"nothing"}]

(* The sequences of statements that are well made and provide a feature.   *)
Provide(seq, f) == \E i \in 1 .. Len(seq) : f \in Provides(seq[i])

LEMMA Concatenated ==
  ASSUME NEW a \in Seq(Statements), NEW b \in Seq(Statements),
         WellMade(a), WellMade(b)
  PROVE  /\ a \o b \in Seq(Statements) /\ WellMade(a \o b)
         /\ \A f : Provide(a, f) \/ Provide(b, f) => Provide(a \o b, f)
<1> DEFINE c == a \o b
<1>1. /\ c \in Seq(Statements) /\ Len(c) = Len(a) + Len(b)
      /\ Len(a) \in Nat /\ Len(b) \in Nat
      /\ \A i \in 1 .. Len(c) : c[i] = IF i <= Len(a) THEN a[i]
                                       ELSE b[i - Len(a)]
  OBVIOUS
<1> HIDE DEF c
<1>2. \A i \in 1 .. Len(c) : i <= Len(a) => i \in 1 .. Len(a) /\ c[i] = a[i]
  BY <1>1
<1>3. \A i \in 1 .. Len(c) : ~(i <= Len(a)) =>
        /\ i - Len(a) \in 1 .. Len(b) /\ c[i] = b[i - Len(a)]
        /\ i - Len(a) # 1 => /\ c[i - 1] = b[(i - Len(a)) - 1]
                             /\ i # 1
  <2> SUFFICES ASSUME NEW i \in 1 .. Len(c), ~(i <= Len(a))
               PROVE  /\ i - Len(a) \in 1 .. Len(b) /\ c[i] = b[i - Len(a)]
                      /\ i - Len(a) # 1 => /\ c[i - 1] = b[(i - Len(a)) - 1]
                                           /\ i # 1
    OBVIOUS
  <2>1. i - Len(a) \in 1 .. Len(b) /\ c[i] = b[i - Len(a)]
    BY <1>1
  <2>2. ASSUME i - Len(a) # 1
        PROVE  c[i - 1] = b[(i - Len(a)) - 1] /\ i # 1
    <3>1. i - 1 \in 1 .. Len(c) /\ ~(i - 1 <= Len(a))
      BY <1>1, <2>2
    <3>2. c[i - 1] = b[(i - 1) - Len(a)]
      BY <1>1, <3>1
    <3>3. (i - 1) - Len(a) = (i - Len(a)) - 1
      BY <1>1
    <3> QED
      BY <1>1, <3>1, <3>2, <3>3
  <2> QED
    BY <2>1, <2>2
<1>4. \A i \in 1 .. Len(c) : i <= Len(a) /\ i # 1 => c[i - 1] = a[i - 1]
  <2> SUFFICES ASSUME NEW i \in 1 .. Len(c), i <= Len(a), i # 1
               PROVE  c[i - 1] = a[i - 1]
    OBVIOUS
  <2>1. i - 1 \in 1 .. Len(c) /\ i - 1 <= Len(a)
    BY <1>1
  <2> QED
    BY <1>1, <2>1
<1>5. \A i \in 1 .. Len(c) : IsStatement(c[i])
  BY <1>2, <1>3 DEF WellMade
<1>6. ASSUME NEW i \in 1 .. Len(c), c[i].does = "drop"
      PROVE  /\ i # 1 /\ c[i - 1].does = "move"
             /\ c[i].unless = "aggregated" /\ c[i - 1].unless = "aggregated"
  <2>1. CASE i <= Len(a)
    BY <1>2, <1>4, <1>6, <2>1 DEF WellMade
  <2>2. CASE ~(i <= Len(a))
    <3> DEFINE k == i - Len(a)
    <3>1. /\ k \in 1 .. Len(b) /\ c[i] = b[k]
          /\ k # 1 => c[i - 1] = b[k - 1] /\ i # 1
      BY <1>3, <2>2
    <3> HIDE DEF k
    <3>2. /\ k # 1 /\ b[k - 1].does = "move"
          /\ b[k].unless = "aggregated" /\ b[k - 1].unless = "aggregated"
      BY <1>6, <3>1 DEF WellMade
    <3> QED
      BY <3>1, <3>2
  <2> QED
    BY <2>1, <2>2
<1>7. WellMade(c)
  BY <1>5, <1>6 DEF WellMade
<1>8. ASSUME NEW f, Provide(a, f) PROVE Provide(c, f)
  <2>1. PICK i \in 1 .. Len(a) : f \in Provides(a[i])
    BY <1>8 DEF Provide
  <2>2. i \in 1 .. Len(c) /\ i <= Len(a)
    BY <1>1
  <2> QED
    BY <1>2, <2>1, <2>2 DEF Provide
<1>9. ASSUME NEW f, Provide(b, f) PROVE Provide(c, f)
  <2>1. PICK i \in 1 .. Len(b) : f \in Provides(b[i])
    BY <1>9 DEF Provide
  <2>2. /\ i + Len(a) \in 1 .. Len(c) /\ ~(i + Len(a) <= Len(a))
        /\ (i + Len(a)) - Len(a) = i
    BY <1>1
  <2>3. c[i + Len(a)] = b[i]
    BY <1>1, <2>2
  <2> QED
    BY <2>1, <2>2, <2>3 DEF Provide
<1> QED
  BY <1>1, <1>7, <1>8, <1>9 DEF c

Sound(s) == s \in Statements /\ IsStatement(s)

LEMMA SoundDo ==
  ASSUME NEW does \in Kinds, NEW what \in SUBSET Features,
         NEW unless \in Features \cup {"nothing"},
         does = "rebuild" => unless = "kinds"
  PROVE  /\ Sound(Do(does, what, unless)) /\ Do(does, what, unless).does = does
         /\ Do(does, what, unless).what = what
         /\ Do(does, what, unless).unless = unless
  BY DEF Sound, Statements, IsStatement, Do

LEMMA SoundProbe ==
  ASSUME NEW what \in SUBSET Features
  PROVE  Sound(Probe(what)) /\ Probe(what).does = "probe"
  BY SoundDo DEF Probe, Kinds

LEMMA Two ==
  ASSUME NEW a, NEW b, Sound(a), Sound(b), a.does # "drop", b.does # "drop"
  PROVE  /\ <<a, b>> \in Seq(Statements) /\ WellMade(<<a, b>>)
         /\ \A f : f \in Provides(b) => Provide(<<a, b>>, f)
<1>1. Len(<<a, b>>) = 2 /\ <<a, b>>[1] = a /\ <<a, b>>[2] = b
  OBVIOUS
<1>2. <<a, b>> \in Seq(Statements)
  BY DEF Sound
<1>3. \A i \in 1 .. 2 : i = 1 \/ i = 2
  OBVIOUS
<1>4. WellMade(<<a, b>>)
  BY <1>1, <1>3 DEF WellMade, Sound
<1> QED
  BY <1>1, <1>2, <1>4 DEF Provide

LEMMA Three ==
  ASSUME NEW a, NEW b, NEW c, Sound(a), Sound(b), Sound(c),
         a.does # "drop", b.does # "drop", c.does # "drop"
  PROVE  /\ <<a, b, c>> \in Seq(Statements) /\ WellMade(<<a, b, c>>)
         /\ \A f : f \in Provides(b) \/ f \in Provides(c) =>
              Provide(<<a, b, c>>, f)
<1>1. /\ Len(<<a, b, c>>) = 3 /\ <<a, b, c>>[1] = a /\ <<a, b, c>>[2] = b
      /\ <<a, b, c>>[3] = c
  OBVIOUS
<1>2. <<a, b, c>> \in Seq(Statements)
  BY DEF Sound
<1>3. \A i \in 1 .. 3 : i = 1 \/ i = 2 \/ i = 3
  OBVIOUS
<1>4. WellMade(<<a, b, c>>)
  BY <1>1, <1>3 DEF WellMade, Sound
<1> QED
  BY <1>1, <1>2, <1>4 DEF Provide

LEMMA Four ==
  ASSUME NEW a, NEW b, NEW c, NEW d, Sound(a), Sound(b), Sound(c), Sound(d),
         a.does # "drop", b.does # "drop", c.does # "drop",
         d.does = "drop" => /\ c.does = "move" /\ d.unless = "aggregated"
                            /\ c.unless = "aggregated"
  PROVE  /\ <<a, b, c, d>> \in Seq(Statements) /\ WellMade(<<a, b, c, d>>)
         /\ \A f : f \in Provides(b) \/ f \in Provides(d) =>
              Provide(<<a, b, c, d>>, f)
<1> DEFINE s == <<a, b, c, d>>
<1>1. Len(s) = 4 /\ s[1] = a /\ s[2] = b /\ s[3] = c /\ s[4] = d
  OBVIOUS
<1>2. s \in Seq(Statements)
  BY DEF Sound
<1>3. \A i \in 1 .. 4 : i = 1 \/ i = 2 \/ i = 3 \/ i = 4
  OBVIOUS
<1> HIDE DEF s
<1>4. WellMade(s)
  <2>1. s[4 - 1] = c
    BY <1>1
  <2> QED
    BY <1>1, <1>3, <2>1 DEF WellMade, Sound
<1>5. \A f : f \in Provides(b) \/ f \in Provides(d) => Provide(s, f)
  BY <1>1 DEF Provide
<1> QED
  BY <1>2, <1>4, <1>5 DEF s

LEMMA Five ==
  ASSUME NEW a, NEW b, NEW c, NEW d, NEW e,
         Sound(a), Sound(b), Sound(c), Sound(d), Sound(e),
         a.does # "drop", b.does # "drop", c.does # "drop", d.does # "drop",
         e.does # "drop"
  PROVE  <<a, b, c, d, e>> \in Seq(Statements) /\ WellMade(<<a, b, c, d, e>>)
<1> DEFINE s == <<a, b, c, d, e>>
<1>1. Len(s) = 5 /\ s[1] = a /\ s[2] = b /\ s[3] = c /\ s[4] = d /\ s[5] = e
  OBVIOUS
<1>2. s \in Seq(Statements)
  BY DEF Sound
<1>3. \A i \in 1 .. 5 : i = 1 \/ i = 2 \/ i = 3 \/ i = 4 \/ i = 5
  OBVIOUS
<1> HIDE DEF s
<1>4. WellMade(s)
  BY <1>1, <1>3 DEF WellMade, Sound
<1> QED
  BY <1>2, <1>4 DEF s

LEMMA NamedFeatures ==
  /\ \A f \in {"tables", "kinds", "aggregated", "protection_row",
               "response_time", "accuracy", "feedback", "resolved",
               "failed_reason", "consumed", "bytes_consumed", "role",
               "cluster_id", "connection_string", "inventory:view",
               "inventory:create", "mirror_state:view", "mirror_state:others",
               "events:view"} : f \in Features
  /\ "nothing" \notin Features
  BY DEF Features, AIColumns, Columns, Permissions

LEMMA FirstPieces ==
  /\ AddAIMetricsColumns \in Seq(Statements) /\ WellMade(AddAIMetricsColumns)
  /\ AddInventoryPermissions \in Seq(Statements)
  /\ WellMade(AddInventoryPermissions)
  /\ AddMirrorStateTables \in Seq(Statements) /\ WellMade(AddMirrorStateTables)
<1>1. /\ AddAIMetricsColumns \in Seq(Statements)
      /\ WellMade(AddAIMetricsColumns)
  <2>1. Sound(Probe({"response_time"})) /\ Probe({"response_time"}).does # "drop"
    BY SoundProbe, NamedFeatures
  <2>2. \A f \in {"response_time", "accuracy", "feedback", "resolved"} :
          LET s == Do("alter", {f}, "response_time")
          IN Sound(s) /\ s.does # "drop"
    BY SoundDo, NamedFeatures DEF Kinds
  <2> QED
    BY <2>1, <2>2, Five DEF AddAIMetricsColumns
<1>2. /\ AddInventoryPermissions \in Seq(Statements)
      /\ WellMade(AddInventoryPermissions)
  <2>1. Sound(Probe({"inventory:view"}))
        /\ Probe({"inventory:view"}).does # "drop"
    BY SoundProbe, NamedFeatures
  <2>2. \A f \in {"inventory:view", "inventory:create"} :
          LET s == Do("insert", {f}, "inventory:view")
          IN Sound(s) /\ s.does # "drop"
    BY SoundDo, NamedFeatures DEF Kinds
  <2> QED
    BY <2>1, <2>2, Three DEF AddInventoryPermissions
<1>3. /\ AddMirrorStateTables \in Seq(Statements)
      /\ WellMade(AddMirrorStateTables)
  <2>1. Sound(Probe({"tables"})) /\ Probe({"tables"}).does # "drop"
    BY SoundProbe, NamedFeatures
  <2>2. LET s == Do("create", {"tables"}, "tables")
        IN Sound(s) /\ s.does # "drop"
    BY SoundDo, NamedFeatures DEF Kinds
  <2> QED
    BY <2>1, <2>2, Two DEF AddMirrorStateTables
<1> QED
  BY <1>1, <1>2, <1>3

LEMMA ProvidesIts ==
  ASSUME NEW does \in {"create", "alter", "insert"}, NEW f \in Features \ AIColumns
  PROVE  /\ Sound(Do(does, {f}, f)) /\ Do(does, {f}, f).does = does
         /\ f \in Provides(Do(does, {f}, f))
<1>1. /\ Sound(Do(does, {f}, f)) /\ Do(does, {f}, f).does = does
      /\ Do(does, {f}, f).what = {f} /\ Do(does, {f}, f).unless = f
  BY SoundDo DEF Kinds
<1> QED
  BY <1>1, NamedFeatures DEF Provides

LEMMA OtherPieces ==
  /\ AddMirrorStatePermissions \in Seq(Statements)
  /\ WellMade(AddMirrorStatePermissions)
  /\ AddFailedReasonToJobs \in Seq(Statements) /\ WellMade(AddFailedReasonToJobs)
  /\ Provide(AddFailedReasonToJobs, "failed_reason")
  /\ AddEventsViewPermission \in Seq(Statements)
  /\ WellMade(AddEventsViewPermission)
<1>1. /\ AddMirrorStatePermissions \in Seq(Statements)
      /\ WellMade(AddMirrorStatePermissions)
  <2>1. Sound(Probe({"mirror_state:view"}))
        /\ Probe({"mirror_state:view"}).does # "drop"
    BY SoundProbe, NamedFeatures
  <2>2. \A f \in {"mirror_state:view", "mirror_state:others"} :
          LET s == Do("insert", {f}, "mirror_state:view")
          IN Sound(s) /\ s.does # "drop"
    BY SoundDo, NamedFeatures DEF Kinds
  <2> QED
    BY <2>1, <2>2, Three DEF AddMirrorStatePermissions
<1>2. /\ AddFailedReasonToJobs \in Seq(Statements)
      /\ WellMade(AddFailedReasonToJobs)
      /\ Provide(AddFailedReasonToJobs, "failed_reason")
  <2>1. Sound(Probe({"failed_reason"})) /\ Probe({"failed_reason"}).does # "drop"
    BY SoundProbe, NamedFeatures
  <2>2. LET s == Do("alter", {"failed_reason"}, "failed_reason")
        IN Sound(s) /\ s.does # "drop" /\ "failed_reason" \in Provides(s)
    BY ProvidesIts, NamedFeatures DEF AIColumns
  <2> QED
    BY <2>1, <2>2, Two DEF AddFailedReasonToJobs
<1>3. /\ AddEventsViewPermission \in Seq(Statements)
      /\ WellMade(AddEventsViewPermission)
  <2>1. Sound(Probe({"events:view"})) /\ Probe({"events:view"}).does # "drop"
    BY SoundProbe, NamedFeatures
  <2>2. LET s == Do("insert", {"events:view"}, "events:view")
        IN Sound(s) /\ s.does # "drop"
    BY SoundDo, NamedFeatures DEF Kinds
  <2> QED
    BY <2>1, <2>2, Two DEF AddEventsViewPermission
<1> QED
  BY <1>1, <1>2, <1>3

SchemaPiece ==
  << Do("schema", {}, "nothing"),
     Probe({"kinds"}), Do("rebuild", {}, "kinds") >>

LEMMA TablePieces ==
  /\ SchemaPiece \in Seq(Statements) /\ WellMade(SchemaPiece)
  /\ Provide(SchemaPiece, "kinds")
  /\ AddAggregatedMetricsTable \in Seq(Statements)
  /\ WellMade(AddAggregatedMetricsTable)
  /\ Provide(AddAggregatedMetricsTable, "aggregated")
<1>1. /\ SchemaPiece \in Seq(Statements) /\ WellMade(SchemaPiece)
      /\ Provide(SchemaPiece, "kinds")
  <2>1. Sound(Probe({"kinds"})) /\ Probe({"kinds"}).does # "drop"
    BY SoundProbe, NamedFeatures
  <2>2. LET s == Do("schema", {}, "nothing") IN Sound(s) /\ s.does # "drop"
    BY SoundDo DEF Kinds
  <2>3. LET s == Do("rebuild", {}, "kinds")
        IN Sound(s) /\ s.does = "rebuild"
    BY SoundDo, NamedFeatures DEF Kinds
  <2>4. "kinds" \in Provides(Do("rebuild", {}, "kinds"))
    BY <2>3 DEF Provides, AIColumns
  <2> QED
    BY <2>1, <2>2, <2>3, <2>4, Three DEF SchemaPiece
<1>2. /\ AddAggregatedMetricsTable \in Seq(Statements)
      /\ WellMade(AddAggregatedMetricsTable)
      /\ Provide(AddAggregatedMetricsTable, "aggregated")
  <2>1. Sound(Probe({"aggregated"})) /\ Probe({"aggregated"}).does # "drop"
    BY SoundProbe, NamedFeatures
  <2> DEFINE made == {"aggregated", "consumed", "bytes_consumed"}
             b    == Do("create", made, "aggregated")
  <2>2. /\ Sound(b) /\ b.does = "create" /\ b.what = made
        /\ b.unless = "aggregated"
    BY SoundDo, NamedFeatures DEF Kinds
  <2>3. "aggregated" \in Provides(b)
    BY <2>2 DEF Provides, AIColumns
  <2>4. LET s == Do("move", {}, "aggregated")
        IN Sound(s) /\ s.does = "move" /\ s.unless = "aggregated"
    BY SoundDo, NamedFeatures DEF Kinds
  <2>5. LET s == Do("drop", {}, "aggregated")
        IN Sound(s) /\ s.unless = "aggregated"
    BY SoundDo, NamedFeatures DEF Kinds
  <2> HIDE DEF made
  <2>6. AddAggregatedMetricsTable = <<Probe({"aggregated"}), b,
          Do("move", {}, "aggregated"), Do("drop", {}, "aggregated")>>
    BY DEF AddAggregatedMetricsTable, made
  <2> HIDE DEF b
  <2>7. b.does # "drop" /\ Do("move", {}, "aggregated").does # "drop"
    BY <2>2, <2>4
  <2> QED
    BY <2>1, <2>2, <2>3, <2>4, <2>5, <2>6, <2>7, Four
<1> QED
  BY <1>1, <1>2

LEMMA ColumnPieces ==
  /\ EnsureColumns \in Seq(Statements) /\ WellMade(EnsureColumns)
  /\ Provide(EnsureColumns, "consumed") /\ Provide(EnsureColumns, "bytes_consumed")
  /\ EnsureProtectionSchema \in Seq(Statements)
  /\ WellMade(EnsureProtectionSchema)
  /\ Provide(EnsureProtectionSchema, "role")
  /\ Provide(EnsureProtectionSchema, "protection_row")
  /\ AddClusterIdentifierFields \in Seq(Statements)
  /\ WellMade(AddClusterIdentifierFields)
  /\ Provide(AddClusterIdentifierFields, "cluster_id")
  /\ Provide(AddClusterIdentifierFields, "connection_string")
<1>1. \A f \in {"consumed", "bytes_consumed", "role", "cluster_id",
                "connection_string"} :
        /\ Sound(Do("alter", {f}, f)) /\ Do("alter", {f}, f).does # "drop"
        /\ f \in Provides(Do("alter", {f}, f))
  BY ProvidesIts, NamedFeatures DEF AIColumns
<1>2. \A f \in SUBSET Features : Sound(Probe(f)) /\ Probe(f).does # "drop"
  BY SoundProbe
<1>3. /\ EnsureColumns \in Seq(Statements) /\ WellMade(EnsureColumns)
      /\ Provide(EnsureColumns, "consumed")
      /\ Provide(EnsureColumns, "bytes_consumed")
  <2>1. {"consumed", "bytes_consumed"} \in SUBSET Features
    BY NamedFeatures
  <2> QED
    BY <1>1, <1>2, <2>1, Three DEF EnsureColumns
<1>4. /\ EnsureProtectionSchema \in Seq(Statements)
      /\ WellMade(EnsureProtectionSchema)
      /\ Provide(EnsureProtectionSchema, "role")
      /\ Provide(EnsureProtectionSchema, "protection_row")
  <2> DEFINE s == Do("create", {"protection_row"}, "nothing")
  <2>1. /\ Sound(s) /\ s.does = "create" /\ s.what = {"protection_row"}
        /\ s.unless = "nothing"
    BY SoundDo, NamedFeatures DEF Kinds
  <2>2. s.does # "drop" /\ "protection_row" \in Provides(s)
    BY <2>1 DEF Provides, AIColumns
  <2>3. {"role"} \in SUBSET Features
    BY NamedFeatures
  <2> QED
    BY <1>1, <1>2, <2>1, <2>2, <2>3, Three DEF EnsureProtectionSchema
<1>5. /\ AddClusterIdentifierFields \in Seq(Statements)
      /\ WellMade(AddClusterIdentifierFields)
      /\ Provide(AddClusterIdentifierFields, "cluster_id")
      /\ Provide(AddClusterIdentifierFields, "connection_string")
  <2>1. {"cluster_id"} \in SUBSET Features
        /\ {"connection_string"} \in SUBSET Features
    BY NamedFeatures
  <2> QED
    BY <1>1, <1>2, <2>1, Four DEF AddClusterIdentifierFields
<1> QED
  BY <1>3, <1>4, <1>5

(* The upgrade as a whole.                                                 *)
LEMMA UpgradeIs ==
  /\ Upgrade \in Seq(Statements) /\ WellMade(Upgrade) /\ Len(Upgrade) \in Nat
  /\ \A f \in Columns \cup {"kinds", "aggregated", "protection_row"} :
       Provide(Upgrade, f)
<1> DEFINE u2 == SchemaPiece \o AddAIMetricsColumns
           u3 == u2 \o AddInventoryPermissions
           u4 == u3 \o AddMirrorStateTables
           u5 == u4 \o AddMirrorStatePermissions
           u6 == u5 \o AddFailedReasonToJobs
           u7 == u6 \o AddAggregatedMetricsTable
           u8 == u7 \o EnsureColumns
           u9 == u8 \o EnsureProtectionSchema
           u10 == u9 \o AddClusterIdentifierFields
           u11 == u10 \o AddMirrorProgressHistoryTable
           u12 == u11 \o AddEventsViewPermission
<1>0. Upgrade = u12
  BY DEF Upgrade, SchemaPiece
<1>1. u2 \in Seq(Statements) /\ WellMade(u2) /\ Provide(u2, "kinds")
  BY FirstPieces, TablePieces, Concatenated
<1> HIDE DEF u2
<1>2. u3 \in Seq(Statements) /\ WellMade(u3) /\ Provide(u3, "kinds")
  BY <1>1, FirstPieces, Concatenated
<1> HIDE DEF u3
<1>3. u4 \in Seq(Statements) /\ WellMade(u4) /\ Provide(u4, "kinds")
  BY <1>2, FirstPieces, Concatenated
<1> HIDE DEF u4
<1>4. u5 \in Seq(Statements) /\ WellMade(u5) /\ Provide(u5, "kinds")
  BY <1>3, OtherPieces, Concatenated
<1> HIDE DEF u5
<1>5. /\ u6 \in Seq(Statements) /\ WellMade(u6)
      /\ \A f \in {"kinds", "failed_reason"} : Provide(u6, f)
  BY <1>4, OtherPieces, Concatenated
<1> HIDE DEF u6
<1>6. /\ u7 \in Seq(Statements) /\ WellMade(u7)
      /\ \A f \in {"kinds", "failed_reason", "aggregated"} : Provide(u7, f)
  BY <1>5, TablePieces, Concatenated
<1> HIDE DEF u7
<1>7. /\ u8 \in Seq(Statements) /\ WellMade(u8)
      /\ \A f \in {"kinds", "failed_reason", "aggregated", "consumed",
                   "bytes_consumed"} : Provide(u8, f)
  BY <1>6, ColumnPieces, Concatenated
<1> HIDE DEF u8
<1>8. /\ u9 \in Seq(Statements) /\ WellMade(u9)
      /\ \A f \in {"kinds", "failed_reason", "aggregated", "consumed",
                   "bytes_consumed", "role", "protection_row"} : Provide(u9, f)
  BY <1>7, ColumnPieces, Concatenated
<1> HIDE DEF u9
<1>9. /\ u10 \in Seq(Statements) /\ WellMade(u10)
      /\ \A f \in {"kinds", "failed_reason", "aggregated", "consumed",
                   "bytes_consumed", "role", "protection_row", "cluster_id",
                   "connection_string"} : Provide(u10, f)
  BY <1>8, ColumnPieces, Concatenated
<1> HIDE DEF u10
<1>10. /\ u11 \in Seq(Statements) /\ WellMade(u11)
       /\ \A f : Provide(u10, f) => Provide(u11, f)
  BY <1>9, FirstPieces, Concatenated DEF AddMirrorProgressHistoryTable
<1> HIDE DEF u11
<1>11. /\ u12 \in Seq(Statements) /\ WellMade(u12)
       /\ \A f : Provide(u11, f) => Provide(u12, f)
  BY <1>10, OtherPieces, Concatenated
<1> HIDE DEF u12
<1>12. \A f \in Columns \cup {"kinds", "aggregated", "protection_row"} :
         Provide(u10, f)
  BY <1>9 DEF Columns
<1> QED
  BY <1>0, <1>10, <1>11, <1>12

-----------------------------------------------------------------------------
(* The database file.                                                      *)

FileTypes ==
  /\ schema \in SUBSET Features
  /\ seeded \in BOOLEAN /\ moved \in BOOLEAN /\ cutShort \in BOOLEAN
  /\ oldMetrics \in {"none", "empty", "full"} /\ demoted \in BOOLEAN
  /\ account \in [{"bootstrap", "other"} -> Standing]
  /\ step \in [Process -> 0 .. Ready]
  /\ found \in [Process -> SUBSET Features]

AtStatement(p) == step[p] \in 1 .. Len(Upgrade)

(* What a probe has found stays: only the columns of migration 2 are ever  *)
(* dropped.                                                                *)
FoundIsThere == \A p \in Process : found[p] \ AIColumns \subseteq schema

(* What a process has been at is there, unless it has passed over all.     *)
Provided ==
  \A p \in Process \ blind : \A i \in 1 .. Len(Upgrade) :
    i < step[p] => Provides(Upgrade[i]) \subseteq schema

(* A process about to drop the old table has moved its rows.               *)
MovedFirst ==
  \A p \in Process :
    AtStatement(p) /\ Statement(p).does = "drop" /\ "aggregated" \notin found[p]
      => moved = TRUE

RowsSomewhere == oldMetrics = "full" \/ moved = TRUE

(* The first user gets its role from the process that made it, or some     *)
(* process has ended in between; and who has a lesser role was made by     *)
(* hand, was an administrator, or is that user.                            *)
SeededFirst ==
  \A p \in Process : step[p] \in {Creating, Assigning} => seeded = TRUE

RoleToCome ==
  \A u \in {"bootstrap", "other"} : account[u] \in {"roleless", "operator"} =>
    \/ cutShort = TRUE \/ demoted = TRUE
    \/ u = "bootstrap" /\ \E p \in Process : step[p] = Assigning

DaemonCounted ==
  step[Daemon] = Ready =>
    \E u \in {"bootstrap", "other"} : account[u] # "none"

FileInv ==
  /\ FileTypes /\ FoundIsThere /\ Provided /\ MovedFirst /\ RowsSomewhere
  /\ SeededFirst /\ RoleToCome /\ DaemonCounted

LEMMA Steps ==
  /\ Len(Upgrade) \in Nat /\ Opened = Len(Upgrade) + 1
  /\ Seeding = Opened + 1 /\ Creating = Opened + 2 /\ Assigning = Opened + 3
  /\ Ready = Opened + 4
  BY UpgradeIs DEF Opened, Seeding, Creating, Assigning, Ready

LEMMA FileInit == DatabaseInit => FileInv
<1> SUFFICES ASSUME DatabaseInit
             PROVE  FileInv
  OBVIOUS
<1>1. PICK r \in 0 .. Len(Releases) :
        /\ schema = UNION {Releases[i] : i \in 1 .. r}
        /\ seeded = (r > 0)
        /\ \E other \in IF r > 0 THEN {"admin", "operator"} ELSE {"none"} :
             /\ account = [bootstrap |-> "none", other |-> other]
             /\ demoted = (other = "operator")
        /\ oldMetrics = (IF r \in 1 .. 6 THEN "full" ELSE "none")
        /\ moved = (r \notin 1 .. 6)
  BY DEF DatabaseInit
<1>2. /\ step = [p \in Process |-> 0] /\ found = [p \in Process |-> {}]
  BY DEF DatabaseInit
<1>3. cutShort \in BOOLEAN
  BY Zenon DEF DatabaseInit
<1>4. schema \in SUBSET Features
  <2>1. \A i \in 1 .. Len(Releases) : Releases[i] \subseteq Features
    <3>1. Len(Releases) = 11
      BY DEF Releases
    <3>2. \A i \in 1 .. 11 : i = 1 \/ i = 2 \/ i = 3 \/ i = 4 \/ i = 5 \/ i = 6
            \/ i = 7 \/ i = 8 \/ i = 9 \/ i = 10 \/ i = 11
      OBVIOUS
    <3>3. AIColumns \subseteq Features
      BY NamedFeatures DEF AIColumns
    <3> QED
      BY <3>1, <3>2, <3>3, NamedFeatures DEF Releases
  <2>2. \A i \in 1 .. r : i \in 1 .. Len(Releases)
    BY <1>1 DEF Releases
  <2> QED
    BY <1>1, <2>1, <2>2
<1>5. /\ moved \in BOOLEAN /\ seeded \in BOOLEAN
      /\ oldMetrics \in {"none", "empty", "full"}
      /\ oldMetrics = "full" \/ moved = TRUE
  <2>1. moved \in BOOLEAN /\ seeded \in BOOLEAN
    <3>1. moved \in BOOLEAN
      BY <1>1, Zenon
    <3>2. seeded \in BOOLEAN
      BY <1>1
    <3> QED
      BY <3>1, <3>2
  <2>2. CASE r \in 1 .. 6
    BY <1>1, <2>1, <2>2
  <2>3. CASE r \notin 1 .. 6
    <3>1. moved = TRUE
      BY <1>1, <2>3, Zenon
    <3> QED
      BY <1>1, <2>1, <2>3, <3>1
  <2> QED
    BY <2>2, <2>3
<1>6. /\ account \in [{"bootstrap", "other"} -> Standing]
      /\ demoted \in BOOLEAN
      /\ \A u \in {"bootstrap", "other"} :
           account[u] \in {"roleless", "operator"} => demoted = TRUE
  <2>1. PICK other \in {"none", "admin", "operator"} :
          /\ account = [bootstrap |-> "none", other |-> other]
          /\ demoted = (other = "operator")
    BY <1>1
  <2>2. account \in [{"bootstrap", "other"} -> Standing]
        /\ account["bootstrap"] = "none" /\ account["other"] = other
    BY <2>1 DEF Standing
  <2>3. demoted \in BOOLEAN /\ (other = "operator" => demoted = TRUE)
    BY Zenon, <2>1
  <2> QED
    BY <2>1, <2>2, <2>3
<1>7. FileTypes
  BY <1>2, <1>3, <1>4, <1>5, <1>6, Steps DEF FileTypes
<1>8. \A p \in Process : step[p] = 0 /\ found[p] = {}
  BY <1>2
<1>9. Daemon \in Process /\ 0 # Ready /\ 0 # Creating /\ 0 # Assigning
  BY Steps DEF Process
<1> QED
  BY <1>5, <1>6, <1>7, <1>8, <1>9
     DEF FileInv, FoundIsThere, Provided, MovedFirst, RowsSomewhere, AtStatement,
         SeededFirst, RoleToCome, DaemonCounted

(* A process goes on or goes down, and nothing else changes that matters   *)
(* to where the others are.                                                *)
Moves(p, n) ==
  /\ n \in 0 .. Ready
  /\ \A q \in Process : step'[q] = IF q = p THEN n ELSE step[q]
  /\ step' \in [Process -> 0 .. Ready]

LEMMA MovesTo ==
  ASSUME FileTypes, NEW p \in Process, NEW n \in 0 .. Ready, JumpsTo(p, n)
  PROVE  Moves(p, n)
  BY DEF FileTypes, JumpsTo, Moves

(* A step that changes no row and no table but adds to the schema.         *)
LEMMA UpgradeKeeps ==
  ASSUME FileInv, FileTypes', NEW p \in Process, NEW n \in 0 .. Opened,
         AtStatement(p) \/ step[p] = 0, Moves(p, n),
         UNCHANGED <<seeded, account, cutShort, demoted>>
  PROVE  SeededFirst' /\ RoleToCome' /\ DaemonCounted'
<1>1. n # Creating /\ n # Assigning /\ n # Ready
  BY Steps
<1>2. step[p] # Assigning
  BY Steps DEF AtStatement
<1>3. \A q \in Process : /\ step'[q] = Assigning <=> step[q] = Assigning
                         /\ step'[q] = Creating => step[q] = Creating
                         /\ step'[q] = Ready => step[q] = Ready
  BY <1>1, <1>2 DEF Moves
<1>4. SeededFirst'
  BY <1>3, Steps DEF FileInv, SeededFirst, Creating, Assigning
<1>5. RoleToCome'
  BY <1>3 DEF FileInv, RoleToCome, Assigning
<1>6. DaemonCounted'
  BY <1>3 DEF FileInv, DaemonCounted, Process, Ready
<1> QED
  BY <1>4, <1>5, <1>6

(* What a statement leaves behind, run or passed over.                     *)
LEMMA StatementKeeps ==
  ASSUME FileInv, NEW p \in Process, AtStatement(p), Moves(p, step[p] + 1),
         schema \ AIColumns \subseteq schema',
         Provides(Statement(p)) \subseteq schema',
         \A q \in Process : found'[q] \ AIColumns \subseteq schema',
         blind' = blind
  PROVE  Provided' /\ FoundIsThere'
<1>1. FoundIsThere'
  BY DEF FoundIsThere
<1>2. ASSUME NEW q \in Process \ blind, NEW i \in 1 .. Len(Upgrade), i < step'[q]
      PROVE  Provides(Upgrade[i]) \subseteq schema'
  <2>1. Provides(Upgrade[i]) \cap AIColumns = {}
    BY DEF Provides
  <2>2. CASE i < step[q]
    BY <2>1, <2>2 DEF FileInv, Provided
  <2>3. CASE ~(i < step[q])
    <3>1. step[q] \in Nat /\ q = p /\ i = step[p]
      BY <1>2, <2>3, Steps DEF FileInv, FileTypes, Moves
    <3> QED
      BY <3>1 DEF Statement
  <2> QED
    BY <2>2, <2>3
<1> QED
  BY <1>1, <1>2 DEF Provided

LEMMA DownKeeps ==
  ASSUME FileInv, NEW p \in Process, NEW n \in {0, 1}, Moves(p, n),
         schema' = schema,
         found' = found \/ found' = [found EXCEPT ![p] = {}],
         UNCHANGED <<moved, oldMetrics>>, blind \ {p} \subseteq blind'
  PROVE  Provided' /\ FoundIsThere' /\ MovedFirst' /\ RowsSomewhere'
<1>1. \A q \in Process : found'[q] \subseteq found[q]
                         /\ (q # p => found'[q] = found[q])
  BY DEF FileInv, FileTypes
<1>2. \A q \in Process, i \in 1 .. Len(Upgrade) : i < step'[q] => i < step[q]
  <2> SUFFICES ASSUME NEW q \in Process, NEW i \in 1 .. Len(Upgrade),
                      i < step'[q]
               PROVE  i < step[q]
    OBVIOUS
  <2>1. CASE q = p
    <3>1. step'[q] = n
      BY <2>1 DEF Moves
    <3>2. i \in Nat /\ i >= 1
      BY Steps
    <3> QED
      BY <3>1, <3>2
  <2>2. CASE q # p
    BY <2>2 DEF Moves
  <2> QED
    BY <2>1, <2>2
<1>3. Provided' /\ FoundIsThere'
  <2>1. \A i \in 1 .. Len(Upgrade) : ~(i < step'[p])
    <3>1. step'[p] = n /\ \A i \in 1 .. Len(Upgrade) : i \in Nat /\ i >= 1
      BY Steps DEF Moves
    <3> QED BY <3>1
  <2> QED
    BY <1>1, <1>2, <2>1 DEF FileInv, Provided, FoundIsThere
<1>4. MovedFirst'
  <2> SUFFICES ASSUME NEW q \in Process, step'[q] \in 1 .. Len(Upgrade),
                      Upgrade[step'[q]].does = "drop",
                      "aggregated" \notin found'[q]
               PROVE  moved = TRUE
    BY DEF MovedFirst, AtStatement, Statement
  <2>1. CASE q = p
    BY <2>1, UpgradeIs DEF Moves, WellMade
  <2>2. CASE q # p
    BY <1>1, <2>2 DEF Moves, FileInv, MovedFirst, AtStatement, Statement
  <2> QED
    BY <2>1, <2>2
<1> QED
  BY <1>3, <1>4 DEF FileInv, RowsSomewhere

(* The statements of InitDB.                                               *)
LEMMA StatementStep ==
  ASSUME FileInv, NEW p \in Process,
         PassOver(p) \/ LooksFor(p) \/ RunSchema(p) \/ Rebuild(p)
           \/ AddFeatures(p) \/ MoveMetrics(p) \/ DropMetrics(p)
  PROVE  FileInv'
<1> DEFINE s == Statement(p)
<1>1. /\ AtStatement(p) /\ Continues(p)
      /\ UNCHANGED <<seeded, account, cutShort, demoted, blind>>
  BY DEF PassOver, LooksFor, RunSchema, Rebuild, AddFeatures, MoveMetrics,
         DropMetrics, Runs, AtStatement, countVars, fileVars
<1>2. /\ step[p] \in 1 .. Len(Upgrade) /\ step[p] + 1 \in 0 .. Opened
      /\ step[p] + 1 \in 0 .. Ready
  BY <1>1, Steps DEF AtStatement
<1>3. Moves(p, step[p] + 1)
  BY <1>1, <1>2, MovesTo DEF FileInv, Continues
<1>4. /\ s = Upgrade[step[p]] /\ IsStatement(s)
      /\ s.does = "drop" => moved = TRUE \/ "aggregated" \in found[p]
  BY <1>1, <1>2, UpgradeIs
     DEF Statement, WellMade, FileInv, MovedFirst
<1>5. /\ FileTypes /\ found[p] \ AIColumns \subseteq schema
      /\ found[p] \subseteq Features
      /\ \A q \in Process : found[q] \ AIColumns \subseteq schema
  BY DEF FileInv, FoundIsThere, FileTypes
<1>6. /\ schema' \in SUBSET Features /\ schema \ AIColumns \subseteq schema'
      /\ Provides(s) \subseteq schema'
      /\ found' \in [Process -> SUBSET Features]
      /\ \A q \in Process : /\ found'[q] \ AIColumns \subseteq schema'
                            /\ q # p => found'[q] = found[q]
  <2>1. CASE PassOver(p)
    <3>1. s.unless \in found[p] /\ UNCHANGED <<schema, found>>
      BY <2>1 DEF PassOver, fileVars
    <3>2. s.unless # "nothing"
      BY <1>5, <3>1, NamedFeatures
    <3>3. Provides(s) \subseteq {s.unless} \ AIColumns
      BY <1>4, <3>2 DEF Provides, IsStatement
    <3> QED
      BY <1>5, <3>1, <3>3 DEF FileTypes
  <2>2. CASE LooksFor(p)
    <3>1. /\ s.does = "probe" /\ schema' = schema
          /\ found' = [found EXCEPT ![p] = s.what \cap schema]
      BY <2>2 DEF LooksFor, Runs, fileVars
    <3>2. Provides(s) = {}
      BY <3>1 DEF Provides
    <3> QED
      BY <1>5, <3>1, <3>2 DEF FileTypes
  <2>3. CASE RunSchema(p)
    <3>1. /\ s.does = "schema" /\ found' = found
          /\ schema' = schema \cup
               IF "tables" \in schema THEN {}
               ELSE {"tables", "kinds", "role", "cluster_id",
                     "connection_string"} \cup AIColumns
      BY <2>3 DEF RunSchema, Runs
    <3>2. Provides(s) = {}
      BY <3>1 DEF Provides
    <3>3. schema' \in SUBSET Features /\ schema \subseteq schema'
      <4>1. AIColumns \subseteq Features
        BY NamedFeatures DEF AIColumns
      <4> QED
        BY <1>5, <3>1, <4>1, NamedFeatures DEF FileTypes
    <3> QED
      BY <1>5, <3>1, <3>2, <3>3 DEF FileTypes
  <2>4. CASE Rebuild(p)
    <3>1. /\ s.does = "rebuild" /\ found' = found
          /\ schema' = (schema \ AIColumns) \cup {"kinds"}
      BY <2>4 DEF Rebuild, Runs
    <3>2. Provides(s) \subseteq {"kinds"}
      BY <3>1 DEF Provides
    <3>3. "kinds" \in Features
      BY NamedFeatures
    <3> QED
      BY <1>5, <3>1, <3>2, <3>3 DEF FileTypes
  <2>5. CASE AddFeatures(p)
    <3>1. /\ s.does \in {"create", "alter", "insert"} /\ found' = found
          /\ schema' = schema \cup s.what
      BY <2>5 DEF AddFeatures, Runs
    <3>2. Provides(s) \subseteq s.what /\ s.what \subseteq Features
      BY <1>4, <3>1 DEF Provides, IsStatement
    <3> QED
      BY <1>5, <3>1, <3>2 DEF FileTypes
  <2>6. CASE MoveMetrics(p) \/ DropMetrics(p)
    <3>1. s.does \in {"move", "drop"} /\ UNCHANGED <<schema, found>>
      BY <2>6 DEF MoveMetrics, DropMetrics, Runs
    <3>2. Provides(s) = {}
      BY <3>1 DEF Provides
    <3> QED
      BY <1>5, <3>1, <3>2 DEF FileTypes
  <2> QED
    BY <2>1, <2>2, <2>3, <2>4, <2>5, <2>6
<1>7. moved' \in BOOLEAN /\ (moved = TRUE => moved' = TRUE)
  <2>1. moved \in BOOLEAN
    BY <1>5 DEF FileTypes
  <2>2. moved' = moved \/ moved' = TRUE
    BY Zenon DEF PassOver, LooksFor, RunSchema, Rebuild, AddFeatures,
                 MoveMetrics, DropMetrics, fileVars
  <2> QED
    BY <2>1, <2>2
<1>8. /\ oldMetrics' \in {"none", "empty", "full"}
      /\ oldMetrics = "full" => oldMetrics' = "full" \/ DropMetrics(p)
  BY <1>5 DEF FileTypes, PassOver, LooksFor, RunSchema, Rebuild, AddFeatures,
              MoveMetrics, DropMetrics, fileVars
<1>9. RowsSomewhere'
  <2>1. DropMetrics(p) => s.does = "drop" /\ s.unless \notin found[p]
    BY DEF DropMetrics, Runs
  <2>2. s.does = "drop" => s.unless = "aggregated"
    BY <1>2, <1>4, UpgradeIs DEF WellMade
  <2> QED
    BY <1>4, <1>7, <1>8, <2>1, <2>2 DEF FileInv, RowsSomewhere
<1>10. FileTypes'
  BY <1>1, <1>3, <1>5, <1>6, <1>7, <1>8 DEF FileTypes, Moves
<1>11. SeededFirst' /\ RoleToCome' /\ DaemonCounted'
  BY <1>1, <1>2, <1>3, <1>10, UpgradeKeeps
<1>12. Provided' /\ FoundIsThere'
  BY <1>1, <1>3, <1>6, StatementKeeps
<1>13. MovedFirst'
  <2> SUFFICES ASSUME NEW q \in Process, step'[q] \in 1 .. Len(Upgrade),
                      Upgrade[step'[q]].does = "drop",
                      "aggregated" \notin found'[q]
               PROVE  moved' = TRUE
    BY DEF MovedFirst, AtStatement, Statement
  <2>1. CASE q # p
    BY <1>3, <1>6, <1>7, <2>1
       DEF Moves, FileInv, MovedFirst, AtStatement, Statement
  <2>2. CASE q = p
    <3>1. step'[q] = step[p] + 1 /\ step'[q] - 1 = step[p]
      BY <1>2, <1>3, <2>2 DEF Moves
    <3>2. s.does = "move" /\ s.unless = "aggregated"
      BY <1>4, <3>1, UpgradeIs DEF WellMade
    <3>3. s.unless \notin found[p] \/ LooksFor(p)
      <4>1. CASE PassOver(p)
        BY <2>2, <3>2, <4>1 DEF PassOver
      <4> QED
        BY <4>1 DEF RunSchema, Rebuild, AddFeatures, MoveMetrics, DropMetrics,
                    Runs
    <3>4. MoveMetrics(p)
      BY <3>2, <3>3 DEF PassOver, LooksFor, RunSchema, Rebuild, AddFeatures,
                        DropMetrics, Runs
    <3> QED
      BY <3>4, Zenon DEF MoveMetrics
  <2> QED
    BY <2>1, <2>2
<1> QED
  BY <1>9, <1>10, <1>11, <1>12, <1>13 DEF FileInv

(* A process is started, fails, is killed or ends.                         *)
LEMMA DownStep ==
  ASSUME FileInv, NEW p \in Process,
         OpenFile(p) \/ UpgradeFails(p) \/ CloseFile(p) \/ Dies(p)
           \/ PasswordFileFails(p)
  PROVE  FileInv'
<1>1. PICK n \in {0, 1} :
        JumpsTo(p, n) /\ (n = 1 => OpenFile(p)) /\ (n = 0 => ~OpenFile(p))
  BY DEF OpenFile, UpgradeFails, CloseFile, Dies, PasswordFileFails
<1>2. n \in 0 .. Ready /\ Moves(p, n)
  BY <1>1, MovesTo, Steps DEF FileInv
<1>3. /\ UNCHANGED <<schema, seeded, oldMetrics, moved, account, demoted>>
      /\ blind \ {p} \subseteq blind'
      /\ found' = found \/ found' = [found EXCEPT ![p] = {}]
  BY DEF OpenFile, UpgradeFails, CloseFile, Dies, PasswordFileFails, fileVars,
         countVars
<1>4. /\ cutShort' \in BOOLEAN /\ (cutShort = TRUE => cutShort' = TRUE)
      /\ step[p] = Assigning => cutShort' = TRUE
  <2>1. cutShort \in BOOLEAN
    BY DEF FileInv, FileTypes
  <2>2. CASE OpenFile(p) \/ UpgradeFails(p) \/ CloseFile(p)
    <3>1. cutShort' = cutShort
      BY <2>2 DEF OpenFile, UpgradeFails, CloseFile, countVars
    <3>2. step[p] # Assigning
      BY <2>2, Steps, UpgradeIs DEF OpenFile, UpgradeFails, CloseFile, Runs
    <3> QED
      BY <2>1, <3>1, <3>2
  <2>3. CASE Dies(p)
    <3>1. cutShort' = (cutShort \/ step[p] = Assigning)
      BY <2>3 DEF Dies
    <3> QED
      BY <2>1, <3>1
  <2>4. CASE PasswordFileFails(p)
    <3>1. cutShort' \in BOOLEAN /\ cutShort' = TRUE
      BY <2>4, Zenon DEF PasswordFileFails
    <3> QED
      BY <3>1
  <2> QED
    BY <2>2, <2>3, <2>4
<1>5. FileTypes'
  <2>1. found' \in [Process -> SUBSET Features]
    BY <1>3 DEF FileInv, FileTypes
  <2> QED
    BY <1>2, <1>3, <1>4, <2>1 DEF FileInv, FileTypes, Moves
<1>6. Provided' /\ FoundIsThere' /\ MovedFirst' /\ RowsSomewhere'
  BY <1>2, <1>3, DownKeeps
<1>7. \A q \in Process :
        /\ step'[q] # Ready \/ step[q] = Ready
        /\ step'[q] # Creating \/ step[q] = Creating
        /\ step'[q] # Assigning \/ step[q] = Assigning
        /\ step[q] = Assigning => step'[q] = Assigning \/ cutShort' = TRUE
  BY <1>2, <1>4, Steps DEF Moves
<1>8. SeededFirst'
  BY <1>3, <1>7 DEF FileInv, SeededFirst, Creating, Assigning
<1>9. RoleToCome'
  BY <1>3, <1>4, <1>7 DEF FileInv, RoleToCome, Assigning
<1>10. DaemonCounted'
  BY <1>3, <1>7 DEF FileInv, DaemonCounted, Process, Ready
<1> QED
  BY <1>5, <1>6, <1>8, <1>9, <1>10 DEF FileInv

(* A step of the bootstrap to another of its places adds to the schema,    *)
(* or nothing.                                                             *)
LEMMA PlaceKeeps ==
  ASSUME FileInv, NEW p \in Process, NEW n \in 0 .. Ready, Moves(p, n),
         n = 0 \/ step[p] >= Opened, schema \subseteq schema',
         UNCHANGED <<found, moved, oldMetrics>>, blind \subseteq blind',
         n = 0 \/ n >= Opened
  PROVE  Provided' /\ FoundIsThere' /\ MovedFirst' /\ RowsSomewhere'
<1>1. \A q \in Process : \A i \in 1 .. Len(Upgrade) :
        i < step'[q] => i < step[q]
  <2> SUFFICES ASSUME NEW q \in Process, NEW i \in 1 .. Len(Upgrade),
                      i < step'[q]
               PROVE  i < step[q]
    OBVIOUS
  <2>1. step[p] \in Nat /\ n \in Nat
    BY Steps DEF FileInv, FileTypes, Moves
  <2>2. CASE q = p
    <3>1. step'[q] = n
      BY <2>2 DEF Moves
    <3>2. n # 0
      BY <3>1
    <3> QED
      BY <2>1, <2>2, <3>2, Steps
  <2>3. CASE q # p
    BY <2>3 DEF Moves
  <2> QED
    BY <2>2, <2>3
<1>2. Provided' /\ FoundIsThere'
  BY <1>1 DEF FileInv, Provided, FoundIsThere
<1>3. \A q \in Process : step'[q] \in 1 .. Len(Upgrade) => step'[q] = step[q]
  BY <1>1, Steps DEF Moves
<1>4. MovedFirst'
  BY <1>3 DEF FileInv, MovedFirst, AtStatement, Statement
<1> QED
  BY <1>2, <1>4 DEF FileInv, RowsSomewhere

(* The bootstrap of the first user.                                        *)
LEMMA CountStep ==
  ASSUME FileInv, NEW p \in Process, CountUsers(p) \/ Repair(p) \/ Seed(p)
  PROVE  FileInv'
<1>1. /\ UNCHANGED <<oldMetrics, moved, account, found, cutShort, demoted,
                     blind>>
      /\ step[p] \in {Opened, Seeding}
  BY DEF CountUsers, Repair, Seed, fileVars, countVars
<1>2. /\ schema' \in SUBSET Features /\ schema \subseteq schema'
      /\ seeded' \in BOOLEAN /\ (seeded = TRUE => seeded' = TRUE)
      /\ Seed(p) => seeded' = TRUE
  <2>1. schema \in SUBSET Features /\ seeded \in BOOLEAN
    BY DEF FileInv, FileTypes
  <2>2. CASE CountUsers(p) \/ Repair(p)
    <3>1. UNCHANGED <<schema, seeded>> /\ step[p] = Opened
      BY <2>2 DEF CountUsers, Repair, fileVars
    <3>2. ~Seed(p)
      BY <3>1, Steps DEF Seed
    <3> QED
      BY <2>1, <3>1, <3>2
  <2>3. CASE Seed(p)
    <3>1. seeded' \in BOOLEAN /\ seeded' = TRUE
      BY <2>3, Zenon DEF Seed
    <3>2. schema' = schema \cup {"inventory:view", "inventory:create",
                                 "events:view"}
      BY <2>3 DEF Seed
    <3> QED
      BY <2>1, <3>1, <3>2, NamedFeatures
  <2> QED
    BY <2>2, <2>3
<1>3. PICK n \in {Seeding, Creating, Ready} :
        /\ JumpsTo(p, n) /\ (n = Creating => Seed(p))
        /\ n = Ready => p = Tool \/ ~NoUsers
  BY Steps DEF CountUsers, Repair, Seed
<1>4. n \in 0 .. Ready /\ n >= Opened /\ step[p] >= Opened /\ n # Assigning
      /\ step[p] # Assigning /\ step[p] # Creating
  BY <1>1, Steps
<1>5. Moves(p, n)
  BY <1>3, <1>4, MovesTo DEF FileInv
<1>6. FileTypes'
  BY <1>1, <1>2, <1>5 DEF FileInv, FileTypes, Moves
<1>7. Provided' /\ FoundIsThere' /\ MovedFirst' /\ RowsSomewhere'
  BY <1>1, <1>2, <1>4, <1>5, PlaceKeeps
<1>8. \A q \in Process : step'[q] = Assigning <=> step[q] = Assigning
  BY <1>4, <1>5 DEF Moves
<1>9. SeededFirst'
  <2> SUFFICES ASSUME NEW q \in Process, step'[q] \in {Creating, Assigning}
               PROVE  seeded' = TRUE
    BY DEF SeededFirst, Creating, Assigning
  <2>1. CASE q = p
    BY <1>2, <1>3, <1>4, <1>5, <2>1 DEF Moves
  <2>2. CASE q # p
    BY <1>2, <1>5, <2>2 DEF Moves, FileInv, SeededFirst
  <2> QED
    BY <2>1, <2>2
<1>10. RoleToCome'
  BY <1>1, <1>8 DEF FileInv, RoleToCome, Assigning
<1>11. DaemonCounted'
  <2> SUFFICES ASSUME step'[Daemon] = Ready
               PROVE  \E u \in {"bootstrap", "other"} : account[u] # "none"
    BY <1>1 DEF DaemonCounted, Ready
  <2>1. CASE step[Daemon] = Ready
    BY <2>1 DEF FileInv, DaemonCounted
  <2>2. CASE step[Daemon] # Ready
    <3>1. p = Daemon /\ n = Ready
      BY <1>5, <2>2 DEF Moves, Process
    <3>2. ~NoUsers
      <4>1. CASE Seed(p)
        BY <1>3, <3>1, <4>1, Steps DEF Seed, JumpsTo, FileInv, FileTypes
      <4>2. CASE CountUsers(p)
        BY <1>3, <3>1, <4>2, Steps DEF CountUsers, JumpsTo, FileInv, FileTypes
      <4>3. CASE Repair(p)
        BY <1>3, <3>1, <4>3, Steps DEF Repair, JumpsTo, FileInv, FileTypes
      <4> QED
        BY <4>1, <4>2, <4>3
    <3> QED
      BY <3>2 DEF NoUsers, FileInv, FileTypes
  <2> QED
    BY <2>1, <2>2
<1> QED
  BY <1>6, <1>7, <1>9, <1>10, <1>11 DEF FileInv

LEMMA UserStep ==
  ASSUME FileInv, NEW p \in Process,
         \/ CreateFirst(p) \/ AssignFirst(p)
         \/ \E u \in DOMAIN account : AddByHand(p, u)
  PROVE  FileInv'
<1> DEFINE Users == {"bootstrap", "other"}
<1>1. /\ UNCHANGED <<schema, seeded, oldMetrics, moved, found, demoted, blind>>
      /\ step[p] \in {Opened, Creating, Assigning}
  BY DEF CreateFirst, AssignFirst, AddByHand, countVars
<1>2. /\ cutShort \in BOOLEAN
      /\ account \in [Users -> Standing]
      /\ DOMAIN account = Users
  BY DEF FileInv, FileTypes
<1>3. PICK n \in {0, Assigning, Ready} :
        /\ JumpsTo(p, n) /\ (n = Assigning => CreateFirst(p))
        /\ n = 0 /\ AssignFirst(p) => ~seeded
        /\ CreateFirst(p) /\ n = 0 => account' = account
        /\ CreateFirst(p) /\ n # 0 => n = Assigning
  <2>1. CASE CreateFirst(p)
    <3>1. step[p] = Creating
      BY <2>1 DEF CreateFirst
    <3>2. ~AssignFirst(p)
      BY <3>1, Steps DEF AssignFirst
    <3> QED
      BY <2>1, <3>2, Steps DEF CreateFirst
  <2>2. CASE AssignFirst(p)
    <3>1. step[p] = Assigning
      BY <2>2 DEF AssignFirst
    <3>2. ~CreateFirst(p)
      BY <3>1, Steps DEF CreateFirst
    <3> QED
      BY <2>2, <3>2, Steps DEF AssignFirst
  <2>3. CASE \E u \in DOMAIN account : AddByHand(p, u)
    <3>1. step[p] = Opened /\ JumpsTo(p, Ready)
      BY <2>3 DEF AddByHand
    <3>2. ~CreateFirst(p) /\ ~AssignFirst(p)
      BY <3>1, Steps DEF CreateFirst, AssignFirst
    <3> QED
      BY <3>1, <3>2, Steps
  <2> QED
    BY <2>1, <2>2, <2>3
<1>4. /\ n \in 0 .. Ready /\ (n = 0 \/ n >= Opened) /\ step[p] >= Opened
      /\ n # Creating /\ Creating # Assigning
  BY <1>1, <1>3, Steps
<1>5. Moves(p, n)
  BY <1>3, <1>4, MovesTo DEF FileInv
<1>6. Provided' /\ FoundIsThere' /\ MovedFirst' /\ RowsSomewhere'
  BY <1>1, <1>4, <1>5, PlaceKeeps
<1>7. /\ account' \in [Users -> Standing]
      /\ \A u \in Users : account[u] # "none" => account'[u] # "none"
  BY <1>2 DEF CreateFirst, AssignFirst, AddByHand, Standing
<1>8. cutShort' \in BOOLEAN /\ (cutShort = TRUE => cutShort' = TRUE)
  <2>1. cutShort' = cutShort \/ cutShort' = TRUE
    BY Zenon DEF CreateFirst, AssignFirst, AddByHand, countVars
  <2> QED
    BY <1>2, <2>1
<1>9. FileTypes'
  BY <1>1, <1>5, <1>7, <1>8 DEF FileInv, FileTypes, Moves
<1>10. SeededFirst'
  <2> SUFFICES ASSUME NEW q \in Process, step'[q] \in {Creating, Assigning}
               PROVE  seeded = TRUE
    BY <1>1 DEF SeededFirst, Creating, Assigning
  <2>1. CASE q = p
    <3>1. CreateFirst(p)
      BY <1>3, <1>4, <1>5, <2>1, Steps DEF Moves
    <3>2. step[p] = Creating
      BY <3>1 DEF CreateFirst
    <3> QED
      BY <3>2 DEF FileInv, SeededFirst
  <2>2. CASE q # p
    BY <1>5, <2>2 DEF Moves, FileInv, SeededFirst
  <2> QED
    BY <2>1, <2>2
<1>11. RoleToCome'
  <2> SUFFICES ASSUME NEW u \in Users,
                      account'[u] \in {"roleless", "operator"},
                      cutShort' # TRUE, demoted' # TRUE
               PROVE  u = "bootstrap" /\ \E q \in Process : step'[q] = Assigning
    BY DEF RoleToCome, Assigning
  <2>1. ~(\E v \in DOMAIN account : AddByHand(p, v))
    BY Zenon DEF AddByHand
  <2>2. CASE n = Assigning
    <3>1. account' = [account EXCEPT !.bootstrap = "roleless"]
      BY <1>3, <1>4, <2>2, Steps DEF CreateFirst, JumpsTo, FileInv, FileTypes
    <3>2. u = "bootstrap"
      BY <1>1, <1>2, <1>8, <3>1 DEF FileInv, RoleToCome
    <3> QED
      BY <1>5, <2>2, <3>2 DEF Moves
  <2>3. CASE n # Assigning
    <3>1. CASE CreateFirst(p)
      <4>1. account' = account /\ step[p] = Creating
        BY <1>3, <2>3, <3>1 DEF CreateFirst
      <4>2. u = "bootstrap" /\ \E q \in Process : step[q] = Assigning
        BY <1>1, <1>8, <4>1 DEF FileInv, RoleToCome
      <4>3. PICK q \in Process : step[q] = Assigning
        BY <4>2
      <4> QED
        BY <1>4, <1>5, <4>1, <4>2, <4>3 DEF Moves
    <3>2. CASE AssignFirst(p)
      <4>1. seeded = TRUE
        BY <3>2 DEF AssignFirst, FileInv, SeededFirst
      <4>2. account' = [account EXCEPT !.bootstrap = "admin"]
        BY <3>2, <4>1 DEF AssignFirst
      <4>3. u = "other" /\ account[u] \in {"roleless", "operator"}
        BY <1>2, <4>2
      <4> QED
        BY <1>1, <1>8, <4>3 DEF FileInv, RoleToCome
    <3> QED
      BY <2>1, <3>1, <3>2
  <2> QED
    BY <2>2, <2>3
<1>12. DaemonCounted'
  <2> SUFFICES ASSUME step'[Daemon] = Ready
               PROVE  \E u \in Users : account'[u] # "none"
    BY DEF DaemonCounted, Ready
  <2>1. CASE step[Daemon] = Ready
    BY <1>7, <2>1 DEF FileInv, DaemonCounted
  <2>2. CASE step[Daemon] # Ready
    <3>1. p = Daemon /\ n = Ready
      BY <1>5, <2>2 DEF Moves, Process
    <3>2. ~CreateFirst(p)
      BY <1>3, <3>1, Steps
    <3>3. CASE AssignFirst(p)
      <4>1. seeded = TRUE
        BY <3>3 DEF AssignFirst, FileInv, SeededFirst
      <4> QED
        BY <1>2, <3>3, <4>1 DEF AssignFirst
    <3>4. CASE \E u \in DOMAIN account : AddByHand(p, u)
      BY <1>2, <3>4 DEF AddByHand
    <3> QED
      BY <3>2, <3>3, <3>4
  <2> QED
    BY <2>1, <2>2
<1> QED
  BY <1>6, <1>9, <1>10, <1>11, <1>12 DEF FileInv

(* The first probe fails: the process goes on, past all statements.        *)
LEMMA BlindStep ==
  ASSUME FileInv, NEW p \in Process, FirstProbeFails(p)
  PROVE  FileInv'
<1>1. /\ step[p] = FirstProbe /\ JumpsTo(p, Opened)
      /\ blind' = blind \cup {p}
      /\ UNCHANGED <<schema, seeded, oldMetrics, moved, account, found,
                     cutShort, demoted>>
  BY DEF FirstProbeFails, fileVars
<1>2. Moves(p, Opened) /\ Opened \in 0 .. Ready
  BY <1>1, MovesTo, Steps DEF FileInv
<1>3. FileTypes'
  BY <1>1, <1>2 DEF FileInv, FileTypes, Moves
<1>4. Opened # Creating /\ Opened # Assigning /\ Opened # Ready
      /\ ~(Opened \in 1 .. Len(Upgrade))
  BY Steps
<1>5. step[p] # Assigning
  <2>1. Len(Upgrade) >= 1 /\ Assigning = Len(Upgrade) + 4
    <3>1. PICK i \in 1 .. Len(Upgrade) : "kinds" \in Provides(Upgrade[i])
      BY UpgradeIs DEF Provide
    <3> QED
      BY <3>1, Steps
  <2> QED
    BY <1>1, <2>1 DEF FirstProbe
<1>6. Provided' /\ FoundIsThere' /\ MovedFirst' /\ RowsSomewhere'
  <2>1. Provided' /\ FoundIsThere' /\ RowsSomewhere'
    BY <1>1, <1>2 DEF FileInv, Moves, Provided, FoundIsThere, RowsSomewhere
  <2>2. MovedFirst'
    BY <1>1, <1>2, <1>4 DEF FileInv, Moves, MovedFirst, AtStatement, Statement
  <2> QED
    BY <2>1, <2>2
<1>7. \A q \in Process :
        /\ step'[q] = Assigning <=> step[q] = Assigning
        /\ step'[q] = Creating => step[q] = Creating
        /\ step'[q] = Ready => step[q] = Ready
  BY <1>2, <1>4, <1>5 DEF Moves
<1>8. SeededFirst' /\ RoleToCome' /\ DaemonCounted'
  <2>1. SeededFirst'
    BY <1>1, <1>7 DEF FileInv, SeededFirst, Creating, Assigning
  <2>2. RoleToCome'
    BY <1>1, <1>7 DEF FileInv, RoleToCome, Assigning
  <2>3. DaemonCounted'
    BY <1>1, <1>7 DEF FileInv, DaemonCounted, Process, Ready
  <2> QED
    BY <2>1, <2>2, <2>3
<1> QED
  BY <1>3, <1>6, <1>8 DEF FileInv

(* A user is given another role.                                           *)
LEMMA RoleStep ==
  ASSUME FileInv, NEW u \in DOMAIN account, NEW r \in {"operator", "admin"},
         UpdateUserRole(u, r)
  PROVE  FileInv'
<1> DEFINE Users == {"bootstrap", "other"}
<1>1. /\ UNCHANGED <<schema, seeded, oldMetrics, moved, step, found, cutShort,
                     blind>>
      /\ account[u] # "none" /\ account' = [account EXCEPT ![u] = r]
      /\ demoted' = (demoted \/ (account[u] = "admin" /\ r # "admin"))
  BY DEF UpdateUserRole
<1>2. /\ account \in [Users -> Standing] /\ u \in Users /\ demoted \in BOOLEAN
  BY DEF FileInv, FileTypes
<1>3. /\ demoted' \in BOOLEAN /\ (demoted = TRUE => demoted' = TRUE)
      /\ account[u] = "admin" /\ r # "admin" => demoted' = TRUE
  BY Zenon, <1>1, <1>2
<1>4. /\ account' \in [Users -> Standing] /\ account'[u] = r
      /\ \A v \in Users : v # u => account'[v] = account[v]
  BY <1>1, <1>2 DEF Standing
<1>5. FileTypes'
  BY <1>1, <1>3, <1>4 DEF FileInv, FileTypes
<1>6. /\ FoundIsThere' /\ Provided' /\ MovedFirst' /\ RowsSomewhere'
      /\ SeededFirst'
  BY <1>1 DEF FileInv, FoundIsThere, Provided, MovedFirst, AtStatement,
     Statement, RowsSomewhere, SeededFirst, Creating, Assigning
<1>7. RoleToCome'
  <2> SUFFICES ASSUME NEW v \in Users,
                      account'[v] \in {"roleless", "operator"}
               PROVE  \/ cutShort' = TRUE \/ demoted' = TRUE
                      \/ v = "bootstrap" /\ \E p \in Process : step[p] = Assigning
    BY <1>1 DEF RoleToCome, Assigning
  <2>1. \/ account[v] \in {"roleless", "operator"} \/ demoted' = TRUE
    <3>1. CASE v = u
      BY <1>1, <1>2, <1>3, <1>4, <3>1 DEF Standing
    <3>2. CASE v # u
      BY <1>4, <3>2
    <3> QED
      BY <3>1, <3>2
  <2> QED
    BY <1>1, <1>3, <2>1 DEF FileInv, RoleToCome
<1>8. DaemonCounted'
  <2> SUFFICES \E v \in Users : account'[v] # "none"
    BY DEF DaemonCounted
  <2> QED
    BY <1>2, <1>4
<1> QED
  BY <1>5, <1>6, <1>7, <1>8 DEF FileInv

LEMMA FileStep ==
  ASSUME FileInv, [DatabaseNext]_databaseVars
  PROVE  FileInv'
<1>1. CASE UNCHANGED databaseVars
  BY <1>1 DEF databaseVars, fileVars, countVars, FileInv, FileTypes,
       FoundIsThere, Provided, MovedFirst, AtStatement, Statement, RowsSomewhere,
       SeededFirst, RoleToCome, DaemonCounted, Creating, Assigning, Ready
<1>2. CASE DatabaseNext
  <2>1. CASE \E u \in DOMAIN account, r \in {"operator", "admin"} :
               UpdateUserRole(u, r)
    BY <2>1, RoleStep
  <2>2. CASE ~(\E u \in DOMAIN account, r \in {"operator", "admin"} :
                 UpdateUserRole(u, r))
   <3> PICK p \in Process :
        \/ OpenFile(p) \/ PassOver(p) \/ LooksFor(p) \/ FirstProbeFails(p)
        \/ RunSchema(p) \/ Rebuild(p) \/ AddFeatures(p) \/ MoveMetrics(p) \/ DropMetrics(p)
        \/ UpgradeFails(p) \/ CountUsers(p) \/ Repair(p) \/ Seed(p)
        \/ CreateFirst(p) \/ AssignFirst(p) \/ PasswordFileFails(p)
        \/ CloseFile(p) \/ Dies(p)
        \/ \E u \in DOMAIN account : AddByHand(p, u)
     BY <1>2, <2>2 DEF DatabaseNext
   <3> QED
     BY StatementStep, DownStep, CountStep, UserStep, BlindStep
  <2> QED
    BY <2>1, <2>2
<1> QED
  BY <1>1, <1>2

LEMMA FileInductive == DatabaseSpec => []FileInv
  BY FileInit, FileStep, PTL DEF DatabaseSpec

(* Wherever a process dies between two statements of the upgrade, and      *)
(* whatever else upgrades the file at the same time: one that has opened   *)
(* it finds the columns and tables that were looked for by their names     *)
(* (RunMigrations, database.go:269-295, and its probes, 405-455), unless   *)
(* an error of its first probe made it pass over all of them (85-89).      *)
THEOREM UpgradeIsWhole == DatabaseSpec => []OpenIsUpgraded
<1>1. FileInv => OpenIsUpgraded
  <2> SUFFICES ASSUME FileInv, NEW p \in Process \ blind, step[p] >= Opened,
                      NEW f \in Columns \cup {"kinds", "aggregated",
                                              "protection_row"}
               PROVE  f \in schema
    BY DEF OpenIsUpgraded
  <2>1. PICK i \in 1 .. Len(Upgrade) : f \in Provides(Upgrade[i])
    BY UpgradeIs DEF Provide
  <2>2. i < step[p]
    BY Steps DEF FileInv, FileTypes
  <2> QED
    BY <2>1, <2>2 DEF FileInv, Provided
<1> QED
  BY <1>1, FileInductive, PTL

(* The rows counted before migration 7 are never dropped uncopied, by one  *)
(* process or by two at once (AddAggregatedMetricsTable,                   *)
(* database.go:331-390).                                                   *)
THEOREM RowsAreMoved == DatabaseSpec => []OldMetricsKept
<1>1. FileInv => OldMetricsKept
  BY DEF FileInv, RowsSomewhere, OldMetricsKept
<1> QED
  BY <1>1, FileInductive, PTL

(* A daemon that serves has an administrator, or one is about to get the   *)
(* role, unless the making of the first user was cut short, a user was     *)
(* added by hand, or an administrator was given another role (kaf-mirror   *)
(* main.go:72-121, admin-cli main.go:276-325, handlers.go:1515-1537).      *)
THEOREM SomebodyRules == DatabaseSpec => []DaemonHasAdmin
<1>1. FileInv => DaemonHasAdmin
  <2> SUFFICES ASSUME FileInv, step[Daemon] = Ready
               PROVE  \/ \E u \in DOMAIN account : account[u] = "admin"
                      \/ step[Tool] = Assigning \/ cutShort \/ demoted
    BY DEF DaemonHasAdmin
  <2>1. PICK u \in {"bootstrap", "other"} : account[u] # "none"
    BY DEF FileInv, DaemonCounted
  <2>2. /\ u \in DOMAIN account /\ account[u] \in Standing
    BY DEF FileInv, FileTypes
  <2>3. CASE account[u] = "admin"
    BY <2>2, <2>3
  <2>4. CASE account[u] \in {"roleless", "operator"}
    <3>1. cutShort = TRUE \/ demoted = TRUE \/ \E p \in Process : step[p] = Assigning
      BY <2>4 DEF FileInv, RoleToCome
    <3> QED
      BY <3>1, Steps DEF Process
  <2> QED
    BY <2>1, <2>2, <2>3, <2>4 DEF Standing
<1> QED
  BY <1>1, FileInductive, PTL

-----------------------------------------------------------------------------
(* The rows of clusters and jobs.                                          *)

RequestStages ==
  {"free", "read", "counted", "stopping", "stopped", "mapping", "undo",
   "deleting", "restarting", "again", "starting", "checked"}

Request ==
  [op : JobOps \cup {"none"}, job : Job, cluster : Cluster, copy : Row,
   first : Row, stage : RequestStages, old : BOOLEAN]

RowTypes ==
  /\ clusters \in
       [Cluster -> {"unknown", "active", "inactive", "archived", Gone}]
  /\ jobs \in [Job -> Row \cup {Gone}] /\ request \in [Shell -> Request]
  /\ crossed \in BOOLEAN /\ exposed \in SUBSET (Job \X Cluster)

(* A count that no write has made old still counts nothing.                *)
CountIsGood(r) ==
  r.stage = "counted" /\ r.old # TRUE =>
    \A j \in Job : j # r.job /\ jobs[j] # Gone => jobs[j].name # r.copy.name

(* New jobs are paused.                                                    *)
NewIsPaused(r) ==
  r.op = "create" => /\ r.stage \in {"read", "counted", "mapping", "undo"}
                     /\ r.copy.status = "paused"

(* Since a removal looked at the jobs of a cluster, none became active     *)
(* there but those exposed.                                                *)
Removing(r, k) == r.stage = "checked" /\ r.op = "remove" /\ r.cluster = k
IdleOrExposed(k) == \A j \in ActiveOn(k) : <<j, k>> \in exposed

CheckIsGood(r) == \A k \in Cluster : Removing(r, k) => IdleOrExposed(k)

GoodRequests ==
  \A s \in Shell : /\ CountIsGood(request[s]) /\ NewIsPaused(request[s])
                   /\ CheckIsGood(request[s])

OneName ==
  crossed # TRUE =>
    \A i, j \in Job : jobs[i] # Gone /\ jobs[j] # Gone
                        /\ jobs[i].name = jobs[j].name => i = j

Removed(k) == clusters[k] \in {"inactive", "archived"}
RemovedAreIdle == \A k \in Cluster : Removed(k) => IdleOrExposed(k)

RegistryInv == RowTypes /\ GoodRequests /\ OneName /\ RemovedAreIdle

LEMMA Chosen ==
  /\ NoRow \in Row /\ Free \in Request /\ Free.stage = "free"
  /\ Free.op = "none" /\ Free.old = FALSE
  /\ (CHOOSE j \in Job : TRUE) \in Job
<1>1. NoRow \in Row
  <2>1. PICK n \in JobName, k \in Cluster : TRUE
    BY RegistryAssumption
  <2>2. [name |-> n, cluster |-> k, status |-> "paused"] \in Row
    BY DEF Row
  <2> QED
    BY <2>2 DEF NoRow
<1>2. (CHOOSE j \in Job : TRUE) \in Job /\ (CHOOSE k \in Cluster : TRUE) \in Cluster
  BY RegistryAssumption
<1> QED
  BY <1>1, <1>2 DEF Free, Request, RequestStages

LEMMA RegistryStarts == RegistryInit => RegistryInv
<1> SUFFICES ASSUME RegistryInit
             PROVE  RegistryInv
  OBVIOUS
<1>1. crossed \in BOOLEAN
  BY Zenon DEF RegistryInit
<1>2. RowTypes
  BY <1>1, Chosen DEF RegistryInit, RowTypes
<1>3. GoodRequests
  BY Chosen DEF RegistryInit, GoodRequests, CountIsGood, NewIsPaused,
                CheckIsGood, Removing
<1> QED
  BY <1>2, <1>3 DEF RegistryInit, RegistryInv, OneName, RemovedAreIdle, Removed

(* A step that writes no row: rows may go, and a cluster be removed whose  *)
(* jobs are idle or exposed.                                               *)
LEMMA NoRowWritten ==
  ASSUME RegistryInv, RowTypes', crossed' = crossed, exposed \subseteq exposed',
         \A j \in Job : jobs'[j] = jobs[j] \/ jobs'[j] = Gone,
         \A k \in Cluster : Removed(k)' => Removed(k) \/ IdleOrExposed(k),
         NEW s \in Shell, NEW r \in Request,
         \A t \in Shell : request'[t] = IF t = s THEN r ELSE request[t],
         CountIsGood(r), NewIsPaused(r), CheckIsGood(r)
  PROVE  RegistryInv'
<1>1. \A k \in Cluster : IdleOrExposed(k) => IdleOrExposed(k)'
  BY DEF IdleOrExposed, ActiveOn
<1>2. GoodRequests'
  <2> SUFFICES ASSUME NEW t \in Shell
               PROVE  (/\ CountIsGood(request[t]) /\ NewIsPaused(request[t])
                       /\ CheckIsGood(request[t]))'
    BY DEF GoodRequests
  <2>1. /\ CountIsGood(request'[t]) /\ NewIsPaused(request'[t])
        /\ CheckIsGood(request'[t])
    BY DEF RegistryInv, GoodRequests
  <2>2. CountIsGood(request[t])'
    BY <2>1 DEF CountIsGood
  <2>3. NewIsPaused(request[t])' /\ CheckIsGood(request[t])'
    BY <1>1, <2>1 DEF NewIsPaused, CheckIsGood, Removing
  <2> QED
    BY <2>2, <2>3
<1>3. OneName'
  BY DEF RegistryInv, OneName
<1>4. RemovedAreIdle'
  BY <1>1 DEF RegistryInv, RemovedAreIdle
<1> QED
  BY <1>2, <1>3, <1>4 DEF RegistryInv

(* A step that only answers, or goes on with, one request.                 *)
LEMMA AnswerStep ==
  ASSUME RegistryInv, NEW s \in Shell, NEW r \in Request, Answers(s, r),
         UNCHANGED <<clusters, jobs, rowHistory>>,
         CountIsGood(r), NewIsPaused(r), CheckIsGood(r)
  PROVE  RegistryInv'
<1>1. /\ request' = [request EXCEPT ![s] = r] /\ request \in [Shell -> Request]
      /\ UNCHANGED <<crossed, exposed>>
  BY DEF Answers, RegistryInv, RowTypes, rowHistory
<1>2. /\ RowTypes'
      /\ \A t \in Shell : request'[t] = IF t = s THEN r ELSE request[t]
  BY <1>1 DEF RegistryInv, RowTypes
<1>3. \A k \in Cluster : Removed(k)' => Removed(k)
  BY DEF Removed
<1> QED
  BY <1>1, <1>2, <1>3, NoRowWritten

(* A request in a stage where nothing is known of it.                      *)
LEMMA PlainRequest ==
  ASSUME NEW r \in Request, r.stage \notin {"counted", "checked"},
         \/ r.op # "create"
         \/ r.stage \in {"read", "mapping", "undo"} /\ r.copy.status = "paused"
  PROVE  CountIsGood(r) /\ NewIsPaused(r) /\ CheckIsGood(r)
  BY DEF CountIsGood, NewIsPaused, CheckIsGood, Removing

LEMMA AfterIs ==
  ASSUME RegistryInv, NEW s \in Shell, NEW stage \in RequestStages,
         stage \notin {"counted", "checked"},
         request[s].op # "create" \/ stage \in {"free", "mapping", "undo"}
  PROVE  /\ After(s, stage) \in Request /\ CountIsGood(After(s, stage))
         /\ NewIsPaused(After(s, stage)) /\ CheckIsGood(After(s, stage))
         /\ After(s, stage).stage = stage /\ After(s, stage).old = FALSE
<1>1. /\ request[s] \in Request
      /\ request[s].op = "create" => request[s].copy.status = "paused"
  BY DEF RegistryInv, RowTypes, GoodRequests, NewIsPaused
<1>2. CASE stage = "free"
  <2>1. After(s, stage) = Free
    BY <1>2 DEF After
  <2> QED
    BY <1>2, <2>1, Chosen, PlainRequest
<1>3. CASE stage # "free"
  <2> DEFINE r == [request[s] EXCEPT !.stage = stage, !.old = FALSE]
  <2>1. /\ After(s, stage) = r /\ r \in Request /\ r.stage = stage
        /\ r.op = request[s].op /\ r.copy = request[s].copy /\ r.old = FALSE
    BY <1>1, <1>3 DEF After, Request
  <2> HIDE DEF r
  <2>2. \/ r.op # "create"
        \/ r.stage \in {"read", "mapping", "undo"} /\ r.copy.status = "paused"
    BY <1>1, <1>3, <2>1
  <2> QED
    BY <2>1, <2>2, PlainRequest
<1> QED
  BY <1>2, <1>3

LEMMA GoesStep ==
  ASSUME RegistryInv, NEW s \in Shell, NEW stage \in RequestStages,
         stage \notin {"counted", "checked"},
         request[s].op # "create" \/ stage \in {"free", "mapping", "undo"},
         Goes(s, stage), UNCHANGED <<clusters, jobs, rowHistory>>
  PROVE  RegistryInv'
  BY AfterIs, AnswerStep DEF Goes

(* A command of "jobs" begins.                                             *)
LEMMA CommandStep ==
  ASSUME RegistryInv, NEW s \in Shell, NEW j \in Job,
         JobsStart(s, j) \/ JobsStop(s, j) \/ JobsPause(s, j)
           \/ JobsDelete(s, j) \/ JobsRestart(s, j) \/ JobsForceRestart(s, j)
  PROVE  RegistryInv'
<1>1. PICK op \in JobOps \ {"create"},
           stage \in {"starting", "stopping", "restarting"} :
        JobsCommand(s, op, j, stage)
  BY DEF JobsStart, JobsStop, JobsPause, JobsDelete, JobsRestart,
         JobsForceRestart, JobOps
<1> DEFINE r == [Command(op, stage) EXCEPT !.job = j]
<1>2. Answers(s, r) /\ UNCHANGED <<clusters, jobs, rowHistory>>
  BY <1>1 DEF JobsCommand, Requests
<1>3. r \in Request /\ r.op = op /\ r.stage = stage
  BY Chosen DEF Command, Request, RequestStages
<1> HIDE DEF r
<1> QED
  BY <1>2, <1>3, PlainRequest, AnswerStep

LEMMA EditStep ==
  ASSUME RegistryInv, NEW s \in Shell, NEW j \in Job, NEW n \in JobName,
         NEW k \in Cluster, JobsAdd(s, j, n, k) \/ UpdateJob(s, j, n, k)
  PROVE  RegistryInv'
<1>1. CASE JobsAdd(s, j, n, k)
  <2> DEFINE row == [name |-> n, cluster |-> k, status |-> "paused"]
             r   == [Command("create", "read") EXCEPT !.job = j, !.cluster = k,
                       !.copy = row]
  <2>1. Answers(s, r) /\ UNCHANGED <<clusters, jobs, rowHistory>>
    BY <1>1 DEF JobsAdd
  <2>2. row \in Row /\ row.status = "paused"
    BY DEF Row
  <2> HIDE DEF row
  <2>3. r \in Request /\ r.op = "create" /\ r.stage = "read" /\ r.copy = row
    BY <2>2, Chosen DEF Command, Request, RequestStages, JobOps
  <2> HIDE DEF r
  <2> QED
    BY <2>1, <2>2, <2>3, PlainRequest, AnswerStep
<1>2. CASE UpdateJob(s, j, n, k)
  <2> DEFINE row == [jobs[j] EXCEPT !.name = n, !.cluster = k]
             r   == [Command("update", "read") EXCEPT !.job = j, !.cluster = k,
                       !.copy = row]
  <2>1. /\ Answers(s, r) /\ UNCHANGED <<clusters, jobs, rowHistory>>
        /\ jobs[j] # Gone
    BY <1>2 DEF UpdateJob, Requests
  <2>2. row \in Row
    BY <2>1 DEF Row, RegistryInv, RowTypes
  <2> HIDE DEF row
  <2>3. r \in Request /\ r.op = "update" /\ r.stage = "read"
    BY <2>2, Chosen DEF Command, Request, RequestStages, JobOps
  <2> HIDE DEF r
  <2> QED
    BY <2>1, <2>3, PlainRequest, AnswerStep
<1> QED
  BY <1>1, <1>2

(* The clusters change.                                                    *)
LEMMA ClusterStep ==
  ASSUME RegistryInv, NEW s \in Shell,
         \/ \E k \in Cluster : ClustersAdd(s, k) \/ ClustersRestore(s, k)
         \/ SetClusterStatus(s) \/ ClustersPurge(s) \/ ArchiveInactiveClusters
  PROVE  RegistryInv'
<1> DEFINE States == {"unknown", "active", "inactive", "archived", Gone}
<1>1. /\ clusters \in [Cluster -> States] /\ request \in [Shell -> Request]
      /\ CountIsGood(request[s]) /\ NewIsPaused(request[s])
      /\ CheckIsGood(request[s]) /\ request[s] \in Request
  BY DEF RegistryInv, RowTypes, GoodRequests
<1>2. ASSUME clusters' \in [Cluster -> States],
             UNCHANGED <<jobs, rowHistory, request>>,
             \A k \in Cluster : Removed(k)' => Removed(k)
      PROVE  RegistryInv'
  <2>1. RowTypes' /\ UNCHANGED <<crossed, exposed>>
    BY <1>2 DEF RegistryInv, RowTypes, rowHistory
  <2> QED
    BY <1>1, <1>2, <2>1, NoRowWritten
<1>3. CASE \E k \in Cluster : ClustersAdd(s, k)
  <2>1. PICK k \in Cluster : /\ UNCHANGED <<jobs, rowHistory, request>>
                             /\ clusters' = [clusters EXCEPT ![k] = "unknown"]
    BY <1>3 DEF ClustersAdd, CreateCluster
  <2>2. /\ clusters' \in [Cluster -> States]
        /\ \A i \in Cluster : Removed(i)' => Removed(i)
    BY <1>1, <2>1 DEF Removed
  <2> QED
    BY <1>2, <2>1, <2>2
<1>4. CASE \E k \in Cluster : ClustersRestore(s, k)
  <2> PICK k \in Cluster : ClustersRestore(s, k)
    BY <1>4
  <2> DEFINE r == [Command("restore", "checked") EXCEPT !.cluster = k]
  <2>1. /\ Answers(s, r) \/ Goes(s, "free")
        /\ UNCHANGED <<clusters, jobs, rowHistory>>
    BY DEF ClustersRestore, RestoreCluster
  <2>2. r \in Request /\ r.op = "restore" /\ r.stage = "checked"
    BY Chosen DEF Command, Request, RequestStages, JobOps
  <2> HIDE DEF r
  <2>3. CountIsGood(r) /\ NewIsPaused(r) /\ CheckIsGood(r)
    BY <2>2 DEF CountIsGood, NewIsPaused, CheckIsGood, Removing
  <2> QED
    BY <2>1, <2>2, <2>3, AnswerStep, GoesStep DEF RequestStages
<1>5. CASE SetClusterStatus(s)
  <2>1. /\ InStage(s, "checked") /\ Goes(s, "free")
        /\ UNCHANGED <<jobs, rowHistory>>
        /\ \/ clusters' = clusters
           \/ clusters' = [clusters EXCEPT ![K(s)] =
                IF request[s].op = "remove" THEN "inactive" ELSE "active"]
    BY <1>5 DEF SetClusterStatus
  <2>2. clusters' \in [Cluster -> States]
    BY <1>1, <2>1
  <2>3. /\ After(s, "free") \in Request /\ CountIsGood(After(s, "free"))
        /\ NewIsPaused(After(s, "free")) /\ CheckIsGood(After(s, "free"))
    BY AfterIs DEF RequestStages
  <2>4. \A k \in Cluster : Removed(k)' => Removed(k) \/ IdleOrExposed(k)
    <3> SUFFICES ASSUME NEW k \in Cluster, Removed(k)', ~Removed(k)
                 PROVE  IdleOrExposed(k)
      OBVIOUS
    <3>1. k = K(s) /\ request[s].op = "remove"
      BY <1>1, <2>1 DEF Removed
    <3>2. Removing(request[s], k)
      BY <2>1, <3>1 DEF Removing, K, InStage
    <3> QED
      BY <1>1, <3>2 DEF CheckIsGood
  <2>5. /\ \A t \in Shell :
             request'[t] = IF t = s THEN After(s, "free") ELSE request[t]
        /\ request' \in [Shell -> Request]
    BY <1>1, <2>1, <2>3 DEF Goes, Answers
  <2>6. RowTypes'
    BY <2>1, <2>2, <2>5 DEF RegistryInv, RowTypes, rowHistory
  <2>7. \A j \in Job : jobs'[j] = jobs[j]
    BY <2>1
  <2>8. UNCHANGED <<crossed, exposed>>
    BY <2>1 DEF rowHistory
  <2> QED
    BY <2>3, <2>4, <2>5, <2>6, <2>7, <2>8, NoRowWritten
<1>6. CASE ClustersPurge(s)
  <2>1. /\ UNCHANGED <<jobs, rowHistory, request>>
        /\ clusters' \in [Cluster -> States]
        /\ \A i \in Cluster : Removed(i)' => Removed(i)
    BY <1>1, <1>6 DEF ClustersPurge, PurgeArchivedClusters, Removed
  <2> QED
    BY <1>2, <2>1
<1>7. CASE ArchiveInactiveClusters
  <2>1. /\ UNCHANGED <<jobs, rowHistory, request>>
        /\ clusters' \in [Cluster -> States]
        /\ \A i \in Cluster : Removed(i)' => Removed(i)
    BY <1>1, <1>7 DEF ArchiveInactiveClusters, Removed
  <2> QED
    BY <1>2, <2>1
<1> QED
  BY <1>3, <1>4, <1>5, <1>6, <1>7

(* A removal looks at the jobs: they are idle, or it is refused.           *)
LEMMA RemoveStep ==
  ASSUME RegistryInv, NEW s \in Shell, NEW k \in Cluster, ClustersRemove(s, k)
  PROVE  RegistryInv'
<1>1. UNCHANGED <<clusters, jobs, crossed>> /\ DeleteCluster(s, k)
  BY DEF ClustersRemove
<1>2. CASE ActiveOn(k) # {}
  BY <1>1, <1>2, GoesStep DEF DeleteCluster, rowHistory, RequestStages
<1>3. CASE ActiveOn(k) = {}
  <2> DEFINE r == [Command("remove", "checked") EXCEPT !.cluster = k]
  <2>1. Answers(s, r) /\ exposed' = {x \in exposed : x[2] # k}
    BY <1>1, <1>3 DEF DeleteCluster
  <2>2. r \in Request /\ r.op = "remove" /\ r.stage = "checked" /\ r.cluster = k
    BY Chosen DEF Command, Request, RequestStages, JobOps
  <2> HIDE DEF r
  <2>3. /\ request' \in [Shell -> Request]
        /\ \A t \in Shell : request'[t] = IF t = s THEN r ELSE request[t]
    BY <2>1, <2>2 DEF Answers, RegistryInv, RowTypes
  <2>4. RowTypes'
    BY <1>1, <2>1, <2>3 DEF RegistryInv, RowTypes
  <2>5. \A i \in Cluster : IdleOrExposed(i) \/ i = k => IdleOrExposed(i)'
    <3> SUFFICES ASSUME NEW i \in Cluster, IdleOrExposed(i) \/ i = k,
                        NEW j \in ActiveOn(i)
                 PROVE  <<j, i>> \in exposed'
      BY <1>1 DEF IdleOrExposed, ActiveOn
    <3>1. i # k
      BY <1>3
    <3>2. <<j, i>> \in exposed /\ <<j, i>>[2] = i
      BY <3>1 DEF IdleOrExposed
    <3> QED
      BY <2>1, <3>1, <3>2
  <2>6. GoodRequests'
    <3> SUFFICES ASSUME NEW t \in Shell
                 PROVE  (/\ CountIsGood(request[t]) /\ NewIsPaused(request[t])
                         /\ CheckIsGood(request[t]))'
      BY DEF GoodRequests
    <3>1. CASE t = s
      BY <2>2, <2>3, <2>5, <3>1 DEF CountIsGood, NewIsPaused, CheckIsGood,
                                    Removing
    <3>2. CASE t # s
      <4>1. /\ request'[t] = request[t] /\ CountIsGood(request[t])
            /\ NewIsPaused(request[t]) /\ CheckIsGood(request[t])
        BY <2>3, <3>2 DEF RegistryInv, GoodRequests
      <4> QED
        BY <1>1, <2>5, <4>1 DEF CountIsGood, NewIsPaused, CheckIsGood, Removing
    <3> QED
      BY <3>1, <3>2
  <2>7. OneName' /\ RemovedAreIdle'
    BY <1>1, <2>5 DEF RegistryInv, OneName, RemovedAreIdle, Removed
  <2> QED
    BY <2>4, <2>6, <2>7 DEF RegistryInv
<1> QED
  BY <1>2, <1>3

(* What a handler reads before it writes.                                  *)
LEMMA ReadStep ==
  ASSUME RegistryInv, NEW s \in Shell,
         StartJob(s) \/ StopJob(s) \/ ReadStopped(s) \/ ReadForRestart(s)
           \/ RowOfBefore(s) \/ PreflightFails(s)
  PROVE  RegistryInv'
<1>1. /\ UNCHANGED <<clusters, jobs, rowHistory>>
      /\ request[s].stage \in {"starting", "stopping", "stopped", "restarting",
                               "again"}
  BY DEF StartJob, StopJob, ReadStopped, ReadForRestart, RowOfBefore,
         PreflightFails, InStage
<1>2. /\ request[s] \in Request /\ NewIsPaused(request[s]) /\ J(s) \in Job
      /\ \A j \in Job : jobs[j] # Gone => jobs[j] \in Row
  BY DEF RegistryInv, RowTypes, GoodRequests, Request, J
<1>3. request[s].op # "create"
  BY <1>1, <1>2 DEF NewIsPaused
<1>4. ASSUME NEW copy \in Row, NEW stage \in RequestStages \ {"counted", "checked"},
             NEW old \in BOOLEAN, NEW first \in Row,
             Answers(s, [request[s] EXCEPT !.stage = stage, !.old = old,
                           !.copy = copy, !.first = first])
      PROVE  RegistryInv'
  <2> DEFINE r == [request[s] EXCEPT !.stage = stage, !.old = old,
                     !.copy = copy, !.first = first]
  <2>1. r \in Request /\ r.op # "create" /\ r.stage = stage
    BY <1>2, <1>3 DEF Request
  <2> HIDE DEF r
  <2>2. CountIsGood(r) /\ NewIsPaused(r) /\ CheckIsGood(r)
    BY <2>1, PlainRequest
  <2>3. Answers(s, r)
    BY <1>4 DEF r
  <2> QED
    BY <1>1, <2>1, <2>2, <2>3, AnswerStep
<1>5. \A row \in Row : \A status \in {"active", "paused"} :
        [row EXCEPT !.status = status] \in Row
  BY DEF Row
<1>6. /\ request[s].copy \in Row /\ request[s].first \in Row
      /\ request[s].old \in BOOLEAN
  BY <1>2 DEF Request
<1>7. CASE StartJob(s)
  <2>1. CASE mirrorOn[J(s)] # Gone \/ jobs[J(s)] = Gone
    BY <1>1, <1>3, <1>7, <2>1, GoesStep DEF StartJob, RequestStages
  <2>2. CASE ~(mirrorOn[J(s)] # Gone \/ jobs[J(s)] = Gone)
    <3>1. Answers(s, [request[s] EXCEPT !.stage = "read", !.old = FALSE,
            !.copy = [jobs[J(s)] EXCEPT !.status = "active"]])
      BY <1>7, <2>2 DEF StartJob
    <3>2. [jobs[J(s)] EXCEPT !.status = "active"] \in Row
      BY <1>2, <1>5, <2>2
    <3>3. Answers(s, [request[s] EXCEPT !.stage = "read", !.old = FALSE,
            !.copy = [jobs[J(s)] EXCEPT !.status = "active"],
            !.first = request[s].first])
      BY <1>2, <3>1 DEF Request
    <3> QED
      BY <1>4, <1>6, <3>2, <3>3 DEF RequestStages
  <2> QED
    BY <2>1, <2>2
<1>8. CASE StopJob(s)
  <2>1. Answers(s, [request[s] EXCEPT !.stage = "stopped",
                      !.old = mirrorOn[J(s)] # Gone])
    BY <1>8 DEF StopJob
  <2>2. PICK old \in BOOLEAN : old = (mirrorOn[J(s)] # Gone)
    OBVIOUS
  <2>3. Answers(s, [request[s] EXCEPT !.stage = "stopped", !.old = old,
                      !.copy = request[s].copy, !.first = request[s].first])
    BY <1>2, <2>1, <2>2 DEF Request
  <2> QED
    BY <1>4, <1>6, <2>3 DEF RequestStages
<1>9. CASE ReadStopped(s)
  <2>1. CASE \E stage \in {"deleting", "starting", "free"} : Goes(s, stage)
    BY <1>1, <1>3, <2>1, GoesStep DEF RequestStages
  <2>2. CASE ~(\E stage \in {"deleting", "starting", "free"} : Goes(s, stage))
    <3>1. /\ Answers(s, [request[s] EXCEPT !.stage = "read", !.old = FALSE,
               !.copy = [jobs[J(s)] EXCEPT !.status = "paused"]])
          /\ jobs[J(s)] # Gone
      BY <1>9, <2>2 DEF ReadStopped
    <3>2. [jobs[J(s)] EXCEPT !.status = "paused"] \in Row
      BY <1>2, <1>5, <3>1
    <3>3. Answers(s, [request[s] EXCEPT !.stage = "read", !.old = FALSE,
            !.copy = [jobs[J(s)] EXCEPT !.status = "paused"],
            !.first = request[s].first])
      BY <1>2, <3>1 DEF Request
    <3> QED
      BY <1>4, <1>6, <3>2, <3>3 DEF RequestStages
  <2> QED
    BY <2>1, <2>2
<1>10. CASE ReadForRestart(s)
  <2>1. CASE jobs[J(s)] = Gone
    BY <1>1, <1>3, <1>10, <2>1, GoesStep DEF ReadForRestart, RequestStages
  <2>2. CASE jobs[J(s)] # Gone
    <3>1. PICK stage \in {"stopping", "starting"} :
            Answers(s, [request[s] EXCEPT !.first = jobs[J(s)], !.stage = stage])
      BY <1>10, <2>2 DEF ReadForRestart
    <3>2. Answers(s, [request[s] EXCEPT !.stage = stage, !.old = request[s].old,
            !.copy = request[s].copy, !.first = jobs[J(s)]])
      BY <1>2, <3>1 DEF Request
    <3> QED
      BY <1>2, <1>4, <1>6, <2>2, <3>2 DEF RequestStages
  <2> QED
    BY <2>1, <2>2
<1>11. CASE RowOfBefore(s)
  <2>1. Answers(s, [request[s] EXCEPT !.stage = "read",
                      !.copy = [request[s].first EXCEPT !.status = "active"]])
    BY <1>11 DEF RowOfBefore
  <2>2. [request[s].first EXCEPT !.status = "active"] \in Row
    BY <1>5, <1>6
  <2>3. Answers(s, [request[s] EXCEPT !.stage = "read", !.old = request[s].old,
          !.copy = [request[s].first EXCEPT !.status = "active"],
          !.first = request[s].first])
    BY <1>2, <2>1 DEF Request
  <2> QED
    BY <1>4, <1>6, <2>2, <2>3 DEF RequestStages
<1>12. CASE PreflightFails(s)
  BY <1>1, <1>3, <1>12, GoesStep DEF PreflightFails, RequestStages
<1> QED
  BY <1>7, <1>8, <1>9, <1>10, <1>11, <1>12

(* What follows a write or its refusal.                                    *)
LEMMA WrittenIs ==
  ASSUME RegistryInv, NEW s \in Shell, NEW done \in BOOLEAN, Written(s, done)
  PROVE  \E go \in RequestStages :
           /\ go \notin {"counted", "checked"}
           /\ request[s].op # "create" \/ go = "free"
           /\ done = TRUE => WriteThen(s, go)
           /\ done # TRUE => Goes(s, go) /\ UNCHANGED crossed
<1> DEFINE op     == request[s].op
           paused == request[s].copy.status = "paused"
           go == CASE op = "update" /\ done            -> "mapping"
                   [] op = "delete"                     -> "deleting"
                   [] op = "restart" /\ paused         -> "starting"
                   [] op = "force" /\ paused /\ done   -> "starting"
                   [] op = "restart" /\ mu = s /\ done -> "again"
                   [] OTHER                             -> "free"
<1>1. IF done THEN WriteThen(s, go) ELSE Goes(s, go) /\ UNCHANGED crossed
  BY DEF Written
<1>2. go \in {"mapping", "deleting", "starting", "again", "free"}
  OBVIOUS
<1>3. op = "create" => go = "free"
  OBVIOUS
<1> HIDE DEF go
<1>4. go \in RequestStages /\ go \notin {"counted", "checked"}
  BY <1>2 DEF RequestStages
<1>5. op # "create" \/ go = "free"
  BY <1>3
<1>6. done = TRUE => WriteThen(s, go)
  BY <1>1
<1>7. done # TRUE => Goes(s, go) /\ UNCHANGED crossed
  BY <1>1
<1> QED
  BY <1>4, <1>5, <1>6, <1>7

LEMMA CountStepOfNames ==
  ASSUME RegistryInv, NEW s \in Shell, CountNames(s)
  PROVE  RegistryInv'
<1>1. /\ UNCHANGED <<clusters, jobs, exposed>> /\ request[s].stage = "read"
  BY DEF CountNames, InStage
<1>2. /\ request[s] \in Request /\ NewIsPaused(request[s])
  BY DEF RegistryInv, RowTypes, GoodRequests
<1> DEFINE taken == \E j \in Job \ {J(s)} :
                      jobs[j] # Gone /\ jobs[j].name = request[s].copy.name
<1>3. CASE taken
  <2>1. Written(s, FALSE)
    BY <1>3 DEF CountNames
  <2>2. PICK go \in RequestStages :
          /\ go \notin {"counted", "checked"}
          /\ request[s].op # "create" \/ go = "free"
          /\ FALSE # TRUE => Goes(s, go) /\ UNCHANGED crossed
    BY <2>1, WrittenIs
  <2>3. Goes(s, go) /\ UNCHANGED <<clusters, jobs, rowHistory>>
    BY <1>1, <2>2 DEF rowHistory
  <2> QED
    BY <2>2, <2>3, GoesStep
<1>4. CASE ~taken
  <2>1. Goes(s, "counted") /\ UNCHANGED crossed
    BY <1>4 DEF CountNames
  <2> DEFINE r == [request[s] EXCEPT !.stage = "counted", !.old = FALSE]
  <2>2. Answers(s, r) /\ UNCHANGED <<clusters, jobs, rowHistory>>
    BY <1>1, <2>1 DEF Goes, After, rowHistory
  <2>3. /\ r \in Request /\ r.stage = "counted" /\ r.job = J(s)
        /\ r.copy = request[s].copy /\ r.op = request[s].op
    BY <1>2 DEF Request, RequestStages, J
  <2> HIDE DEF r
  <2>4. CountIsGood(r)
    BY <1>4, <2>3 DEF CountIsGood
  <2>5. NewIsPaused(r) /\ CheckIsGood(r)
    BY <1>2, <2>3 DEF NewIsPaused, CheckIsGood, Removing
  <2> QED
    BY <2>2, <2>3, <2>4, <2>5, AnswerStep
<1> QED
  BY <1>3, <1>4

LEMMA MappingStep ==
  ASSUME RegistryInv, NEW s \in Shell, UpdateMappings(s) \/ MappingsFail(s)
  PROVE  RegistryInv'
<1>1. PICK go \in {"free", "undo"} :
        Goes(s, go) /\ UNCHANGED <<clusters, jobs, rowHistory>>
  BY DEF UpdateMappings, MappingsFail
<1> QED
  BY <1>1, GoesStep DEF RequestStages

LEMMA DeleteStep ==
  ASSUME RegistryInv, NEW s \in Shell, DeleteJob(s)
  PROVE  RegistryInv'
<1>1. /\ jobs' = [jobs EXCEPT ![J(s)] = Gone] /\ Goes(s, "free")
      /\ UNCHANGED <<clusters, rowHistory>>
  BY DEF DeleteJob
<1>2. /\ After(s, "free") \in Request /\ CountIsGood(After(s, "free"))
      /\ NewIsPaused(After(s, "free")) /\ CheckIsGood(After(s, "free"))
  BY AfterIs DEF RequestStages
<1>3. /\ request' \in [Shell -> Request]
      /\ \A t \in Shell :
           request'[t] = IF t = s THEN After(s, "free") ELSE request[t]
  BY <1>1, <1>2 DEF Goes, Answers, RegistryInv, RowTypes
<1>4. /\ jobs' \in [Job -> Row \cup {Gone}]
      /\ \A j \in Job : jobs'[j] = jobs[j] \/ jobs'[j] = Gone
  BY <1>1 DEF RegistryInv, RowTypes
<1>5. RowTypes'
  BY <1>1, <1>3, <1>4 DEF RegistryInv, RowTypes, rowHistory
<1>6. \A k \in Cluster : Removed(k)' => Removed(k)
  BY <1>1 DEF Removed
<1>7. UNCHANGED <<crossed, exposed>>
  BY <1>1 DEF rowHistory
<1> QED
  BY <1>2, <1>3, <1>4, <1>5, <1>6, <1>7, NoRowWritten

(* A row is written: no other job has its name if the count is not old,    *)
(* and the counts of the others are old from now on.                       *)
LEMMA RowWritten ==
  ASSUME RegistryInv, NEW s \in Shell, request[s].stage = "counted",
         NEW go \in RequestStages, go \notin {"counted", "checked"},
         request[s].op # "create" \/ go \in {"free", "mapping"},
         WriteThen(s, go), clusters' = clusters,
         jobs' = jobs \/ jobs' = [jobs EXCEPT ![J(s)] = request[s].copy],
         exposed' \in SUBSET (Job \X Cluster), exposed \subseteq exposed',
         request[s].copy.status = "active" =>
           <<J(s), request[s].copy.cluster>> \in exposed'
  PROVE  RegistryInv'
<1> DEFINE row == request[s].copy
<1>1. /\ request[s] \in Request /\ J(s) \in Job /\ row \in Row
      /\ J(s) = request[s].job
      /\ CountIsGood(request[s]) /\ jobs \in [Job -> Row \cup {Gone}]
  BY DEF RegistryInv, RowTypes, GoodRequests, Request, J
<1>2. /\ After(s, go) \in Request /\ After(s, go).stage = go
      /\ CountIsGood(After(s, go)) /\ NewIsPaused(After(s, go))
      /\ CheckIsGood(After(s, go))
  BY AfterIs
<1>3. ASSUME NEW t \in Shell
      PROVE  /\ request'[t] \in Request
             /\ t # s => /\ request'[t].op = request[t].op
                         /\ request'[t].stage = request[t].stage
                         /\ request'[t].copy = request[t].copy
                         /\ request'[t].job = request[t].job
                         /\ request'[t].cluster = request[t].cluster
                         /\ request[t].stage = "counted" =>
                              request'[t].old = TRUE
             /\ t = s => request'[t] = After(s, go)
  <2>1. request[t] \in Request
    BY DEF RegistryInv, RowTypes
  <2>2. request'[t] = IF t = s THEN After(s, go)
          ELSE [request[t] EXCEPT !.old = @ \/ request[t].stage = "counted"]
    BY DEF WriteThen
  <2>3. CASE t = s
    BY <1>2, <2>2, <2>3
  <2>4. CASE t # s
    <3>1. PICK old \in BOOLEAN :
            /\ old = (request[t].old \/ request[t].stage = "counted")
            /\ request[t].stage = "counted" => old = TRUE
      <4>1. request[t].old \in BOOLEAN
        BY <2>1 DEF Request
      <4> QED
        BY <4>1
    <3>2. request'[t] = [request[t] EXCEPT !.old = old]
      BY <2>2, <2>4, <3>1
    <3> QED
      BY <2>1, <2>4, <3>1, <3>2 DEF Request
  <2> QED
    BY <2>3, <2>4
<1>4. request' \in [Shell -> Request]
  <2>1. request' = [t \in Shell |-> IF t = s THEN After(s, go)
          ELSE [request[t] EXCEPT !.old = @ \/ request[t].stage = "counted"]]
    BY DEF WriteThen
  <2> QED
    BY <1>3, <2>1
<1>5. /\ crossed' \in BOOLEAN
      /\ crossed' # TRUE => crossed # TRUE /\ request[s].old # TRUE
  <2>1. crossed \in BOOLEAN /\ request[s].old \in BOOLEAN
    BY <1>1 DEF RegistryInv, RowTypes, Request
  <2>2. crossed' = (crossed \/ request[s].old)
    BY DEF WriteThen
  <2> QED
    BY <2>1, <2>2
<1>6. RowTypes'
  <2>1. jobs' \in [Job -> Row \cup {Gone}]
    BY <1>1
  <2> QED
    BY <1>4, <1>5, <2>1 DEF RegistryInv, RowTypes
<1>7. \A j \in Job : jobs'[j] = jobs[j] \/ (j = J(s) /\ jobs'[j] = row)
  BY <1>1
<1>8. \A k \in Cluster : IdleOrExposed(k) => IdleOrExposed(k)'
  <2> SUFFICES ASSUME NEW k \in Cluster, IdleOrExposed(k), NEW j \in Job,
                      jobs'[j] # Gone, jobs'[j].cluster = k,
                      jobs'[j].status = "active"
               PROVE  <<j, k>> \in exposed'
    BY DEF IdleOrExposed, ActiveOn
  <2>1. CASE jobs'[j] = jobs[j]
    BY <2>1 DEF IdleOrExposed, ActiveOn
  <2>2. CASE j = J(s) /\ jobs'[j] = row
    BY <2>2
  <2> QED
    BY <1>7, <2>1, <2>2
<1>9. GoodRequests'
  <2> SUFFICES ASSUME NEW t \in Shell
               PROVE  (/\ CountIsGood(request[t]) /\ NewIsPaused(request[t])
                       /\ CheckIsGood(request[t]))'
    BY DEF GoodRequests
  <2>1. /\ NewIsPaused(request[t]) /\ CheckIsGood(request[t])
    BY DEF RegistryInv, GoodRequests
  <2>2. CountIsGood(request[t])'
    BY <1>2, <1>3 DEF CountIsGood
  <2>3. NewIsPaused(request[t])'
    BY <1>2, <1>3, <2>1 DEF NewIsPaused
  <2>4. CheckIsGood(request[t])'
    BY <1>2, <1>3, <1>8, <2>1 DEF CheckIsGood, Removing
  <2> QED
    BY <2>2, <2>3, <2>4
<1>10. OneName'
  <2> SUFFICES ASSUME crossed' # TRUE, NEW i \in Job, NEW j \in Job,
                      jobs'[i] # Gone, jobs'[j] # Gone,
                      jobs'[i].name = jobs'[j].name, i # j
               PROVE  FALSE
    BY DEF OneName
  <2>1. CASE jobs'[i] = jobs[i] /\ jobs'[j] = jobs[j]
    BY <1>5, <2>1 DEF RegistryInv, OneName
  <2>2. CASE i = J(s) /\ jobs'[i] = row
    BY <1>1, <1>5, <1>7, <2>2 DEF CountIsGood
  <2>3. CASE j = J(s) /\ jobs'[j] = row
    BY <1>1, <1>5, <1>7, <2>3 DEF CountIsGood
  <2> QED
    BY <1>7, <2>1, <2>2, <2>3
<1>11. RemovedAreIdle'
  BY <1>8 DEF RegistryInv, RemovedAreIdle, Removed
<1> QED
  BY <1>6, <1>9, <1>10, <1>11 DEF RegistryInv

LEMMA WriteStep ==
  ASSUME RegistryInv, NEW s \in Shell, InsertJob(s) \/ WriteRow(s)
  PROVE  RegistryInv'
<1>1. /\ request[s] \in Request /\ J(s) \in Job /\ request[s].copy \in Row
      /\ NewIsPaused(request[s]) /\ exposed \in SUBSET (Job \X Cluster)
      /\ request[s].copy.cluster \in Cluster
      /\ jobs \in [Job -> Row \cup {Gone}]
  BY DEF RegistryInv, RowTypes, GoodRequests, Request, J, Row
<1>2. CASE InsertJob(s)
  <2>1. /\ request[s].stage = "counted" /\ request[s].op = "create"
        /\ UNCHANGED <<clusters, exposed>>
    BY <1>2 DEF InsertJob, InStage
  <2>2. request[s].copy.status # "active"
    BY <1>1, <2>1 DEF NewIsPaused
  <2>3. CASE clusters[K(s)] = Gone
    BY <1>2, <2>1, <2>3, GoesStep DEF InsertJob, rowHistory, RequestStages
  <2>4. CASE clusters[K(s)] # Gone
    <3>1. /\ jobs' = [jobs EXCEPT ![J(s)] = request[s].copy]
          /\ WriteThen(s, "mapping")
      BY <1>2, <2>4 DEF InsertJob
    <3>2. exposed' \in SUBSET (Job \X Cluster) /\ exposed \subseteq exposed'
      BY <1>1, <2>1
    <3> QED
      BY <2>1, <2>2, <3>1, <3>2, RowWritten DEF RequestStages
  <2> QED
    BY <2>3, <2>4
<1>3. CASE WriteRow(s)
  <2> DEFINE row == request[s].copy
  <2>1. /\ request[s].stage = "counted" /\ request[s].op # "create"
        /\ clusters' = clusters
        /\ exposed' = IF row.status = "active"
                        THEN exposed \cup {<<J(s), row.cluster>>} ELSE exposed
    BY <1>3 DEF WriteRow, InStage
  <2>2. /\ exposed' \in SUBSET (Job \X Cluster) /\ exposed \subseteq exposed'
        /\ row.status = "active" => <<J(s), row.cluster>> \in exposed'
    BY <1>1, <2>1
  <2>3. PICK done \in BOOLEAN :
          done = (jobs[J(s)] = Gone \/ clusters[row.cluster] # Gone)
    OBVIOUS
  <2>4. /\ Written(s, done)
        /\ jobs' = jobs \/ jobs' = [jobs EXCEPT ![J(s)] = row]
        /\ done # TRUE => jobs' = jobs
    BY <1>3, <2>3 DEF WriteRow
  <2>5. PICK go \in RequestStages :
          /\ go \notin {"counted", "checked"}
          /\ request[s].op # "create" \/ go = "free"
          /\ done = TRUE => WriteThen(s, go)
          /\ done # TRUE => Goes(s, go) /\ UNCHANGED crossed
    BY <2>4, WrittenIs
  <2>6. CASE done = TRUE
    BY <2>1, <2>2, <2>4, <2>5, <2>6, RowWritten
  <2>7. CASE done # TRUE
    <3>1. Goes(s, go) /\ crossed' = crossed /\ jobs' = jobs
      BY <2>4, <2>5, <2>7
    <3>2. /\ After(s, go) \in Request /\ CountIsGood(After(s, go))
          /\ NewIsPaused(After(s, go)) /\ CheckIsGood(After(s, go))
      BY <2>1, <2>5, AfterIs
    <3>3. /\ request' \in [Shell -> Request]
          /\ \A t \in Shell :
               request'[t] = IF t = s THEN After(s, go) ELSE request[t]
      BY <3>1, <3>2 DEF Goes, Answers, RegistryInv, RowTypes
    <3>4. RowTypes'
      BY <2>1, <2>2, <3>1, <3>3 DEF RegistryInv, RowTypes
    <3>5. /\ \A j \in Job : jobs'[j] = jobs[j] \/ jobs'[j] = Gone
          /\ \A k \in Cluster : Removed(k)' => Removed(k) \/ IdleOrExposed(k)
      BY <2>1, <3>1 DEF Removed
    <3> QED
      BY <2>2, <3>1, <3>2, <3>3, <3>4, <3>5, NoRowWritten
  <2> QED
    BY <2>6, <2>7
<1> QED
  BY <1>2, <1>3

LEMMA RegistryStep ==
  ASSUME RegistryInv, [RegistryNext]_registryVars
  PROVE  RegistryInv'
<1>1. CASE UNCHANGED registryVars
  BY <1>1 DEF registryVars, rowHistory, RegistryInv, RowTypes, GoodRequests,
       CountIsGood, NewIsPaused, CheckIsGood, Removing, IdleOrExposed, ActiveOn,
       OneName, RemovedAreIdle, Removed
<1>2. ASSUME NEW s \in Shell,
             \/ \E k \in Cluster :
                  \/ ClustersAdd(s, k) \/ ClustersRemove(s, k)
                  \/ ClustersRestore(s, k)
                  \/ \E j \in Job, n \in JobName :
                       JobsAdd(s, j, n, k) \/ UpdateJob(s, j, n, k)
             \/ SetClusterStatus(s) \/ ClustersPurge(s)
             \/ CountNames(s) \/ InsertJob(s) \/ UpdateMappings(s)
             \/ MappingsFail(s) \/ WriteRow(s) \/ StartJob(s) \/ StopJob(s)
             \/ ReadStopped(s) \/ DeleteJob(s)
             \/ \E j \in Job : \/ JobsStart(s, j) \/ JobsStop(s, j)
                               \/ JobsPause(s, j) \/ JobsDelete(s, j)
                               \/ JobsRestart(s, j) \/ JobsForceRestart(s, j)
             \/ ReadForRestart(s) \/ RowOfBefore(s) \/ PreflightFails(s)
      PROVE  RegistryInv'
  BY <1>2, ClusterStep, RemoveStep, EditStep, CommandStep, CountStepOfNames,
     WriteStep, MappingStep, ReadStep, DeleteStep
<1>3. CASE ArchiveInactiveClusters
  <2>1. /\ clusters' = [k \in Cluster |-> IF clusters[k] = "inactive"
                                            THEN "archived" ELSE clusters[k]]
        /\ UNCHANGED <<jobs, request, crossed, exposed>>
    BY <1>3 DEF ArchiveInactiveClusters, rowHistory
  <2>2. RowTypes'
    BY <2>1 DEF RegistryInv, RowTypes
  <2>3. \A k \in Cluster : Removed(k)' => Removed(k)
    BY <2>1 DEF RegistryInv, RowTypes, Removed
  <2>4. \A k \in Cluster : IdleOrExposed(k) <=> IdleOrExposed(k)'
    BY <2>1 DEF IdleOrExposed, ActiveOn
  <2>5. GoodRequests'
    BY <2>1, <2>4 DEF RegistryInv, GoodRequests, CountIsGood, NewIsPaused,
                      CheckIsGood, Removing
  <2>6. OneName' /\ RemovedAreIdle'
    BY <2>1, <2>3, <2>4 DEF RegistryInv, OneName, RemovedAreIdle
  <2> QED
    BY <2>2, <2>5, <2>6 DEF RegistryInv
<1> QED
  BY <1>1, <1>2, <1>3 DEF RegistryNext

LEMMA RegistryInductive == RegistrySpec => []RegistryInv
  BY RegistryStarts, RegistryStep, PTL DEF RegistrySpec

(* Two jobs have one name only if a row was written upon a count that had  *)
(* gone old, whatever the handlers of jobs, the starts and stops do in     *)
(* between (CreateJob and UpdateJob, jobs.go:37 and :57, count and then    *)
(* write).                                                                 *)
THEOREM NamesAreUnique == RegistrySpec => []NamesUnique
<1>1. RegistryInv => NamesUnique
  BY DEF RegistryInv, RowTypes, OneName, NamesUnique
<1> QED
  BY <1>1, RegistryInductive, PTL

(* The jobs of a removed cluster are idle, but for those that were made    *)
(* active after the removal had looked at them (handleDeleteCluster,       *)
(* handlers.go:279-298).                                                   *)
THEOREM RemovedAreIdleOrExposed == RegistrySpec => []RemovedIdle
<1>1. RegistryInv => RemovedIdle
  BY DEF RegistryInv, RemovedAreIdle, Removed, IdleOrExposed, RemovedIdle
<1> QED
  BY <1>1, RegistryInductive, PTL

-----------------------------------------------------------------------------
(* The configuration: what commands read, change and put back whole.        *)

(* What a command may set one by one: no command names a cluster.          *)
Settable == Param \ ClusterSecret

EverySetting == <<"all">>
CopyBack     == <<"copy">>
Whole        == {EverySetting, CopyBack}

Shells ==
  [todo : Seq(Settable) \cup Whole,
   stage : {"idle", "next", "got", "sent", "merged", "stored"},
   value : Values, body : Configs \cup {<<>>}, old : BOOLEAN]

ConfigTypes ==
  /\ yml \in [Param -> Values] /\ cfg \in Configs
  /\ cfgRow = <<>> \/ cfgRow \in Configs
  /\ editor \in [Editor -> Shells]
  /\ backup = NoCopy \/ backup \in [body : Configs, old : BOOLEAN]
  /\ commands \in 0 .. MaxCommands
  /\ settled \in Configs /\ lost \in SUBSET Param

(* A command under way has something to set, a value to set it to, and,   *)
(* once it has read, a configuration in its hands.                        *)
UnderWay(r) ==
  /\ r.stage # "idle" => r.todo # <<>>
  /\ r.stage # "idle" /\ r.todo \notin Whole => r.value # 0
  /\ r.stage \in {"got", "sent", "merged", "stored"} => r.body \in Configs
  /\ r.stage \in {"next", "got"} => r.todo \notin Whole

(* Where nothing is stored the memory comes from the file, and the file   *)
(* never holds the placeholder.                                           *)
MemoryIsReal ==
  /\ cfgRow = <<>> => \A p \in Param : cfg[p] # Masked
  /\ \A e \in Editor : editor[e].stage = "stored" => cfgRow # <<>>

(* What a command has read is what is stored, with placeholders, unless   *)
(* the stored one was replaced since.                                     *)
HoldsAnswer(r) ==
  r.stage \in {"got", "sent"} =>
    /\ \A p \in Param : r.body[p] = Masked =>
         p \in Secret /\ r.todo # EverySetting
    /\ r.old # TRUE =>
         \A p \in Param \ Meant(r) : r.body[p] = Redacted(Stored)[p]

(* What it asks for is in the request, where the name is understood.      *)
AsksFor(r) ==
  /\ r.stage \in {"sent", "merged"} /\ r.todo \notin Whole
  /\ Head(r.todo) \notin Dropped
  => r.body[Head(r.todo)] = r.value

(* After the merge all else is what is stored, and a placeholder is left  *)
(* only for a cluster that went away.                                     *)
HoldsMerged(r) ==
  r.stage = "merged" =>
    /\ \A p \in Param : r.body[p] = Masked =>
         p \in ClusterSecret \ Meant(r) /\ (r.old = TRUE \/ p \in lost)
    /\ r.old # TRUE => \A p \in Param \ (Meant(r) \cup Dropped) :
                         r.body[p] = Stored[p]

ShellIsRight(r) ==
  UnderWay(r) /\ HoldsAnswer(r) /\ AsksFor(r) /\ HoldsMerged(r)

(* The backup, too, is what is stored, unless that was replaced since.     *)
BackupIsRight ==
  backup # NoCopy =>
    /\ \A p \in Param : backup.body[p] = Masked => p \in Secret
    /\ backup.old # TRUE => backup.body = Redacted(Stored)

ConfigInv ==
  /\ ConfigTypes /\ MemoryIsReal /\ BackupIsRight
  /\ \A e \in Editor : ShellIsRight(editor[e])
  /\ SecretsAreReal /\ EditsSurvive

(* What the commands name.                                                *)
Named ==
  {"server.host", "server.port", "server.mode", "server.tls.enabled",
   "server.tls.cert_file", "server.tls.key_file",
   "server.cors.allowed_origins", "replication.batch_size",
   "replication.parallelism", "replication.compression",
   "replication.topic_discovery_interval", "monitoring.enabled",
   "monitoring.platform", "ai.provider", "ai.token", "ai.model",
   "ai.endpoint", "ai.api_secret", "AI.Features.AnomalyDetection",
   "AI.Features.PerformanceOptimization", "AI.Features.IncidentAnalysis",
   "AI.SelfHealing.AutomatedRemediation", "AI.SelfHealing.DynamicThrottling"}
    \cup Schedule

(* Of the names of a command those looked at are left, none of a cluster. *)
LEMMA LookedAtIsSettable ==
  ASSUME NEW s \in Seq(Named)
  PROVE  LookedAt(s) \in Seq(Settable)
<1>1. \A n \in Named : n \in Param => n \in Settable
  BY DEF Named, Schedule, Settable, ClusterSecret
<1>2. ASSUME NEW i PROVE Only(s, i) \in Seq(Settable)
  <2>1. CASE i \in DOMAIN s /\ s[i] \in Param
    <3>1. s[i] \in Settable BY <1>1, <2>1
    <3> QED BY <2>1, <3>1 DEF Only
  <2>2. CASE ~(i \in DOMAIN s /\ s[i] \in Param)
    BY <2>2 DEF Only
  <2> QED BY <2>1, <2>2
<1> QED BY <1>2 DEF LookedAt

(* The commands name nothing else.                                        *)
LEMMA CommandsNameNamed ==
  UNION {ServerEdits, ReplicationEdits, MonitoringEdits, ComplianceEdits,
         ProviderEdits, FeatureEdits, TestAndEnable, SelfHealingEdits,
         ManageServer, ManageMonitoring, ManageAI, ImportCert}
    \subseteq Seq(Named)
<1>1. /\ ServerEdits \subseteq Seq(Named) /\ ImportCert \subseteq Seq(Named)
      /\ ManageServer \subseteq Seq(Named)
  BY DEF ServerEdits, ImportCert, ManageServer, Named
<1>2. /\ ReplicationEdits \subseteq Seq(Named)
      /\ MonitoringEdits \subseteq Seq(Named)
      /\ ManageMonitoring \subseteq Seq(Named)
  BY DEF ReplicationEdits, MonitoringEdits, ManageMonitoring, Named
<1>3. ComplianceEdits \subseteq Seq(Named)
  <2>1. \A p \in Schedule : <<p>> \in Seq(Named)
    <3>1. Schedule \subseteq Named BY DEF Named
    <3> QED BY <3>1
  <2> QED BY <2>1 DEF ComplianceEdits
<1>4. /\ FeatureEdits \subseteq Seq(Named)
      /\ TestAndEnable \subseteq Seq(Named)
      /\ SelfHealingEdits \subseteq Seq(Named)
  BY DEF FeatureEdits, TestAndEnable, SelfHealingEdits, Named
<1>5. ConfigureCustomAI \subseteq Seq(Named)
  <2>1. /\ <<"ai.provider", "ai.endpoint", "ai.token">> \in Seq(Named)
        /\ <<"ai.model">> \in Seq(Named) /\ <<"ai.api_secret">> \in Seq(Named)
    BY DEF Named
  <2>2. ASSUME NEW s \in {<<>>, <<"ai.api_secret">>}
        PROVE  <<"ai.provider", "ai.endpoint", "ai.token">> \o s
                 \o <<"ai.model">> \in Seq(Named)
    <3> DEFINE a == <<"ai.provider", "ai.endpoint", "ai.token">>
               z == <<"ai.model">>
    <3>1. a \in Seq(Named) /\ z \in Seq(Named) BY <2>1
    <3>2. s \in Seq(Named)
      <4>1. CASE s = <<>> BY <4>1
      <4>2. CASE s = <<"ai.api_secret">> BY <2>1, <4>2
      <4> QED BY <4>1, <4>2
    <3> HIDE DEF a, z
    <3>3. a \o s \o z \in Seq(Named) BY <3>1, <3>2
    <3> QED BY <3>3 DEF a, z
  <2> QED BY <2>2 DEF ConfigureCustomAI
<1>6. ConfigureProvider \in Seq(Named)
  BY DEF ConfigureProvider, Named
<1>7. ProviderEdits \subseteq Seq(Named) /\ ManageAI \subseteq Seq(Named)
  <2>1. /\ <<"ai.model">> \in Seq(Named) /\ <<"ai.endpoint">> \in Seq(Named)
        /\ <<"ai.token">> \in Seq(Named)
    BY DEF Named
  <2> QED BY <1>5, <1>6, <2>1 DEF ProviderEdits, ManageAI
<1> QED BY <1>1, <1>2, <1>3, <1>4, <1>5, <1>7

LEMMA EditsAreSettable == Edits \subseteq Seq(Settable) \ {<<>>}
BY LookedAtIsSettable, CommandsNameNamed DEF Edits

(* No configuration is the empty sequence, and no value the placeholder.  *)
LEMMA ConfigFacts ==
  /\ <<>> \notin Configs /\ Masked \notin Values /\ 0 \in Values
  /\ MaxCommands \in Nat
  /\ \A c \in Configs : \A p \in Param : c[p] \in Values \cup {Masked}
  /\ Settable \subseteq Param /\ Whole \cap Seq(Settable) = {}
  /\ <<>> \notin Whole /\ EverySetting # CopyBack
  /\ Head(EverySetting) = "all" /\ Head(CopyBack) = "copy"
  /\ {"all", "copy"} \cap Param = {}
  /\ NoCopy \notin [body : Configs, old : BOOLEAN]
<1>1. <<>> \notin Configs
  <2>1. DOMAIN <<>> = {}
    OBVIOUS
  <2>2. \A c \in Configs : DOMAIN c = Param
    BY DEF Configs
  <2> QED BY <2>1, <2>2, ConfigAssumption
<1>2. /\ EverySetting[1] = "all" /\ CopyBack[1] = "copy"
      /\ 1 \in DOMAIN EverySetting /\ 1 \in DOMAIN CopyBack
      /\ Head(EverySetting) = "all" /\ Head(CopyBack) = "copy"
      /\ EverySetting # <<>> /\ CopyBack # <<>>
  BY DEF EverySetting, CopyBack
<1>3. EverySetting # CopyBack
  <2>1. EverySetting[1] # CopyBack[1]
    BY <1>2
  <2> QED BY <2>1
<1>4. /\ EverySetting \notin Seq(Settable) /\ CopyBack \notin Seq(Settable)
  <2>1. \A s \in Seq(Settable) : \A i \in DOMAIN s : s[i] \in Settable
    OBVIOUS
  <2>2. "all" \notin Settable /\ "copy" \notin Settable
    BY ConfigAssumption DEF Settable
  <2> QED BY <1>2, <2>1, <2>2
<1>5. NoCopy \notin [body : Configs, old : BOOLEAN]
  BY <1>1 DEF NoCopy
<1> QED
  BY <1>1, <1>2, <1>3, <1>4, <1>5, ConfigAssumption
     DEF Configs, Values, Settable, Whole

(* A shell in which no command runs.                                      *)
LEMMA NoEditIsRight ==
  NoEdit \in Shells /\ ShellIsRight(NoEdit) /\ NoEdit.stage = "idle"
BY ConfigFacts
   DEF NoEdit, Shells, ShellIsRight, UnderWay, HoldsAnswer, AsksFor, HoldsMerged

(* A command of parameters is meant to set the first of them.             *)
LEMMA MeantIs ==
  ASSUME NEW r \in Shells, r.todo # <<>>, r.todo \notin Whole
  PROVE  Head(r.todo) \in Param /\ Meant(r) = {Head(r.todo)}
<1>1. Head(r.todo) \in Settable
  BY DEF Shells
<1> QED
  BY <1>1, ConfigFacts DEF Meant

(* A command that goes on to its next parameter, or ends.                 *)
LEMMA NextIsRight ==
  ASSUME NEW r \in Shells, UnderWay(r), r.stage # "idle"
  PROVE  /\ Next1(r) \in Shells /\ ShellIsRight(Next1(r))
         /\ Next1(r).stage \in {"idle", "next"}
<1>1. CASE Tail(r.todo) = <<>>
  BY <1>1, NoEditIsRight DEF Next1
<1>2. CASE Tail(r.todo) # <<>>
  <2> DEFINE new == [NoEdit EXCEPT !.todo = Tail(r.todo), !.stage = "next",
                                   !.value = r.value]
  <2>1. r.todo \notin Whole
    <3>1. \A w : Tail(<<w>>) = <<>>
      <4>1. \A w : Len(<<w>>) = 1 /\ <<w>> # <<>> /\ <<w>> \in Seq({w})
        OBVIOUS
      <4>2. \A w : Tail(<<w>>) \in Seq({w}) /\ Len(Tail(<<w>>)) = 0
        BY <4>1
      <4> QED BY <4>2, EmptySeq
    <3> QED BY <1>2, <3>1 DEF Whole, EverySetting, CopyBack
  <2>2. r.todo \in Seq(Settable) /\ r.todo # <<>> /\ r.value # 0
    BY <2>1 DEF Shells, UnderWay
  <2>3. Tail(r.todo) \in Seq(Settable) /\ Tail(r.todo) \notin Whole
    <3>1. Tail(r.todo) \in Seq(Settable)
      BY <2>2
    <3> QED BY <3>1, ConfigFacts
  <2>4. /\ new \in Shells /\ new.todo = Tail(r.todo) /\ new.stage = "next"
        /\ new.value = r.value
    BY <2>3 DEF Shells, NoEdit
  <2> HIDE DEF new
  <2>5. ShellIsRight(new)
    BY <1>2, <2>2, <2>3, <2>4
       DEF ShellIsRight, UnderWay, HoldsAnswer, AsksFor, HoldsMerged
  <2>6. Next1(r) = new
    BY <1>2 DEF Next1, new
  <2> QED BY <2>4, <2>5, <2>6
<1> QED BY <1>1, <1>2

LEMMA ConfigStart == ConfigInit => ConfigInv
<1> SUFFICES ASSUME ConfigInit PROVE ConfigInv
  OBVIOUS
<1>1. /\ yml \in [Param -> Values] /\ cfg \in Configs /\ cfg = yml
      /\ cfgRow = <<>> /\ settled = yml /\ lost = {} /\ commands = 0
      /\ \A p \in Param : cfg[p] # Masked
  BY ConfigFacts DEF ConfigInit, Values, Configs
<1>2. \A e \in Editor : editor[e] = NoEdit
  BY DEF ConfigInit
<1>3. editor \in [Editor -> Shells]
  BY NoEditIsRight DEF ConfigInit
<1>4. ConfigTypes
  BY <1>1, <1>3, ConfigFacts DEF ConfigTypes, Configs, ConfigInit
<1>5. /\ MemoryIsReal /\ BackupIsRight
      /\ \A e \in Editor : ShellIsRight(editor[e])
  BY <1>1, <1>2, NoEditIsRight DEF MemoryIsReal, BackupIsRight, ConfigInit
<1>6. SecretsAreReal /\ EditsSurvive
  BY <1>1 DEF SecretsAreReal, EditsSurvive, Stored
<1> QED
  BY <1>4, <1>5, <1>6 DEF ConfigInv

(* A step of one shell that leaves the row and the memory alone.          *)
LEMMA ShellStep ==
  ASSUME ConfigInv, NEW e \in Editor, NEW r \in Shells, Set(e, r),
         ShellIsRight(r), r.stage = "stored" => cfgRow # <<>>,
         UNCHANGED <<cfgRow, cfg, backup, configHistory>>,
         yml' \in [Param -> Values], commands' \in 0 .. MaxCommands
  PROVE  ConfigInv'
<1>1. UNCHANGED <<cfgRow, cfg, backup, settled, lost>>
  BY DEF configHistory
<1>2. \A d \in Editor : editor'[d] = IF d = e THEN r ELSE editor[d]
  BY DEF Set, ConfigInv, ConfigTypes
<1>3. Stored' = Stored
  BY <1>1 DEF Stored
<1>4. ConfigTypes'
  BY <1>1 DEF ConfigInv, ConfigTypes, Set
<1>5. MemoryIsReal' /\ BackupIsRight'
  BY <1>1, <1>2, <1>3 DEF ConfigInv, MemoryIsReal, BackupIsRight, Redacted
<1>6. (\A d \in Editor : ShellIsRight(editor[d]))'
  <2>1. \A t : ShellIsRight(t)' <=> ShellIsRight(t)
    BY <1>1, <1>3
       DEF ShellIsRight, UnderWay, HoldsAnswer, AsksFor, HoldsMerged, Redacted,
           Meant
  <2> QED
    BY <1>2, <2>1 DEF ConfigInv
<1>7. SecretsAreReal' /\ EditsSurvive'
  BY <1>1, <1>3 DEF ConfigInv, SecretsAreReal, EditsSurvive
<1> QED
  BY <1>4, <1>5, <1>6, <1>7 DEF ConfigInv

(* What the invariant says of one shell.                                  *)
LEMMA ThisShell ==
  ASSUME ConfigInv, NEW e \in Editor
  PROVE  /\ editor[e] \in Shells /\ ShellIsRight(editor[e])
         /\ UnderWay(editor[e]) /\ Stored \in Configs
         /\ editor[e].stage = "stored" => cfgRow # <<>>
         /\ yml \in [Param -> Values] /\ commands \in 0 .. MaxCommands
         /\ \A p \in Param : Stored[p] = Masked => p \in ClusterSecret \cap lost
BY DEF ConfigInv, ConfigTypes, ShellIsRight, Stored, MemoryIsReal, SecretsAreReal

LEMMA ThisBackup ==
  ASSUME ConfigInv, backup # NoCopy
  PROVE  backup \in [body : Configs, old : BOOLEAN] /\ BackupIsRight
BY DEF ConfigInv, ConfigTypes

(* A command begins.                                                      *)
LEMMA EditBegins ==
  ASSUME ConfigInv, NEW e \in Editor, NEW s \in Edits, Edit(e, s)
  PROVE  ConfigInv'
<1> DEFINE new == [NoEdit EXCEPT !.todo = s, !.stage = "next",
                                 !.value = commands + 2]
<1>1. /\ commands' = commands + 1 /\ commands < MaxCommands /\ Set(e, new)
      /\ UNCHANGED <<yml, cfgRow, cfg, backup, configHistory>>
  BY DEF Edit
<1>2. /\ commands + 2 \in Values /\ commands + 2 # 0
      /\ commands' \in 0 .. MaxCommands
  BY <1>1, ThisShell, ConfigFacts DEF Values
<1>3. s \in Seq(Settable) /\ s # <<>> /\ s \notin Whole
  BY EditsAreSettable, ConfigFacts
<1>4. /\ new \in Shells /\ new.todo = s /\ new.stage = "next"
      /\ new.value = commands + 2
  BY <1>2, <1>3 DEF Shells, NoEdit
<1> HIDE DEF new
<1>5. ShellIsRight(new)
  BY <1>2, <1>3, <1>4
     DEF ShellIsRight, UnderWay, HoldsAnswer, AsksFor, HoldsMerged
<1> QED
  BY <1>1, <1>2, <1>4, <1>5, ThisShell, ShellStep

(* A command reads what is stored, with placeholders.                     *)
LEMMA GetConfigStep ==
  ASSUME ConfigInv, NEW e \in Editor, GetConfig(e)
  PROVE  ConfigInv'
<1> DEFINE r   == editor[e]
           new == [r EXCEPT !.stage = "got", !.body = Redacted(Stored)]
<1>1. /\ r.stage = "next" /\ Set(e, new)
      /\ UNCHANGED <<yml, cfgRow, cfg, backup, commands,
                     configHistory>>
  BY DEF GetConfig
<1>2. /\ r \in Shells /\ r.todo # <<>> /\ r.todo \notin Whole
      /\ r.value # 0
  BY <1>1, ThisShell DEF UnderWay
<1>3. /\ Redacted(Stored) \in Configs
      /\ \A p \in Param : Redacted(Stored)[p] = Masked => p \in Secret
  BY ThisShell, ConfigFacts DEF Redacted, Configs, Secret
<1>4. /\ new \in Shells /\ new.todo = r.todo /\ new.stage = "got"
      /\ new.value = r.value /\ new.body = Redacted(Stored)
  BY <1>2, <1>3 DEF Shells
<1> HIDE DEF new
<1>6. Meant(new) = {Head(r.todo)}
  BY <1>2, <1>4, MeantIs
<1>5. ShellIsRight(new)
  BY <1>2, <1>3, <1>4, <1>6
     DEF ShellIsRight, UnderWay, HoldsAnswer, AsksFor, HoldsMerged, Whole
<1> QED
  BY <1>1, <1>4, <1>5, ThisShell, ShellStep

(* It puts one parameter in.                                              *)
LEMMA ParameterPut ==
  ASSUME ConfigInv, NEW e \in Editor, UpdateConfigParameter(e)
  PROVE  ConfigInv'
<1> DEFINE r   == editor[e]
           p   == Head(r.todo)
           put == IF p \in Dropped THEN r.body
                  ELSE [r.body EXCEPT ![p] = r.value]
           new == [r EXCEPT !.stage = "sent", !.body = put]
<1>1. /\ r.stage = "got" /\ UNCHANGED <<yml, cfgRow, cfg, backup, commands,
                     configHistory>>
      /\ Set(e, new)
  BY DEF UpdateConfigParameter
<1>2. /\ r \in Shells /\ r.todo # <<>> /\ r.todo \notin Whole
      /\ r.value # 0 /\ r.body \in Configs /\ HoldsAnswer(r)
  BY <1>1, ThisShell DEF UnderWay, ShellIsRight
<1>3. p \in Settable /\ p \in Param /\ r.value \in Values
  BY <1>2, ConfigFacts DEF Shells
<1>4. /\ put \in Configs
      /\ p \notin Dropped => put[p] = r.value
      /\ \A q \in Param \ {p} : put[q] = r.body[q]
      /\ put[p] \in {r.body[p], r.value}
  BY <1>2, <1>3 DEF Configs
<1> HIDE DEF put
<1>5. /\ new \in Shells /\ new.todo = r.todo /\ new.stage = "sent"
      /\ new.value = r.value /\ new.body = put /\ new.old = r.old
  BY <1>2, <1>4 DEF Shells
<1> HIDE DEF new
<1>6. UnderWay(new) /\ AsksFor(new) /\ HoldsMerged(new)
  BY <1>2, <1>4, <1>5 DEF UnderWay, AsksFor, HoldsMerged
<1>7. HoldsAnswer(new)
  <2>1. \A q \in Param : put[q] = Masked => q \in Secret
    BY <1>1, <1>2, <1>3, <1>4, ConfigFacts DEF HoldsAnswer
  <2>2. r.old # TRUE =>
          \A q \in Param \ {p} : put[q] = Redacted(Stored)[q]
    BY <1>1, <1>2, <1>4, MeantIs DEF HoldsAnswer
  <2>3. Meant(new) = {p}
    BY <1>2, <1>5, MeantIs
  <2> QED
    BY <1>2, <1>5, <2>1, <2>2, <2>3 DEF HoldsAnswer, Whole
<1>8. ShellIsRight(new)
  BY <1>6, <1>7 DEF ShellIsRight
<1> QED
  BY <1>1, <1>5, <1>8, ThisShell, ShellStep

(* A new configuration is sent as it is.                                  *)
LEMMA ImportStep ==
  ASSUME ConfigInv, NEW e \in Editor, NEW named \in SUBSET Param,
         Import(e, named)
  PROVE  ConfigInv'
<1> DEFINE file == [p \in Param |->
                      IF p \in named \ Dropped THEN commands + 2 ELSE 0]
           new  == [NoEdit EXCEPT !.todo = <<"all">>, !.stage = "sent",
                                  !.body = file]
<1>1. /\ commands' = commands + 1 /\ commands < MaxCommands /\ Set(e, new)
      /\ UNCHANGED <<yml, cfgRow, cfg, backup, configHistory>>
  BY DEF Import
<1>2. commands + 2 \in Values /\ commands' \in 0 .. MaxCommands
  BY <1>1, ThisShell, ConfigFacts DEF Values
<1>3. file \in Configs /\ \A p \in Param : file[p] \in Values
  BY <1>2, ConfigFacts DEF Configs
<1> HIDE DEF file
<1>4. /\ new \in Shells /\ new.todo = EverySetting /\ new.stage = "sent"
      /\ new.body = file
  BY <1>3, ConfigFacts DEF Shells, NoEdit, EverySetting, Whole
<1> HIDE DEF new
<1>5. EverySetting # <<>> /\ EverySetting \in Whole /\ Meant(new) = Param
  BY <1>4, ConfigFacts DEF Whole, Meant
<1>6. ShellIsRight(new)
  BY <1>3, <1>4, <1>5, ConfigFacts
     DEF ShellIsRight, UnderWay, HoldsAnswer, AsksFor, HoldsMerged
<1> QED
  BY <1>1, <1>2, <1>4, <1>6, ThisShell, ShellStep

(* The backup is sent back.                                               *)
LEMMA RollbackStep ==
  ASSUME ConfigInv, NEW e \in Editor, Rollback(e)
  PROVE  ConfigInv'
<1> DEFINE new == [NoEdit EXCEPT !.todo = <<"copy">>, !.stage = "sent",
                                 !.body = backup.body, !.old = backup.old]
<1>1. /\ commands' = commands + 1 /\ commands < MaxCommands /\ Set(e, new)
      /\ backup # NoCopy
      /\ UNCHANGED <<yml, cfgRow, cfg, backup, configHistory>>
  BY DEF Rollback
<1>2. commands' \in 0 .. MaxCommands
  BY <1>1, ThisShell, ConfigFacts
<1>3. /\ backup.body \in Configs /\ backup.old \in BOOLEAN
      /\ BackupIsRight
  BY <1>1, ThisBackup
<1>4. /\ new \in Shells /\ new.todo = CopyBack /\ new.stage = "sent"
      /\ new.body = backup.body /\ new.old = backup.old
  BY <1>3, ConfigFacts DEF Shells, NoEdit, CopyBack, Whole
<1> HIDE DEF new
<1>5. CopyBack # <<>> /\ CopyBack \in Whole /\ CopyBack # EverySetting
  BY ConfigFacts DEF Whole
<1>6. UnderWay(new) /\ AsksFor(new) /\ HoldsMerged(new)
  BY <1>3, <1>4, <1>5 DEF UnderWay, AsksFor, HoldsMerged
<1>7. HoldsAnswer(new)
  BY <1>1, <1>3, <1>4, <1>5 DEF HoldsAnswer, BackupIsRight
<1> QED
  BY <1>1, <1>2, <1>4, <1>6, <1>7, ThisShell, ShellStep DEF ShellIsRight

(* What is stored is kept.                                                *)
LEMMA SaveStep == ASSUME ConfigInv, Save PROVE ConfigInv'
<1>1. /\ UNCHANGED <<yml, cfgRow, cfg, editor, commands, settled, lost>>
      /\ backup' = [body |-> Redacted(Stored), old |-> FALSE]
  BY DEF Save, configHistory
<1>2. Stored' = Stored /\ Stored \in Configs
  BY <1>1 DEF Stored, ConfigInv, ConfigTypes
<1>3. /\ Redacted(Stored) \in Configs
      /\ \A p \in Param : Redacted(Stored)[p] = Masked => p \in Secret
  <2>1. \A p \in Param : Stored[p] = Masked => p \in Secret
    BY DEF ConfigInv, SecretsAreReal, Secret
  <2> QED
    BY <1>2, <2>1, ConfigFacts DEF Redacted, Configs
<1>4. ConfigTypes' /\ BackupIsRight'
  BY <1>1, <1>2, <1>3 DEF ConfigInv, ConfigTypes, BackupIsRight, Redacted
<1>5. \A e \in Editor : ShellIsRight(editor[e])' <=> ShellIsRight(editor[e])
  BY <1>1, <1>2
     DEF ShellIsRight, UnderWay, HoldsAnswer, AsksFor, HoldsMerged, Meant,
         Redacted
<1>6. MemoryIsReal' /\ SecretsAreReal' /\ EditsSurvive'
  BY <1>1, <1>2 DEF ConfigInv, MemoryIsReal, SecretsAreReal, EditsSurvive
<1> QED
  BY <1>1, <1>4, <1>5, <1>6 DEF ConfigInv

(* A new file, an interrupt, a refusal, a failing write.                  *)
LEMMA EndStep ==
  ASSUME ConfigInv, NEW e \in Editor,
         \/ \E answered \in Answered : RunSystem(e, answered)
         \/ \E named \in SUBSET Param : ImportConfigFile(e, named)
         \/ RestoreConfig(e)
         \/ Interrupt(e) \/ ValueRefused(e) \/ SaveFails(e)
  PROVE  ConfigInv'
<1>1. CASE \/ \E answered \in Answered : RunSystem(e, answered)
           \/ \E named \in SUBSET Param : ImportConfigFile(e, named)
           \/ RestoreConfig(e)
  <2>1. PICK content \in {[p \in Param |-> 1]}
                         \cup {Given(named) : named \in Answered \cup SUBSET Param} :
               NewFile(e, content)
    BY <1>1 DEF RunSystem, ImportConfigFile, RestoreConfig
  <2>2. /\ editor' = editor /\ UNCHANGED <<cfgRow, cfg, backup, configHistory>>
        /\ commands < MaxCommands /\ commands' = commands + 1
        /\ yml' = content
    BY <2>1 DEF NewFile
  <2>3. /\ commands + 2 \in Values /\ commands' \in 0 .. MaxCommands
        /\ 0 \in Values /\ 1 \in Values
    BY <2>2, ThisShell, ConfigFacts DEF Values
  <2>4. yml' \in [Param -> Values]
    BY <2>2, <2>3 DEF Given
  <2>5. Set(e, editor[e])
    BY <2>2 DEF Set, ConfigInv, ConfigTypes
  <2> QED
    BY <2>2, <2>3, <2>4, <2>5, ThisShell, ShellStep
<1>2. CASE Interrupt(e)
  BY <1>2, NoEditIsRight, ThisShell, ShellStep DEF Interrupt
<1>3. CASE ValueRefused(e) \/ SaveFails(e)
  <2>1. /\ editor[e].stage # "idle" /\ Set(e, Next1(editor[e]))
        /\ UNCHANGED <<yml, cfgRow, cfg, backup, commands,
                     configHistory>>
    BY <1>3 DEF ValueRefused, SaveFails
  <2> QED
    BY <2>1, NextIsRight, ThisShell, ShellStep
<1> QED
  BY <1>1, <1>2, <1>3

(* What the merge makes of a request and of what is stored.               *)
LEMMA MergedIs ==
  ASSUME NEW body \in Configs, NEW old \in Configs
  PROVE  LET new == WithDefaults(RestoreUnchangedSecrets(body, old))
         IN /\ new \in Configs
            /\ \A p \in Param :
                 LET q == IF /\ p \in Secret
                             /\ p \in ClusterSecret =>
                                  body[p] # 0 /\ old[p] # 0
                             /\ body[p] \in {0, Masked}
                            THEN old[p] ELSE body[p]
                 IN /\ p # "replication.topic_discovery_interval"
                         => new[p] = q
                    /\ q # 0 => new[p] = q
                    /\ new[p] = Masked => q = Masked
<1> DEFINE kept == RestoreUnchangedSecrets(body, old)
<1>1. /\ kept \in Configs
      /\ \A p \in Param :
           kept[p] = IF /\ p \in Secret
                        /\ p \in ClusterSecret => body[p] # 0 /\ old[p] # 0
                        /\ body[p] \in {0, Masked}
                       THEN old[p] ELSE body[p]
  BY DEF RestoreUnchangedSecrets, Configs
<1> HIDE DEF kept
<1>2. /\ WithDefaults(kept) \in Configs
      /\ \A p \in Param :
           WithDefaults(kept)[p] =
             IF p = "replication.topic_discovery_interval" /\ kept[p] = 0
               THEN 1 ELSE kept[p]
  <2>1. 1 \in Values /\ Masked # 1
    BY ConfigFacts DEF Values
  <2> QED
    BY <1>1, <2>1 DEF WithDefaults, Configs
<1>3. Masked # 1
  BY ConfigFacts DEF Values
<1> QED
  BY <1>1, <1>2, <1>3 DEF kept

(* The stored secrets take the place of the placeholders.                 *)
LEMMA MergeStep ==
  ASSUME ConfigInv, NEW e \in Editor, Merge(e)
  PROVE  ConfigInv'
<1> DEFINE r    == editor[e]
           made == WithDefaults(RestoreUnchangedSecrets(r.body, Stored))
           new  == [r EXCEPT !.stage = "merged", !.body = made]
<1>1. /\ r.stage = "sent" /\ UNCHANGED <<yml, cfgRow, cfg, backup, commands,
                     configHistory>>
      /\ Set(e, IF Valid(made) THEN new ELSE Next1(r))
  BY DEF Merge
<1>2. /\ r \in Shells /\ r.todo # <<>> /\ r.body \in Configs
      /\ r.todo \notin Whole => r.value # 0
      /\ UnderWay(r) /\ HoldsAnswer(r) /\ AsksFor(r) /\ Stored \in Configs
  BY <1>1, ThisShell DEF UnderWay, ShellIsRight
<1>3. /\ made \in Configs
      /\ \A p \in Param :
           LET q == IF /\ p \in Secret
                       /\ p \in ClusterSecret =>
                            r.body[p] # 0 /\ Stored[p] # 0
                       /\ r.body[p] \in {0, Masked}
                      THEN Stored[p] ELSE r.body[p]
           IN /\ p # "replication.topic_discovery_interval" => made[p] = q
              /\ q # 0 => made[p] = q
              /\ made[p] = Masked => q = Masked
  BY <1>2, MergedIs
<1> HIDE DEF made
<1>4. /\ new \in Shells /\ new.todo = r.todo /\ new.stage = "merged"
      /\ new.value = r.value /\ new.body = made /\ new.old = r.old
  BY <1>2, <1>3 DEF Shells
<1> HIDE DEF new
<1>5. UnderWay(new) /\ HoldsAnswer(new)
  BY <1>2, <1>3, <1>4 DEF UnderWay, HoldsAnswer
<1>6. AsksFor(new)
  <2> SUFFICES ASSUME r.todo \notin Whole, Head(r.todo) \notin Dropped
               PROVE  made[Head(r.todo)] = r.value
    BY <1>4 DEF AsksFor
  <2>1. /\ Head(r.todo) \in Param /\ r.body[Head(r.todo)] = r.value
        /\ r.value \notin {0, Masked}
    BY <1>1, <1>2, ConfigFacts DEF AsksFor, Shells
  <2> QED
    BY <1>3, <2>1
<1>7. HoldsMerged(new)
  <2>1. /\ Meant(new) = Meant(r)
        /\ r.todo \notin Whole => Meant(r) = {Head(r.todo)} \cap Settable
        /\ r.todo = CopyBack => Meant(r) = {}
    <3>1. r.todo \notin Whole => Head(r.todo) \in Settable
      BY <1>2 DEF Shells
    <3> QED
      BY <1>2, <1>4, <3>1, MeantIs, ConfigFacts DEF Meant
  <2>2. ASSUME NEW p \in Param, made[p] = Masked
        PROVE  p \in ClusterSecret \ Meant(new)
                 /\ (r.old = TRUE \/ p \in lost)
    <3>1. Stored[p] = Masked => p \in ClusterSecret \cap lost
      BY ThisShell
    <3>2. r.body[p] = Masked => p \in Secret /\ r.todo # EverySetting
      BY <1>1, <1>2 DEF HoldsAnswer
    <3>3. p \in ClusterSecret /\ r.body[p] = Masked
      BY <1>3, <2>2, <3>1, <3>2, ConfigFacts
    <3>4. Stored[p] \in {0, Masked}
      BY <1>3, <2>2, <3>3, ConfigFacts DEF Secret
    <3>5. p \notin Meant(new)
      BY <2>1, <3>2, <3>3 DEF Whole, Settable
    <3>6. CASE Stored[p] = Masked
      BY <3>1, <3>3, <3>5, <3>6
    <3>7. CASE Stored[p] = 0
      <4>1. Redacted(Stored)[p] # Masked
        BY <3>7, ConfigFacts DEF Redacted
      <4>2. r.old = TRUE
        BY <1>1, <1>2, <2>1, <3>2, <3>3, <3>5, <4>1 DEF HoldsAnswer
      <4> QED
        BY <3>3, <3>5, <4>2
    <3> QED
      BY <3>4, <3>6, <3>7
  <2>3. ASSUME NEW p \in Param, p \notin Meant(new), p \notin Dropped,
               r.old # TRUE
        PROVE  made[p] = Stored[p]
    <3>1. r.body[p] = Redacted(Stored)[p]
      BY <1>1, <1>2, <2>1, <2>3 DEF HoldsAnswer
    <3>2. r.body[p] = IF p \in Secret /\ Stored[p] # 0 THEN Masked
                      ELSE Stored[p]
      BY <3>1 DEF Redacted
    <3>3. p # "replication.topic_discovery_interval"
      BY <2>3 DEF Dropped
    <3> QED
      BY <1>3, <3>2, <3>3, ConfigFacts
  <2> QED
    BY <1>4, <2>2, <2>3 DEF HoldsMerged
<1>8. ShellIsRight(new)
  BY <1>5, <1>6, <1>7 DEF ShellIsRight
<1>9. /\ Next1(r) \in Shells /\ ShellIsRight(Next1(r))
      /\ Next1(r).stage \in {"idle", "next"}
  BY <1>1, <1>2, NextIsRight
<1>10. CASE Valid(made)
  BY <1>1, <1>4, <1>8, <1>10, ThisShell, ShellStep
<1>11. CASE ~Valid(made)
  BY <1>1, <1>9, <1>11, ThisShell, ShellStep
<1> QED
  BY <1>10, <1>11

(* The row is replaced, and what others have read becomes old.            *)
LEMMA SaveConfigStep ==
  ASSUME ConfigInv, NEW e \in Editor, SaveConfig(e)
  PROVE  ConfigInv'
<1> DEFINE r     == editor[e]
           mine == [r EXCEPT !.stage = "stored"]
           older(d) == [editor[d] EXCEPT !.old =
                          @ \/ editor[d].stage \in
                                 {"got", "sent", "merged", "stored"}]
<1>1. /\ r.stage = "merged" /\ cfgRow' = r.body
      /\ UNCHANGED <<yml, cfg, commands>>
      /\ backup' = [backup EXCEPT !.old = @ \/ backup # NoCopy]
      /\ lost' = (IF r.old THEN Param ELSE lost) \ Meant(r)
      /\ editor' = [d \in Editor |-> IF d = e THEN mine ELSE older(d)]
      /\ settled' = [p \in Param |->
           IF p \in Meant(r)
             THEN IF Head(r.todo) = "all" THEN r.body[p] ELSE r.value
             ELSE IF cfgRow = <<>> THEN r.body[p] ELSE settled[p]]
  BY DEF SaveConfig
<1>2. /\ r \in Shells /\ r.body \in Configs /\ UnderWay(r) /\ AsksFor(r)
      /\ HoldsMerged(r) /\ Stored \in Configs /\ r.todo # <<>>
  BY <1>1, ThisShell DEF UnderWay, ShellIsRight
<1>3. cfgRow' \in Configs /\ cfgRow' # <<>> /\ Stored' = r.body
  BY <1>1, <1>2, ConfigFacts DEF Stored
<1>4. /\ mine \in Shells /\ mine.stage = "stored" /\ mine.todo = r.todo
      /\ mine.value = r.value /\ mine.body = r.body
  BY <1>2 DEF Shells
<1>5. ASSUME NEW d \in Editor
      PROVE  /\ older(d) \in Shells
             /\ editor[d].stage \in {"got", "sent", "merged", "stored"}
                  => older(d).old = TRUE
             /\ older(d).stage = editor[d].stage
             /\ older(d).todo = editor[d].todo
             /\ older(d).value = editor[d].value
             /\ older(d).body = editor[d].body
  <2>1. editor[d] \in Shells
    BY ThisShell
  <2>2. /\ (editor[d].old
              \/ editor[d].stage \in {"got", "sent", "merged", "stored"})
             \in BOOLEAN
        /\ editor[d].stage \in {"got", "sent", "merged", "stored"} =>
             (editor[d].old
                \/ editor[d].stage \in {"got", "sent", "merged", "stored"})
               = TRUE
    BY Zenon
  <2> QED
    BY <2>1, <2>2 DEF Shells
<1>6. /\ editor' \in [Editor -> Shells] /\ editor'[e] = mine
      /\ \A d \in Editor \ {e} : editor'[d] = older(d)
  BY <1>1, <1>4, <1>5
<1> HIDE DEF mine, older
<1>7. settled' \in Configs /\ lost' \in SUBSET Param
  <2>1. \A p \in Param : r.body[p] \in Values \cup {Masked}
    BY <1>2, ConfigFacts
  <2>2. r.value \in Values \cup {Masked}
    BY <1>2 DEF Shells
  <2>3. \A p \in Param : settled[p] \in Values \cup {Masked}
    BY ConfigFacts DEF ConfigInv, ConfigTypes
  <2>4. lost' \in SUBSET Param
    BY <1>1 DEF ConfigInv, ConfigTypes
  <2> QED
    BY <1>1, <2>1, <2>2, <2>3, <2>4 DEF Configs
<1>b. /\ backup = NoCopy => backup' = NoCopy
      /\ backup # NoCopy =>
           /\ backup' \in [body : Configs, old : BOOLEAN]
           /\ backup'.body = backup.body /\ backup'.old = TRUE
  <2>1. CASE backup = NoCopy
    <3>1. (backup.old \/ backup # NoCopy) = FALSE
      BY Zenon, <2>1 DEF NoCopy
    <3>2. backup' = [backup EXCEPT !.old = FALSE]
      BY Zenon, <1>1, <3>1
    <3> QED BY <2>1, <3>2 DEF NoCopy
  <2>2. CASE backup # NoCopy
    <3>1. (backup.old \/ backup # NoCopy) = TRUE
      BY Zenon, <2>2
    <3>2. backup' = [backup EXCEPT !.old = TRUE]
      BY Zenon, <1>1, <3>1
    <3>3. backup \in [body : Configs, old : BOOLEAN]
      BY <2>2, ThisBackup
    <3> QED BY <2>2, <3>2, <3>3
  <2> QED BY <2>1, <2>2
<1>8. ConfigTypes'
  BY <1>1, <1>3, <1>6, <1>7, <1>b DEF ConfigInv, ConfigTypes
<1>9. MemoryIsReal' /\ BackupIsRight'
  <2>1. BackupIsRight
    BY DEF ConfigInv
  <2> QED
    BY <1>3, <1>b, <2>1 DEF MemoryIsReal, BackupIsRight
<1>10. (\A d \in Editor : ShellIsRight(editor[d]))'
  <2>1. ShellIsRight(editor[e])'
    <3>1. /\ editor'[e].stage = "stored" /\ editor'[e].todo = r.todo
          /\ editor'[e].value = r.value /\ editor'[e].body = r.body
      BY <1>4, <1>6
    <3>2. UnderWay(editor[e])'
      BY <1>1, <1>2, <3>1 DEF UnderWay
    <3> QED
      BY <3>1, <3>2 DEF ShellIsRight, HoldsAnswer, AsksFor, HoldsMerged
  <2>2. ASSUME NEW d \in Editor \ {e} PROVE ShellIsRight(editor[d])'
    <3>1. /\ ShellIsRight(editor[d]) /\ editor'[d].stage = editor[d].stage
          /\ editor'[d].todo = editor[d].todo
          /\ editor'[d].value = editor[d].value
          /\ editor'[d].body = editor[d].body
          /\ editor[d].stage \in {"got", "sent", "merged", "stored"} =>
               editor'[d].old = TRUE
      BY <1>5, <1>6, ThisShell
    <3>2. UnderWay(editor[d])' /\ AsksFor(editor[d])'
      BY <3>1 DEF ShellIsRight, UnderWay, AsksFor
    <3>3. HoldsAnswer(editor[d])'
      BY <3>1 DEF ShellIsRight, HoldsAnswer, Meant
    <3>4. HoldsMerged(editor[d])'
      BY <3>1 DEF ShellIsRight, HoldsMerged, Meant
    <3> QED
      BY <3>2, <3>3, <3>4 DEF ShellIsRight
  <2> QED
    BY <2>1, <2>2
<1>11. r.old = TRUE \/ r.old = FALSE
  BY <1>2 DEF Shells
<1>12. SecretsAreReal'
  <2> SUFFICES ASSUME NEW p \in Param, r.body[p] = Masked
               PROVE  p \in ClusterSecret \cap lost'
    BY <1>3 DEF SecretsAreReal
  <2>1. p \in ClusterSecret \ Meant(r) /\ (r.old = TRUE \/ p \in lost)
    BY <1>1, <1>2 DEF HoldsMerged
  <2> QED
    BY <1>1, <1>11, <2>1
<1>13. EditsSurvive'
  <2> SUFFICES ASSUME NEW p \in Param, p \notin Dropped, p \notin lost'
               PROVE  r.body[p] = settled'[p]
    BY <1>1 DEF EditsSurvive
  <2>1. CASE p \in Meant(r)
    <3>1. CASE Head(r.todo) = "all"
      BY <1>1, <2>1, <3>1
    <3>2. CASE Head(r.todo) # "all"
      <4>1. p = Head(r.todo) /\ r.todo \notin Whole
        BY <2>1, <3>2, ConfigFacts DEF Meant, Whole
      <4>2. r.body[p] = r.value
        BY <1>1, <1>2, <4>1 DEF AsksFor
      <4> QED
        BY <1>1, <2>1, <3>2, <4>2
    <3> QED
      BY <3>1, <3>2
  <2>2. CASE p \notin Meant(r)
    <3>1. CASE cfgRow = <<>>
      BY <1>1, <2>2, <3>1
    <3>2. CASE cfgRow # <<>>
      <4>1. r.old # TRUE /\ p \notin lost
        BY <1>1, <1>11, <2>2
      <4>2. r.body[p] = cfgRow[p]
        BY <1>1, <1>2, <2>2, <3>2, <4>1 DEF HoldsMerged, Stored
      <4>3. cfgRow[p] = settled[p]
        BY <3>2, <4>1 DEF ConfigInv, EditsSurvive
      <4> QED
        BY <1>1, <2>2, <3>2, <4>2, <4>3
    <3> QED
      BY <3>1, <3>2
  <2> QED
    BY <2>1, <2>2
<1> QED
  BY <1>8, <1>9, <1>10, <1>12, <1>13 DEF ConfigInv

(* The memory is replaced; what is stored is asked for first, and it is   *)
(* there.                                                                 *)
LEMMA KeepInMemoryStep ==
  ASSUME ConfigInv, NEW e \in Editor, KeepInMemory(e)
  PROVE  ConfigInv'
<1> DEFINE r   == editor[e]
           new == Next1(r)
<1>1. /\ r.stage = "stored" /\ cfg' = r.body /\ Set(e, new)
      /\ UNCHANGED <<yml, cfgRow, backup, commands, settled, lost>>
  BY DEF KeepInMemory, configHistory
<1>2. /\ r \in Shells /\ UnderWay(r) /\ r.body \in Configs /\ cfgRow # <<>>
  BY <1>1, ThisShell DEF UnderWay
<1>3. new \in Shells /\ ShellIsRight(new) /\ new.stage \in {"idle", "next"}
  BY <1>1, <1>2, NextIsRight
<1> HIDE DEF new
<1>4. \A d \in Editor : editor'[d] = IF d = e THEN new ELSE editor[d]
  BY <1>1 DEF Set, ConfigInv, ConfigTypes
<1>5. Stored' = Stored
  BY <1>1, <1>2 DEF Stored
<1>6. ConfigTypes'
  BY <1>1, <1>2, <1>3 DEF ConfigInv, ConfigTypes, Set
<1>7. MemoryIsReal' /\ BackupIsRight'
  BY <1>1, <1>2, <1>5 DEF ConfigInv, MemoryIsReal, BackupIsRight, Redacted
<1>8. (\A d \in Editor : ShellIsRight(editor[d]))'
  <2>1. \A t : ShellIsRight(t)' <=> ShellIsRight(t)
    BY <1>1, <1>5
       DEF ShellIsRight, UnderWay, HoldsAnswer, AsksFor, HoldsMerged, Redacted,
           Meant
  <2> QED
    BY <1>3, <1>4, <2>1 DEF ConfigInv
<1>9. SecretsAreReal' /\ EditsSurvive'
  BY <1>1, <1>5 DEF ConfigInv, SecretsAreReal, EditsSurvive
<1> QED
  BY <1>6, <1>7, <1>8, <1>9 DEF ConfigInv

(* The server starts from its file.  If nothing is stored, what was read  *)
(* from another memory is old.                                            *)
LEMMA RestartStep ==
  ASSUME ConfigInv, ServerRestarts
  PROVE  ConfigInv'
<1> DEFINE read == WithDefaults(yml)
           aged(d) == [editor[d] EXCEPT !.old = @ \/ cfg # read]
<1>1. /\ cfg' = read /\ UNCHANGED <<yml, cfgRow, commands, settled, lost>>
      /\ editor' = [d \in Editor |->
           CASE editor[d].stage \in {"merged", "stored"} -> Next1(editor[d])
             [] editor[d].stage \in {"got", "sent"} /\ cfgRow = <<>> -> aged(d)
             [] OTHER -> editor[d]]
      /\ backup' = [backup EXCEPT !.old =
           @ \/ (backup # NoCopy /\ cfgRow = <<>> /\ cfg # read)]
  BY DEF ServerRestarts, configHistory
<1>2. read \in Configs /\ \A p \in Param : read[p] # Masked
  <2>1. /\ 1 \in Values
        /\ \A p \in Param : yml[p] \in Values
    BY ConfigFacts DEF Values, ConfigInv, ConfigTypes
  <2> QED
    BY <2>1, ConfigFacts DEF WithDefaults, Configs
<1> HIDE DEF read
<1>3. ASSUME NEW d \in Editor
      PROVE  /\ aged(d) \in Shells
             /\ aged(d).old = TRUE \/ (aged(d).old = editor[d].old /\ cfg = read)
             /\ aged(d).stage = editor[d].stage
             /\ aged(d).todo = editor[d].todo
             /\ aged(d).value = editor[d].value
             /\ aged(d).body = editor[d].body
  <2>1. editor[d] \in Shells /\ editor[d].old \in BOOLEAN
    BY ThisShell DEF Shells
  <2>2. /\ (editor[d].old \/ cfg # read) \in BOOLEAN
        /\ (editor[d].old \/ cfg # read) = TRUE
             \/ ((editor[d].old \/ cfg # read) = editor[d].old /\ cfg = read)
    BY <2>1, Zenon
  <2> QED
    BY <2>1, <2>2 DEF Shells
<1>4. ASSUME NEW d \in Editor
      PROVE  /\ editor'[d] \in Shells
             /\ \/ /\ editor[d].stage \in {"merged", "stored"}
                   /\ editor'[d] = Next1(editor[d])
                   /\ ShellIsRight(Next1(editor[d]))
                   /\ editor'[d].stage \in {"idle", "next"}
                \/ /\ editor[d].stage \in {"got", "sent"} /\ cfgRow = <<>>
                   /\ editor'[d] = aged(d)
                \/ /\ editor[d].stage \notin {"merged", "stored"}
                   /\ editor[d].stage \in {"got", "sent"} => cfgRow # <<>>
                   /\ editor'[d] = editor[d]
  <2>1. /\ editor[d] \in Shells /\ UnderWay(editor[d])
    BY ThisShell
  <2>2. CASE editor[d].stage \in {"merged", "stored"}
    <3>1. editor'[d] = Next1(editor[d])
      BY <1>1, <2>2
    <3> QED
      BY <2>1, <2>2, <3>1, NextIsRight
  <2>3. CASE editor[d].stage \in {"got", "sent"} /\ cfgRow = <<>>
    <3>1. editor'[d] = aged(d)
      BY <1>1, <2>3
    <3> QED
      BY <1>3, <2>3, <3>1
  <2>4. CASE /\ editor[d].stage \notin {"merged", "stored"}
             /\ editor[d].stage \in {"got", "sent"} => cfgRow # <<>>
    <3>1. editor'[d] = editor[d]
      BY <1>1, <2>4
    <3> QED
      BY <2>1, <2>4, <3>1
  <2> QED
    BY <2>2, <2>3, <2>4
<1>5. editor' \in [Editor -> Shells]
  <2>1. editor' = [d \in Editor |-> editor'[d]]
    BY <1>1
  <2> QED
    BY <1>4, <2>1
<1> HIDE DEF aged
<1>8. cfgRow # <<>> \/ cfg = read => Stored' = Stored
  BY <1>1 DEF Stored
<1>b. /\ backup = NoCopy => backup' = NoCopy
      /\ backup # NoCopy =>
           /\ backup' \in [body : Configs, old : BOOLEAN]
           /\ backup'.body = backup.body
           /\ backup'.old # TRUE => backup.old # TRUE /\ Stored' = Stored
  <2> DEFINE renewed == backup # NoCopy /\ cfgRow = <<>> /\ cfg # read
             older   == backup.old \/ renewed
  <2>1. backup' = [backup EXCEPT !.old = older]
    BY Zenon, <1>1
  <2>2. CASE backup = NoCopy
    <3>1. older = FALSE
      BY Zenon, <2>2 DEF NoCopy
    <3> HIDE DEF older
    <3> QED BY <2>1, <2>2, <3>1 DEF NoCopy
  <2>3. CASE backup # NoCopy
    <3>1. /\ older \in BOOLEAN
          /\ older # TRUE => backup.old # TRUE /\ (cfgRow # <<>> \/ cfg = read)
      BY Zenon, <2>3
    <3>2. backup \in [body : Configs, old : BOOLEAN]
      BY <2>3, ThisBackup
    <3> HIDE DEF older
    <3> QED BY <1>8, <2>1, <2>3, <3>1, <3>2
  <2> QED BY <2>2, <2>3
<1>6. ConfigTypes'
  BY <1>1, <1>2, <1>5, <1>b DEF ConfigInv, ConfigTypes
<1>7. MemoryIsReal' /\ BackupIsRight'
  <2>1. \A d \in Editor : editor'[d].stage # "stored"
    BY <1>3, <1>4
  <2>2. BackupIsRight
    BY DEF ConfigInv
  <2> QED
    BY <1>1, <1>2, <1>b, <2>1, <2>2 DEF MemoryIsReal, BackupIsRight, Redacted
<1>9. (\A d \in Editor : ShellIsRight(editor[d]))'
  <2> SUFFICES ASSUME NEW d \in Editor PROVE ShellIsRight(editor[d])'
    OBVIOUS
  <2>1. ShellIsRight(editor[d])
    BY ThisShell
  <2>2. CASE editor'[d].stage \in {"idle", "next"}
             /\ ShellIsRight(Next1(editor[d])) /\ editor'[d] = Next1(editor[d])
    BY <2>2 DEF ShellIsRight, UnderWay, HoldsAnswer, AsksFor, HoldsMerged
  <2>3. CASE /\ editor[d].stage \in {"got", "sent"} /\ cfgRow = <<>>
             /\ editor'[d] = aged(d)
    <3>1. /\ editor'[d].stage = editor[d].stage
          /\ editor'[d].todo = editor[d].todo
          /\ editor'[d].value = editor[d].value
          /\ editor'[d].body = editor[d].body
          /\ \/ editor'[d].old = TRUE
             \/ editor'[d].old = editor[d].old /\ Stored' = Stored
      BY <1>3, <1>8, <2>3
    <3>2. UnderWay(editor[d])' /\ AsksFor(editor[d])' /\ HoldsMerged(editor[d])'
      BY <2>1, <2>3, <3>1 DEF ShellIsRight, UnderWay, AsksFor, HoldsMerged
    <3>3. HoldsAnswer(editor[d])'
      BY <2>1, <3>1 DEF ShellIsRight, HoldsAnswer, Redacted, Meant
    <3> QED
      BY <3>2, <3>3 DEF ShellIsRight
  <2>4. CASE /\ editor[d].stage \notin {"merged", "stored"}
             /\ editor[d].stage \in {"got", "sent"} => cfgRow # <<>>
             /\ editor'[d] = editor[d]
    BY <1>8, <2>1, <2>4
       DEF ShellIsRight, UnderWay, HoldsAnswer, AsksFor, HoldsMerged, Redacted,
           Meant
  <2> QED
    BY <1>4, <2>2, <2>3, <2>4
<1>10. SecretsAreReal' /\ EditsSurvive'
  <2>1. SecretsAreReal'
    BY <1>1, <1>2, <1>8 DEF ConfigInv, SecretsAreReal, Stored
  <2>2. EditsSurvive'
    BY <1>1 DEF ConfigInv, EditsSurvive
  <2> QED
    BY <2>1, <2>2
<1> QED
  BY <1>6, <1>7, <1>9, <1>10 DEF ConfigInv

(* The configuration's invariant is inductive.                            *)
THEOREM ConfigInductive == ConfigSpec => []ConfigInv
<1>1. ConfigInv /\ [ConfigNext]_configVars => ConfigInv'
  <2> SUFFICES ASSUME ConfigInv, [ConfigNext]_configVars
               PROVE  ConfigInv'
    OBVIOUS
  <2>1. ASSUME NEW e \in Editor, NEW s \in Edits, Edit(e, s) PROVE ConfigInv'
    BY <2>1, EditBegins
  <2>2. ASSUME NEW e \in Editor, NEW named \in SUBSET Param,
               Import(e, named)
        PROVE  ConfigInv'
    BY <2>2, ImportStep
  <2>8. ASSUME NEW e \in Editor, Rollback(e) PROVE ConfigInv'
    BY <2>8, RollbackStep
  <2>3. ASSUME NEW e \in Editor,
               \/ \E answered \in Answered : RunSystem(e, answered)
               \/ \E named \in SUBSET Param : ImportConfigFile(e, named)
               \/ RestoreConfig(e)
               \/ Interrupt(e) \/ ValueRefused(e) \/ SaveFails(e)
        PROVE  ConfigInv'
    BY <2>3, EndStep
  <2>4. ASSUME NEW e \in Editor,
               GetConfig(e) \/ UpdateConfigParameter(e) \/ Merge(e)
        PROVE  ConfigInv'
    BY <2>4, GetConfigStep, ParameterPut, MergeStep
  <2>5. ASSUME NEW e \in Editor, SaveConfig(e) \/ KeepInMemory(e)
        PROVE  ConfigInv'
    BY <2>5, SaveConfigStep, KeepInMemoryStep
  <2>6. CASE Save \/ ServerRestarts
    BY <2>6, SaveStep, RestartStep
  <2>7. CASE UNCHANGED configVars
    <3>1. /\ UNCHANGED <<yml, cfgRow, cfg, editor, backup, commands, settled, lost>>
          /\ Stored' = Stored
      BY <2>7 DEF configVars, configHistory, Stored
    <3>2. \A e \in Editor : ShellIsRight(editor[e])' <=> ShellIsRight(editor[e])
      BY <3>1
         DEF ShellIsRight, UnderWay, HoldsAnswer, AsksFor, HoldsMerged, Meant,
             Redacted
    <3>3. /\ ConfigTypes' /\ MemoryIsReal' /\ BackupIsRight'
          /\ SecretsAreReal' /\ EditsSurvive'
      BY <3>1
         DEF ConfigInv, ConfigTypes, MemoryIsReal, BackupIsRight,
             SecretsAreReal, EditsSurvive, Redacted
    <3> QED
      BY <3>1, <3>2, <3>3 DEF ConfigInv
  <2> QED
    BY <2>1, <2>2, <2>3, <2>4, <2>5, <2>6, <2>7, <2>8 DEF ConfigNext
<1> QED
  BY <1>1, ConfigStart, PTL DEF ConfigSpec

(* Whatever commands read, change and put back at the same time, whatever *)
(* is imported and rolled back, and wherever the server or a command      *)
(* dies, the placeholder that an answer shows for a secret is stored in   *)
(* its place only for a cluster that was gone when the copy of an older   *)
(* answer came back (config/secrets.go:51-86).                            *)
THEOREM NoPlaceholderStored == ConfigSpec => []SecretsAreReal
<1>1. ConfigInv => SecretsAreReal
  BY DEF ConfigInv
<1> QED
  BY <1>1, ConfigInductive, PTL

(* What a command has set is what is stored until another command sets    *)
(* it, or a command that had read the configuration before writes what it *)
(* read, or it never arrived for its name (handleUpdateConfig).           *)
THEOREM OnlyOldCommandsUndo == ConfigSpec => []EditsSurvive
<1>1. ConfigInv => EditsSurvive
  BY DEF ConfigInv
<1> QED
  BY <1>1, ConfigInductive, PTL
=============================================================================
