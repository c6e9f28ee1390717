---------------------------- MODULE Credentials ----------------------------
(***************************************************************************)
(* The secrets in the row of a cluster: "clusters edit" of mirror-cli and *)
(* the handler it calls, in several shells at once, while the cluster may *)
(* be purged and added anew under its name.                               *)
(*                                                                         *)
(* The command reads the cluster, asks, tests the connection, and sends   *)
(* what it was told: a secret that was left empty as the placeholder, the *)
(* secrets of other providers not at all.  The handler puts what the row  *)
(* holds in the place of both, in one statement, and writes the row, in   *)
(* another.  A secret is the number of the command that gave it, and 0    *)
(* where there is none; brokers, cluster id and role go as they are sent. *)
(***************************************************************************)
EXTENDS Naturals

CONSTANTS
  Editing,       \* shells in which an admin runs mirror-cli
  NoCluster,     \* the row when there is none
  Placeholder,   \* what a secret is replaced with: "***"
  MaxEditions    \* bound: commands that edit or add the cluster

ASSUME CredentialsAssumption ==
  MaxEditions \in Nat /\ Placeholder \notin 0 .. MaxEditions

Provider == {"confluent", "azure", "plain"}
Part     == {"api_key", "api_secret", "connection_string"}

(* The secrets a provider asks for (redpanda is "plain" here).            *)
Needs(provider) ==
  CASE provider = "confluent" -> {"api_key", "api_secret"}
    [] provider = "azure"     -> {"connection_string"}
    [] provider = "plain"     -> {}

VARIABLES
  clusterRow,   \* the row: provider and secrets, or NoCluster
  session,      \* each shell's command and how far it is
  editions,     \* commands so far
  given,        \* history: the secrets given last
  reverted,     \* history: secrets written back as they were before a change
  mistaken      \* history: an edit of a cluster now purged was written

givenHistory == <<given, reverted, mistaken>>
credentialVars == <<clusterRow, session, editions, givenHistory>>

Secrets   == [Part -> 0 .. MaxEditions \cup {Placeholder}]
NoSecrets == [p \in Part |-> 0]

(* typed: the secrets the user has entered; old: the row was written since *)
(* the handler read it; former: the cluster was added since "edit" read it. *)
NoSession ==
  [stage |-> "none", provider |-> "plain", number |-> 0, typed |-> {},
   body |-> NoSecrets, old |-> FALSE, former |-> FALSE]

CredentialsTypeOK ==
  /\ clusterRow = NoCluster
       \/ clusterRow \in [provider : Provider, secrets : Secrets]
  /\ session \in [Editing ->
       [stage : {"none", "asking", "testing", "sending", "read"},
        provider : Provider, number : 0 .. MaxEditions, typed : SUBSET Part,
        body : Secrets, old : BOOLEAN, former : BOOLEAN]]
  /\ editions \in 0 .. MaxEditions
  /\ given \in Secrets /\ reverted \in SUBSET Part /\ mistaken \in BOOLEAN

CredentialsInit ==
  /\ clusterRow = NoCluster
  /\ session = [c \in Editing |-> NoSession]
  /\ editions = 0
  /\ given = NoSecrets /\ reverted = {} /\ mistaken = FALSE

Stage(c) == session[c].stage
Becomes(c, r) == session' = [session EXCEPT ![c] = r]

-----------------------------------------------------------------------------
(* clusters add, with every secret the provider asks for.                 *)
AddCluster(provider) ==
  LET new == [p \in Part |-> IF p \in Needs(provider) THEN editions + 1 ELSE 0]
  IN /\ clusterRow = NoCluster /\ editions < MaxEditions
     /\ editions' = editions + 1
     /\ clusterRow' = [provider |-> provider, secrets |-> new]
     /\ session' = [c \in Editing |->
          IF Stage(c) = "none" THEN NoSession
          ELSE [session[c] EXCEPT !.former = TRUE, !.old = TRUE]]
     /\ given' = new /\ reverted' = {} /\ mistaken' = FALSE

(* The cluster is removed, archived and purged.                           *)
PurgeCluster ==
  /\ clusterRow # NoCluster
  /\ clusterRow' = NoCluster
  /\ UNCHANGED <<session, editions, givenHistory>>

-----------------------------------------------------------------------------
(* clusters edit.                                                         *)

FetchCluster(c) ==
  /\ Stage(c) = "none" /\ clusterRow # NoCluster /\ editions < MaxEditions
  /\ editions' = editions + 1
  /\ Becomes(c, [NoSession EXCEPT !.stage = "asking",
       !.provider = clusterRow.provider, !.number = editions + 1])
  /\ UNCHANGED <<clusterRow, givenHistory>>

(* What the request carries when these secrets were entered.              *)
Sent(c, typed) ==
  [p \in Part |-> CASE p \in typed                      -> session[c].number
                    [] p \in Needs(session[c].provider) \ typed -> Placeholder
                    [] OTHER                            -> 0]

(* A connection is tested only with all the secrets it takes.             *)
AskSecrets(c) ==
  /\ Stage(c) = "asking"
  /\ \E typed \in SUBSET Needs(session[c].provider) :
       Becomes(c, [session[c] EXCEPT
         !.typed = typed, !.body = Sent(c, typed),
         !.stage = IF typed = Needs(session[c].provider)
                     THEN "testing" ELSE "sending"])
  /\ UNCHANGED <<clusterRow, editions, givenHistory>>

TestConnection(c) ==
  /\ Stage(c) = "testing"
  /\ Becomes(c, [session[c] EXCEPT !.stage = "sending"])
  /\ UNCHANGED <<clusterRow, editions, givenHistory>>

(* A prompt is cancelled, or the test fails.                              *)
NotUpdated(c) ==
  /\ Stage(c) \in {"asking", "testing", "sending"}
  /\ Becomes(c, NoSession)
  /\ UNCHANGED <<clusterRow, editions, givenHistory>>

-----------------------------------------------------------------------------
(* handleUpdateCluster.                                                   *)

(* Placeholders are not recognized, only what is left out.                *)
RestoreOmitted(new, old) ==
  [p \in Part |-> IF new[p] = 0 THEN old[p] ELSE new[p]]

(* KafkaCluster.RestoreUnchangedSecrets.                                  *)
RestoreSecrets(new, old) ==
  [p \in Part |-> IF new[p] \in {0, Placeholder} THEN old[p] ELSE new[p]]

ReadExisting(c) ==
  /\ Stage(c) = "sending"
  /\ Becomes(c,
       IF clusterRow = NoCluster THEN NoSession
       ELSE [session[c] EXCEPT !.stage = "read", !.old = FALSE,
               !.body = RestoreSecrets(@, clusterRow.secrets)])
  /\ UNCHANGED <<clusterRow, editions, givenHistory>>

(* database.UpdateCluster writes every column; without a row it succeeds  *)
(* all the same.                                                          *)
UpdateCluster(c) ==
  LET s == session[c]
  IN /\ Stage(c) = "read"
     /\ clusterRow' = IF clusterRow = NoCluster THEN NoCluster
                      ELSE [provider |-> s.provider, secrets |-> s.body]
     /\ session' = [d \in Editing |->
          IF d = c THEN NoSession
          ELSE [session[d] EXCEPT !.old = @ \/ Stage(d) = "read"]]
     /\ given' = [p \in Part |-> IF p \in s.typed THEN s.number ELSE given[p]]
     /\ reverted' = (IF s.old THEN Part ELSE reverted) \ s.typed
     /\ mistaken' = (mistaken \/ s.former)
     /\ UNCHANGED editions

(* Another cluster has the id, or the database fails.                     *)
UpdateRefused(c) ==
  /\ Stage(c) = "read"
  /\ Becomes(c, NoSession)
  /\ UNCHANGED <<clusterRow, editions, givenHistory>>

CredentialsNext ==
  \/ \E provider \in Provider : AddCluster(provider)
  \/ PurgeCluster
  \/ \E c \in Editing :
       \/ FetchCluster(c) \/ AskSecrets(c) \/ TestConnection(c)
       \/ NotUpdated(c) \/ ReadExisting(c) \/ UpdateCluster(c)
       \/ UpdateRefused(c)

CredentialsSpec == CredentialsInit /\ [][CredentialsNext]_credentialVars

-----------------------------------------------------------------------------
(* A secret that an edit leaves empty is the one the row held when the    *)
(* request came in, however long the editor was open: the row holds the   *)
(* secrets that were given last, unless two requests overlapped, and all  *)
(* its provider asks for, unless the edit was of an earlier cluster of    *)
(* the name (handlers.go:248-269, clusters.go:48-64).                     *)
SecretsOfLastEdit ==
  clusterRow # NoCluster =>
    /\ \A p \in Part : clusterRow.secrets[p] = given[p] \/ p \in reverted
    /\ ~mistaken =>
         \A p \in Needs(clusterRow.provider) : clusterRow.secrets[p] # 0
=============================================================================
