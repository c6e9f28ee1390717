----------------------------- MODULE MCServices -----------------------------
(***************************************************************************)
(* The services around the mirrors, checked in one run.  They share no     *)
(* variable, so each is explored by itself: the initial state picks one,   *)
(* its steps are the steps of the run, and the others keep their first     *)
(* state.  The states are the sum of theirs, not the product.              *)
(***************************************************************************)
EXTENDS Accounts, AutoHalt, Compliance, ConfigStore, Credentials,
        DatabaseFile, MetricsStore, MirrorProgress, MirrorVerify,
        PayloadWatch, Registry, SelfHealing, TLC

CONSTANT Alike  \* the shells, workers, goroutines and jobs of every service

VARIABLE service

Services == {"accounts", "halt", "reports", "config", "secrets", "database",
             "metrics", "progress", "verify", "payload", "registry", "healing"}

(* What a service may begin with is varied only when it is the one.        *)
Varied(s, first) == service = s \/ first

ServicesInit ==
  /\ service \in Services
  /\ AccountsInit /\ AutoHaltInit /\ ComplianceInit /\ ConfigInit
  /\ CredentialsInit
  /\ DatabaseInit /\ MetricsInit /\ MirrorInit /\ VerifyInit /\ PayloadInit
  /\ RegistryInit /\ SelfHealingInit
  /\ Varied("halt", enabled)
  /\ Varied("reports", file = [periods |-> Period, hour |-> 0])
  /\ Varied("database", schema = {})
  /\ Varied("progress", zone = 0)
  /\ Varied("verify", sourceThere)
  /\ Varied("payload", watching)
  /\ Varied("healing", \A b \in Sizes : rowBatch <= b)

(* A step of the service that was picked, by its own next-state relation.  *)
ServicesNext ==
  /\ UNCHANGED service
  /\ IF service = "accounts" THEN AccountsNext    ELSE UNCHANGED accountVars
  /\ IF service = "halt"     THEN AutoHaltNext    ELSE UNCHANGED haltVars
  /\ IF service = "reports"  THEN ComplianceNext  ELSE UNCHANGED complianceVars
  /\ IF service = "config"   THEN ConfigNext      ELSE UNCHANGED configVars
  /\ IF service = "secrets"  THEN CredentialsNext ELSE UNCHANGED credentialVars
  /\ IF service = "database" THEN DatabaseNext    ELSE UNCHANGED databaseVars
  /\ IF service = "metrics"  THEN MetricsNext     ELSE UNCHANGED metricsVars
  /\ IF service = "progress" THEN MirrorNext      ELSE UNCHANGED mirrorVars
  /\ IF service = "verify"   THEN VerifyNext      ELSE UNCHANGED verifyVars
  /\ IF service = "payload"  THEN PayloadNext     ELSE UNCHANGED payloadVars
  /\ IF service = "registry" THEN RegistryNext    ELSE UNCHANGED registryVars
  /\ IF service = "healing"  THEN SelfHealingNext ELSE UNCHANGED selfHealingVars

servicesVars ==
  <<service, accountVars, haltVars, complianceVars, configVars,
    credentialVars, databaseVars, metricsVars, mirrorVars, verifyVars,
    payloadVars, registryVars, selfHealingVars>>

ServicesSpec == ServicesInit /\ [][ServicesNext]_servicesVars

(* The variables of the service that runs keep their types; those of the   *)
(* others do not change.                                                   *)
ServicesTypeOK ==
  /\ service = "accounts" => AccountsTypeOK
  /\ service = "halt"     => AutoHaltTypeOK
  /\ service = "reports"  => ComplianceTypeOK
  /\ service = "config"   => ConfigTypeOK
  /\ service = "secrets"  => CredentialsTypeOK
  /\ service = "database" => DatabaseTypeOK
  /\ service = "metrics"  => MetricsTypeOK
  /\ service = "progress" => MirrorTypeOK
  /\ service = "verify"   => VerifyTypeOK
  /\ service = "payload"  => PayloadTypeOK
  /\ service = "registry" => RegistryTypeOK
  /\ service = "healing"  => SelfHealingTypeOK

(* The state of the service that runs, by which TLC tells states apart:    *)
(* the others do not change.  Left out is what no other step and no        *)
(* invariant of the run reads: that a gap was stored, that an analysis has *)
(* left an insight, and when an adjustment last came through.              *)
ServiceView ==
  <<service, CASE service = "accounts" -> accountVars
               [] service = "halt"     -> haltVars
               [] service = "reports"  -> complianceVars
               [] service = "config"   -> configVars
               [] service = "secrets"  -> credentialVars
               [] service = "database" -> databaseVars
               [] service = "metrics"  -> metricsVars
               [] service = "progress" -> <<jobRow, clock, zone, worker, progress,
                                          points, workVars>>
               [] service = "verify"   -> verifyVars
               [] service = "payload"  -> payloadVars
               [] service = "registry" -> registryVars
               [] service = "healing"  -> <<metric, jobVars, healVars, adjustedAt,
                                          asked, ticks, edits, stopped,
                                          atLimit>>>>

(* Accounts is the one service with a distinguished user; no other tells   *)
(* members of these sets apart.                                            *)
Symmetry == Permutations(Alike)
=============================================================================
