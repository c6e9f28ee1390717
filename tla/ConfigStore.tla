---------------------------- MODULE ConfigStore ----------------------------
(***************************************************************************)
(* The configuration: the file the program starts with, the row           *)
(* "full_config" of the database, the copy in memory that the handlers of *)
(* /config replace, and the commands of mirror-cli that change it.        *)
(*                                                                         *)
(* The row holds the whole configuration, and so does every request: a    *)
(* command reads all of it, changes one parameter in what it read and     *)
(* puts all of it back.  The answers it reads carry the field names of    *)
(* the Go structures (only "security" has names for JSON), and the        *)
(* commands name parameters as the YAML file does.  A JSON decoder takes  *)
(* a name for a field whatever its case, but not with an underscore more; *)
(* what it does not know it drops.                                        *)
(*                                                                         *)
(* A configuration may also be sent as a whole, by an import: a new one,  *)
(* or the copy of the stored one that "config save" has kept, in which    *)
(* the secrets are placeholders.                                          *)
(*                                                                         *)
(* The value of a parameter is 0 where it is empty, 1 where the file has  *)
(* set it, and the number of the command that has set it otherwise.       *)
(***************************************************************************)
EXTENDS Naturals, Sequences, FiniteSetsExt, SequencesExt

CONSTANTS
  Editor,      \* shells in which an admin runs mirror-cli
  Param,       \* the parameters looked at
  Masked,      \* what a secret is replaced with in an answer
  MaxCommands, \* bound: commands
  MaxFaults    \* bound: failing writes, dying commands, restarts

ASSUME ConfigAssumption ==
  /\ MaxCommands \in Nat /\ MaxFaults \in Nat
  /\ Param # {} /\ Masked \notin 0 .. MaxCommands + 1
  /\ {"all", "copy"} \cap Param = {}

ClusterSecret == {"clusters.source", "clusters.target"}
Secret  ==
  ClusterSecret
    \cup {"ai.token", "ai.api_secret", "monitoring.splunk.hec_token"}

(* Parameters with an underscore in the name a command gives them.        *)
Dropped == {"server.tls.cert_file", "server.tls.key_file",
            "server.cors.allowed_origins", "replication.batch_size",
            "replication.topic_discovery_interval", "ai.api_secret",
            "compliance.schedule.run_hour", "monitoring.splunk.hec_endpoint",
            "monitoring.splunk.hec_token", "monitoring.prometheus.push_gateway"}

VARIABLES
  yml,      \* configs/default.yml: parameter -> value
  cfgRow,       \* the stored configuration, or <<>>
  cfg,       \* the configuration in memory
  editor,    \* what each shell does: the parameters still to set, ...
  backup,    \* the copy "config save" keeps; its old is history
  commands,  \* commands so far
  faults,    \* failures so far
  settled,   \* history: parameter -> the value its last command gave it
  lost       \* history: parameters put back to what was read before a change

configHistory == <<settled, lost>>
configVars ==
  <<yml, cfgRow, cfg, editor, backup, commands, faults, configHistory>>

Values  == 0 .. MaxCommands + 1
Configs == [Param -> Values \cup {Masked}]
NoEdit    == [todo |-> <<>>, stage |-> "idle", value |-> 0, body |-> <<>>,
            old |-> FALSE]
NoCopy    == [body |-> <<>>, old |-> FALSE]

ConfigTypeOK ==
  /\ yml \in [Param -> Values] /\ cfg \in Configs
  /\ cfgRow = <<>> \/ cfgRow \in Configs
  /\ \A e \in Editor :
       /\ editor[e].stage \in
            {"idle", "next", "got", "sent", "merged", "stored"}
       /\ editor[e].body = <<>> \/ editor[e].body \in Configs
       /\ \A i \in DOMAIN editor[e].todo :
            editor[e].todo[i] \in Param \cup {"all", "copy"}
  /\ backup = NoCopy \/ backup \in [body : Configs, old : BOOLEAN]
  /\ commands \in 0 .. MaxCommands /\ faults \in 0 .. MaxFaults
  /\ settled \in Configs /\ lost \in SUBSET Param

(* LoadConfig reads the file; viper knows the parameters by these names.  *)
ConfigInit ==
  /\ yml = [p \in Param |-> 1] /\ cfg = yml /\ cfgRow = <<>>
  /\ editor = [e \in Editor |-> NoEdit] /\ backup = NoCopy
  /\ commands = 0 /\ faults = 0
  /\ settled = yml /\ lost = {}

(* A GET that asks the memory first.                                      *)
StoredLater == cfg

(* What the database says, or what the memory says if it says nothing.    *)
Stored == IF cfgRow = <<>> THEN cfg ELSE cfgRow

(* A secret in an answer.                                                 *)
Redacted(c) ==
  [p \in Param |-> IF p \in Secret /\ c[p] # 0 THEN Masked ELSE c[p]]

(* The credentials of clusters are forgotten.                              *)
RestoreNothingOld(new, old) ==
  [p \in Param |-> IF p \in Secret \ ClusterSecret /\ new[p] \in {0, Masked}
                     THEN old[p] ELSE new[p]]

(* A placeholder, or nothing, stands for the secret there was; a cluster  *)
(* that was not there keeps what the request says.                        *)
RestoreUnchangedSecrets(new, old) ==
  [p \in Param |->
     IF /\ p \in Secret
        /\ IF p \in ClusterSecret THEN new[p] # 0 /\ old[p] # 0 ELSE TRUE
        /\ new[p] \in {0, Masked}
       THEN old[p] ELSE new[p]]

(* What LoadConfig and Validate put where nothing is.                     *)
WithDefaults(c) ==
  [p \in Param |-> IF p = "replication.topic_discovery_interval" /\ c[p] = 0
                     THEN 1 ELSE c[p]]

(* Validate asks for a port and for one cluster.                          *)
Valid(c) ==
  /\ "server.port" \in Param => c["server.port"] # 0
  /\ ClusterSecret \cap Param # {} =>
       \E p \in ClusterSecret \cap Param : c[p] # 0

-----------------------------------------------------------------------------
(* The commands: which parameters each sets, in order, one request pair   *)
(* for each.                                                              *)

ServerEdits ==
  {<<"server.host">>, <<"server.port">>, <<"server.mode">>,
   <<"server.tls.cert_file", "server.tls.key_file", "server.tls.enabled">>,
   <<"server.tls.enabled">>, <<"server.cors.allowed_origins">>}

ReplicationEdits ==
  {<<"replication.batch_size">>, <<"replication.parallelism">>,
   <<"replication.compression">>, <<"replication.topic_discovery_interval">>}

MonitoringEdits == {<<"monitoring.enabled">>, <<"monitoring.platform">>}

Schedule == {"compliance.schedule.enabled", "compliance.schedule.run_hour",
             "compliance.schedule.daily", "compliance.schedule.weekly",
             "compliance.schedule.monthly"}

ComplianceEdits == {<<p>> : p \in Schedule}

(* A provider's settings: the token, the model, the endpoint.             *)
ConfigureProvider == <<"ai.provider", "ai.token", "ai.model", "ai.endpoint">>

(* The own provider: the endpoint first, the secret where there is one.   *)
ConfigureCustomAI ==
  {<<"ai.provider", "ai.endpoint", "ai.token">> \o s \o <<"ai.model">> :
     s \in {<<>>, <<"ai.api_secret">>}}

ProviderEdits == {ConfigureProvider, <<"ai.model">>} \cup ConfigureCustomAI

(* These name the fields as the answer does.                              *)
FeatureEdits ==
  {<<"AI.Features.AnomalyDetection", "AI.Features.PerformanceOptimization",
     "AI.Features.IncidentAnalysis">>}

(* All of them, once the provider has answered; the token it is asked     *)
(* with is the placeholder.                                               *)
TestAndEnable == FeatureEdits

SelfHealingEdits ==
  {<<"AI.SelfHealing.AutomatedRemediation",
     "AI.SelfHealing.DynamicThrottling">>}

(* The menus of "manage".                                                 *)
ManageServer ==
  {<<"server.host">>, <<"server.port">>, <<"server.mode">>,
   <<"server.tls.enabled", "server.tls.cert_file", "server.tls.key_file">>,
   <<"server.tls.enabled">>, <<"server.cors.allowed_origins">>}

(* The platform's own settings cannot be reached: the menu looks for the  *)
(* platform under a name the answer does not have.                        *)
ManageMonitoring == {<<"monitoring.enabled">>, <<"monitoring.platform">>}

ManageAI == {ConfigureProvider, <<"ai.endpoint">>, <<"ai.token">>,
             <<"ai.model">>} \cup ConfigureCustomAI

(* tls import-cert.                                                       *)
ImportCert ==
  {<<"server.tls.enabled", "server.tls.cert_file", "server.tls.key_file">>}

(* The parameters of a command that are looked at, in their order; no     *)
(* command sets more than five.                                           *)
Only(s, i) == IF i \in DOMAIN s /\ s[i] \in Param THEN <<s[i]>> ELSE <<>>
LookedAt(s) ==
  Only(s, 1) \o Only(s, 2) \o Only(s, 3) \o Only(s, 4) \o Only(s, 5)

Edits ==
  LET all == UNION {ServerEdits, ReplicationEdits, MonitoringEdits,
                    ComplianceEdits, ProviderEdits, FeatureEdits,
                    TestAndEnable, SelfHealingEdits, ManageServer,
                    ManageMonitoring, ManageAI, ImportCert}
  IN {LookedAt(s) : s \in all} \ {<<>>}

-----------------------------------------------------------------------------
(* config system: what each of its sections may put into a configuration  *)
(* that begins empty.  Three ask by names that are not fields of the      *)
(* structure they fill, and look at no error: all is set or nothing is.   *)

Asked(ps) == {{}, ps}

ConfigureServer ==
  Asked({"server.host", "server.port", "server.mode", "server.tls.enabled",
         "server.tls.cert_file", "server.tls.key_file",
         "server.cors.allowed_origins"})

ConfigureReplication ==
  Asked({"replication.batch_size", "replication.parallelism",
         "replication.compression", "replication.topic_discovery_interval"})

ConfigureAI == Asked({"ai.provider", "ai.endpoint", "ai.token", "ai.model"})

ConfigureClusters == SUBSET ClusterSecret

ConfigureMonitoring ==
  {{}} \cup
  {{"monitoring.enabled", "monitoring.platform"} \cup platform :
     platform \in {{"monitoring.splunk.hec_endpoint",
                    "monitoring.splunk.hec_token", "monitoring.splunk.index"},
                   {"monitoring.loki.endpoint"},
                   {"monitoring.prometheus.push_gateway"}}}

ConfigureCompliance ==
  {{}} \cup {{"compliance.schedule.enabled"} \cup ps : ps \in SUBSET Schedule}

Sections == {ConfigureServer, ConfigureClusters, ConfigureReplication,
             ConfigureMonitoring, ConfigureCompliance, ConfigureAI}

(* The parameters the file may have in the end, of those looked at.       *)
Answered ==
  LET seen(section) == {ps \cap Param : ps \in section}
      join(section, sets) == {a \cup b : a \in seen(section), b \in sets}
  IN FoldSet(join, {{}}, Sections)

-----------------------------------------------------------------------------
(* A shell.                                                               *)

Set(e, r) == editor' = [editor EXCEPT ![e] = r]

(* The next parameter of the command, or its end.                         *)
Next1(r) ==
  LET rest == Tail(r.todo)
  IN IF rest = <<>> THEN NoEdit
     ELSE [NoEdit EXCEPT !.todo = rest, !.stage = "next", !.value = r.value]

Edit(e, s) ==
  /\ editor[e] = NoEdit /\ commands < MaxCommands
  /\ commands' = commands + 1
  /\ Set(e, [NoEdit EXCEPT
                !.todo = s, !.stage = "next", !.value = commands + 2])
  /\ UNCHANGED <<yml, cfgRow, cfg, backup, faults, configHistory>>

(* The configuration is read whole ...                                    *)
GetConfig(e) ==
  /\ editor[e].stage = "next"
  /\ Set(e, [editor[e] EXCEPT !.stage = "got", !.body = Redacted(Stored)])
  /\ UNCHANGED <<yml, cfgRow, cfg, backup, commands, faults, configHistory>>

(* ... one parameter of it is set, and the request is sent.               *)
UpdateConfigParameter(e) ==
  LET p == Head(editor[e].todo)
  IN /\ editor[e].stage = "got"
     /\ Set(e, [editor[e] EXCEPT !.stage = "sent",
                  !.body = IF p \in Dropped THEN @
                           ELSE [@ EXCEPT ![p] = editor[e].value]])
     /\ UNCHANGED <<yml, cfgRow, cfg, backup, commands, faults,
                    configHistory>>

(* config save keeps what is stored, as the answer shows it.  The file it *)
(* was given is not sent: its sections are maps with keys of any type     *)
(* after yaml.Unmarshal, and json.Marshal refuses those.                  *)
Save ==
  /\ backup' = [body |-> Redacted(Stored), old |-> FALSE]
  /\ UNCHANGED <<yml, cfgRow, cfg, editor, commands, faults, configHistory>>

(* An import sends a whole configuration; what it names with an           *)
(* underscore arrives as nothing.                                         *)
Import(e, named) ==
  /\ editor[e] = NoEdit /\ commands < MaxCommands
  /\ commands' = commands + 1
  /\ Set(e, [NoEdit EXCEPT !.todo = <<"all">>, !.stage = "sent",
       !.body = [p \in Param |->
                   IF p \in named \ Dropped THEN commands + 2 ELSE 0]])
  /\ UNCHANGED <<yml, cfgRow, cfg, backup, faults, configHistory>>

(* The user is told to roll back with the copy.  config save would refuse *)
(* it like any file; another client can put or import it, placeholders and*)
(* all.                                                                   *)
Rollback(e) ==
  /\ editor[e] = NoEdit /\ commands < MaxCommands /\ backup # NoCopy
  /\ commands' = commands + 1
  /\ Set(e, [NoEdit EXCEPT !.todo = <<"copy">>, !.stage = "sent",
                           !.body = backup.body, !.old = backup.old])
  /\ UNCHANGED <<yml, cfgRow, cfg, backup, faults, configHistory>>

(* Three commands put another file in the place of the server's, for its  *)
(* next start.                                                            *)
NewFile(e, content) ==
  /\ editor[e] = NoEdit /\ commands < MaxCommands
  /\ commands' = commands + 1
  /\ yml' = content
  /\ UNCHANGED <<cfgRow, cfg, editor, backup, faults, configHistory>>

Given(named) == [p \in Param |-> IF p \in named THEN commands + 2 ELSE 0]

(* config system writes it anew, in the directory the command runs in,    *)
(* here the server's.                                                     *)
RunSystem(e, answered) == NewFile(e, Given(answered))

(* admin-cli restore config copies a backup, here of the first file, and  *)
(* admin-cli import config the file of another installation; neither asks *)
(* whether the server runs, or changes what the database has stored.      *)
RestoreConfig(e)           == NewFile(e, [p \in Param |-> 1])
ImportConfigFile(e, named) == NewFile(e, Given(named))

(* The command is interrupted.                                            *)
Interrupt(e) ==
  /\ editor[e].stage \in {"next", "got"} /\ faults < MaxFaults
  /\ faults' = faults + 1 /\ Set(e, NoEdit)
  /\ UNCHANGED <<yml, cfgRow, cfg, backup, commands, configHistory>>

-----------------------------------------------------------------------------
(* handleUpdateConfig and handleImportConfig.                             *)

(* The stored secrets are put where the request has placeholders, and     *)
(* Validate is asked.                                                     *)
Merge(e) ==
  LET new == WithDefaults(RestoreUnchangedSecrets(editor[e].body, Stored))
  IN /\ editor[e].stage = "sent"
     /\ Set(e, IF Valid(new)
                 THEN [editor[e] EXCEPT !.stage = "merged", !.body = new]
                 ELSE Next1(editor[e]))
     /\ UNCHANGED <<yml, cfgRow, cfg, backup, commands, faults,
                    configHistory>>

(* Validate refuses a value: an hour, an interval, a host that is not on  *)
(* the list of the egress, a schedule without a period.                   *)
ValueRefused(e) ==
  /\ editor[e].stage = "sent"
  /\ Set(e, Next1(editor[e]))
  /\ UNCHANGED <<yml, cfgRow, cfg, backup, commands, faults, configHistory>>

(* History: the parameters a request is meant to give values of its own.  *)
Meant(r) == {p \in Param : Head(r.todo) \in {"all", p}}

(* SaveConfig replaces the row; what others have read by now is old.      *)
SaveConfig(e) ==
  LET r == editor[e]
      value(p) == IF Head(r.todo) = "all" THEN r.body[p] ELSE r.value
  IN /\ r.stage = "merged"
     /\ cfgRow' = r.body
     /\ editor' = [d \in Editor |->
          IF d = e THEN [r EXCEPT !.stage = "stored"]
          ELSE [editor[d] EXCEPT !.old = @ \/ editor[d].stage \in
                                   {"got", "sent", "merged", "stored"}]]
     /\ backup' = [backup EXCEPT !.old = @ \/ backup # NoCopy]
     /\ settled' = [p \in Param |-> IF p \in Meant(r) THEN value(p)
                                     ELSE IF cfgRow = <<>> THEN r.body[p]
                                     ELSE settled[p]]
     /\ lost' = (IF r.old THEN Param ELSE lost) \ Meant(r)
     /\ UNCHANGED <<yml, cfg, commands, faults>>

(* The write fails; the command reports it and sets the next parameter.   *)
SaveFails(e) ==
  /\ editor[e].stage = "merged" /\ faults < MaxFaults
  /\ faults' = faults + 1
  /\ Set(e, Next1(editor[e]))
  /\ UNCHANGED <<yml, cfgRow, cfg, backup, commands, configHistory>>

(* The memory is replaced, and success is answered.                       *)
KeepInMemory(e) ==
  /\ editor[e].stage = "stored"
  /\ cfg' = editor[e].body
  /\ Set(e, Next1(editor[e]))
  /\ UNCHANGED <<yml, cfgRow, backup, commands, faults, configHistory>>

(* The program starts again, from its file; requests are gone.  Where     *)
(* nothing is stored, what others have read is old if the file is new.    *)
ServerRestarts ==
  /\ faults < MaxFaults /\ faults' = faults + 1
  /\ cfg' = WithDefaults(yml)
  /\ editor' = [e \in Editor |->
       CASE editor[e].stage \in {"merged", "stored"} -> Next1(editor[e])
         [] editor[e].stage \in {"got", "sent"} /\ cfgRow = <<>> ->
              [editor[e] EXCEPT !.old = @ \/ cfg # WithDefaults(yml)]
         [] OTHER -> editor[e]]
  /\ backup' = [backup EXCEPT !.old =
       @ \/ (backup # NoCopy /\ cfgRow = <<>> /\ cfg # WithDefaults(yml))]
  /\ UNCHANGED <<yml, cfgRow, commands, configHistory>>

ConfigNext ==
  \/ \E e \in Editor :
       \/ \E s \in Edits : Edit(e, s)
       \/ \E named \in SUBSET Param :
            Import(e, named) \/ ImportConfigFile(e, named)
       \/ Rollback(e) \/ RestoreConfig(e)
       \/ \E answered \in Answered : RunSystem(e, answered)
       \/ GetConfig(e) \/ UpdateConfigParameter(e) \/ Interrupt(e)
       \/ Merge(e) \/ ValueRefused(e)
       \/ SaveConfig(e) \/ SaveFails(e) \/ KeepInMemory(e)
  \/ Save \/ ServerRestarts

ConfigSpec == ConfigInit /\ [][ConfigNext]_configVars

-----------------------------------------------------------------------------
(* The placeholder is stored as a secret only for a cluster that is gone  *)
(* by the time a copy comes back which an answer made with it: the copy   *)
(* of a command that was under way, or the backup (config/secrets.go:     *)
(* 51-86).                                                                *)
SecretsAreReal ==
  \A p \in Param : Stored[p] = Masked => p \in ClusterSecret \cap lost

(* What a command set stays set until another command sets it: it is lost *)
(* to a command that had read the configuration before, and never set at  *)
(* all where its name has an underscore.                                  *)
EditsSurvive ==
  cfgRow # <<>> =>
    \A p \in Param : cfgRow[p] = settled[p] \/ p \in lost \cup Dropped
=============================================================================
