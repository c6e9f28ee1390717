---------------------------- MODULE DatabaseFile ----------------------------
(***************************************************************************)
(* The SQLite file: its upgrade when a process opens it, and the bootstrap *)
(* of the first user.                                                      *)
(*                                                                         *)
(* kaf-mirror and every command of admin-cli begin with InitDB, which runs *)
(* the schema and then the migrations; nothing keeps two of them apart.    *)
(* Each statement commits by itself, so that a process that dies leaves a  *)
(* migration half done, and the next start goes by what its probes find.   *)
(* What the schema and the migrations provide is a set of features: a      *)
(* table, a column, a permission.  The tables of mirror states and of the  *)
(* progress history are not told apart: the schema makes them before the   *)
(* migrations that would (4 and 9) look for them.  The roles a migration   *)
(* gives a new permission to are left out.  Of the daemon's requests only  *)
(* the one that gives a user another role is here.                         *)
(***************************************************************************)
EXTENDS Naturals, Sequences, FiniteSets

CONSTANTS
  Daemon, Tool,  \* the kaf-mirror process; an admin-cli command
  MaxDeaths,     \* bound: processes that die before their work is done
  MaxOpens       \* bound: processes that are started

ASSUME DatabaseAssumption == MaxDeaths \in Nat /\ MaxOpens \in Nat

Process == {Daemon, Tool}

VARIABLES
  schema,      \* features there are
  seeded,      \* there are roles
  oldMetrics,  \* replication_metrics: "none", "empty" or "full"
  moved,       \* what rows it had are in aggregated_metrics
  account,     \* users: "none", "roleless", "operator" or "admin"
  step,        \* of each process: the statement it is at, 0 when down
  found,       \* what the last probe of each process found
  deaths, opens, \* so far
  cutShort,    \* history: a user was left without a role
  demoted,     \* history: an administrator was given another role
  blind        \* history: processes that have passed over the migrations

fileVars == <<schema, seeded, oldMetrics, moved, account>>
countVars == <<deaths, opens, cutShort, demoted, blind>>
databaseVars == <<fileVars, step, found, countVars>>

AIColumns == {"response_time", "accuracy", "feedback", "resolved"}
Columns   == {"failed_reason", "consumed", "bytes_consumed", "role",
              "cluster_id", "connection_string"}
Permissions == {"inventory:view", "inventory:create", "mirror_state:view",
                "mirror_state:others", "events:view"}
Features  == {"tables", "kinds", "aggregated", "protection_row"}
               \cup AIColumns \cup Columns \cup Permissions

(* What each release added, in the order of the migrations.               *)
Releases == <<
  {"tables"}, {"kinds"}, AIColumns, {"inventory:view", "inventory:create"},
  {"mirror_state:view", "mirror_state:others"}, {"failed_reason"},
  {"aggregated"}, {"cluster_id", "connection_string"}, {"events:view"},
  {"consumed", "bytes_consumed"}, {"role", "protection_row"}>>

(* A statement; it is passed over when the probe before has found unless. *)
Do(does, fs, unless) == [does |-> does, what |-> fs, unless |-> unless]
Probe(fs)            == Do("probe", fs, "nothing")

AddAIMetricsColumns ==
  << Probe({"response_time"}),
     Do("alter", {"response_time"}, "response_time"),
     Do("alter", {"accuracy"}, "response_time"),
     Do("alter", {"feedback"}, "response_time"),
     Do("alter", {"resolved"}, "response_time") >>

AddInventoryPermissions ==
  << Probe({"inventory:view"}),
     Do("insert", {"inventory:view"}, "inventory:view"),
     Do("insert", {"inventory:create"}, "inventory:view") >>

(* Migrations 4 and 9 look for tables that the schema has made by then.   *)
AddMirrorStateTables ==
  << Probe({"tables"}), Do("create", {"tables"}, "tables") >>

AddMirrorProgressHistoryTable == AddMirrorStateTables

AddMirrorStatePermissions ==
  << Probe({"mirror_state:view"}),
     Do("insert", {"mirror_state:view"}, "mirror_state:view"),
     Do("insert", {"mirror_state:others"}, "mirror_state:view") >>

AddFailedReasonToJobs ==
  << Probe({"failed_reason"}),
     Do("alter", {"failed_reason"}, "failed_reason") >>

(* The swap of its last two statements.                                   *)
DropThenMove ==
  << Probe({"aggregated"}),
     Do("create", {"aggregated", "consumed", "bytes_consumed"}, "aggregated"),
     Do("drop", {}, "aggregated"),
     Do("move", {}, "aggregated") >>

AddAggregatedMetricsTable ==
  << Probe({"aggregated"}),
     Do("create", {"aggregated", "consumed", "bytes_consumed"}, "aggregated"),
     Do("move", {}, "aggregated"),
     Do("drop", {}, "aggregated") >>

(* One look for both columns.                                             *)
EnsureFirstColumn ==
  << Probe({"consumed"}),
     Do("alter", {"consumed"}, "consumed"),
     Do("alter", {"bytes_consumed"}, "consumed") >>

EnsureColumns ==
  << Probe({"consumed", "bytes_consumed"}),
     Do("alter", {"consumed"}, "consumed"),
     Do("alter", {"bytes_consumed"}, "bytes_consumed") >>

EnsureProtectionSchema ==
  << Probe({"role"}), Do("alter", {"role"}, "role"),
     Do("create", {"protection_row"}, "nothing") >>

AddClusterIdentifierFields ==
  << Probe({"cluster_id"}), Do("alter", {"cluster_id"}, "cluster_id"),
     Probe({"connection_string"}),
     Do("alter", {"connection_string"}, "connection_string") >>

AddEventsViewPermission ==
  << Probe({"events:view"}),
     Do("insert", {"events:view"}, "events:view") >>

(* InitDB: the schema, then RunMigrations in its order.                   *)
Upgrade ==
  << Do("schema", {}, "nothing"),
     Probe({"kinds"}), Do("rebuild", {}, "kinds") >>
    \o AddAIMetricsColumns \o AddInventoryPermissions
    \o AddMirrorStateTables \o AddMirrorStatePermissions
    \o AddFailedReasonToJobs \o AddAggregatedMetricsTable
    \o EnsureColumns \o EnsureProtectionSchema
    \o AddClusterIdentifierFields \o AddMirrorProgressHistoryTable
    \o AddEventsViewPermission

(* Then the bootstrap: are there users, seed, create one, give it a role. *)
Opened    == Len(Upgrade) + 1
Seeding   == Opened + 1
Creating  == Opened + 2
Assigning == Opened + 3
Ready     == Opened + 4

Standing == {"none", "roleless", "operator", "admin"}

DatabaseTypeOK ==
  /\ schema \in SUBSET Features
  /\ seeded \in BOOLEAN /\ moved \in BOOLEAN /\ cutShort \in BOOLEAN
  /\ oldMetrics \in {"none", "empty", "full"}
  /\ demoted \in BOOLEAN /\ blind \in SUBSET Process
  /\ account \in [{"bootstrap", "other"} -> Standing]
  /\ step \in [Process -> 0 .. Ready]
  /\ found \in [Process -> SUBSET Features]
  /\ deaths \in 0 .. MaxDeaths /\ opens \in 0 .. MaxOpens

(* No file, or one that an earlier release has left, with its users; they *)
(* may have had no administrator any more.                                *)
DatabaseInit ==
  /\ \E r \in 0 .. Len(Releases) :
       /\ schema = UNION {Releases[i] : i \in 1 .. r}
       /\ seeded = (r > 0)
       /\ \E other \in IF r > 0 THEN {"admin", "operator"} ELSE {"none"} :
            /\ account = [bootstrap |-> "none", other |-> other]
            /\ demoted = (other = "operator")
       /\ oldMetrics = (IF r \in 1 .. 6 THEN "full" ELSE "none")
       /\ moved = (r \notin 1 .. 6)
  /\ step = [p \in Process |-> 0] /\ found = [p \in Process |-> {}]
  /\ cutShort = FALSE /\ blind = {} /\ deaths = 0 /\ opens = 0

NoUsers == \A u \in DOMAIN account : account[u] = "none"

JumpsTo(p, n)   == step' = [step EXCEPT ![p] = n]
Continues(p) == JumpsTo(p, step[p] + 1)

(* The statement that process p is at is run.                             *)
Statement(p) == Upgrade[step[p]]
Runs(p, kinds) ==
  /\ step[p] \in 1 .. Len(Upgrade) /\ Statement(p).does \in kinds
  /\ Statement(p).unless \notin found[p]

-----------------------------------------------------------------------------
(* InitDB.                                                                *)

OpenFile(p) ==
  /\ step[p] = 0 /\ opens < MaxOpens
  /\ opens' = opens + 1 /\ JumpsTo(p, 1)
  /\ found' = [found EXCEPT ![p] = {}]
  /\ blind' = blind \ {p}
  /\ UNCHANGED <<fileVars, deaths, cutShort, demoted>>

PassOver(p) ==
  /\ step[p] \in 1 .. Len(Upgrade) /\ Statement(p).unless \in found[p]
  /\ Continues(p)
  /\ UNCHANGED <<fileVars, found, countVars>>

LooksFor(p) ==
  /\ Runs(p, {"probe"})
  /\ found' = [found EXCEPT ![p] = Statement(p).what \cap schema]
  /\ Continues(p)
  /\ UNCHANGED <<fileVars, countVars>>

(* An error of the very first probe is taken for a missing table: the     *)
(* file is open, and no migration was run.                                *)
FirstProbe == 2
FirstProbeFails(p) ==
  /\ step[p] = FirstProbe
  /\ JumpsTo(p, Opened) /\ blind' = blind \cup {p}
  /\ UNCHANGED <<fileVars, found, deaths, opens, cutShort, demoted>>

(* CREATE TABLE IF NOT EXISTS for every table; those that are there keep  *)
(* their columns, and replication_metrics comes back empty.               *)
RunSchema(p) ==
  /\ Runs(p, {"schema"})
  /\ schema' = schema \cup
       IF "tables" \in schema THEN {}
       ELSE {"tables", "kinds", "role", "cluster_id", "connection_string"}
              \cup AIColumns
  /\ oldMetrics' = IF oldMetrics = "none" THEN "empty" ELSE oldMetrics
  /\ Continues(p)
  /\ UNCHANGED <<seeded, moved, account, found, countVars>>

(* Migration 1, a transaction: the new ai_insights has the kinds of the   *)
(* release that added it, and none of the columns added since.            *)
Rebuild(p) ==
  /\ Runs(p, {"rebuild"})
  /\ schema' = (schema \ AIColumns) \cup {"kinds"}
  /\ Continues(p)
  /\ UNCHANGED <<seeded, oldMetrics, moved, account, found, countVars>>

(* A table, a column or a permission.                                     *)
AddFeatures(p) ==
  /\ Runs(p, {"create", "alter", "insert"})
  /\ Runs(p, {"create"}) \/ Statement(p).what \cap schema = {}
  /\ schema' = schema \cup Statement(p).what
  /\ Continues(p)
  /\ UNCHANGED <<seeded, oldMetrics, moved, account, found, countVars>>

(* INSERT ... SELECT: there is no such table, or the primary key refuses  *)
(* a second copy of the rows.                                             *)
MoveRefused == \/ oldMetrics = "none"
               \/ oldMetrics = "full" /\ moved

MoveMetrics(p) ==
  /\ Runs(p, {"move"}) /\ ~MoveRefused
  /\ moved' = TRUE
  /\ Continues(p)
  /\ UNCHANGED <<schema, seeded, oldMetrics, account, found, countVars>>

DropMetrics(p) ==
  /\ Runs(p, {"drop"}) /\ oldMetrics # "none"
  /\ oldMetrics' = "none"
  /\ Continues(p)
  /\ UNCHANGED <<schema, seeded, moved, account, found, countVars>>

(* A statement fails, upon what another process has done since the probe  *)
(* or a dead one has left: log.Fatalf.                                    *)
UpgradeFails(p) ==
  /\ \/ Runs(p, {"alter", "insert"}) /\ Statement(p).what \cap schema # {}
     \/ Runs(p, {"move"}) /\ MoveRefused
     \/ Runs(p, {"drop"}) /\ oldMetrics = "none"
  /\ JumpsTo(p, 0)
  /\ UNCHANGED <<fileVars, found, countVars>>

-----------------------------------------------------------------------------
(* The bootstrap.                                                         *)

(* A count of the users that goes straight to creating one.               *)
CountUnseeded(p) ==
  /\ p = Daemon /\ step[p] = Opened
  /\ JumpsTo(p, IF NoUsers THEN Creating ELSE Ready)
  /\ UNCHANGED <<fileVars, found, countVars>>

(* The daemon seeds only a database without users; repair always seeds,   *)
(* and then counts.                                                       *)
CountUsers(p) ==
  /\ p = Daemon /\ step[p] = Opened
  /\ JumpsTo(p, IF NoUsers THEN Seeding ELSE Ready)
  /\ UNCHANGED <<fileVars, found, countVars>>

Repair(p) ==
  /\ p = Tool /\ step[p] = Opened
  /\ JumpsTo(p, Seeding)
  /\ UNCHANGED <<fileVars, found, countVars>>

(* SeedDefaultRolesAndPermissions, a transaction.  It does not know of    *)
(* the permissions of mirror states.                                      *)
Seed(p) ==
  /\ step[p] = Seeding
  /\ seeded' = TRUE
  /\ schema' = schema \cup {"inventory:view", "inventory:create", "events:view"}
  /\ JumpsTo(p, IF p = Tool /\ ~NoUsers THEN Ready ELSE Creating)
  /\ UNCHANGED <<oldMetrics, moved, account, found, countVars>>

(* The name is unique: the second to create the user dies.                *)
CreateFirst(p) ==
  /\ step[p] = Creating
  /\ IF account.bootstrap = "none"
     THEN /\ account' = [account EXCEPT !.bootstrap = "roleless"]
          /\ JumpsTo(p, Assigning)
     ELSE JumpsTo(p, 0) /\ UNCHANGED account
  /\ UNCHANGED <<schema, seeded, oldMetrics, moved, found, countVars>>

AssignFirst(p) ==
  /\ step[p] = Assigning
  /\ IF seeded
     THEN account' = [account EXCEPT !.bootstrap = "admin"] /\ JumpsTo(p, Ready)
     ELSE JumpsTo(p, 0) /\ UNCHANGED account
  /\ UNCHANGED <<schema, seeded, oldMetrics, moved, found, countVars>>

(* writeSecretTempFile fails, between the user and its role: log.Fatalf.  *)
PasswordFileFails(p) ==
  /\ step[p] = Assigning
  /\ JumpsTo(p, 0) /\ cutShort' = TRUE
  /\ UNCHANGED <<fileVars, found, deaths, opens, demoted, blind>>

(* users add of admin-cli: a user without a role.                         *)
AddByHand(p, u) ==
  /\ p = Tool /\ step[p] = Opened /\ account[u] = "none"
  /\ account' = [account EXCEPT ![u] = "roleless"] /\ cutShort' = TRUE
  /\ JumpsTo(p, Ready)
  /\ UNCHANGED <<schema, seeded, oldMetrics, moved, found, deaths, opens,
                 demoted, blind>>

(* Another command has been run, or the daemon is told to stop.           *)
CloseFile(p) ==
  /\ step[p] \in (IF p = Tool THEN {Opened, Ready} ELSE {Ready})
  /\ JumpsTo(p, 0)
  /\ UNCHANGED <<fileVars, found, countVars>>

(* handleUpdateUserRole and AssignRoleToUser: the new role takes the place *)
(* of the old one, the last administrator's too.                          *)
UpdateUserRole(u, r) ==
  /\ step[Daemon] = Ready /\ seeded /\ account[u] # "none"
  /\ \E caller \in DOMAIN account : account[caller] = "admin"
  /\ account' = [account EXCEPT ![u] = r]
  /\ demoted' = (demoted \/ (account[u] = "admin" /\ r # "admin"))
  /\ UNCHANGED <<schema, seeded, oldMetrics, moved, step, found, deaths,
                 opens, cutShort, blind>>

(* Killed while it upgrades the file or makes the first user, or ended by  *)
(* an error of a statement or of any other probe.                         *)
Dies(p) ==
  /\ step[p] \in 1 .. Assigning /\ deaths < MaxDeaths
  /\ deaths' = deaths + 1 /\ JumpsTo(p, 0)
  /\ cutShort' = (cutShort \/ step[p] = Assigning)
  /\ UNCHANGED <<fileVars, found, opens, demoted, blind>>

DatabaseNext ==
  \/ \E p \in Process :
       \/ OpenFile(p) \/ PassOver(p) \/ LooksFor(p) \/ FirstProbeFails(p)
       \/ RunSchema(p) \/ Rebuild(p) \/ AddFeatures(p) \/ MoveMetrics(p)
       \/ DropMetrics(p) \/ UpgradeFails(p) \/ CountUsers(p) \/ Repair(p)
       \/ Seed(p) \/ CreateFirst(p) \/ AssignFirst(p) \/ PasswordFileFails(p)
       \/ CloseFile(p) \/ Dies(p)
       \/ \E u \in DOMAIN account : AddByHand(p, u)
  \/ \E u \in DOMAIN account, r \in {"operator", "admin"} :
       UpdateUserRole(u, r)

DatabaseSpec == DatabaseInit /\ [][DatabaseNext]_databaseVars

-----------------------------------------------------------------------------
(* A process that has the file open finds every column that is looked for *)
(* by its own name, whatever died half way through a migration before and *)
(* whoever else is upgrading (database.go:269-295, 405-455) - unless its  *)
(* own first probe met an error, which RunMigrations takes for a table    *)
(* that is not there (85-89).  The four columns of migration 2 are not    *)
(* among them: one probe stands for all.                                  *)
OpenIsUpgraded ==
  \A p \in Process \ blind :
    step[p] >= Opened =>
      Columns \cup {"kinds", "aggregated", "protection_row"} \subseteq schema

(* What was counted before migration 7 is in the old table or in the new: *)
(* no death and no second process between its statements drops rows that  *)
(* were not copied (database.go:331-390).                                 *)
OldMetricsKept == oldMetrics = "full" \/ moved

(* A daemon that serves has an administrator, whichever process made the  *)
(* first user, unless one ended between the user and its role, a user was *)
(* added by hand, or an administrator was given another role: a start or  *)
(* a repair that finds any user makes no other (kaf-mirror main.go:72-121, *)
(* admin-cli main.go:276-325, handlers.go:1515-1537).                     *)
DaemonHasAdmin ==
  step[Daemon] = Ready =>
    \/ \E u \in DOMAIN account : account[u] = "admin"
    \/ step[Tool] = Assigning \/ cutShort \/ demoted
=============================================================================
