# A verification project for kaf-mirror

kaf-mirror copies Kafka topics from a source to a target cluster. One Go
process runs an HTTP API, a job manager, one *mirror* (`KafMirrorImpl`) per
running replication job, and a SQLite database with the jobs' rows.

This directory holds TLA+ models of the parts of it whose correctness depends on
order, overlap, failure and restart, TLC runs on small instances, and proofs
checked by TLAPS. `PROJECT.json` maps definitions to source lines and lists the
runs, the mutants each property must catch, the hazards and the theorems.

## 1. Inventory

| component | state | operations | talks to |
|---|---|---|---|
| replication loop (`internal/kafka/consumer.go`, `producer.go`, `kaf-mirror.go`) | the fetched batch and client positions (franz-go), the last offsets, high water marks and counters, the topic map, `cancelFunc`, a WaitGroup | `Start`, `Stop`, `Consume`, `handleRecord`, `ProduceSync`, `CommitRecords`, `collectMetrics`, `discoverTopicsLoop` | brokers; `ProcessMetrics` and `handleJobPanic` by callback |
| job manager (`internal/manager/manager.go`) | `KafMirrors` under `Mu`, shutdown channel, background schedulers | start, stop, pause, restart, force restart, all-jobs operations, halt, throttle, panic, reconcile, protection poll | database, mirrors, protection |
| replication halt (`internal/protection`) | row `protection_state`, halt file, halt variable, sample windows | enable, disable, halt, resume, `GuardStart`, `Observe`, `Ingest` | job manager, record hook |
| metrics store (`internal/database/metrics.go`, `pruning.go`) | rows of deltas | insert, latest, history, prune | metrics callback |
| topic mapping and discovery (`kaf-mirror.go`) | `topicMap`, `targetPartitions`, regex list, subscription | resolve, validate and sync, discover | admin clients, `handleRecord` |
| throttling and remediation (`manager.go`) | batch size and parallelism of a row, insights | analyse, decide, apply, force a restart | job manager, AI client |
| registry (`clusters.go`, `jobs.go`, handlers) | rows of clusters, with a soft delete; rows and mappings of jobs | create, update, delete, restore, archive, purge, restart | each other, job manager |
| credentials (`clusters.go`, handlers, `mirror-cli`) | the secrets in a cluster's row | edit, redact, restore | shells |
| mirror state (`mirror_progress.go`, `admin.go`, `verify.go`) | progress, gaps, resume points | periodic update, calculate, verify | both clusters |
| accounts (`users.go`, `rbac.go`, `api_tokens.go`, middleware, `admin-cli`) | users, roles, tokens, token files | create, delete, set role, reset, log in | every request |
| configuration (`internal/config`, handlers, `mirror-cli`) | file, stored row, copy in memory | get, put, restart | shells |
| database file (`database.go`, `main.go`, `admin-cli`) | schema, seed, first user | open, migrate, repair | daemon and tools |
| compliance reports (`manager.go`, `compliance.go`) | schedule, last report, table of reports | look, generate, ask, delete | configuration, accounts |
| websocket hub (`hub.go`) | the set of connections, three unbuffered channels | register, unregister, broadcast | handlers |
| shutdown (`main.go`, `JobManager.Close`) | `closing`, `dbOpsClosed`, WaitGroups | close, begin a database operation | schedulers |
| inventory, egress, logging, sinks, dashboard, pages | rows and text | reads and inserts | – |

How they interact: a request handler calls the manager; the manager creates a
mirror through a factory, starts it and puts it into `KafMirrors`; the mirror's
goroutines call back into the manager (`ProcessMetrics`, `handleJobPanic`, the
record hook); a halt comes from a request, from one of those callbacks or from a
two-second poll; every one of them reads a whole row of `replication_jobs` and
writes a whole row back.

What is hard here, and what makes each component correct:

- *Replication loop.* Records fail, offsets are committed record by record, two
  instances of a job share one consumer group whenever a stop overlaps a start,
  and partitions move in the middle of a batch. Correct: no committed offset
  passes a record nobody dealt with, copies keep the source order, duplicates
  have a cause, and everything is dealt with in the end.
- *Job manager.* A dozen operations on the same job overlap; some hold `Mu` while
  they wait for a mirror and some do not; panics come from goroutines that are
  waited for. Correct: no mirror is lost or stopped twice, a halt is final,
  requests finish, the rows tell the truth, also after a crash.
- *Halt.* Check-then-act on the flag, an edge-triggered poll, a window shared by
  all jobs. Correct: a halted system starts nothing; only a real storm halts it.
- *Metrics.* Counters restart at 0 with each mirror, deltas are taken against a
  sum that pruning lowers. Correct: totals count each record once.
- *Discovery.* Maps are read by the loop and written by the discovery. Correct: a
  subscribed topic has a target, two sources never share one.
- *Registry, accounts, credentials, configuration.* Check-then-act over several
  statements, none in a transaction with another, and whole objects that are read,
  edited in a shell and written back minutes later. Correct: what one command did
  is undone by no other that has not been told to, and what must not be lost
  (a secret, an administrator) is not.
- *Throttling, reports, mirror state, verification.* Background goroutines that
  decide on what they read before others changed it. Correct: a user's stop is
  final, numbers stay in range, rows are of one calculation, "safe" means safe.
- *Database file.* Statements that commit one by one, by processes that may die
  between them or run beside each other. Correct: an opened file is complete.

`PROJECT.json` lists the hazards one by one, at the line where they bite.

## 2. Modules

| module | what it is |
|---|---|
| `MirrorContract` | abstract specification: what one job promises about its partitions |
| `ReplicationLoop` | the consume – produce – commit loop, with overlapping instances of a job |
| `MCReplicationLoop` | its instance for TLC |
| `ReplicationLoop_proofs` | the theorems about it |
| `ManagerContract` | abstract specification: which mirror a job has in service, and how a mirror ends |
| `JobManager` | the lifecycle of jobs: `KafMirrors`, `Mu`, the rows, halts, panics |
| `MCJobManager` | its instance for TLC |
| `JobManager_proofs` | the theorems about it |
| `TopicDiscovery` | which topics a mirror copies, and where to: mapping, validation, discovery |
| `MCTopicDiscovery` | its instance for TLC |
| `TopicDiscovery_proofs` | the theorems about it |
| `Accounts` | users, roles, passwords, tokens; the handlers, `mirror-cli`, `admin-cli` |
| `AutoHalt` | the switch of protection and the automatic halts of `Observe` |
| `PayloadWatch` | what `Ingest` keeps of records, and when it sees a storm |
| `Compliance` | the scheduler of reports, and reports on request |
| `ConfigStore` | the configuration in file, row and memory, and the shells that edit it |
| `Credentials` | the secrets of a cluster through edits |
| `DatabaseFile` | schema, migrations, seed and first user, statement by statement |
| `MetricsStore` | counters, samples, deltas, totals and pruning |
| `MirrorProgress` | progress rows, resume points and gaps |
| `MirrorVerify` | the check whether a migration is safe |
| `Registry` | rows of clusters and jobs, and the requests that change them |
| `SelfHealing` | throttling and the AI's remediation beside a user |
| `MCServices` | the last twelve, composed for TLC |
| `Administration_proofs` | the theorems about `Accounts` and `Compliance` |
| `Measures_proofs` | the theorems about `MetricsStore`, `MirrorProgress`, `MirrorVerify` |
| `Guards_proofs` | the theorems about `AutoHalt`, `PayloadWatch`, `SelfHealing` |
| `Records_proofs` | the theorems about `ConfigStore`, `Credentials`, `DatabaseFile`, `Registry` |
| `Services_proofs` | the theorems about all twelve, as `MCServices` composes them |

The loop, the manager and the discovery are the core, and each has runs of its
own. Around the core are twelve *services*. They share no variable with one
another, so `MCServices` composes them as a sum: the initial state picks one, the
steps of the run are its steps, and the rest stays as it is. Each is checked just
as it would be in a run of its own. What a service needs of another is a step of
its environment, listed with it below.

### ReplicationLoop

The brokers appear as what the loop sees of them: `logEnd` and `copies` (the two
clusters' logs), `committed` and `owner` (the job's consumer group). An instance
is one `KafMirrorImpl`: `life` is where Start and Stop have brought it, `phase`,
`cur`, `next` and `upto` are the position of `Consume` in its batch, `fetchPos`
is the client's position. `phase` runs "idle" → "produce" (in `ProduceSync`) →
"written" (the target has it, the answer is on its way) → "commit" (the handler
returned nil) → "idle".

| action | code |
|---|---|
| `Start`, `Cancel`, `Close` | `NewKafMirror` and `Start`; the two halves of `Stop`, before and after its `wg.Wait` |
| `Poll`, `HandleRecord`, `ProduceAck`, `ProduceFail`, `CommitOk`, `CommitFail` | the statements of `Consume` and `handleRecord` between two answers of a broker |
| `Panic` | `onPanic` of any goroutine of the mirror: the context is cancelled, Stop never gets past `wg.Wait`, the instance stays in the group ("wedged") |
| `Crash` | the process dies |
| `Arrive`, `Assign`, `Move`, `TargetWrite`, `TargetRetry` | the environment: a producer, the group coordinator, the target broker. `Assign` and `Move` set the position to the committed offset and do *not* take a fetched batch back, as the client's callbacks only log |

Left out: keys, values, headers and partition numbers of copies (passed through),
counters and logging, retention on the source (an offset below the log start
would be reset by the client), and the change of a topic map at run time. A topic
without a target is `Unmapped`: `handleRecord` returns nil for its records.

### JobManager

A process is a goroutine: a request or a background task, the reconciliation of a
starting program, the protection poll, or a mirror's goroutine that calls
`onPanic`. `pc` is where it is, `then` the stack of what it returns to, `loc` its
local variables; a step is what it does between two accesses to `Mu`, to the
database or to another goroutine. `mu` is held over exactly the statements that
hold it in the code: `StopAllJobs`, the rollback of `StartJob` and a throttled
restart keep it while they wait for a mirror, `StopJob`, `ForceRestartJob`,
`HaltRunningJobs` and `handleJobPanic` do not.

`TakeOne` – `NextMirror` – `Wait` – `Read` – `Write` is the common tail of those
operations: take the mirror out of the map, cancel it, wait for its goroutines,
read the row, write it back. Of a row only the status is kept, but it is kept as
the code keeps it: `loc.list` holds the copy `GetJob` or `ListJobs` returned, and
`UpdateSave`, `RestartSave` and `Apply` write that copy. Jobs are not created in
the model; all of them exist at the start, paused, as `handleCreateJob` leaves
them. `handlePauseJob` is "stop". Protection is enabled all the time and
`refuse_write_to_prod` is off; the automatic halts are the request "halt" of some
goroutine. `frozen` and `heldBack` are history variables of two properties.

### TopicDiscovery

One job, whose mirrors follow one another. `exact` and `rules` are its
configuration: an exact mapping is a target, and a rule (regular expression and
substitution) is what it makes of each topic: a target, "nomatch", or "empty".
The initial states are all configurations. `source` and `target` are the topics
of the clusters with their partition counts (0: no such topic), `topicMap`,
`targetPartitions` and `subscribed` are the mirror's, `seen` is the listing it
works on, `step` the statement of `discoverAndSyncTopics` it has reached.

| action | code |
|---|---|
| `Resolve` | `resolveTopicMappings` on one listing of the source |
| `BeginValidate`, `ValidateTopic`, `ValidateFails` | `validateAndSyncClusters`: a new listing, then topic by topic `EnsureTopicExists` and `ValidateTopicCompatibility` |
| `Start`, `Stop` | the rest of `NewKafMirror`, `Start`, `Stop` |
| `Tick`, `ScanKnown`, `ScanNew`, `Publish`, `Subscribe`, `ScanDone`, `ScanFails` | `discoverTopicsLoop` and `discoverAndSyncTopics`: the listing; a topic that is mapped; the checks and the target; the maps under `mapMu`; `AddTopics`; the end |
| `HandleRecord` | `handleRecord`: the lookup, the rules if there is no mapping, the produce |
| `ChangeSource`, `ChangeTarget` | the owners of the clusters |

A start that ends in an error before it has touched anything is not a step. The
five tries of `ensureTopicWithRetry` are one step. `HandleRecord` is one step
because nothing it does depends on what happens between its lookup and its
produce. `sized` is a history variable: how many partitions a mapped topic had in the
listing by which it was mapped. `Compatible` is `ValidateTopicCompatibility`. Left out:
deletion of target topics, replication factors, edits of the
mapping while the job exists (each start of a new configuration is another
initial state), and partition numbers of copies.

### The services

In all of them a request, a command or a background task is a record with a
`stage`, which says after which of its statements it is; another's statement may
come between any two.

- **`Accounts`**. A request is sent with a home's token (`UsersAdd`, ...,
  `UsersResetToken`), passes `Authenticate` and `Permit`, and then does one
  statement of its handler at a time: `AddUser`, `AddAssigns`, `SetRole`,
  `ResetPassword`, `RevokeAfterUpdate`, `ResetIssues`, ... A statement may fail
  (`AddFails`, `RevokeFails`, ...), and so may the rollback of `handleCreateUser`, whose
  error is dropped (`RollbackFails`); the server may die between any two
  (`ServerDies`). `bare` is the history of the users these two have left without a role.
  `AdminAdds`, `TokensGenerate` and the other
  commands of `admin-cli` write the same tables beside it. Two roles, since only
  the permissions of `/users` matter here. The handlers of other components are in
  their modules without the middleware.
- **`AutoHalt`**. `Observe` is one step, under `Controller.mu`; what follows an
  alarm (`AutoHaltChecks`, `AutoHaltSets`, `StopAllMirrors`) and the admin's
  requests are one step per statement. Errors of `Halt` are dropped by the code and
  so never stop anything here; a `Resume` that fails ends the request to resume, but not
    `handleDisableProtection`, which drops its error and disables (`uncleared`). The
  heuristic for growing payloads, a comparison of
  two averages, is left out. `StartMirror` and `StopMirror` are the manager.
  Samples are kept by number, each with its age; `happened` and `past` are history:
  what has happened in all, and before each of the last ticks.
- **`PayloadWatch`**. `Ingest` holds a mutex: one step per record. A value is plain
  or scrambled; the comparison of an entropy with the baseline is sure where all
  values learnt were of one sort, and open otherwise. Hits are kept by the number of
  their record, and so are the changes of values the history `changes` counts. While
  protection or the automatic halt is off (`SwitchWatch`) records pass without being
  looked at (`PassUnseen`), and the last value the watch remembers of a key grows stale
  (`doubtful`).
- **`Compliance`**. The unit of time is the ten minutes of the ticker. `Look` and
  `Pass` are one look at the clock and the passing of a unit; the program ends and
  starts, the schedule is edited, the database fails for a unit. Each report reads the
  clock again when it is made (`compliance.go:38`), by which time the next unit may have
  begun (`slow`).
- **`ConfigStore`**. A command reads the configuration (`GetConfig`), changes what
  it was asked to (`UpdateConfigParameter`) and puts all of it back (`Merge`,
  `SaveConfig`, `SaveFails`, `KeepInMemory`). `Edits` and `Sections` list the commands and
  menus with the parameters each sets; `Param` are the parameters a run looks at.
  `config save` writes a redacted copy of what is stored (`Save`), and tells the user to
  roll back with it (`Rollback`), which sends the placeholders in it. The file that
  `config save` was given is never sent: its client decodes YAML into maps with keys that are
  no strings, which the JSON encoder refuses. `Import` is `/config/import`. Three
  commands put another file in the place of the server's for its next start
  (`RunSystem`, `RestoreConfig`, `ImportConfigFile`, all by `NewFile`).
- **`Credentials`**. `FetchCluster`, `AskSecrets` and `TestConnection` are the
  command, `ReadExisting` and `UpdateCluster` the handler; `AddCluster` and
  `PurgeCluster` are others.
- **`DatabaseFile`**. `Upgrade` is the list of statements of `InitDB` and the ten
  migrations, each a record of what it probes for, adds or moves; `OpenFile` ...
  `AssignFirst` run it for the daemon and for a tool, and either may die
  (`Dies`) or fail (`UpgradeFails`, `PasswordFileFails`) anywhere. The first probe of
  `RunMigrations` is a step of its own, since its error ends the migrations with
  success (`FirstProbeFails`; `blind` are the processes it happened to). `Repair`,
  `AddByHand` are commands of `admin-cli`, and `UpdateUserRole` is the handler that gives
  a user another role, the last administrator included (`demoted`; an older file may
  also come without one).
- **`MetricsStore`**. `RecordProduced` ... `RecordFailed` count, `ReadConsumer`
  and `ReadProducer` sample, `ReadTotals` and `Insert` are the two statements of
  `InsertMetrics`, `Prune` deletes; mirrors start, stop and crash.
- **`MirrorProgress`**. An update (`UpdateMirrorState`) stores row after row
  (`UpdateMirrorProgress`), then the resume points (`StorePoints`) and the gaps
  (`StoreGaps`, which calls `DetectMirrorGaps`); a request stores the points only
  (`CalculateResumePoints`, `StoreCalculated`); several goroutines do so at once. An update
  sees any set of the partitions, since the listing of ends leaves out those with
  an error; a row may fail (`RowFails`) and the update goes on; the goroutines may end
  anywhere with their process (`GoroutinesEnd`). `unwritten` is the history of the partitions
  whose row need not be of the update stored last.
- **`MirrorVerify`**. `ListBothClusters`, `ReadSourceEnds`, `ReadCommitted` and
  `ReadFails`. `GetTopicHighWaterMarks` leaves out partitions without a word
  (`unlisted`), `GetConsumerGroupOffsets` skips single partitions, which then count as
  never committed. In between records arrive and the group commits any offset of a record it
  has, an older one too (`furthest` is the most it has committed).
- **`Registry`**. One action per statement of the handlers of `/clusters` and
  `/jobs` (`CountNames`, `InsertJob`, `WriteRow`, `DeleteCluster`, ...), the daily
  archiving, and the commands of `mirror-cli` with the listing they chose from.
  `StartJob` and `StopJob` are one step each here; their inside is `JobManager`.
- **`SelfHealing`**. `Tick` starts goroutines for an active job; `Decide`,
  `CheckCooldown`, `Adjusts`, `Apply`, `Restart` are an adjustment, `AnalyzeJobNow`
  ... `StartAgain` the AI's way to a forced restart; the user stops, starts and
  edits in between. What an AI answers is any set of insights.

## 3. Runs

| run | result | question |
|---|---|---|
| `loop_safety` | pass, 1.0 M states | safety of the loop and the refinement of `MirrorContract` |
| `loop_live` | pass, 0.1 M states | does everything get settled that no instance in `onPanic` holds |
| `loop_no_loss` | violation | does "committed" mean "acknowledged by the target" |
| `jobs_safety` | pass, 0.9 M states | all operations overlapping, a panic, a write that fails; who waits for whom; the refinement of `ManagerContract` |
| `jobs_serial` | pass, 0.6 M states | truth of the rows, across crashes and tripwires |
| `jobs_live` | pass, 85 k states | does every request finish |
| `services` | pass, 0.9 M states | does each of the twelve services keep its promises |
| `topics` | pass, 3.0 M states | does every subscribed topic have its own target, now and after restarts |
| `jobs_panic` | violation | does `onPanic` shut a mirror down |
| `jobs_halt_undone` | violation | do halted jobs stay paused when requests overlap |
| `jobs_tripwire` | violation | does the halt file pause every running job, though it comes and goes |
| `throttle_cooldown` | violation | are there ten minutes between two adjustments |

**Properties of the loop.** `CommittedIsSettled`: each record below a committed
offset has a copy, was refused, or has no target. `LoopSettled`: the same below
what each instance handles next, and below its fetch position but for its batch;
with `PositionsInLog` it is a part of the inductive invariant, and since it is
proved it is in no run; nor is `CopyInOrder` (when a record reaches the target for the
first time, everything below it is settled), which is proved, too, and is the guard of
the contract's `Copy`. `DuplicatesNeedReassignment`: with an
idempotent producer a record has at most as many copies as its partition had
assignments. `EventuallySettled`: each record is settled, unless at some time no
instance runs or its partition is held by an instance that ended in `onPanic`
(`HeldByWedged`): that one polls no more and stays a member of the group, so the
partition rests until the coordinator moves it or the program ends.
`ContractSpec` is `MirrorContract` under the mapping that forgets instances: copied
is "at least one copy", given up is failed or skipped.

**Properties of the manager.** `NoOrphan`: a mirror that replicates is in the map
or in the hands of a goroutine that will stop it. `OneStopper`: no two goroutines
stop the same mirror (its clients would be closed twice) and the map offers no
mirror that is being stopped. `HaltIsFinal`: after a halt has emptied the map
nothing enters it until the halt is cleared, although throttled restarts do not
ask `GuardStart`. `DeadlockNeedsPanic`: `WaitsFor(t)` is the goroutine `t` waits for,
the one that has `Mu` or the one of the mirror `t` stops; whoever has `Mu` is under way
and waits for nobody but a mirror, whose goroutine is busy only in `handleJobPanic`. So
a circle of goroutines, which exists (`StopAllJobs` has `Mu` and waits for a mirror that
panics and asks for `Mu`), always has such a mirror in it, and while none panics whoever
asks for `Mu` waits for somebody who goes on. The mutant `CollectLocked` lets
`RestartAllJobs` keep `Mu` while it calls `StopJob`, which asks for it again.
`StatusAgrees`: with no request in progress, a row says active
exactly when the job runs. `HaltedStayPaused`: a job paused by a halt neither runs
nor is marked active until a request starts it. `RequestsFinish`: no request waits
for ever. `ContractSpec` is `ManagerContract` under the mapping that forgets
goroutines, `Mu` and rows, and keeps the map, the lives of the mirrors, their jobs,
and whether a halt is ordered (`IsHalted`) and stands (`frozen`). The contract says what
callers of the manager may rely on: a job gets another mirror only when the one before
has been taken from it or closed; what is in the map is not being stopped by somebody
who let go of `Mu`; a mirror is closed once and never runs again; a halt takes all
mirrors in one step, and when it is still ordered by then nothing gets into service
until it is lifted. It lets a mirror that was taken out of the map run on beside its
successor: that is the overlap of instances `ReplicationLoop` starts from.

**Properties of the mapping.** `SubscribedIsMapped`: a subscribed topic is in the
map and its target exists, so that `handleRecord` never falls back on its own
reading of the rules (first match, no comparison of targets) and never drops a
record. `OneSourcePerTarget`: topics share a target only by two exact mappings,
which the code compares nowhere. `OneTargetEver`: a topic is copied to one target
by all the mirrors of the job together; the discovery takes the first rule that
matches and does not compare, the next start compares and does not choose, and
the property says that they never disagree about a record. `PartitionCountsTrue`:
a mapped topic had, in the listing by which it was mapped, no more partitions than are
recorded for its target, and the target has those. Partitions are aligned so that each
record has a partition of its number to go to; the mutant `CompatibleAlways` drops
`ValidateTopicCompatibility` and nothing else. Targets that the discovery found in
existence (`found`) are exempted: there `discoverAndSyncTopics` compares nothing, where
`validateAndSyncClusters` would have refused. No harm was found in that: the recorded
count decides about a warning, and the producer sets no partitioner that would heed the
partition of a record.

**Properties of the services.** Many of them hold but for an overlap, and the
overlap is part of the statement: a history variable is set when it happens, by
the step that makes it happen, and the property says that nothing else leads there.

| property | what it says |
|---|---|
| `OldTokensOverlap` | a token that goes back to an old password was issued to a request begun before the change, or its revocation is to come or failed, or `admin-cli` made the change |
| `RolelessIsTemporary` | a user without a role, who breaks the list of users for all, is being created, was added by hand, or is left of a creation whose role and whose rollback both failed, or in which the server died |
| `SoloHaltIsJustified` | with one job sampled, an alarm is about what happened within the minute, also across a restart of its mirror |
| `LeftoverHasCause` | a halted flag stays behind a disabled protection only by a halt that overlapped the disable or came after it, or by a disable that failed to clear it and went on |
| `RewritesCounted` | the rewrites in the window are the changes of the last minute while there is room for another key, and never more; nothing is said of the first record of a key after one that passed while the watch was off |
| `ReportsFollow` | a report that was due and could be made was made, once per run of the program; two weekly reports in a row leave a gap of at most ten minutes, or of an hour when the program, schedule or database was disturbed |
| `SecretsAreReal` | the placeholder is never stored as a secret, but for a cluster removed since the answer was made that a command, or the backup of `config save`, sends back |
| `EditsSurvive` | what a command set stays until another sets it, unless that one had read the configuration before |
| `SecretsOfLastEdit` | a secret left empty is the one the row held when the request came in |
| `OpenIsUpgraded` | a process that has the file open finds all columns that are probed for by name, whatever died before, unless its own first probe met an error |
| `OldMetricsKept` | the rows of the old metrics table are in it or in the new |
| `DaemonHasAdmin` | a daemon that serves has an administrator, unless the making of the first user was cut short, a user was added by hand, or an administrator was given another role |
| `SampleConsistent` | a sample never shows more consumed than produced or skipped, though counters move while it is taken |
| `NeverBelowCurrent` | the stored total is not below the newest sample, across restarts of mirrors |
| `RowsOfOneUpdate` | once an update has been at work alone, the rows are its own, but for the partitions it could not read or store and those written by one that was cut short since |
| `PointsOfOneCalculation` | resume points of the last hour are of one calculation, in zones not behind UTC |
| `NoLagMeansCommitted` | "no lag" without warnings means that what was there at the beginning, in each partition that was listed, had been committed by then |
| `RemovedIdle` | a job is active on a removed cluster only if it was started or written after the removal had looked |
| `NamesUnique` | two jobs share a name only by two writes that overlapped |
| `StoppedStaysStopped` | no adjustment restarts a job the user has stopped |
| `BatchWithinLimits` | repeated adjustments keep the batch size in 100 .. 10000 until one begins at a limit, or a user sets a size beyond |

`ServicesTypeOK` is the type invariant of each.

**Bounds.** Two records on two partitions and two instances are the smallest
instance in which one instance is behind another on the same partition with
something already committed ahead of it; one rebalance, one crash and one panic
make each of them happen at every point. In the manager, one job suffices for the
races about a job, two goroutines for a race, and a mirror for each start up to
the bound (two, or three where nothing else is large); `jobs_serial` has two
jobs because the operations on all jobs walk over lists. One panic and one failing
write occur at any point. Mirrors are never reused: a start beyond the bound is a
start whose factory failed.

`CHECK_DEADLOCK FALSE`: every bound ends the behaviours that exhaust it, and an
idle system is a legal end. In `topics`, two topics, two targets and two rules make
every kind of overlap: a rule against an exact mapping, a rule against a rule, one
topic with two targets, two topics with one; three changes are enough for a topic
to appear, vanish and appear again, and two starts for a mirror that discovers and
one that resolves. The type invariant of `TopicDiscovery` is proved and in no run.
Topics and targets are interchangeable (symmetry); rules are
not, being ordered.

In `services` every race is one of two: two shells, two workers, two goroutines that
adjust, two jobs; the sets are the same two model values everywhere (`Alike`), so
that one symmetry serves all. States are told apart by the variables of the service
that runs (`ServiceView`), less four that no other step and no invariant of this run
reads: `gaps`, `advised`, `appliedAt` and `hurried` (`throttle_cooldown`, which checks
the last, has no view). `Registry` has one cluster and two jobs with two
names, which three requests can bring into any conflict. `PayloadWatch` has three
keys with room for two, so that room is used up. `Compliance` has a day of two
hours, an hour of two looks and a week of two days, and more than two weeks. `ErrorLimit`
is 0 in `MetricsStore`, so that the first failure stops a mirror. Windows, bursts and
minima are 2, the least number that tells "first" from "last". `MirrorProgress`
has zones behind, at and ahead of UTC by an hour, which is the unit of its clock, and
three updates or requests: two that overlap and one after them, or two after a death.
`Param` has one
parameter of each kind the code treats differently: plain, secret, the two
cluster secrets, one with an underscore. `Sizes` has 140, from which
one decrease reaches the limit and the next passes it, and 60, below the limits, which
the handlers accept; `throttle_cooldown` has a large one as well. One death in
`DatabaseFile` falls on any statement of either process.

**Fairness.** `ReplicationLoop`: the goroutine of an instance runs, a produce is
answered and an unowned partition is given to a member (weak fairness); nothing is
assumed of rebalances, retries, panics or crashes, nor that a produce succeeds. The
progress claimed is that a record is *settled*, or that its partition is held by an
instance that ended in `onPanic`; `loop_live` has one panic, one crash and one move.
`JobManager`: a goroutine that can
take a step takes one. It needs strong fairness because a step may wait for `Mu`,
which others take and release; Go's `sync.Mutex` hands over to a waiter after 1 ms
(starvation mode), so that no waiter is overtaken for ever. The poll has a ticker:
weak fairness. The services claim safety only: each of their goroutines may stop
anywhere, which is a death or a client that hangs up.

## 4. What the violations show

- `loop_no_loss`: README.md says "Source offsets are committed only after the
  target produce is acknowledged." A failed record is passed over, and the commit
  of the next one moves the offset past it. `CommittedIsSettled` is what holds.
- `jobs_panic`: `onPanic`, "to trigger a shutdown", calls `Stop` on a goroutine
  `Stop` waits for. The mirror stays, out of the map, with open clients.
- `jobs_halt_undone`: docs/protection.md says "Jobs stay paused until an admin
  starts them again." An update that read the row before the halt writes active
  back after it; the next start of the program runs the job.
- `jobs_tripwire`: docs/protection.md says of the halt file that it pauses every
  running job. The poll halts on the edge only, and looks every two seconds. When the
  file is removed and put back between two polls, a job started while it was away is
  halted by no later poll (`wasHalted` is still true), and runs on with the file in
  place. A start cannot otherwise slip past a halt: `StartJob` asks `GuardStart` and puts
  the mirror into the map under one hold of `Mu` (`HaltIsFinal`).
- `throttle_cooldown`: the manager logs "Throttling changes suppressed for job %s to
  prevent oscillation" when it finds an adjustment of the last ten minutes among
  the insights. The table refuses insights of that type (`CHECK` in
  `schema.sql:81`), so it never finds one.

What else was met while modelling. These are in the models as the code has them:

- *Configuration.* The API answers with Go's field names, and a decoder matches
  names but for their case: a name with an underscore matches none. Edits of such
  parameters are dropped and reported as "Successfully updated" (`Dropped`), and
  the menus show them as not set. A restart reads the file and, of the stored row,
  only the AI section. "Test and enable" of the AI sends the placeholder as token.
- *Clusters.* An edit that gives a new name is ignored; the connection test loses
  azure's connection string (`handlers.go:457`); the update of a row that has been
  purged reports success. Added clusters have the status 'unknown', and the
  interactive removal does not offer them.
- *Jobs.* `RestartJob` writes the row it read first over later edits. Commands
  that stop or pause report success whatever the answer was.
- *Database.* A death between the four statements of migration 2 loses its columns
  for good; migration 5 grants nobody its permissions on a fresh database; a death
  between `CreateUser` and `AssignRole` leaves a user without a role, and no start
  and no repair makes another; migrations 4 and 9 never do anything; migration 1
  makes `ai_insights` anew with a narrower `CHECK`.
- *Throttling.* A decrease from a batch size of 100 gives -100, which the client
  refuses: the row stays active without a mirror. An increase from 10000 gives
  +500. Decisions about slow jobs have a confidence of 0.6 and are never applied. A
  forced restart can start a job the user has just stopped (`StoppedStaysStopped`
  says that an adjustment cannot).
- *Mirror state.* In a zone behind UTC old resume points are not replaced. Gaps are
  never resolved, as `ResolveMirrorGap` has no caller. A failed comparison deletes
  the fresh resume points. A failed read of `VerifyMirror` reports no lag, with a
  warning.
- *Left-out partitions.* `GetTopicHighWaterMarks` drops a partition whose offset comes
  with an error (`admin.go:295`): `validate-mirror` then reports no lag and no warning for
  it, and its progress row stays as it was.
- *Swallowed errors.* `handleDisableProtection` disables though the halt was not cleared
  (`handlers.go:1707`); `handleCreateUser` answers with the first error when its rollback fails
  too (1443), and the user stays, without a role; `RunMigrations` takes any error of its
  first probe for a new file (`database.go:85`).
- *Roles.* Nothing keeps the only administrator from being given another role.
- *Reports.* What has been made is remembered in memory: a restart within the hour
  makes a second report; a daily report covers the part of its day that has passed;
  reports go when the user who asked is deleted.
- *Shutdown.* `main` does not call `JobManager.Close`.

## 5. Proofs

`ReplicationLoop_proofs` proves, for any partitions, instances and bounds that
satisfy `LoopAssumption`:

| theorem | statement |
|---|---|
| `Inductive` | `Spec => []IInv` |
| `TypeCorrect`, `NothingForgotten`, `NeverPastTheEnd`, `SettledBehindTheLoop` | `[]TypeOK`, `[]CommittedIsSettled`, `[]PositionsInLog`, `[]LoopSettled` |
| `InOrder` | `CopyInOrder` |
| `DuplicatesArePaidFor` | `[]DuplicatesNeedReassignment` |
| `Implements` | `ContractSpec` |

`CommittedIsSettled` is not inductive: `CommitOk` sets the committed offset to any
instance's record + 1, so it needs that everything below that record, and the
record itself, is settled. That is `LoopSettled`, which in turn rests on where an
instance's positions come from: `GiveTo` copies the committed offset
(`CommittedIsSettled` again), `Poll` moves what lies between `next` and `fetchPos`
into the batch, which requires the old batch to be done, and `Advance` passes a
record that has just been written, refused or skipped. `PositionsInLog` and
`HandInv` (there is a record in hand except when idle) make these steps well
defined. The first lemmas show that copies, failures and skips only grow, hence
that what is settled stays settled. `CopyInOrder` and the refinement follow from
`IInv` action by action: a first copy of a record is a `Copy` of the contract and a
further copy a stutter, a failure or a skip is a `GiveUp`, `CommitOk` a `Commit`.

`DuplicatesNeedReassignment` counts, so its invariant does too. A copy that can
still be made of a record is in somebody's hands: a batch holds it, or it lies ahead
of a fetch position. `CopiesArePaidFor` says that the copies made and the members
that may still make one are together no more than the assignments of the partition.
An assignment adds one to both sides; a write moves one from "to be made" to "made",
because an idempotent producer writes what is in hand once and the loop never goes
back in its batch. The argument is about cardinalities and holds for infinite sets of
instances, since those that have anything in hand are finitely many.

`TopicDiscovery_proofs` proves, for any topics, targets, rules and bounds that
satisfy `DiscoveryAssumption`:

| theorem | statement |
|---|---|
| `MapInductive`, `ChoiceInductive` | `Spec => []MapInv`, `Spec => [](ChoiceInv /\ CountInv)` |
| `TypeCorrect`, `MappedBeforeSubscribed`, `TargetsAreNotShared` | `[]TypeOK`, `[]SubscribedIsMapped`, `[]OneSourcePerTarget` |
| `OneTargetForEver` | `[]OneTargetEver` |
| `CountsAreTrue` | `[]PartitionCountsTrue` |

None of these is inductive, because a discovery checks a match in one step, creates
its target, and publishes and subscribes in later ones. `MapInv` carries what was
checked along: the match in hand is a match of the listing, its topic unmapped, its
target free and there (`ScanInv`); every mapped topic has a target except those
that validation has still to reach (`TargetsThere`). `OneTargetEver` speaks of
different mirrors, which share nothing but the configuration, so `ChoiceInv` says
that maps and copies follow it: `Gives` is the exact target, or what the first
matching rule gives. A start follows it since it accepts only agreeing rules. The
discovery follows it since a match whose topic is unmapped is still in `todo`, so
that the least one is the first rule that matches at all. `CountInv` says that the
recorded counts are those of targets that have them and cover the topics mapped there,
and, for the match in hand, that a target that was created covers its topic.

`JobManager_proofs` proves, for any jobs (finitely many), mirrors, goroutines,
requests and bounds that satisfy `ManagerAssumption`:

| theorem | statement |
|---|---|
| `Inductive` | `Spec => []IInv` |
| `TypeCorrect`, `NothingLost`, `StoppedOnce`, `HaltStands` | `[]TypeOK`, `[]NoOrphan`, `[]OneStopper`, `[]HaltIsFinal` |
| `OnlyPanicsDeadlock` | `[]DeadlockNeedsPanic` |
| `Implements` | `ContractSpec` |
| `HaltsAreKept` | `[]HaltedStayPaused`, where `OneByOne` |
| `RowsAreTrue` | `[]StatusAgrees`, where `OneAtATime` |

A mirror is in one of four places: not created, in the map, in the hand of one
goroutine, or closed; `MapInv`, `QueueInv`, `WaitInv` and `OneHand` say which, and
`NoOrphan` that there is no fifth. A mirror is in the map *and* in a hand only where
that goroutine has `Mu` (`StopAllJobs`, a start that is undone, a throttled restart),
so the invariant has to know who holds `Mu` at which phase (`LockInv`), and what a
goroutine that waits returns to (`StackInv`: after a wait come `read`, `undo` or
`relaunch`, and nothing else on the stack is any of these). `JobInv` makes the
accesses `kafMirrors[loc[t].job]` well defined. `HaltIsFinal` needs that a halt that
stands leaves nobody behind `GuardStart` (`FrozenInv`): it took the map under `Mu`,
and whoever is about to launch or to relaunch has `Mu`.

`DeadlockNeedsPanic` is the converse of `LockInv`: `HolderInv` says that whoever has
`Mu` is where the code is between `Lock` and `Unlock`, and at none of these places does
it ask for `Mu`, or end. A step into `Mu` needs that nobody has it, a step out gives it
back, and what a wait under `Mu` returns to is `read`, `undo` or `relaunch`
(`StackInv`), so that no call made under `Mu` leads back to a routine that locks.

The refinement follows from `IInv` action by action. `Launch` and `Relaunch` are a
`Serve` (a `Relaunch` whose factory fails a `Withdraw`, such a `Launch` a stutter);
`TakeOne`, `Undo` and `Read` are a `Withdraw` or a stutter, `TakeAll` a `Halt`,
`NextMirror` and `Apply` a `Cancel` or a stutter, `Wait` a `Close`; whatever touches
only rows, `Mu` or a goroutine's locals is a stutter, and a crash is the contract's
`Crash`. Two facts carry it. What the map holds where nobody has `Mu` runs
(`MapRuns`), so that a `Withdraw` or a `Halt` never takes a mirror that is being
stopped; it needs `OneStopper` and `LockInv`. And a mirror in the map on which
somebody has waited under `Mu` is closed (`HeldIsClosed`), so that a relaunch finds
the place vacant. Were the whole map taken without `Mu`, as the mutant `TakeAllUnlocked`
does, it would take a mirror in the middle of being closed, and the first would fail.

The last two hold only on hypotheses. `OneByOne` says that a request is made when nothing
is going on, and that a program that starts reconciles once. That is all
`HaltsAreKept` needs: mirrors may panic, writes may fail, the worker may throttle, and the
program may crash at any step. When requests overlap the property fails (section 4).
`HaltInv` is its invariant: not counting mirrors that panic, one goroutine is at work
(`OneRequest`); nobody but who carries out a halt holds jobs back; and what anybody is
to start or to mark active, the rest of a reconciliation included, is not held back
(`HaltRelies`). A throttled mirror that is to be started again is in the map under
`Mu`, so its job is not held back either. Which goroutine may be at which phase, and what
it returns to, is `Stacks`.

`OneAtATime` asks for more: no write of a row fails, nothing is throttled, no mirror
panics, and the program has its one reconciliation. TLC finds `StatusAgrees` violated
when requests overlap, and without each of the first two and the last; for panics it
finds no violation (a mirror that panics while it is in the map waits for itself, after
which the system is never quiescent: `jobs_panic`), and the proof leaves them out
because it has one goroutine at work. Crashes are allowed at any step, and how many is
not bounded. `jobs_serial` checks the same case.

At most one goroutine is then at work, and `SerialInv` says what it has still to
settle: the jobs whose mirrors it has in hand or whose rows it is to correct
(`ToStop`), the rows it found active when the program started (`ToBoot`), a row it has
failed to start (`ToPause`). The row and the map agree on every other job, and when
nobody is at work there is none to settle. A job to be settled is not in the map,
unless it is being stopped under `Mu`. A crash makes every job one to be settled, by
the reconciliation. What a routine returns to matters here, so `StackOf` lists the
stacks of each kind of goroutine: 32 phases, of which a watcher has six and the
reconciliation seven.

The services share five proof modules. Each theorem holds for the service's own
specification and for every value of its constants:

| theorem | statement |
|---|---|
| `AccountsInductive`, `TokensFollowPasswords`, `UsersHaveRoles` | `[]AccountsInv`, `[]OldTokensOverlap`, `[]RolelessIsTemporary` |
| `NoReportMissed` | `[]ReportsFollow` |
| `SamplesAreConsistent`, `TotalsKeepUp` | `[]SampleConsistent`, `[]NeverBelowCurrent` |
| `SafeToMigrate` | `[]NoLagMeansCommitted` |
| `RowsAgree`, `PointsAgree` | `[]RowsOfOneUpdate`, `[]PointsOfOneCalculation` |
| `LeftoversHaveCauses`, `SoloHaltsAreJustified` | `[]LeftoverHasCause`, `[]SoloHaltIsJustified` |
| `StopsStand`, `BatchesWithinLimits` | `[]StoppedStaysStopped`, `[]BatchWithinLimits` |
| `RewritesAreCounted` | `[]RewritesCounted` |
| `SecretsKept` | `[]SecretsOfLastEdit` |
| `UpgradeIsWhole`, `RowsAreMoved`, `SomebodyRules` | `[]OpenIsUpgraded`, `[]OldMetricsKept`, `[]DaemonHasAdmin` |
| `NamesAreUnique`, `RemovedAreIdleOrExposed` | `[]NamesUnique`, `[]RemovedIdle` |
| `ConfigInductive`, `NoPlaceholderStored`, `OnlyOldCommandsUndo` | `[]ConfigInv`, `[]SecretsAreReal`, `[]EditsSurvive` |
| `Composed` | `ServicesSpec` implies the specification of each service |
| `ServicesTyped` | `[]ServicesTypeOK` |

- *Accounts.* The two properties are almost inductive: a token outlives its password
  because it is kept, late, or its revocation is the next statement of somebody's
  request. What is missing is that a shell which changes a password changes its
  own (`OwnPassword`).
- *Reports.* What the scheduler remembers is the last report of this run of the
  program; while nothing disturbs it, no hour of the weekly report has passed in a
  later week than that of the last one (`Watched`). The rest is arithmetic of hours,
  days and weeks, with each report made in the unit of its look or in the next.
- *Samples and totals.* A record is produced before it is counted as consumed, and
  the consumer is read before the producer: that is `SampleConsistent`. Totals are
  sums over rows, and an insert may find rows of other jobs, or have lost some to the
  pruning. The lemmas `SumsThere`, `SumsAgree` and `SumsGrow` are proved by
  looking at the first place where two sums differ: every nonempty set of numbers
  has a least one (`Smallest`), since the initial segments below its members are
  finite sets and inclusion is well-founded on those. This replaces induction.
- *Verification.* The ends of the source are read before the committed offsets, and
  the ends only grow; what the group commits does not, so the claim is about the
  most it has ever committed.
- *Progress.* While nothing is crowded, at most one update is at work and every row is
  of the update stored last, or not written by it, or of the one at work (`RowsBy`),
  whose rows are those it has compared and no longer to do. An update that ends having been
  alone all the time has put right whatever it could read and store, so an overlap is
  forgotten with the next such update.
- *Automatic halts.* A sample remembers counters that a restarted mirror begins anew,
  so gains cannot be compared with anything in the code. The histories can:
  what a job has gained since a sample, added to what had happened by then, is at
  most what has happened (`GainHappened`), through restarts, ticks and samples.
  `LeftoverHasCause` follows from the order of the statements of a disable.
- *Adjustments.* Whoever restarts the job has had the lock since it found the job
  running; a stop takes the mirror under that lock. A batch size decided between the
  limits stays within them, through any edit of the row.
- *Payloads.* A rewritten hit is a change of value of the same age; as long as another
  key could be tracked the watch knows the last value of every key, and misses none; a
  key one of whose records passed unseen is doubtful until the next is looked at.
- *Credentials.* A request that nothing has made old holds what the row holds, but for
  what was entered (`HoldsRow`); a request about this cluster knows its provider and
  has every secret the provider needs (`Complete`).
- *Upgrade.* What a process has been at is there (`Provided`), because statements only
  add; a process about to drop the old table has moved its rows. The upgrade is
  one long sequence; the lemmas about its pieces (`FirstPieces` to `UpgradeIs`) say of
  each that it is well made and what it provides.
- *Names and removals.* A count that no write has made old still counts nothing;
  a removal that has looked finds idle jobs, or they are exposed.
- *Configuration.* A command that has read, and is not old, holds what is stored with
  placeholders for secrets; merging them puts the secrets back. The same is true of the
  backup until something is stored over it, and of a rollback that sends it.
- *All of them.* A step of `MCServices` is a step of one service and leaves the rest as
  it is, so a behaviour of the run is a behaviour of every service's specification
  (`Composed`), and each theorem above holds of the run. `ServicesTyped` adds to
  the inductive invariants what they had no use for: bounds of counters, the
  parallelism of a job (1 .. 20, that of a decision under way included), the mirror and
  the lock of a request, and that the days a report covers are those of its time.

But for `OneByOne` and `OneAtATime`, the proofs assume the named assumptions of the
modules and nothing else. Of these some are only there for the proofs: the set of jobs
is finite (the database's table), there is at least one password and one job, name,
cluster and parameter, `Unlocked` is no goroutine, and `Placeholder` and `Masked` are
no secret.

Only model-checked is liveness (`EventuallySettled`, `RequestsFinish`): the prover
does no fairness. Every other property of a passing run is the statement of a theorem.
The five violations are traces of TLC.

What the properties do not catch, though a hazard is near:

- `NoOrphan` counts a mirror in the map as fine, also when its job has no row any more
  (`handlers.go:653`).
- `StatusAgrees` is about requests made one at a time; where they overlap it fails.
- `NeverBelowCurrent` bounds the totals from below. After a restart of a mirror they may
  be too high or too low by what the old sum hides, which nothing measures.
- `StoppedStaysStopped` does not say that an active row has a mirror: a restart that
  fails leaves one without.
- `BatchWithinLimits` ends where an adjustment begins at a limit, which is where the
  arithmetic goes wrong (section 4).
- `SubscribedIsMapped` holds when a discovery fails, but the failure ends the mirror of
  every topic of the job.

## 6. Plan

The models and proofs planned are done. What would come next:

1. That the loop's environment is what the manager does: `Start`, `Cancel` and
   `Close` of `ReplicationLoop`, for the instances of one job, as steps of
   `ManagerContract`. Both sides are proved against a contract; the connection between the
   two contracts is told in section 3 and not stated in TLA+.
2. That the requests finish although a mirror panics, for which the code would have to
   let go of `Mu` before it waits for a mirror (`manager.go:545`).
3. `StatusAgrees` where requests overlap, for which the code would have to write the
   row before it lets go of `Mu`.

## 7. Not modelled

- *Websocket hub.* `Run` and `handleWebSocket` write to one connection; what a second
  writer does is up to the library, and no state of the program depends on it.
- *Shutdown.* `Close` and `beginDBOp` run in tests only; a shutdown is the crash of
  the models.
- *Inventory snapshots, metrics sinks, egress rules, logging, dashboard.* Single
  inserts, reads, formatting, output.
- *Prompts and answers of the AI, parsing of configuration files, HTTP routing.* Text.
- *Restore, import and backup of the database file* (those of the configuration file are
  in `ConfigStore`), certificates and listings of
  the command line tools; `createNewCluster`, `createNewJob` and `runEdit` of
  `mirror-cli` have no caller.
- *`loginAllowed`*, which only refuses a login; the *payload inflation* heuristic;
  the *incident flags* of the metrics loop, which decide when an event is logged.
- *Web pages, documentation, packaging, `swagger/docs.go` and `docs.go`.* Static or
  generated.
