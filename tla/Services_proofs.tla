--------------------------- MODULE Services_proofs ---------------------------
(***************************************************************************)
(* The services side by side.  The other proof modules prove each service  *)
(* from its own specification; the services run is of all of them, one     *)
(* picked at the start.  That run is a behaviour of every service's own    *)
(* specification (Composed), so all that is proved of a service holds in   *)
(* it, and with it the services' type invariants (ServicesTyped).          *)
(***************************************************************************)
EXTENDS MCServices, Administration_proofs, Guards_proofs, Measures_proofs,
        Records_proofs, TLAPS

-----------------------------------------------------------------------------
(* Each service begins as it would alone, and a step of the run is a step  *)
(* of it or leaves its variables as they are.                              *)

LEMMA ServicesStart ==
  ServicesInit =>
    /\ AccountsInit /\ AutoHaltInit /\ ComplianceInit /\ ConfigInit
    /\ CredentialsInit /\ DatabaseInit /\ MetricsInit /\ MirrorInit
    /\ VerifyInit /\ PayloadInit /\ RegistryInit /\ SelfHealingInit
BY DEF ServicesInit

LEMMA ServicesStep ==
  [ServicesNext]_servicesVars =>
    /\ [AccountsNext]_accountVars /\ [AutoHaltNext]_haltVars
    /\ [ComplianceNext]_complianceVars /\ [ConfigNext]_configVars
    /\ [CredentialsNext]_credentialVars /\ [DatabaseNext]_databaseVars
    /\ [MetricsNext]_metricsVars /\ [MirrorNext]_mirrorVars
    /\ [VerifyNext]_verifyVars /\ [PayloadNext]_payloadVars
    /\ [RegistryNext]_registryVars /\ [SelfHealingNext]_selfHealingVars
BY DEF ServicesNext, servicesVars

(* Every service does in the run what it may do by itself, and nothing     *)
(* else: whatever a handler, worker or goroutine of another service does   *)
(* in between leaves its state alone.                                      *)
THEOREM Composed ==
  ServicesSpec =>
    /\ AccountsSpec /\ AutoHaltSpec /\ ComplianceSpec /\ ConfigSpec
    /\ CredentialsSpec /\ DatabaseSpec /\ MetricsSpec /\ MirrorSpec
    /\ VerifySpec /\ PayloadSpec /\ RegistrySpec /\ SelfHealingSpec
BY ServicesStart, ServicesStep, PTL
   DEF ServicesSpec, AccountsSpec, AutoHaltSpec, ComplianceSpec, ConfigSpec,
       CredentialsSpec, DatabaseSpec, MetricsSpec, MirrorSpec, VerifySpec,
       PayloadSpec, RegistrySpec, SelfHealingSpec

-----------------------------------------------------------------------------
(* What each service's variables may hold.  Most of it is part of its      *)
(* inductive invariant; what no other fact needs is added here: bounds of  *)
(* what is counted, and the marks that only Next writes.                   *)

LEMMA AccountsTypes == AccountsSpec => []AccountsTypeOK
BY AccountsInductive, PTL DEF AccountsInv

LEMMA VerifyTypes == VerifySpec => []VerifyTypeOK
BY VerifyStarts, VerifyStep, PTL DEF VerifySpec, VerifyInv

LEMMA CredentialsTypes == CredentialsSpec => []CredentialsTypeOK
<1>1. SecretsInv => CredentialsTypeOK
  BY DEF SecretsInv, SecretTypes, CredentialsTypeOK, Session
<1> QED
  BY <1>1, SecretsInit, SecretsStep, PTL DEF CredentialsSpec

LEMMA MirrorTypes == MirrorSpec => []MirrorTypeOK
<1>1. ProgressInv => MirrorTypeOK
  BY DEF ProgressInv, ProgressTypes, InHand, MirrorTypeOK, WorkerType,
         PointType
<1> QED
  BY <1>1, ProgressInit, ProgressStep, PTL DEF MirrorSpec

(* A failure or a restart of the server is counted before it happens.      *)
FaultsBounded == faults \in 0 .. MaxFaults

LEMMA FaultsStay == FaultsBounded /\ [ConfigNext]_configVars => FaultsBounded'
<1>1. ASSUME NEW e \in Editor,
             \/ \E s \in Edits : Edit(e, s)
             \/ \E named \in SUBSET Param :
                  Import(e, named) \/ ImportConfigFile(e, named)
             \/ Rollback(e) \/ RestoreConfig(e)
             \/ \E answered \in Answered : RunSystem(e, answered)
             \/ GetConfig(e) \/ UpdateConfigParameter(e)
             \/ Merge(e) \/ ValueRefused(e)
             \/ SaveConfig(e) \/ KeepInMemory(e)
      PROVE  faults' = faults
  BY <1>1 DEF Edit, Import, Rollback, GetConfig, UpdateConfigParameter, Merge,
              ValueRefused, SaveConfig, KeepInMemory, NewFile, RunSystem,
              RestoreConfig, ImportConfigFile
<1>2. ASSUME ServerRestarts \/ \E e \in Editor : Interrupt(e) \/ SaveFails(e)
      PROVE  faults < MaxFaults /\ faults' = faults + 1
  BY <1>2 DEF ServerRestarts, Interrupt, SaveFails
<1>3. Save \/ UNCHANGED configVars => faults' = faults
  BY DEF Save, configVars
<1>4. [ConfigNext]_configVars =>
        faults' = faults \/ (faults < MaxFaults /\ faults' = faults + 1)
  BY <1>1, <1>2, <1>3 DEF ConfigNext
<1> QED
  BY <1>4, ConfigAssumption DEF FaultsBounded

LEMMA ConfigShells == ConfigInv /\ FaultsBounded => ConfigTypeOK
<1> SUFFICES ASSUME ConfigInv, FaultsBounded PROVE ConfigTypeOK
  OBVIOUS
<1>1. ASSUME NEW e \in Editor, NEW i \in DOMAIN editor[e].todo
      PROVE  editor[e].todo[i] \in Param \cup {"all", "copy"}
  <2>1. \/ editor[e].todo \in Seq(Settable)
        \/ editor[e].todo \in {<<"all">>, <<"copy">>}
    BY DEF ConfigInv, ConfigTypes, Shells, Whole, EverySetting, CopyBack
  <2>2. Settable \subseteq Param
    BY DEF Settable
  <2> QED
    BY <2>1, <2>2
<1>2. ASSUME NEW e \in Editor
      PROVE  /\ editor[e].stage \in
                  {"idle", "next", "got", "sent", "merged", "stored"}
             /\ editor[e].body = <<>> \/ editor[e].body \in Configs
  BY DEF ConfigInv, ConfigTypes, Shells
<1> QED
  BY <1>1, <1>2 DEF ConfigInv, ConfigTypes, FaultsBounded, ConfigTypeOK

LEMMA ConfigTyped == ConfigSpec => []ConfigTypeOK
<1>1. ConfigInit => FaultsBounded
  BY ConfigAssumption DEF ConfigInit, FaultsBounded
<1>2. ConfigSpec => []FaultsBounded
  BY <1>1, FaultsStay, PTL DEF ConfigSpec
<1> QED
  BY <1>2, ConfigInductive, ConfigShells, PTL

(* Openings and deaths of the processes that use the file.                 *)
FileCounted ==
  /\ deaths \in 0 .. MaxDeaths /\ opens \in 0 .. MaxOpens
  /\ blind \in SUBSET Process

LEMMA FileCountedStays ==
  FileCounted /\ [DatabaseNext]_databaseVars => FileCounted'
<1> USE DatabaseAssumption DEF FileCounted, countVars
<1>1. ASSUME FileCounted, NEW p \in Process,
             \/ OpenFile(p) \/ PassOver(p) \/ LooksFor(p)
             \/ FirstProbeFails(p) \/ RunSchema(p) \/ Rebuild(p) \/ AddFeatures(p) \/ MoveMetrics(p)
             \/ DropMetrics(p) \/ UpgradeFails(p)
      PROVE  FileCounted'
  BY <1>1 DEF OpenFile, PassOver, LooksFor, FirstProbeFails, RunSchema, Rebuild, AddFeatures,
              MoveMetrics, DropMetrics, UpgradeFails
<1>2. ASSUME FileCounted, NEW p \in Process,
             \/ CountUsers(p) \/ Repair(p) \/ Seed(p) \/ CreateFirst(p)
             \/ AssignFirst(p) \/ PasswordFileFails(p) \/ CloseFile(p)
             \/ Dies(p) \/ \E u \in DOMAIN account : AddByHand(p, u)
      PROVE  FileCounted'
  BY <1>2 DEF CountUsers, Repair, Seed, CreateFirst, AssignFirst,
              PasswordFileFails, CloseFile, Dies, AddByHand
<1>3. ASSUME FileCounted,
             \/ UNCHANGED databaseVars
             \/ \E u \in DOMAIN account, r \in {"operator", "admin"} :
                  UpdateUserRole(u, r)
      PROVE  FileCounted'
  BY <1>3 DEF databaseVars, UpdateUserRole
<1> QED
  BY <1>1, <1>2, <1>3 DEF DatabaseNext

LEMMA DatabaseTypes == DatabaseSpec => []DatabaseTypeOK
<1>1. DatabaseInit => FileCounted
  BY DatabaseAssumption DEF DatabaseInit, FileCounted
<1>2. DatabaseSpec => []FileCounted
  BY <1>1, FileCountedStays, PTL DEF DatabaseSpec
<1>3. FileInv /\ FileCounted => DatabaseTypeOK
  BY DEF FileInv, FileTypes, FileCounted, DatabaseTypeOK
<1> QED
  BY <1>2, <1>3, FileInductive, PTL

-----------------------------------------------------------------------------
(* The collector of the metrics.                                           *)
MetricsRest == errorRun \in Nat /\ mirrors \in 0 .. MaxMirrors

LEMMA MetricsRestStays ==
  MetricsRest /\ [MetricsNext]_metricsVars => MetricsRest'
<1> SUFFICES ASSUME MetricsRest, [MetricsNext]_metricsVars
             PROVE  MetricsRest'
  OBVIOUS
<1> USE DEF counterVars
<1>1. CASE UNCHANGED metricsVars
  BY <1>1 DEF metricsVars, MetricsRest
<1>2. CASE \/ MirrorStarts \/ MirrorStops \/ MirrorCrashes
           \/ RecordProduced \/ RecordConsumed \/ RecordSkipped
           \/ RecordFailed
  BY <1>2, MetricsAssumption
     DEF MetricsRest, MirrorStarts, MirrorStops, MirrorCrashes, MirrorGone,
         RecordProduced, RecordConsumed, RecordSkipped, RecordFailed
<1>3. CASE \/ ReadConsumer \/ ReadProducer \/ ReadTotals \/ Insert
           \/ InsertFails \/ OtherJobInserts \/ Prune
  BY <1>3 DEF MetricsRest, ReadConsumer, ReadProducer, ReadTotals, Insert,
              InsertFails, OtherJobInserts, Prune
<1> QED
  BY <1>1, <1>2, <1>3 DEF MetricsNext

LEMMA MetricsTypes == MetricsSpec => []MetricsTypeOK
<1> DEFINE MetricsInv == SampleInv /\ TotalsInv /\ MetricsRest
<1>1. MetricsInit => MetricsInv
  <2>1. MetricsInit => MetricsRest
    BY MetricsAssumption DEF MetricsInit, MetricsRest
  <2> QED
    BY <2>1, SampleInit, TotalsStart
<1>2. MetricsInv /\ [MetricsNext]_metricsVars => MetricsInv'
  BY SampleStep, TotalsStep, MetricsRestStays
<1>3. MetricsInv => MetricsTypeOK
  BY DEF SampleInv, CounterTypes, TotalsInv, RowsTyped, MetricsRest,
         MetricsTypeOK
<1> QED
  BY <1>1, <1>2, <1>3, PTL DEF MetricsSpec

-----------------------------------------------------------------------------
(* The protection that halts by itself.                                    *)
HaltRest ==
  /\ mirroring \in SUBSET Mirrored
  /\ metering \in [Mirrored -> {"idle", "alarm", "halting"}]
  /\ stoppers \in Nat /\ unfounded \in BOOLEAN
  /\ records \in Nat /\ asks \in Nat

LEMMA HaltRestStays == HaltRest /\ [AutoHaltNext]_haltVars => HaltRest'
<1> SUFFICES ASSUME HaltRest, [AutoHaltNext]_haltVars PROVE HaltRest'
  OBVIOUS
<1> USE DEF flagVars, alarmVars
<1>1. CASE UNCHANGED haltVars
  BY <1>1 DEF haltVars, HaltRest
<1>2. ASSUME NEW j \in Mirrored,
             \/ \E kind \in {"record", "tombstone", "error"} : Count(j, kind)
             \/ StartMirror(j) \/ StopMirror(j)
      PROVE  HaltRest'
  BY <1>2 DEF HaltRest, Count, StartMirror, StopMirror
<1>3. ASSUME NEW j \in Mirrored, Observe(j) PROVE HaltRest'
  <2>1. unfounded' \in BOOLEAN
    BY <1>3, Zenon DEF Observe
  <2>2. metering' \in [Mirrored -> {"idle", "alarm", "halting"}]
    BY <1>3 DEF Observe, HaltRest
  <2> QED
    BY <1>3, <2>1, <2>2 DEF HaltRest, Observe
<1>4. ASSUME NEW j \in Mirrored, AutoHaltChecks(j) \/ AutoHaltSets(j)
      PROVE  HaltRest'
  BY <1>4 DEF HaltRest, AutoHaltChecks, AutoHaltSets
<1>5. CASE TimePasses
  BY <1>5 DEF HaltRest, TimePasses
<1>6. CASE StopAllMirrors
  BY <1>6 DEF HaltRest, StopAllMirrors
<1>7. CASE \/ EnableProtection \/ ResumeProtection \/ DisableProtection
           \/ SetDisabled \/ HaltProtection \/ HaltSets
  <2>1. /\ UNCHANGED <<mirroring, metering, unfounded, records>>
        /\ stoppers' \in {stoppers, stoppers + 1}
        /\ asks' \in {asks, asks + 1}
    BY <1>7 DEF EnableProtection, ResumeProtection, HaltSets,
                DisableProtection, SetDisabled, HaltProtection, Asks
  <2> QED
    BY <2>1 DEF HaltRest
<1> QED
  BY <1>1, <1>2, <1>3, <1>4, <1>5, <1>6, <1>7 DEF AutoHaltNext

LEMMA AutoHaltTypes == AutoHaltSpec => []AutoHaltTypeOK
<1> DEFINE AutoHaltInv == HaltInv /\ WindowInv /\ HaltRest
<1>1. AutoHaltInit => AutoHaltInv
  <2>1. AutoHaltInit => unfounded \in BOOLEAN
    BY Zenon DEF AutoHaltInit
  <2>2. AutoHaltInit =>
          metering \in [Mirrored -> {"idle", "alarm", "halting"}]
    BY DEF AutoHaltInit
  <2>3. AutoHaltInit => HaltRest
    BY <2>1, <2>2 DEF AutoHaltInit, HaltRest
  <2> QED
    BY <2>3, HaltStarts, WindowStarts
<1>2. AutoHaltInv /\ [AutoHaltNext]_haltVars => AutoHaltInv'
  BY HaltStep, WindowStep, HaltRestStays
<1>3. AutoHaltInv => AutoHaltTypeOK
  BY DEF HaltInv, FlagTypes, WindowInv, SampleTypes, TakenSample, Ticks,
         HaltRest, AutoHaltTypeOK
<1> QED
  BY <1>1, <1>2, <1>3, PTL DEF AutoHaltSpec

-----------------------------------------------------------------------------
(* The rows of clusters and jobs.                                          *)
RegistryRest ==
  /\ mapped \in SUBSET Job
  /\ mirrorOn \in [Job -> Cluster \cup {Gone}] /\ mu \in Shell \cup {Gone}
  /\ requests \in 0 .. MaxRequests /\ used \in SUBSET Job

(* A request is counted when it is sent.                                   *)
LEMMA OneMoreRequest ==
  ASSUME RegistryRest, requests < MaxRequests, requests' = requests + 1
  PROVE  requests' \in 0 .. MaxRequests
BY RegistryAssumption DEF RegistryRest

(* It names a job.                                                         *)
LEMMA NamesAJob ==
  ASSUME RowTypes, NEW s \in Shell
  PROVE  J(s) \in Job
BY DEF RowTypes, Request, J

(* What follows a write leaves the mirror, or takes it back.               *)
LEMMA WrittenMirror ==
  ASSUME RegistryRest, NEW s \in Shell, NEW done, Written(s, done)
  PROVE  /\ mirrorOn' \in [Job -> Cluster \cup {Gone}]
         /\ mu' \in Shell \cup {Gone}
BY DEF RegistryRest, Written

LEMMA SentKeepsTypes ==
  ASSUME RegistryRest, NEW s \in Shell, NEW k \in Cluster,
         \/ ClustersAdd(s, k) \/ ClustersRemove(s, k) \/ ClustersRestore(s, k)
         \/ \E j \in Job, n \in JobName :
              JobsAdd(s, j, n, k) \/ UpdateJob(s, j, n, k)
  PROVE  RegistryRest'
<1>1. /\ requests < MaxRequests /\ requests' = requests + 1
      /\ UNCHANGED <<mapped, mirrorOn, mu>>
      /\ used' = used \/ \E j \in Job : used' = used \cup {j}
  BY DEF ClustersAdd, ClustersRemove, ClustersRestore, JobsAdd, UpdateJob,
         Requests, Sends
<1> QED
  BY <1>1, OneMoreRequest DEF RegistryRest

LEMMA HandledKeepsTypes ==
  ASSUME RegistryRest, RowTypes, NEW s \in Shell,
         \/ SetClusterStatus(s) \/ CountNames(s) \/ InsertJob(s)
         \/ UpdateMappings(s) \/ MappingsFail(s) \/ WriteRow(s)
         \/ StartJob(s) \/ StopJob(s) \/ ReadStopped(s) \/ DeleteJob(s)
         \/ ReadForRestart(s) \/ RowOfBefore(s) \/ PreflightFails(s)
  PROVE  RegistryRest'
<1>1. J(s) \in Job
  BY NamesAJob
<1>2. requests' = requests /\ used' = used
  BY DEF SetClusterStatus, CountNames, InsertJob, UpdateMappings,
         MappingsFail, WriteRow, StartJob, StopJob, ReadStopped, DeleteJob,
         ReadForRestart, RowOfBefore, PreflightFails
<1>3. mapped' \in SUBSET Job
  BY <1>1 DEF RegistryRest, SetClusterStatus, CountNames, InsertJob,
         UpdateMappings, MappingsFail, WriteRow, StartJob, StopJob,
         ReadStopped, DeleteJob, ReadForRestart, RowOfBefore, PreflightFails
<1>4. /\ mirrorOn' \in [Job -> Cluster \cup {Gone}]
      /\ mu' \in Shell \cup {Gone}
  <2>1. CASE CountNames(s)
    BY <2>1, WrittenMirror DEF CountNames, RegistryRest
  <2>2. CASE WriteRow(s)
    BY <2>2, WrittenMirror DEF WriteRow
  <2>3. CASE StartJob(s)
    <3>1. jobs[J(s)] # Gone => jobs[J(s)].cluster \in Cluster
      BY <1>1 DEF RowTypes, Row
    <3> QED
      BY <2>3, <3>1, <1>1 DEF StartJob, RegistryRest
  <2>4. CASE StopJob(s)
    BY <2>4, <1>1 DEF StopJob, RegistryRest
  <2>5. CASE \/ SetClusterStatus(s) \/ InsertJob(s) \/ UpdateMappings(s)
             \/ MappingsFail(s) \/ ReadStopped(s) \/ DeleteJob(s)
             \/ ReadForRestart(s) \/ RowOfBefore(s) \/ PreflightFails(s)
    BY <2>5 DEF RegistryRest, SetClusterStatus, InsertJob, UpdateMappings,
         MappingsFail, ReadStopped, DeleteJob, ReadForRestart, RowOfBefore,
         PreflightFails
  <2> QED
    BY <2>1, <2>2, <2>3, <2>4, <2>5
<1> QED
  BY <1>2, <1>3, <1>4 DEF RegistryRest

LEMMA RegistryRestStays ==
  RowTypes /\ RegistryRest /\ [RegistryNext]_registryVars => RegistryRest'
<1> SUFFICES ASSUME RowTypes, RegistryRest, [RegistryNext]_registryVars
             PROVE  RegistryRest'
  OBVIOUS
<1>1. CASE UNCHANGED registryVars
  BY <1>1 DEF registryVars, RegistryRest
<1>2. ASSUME NEW s \in Shell,
             \/ ClustersPurge(s)
             \/ \E j \in Job : \/ JobsStart(s, j) \/ JobsStop(s, j)
                               \/ JobsPause(s, j) \/ JobsDelete(s, j)
                               \/ JobsRestart(s, j) \/ JobsForceRestart(s, j)
      PROVE  RegistryRest'
  <2>1. /\ requests < MaxRequests /\ requests' = requests + 1
        /\ UNCHANGED <<mapped, mirrorOn, mu, used>>
    BY <1>2 DEF ClustersPurge, JobsStart, JobsStop, JobsPause, JobsDelete,
         JobsRestart, JobsForceRestart, JobsCommand, Requests, Sends
  <2> QED
    BY <2>1, OneMoreRequest DEF RegistryRest
<1>3. CASE ArchiveInactiveClusters
  BY <1>3 DEF ArchiveInactiveClusters, RegistryRest
<1> QED
  BY <1>1, <1>2, <1>3, SentKeepsTypes, HandledKeepsTypes DEF RegistryNext

LEMMA RegistryTypes == RegistrySpec => []RegistryTypeOK
<1>1. RegistryInit => RegistryRest
  BY RegistryAssumption DEF RegistryInit, RegistryRest
<1>2. RegistryInv => RowTypes
  BY DEF RegistryInv
<1>3. RegistrySpec => []RegistryRest
  BY <1>1, <1>2, RegistryInductive, RegistryRestStays, PTL DEF RegistrySpec
<1>4. RegistryInv /\ RegistryRest => RegistryTypeOK
  BY DEF RegistryInv, RowTypes, Request, RequestStages, RegistryRest,
         RegistryTypeOK
<1> QED
  BY <1>3, <1>4, RegistryInductive, PTL

-----------------------------------------------------------------------------
(* The watch over payloads.                                                *)
WatchRest ==
  /\ ingested \in 0 .. MaxIngested /\ watching \in BOOLEAN
  /\ learnt \in 0 .. Learning /\ average \in SUBSET Value
  /\ alarmed \in BOOLEAN
  /\ missed \in SUBSET Key /\ doubtful \in SUBSET (1 .. ingested)
  /\ \A n \in DOMAIN changes : changes[n] \in 0 .. HitTicks

LEMMA WatchRestStays == WatchRest /\ [PayloadNext]_payloadVars => WatchRest'
<1> SUFFICES ASSUME WatchRest, [PayloadNext]_payloadVars PROVE WatchRest'
  OBVIOUS
<1> USE PayloadAssumption DEF payloadHistory
<1>1. CASE UNCHANGED payloadVars
  BY <1>1 DEF payloadVars, WatchRest
<1>2. CASE HitsAge
  BY <1>2 DEF HitsAge, AgeAfterTick, WatchRest
<1>3. ASSUME NEW k \in Key, NEW v \in Value, Ingest(k, v) PROVE WatchRest'
  <2>1. /\ ingested' \in 0 .. MaxIngested /\ ingested' = ingested + 1
        /\ learnt' \in 0 .. Learning /\ watching' \in BOOLEAN
    BY <1>3 DEF Ingest, WatchRest
  <2>2. average' \in SUBSET Value
    BY <1>3 DEF Ingest, WatchRest
  <2>3. alarmed' \in BOOLEAN
    BY <1>3, Zenon DEF Ingest, Storm
  <2>4. \A n \in DOMAIN changes' : changes'[n] \in 0 .. HitTicks
    BY <1>3 DEF Ingest, ChangesWith, WatchRest
  <2>5. missed' \in SUBSET Key /\ doubtful' \in SUBSET (1 .. ingested')
    BY <1>3, <2>1 DEF Ingest, Notice, WatchRest
  <2> QED
    BY <2>1, <2>2, <2>3, <2>4, <2>5 DEF WatchRest
<1>4. ASSUME NEW k \in Key, NEW v \in Value, PassUnseen(k, v)
      PROVE  WatchRest'
  BY <1>4 DEF PassUnseen, WatchRest
<1>5. CASE SwitchWatch
  <2>1. watching' \in BOOLEAN
    BY <1>5, Zenon DEF SwitchWatch
  <2> QED
    BY <1>5, <2>1 DEF SwitchWatch, WatchRest
<1> QED
  BY <1>1, <1>2, <1>3, <1>4, <1>5 DEF PayloadNext

LEMMA PayloadTyped == PayloadSpec => []PayloadTypeOK
<1> DEFINE PayloadInv == WatchInv /\ WatchRest
<1>1. PayloadInit => PayloadInv
  <2>1. PayloadInit => alarmed \in BOOLEAN /\ watching \in BOOLEAN
    BY Zenon DEF PayloadInit
  <2>2. PayloadInit => WatchRest
    BY <2>1, PayloadAssumption DEF PayloadInit, WatchRest
  <2> QED
    BY <2>2, WatchStarts
<1>2. PayloadInv /\ [PayloadNext]_payloadVars => PayloadInv'
  BY WatchStep, WatchRestStays
<1>3. PayloadInv => PayloadTypeOK
  BY DEF WatchInv, PayloadTypes, WatchRest, PayloadTypeOK
<1> QED
  BY <1>1, <1>2, <1>3, PTL DEF PayloadSpec

-----------------------------------------------------------------------------
(* The compliance reports.                                                 *)
ReportsRest ==
  /\ now \in 0 .. MaxTime /\ lastMade \in [Period -> Never .. MaxTime]
  /\ reports \subseteq Reports /\ ofUsers \in BOOLEAN
  /\ starts \in 0 .. MaxStarts /\ scheduleEdits \in 0 .. MaxScheduleEdits
  /\ broken \in 0 .. MaxBroken

(* The day of a time begins no later, and ends no earlier than it begins.  *)
LEMMA MidnightIs ==
  ASSUME NEW t \in 0 .. MaxTime + 1
  PROVE  Midnight(t) \in 0 .. MaxTime + 1
<1> DEFINE d == Day
<1>1. d \in Nat \ {0} /\ t \in Nat /\ MaxTime \in Nat
  BY Lengths, ComplianceAssumption
<1> HIDE DEF d
<1>2. t \div d \in Int /\ 0 <= t % d /\ t % d < d /\ t % d \in Int
      /\ t = d * (t \div d) + (t % d)
  BY <1>1, Division
<1>3. t \div d >= 0
  BY <1>1, SMT
<1>4. (t \div d) * d = d * (t \div d) /\ d * (t \div d) >= 0
      /\ d * (t \div d) \in Int
  BY <1>1, <1>2, <1>3, SMT
<1>5. (t \div d) * d \in 0 .. MaxTime + 1
  BY <1>1, <1>2, <1>4
<1> QED
  BY <1>5 DEF d, Midnight

LEMMA GeneratedIsReport ==
  ASSUME ReportsRest, NEW p \in Period, NEW t \in {now, now + 1}
  PROVE  Generated(p, t) \in Reports
<1>1. /\ now \in Nat /\ MaxTime \in Nat /\ now <= MaxTime
      /\ Day \in Nat /\ Week \in Nat /\ t \in 0 .. MaxTime + 1
  BY Lengths, ComplianceAssumption DEF ReportsRest
<1>2. Midnight(t) \in 0 .. MaxTime + 1
  BY <1>1, MidnightIs
<1>3. /\ Midnight(t) \in -Week .. MaxTime + 1
      /\ t - Week \in -Week .. MaxTime + 1
      /\ Midnight(t) + Day \in 0 .. MaxTime + 1 + Day
      /\ t \in 0 .. MaxTime + 1 + Day
  BY <1>1, <1>2
<1>4. (~disturbed) \in BOOLEAN
  OBVIOUS
<1> QED
  BY <1>3, <1>4 DEF Generated, Reports, ReportsRest

LEMMA ReportsRestStays ==
  ReportTypes /\ ReportsRest /\ [ComplianceNext]_complianceVars =>
    ReportsRest'
<1> SUFFICES ASSUME ReportTypes, ReportsRest,
                    [ComplianceNext]_complianceVars
             PROVE  ReportsRest'
  OBVIOUS
<1> USE ComplianceAssumption DEF Never
<1>1. CASE UNCHANGED complianceVars
  BY <1>1 DEF complianceVars, ReportsRest
<1>2. CASE Look
  <2>1. reports' \subseteq Reports
    <3>1. schedule.periods \subseteq Period
      BY DEF ReportTypes, Schedules
    <3> QED
      BY <1>2, <3>1, GeneratedIsReport DEF Look, ReportsRest
  <2>2. lastMade' \in [Period -> Never .. MaxTime]
    BY <1>2 DEF Look, Mark, ReportsRest
  <2>3. broken' \in 0 .. MaxBroken
    BY <1>2 DEF Look, ReportsRest
  <2> QED
    BY <1>2, <2>1, <2>2, <2>3 DEF Look, ReportsRest
<1>3. CASE Pass
  BY <1>3 DEF Pass, ReportsRest
<1>4. CASE ProgramEnds \/ ChangeSchedule
  BY <1>4 DEF ProgramEnds, ChangeSchedule, ReportsRest
<1>5. CASE ProgramStarts
  BY <1>5 DEF ProgramStarts, ReportsRest
<1>6. CASE RequestReport \/ DeleteUserWithReports
  <2>1. ofUsers' \in BOOLEAN
    BY <1>6, Zenon DEF RequestReport, DeleteUserWithReports
  <2> QED
    BY <1>6, <2>1 DEF RequestReport, DeleteUserWithReports, ReportsRest
<1> QED
  BY <1>1, <1>2, <1>3, <1>4, <1>5, <1>6 DEF ComplianceNext

LEMMA ComplianceTypes == ComplianceSpec => []ComplianceTypeOK
<1> DEFINE ComplianceInv == ReportsInv /\ ReportsRest
<1>1. ComplianceInit => ComplianceInv
  <2>1. ComplianceInit => ofUsers \in BOOLEAN
    BY Zenon DEF ComplianceInit
  <2>2. ComplianceInit => ReportsRest
    BY <2>1, ComplianceAssumption DEF ComplianceInit, ReportsRest, Never
  <2> QED
    BY <2>2, ReportsInit
<1>2. ComplianceInv /\ [ComplianceNext]_complianceVars => ComplianceInv'
  BY ReportsStep, ReportsRestStays DEF ReportsInv
<1>3. ComplianceInv => ComplianceTypeOK
  BY DEF ReportsInv, ReportTypes, ReportsRest, ComplianceTypeOK
<1> QED
  BY <1>1, <1>2, <1>3, PTL DEF ComplianceSpec

-----------------------------------------------------------------------------
(* Throttling and remediation.  The parallelism stays between 1 and 20,    *)
(* that of a decision, too.                                                *)
Parallels ==
  /\ rowParallel \in 1 .. 20
  /\ \A t \in Throttle :
       throttle[t].stage \in Decided => throttle[t].parallel \in 1 .. 20

HealingRest ==
  /\ runsWith \in Nat /\ adjustedAt \in Int /\ appliedAt \in Int
  /\ ticks \in 0 .. MaxTicks /\ edits \in 0 .. MaxEdits

HealingMarks == advised \in BOOLEAN /\ asked \in BOOLEAN /\ hurried \in BOOLEAN

LEMMA ParallelsStay ==
  HealingTypes /\ Parallels /\ [SelfHealingNext]_selfHealingVars => Parallels'
<1> SUFFICES ASSUME HealingTypes, Parallels, [SelfHealingNext]_selfHealingVars
             PROVE  Parallels'
  OBVIOUS
<1> USE DEF jobVars, healVars
<1>1. CASE UNCHANGED <<rowParallel, throttle>>
  BY <1>1 DEF Parallels
<1>2. CASE Tick
  <2>1. rowParallel' = rowParallel
    BY <1>2 DEF Tick
  <2>2. \/ throttle' = throttle
        \/ \E t \in Throttle : Turns(t, [Waiting EXCEPT !.stage = "called"])
    BY <1>2 DEF Tick
  <2> QED
    BY <2>1, <2>2, WaitingType, ThrottleTurns DEF Parallels, Decided
<1>3. ASSUME NEW t \in Throttle, Decide(t) PROVE Parallels'
  <2>1. OptimalParallelism(rowParallel, metric) \in 1 .. 20
          \/ metric \notin {"lagging", "failing", "slow"}
    BY DEF Parallels, OptimalParallelism, Least, Greatest
  <2>2. rowParallel' = rowParallel
    BY <1>3 DEF Decide
  <2>3. throttle'[t].stage \in Decided => throttle'[t].parallel \in 1 .. 20
    BY <1>3, <2>1, WaitingType DEF Decide, Turns, Gives, HealingTypes, Decided
  <2>4. \A u \in Throttle \ {t} : throttle'[u] = throttle[u]
    BY <1>3 DEF Decide, Turns, Gives, HealingTypes
  <2> QED
    BY <2>2, <2>3, <2>4 DEF Parallels
<1>4. ASSUME NEW t \in Throttle, CheckCooldown(t) \/ ApplyFails(t)
                                 \/ RestartFails(t)
      PROVE  Parallels'
  <2>1. rowParallel' = rowParallel
    BY <1>4 DEF CheckCooldown, ApplyFails, RestartFails
  <2>2. throttle'[t].stage \in Decided =>
          /\ throttle[t].stage \in Decided
          /\ throttle'[t].parallel = throttle[t].parallel
    BY <1>4, WaitingType
       DEF CheckCooldown, ApplyFails, RestartFails, Turns, Gives, HealingTypes,
           ThrottleType, Decided, Is
  <2>3. \A u \in Throttle \ {t} : throttle'[u] = throttle[u]
    BY <1>4 DEF CheckCooldown, ApplyFails, RestartFails, Turns, Gives,
                HealingTypes
  <2> QED
    BY <2>1, <2>2, <2>3 DEF Parallels
<1>5. ASSUME NEW t \in Throttle, Apply(t) \/ Restart(t) PROVE Parallels'
  <2>1. /\ throttle[t].stage \in Decided
        /\ rowParallel' = throttle[t].parallel
    BY <1>5 DEF Apply, Adjusts, Restart, Is, Decided
  <2>2. throttle'[t].stage \in Decided =>
          throttle'[t].parallel = throttle[t].parallel
    BY <1>5, WaitingType
       DEF Apply, Adjusts, Restart, Turns, Gives, HealingTypes, ThrottleType,
           Decided
  <2>3. \A u \in Throttle \ {t} : throttle'[u] = throttle[u]
    BY <1>5 DEF Apply, Adjusts, Restart, Turns, Gives, HealingTypes
  <2> QED
    BY <2>1, <2>2, <2>3 DEF Parallels
<1>6. ASSUME \/ MetricsChange \/ AnalyzeJobNow \/ AnalyzeJobTimeSeries
             \/ Recommend \/ DropMirror \/ ResetRow \/ StartAgain
             \/ StopTheJob \/ WriteStopped \/ StartTheJob \/ EditTheJob
             \/ UNCHANGED selfHealingVars
      PROVE  UNCHANGED <<rowParallel, throttle>>
  BY <1>6 DEF MetricsChange, AnalyzeJobNow, AnalyzeJobTimeSeries, Recommend,
              DropMirror, ResetRow, StartAgain, StopTheJob, WriteStopped,
              StartTheJob, EditTheJob, selfHealingVars
<1> QED
  BY <1>1, <1>2, <1>3, <1>4, <1>5, <1>6 DEF SelfHealingNext

LEMMA MarksStay ==
  HealingMarks /\ [SelfHealingNext]_selfHealingVars => HealingMarks'
<1> SUFFICES ASSUME HealingMarks, [SelfHealingNext]_selfHealingVars
             PROVE  HealingMarks'
  OBVIOUS
<1>1. ASSUME \/ MetricsChange \/ DropMirror \/ ResetRow \/ StartAgain
             \/ StopTheJob \/ WriteStopped \/ StartTheJob \/ EditTheJob
             \/ UNCHANGED selfHealingVars
             \/ \E t \in Throttle : \/ Decide(t) \/ CheckCooldown(t)
                                   \/ Apply(t) \/ ApplyFails(t)
                                   \/ RestartFails(t)
      PROVE  UNCHANGED <<advised, asked, hurried>>
  BY <1>1 DEF MetricsChange, DropMirror, ResetRow, StartAgain, StopTheJob,
              WriteStopped, StartTheJob, EditTheJob, selfHealingVars, Decide,
              CheckCooldown, Apply, ApplyFails, RestartFails, insightVars,
              limitVars, SameHistory
<1>2. CASE UNCHANGED <<advised, asked, hurried>>
  BY <1>2 DEF HealingMarks
<1>3. CASE Tick
  <2>1. asked' \in BOOLEAN
    BY <1>3, Zenon DEF Tick, HealingMarks
  <2>2. UNCHANGED <<advised, hurried>>
    BY <1>3 DEF Tick, limitVars
  <2> QED
    BY <2>1, <2>2 DEF HealingMarks
<1>4. CASE AnalyzeJobNow
  <2>1. asked' \in BOOLEAN
    BY <1>4, Zenon DEF AnalyzeJobNow
  <2>2. UNCHANGED <<advised, hurried>>
    BY <1>4 DEF AnalyzeJobNow, SameHistory, limitVars
  <2> QED
    BY <2>1, <2>2 DEF HealingMarks
<1>5. CASE AnalyzeJobTimeSeries
  <2>1. asked' \in BOOLEAN /\ advised' \in BOOLEAN
    BY <1>5, Zenon DEF AnalyzeJobTimeSeries
  <2>2. hurried' = hurried
    BY <1>5 DEF AnalyzeJobTimeSeries, SameHistory, limitVars
  <2> QED
    BY <2>1, <2>2 DEF HealingMarks
<1>6. CASE Recommend
  <2>1. advised' \in BOOLEAN
    BY <1>6, Zenon DEF Recommend
  <2>2. UNCHANGED <<asked, hurried>>
    BY <1>6 DEF Recommend, SameHistory, limitVars
  <2> QED
    BY <2>1, <2>2 DEF HealingMarks
<1>7. ASSUME NEW t \in Throttle, Restart(t) PROVE HealingMarks'
  <2>1. hurried' \in BOOLEAN
    BY <1>7, Zenon DEF Restart
  <2>2. UNCHANGED <<advised, asked>>
    BY <1>7 DEF Restart
  <2> QED
    BY <2>1, <2>2 DEF HealingMarks
<1> QED
  BY <1>1, <1>2, <1>3, <1>4, <1>5, <1>6, <1>7 DEF SelfHealingNext

LEMMA HealingRestStays ==
  HealingTypes /\ HealingRest /\ [SelfHealingNext]_selfHealingVars =>
    HealingRest'
<1> SUFFICES ASSUME HealingTypes, HealingRest,
                    [SelfHealingNext]_selfHealingVars
             PROVE  HealingRest'
  OBVIOUS
<1> USE SelfHealingAssumption
        DEF HealingRest, jobVars, healVars, insightVars, limitVars, SameElse,
            SameHistory
<1>1. CASE Tick \/ MetricsChange
  BY <1>1 DEF Tick, MetricsChange
<1>2. CASE AnalyzeJobNow \/ AnalyzeJobTimeSeries \/ Recommend
  BY <1>2 DEF AnalyzeJobNow, AnalyzeJobTimeSeries, Recommend
<1>3. CASE DropMirror \/ ResetRow \/ StartAgain
  BY <1>3 DEF DropMirror, ResetRow, StartAgain, HealingTypes
<1>4. CASE StopTheJob \/ WriteStopped \/ StartTheJob \/ EditTheJob
  BY <1>4 DEF StopTheJob, WriteStopped, StartTheJob, EditTheJob, HealingTypes
<1>5. ASSUME NEW t \in Throttle, \/ Decide(t) \/ CheckCooldown(t) \/ Apply(t)
                                 \/ ApplyFails(t) \/ RestartFails(t)
      PROVE  HealingRest'
  BY <1>5 DEF Decide, CheckCooldown, Apply, Adjusts, ApplyFails, RestartFails
<1>6. ASSUME NEW t \in Throttle, Restart(t) PROVE HealingRest'
  <2>1. throttle[t].batch \in Int
    BY DEF HealingTypes, ThrottleType
  <2> QED
    BY <1>6, <2>1 DEF Restart
<1>7. CASE UNCHANGED selfHealingVars
  BY <1>7 DEF selfHealingVars
<1> QED
  BY <1>1, <1>2, <1>3, <1>4, <1>5, <1>6, <1>7 DEF SelfHealingNext

LEMMA SelfHealingTypes == SelfHealingSpec => []SelfHealingTypeOK
<1> DEFINE Healing == HealingInv /\ Parallels /\ HealingRest /\ HealingMarks
<1>1. SelfHealingInit => Healing
  <2>1. SelfHealingInit => HealingMarks
    BY Zenon DEF SelfHealingInit, HealingMarks
  <2>2. SelfHealingInit => Parallels
    BY WaitingType DEF SelfHealingInit, Parallels, Decided
  <2>3. SelfHealingInit => HealingRest
    BY SelfHealingAssumption DEF SelfHealingInit, HealingRest
  <2> QED
    BY <2>1, <2>2, <2>3, HealingStarts
<1>2. Healing /\ [SelfHealingNext]_selfHealingVars => Healing'
  BY HealingStep, ParallelsStay, HealingRestStays, MarksStay DEF HealingInv
<1>3. Healing => SelfHealingTypeOK
  BY DEF HealingInv, HealingTypes, ThrottleType, Parallels, HealingRest,
         HealingMarks, SelfHealingTypeOK
<1> QED
  BY <1>1, <1>2, <1>3, PTL DEF SelfHealingSpec

-----------------------------------------------------------------------------
(* Whichever service runs, its variables keep their types and every        *)
(* counter its bound.  (The run asks it of the one that was picked; here   *)
(* it is of all.)                                                          *)
THEOREM ServicesTyped == ServicesSpec => []ServicesTypeOK
<1> DEFINE Typed ==
      /\ AccountsTypeOK /\ AutoHaltTypeOK /\ ComplianceTypeOK /\ ConfigTypeOK
      /\ CredentialsTypeOK /\ DatabaseTypeOK /\ MetricsTypeOK
      /\ MirrorTypeOK /\ VerifyTypeOK /\ PayloadTypeOK /\ RegistryTypeOK
      /\ SelfHealingTypeOK
<1>1. ServicesSpec => []Typed
  BY Composed, AccountsTypes, AutoHaltTypes, ComplianceTypes, ConfigTyped,
     CredentialsTypes, DatabaseTypes, MetricsTypes, MirrorTypes, VerifyTypes,
     PayloadTyped, RegistryTypes, SelfHealingTypes, PTL
<1>2. Typed => ServicesTypeOK
  BY DEF ServicesTypeOK
<1> QED
  BY <1>1, <1>2, PTL
=============================================================================
