SPECIFICATION ServicesSpec
CONSTANTS
  Alike = {s, t}
  User = {u, v}
  Root = u
  Cli = {s, t}
  NoToken = NoToken
  MaxTokens = 2
  MaxCalls = 4
  MaxPassword = 2
  MaxFailures = 1
  Mirrored = {s, t}
  Window = 2
  Burst = 2
  TombstoneMin = 2
  MaxCounted = 2
  MaxSamples = 2
  MaxAsks = 2
  UnitsPerHour = 2
  HoursPerDay = 2
  DaysPerWeek = 2
  MaxTime = 9
  MaxStarts = 1
  MaxScheduleEdits = 1
  MaxBroken = 1
  Editor = {s, t}
  Param = {"server.port", "ai.token", "clusters.source", "clusters.target", "replication.batch_size"}
  Masked = 99
  MaxCommands = 2
  MaxFaults = 1
  Editing = {s, t}
  NoCluster = NoCluster
  Placeholder = 99
  MaxEditions = 4
  Daemon = Daemon
  Tool = Tool
  MaxDeaths = 1
  MaxOpens = 2
  ErrorLimit = 0
  MaxCount = 2
  MaxSkips = 1
  MaxRows = 3
  MaxMirrors = 2
  Partition = {s, t}
  Worker = {s, t}
  Hour = 1
  MaxClock = 1
  MaxWorks = 3
  Shard = {s, t}
  MaxRecords = 2
  Key = {k, l, m}
  Plain = {x}
  Scrambled = {y}
  NoValue = NoValue
  Learning = 1
  KeyCap = 2
  MinHits = 2
  MinRewrites = 1
  HitTicks = 2
  MaxIngested = 3
  Shell = {s, t}
  Job = {i, j}
  JobName = {n, o}
  Cluster = {c}
  Gone = Gone
  MaxRequests = 3
  Throttle = {s, t}
  Sizes = {140, 60}
  MaxTicks = 2
  MaxEdits = 1
SYMMETRY Symmetry
VIEW ServiceView
INVARIANTS ServicesTypeOK OldTokensOverlap RolelessIsTemporary SoloHaltIsJustified LeftoverHasCause ReportsFollow SecretsAreReal EditsSurvive SecretsOfLastEdit OpenIsUpgraded OldMetricsKept DaemonHasAdmin SampleConsistent NeverBelowCurrent RowsOfOneUpdate PointsOfOneCalculation NoLagMeansCommitted RewritesCounted RemovedIdle NamesUnique StoppedStaysStopped BatchWithinLimits
CHECK_DEADLOCK FALSE
