\* Every family of detectors over four generations; the features over every
\* history of one finding and of the metric before, and two more generations.
SPECIFICATION DetectionSpec
CONSTANTS
  h1 = h1
  nohost = nohost
  a = a
  b = b
  Hosts = {h1, nohost}
  Host = h1
  NoHost = nohost
  Kinds <- MCKinds
  Declarations = {}
  Sources = {}
  RuleHashes = {}
  SourceOf <- MCSourceOf
  RecoveryWindow = 2
  EntityGcThreshold = 1
  WarnAfter = 3
  CriticalAfter = 6
  Config <- MCConfig
  Windows <- MCWindows
  Families = {"host", "services", "sqlite", "metrics", "logs", "zfs", "smart", "checks"}
  IdleHost <- MCIdleHost
  Data <- MCData
  Kept = {a}
  Elapses = {2}
  MaxGen = 4
  RegimeHosts = {"h"}
  RegimeKinds <- MCRegimeKinds
  RegimeSource <- MCRegimeSource
  RegimeWarn = 30
  RegimeCritical = 180
  MaxRegimeGen = 9
  TrajectoryMinSamples = 3
  TrajectoryWindow = 6
  PersistenceWindow = 6
  EntrenchedStreak = 3
  ShortStreak = 2
  ManyInterruptions = 3
  RecoveryLookback = 10
  MinRunLength = 2
  MinCycles = 1
  NormalFactor = 1
  SlowFactor = 2
  ResolutionWindow = 6
  ResolutionMinSamples = 3
  CoOccurrenceMinDepth = 2
  CoOccurrenceLookback = 3
  Inputs <- MCInputs
  NoValue = NoValue
  KindOrder <- MCKindOrder
  PastKind = "disk_pressure"
  PastGens = 7
  PastSeries <- MCPastSeries
INVARIANTS UnobservableHasCause FeaturesAsDefined
PROPERTY NoReportNoRecovery
CHECK_DEADLOCK FALSE
