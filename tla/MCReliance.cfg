\* The bounds of MCClaims.cfg: what CONSUMER_RELIANCE.md says of a request.
SPECIFICATION ClaimsSpec
CONSTANTS
  Desks = {"claim_registry", "dns_state", "ingest_state", "service_state", "sqlite_wal_state", "nq_evaluator_state",
           "nq_binary_mtime_state", "nq_sql_contract_state", "disk_state"}
  Drafts <- MCDrafts
  Questions <- MCQuestions
  Says <- MCSays
  Profiles <- MCProfiles
  Contexts <- MCContexts
  Requests <- MCRequests
  Subject = "repo"
  MaxNamed = 1
  Stale = 2
  Drift = 0
  DiskTargets = {"host", "pool"}
  Window = 4
  ElevatedSpan = 2
  SevereSpan = 4
  ElevatedSamples = 2
  SevereSamples = 2
  MaxTime = 4
  MaxBack = 1
  MaxRows = 2
  MaxFiles = 3
  MaxReceipts = 2
  MaxAnswers = 1
  Hosts <- MCHosts
  Kinds <- MCKinds
  Declarations = {}
  Sources = {}
  SourceOf <- MCSourceOf
  RuleHashes = {}
  RecoveryWindow = 2
  EntityGcThreshold = 10
  WarnAfter = 30
  CriticalAfter = 180
  Tuples = {"loop", "other"}
  OwnTuple = "loop"
  CoverageFiles <- MCCoverageFiles
  KeepGens = 2
  MaxCoverageTime = 6
  MaxGen = 4
  MaxRules = 3
INVARIANT RelianceIsOnTheClaim
CHECK_DEADLOCK FALSE
