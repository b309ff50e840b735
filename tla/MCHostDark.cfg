SPECIFICATION Spec
CONSTANTS
  h1 = h1
  d1 = d1
  Hosts = {h1}
  Declarations = {d1}
  Sources = {}
  RuleHashes = {}
  SourceOf <- MCSourceOf
  Kinds = {"stale_host", "source_error", "disk_pressure", "zfs_witness_silent", "zfs_pool_degraded"}
  StaleGenerations = 1
  FreshGenerations = 1
  Reports <- AnyReports
  DeclarationFiles <- EditedFiles
  MaxGen = 5
  RecoveryWindow = 2
  EntityGcThreshold = 1
  WarnAfter = 3
  CriticalAfter = 6
INVARIANT ReleasedWithDeclaration
PROPERTY ClearedOnlyOnEvidence
PROPERTY BlindnessKeepsStreak
