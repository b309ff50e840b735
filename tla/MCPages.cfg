SPECIFICATION Spec
CONSTANTS
  Hosts = {h1}
  Declarations = {}
  Sources = {s1}
  RuleHashes = {"c1", "c2"}
  SourceOf <- OneSource
  LaneOf <- OneLane
  Kinds = {"zfs_pool_degraded"}
  MinSeverity = "info"
  Cooldown = 2
  Ttls = {1}
  MaxGen = 3
  MaxTime = 2
  RecoveryWindow = 1
  EntityGcThreshold = 2
  WarnAfter = 1
  CriticalAfter = 2
INVARIANT RetiredBasisAgrees
INVARIANT ExpiryIsHonoured
PROPERTY NoPageForPaused
PROPERTY PagesClimb
PROPERTY ActsOnReviewedRow
