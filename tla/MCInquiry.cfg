\* Two generations and their transactions; three targets, every budget at its
\* limit; two invocations over files edited
\* once.
SPECIFICATION InquiriesSpec
CONSTANTS
  h1 = h1
  s1 = s1
  d1 = d1
  Hosts = {h1}
  Declarations = {d1}
  Sources = {s1}
  RuleHashes = {}
  SourceOf <- MCSourceOf
  Kinds = {"disk_pressure"}
  RecoveryWindow = 2
  EntityGcThreshold = 2
  WarnAfter = 1
  CriticalAfter = 2
  TicksPerSecond = 2
  MaxSnapshotAge = 0
  EvidenceLimit = 2
  MaxGen = 2
  MaxTime = 2
  Targets = {1, 2, 3}
  MaxDepth = 3
  Numeric = {1, 3}
  AddressNames = {3}
  Grants <- MCGrants
  Remainders <- MCRemainders
  PerTarget = 1
  Total = 3
  TicksPerMs = 2
  ReserveDivisor = 2
  ReserveCap = 1
  MaxTicks = 8
  Absent = Absent
  Plans <- MCPlans
  Intents <- MCIntents
  Catalogs <- MCCatalogs
  Envelopes <- MCEnvelopes
  MaxFileEdits = 1
  MaxInquiries = 2
INVARIANTS PreflightForetells ReceiptTellsTheWire
PROPERTIES AnswerIsRight WireWithinGrant InvocationEnds
CHECK_DEADLOCK FALSE
