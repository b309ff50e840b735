\* Probes: one change of the world and one tick during a probe of a box; two DNS
\* queries of the same id or of two; two sweeps over three evaluators, one without
\* an adapter.  Documents: a page over two generations; two importers and three
\* imports; two file names and two edits; two identities over two generations, one
\* of them kept.
SPECIFICATION EvidenceSpec
CONSTANTS
  Nil = Nil
  BoxKinds = {"deny", "gateway", "lease"}
  MaxReadings = 1
  MaxChanges = 1
  Queries = 2
  Ids = {1, 2}
  Fixtures <- MCFixtures
  Refused = {"nq_sql_contract_state"}
  Stale = 0
  MaxCycles = 2
  MaxClock = 1
  None = None
  Findings = {"e"}
  WithEvidence = {"e"}
  SelfHealth = {}
  Watched = {}
  Fresh = 0
  RecoveryGens = 2
  DisplayLag = 0
  Targets = {"quiesced"}
  MaxGenerations = 2
  MaxTime = 1
  MaxEdits = 1
  Importers = {i1, i2}
  Documents <- MCProjected
  MaxRuns = 3
  FileNames = {1, 2}
  Files <- MCFiles
  PacketManifests <- MCPacketManifests
  MaxFileEdits = 2
  Exchanged <- MCIdentities
  Parent <- MCParent
  Manifests <- MCManifests
  Modes = {"observed", "drill", "replay", "synthetic"}
  GoneAfter = 1
  Kept = 1
  MaxExchanged = 2
INVARIANTS VerdictIsWitnessed RowTellsTheReply SweepTellsEach
INVARIANTS ReceiptNamesItsPacket SetIsTheManifest WatermarkMissesNoFiring
PROPERTY PageTellsTheStore
CHECK_DEADLOCK FALSE
