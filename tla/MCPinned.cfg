SPECIFICATION StoreSpec
CONSTANTS
  Reporters = {h1, h2}
  Witnesses = {h1}
  MaxGenerations = 2
  PruneEvery = 1
  MaxIssued = 5
  MaxRows = 0
PROPERTY SweepBounds
