\* A page over two generations with one edit of the dialog's inputs.
SPECIFICATION DashSpec
CONSTANTS
  None = None
  Findings = {"e"}
  WithEvidence = {"e"}
  SelfHealth = {}
  Watched = {}
  Fresh = 1
  RecoveryGens = 2
  DisplayLag = 0
  Targets = {"quiesced"}
  MaxGenerations = 2
  MaxTime = 2
  MaxEdits = 1
INVARIANT ConfirmedWasPreviewed
CHECK_DEADLOCK FALSE
