\* Two hosts, of which one may pin what the other lets go; one generation is kept
\* and a sweep made every second cycle.  The thresholds of the sentinel are the
\* smallest at which each rule fires before and after every other.
SPECIFICATION BothSpec
CONSTANTS
  Reporters = {h1, h2}
  Witnesses = {h1}
  MaxGenerations = 1
  PruneEvery = 2
  MaxIssued = 4
  MaxRows = 3
  MaxAge = 2
  PollEvery = 1
  Grace = 3
  StuckAfter = 2
INVARIANTS Accounted ReceiptsExact CurrentResolves NoFalseRecovery
PROPERTIES RefinesLog SilenceNoticed SilenceHeard
