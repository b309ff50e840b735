\* Two hosts of different platforms, two threads per agent, late answers and
\* restarts; two databases at two paths behind the declared one; reports shorter and
\* longer than the pipe; 43 documents of the suite, edited once.
SPECIFICATION AgentSpec
CONSTANTS
  Nothing = Nothing
  Sources = {"alpha", "beta"}
  Config <- MCConfig
  NameOf <- MCNameOf
  Readings <- MCReadings
  Workers = 2
  MaxCycle = 2
  MaxCrashes = 1
  Files = {f1, f2}
  Nobody = Nobody
  MaxInode = 2
  MaxDatabase = 2
  MaxBinary = 2
  MaxProbes = 1
  Capacity = 2
  Sizes = {0, 1, 2, 3, 4}
  PollLimit = 3
  KillGrace = 1
  MaxPolls = 6
  Suites <- MCSuites
  MaxSuiteEdits = 1
INVARIANTS HelperOutcomeIsJust PlanIsWhatWasSelected
PROPERTIES StoredIsTold SubstrateRowsTrue CycleEnds
CHECK_DEADLOCK FALSE
