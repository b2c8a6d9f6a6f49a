SPECIFICATION FairSpec
CONSTANTS
  w1 = w1
  r1 = r1
  Configured <- ThreeEntries
  Internal = {"nomad-target", "target-value"}
  Workers = {w1}
  Requests = {r1}
  SignalBuffer = 3
  MaxSignals = 4
INVARIANTS
  NoProcessLeft
  WorkersHaveAllPlugins
  CallsCutOnlyAtShutdown
PROPERTIES
  TerminationReached
CHECK_DEADLOCK FALSE
