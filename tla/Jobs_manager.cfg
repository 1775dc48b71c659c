CONSTANTS
  Job = {j1, j2}
  Concurrency = 1
SPECIFICATION FairSpec
INVARIANT EndsAreTruthful
PROPERTIES
  ImplementsPool
  CancelledJobLeaves
  ShutdownJoins
CHECK_DEADLOCK FALSE
