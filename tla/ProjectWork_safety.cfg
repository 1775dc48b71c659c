CONSTANTS
  Job = {j1}
  Concurrency = 1
  p1 = p1
  Project = {p1, p2}
  ProjectOf <- AllInP1
SPECIFICATION WorkSpec
INVARIANT ImportsAreSettled
PROPERTY NeverPublishedIntoArchived
CHECK_DEADLOCK FALSE
