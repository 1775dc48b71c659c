CONSTANTS
  None = None
  Project = {p1, p2}
  Existing = {{p1}, {p1, p2}}
  Content = {a, b, c}
  Blank = a
  MaxFlows = 2
  MaxSaves = 2
  MaxEdits = 2
  MaxFailures = 1
SPECIFICATION FairSpec
INVARIANT QuietIsStored
PROPERTIES
  LeftIsStored
  SwitchEnds
CHECK_DEADLOCK FALSE
