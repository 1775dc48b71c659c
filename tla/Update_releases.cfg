CONSTANTS
  MaxVersion = 3
  MaxFailures = 2
  MaxRestarts = 1
  Clicks = {0, 3}
  MaxEvents = 2
  MaxAnswers = 1
SPECIFICATION UpdateSpec
INVARIANTS
  InstallIsSafe
  ShownIsCurrent
PROPERTIES
  SkipHolds
  ActivityEnds
