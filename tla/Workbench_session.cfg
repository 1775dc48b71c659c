CONSTANTS
  MaxGroups = 3
  MaxDepth = 2
  MaxDocuments = 3
  MaxTabs = 3
  MaxOpen = 3
  Resource = {t1, e1}
  Directions = {"horizontal"}
SPECIFICATION Spec
INVARIANT HostKeepsTheSession
PROPERTIES
  OnlyWhatWasAsked
VIEW View
SYMMETRY Symmetry
