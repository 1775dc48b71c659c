CONSTANTS
  Relation = {"r1"}
  Watched = "r1"
  CatalogBudgets <- SomeCatalogBudgets
  Column = {"a", "b"}
  Block = {1, 2}
  OnScreen <- SomeOnScreen
  Cell = {1, 2}
  Sort = {"none", "up"}
  MaxCached = 2
  MaxRequests = 2
  GridBudgets <- SomeGridBudgets
SPECIFICATION SomeSpec
INVARIANTS ShownWasAsked LiveIsFresh LiveTabShows
PROPERTIES LoadingEnds TabsStay
CHECK_DEADLOCK FALSE
