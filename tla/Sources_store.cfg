CONSTANTS
  Budgets <- AnyBudgets
  DraftBudgets <- SomeDraftBudgets
  QueryName = {"a", "b"}
  MaxQueries = 2
  MaxDocuments = 2
  MaxSources = 2
  MaxCalls = 2
SPECIFICATION MCSpec
INVARIANTS
  StoreAgrees
  ResultsAreHeld
  QueriesAgree
CHECK_DEADLOCK FALSE
