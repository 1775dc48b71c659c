CONSTANTS
  None = None
  AIConversation = {c1, c2}
  Provider = {codex, claude}
  First = c1
  Default = codex
  LastEvent = {"complete"}
  MaxRuns = 1
  Budgets <- SomeBudgets
SPECIFICATION PanelFairSpec
INVARIANTS
  PanelAgrees
  ConsentIsKnown
PROPERTY BlockEnds
CHECK_DEADLOCK FALSE
