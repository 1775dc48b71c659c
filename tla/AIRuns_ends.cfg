CONSTANTS
  c1 = c1
  s1 = s1
  s2 = s2
  Send = {s1, s2}
  Conversation = {c1}
  ConversationOf <- OneConversation
  Budgets <- SomeBudgets
SPECIFICATION FairSpec
INVARIANTS
  RunsAreOwned
  DeletedIsGone
  EndIsTruthful
PROPERTIES
  StopEnds
CHECK_DEADLOCK FALSE
