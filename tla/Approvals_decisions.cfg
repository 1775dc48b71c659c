CONSTANTS
  r1 = r1
  r2 = r2
  c1 = c1
  Request = {r1, r2}
  Conversation = {c1}
  Answer = {a1}
  ConversationOf <- OneConversation
SPECIFICATION FairSpec
INVARIANTS
  FirstDecisionStands
  PreviewIsConsented
PROPERTY DenialReleases
