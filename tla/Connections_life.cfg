CONSTANTS
  Connection = {c1}
  MaxConfig = 3
  MaxFailures = 2
  MaxRestarts = 1
SPECIFICATION FairSpec
INVARIANTS
  AttachmentIsTrue
  CredentialsFollowRow
PROPERTY ConnectingEnds
CHECK_DEADLOCK FALSE
