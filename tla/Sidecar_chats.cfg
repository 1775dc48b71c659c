CONSTANTS
  MaxChats = 2
  MaxItems = 1
  MaxBreaks = 1
  MaxCalls = 3
  Keys = {a, b}
SPECIFICATION MCSpec
INVARIANTS
  EndsAreTrue
  ActiveIsServed
  ToolsAgree
PROPERTY ChatsEnd
CHECK_DEADLOCK FALSE
