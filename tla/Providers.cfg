CONSTANTS
  s1 = s1
  s2 = s2
  chat = chat
  Stages <- MCStages
  Chats <- MCChats
  KeyringAnswers <- MCAnswers
  MaxPuts = 2
  MaxRetries = 2
  Direct = FALSE
  MaxReset = 1
  Horizon = 1
SPECIFICATION Spec
INVARIANT LimitKept
INVARIANT FreshKey
PROPERTY CallsEnd
CHECK_DEADLOCK FALSE
