SPECIFICATION Spec
CONSTANTS
  MaxEntries = 2
  HistoryLimit = 2
  MaxItems = 3
  MaxPrompts = 2
  MaxTyped = 2
  MaxFaults = 1
INVARIANTS
  TypeOK
  WindowKept
  FollowsConversation
  Complete
  QuestionShown
CONSTRAINT TypedOrAsked
CHECK_DEADLOCK FALSE
