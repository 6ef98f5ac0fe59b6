CONSTANTS
  HistoryLimit = 2
  MaxRepairs = 1
  MaxTurns = 3
  MaxCalls = 4
SPECIFICATION Spec
INVARIANT EveryCallIsCounted
INVARIANT OwnEntry
INVARIANT EarlierAnswersShown
PROPERTY ConversationEnds
CHECK_DEADLOCK FALSE
