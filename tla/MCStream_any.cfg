SPECIFICATION HookSpec
CONSTANTS
  MaxRuns = 3
  MaxTokens = 2
  HistoryTurns = 2
  HistoryChars = 3
  Initial <- MCInitial
  InitialConv <- MCInitialConv
INVARIANTS HookTypeOK OneStreamAtATime TokensInTheirBubble NoTokenDropped
  ErrorIsAboutTheLastTurn NoSecondConversation
PROPERTY StreamingEnds
CHECK_DEADLOCK FALSE
