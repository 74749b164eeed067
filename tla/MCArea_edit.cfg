SPECIFICATION AreaSpec
CONSTANTS
  MaxRuns = 2
  MaxTokens = 1
  HistoryTurns = 2
  HistoryChars = 3
  MaxRegens = 1
  MaxLoads = 1
  MaxWork = 4
  Initial <- MCInitial
  InitialConv <- MCInitialConv
  RowBody <- MCRowBody
INVARIANT EditedTurnIsSent
CHECK_DEADLOCK FALSE
