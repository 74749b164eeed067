SPECIFICATION AreaSpec
CONSTANTS
  MaxRuns = 2
  MaxTokens = 1
  HistoryTurns = 0
  HistoryChars = 3
  MaxRegens = 2
  MaxLoads = 1
  MaxWork = 4
  Initial <- MCInitial
  InitialConv <- MCInitialConv
  RowBody <- MCRowBody
INVARIANTS LockedOnlyByAStream RequestsNameRows OneBubblePerId VariantShowsItsText
CHECK_DEADLOCK FALSE
