SPECIFICATION MCSpec
CONSTANTS
  MaxBlock = 3
  Situations <- MCSituations
  MaxLines = 2
  LogSituations <- MCLogSituations
INVARIANTS
  NothingIsBuiltOnTorn
  NothingIsLost
  ToolsAreTrue
  LatestLinesAreKept
CHECK_DEADLOCK FALSE
