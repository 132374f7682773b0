\* sparse_softmax with TMP1 initialised to 0.
CONSTANTS
  NumRows = 2
  NumCols = 3
  MaxA = 1
  MinValue <- MCMinValue
  Tmp1Init = 0
  Stale <- MCStale
SPECIFICATION Spec
INVARIANT TypeOK
INVARIANT RowStatsCorrect
\* The program ends after its last loop nest.
CHECK_DEADLOCK FALSE
