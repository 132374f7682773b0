\* Fused hybrid SpMM with the buckets bench_hyb computes.
CONSTANTS
  Rows <- MCRows
  Cols <- MCCols
  AVal <- MCAVal
  BVal <- MCBVal
  Widths <- MCWidths
  StaleC <- MCStaleC
  PadValue = 0
  PadCol = 0
  NotDone = NotDone
SPECIFICATION Spec
PROPERTY ImplementsSpMM
\* Every thread of the launch ends: the kernel finishes.
CHECK_DEADLOCK FALSE
