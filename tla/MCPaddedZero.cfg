\* Padded SpMM, bench_tir_csrmm's tile loop, A_data at padding edges = 0.
CONSTANTS
  NumNodes = 3
  TileSize = 2
  BVal <- MCBVal
  StaleC <- MCStaleC
  PadA = 0
  NotDone = NotDone
SPECIFICATION Spec
INVARIANT TypeOK
INVARIANT ReadsInBounds
PROPERTY ImplementsSpMM
\* Every thread block ends: the kernel finishes.
CHECK_DEADLOCK FALSE
