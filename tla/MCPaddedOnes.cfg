\* Padded SpMM, bench_tir_csrmm's tile loop, A_data at padding edges = 1.
CONSTANTS
  NumNodes = 3
  TileSize = 2
  BVal <- MCBVal
  StaleC <- MCStaleC
  PadA = 1
  NotDone = NotDone
SPECIFICATION Spec
PROPERTY ImplementsSpMM
\* Every thread block ends: the kernel finishes.
CHECK_DEADLOCK FALSE
