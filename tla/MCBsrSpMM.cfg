\* csr2bsr followed by bsrmm or ellmm on 4 x 4 patterns with 2 x 2 blocks.
CONSTANTS
  MIn = 4
  NIn = 4
  Blk = 2
  AVal <- MCAVal
  BVal <- MCBVal
  StaleB <- MCStaleB
  StaleC <- MCStaleC
  RowPatterns <- MCRowPatterns
  Kernels = {"bsrmm", "ellmm"}
  NotDone = NotDone
SPECIFICATION Spec
INVARIANT TypeOK
INVARIANT BsrRepresentsCsr
PROPERTY ImplementsSpMM
\* The kernels end: the final state stutters.
CHECK_DEADLOCK FALSE
