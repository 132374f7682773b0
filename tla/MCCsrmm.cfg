\* All kernels: csrmm_tir with C holding 0 or a stale value, the lowered ones
\* with C zeroed by the caller (y = np.zeros in bench_spmm.py).
CONSTANTS
  Rows <- MCRows
  Cols <- MCCols
  AVal <- MCAVal
  BVal <- MCBVal
  Kernels = {"tir", "lowered", "segment_reduce", "csr_reduce"}
  InitialC <- MCCallerC
  NotDone = NotDone
SPECIFICATION Spec
INVARIANT TypeOK
PROPERTY ImplementsSpMM
\* Every thread block ends: the kernel finishes.
CHECK_DEADLOCK FALSE
