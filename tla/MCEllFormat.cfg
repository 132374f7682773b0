\* get_dataset, the ell / ell_ind / ellfuse loader and the bucket kernel.
CONSTANTS
  Names = {"cora", "dense", "bogus"}
  NumNodes = 4
  Width = 2
  Formats = {"ell", "ell_ind", "ellfuse"}
  Tiles = 2
  TileWidth = 2
  RowPatterns <- MCRowPatterns
  AVal <- MCAVal
  BVal <- MCBVal
  StaleA = {7}
  StaleC = {7}
SPECIFICATION Spec
INVARIANT TypeOK
INVARIANT KernelCorrect
\* The program ends, in "done" or in the KeyError: the final state stutters.
CHECK_DEADLOCK FALSE
