\* rgcn_hetero_forward as lowered, against get_ground_truth.
CONSTANTS
  NumRels = 2
  NumNodes = 2
  AVal <- MCAVal
  WVal <- MCWVal
  XVal <- MCXVal
  StaleY <- MCZeroY
SPECIFICATION Spec
INVARIANT MatchesGroundTruth
\* The program ends after its last loop nest.
CHECK_DEADLOCK FALSE
