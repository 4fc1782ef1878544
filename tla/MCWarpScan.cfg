SPECIFICATION Spec
CONSTANTS
  WarpSize = 4
  Stages = 2
  Tiles = 2
  Kernels = {TRUE, FALSE}
  FlagSets <- MCFlags
INVARIANTS
  StableRanks
  TotalsAgree
