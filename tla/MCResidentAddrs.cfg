SPECIFICATION Spec
CONSTANTS
  RowCounts = {1, 3}
  TopK = 3
  BlockSize = 2
  MaxNumBlocks = 2
  ResidentCapacity = 3
  GridDim = 2
  BlockDim = 1
  LanePairs = 2
  RowInputs <- MCRowInputs
INVARIANTS
  Packed
  TargetsDistinct
