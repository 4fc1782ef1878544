SPECIFICATION Spec
CONSTANTS
  TopK = 2
  Capacity = 3
  MaxToken = 4
  NumReqs = 2
  Workspaces = 1
  EpochThreshold = 4
  ReqIds = {1, 2}
  NoReq = 0
  TopKLists <- MCUniqueLists
  Prefixes = {3}
INVARIANTS
  MatchesReference
  TokenResidentOnce
  RecentSlotsKept
