SPECIFICATION Spec
CONSTANTS
  TopK = 2
  Capacity = 2
  MaxToken = 4
  NumReqs = 1
  Workspaces = 1
  EpochThreshold = 5
  ReqIds = {1, 2}
  NoReq = 0
  TopKLists <- MCTopKLists
  Prefixes <- MCPrefixes
INVARIANTS
  TypeOK
  MatchesReference
  LruIsPermutation
  AnswersAreResident
  ChangesAreMisses
  HitsSurvive
  ServesAll
