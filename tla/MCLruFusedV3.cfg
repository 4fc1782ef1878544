SPECIFICATION Spec
CONSTANTS
  Threads = 2
  TopK = 4
  Capacity = 8
  MaxToken = 8
  ReqIds = {1, 2}
  NoReq = 0
  TopKLists <- MCWideLists
  Prefixes = {7}
  Leftover <- MCLeftover
INVARIANTS
  MatchesReference
