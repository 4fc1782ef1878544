SPECIFICATION Spec
CONSTANTS
  TopK = 2
  Capacity = 3
  MaxToken = 3
  Reqs = {1, 2}
  NoOwner = 0
  MaxVersion = 1
  TopKLists <- MCTopKLists
  Rewritten <- MCRewritten
INVARIANT
  ReadsCurrent
  Coherent
PROPERTY
  CacheSpec
