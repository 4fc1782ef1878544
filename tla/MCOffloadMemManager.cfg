SPECIFICATION Spec
CONSTANTS
  PoolSize = 11
  Align = 2
  HasBase = TRUE
  Requests <- MCRequests
  Addresses <- MCAddresses
INVARIANTS
  TypeOK
  NoOverlap
  NoLeak
  Coalesced
  DrainsToWhole
PROPERTIES
  PoolSpec
