SPECIFICATION FairSpec
CONSTANTS
  Delegates = {1, 2}
  PageSize = 1
  MaxUpdates = 2
  MaxSays = 1
  FaultKinds <- AllFaults
  MaxFaults = 1
INVARIANTS
  MarkedReachedAll
  SeenInOrder
PROPERTIES
  HumanReachesAll
  HumansRelayed
