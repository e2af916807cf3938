SPECIFICATION FairSpec
CONSTANTS
  Delegates = {1}
  JoinRank <- MCJoinRank
  Rounds <- OneRound
  NewcomerSets <- Nobody
  Threads = {h1}
  MaxRituals = 1
  MaxTurns = 1
  FaultKinds <- Network
  MaxFaults = 1
PROPERTIES
  RitualEnds
