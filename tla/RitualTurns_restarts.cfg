SPECIFICATION FairSpec
CONSTANTS
  Delegates = {1}
  JoinRank <- MCJoinRank
  Rounds <- OneRound
  NewcomerSets <- Nobody
  Threads = {h1, h2}
  MaxRituals = 2
  MaxTurns = 2
  FaultKinds <- NoNetErrors
  MaxFaults = 2
INVARIANTS
  OneLiveTurn
PROPERTIES
  SettledForGood
  RitualEnds
  RequestsServed
