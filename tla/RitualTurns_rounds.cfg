SPECIFICATION Spec
CONSTANTS
  Delegates = {1, 2}
  JoinRank <- MCJoinRank
  Rounds <- TwoRounds
  NewcomerSets <- OneOfTwo
  Threads = {h1, h2}
  MaxRituals = 1
  MaxTurns = 4
  FaultKinds <- AllFaults
  MaxFaults = 1
SYMMETRY AnyThread
INVARIANTS
  IInv
  OneTurnEach
  RoundsInOrder
  HeardUnlessFault
PROPERTIES
  AnswersInsideRitual
  NotExpiredEarly
  LedgerSpec
