SPECIFICATION Spec
CONSTANTS
  d1 = d1
  d2 = d2
  Delegates = {d1, d2}
  Running = {d1}
  Asked <- MCAsked
  Skew <- MCSkew
  Lag = 1
  LongPoll = 1
  Window = 2
  TurnTime = 6
  PostTime = 1
  SettleTime = 0
  CallTime = 5
  Margin = 4
  MinCall = 1
  JobTime = 2
  MaxJobs = 1
  MaxMoves = 2
INVARIANTS
  WaitersOnline
  RoomMovesOn
PROPERTIES
  VoiceInTime
  LateForAReason
  TimedLedger
