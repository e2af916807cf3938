SPECIFICATION FairSpec
CONSTANTS
  Limit = 2
  Answers <- AllAnswers
  MaxOutages = 3
  MaxRestarts = 1
INVARIANTS
  ReportedOnce
PROPERTIES
  AlertIsTrue
  UnreachableTold
