SPECIFICATION Spec
CONSTANTS
  Delegates = {d1, d2}
  Threads = {h1, h2}
  Quota = 1
  MinGap = 1
  MaxTail = 1
  Day = 2
  TailWindow = 100
  MaxTime = 1
  MaxRows = 3
SYMMETRY AnyDelegateOrThread
INVARIANTS
  SomeBrakeHolds
