SPECIFICATION Spec
CONSTANTS
  Delegates = {d1, d2}
  Threads = {h1, h2}
  Quota = 1
  MinGap = 2
  MaxTail = 1
  Day = 2
  TailWindow = 2
  MaxTime = 2
  MaxRows = 3
SYMMETRY AnyDelegateOrThread
INVARIANTS
  QuotaBounded
  GapBounded
  PingPongBounded
  RitualBounded
