SPECIFICATION Spec
CONSTANTS
  Day = 2
  WeekDays = 2
  Delegates = {d1}
  Slot <- MCSlot
  Zone <- MCZone
  Zones <- MCZones
  CatchUp = 2
  RemindBefore = 1
  Grace = 1
  Start = 8
  MaxTime = 9
  MaxAsks = 0
  MaxRevoked = 0
  FaultKinds <- Crashes
  MaxFaults = 1
INVARIANTS
  RunNotForgotten
