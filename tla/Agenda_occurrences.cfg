SPECIFICATION FairSpec
CONSTANTS
  Day = 2
  WeekDays = 2
  Delegates = {d1, d2}
  Slot <- MCSlot
  Zone <- MCZone
  Zones <- MCZones
  CatchUp = 2
  RemindBefore = 1
  Grace = 1
  Start = 8
  MaxTime = 9
  MaxAsks = 1
  MaxRevoked = 1
  FaultKinds <- AllFaults
  MaxFaults = 1
INVARIANTS
  SlotsExact
  RunKept
  ReminderKept
  NobodyForgotten
PROPERTIES
  NewcomersGreeted
  OccurrenceRuns
  EachOnce
