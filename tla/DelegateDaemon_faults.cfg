SPECIFICATION FairSpec
CONSTANTS
  Files = {1}
  Texts = {1, 2}
  Blank = {2}
  MaxEvents = 3
  MaxRituals = 1
  FaultKinds <- Faults
  MaxFaults = 1
INVARIANTS
  NoEventLost
  NoteKept
  NoteOnce
PROPERTIES
  NoteGoesOut
  InboxDrained
  EventsWorkedOff
