SPECIFICATION Spec
CONSTANTS
  Files = {1}
  Texts = {1}
  Blank = {}
  MaxEvents = 3
  MaxRituals = 2
  FaultKinds <- NoFaults
  MaxFaults = 1
INVARIANTS
  BriefingForItsRitual
