SPECIFICATION Spec
CONSTANTS
  TurnsToFold = 1
  MaxParts = 2
  MaxRuns = 2
  MaxTurns = 5
PROPERTIES
  OnlyFoldedLeave
CHECK_DEADLOCK FALSE
