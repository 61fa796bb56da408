SPECIFICATION LogSpec
CONSTANTS
  NumAlarms = 4
  WordBits = 3
INVARIANTS
  WireTellsTheBoard
  ReplayMissesNothing
PROPERTIES
  IsAnAnnunciator
