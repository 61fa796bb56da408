SPECIFICATION FairSpec
CONSTANTS
  Handlers = {h1}
  Inputs = {"hopper_level_pct"}
  Levels = {"hopper_level_pct"}
  TourSteps = 1
  ScenarioTicks = 1
  MaxSessions = 3
  MaxLog = 2
  MaxLosses = 1
INVARIANTS
  NothingOutlivesItsSession
  NoFalseViolation
  NobodyElseMovesIt
  NoEventIsSkipped
PROPERTIES
  VerificationConcludes
  EventsArrive
