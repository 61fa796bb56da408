SPECIFICATION SessionSpec
CONSTANTS
  Handlers = {h1}
  Inputs = {"start"}
  Levels = {}
  TourSteps = 1
  ScenarioTicks = 2
  MaxSessions = 3
  MaxLog = 1
INVARIANTS
  VerificationOwnsTheLine
