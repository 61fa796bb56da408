SPECIFICATION Spec
CONSTANTS
  Expectations = {"field", "controller"}
  ControllerFields = {"controller"}
  Stages = 2
  Within = 1
  Tolerance = 1
  SettleTicks = 2
  RunUp = 2
  Stalls = {0, 2}
  MaxLag = 0
  Silence = 3
  ReadyTimeout = 4
  PressEvery = 1
  QuietTicks = 1
INVARIANTS VerdictIsEarned VerdictIsTrusted StartsClean
PROPERTY RunEnds
CHECK_DEADLOCK FALSE
