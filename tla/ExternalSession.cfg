SPECIFICATION FairSpec
CONSTANTS
  Commands = {"start", "stop"}
  Setpoints = {0, 1}
  Default = 0
  NoEntry = 99
  Watchdog = 2
INVARIANTS
  ExactlyOnce
PROPERTIES
  CommandsSeeSetpoints
  PressesAreTaken
  OrphansStop
