SPECIFICATION RigSpec
CONSTANTS
  Bins = {1}
  HasOutlet = TRUE
  Commands = {"start", "stop", "reset", "acknowledge"}
  Modes = {}
  Sources = {}
  Recipes = {}
  Holds = {1}
  Inputs <- RestImages
  MaxPresses = 1
  MaxBatches = 1
  StartProof = 2
  TravelTime = 3
  ConveyorProof = 2
  PurgeTime = 2
  DischargeTime = 12
  HighHighDebounce = 1
  OvercurrentTime = 1
  NoFlowTime = 4
  DisagreeTime = 1
  RestartBelow = 2
  HighPoint = 3
  HighHighPoint = 4
  Deadband = 1
  BatchEmpty = 0
  BatchPreact = 0
  BatchTolerance = 0
  BinLevels = {7}
  BinLow = 1
  GateTravel = 1
  FeederStart = 1
  ConveyorStart = 1
  MotorStop = 1
  PlugTime = 1
  JamTime = 2
  Transit = 2
  FeedRate = 2
  DrawRate = 1
  Capacity = 6
  PlantFaults = {"belt_slip", "estop", "feeder_trip", "downstream_stopped"}
  StickingSensors = {"weight"}
  FailingSensors = {}
  MaxFaults = 1
  MaxEvents = 2
INVARIANTS
  MaterialConserved
  FaultsCanBeReset
  OutputsHeedInputs
PROPERTIES
  OnlyALossSpills
  StopEmptiesTheBelt
  NoRestartAfterEstop
  ResetNeverSkipsACause
