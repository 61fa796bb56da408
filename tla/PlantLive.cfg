SPECIFICATION FairRig
CONSTANTS
  Bins = {1}
  HasOutlet = TRUE
  Commands = {"start"}
  Modes = {"BATCH"}
  Sources = {}
  Recipes = {2}
  Holds = {1}
  Inputs <- RestImages
  MaxPresses = 1
  MaxBatches = 1
  StartProof = 2
  TravelTime = 3
  ConveyorProof = 2
  PurgeTime = 2
  DischargeTime = 12
  HighHighDebounce = 1
  OvercurrentTime = 1
  NoFlowTime = 4
  DisagreeTime = 1
  RestartBelow = 2
  HighPoint = 5
  HighHighPoint = 6
  Deadband = 1
  BatchEmpty = 0
  BatchPreact = 0
  BatchTolerance = 0
  BinLevels = {4}
  BinLow = 1
  GateTravel = 1
  FeederStart = 1
  ConveyorStart = 1
  MotorStop = 1
  PlugTime = 1
  JamTime = 2
  Transit = 2
  FeedRate = 1
  DrawRate = 1
  Capacity = 7
  PlantFaults = {"gate_stuck", "outlet_stuck", "conveyor_jam", "feeder_jam"}
  StickingSensors = {"weight"}
  FailingSensors = {"weight"}
  MaxFaults = 1
  MaxEvents = 1
PROPERTIES
  LoadingConcludes
  StartConcludes
  StopConcludes
