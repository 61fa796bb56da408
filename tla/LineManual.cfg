SPECIFICATION Spec
CONSTANTS
  Bins = {1, 2}
  HasOutlet = TRUE
  Commands = {"start", "stop", "reset", "start_conveyor", "open_gate", "start_feeder", "stop_conveyor"}
  Modes = {"AUTO", "MANUAL"}
  Sources = {1, 2}
  Recipes = {}
  Holds = {1}
  Inputs <- LineInputs
  MaxPresses = 2
  MaxBatches = 1
  StartProof = 2
  TravelTime = 2
  ConveyorProof = 2
  PurgeTime = 2
  DischargeTime = 2
  HighHighDebounce = 1
  OvercurrentTime = 1
  NoFlowTime = 1
  DisagreeTime = 1
  RestartBelow = 1
  HighPoint = 2
  HighHighPoint = 4
  Deadband = 1
  BatchEmpty = 0
  BatchPreact = 0
  BatchTolerance = 0
  Faults = {"slip", "estop"}
  MaxFaults = 1
  Weights = {0}
INVARIANTS
  CommandsFitState
  ModeFitsState
  OneBinFeedsABelt
  FedBeltIsConfirmed
PROPERTIES
  StartIsAnswered
