SPECIFICATION FairSpec
CONSTANTS
  Bins = {1}
  HasOutlet = TRUE
  Commands = {"start"}
  Modes = {"BATCH"}
  Sources = {}
  Recipes = {2}
  Holds = {1, 2}
  Inputs <- LineInputs
  MaxPresses = 1
  MaxBatches = 1
  StartProof = 2
  TravelTime = 2
  ConveyorProof = 2
  PurgeTime = 2
  DischargeTime = 2
  HighHighDebounce = 1
  OvercurrentTime = 1
  NoFlowTime = 1
  DisagreeTime = 1
  RestartBelow = 1
  HighPoint = 2
  HighHighPoint = 4
  Deadband = 1
  BatchEmpty = 0
  BatchPreact = 0
  BatchTolerance = 0
  Faults = {"outlet", "not_ready"}
  MaxFaults = 1
  Weights = {0, 2}
INVARIANTS
  LoadingHasAPlan
PROPERTIES
  BatchMovesOn
  DischargeConcludes
  BatchCountedAtRest
