--------------------------- MODULE LineController ---------------------------
(***************************************************************************)
(* The line state machine: Auto, Manual and Batch, with the interlocks,    *)
(* the trips and the operator's requests.  One Scan is one call of scan(): *)
(* it reads an input image, runs the device supervision, the interlocks'   *)
(* on-delays and the alarm scan, decides, writes the output image and      *)
(* consumes every request.  The operator's methods only raise requests or  *)
(* change setpoints; they are actions of their own, so they fall between   *)
(* any two scans.                                                          *)
(*                                                                         *)
(* The plant is open: Inputs(c) is the set of input images that may be     *)
(* read while the output image is c.  The safety theorems hold for every   *)
(* choice of it.                                                           *)
(***************************************************************************)
EXTENDS DeviceControl, Integers, Sequences, FiniteSets, Functions

CONSTANTS
  Bins,              \* the bins the line has, 1 = A, 2 = B, 3 = C
  HasOutlet,         \* the hopper has an outlet gate (and the line a Batch mode)
  Commands,          \* the pushbuttons the operator uses
  Modes,             \* the modes the operator selects
  Sources,           \* the bins the operator selects as the source
  Recipes,           \* the kg values a recipe entry may be set to
  Holds,             \* the values the hold setpoint may be set to
  Inputs(_),         \* the input images readable under an output image
  MaxPresses,        \* bound: requests raised between two scans
  MaxBatches,        \* bound: batches counted before Start is no longer pressed
  StartProof,        \* MotorControl.start_proof_timeout_s
  TravelTime,        \* GateControl.travel_timeout_s
  ConveyorProof,     \* conveyor_proof_timeout_s
  PurgeTime,         \* purge_time_s
  DischargeTime,     \* discharge_timeout_s
  HighHighDebounce,  \* Interlocks.hh_weight_debounce_s
  OvercurrentTime,   \* Interlocks.overcurrent_s
  NoFlowTime,        \* Interlocks.no_flow_s
  DisagreeTime,      \* LevelSwitchCheck.delay_s
  RestartBelow,      \* kg at restart_below_pct
  HighPoint,         \* kg at hopper_high_pct (LSH-105)
  HighHighPoint,     \* kg at hopper_high_high_pct (LSHH-105)
  Deadband,          \* kg of the level checks' deadband
  BatchEmpty,        \* batch_empty_kg
  BatchPreact,       \* batch_preact_kg
  BatchTolerance     \* batch_tolerance_kg

Pushbuttons ==
  {"start", "stop", "reset", "acknowledge",
   "start_conveyor", "open_gate", "open_outlet", "start_feeder",
   "stop_conveyor", "close_gate", "close_outlet", "stop_feeder"}

LineModes == {"AUTO", "MANUAL", "BATCH"}

ASSUME LineAssumption ==
  /\ Bins \subseteq 1 .. 3 /\ 1 \in Bins
  /\ HasOutlet \in BOOLEAN
  /\ Commands \subseteq Pushbuttons
  /\ Sources \subseteq Bins
  /\ Modes \subseteq LineModes /\ ("BATCH" \in Modes => HasOutlet)
  /\ Recipes \subseteq Nat /\ Holds \subseteq Nat /\ Holds # {}
  /\ MaxPresses \in Nat /\ MaxBatches \in Nat

ASSUME TimingAssumption ==
  /\ StartProof \in Nat /\ TravelTime \in Nat /\ ConveyorProof \in Nat
  /\ PurgeTime \in Nat /\ DischargeTime \in Nat /\ HighHighDebounce \in Nat
  /\ OvercurrentTime \in Nat /\ NoFlowTime \in Nat /\ DisagreeTime \in Nat

ASSUME LevelAssumption ==
  /\ RestartBelow \in Nat /\ HighPoint \in Nat /\ HighHighPoint \in Nat
  /\ Deadband \in Nat /\ BatchEmpty \in Nat /\ BatchPreact \in Nat
  /\ BatchTolerance \in Nat

-----------------------------------------------------------------------------
(* The I/O image.                                                          *)

InputImage ==
  [estop_healthy : BOOLEAN,      \* ES-001
   feeder_running : BOOLEAN, feeder_faulted : BOOLEAN, plugged : BOOLEAN,
   conveyor_running : BOOLEAN, conveyor_faulted : BOOLEAN,
   motion : BOOLEAN,             \* ZSS-104
   current_high : BOOLEAN,       \* IT-104 at or above the overcurrent setpoint
   flow_low : BOOLEAN,           \* FT-104 below no_flow_below_kg_s
   gate_open : [Bins -> BOOLEAN], gate_closed : [Bins -> BOOLEAN],
   outlet_open : BOOLEAN, outlet_closed : BOOLEAN,
   bin_low : [Bins -> BOOLEAN],
   hopper_high : BOOLEAN,        \* LSH-105 open
   high_high_switch : BOOLEAN,   \* LSHH-105 open
   weight : Nat, weight_failed : BOOLEAN,   \* WT-105, WT-105.FLT
   downstream_ready : BOOLEAN]   \* DS-107.READY

OutputImage ==
  [feeder : BOOLEAN, conveyor : BOOLEAN, gate : [Bins -> BOOLEAN], outlet : BOOLEAN]

ASSUME InputsAssumption == \A c \in OutputImage : Inputs(c) \subseteq InputImage

AllClosed == [b \in Bins |-> FALSE]
Off == [feeder |-> FALSE, conveyor |-> FALSE, gate |-> AllClosed, outlet |-> FALSE]

(* One bin at a time: the named gate commanded open, every other shut.     *)
Only(bin) == [b \in Bins |-> b = bin]

NoBin == 0
None == "NONE"

BatchStates == {"LOADING", "PROCESSING", "DISCHARGING", "CLEANING"}
LineStates ==
  {"IDLE", "STARTING", "RUNNING", "STOPPING", "FAULTED", "ESTOPPED", "MANUAL"}
    \cup BatchStates
StartSteps == {"CONVEYOR", "GATE", "FEEDER", None}
BatchSteps == {"CONVEYOR", "GATE", "FEED", "SETTLE", None}
FaultReasons ==
  {"hopper high-high", "conveyor trip", "conveyor jam", "feeder trip",
   "feeder jam", "hopper weight signal failed", "conveyor failed to prove running",
   "feeder failed to prove running", "gate failed to prove open",
   "gate travel fault", "outlet travel fault", "conveyor lost confirmation",
   "batch feed stalled", "discharge timeout", "e-stop", None}
StartInhibit ==
  {"BIN_LOW", "HOPPER_HIGH_HIGH", "UNACKNOWLEDGED_ALARM", "ESTOP_ACTIVE",
   "LINE_FAULTED", "SENSOR_FAILED", "CONVEYOR_NOT_RUNNING", "HOPPER_HIGH",
   "WRONG_MODE", "LINE_NOT_IDLE", "RECIPE_EMPTY", "RECIPE_TOO_LARGE",
   "HOPPER_NOT_EMPTY", "GATE_NOT_CLOSED", "DOWNSTREAM_NOT_READY", "CAUSE_STANDING"}

(* The trips whose cause is upstream of the conveyor: the belt may clear.  *)
ClearBeltOn ==
  {"feeder trip", "feeder jam", "feeder failed to prove running",
   "gate travel fault", "gate failed to prove open"}

DeviceStarts == {"start_conveyor", "open_gate", "open_outlet", "start_feeder"}
DeviceStops  == {"stop_conveyor", "close_gate", "close_outlet", "stop_feeder"}

GateTag == <<"XV-102", "XV-112", "XV-122">>
(* The trip-class alarms: the ones that gate a start.  (Warnings gate      *)
(* nothing, and first-out is display: both are AlarmManager's.)            *)
TripAlarms ==
  {"ES-001.TRIP", "M-103.FAULT", "M-103.START_PROOF", "M-104.OL", "ZSS-104.LOST",
   "M-104.START_PROOF", "WT-105.HIGH_HIGH", "LSH-103.JAM", "WT-105.FAIL",
   "LSHH-105.DISAGREE", "IT-104.HIGH", "XV-106", "HOP-105.NOT_EMPTYING"}
    \cup {GateTag[b] : b \in Bins}

-----------------------------------------------------------------------------
VARIABLES
  in,           \* the input image the latest scan read
  cmd,          \* the output image
  dev,          \* device supervision: [feeder, conveyor, gate, outlet]
  held,         \* on-delays: [high_high, overcurrent, no_flow, disagree]
  alarms,       \* trip-class alarms: [active, unacked]
  req,          \* the pushbuttons pressed since the latest scan
  mode_request, \* the mode selected since the latest scan, the last one counts
  mode, state, fault_reason,
  active_bin,   \* the bin the line draws from, NoBin when it draws from none
  auto,         \* [step, elapsed, feed_demand]: start sequence and level control
  purge,        \* [elapsed, proven, clearing]: STOPPING and FAULTED
  manual,       \* [proven, elapsed]: Manual's conveyor proof
  batch,        \* the batch in progress, see BatchRecord
  setpoint,     \* [source_bin, recipe, hold]
  start_inhibit \* the published outcome of the latest evaluated request

vars == <<in, cmd, dev, held, alarms, req, mode_request, mode, state,
          fault_reason, active_bin, auto, purge, manual, batch, setpoint,
          start_inhibit>>

(* plan is the recipe as taken at the batch's start; the position in it is *)
(* active_bin.                                                             *)
BatchRecord ==
  [step : BatchSteps, plan : [Bins -> Nat], start_kg : Nat, loaded_kg : Nat,
   elapsed : Nat, proven : BOOLEAN, completed : Nat,
   timed_out : BOOLEAN, out_of_tolerance : BOOLEAN]

Devices ==
  [feeder : Supervision(StartProof), conveyor : Supervision(StartProof),
   gate : [Bins -> Supervision(TravelTime)], outlet : Supervision(TravelTime)]

OnDelays ==
  [high_high : 0 .. HighHighDebounce, overcurrent : 0 .. OvercurrentTime,
   no_flow : 0 .. NoFlowTime, disagree : 0 .. DisagreeTime]

TypeOK ==
  /\ in \in InputImage
  /\ cmd \in OutputImage
  /\ dev \in Devices
  /\ held \in OnDelays
  /\ alarms \in [active : SUBSET TripAlarms, unacked : SUBSET TripAlarms]
  /\ req \subseteq Commands
  /\ mode_request \in Modes \cup {None}
  /\ mode \in LineModes
  /\ state \in LineStates
  /\ fault_reason \in FaultReasons
  /\ active_bin \in Bins \cup {NoBin}
  /\ auto \in [step : StartSteps, elapsed : Nat, feed_demand : BOOLEAN]
  /\ purge \in [elapsed : Nat, proven : BOOLEAN, clearing : BOOLEAN]
  /\ manual \in [proven : BOOLEAN, elapsed : Nat]
  /\ batch \in BatchRecord
  /\ setpoint \in [source_bin : Bins, recipe : [Bins -> Nat], hold : Nat]
  /\ start_inhibit \subseteq StartInhibit

ManualAtRest == [proven |-> FALSE, elapsed |-> 0]

Init ==
  /\ in \in Inputs(Off)
  /\ cmd = Off
  /\ dev = [feeder |-> Unsupervised, conveyor |-> Unsupervised,
            gate |-> [b \in Bins |-> Unsupervised], outlet |-> Unsupervised]
  /\ held = [high_high |-> 0, overcurrent |-> 0, no_flow |-> 0, disagree |-> 0]
  /\ alarms = [active |-> {}, unacked |-> {}]
  /\ req = {} /\ mode_request = None
  /\ mode = "AUTO" /\ state = "IDLE" /\ fault_reason = None
  /\ active_bin = NoBin
  /\ auto = [step |-> None, elapsed |-> 0, feed_demand |-> TRUE]
  /\ purge = [elapsed |-> 0, proven |-> FALSE, clearing |-> FALSE]
  /\ manual = ManualAtRest
  /\ batch = [step |-> None, plan |-> [b \in Bins |-> 0], start_kg |-> 0,
              loaded_kg |-> 0, elapsed |-> 0, proven |-> FALSE, completed |-> 0,
              timed_out |-> FALSE, out_of_tolerance |-> FALSE]
  /\ \E h \in Holds :
       setpoint = [source_bin |-> 1, recipe |-> [b \in Bins |-> 0], hold |-> h]
  /\ start_inhibit = {}

-----------------------------------------------------------------------------
(* What one scan sees: the image it reads, and the supervision and         *)
(* on-delays already advanced by it.  v ranges over these views below.     *)

DevicesScanned(i) ==
  [feeder   |-> MotorScan(dev.feeder, cmd.feeder, i.feeder_running, StartProof),
   conveyor |-> MotorScan(dev.conveyor, cmd.conveyor, i.conveyor_running, StartProof),
   gate     |-> [b \in Bins |-> GateScan(dev.gate[b], cmd.gate[b], i.gate_open[b],
                                         i.gate_closed[b], TravelTime)],
   outlet   |-> IF HasOutlet
                THEN GateScan(dev.outlet, cmd.outlet, i.outlet_open, i.outlet_closed,
                              TravelTime)
                ELSE dev.outlet]

HighHighWeight(i) == ~i.weight_failed /\ i.weight >= HighHighPoint

Feeding(i) == i.feeder_running /\ \E b \in Bins : i.gate_open[b]

DelaysScanned(i) ==
  [high_high   |-> OnDelay(held.high_high, HighHighWeight(i), HighHighDebounce),
   overcurrent |-> OnDelay(held.overcurrent, i.conveyor_running /\ i.current_high,
                           OvercurrentTime),
   no_flow     |-> OnDelay(held.no_flow, Feeding(i) /\ i.flow_low, NoFlowTime),
   disagree    |-> OnDelay(held.disagree,
                           SwitchMismatch(i.high_high_switch, i.weight,
                                          i.weight_failed, HighHighPoint, Deadband),
                           DisagreeTime)]

View(i) == [in |-> i, dev |-> DevicesScanned(i), held |-> DelaysScanned(i)]

Views == {View(i) : i \in Inputs(cmd)}

-----------------------------------------------------------------------------
(* Interlocks.                                                             *)

(* 1oo2: the switch at once, the transmitter after its debounce.           *)
HighHigh(v) ==
  v.in.high_high_switch
    \/ (HighHighWeight(v.in) /\ v.held.high_high >= HighHighDebounce)

Overcurrent(v) ==
  /\ v.in.conveyor_running /\ v.in.current_high
  /\ v.held.overcurrent >= OvercurrentTime

(* Mutant: a bin running low is taken for the cause, and forgiven.         *)
NoFlowUnlessLow(v) == v.held.no_flow >= NoFlowTime /\ \A b \in Bins : ~v.in.bin_low[b]

NoFlow(v) == v.held.no_flow >= NoFlowTime

Confirmed(i) == i.conveyor_running /\ i.motion

GateTravelFault(v) == \E b \in Bins : v.dev.gate[b].fault

MotionLoss(v) == IF v.in.current_high THEN "conveyor jam" ELSE "conveyor lost confirmation"

GatesNotClosed(i) ==
  (\E b \in Bins : ~i.gate_closed[b]) \/ (HasOutlet /\ ~i.outlet_closed)

-----------------------------------------------------------------------------
(* The alarm scan, then Acknowledge.                                       *)

(* A rising edge is unacknowledged until acknowledged.                     *)
AlarmScan(board, active) ==
  [active |-> active, unacked |-> board.unacked \cup (active \ board.active)]

Raised(conditions) == {c \in DOMAIN conditions : conditions[c]}

(* The signal behind each trip-class alarm.                                *)
AlarmSignal(v, n) ==
  CASE n = "ES-001.TRIP"          -> ~v.in.estop_healthy
    [] n = "M-103.FAULT"          -> v.in.feeder_faulted
    [] n = "M-103.START_PROOF"    -> v.dev.feeder.fault
    [] n = "M-104.OL"             -> v.in.conveyor_faulted
    [] n = "ZSS-104.LOST"         -> v.in.conveyor_running /\ ~v.in.motion
    [] n = "M-104.START_PROOF"    -> v.dev.conveyor.fault
    [] n = "WT-105.HIGH_HIGH"     -> HighHigh(v)
    [] n = "LSH-103.JAM"          -> v.in.plugged
    [] n = "WT-105.FAIL"          -> v.in.weight_failed
    [] n = "LSHH-105.DISAGREE"    -> v.held.disagree >= DisagreeTime
    [] n = "IT-104.HIGH"          -> Overcurrent(v)
    [] n = "XV-106"               -> v.dev.outlet.fault
    [] n = "HOP-105.NOT_EMPTYING" -> batch.timed_out
    [] OTHER -> \E b \in Bins : n = GateTag[b] /\ v.dev.gate[b].fault

ActiveAlarms(v) == {n \in TripAlarms : AlarmSignal(v, n)}

AlarmsScanned(v) ==
  LET board == AlarmScan(alarms, ActiveAlarms(v))
  IN  IF "acknowledge" \in req THEN [board EXCEPT !.unacked = {}] ELSE board

UnackedTrip(v) == AlarmsScanned(v).unacked # {}

-----------------------------------------------------------------------------
(* Trip tables: conditions with their reasons, in the order the code asks. *)

Reason(trips) ==
  {why \in FaultReasons :
     \E k \in DOMAIN trips :
       trips[k] = <<TRUE, why>> /\ \A m \in 1 .. k - 1 : ~trips[m][1]}

Untripped(trips) == \A k \in DOMAIN trips : ~trips[k][1]

StartingTrips(v) ==
  << <<HighHigh(v),          "hopper high-high">>,
     <<v.in.conveyor_faulted, "conveyor trip">>,
     <<Overcurrent(v),       "conveyor jam">>,
     <<v.in.feeder_faulted,  "feeder trip">>,
     <<v.in.plugged,         "feeder jam">>,
     <<v.in.weight_failed,   "hopper weight signal failed">>,
     <<v.dev.conveyor.fault, "conveyor failed to prove running">>,
     <<v.dev.feeder.fault,   "feeder failed to prove running">>,
     <<GateTravelFault(v),   "gate failed to prove open">>,
     <<v.dev.outlet.fault,   "outlet travel fault">> >>

(* Mutant: RUNNING does not ask the belt.                                  *)
RunningTripsBlind(v) ==
  << <<HighHigh(v),          "hopper high-high">>,
     <<v.in.feeder_faulted,  "feeder trip">>,
     <<v.in.plugged,         "feeder jam">>,
     <<v.dev.feeder.fault,   "feeder failed to prove running">>,
     <<v.in.weight_failed,   "hopper weight signal failed">>,
     <<v.in.conveyor_faulted, "conveyor trip">>,
     <<Overcurrent(v),       "conveyor jam">>,
     <<GateTravelFault(v),   "gate travel fault">>,
     <<v.dev.outlet.fault,   "outlet travel fault">> >>

RunningTrips(v) ==
  << <<HighHigh(v),          "hopper high-high">>,
     <<v.in.feeder_faulted,  "feeder trip">>,
     <<v.in.plugged,         "feeder jam">>,
     <<v.dev.feeder.fault,   "feeder failed to prove running">>,
     <<v.in.weight_failed,   "hopper weight signal failed">>,
     <<v.in.conveyor_faulted, "conveyor trip">>,
     <<Overcurrent(v),       "conveyor jam">>,
     <<~Confirmed(v.in),     MotionLoss(v)>>,
     <<GateTravelFault(v),   "gate travel fault">>,
     <<v.dev.outlet.fault,   "outlet travel fault">> >>

(* Mutant: the purge does not ask the belt.                                *)
StoppingTripsBlind(v, proven) ==
  << <<HighHigh(v),          "hopper high-high">>,
     <<v.in.conveyor_faulted, "conveyor trip">>,
     <<Overcurrent(v),       "conveyor jam">>,
     <<cmd.conveyor /\ v.dev.conveyor.fault, "conveyor failed to prove running">>,
     <<v.in.feeder_faulted,  "feeder trip">>,
     <<v.in.plugged,         "feeder jam">>,
     <<GateTravelFault(v),   "gate travel fault">>,
     <<v.dev.outlet.fault,   "outlet travel fault">> >>

(* The belt is judged only while commanded; proven is this stop's latch,   *)
(* the present scan included.                                              *)
StoppingTrips(v, proven) ==
  << <<HighHigh(v),          "hopper high-high">>,
     <<v.in.conveyor_faulted, "conveyor trip">>,
     <<Overcurrent(v),       "conveyor jam">>,
     <<cmd.conveyor /\ v.dev.conveyor.fault, "conveyor failed to prove running">>,
     <<cmd.conveyor /\ proven /\ ~Confirmed(v.in), MotionLoss(v)>>,
     <<v.in.feeder_faulted,  "feeder trip">>,
     <<v.in.plugged,         "feeder jam">>,
     <<GateTravelFault(v),   "gate travel fault">>,
     <<v.dev.outlet.fault,   "outlet travel fault">> >>

ManualTrips(v, m) ==
  LET moving == cmd.feeder \/ cmd.conveyor IN
  << <<moving /\ HighHigh(v),         "hopper high-high">>,
     <<moving /\ v.in.conveyor_faulted, "conveyor trip">>,
     <<moving /\ Overcurrent(v),      "conveyor jam">>,
     <<moving /\ v.in.feeder_faulted, "feeder trip">>,
     <<moving /\ v.in.plugged,        "feeder jam">>,
     <<moving /\ v.in.weight_failed,  "hopper weight signal failed">>,
     <<cmd.conveyor /\ (v.dev.conveyor.fault
                          \/ (~m.proven /\ m.elapsed >= ConveyorProof)),
                                      "conveyor failed to prove running">>,
     <<cmd.conveyor /\ m.proven /\ ~Confirmed(v.in), MotionLoss(v)>>,
     <<cmd.feeder /\ v.dev.feeder.fault, "feeder failed to prove running">>,
     <<GateTravelFault(v),            "gate travel fault">>,
     <<v.dev.outlet.fault,            "outlet travel fault">> >>

BatchTrips(v) ==
  LET loading(step) == state = "LOADING" /\ batch.step = step IN
  << <<HighHigh(v),                             "hopper high-high">>,
     <<cmd.conveyor /\ v.in.conveyor_faulted,   "conveyor trip">>,
     <<cmd.conveyor /\ Overcurrent(v),          "conveyor jam">>,
     <<cmd.feeder /\ v.in.feeder_faulted,       "feeder trip">>,
     <<v.in.plugged,                            "feeder jam">>,
     <<cmd.feeder /\ v.dev.feeder.fault,        "feeder failed to prove running">>,
     <<v.in.weight_failed,                      "hopper weight signal failed">>,
     <<cmd.conveyor /\ v.dev.conveyor.fault,    "conveyor failed to prove running">>,
     <<cmd.conveyor /\ batch.proven /\ ~Confirmed(v.in), MotionLoss(v)>>,
     <<loading("FEED") /\ NoFlow(v),            "batch feed stalled">>,
     <<GateTravelFault(v), IF loading("GATE") THEN "gate failed to prove open"
                                              ELSE "gate travel fault">>,
     <<v.dev.outlet.fault,                      "outlet travel fault">> >>

(* What a reset has to wait out: the causes with a signal of their own.    *)
StandingCauses(v) ==
  << <<HighHigh(v),          "hopper high-high">>,
     <<v.in.conveyor_faulted, "conveyor trip">>,
     <<v.in.feeder_faulted,  "feeder trip">>,
     <<v.in.plugged,         "feeder jam">>,
     <<v.in.weight_failed,   "hopper weight signal failed">> >>

-----------------------------------------------------------------------------
(* The E-stop and the mode selection are settled first; what they leave is *)
(* the state and the mode the rest of the scan acts in.                    *)

RestState(m) == IF m = "MANUAL" THEN "MANUAL" ELSE "IDLE"

ModeRefusal(v) ==
  IF \/ mode_request = mode
     \/ v.in.estop_healthy /\ state = "IDLE"
     \/ v.in.estop_healthy /\ state = "MANUAL" /\ cmd = Off
  THEN {} ELSE {"LINE_NOT_IDLE"}

ModeChanges(v) ==
  mode_request # None /\ mode_request # mode /\ ModeRefusal(v) = {}

(* Mutant: a refused selection changes the mode all the same.              *)
ScanModeAtOnce(v) == IF mode_request = None THEN mode ELSE mode_request

ScanMode(v) == IF ModeChanges(v) THEN mode_request ELSE mode

ScanState(v) ==
  CASE ~v.in.estop_healthy -> "ESTOPPED"
    [] v.in.estop_healthy /\ ModeChanges(v) -> RestState(mode_request)
    [] OTHER -> state

(* A mode change is a return to rest.                                      *)
AfterModeChange(v, rest, kept) == IF ModeChanges(v) THEN rest ELSE kept

-----------------------------------------------------------------------------
(* Refusals: one evaluator per request, each the set of reasons.           *)

PlannedBins(plan) == {b \in Bins : plan[b] > 0}
LoadedTo(plan, bin) == FoldFunctionOnSet(LAMBDA x, y : x + y, 0, plan, {b \in Bins : b <= bin})
PlanTotal(plan) == LoadedTo(plan, 3)

AutoInhibits(v) ==
  Raised([HOPPER_HIGH_HIGH     |-> HighHigh(v),
          BIN_LOW              |-> v.in.bin_low[setpoint.source_bin],
          SENSOR_FAILED        |-> v.in.weight_failed,
          UNACKNOWLEDGED_ALARM |-> UnackedTrip(v),
          GATE_NOT_CLOSED      |-> GatesNotClosed(v.in)])

BatchInhibits(v) ==
  LET plan == setpoint.recipe IN
  Raised([RECIPE_EMPTY         |-> PlannedBins(plan) = {},
          RECIPE_TOO_LARGE     |-> PlanTotal(plan) > HighPoint,
          HOPPER_NOT_EMPTY     |-> v.in.weight > BatchEmpty,
          BIN_LOW              |-> \E b \in PlannedBins(plan) : v.in.bin_low[b],
          HOPPER_HIGH_HIGH     |-> HighHigh(v),
          SENSOR_FAILED        |-> v.in.weight_failed,
          GATE_NOT_CLOSED      |-> GatesNotClosed(v.in),
          UNACKNOWLEDGED_ALARM |-> UnackedTrip(v)])

(* Start acts at rest only; s and m are the scan's state and mode.         *)
StartRefusal(v, s, m) ==
  CASE s = "ESTOPPED" -> {"ESTOP_ACTIVE"}
    [] s = "FAULTED"  -> {"LINE_FAULTED"}
    [] s = "MANUAL"   -> {"WRONG_MODE"}
    [] s = "IDLE"     -> IF m = "BATCH" THEN BatchInhibits(v) ELSE AutoInhibits(v)
    [] OTHER          -> {"LINE_NOT_IDLE"}

ResetRefusal(v, s) ==
  CASE s = "ESTOPPED" /\ ~v.in.estop_healthy -> {"ESTOP_ACTIVE"}
    [] s = "FAULTED" /\ ~Untripped(StandingCauses(v)) -> {"CAUSE_STANDING"}
    [] OTHER -> {}

(* A device start away from MANUAL.                                        *)
DeviceRefusal(s, m) ==
  CASE m # "MANUAL"   -> {"WRONG_MODE"}
    [] m = "MANUAL" /\ s = "ESTOPPED" -> {"ESTOP_ACTIVE"}
    [] OTHER          -> {"LINE_FAULTED"}

ManualConveyorRefusal(v) ==
  Raised([HOPPER_HIGH_HIGH     |-> HighHigh(v),
          SENSOR_FAILED        |-> v.in.weight_failed,
          UNACKNOWLEDGED_ALARM |-> UnackedTrip(v)])

(* gates: the gate commands at that point of the scan.                     *)
ManualFeederRefusal(v, proven, gates) ==
  LET open  == {b \in Bins : gates[b]}
      drawn == IF open = {} THEN {setpoint.source_bin} ELSE open
  IN  Raised([CONVEYOR_NOT_RUNNING |-> ~proven,
              BIN_LOW              |-> \E b \in drawn : v.in.bin_low[b],
              HOPPER_HIGH          |-> v.in.hopper_high,
              HOPPER_HIGH_HIGH     |-> HighHigh(v),
              SENSOR_FAILED        |-> v.in.weight_failed,
              UNACKNOWLEDGED_ALARM |-> UnackedTrip(v)])

-----------------------------------------------------------------------------
(* Reports: every _report overwrites the one before it, so what a scan     *)
(* leaves standing is its last report, or the old one when it made none.   *)

ReportIf(made, refused) == IF made THEN <<refused>> ELSE << >>

(* The reports made before the state's own handler runs.                   *)
EarlyReports(v) ==
  LET s == ScanState(v)
      m == ScanMode(v)
  IN  ReportIf(mode_request # None, ModeRefusal(v))
        \o ReportIf(s # "MANUAL" /\ req \cap DeviceStarts # {}, DeviceRefusal(s, m))
        \o ReportIf("start" \in req /\ s \notin {"IDLE", "MANUAL"}, StartRefusal(v, s, m))
        \o ReportIf("reset" \in req /\ s \notin {"FAULTED", "ESTOPPED"}, {})

Standing(reports, otherwise) ==
  IF reports = << >> THEN otherwise ELSE reports[Len(reports)]

(* own: the handler's reports.                                             *)
Report(v, own) == start_inhibit' = Standing(EarlyReports(v) \o own, start_inhibit)

(* Mutant: the scan that comes to rest wipes its own refusals.             *)
ReportForgotten(v, own) == start_inhibit' = {}

(* At rest again: an old refusal is not left standing.                     *)
ReportAtRest(v, own) == start_inhibit' = Standing(EarlyReports(v) \o own, {})

-----------------------------------------------------------------------------
(* Ways into a state, shared by the handlers.                              *)

(* Mutant: a trip leaves the belt as it was.                               *)
EnterFaultedBeltOn(why, p) ==
  /\ state' = "FAULTED"
  /\ fault_reason' = why
  /\ cmd' = [Off EXCEPT !.conveyor = cmd.conveyor]
  /\ purge' = [p EXCEPT !.elapsed = 0, !.clearing = why \in ClearBeltOn /\ cmd.conveyor]

(* p is the purge record as the handler leaves it before the trip.         *)
EnterFaulted(why, p) ==
  LET clearing == why \in ClearBeltOn /\ cmd.conveyor IN
  /\ state' = "FAULTED"
  /\ fault_reason' = why
  /\ cmd' = [Off EXCEPT !.conveyor = clearing]
  /\ purge' = [p EXCEPT !.elapsed = 0, !.clearing = clearing]

BeginStopSequence(v) ==
  /\ state' = "STOPPING"
  /\ cmd' = [Off EXCEPT !.conveyor = cmd.conveyor]
  /\ purge' = [purge EXCEPT !.elapsed = 0, !.proven = Confirmed(v.in)]
  /\ UNCHANGED fault_reason

EnterRest(v, own) ==
  /\ state' = RestState(mode)
  /\ fault_reason' = None
  /\ active_bin' = NoBin
  /\ manual' = ManualAtRest
  /\ ReportAtRest(v, own)

ClearAllDeviceFaults(v) ==
  dev' = [feeder   |-> ClearFault(v.dev.feeder),
          conveyor |-> ClearFault(v.dev.conveyor),
          gate     |-> [b \in Bins |-> ClearFault(v.dev.gate[b])],
          outlet   |-> ClearFault(v.dev.outlet)]

NoStartStep == [auto EXCEPT !.step = None]

-----------------------------------------------------------------------------
(* IDLE: everything commanded off, every scan.  The state may have been    *)
(* reached by this scan's mode change.                                     *)

IdleOff(v) ==
  /\ \/ "start" \notin req
     \/ StartRefusal(v, "IDLE", ScanMode(v)) # {}
  /\ state' = "IDLE"
  /\ cmd' = Off
  /\ active_bin' = AfterModeChange(v, NoBin, active_bin)
  /\ batch' = [batch EXCEPT !.step = AfterModeChange(v, None, batch.step)]
  /\ UNCHANGED auto
  /\ Report(v, ReportIf("start" \in req, StartRefusal(v, "IDLE", ScanMode(v))))

BeginStartSequence(v) ==
  /\ "start" \in req /\ ScanMode(v) # "BATCH" /\ AutoInhibits(v) = {}
  /\ state' = "STARTING"
  /\ cmd' = [Off EXCEPT !.conveyor = TRUE]
  /\ active_bin' = setpoint.source_bin
  /\ auto' = [step |-> "CONVEYOR", elapsed |-> 0, feed_demand |-> TRUE]
  /\ batch' = [batch EXCEPT !.step = AfterModeChange(v, None, batch.step)]
  /\ Report(v, << {} >>)

RequestBatch(v) ==
  /\ "start" \in req /\ ScanMode(v) = "BATCH" /\ BatchInhibits(v) = {}
  /\ state' = "LOADING"
  /\ cmd' = [Off EXCEPT !.conveyor = TRUE]
  /\ \E b \in PlannedBins(setpoint.recipe) :
       /\ \A c \in PlannedBins(setpoint.recipe) : b <= c
       /\ active_bin' = b
  /\ batch' = [batch EXCEPT !.step = "CONVEYOR", !.plan = setpoint.recipe,
                            !.start_kg = v.in.weight, !.loaded_kg = 0,
                            !.elapsed = 0, !.proven = FALSE,
                            !.out_of_tolerance = FALSE]
  /\ UNCHANGED auto
  /\ Report(v, << {} >>)

ScanIdle(v) ==
  /\ ScanState(v) = "IDLE"
  /\ dev' = v.dev
  /\ fault_reason' = AfterModeChange(v, None, fault_reason)
  /\ manual' = AfterModeChange(v, ManualAtRest, manual)
  /\ UNCHANGED purge
  /\ IdleOff(v) \/ BeginStartSequence(v) \/ RequestBatch(v)

-----------------------------------------------------------------------------
(* STARTING, downstream first: the belt proven, the gate open, the feeder. *)

StartingTrip(v) ==
  /\ \E why \in Reason(StartingTrips(v)) : EnterFaulted(why, purge)
  /\ auto' = NoStartStep

StartingStop(v) == "stop" \in req /\ BeginStopSequence(v) /\ UNCHANGED auto

ConveyorStep(v) ==
  /\ auto.step = "CONVEYOR"
  /\ \/ /\ Confirmed(v.in)
        /\ auto' = [auto EXCEPT !.step = "GATE", !.elapsed = 0]
        /\ cmd' = [cmd EXCEPT !.gate[active_bin] = TRUE]
        /\ UNCHANGED <<state, fault_reason, purge>>
     \/ /\ ~Confirmed(v.in) /\ auto.elapsed + 1 < ConveyorProof
        /\ auto' = [auto EXCEPT !.elapsed = @ + 1]
        /\ UNCHANGED <<state, fault_reason, purge, cmd>>
     \/ /\ ~Confirmed(v.in) /\ auto.elapsed + 1 >= ConveyorProof
        /\ auto' = [auto EXCEPT !.elapsed = @ + 1, !.step = None]
        /\ EnterFaulted("conveyor failed to prove running", purge)

Demand(v) ==
  FeedDemand(auto.feed_demand, v.in.hopper_high, v.in.weight, RestartBelow)

(* Level control decides the first feed too.  The belt is not asked again. *)
GateStep(v) ==
  /\ auto.step = "GATE"
  /\ UNCHANGED <<fault_reason, purge>>
  /\ \/ /\ v.in.gate_open[active_bin] /\ Demand(v)
        /\ auto' = [step |-> "FEEDER", elapsed |-> 0, feed_demand |-> TRUE]
        /\ cmd' = [cmd EXCEPT !.feeder = TRUE]
        /\ UNCHANGED state
     \/ /\ v.in.gate_open[active_bin] /\ ~Demand(v)
        /\ state' = "RUNNING"
        /\ auto' = [auto EXCEPT !.step = None, !.feed_demand = FALSE]
        /\ UNCHANGED cmd
     \/ ~v.in.gate_open[active_bin] /\ UNCHANGED <<state, auto, cmd>>

FeederStep(v) ==
  /\ auto.step = "FEEDER"
  /\ state' = IF v.in.feeder_running THEN "RUNNING" ELSE state
  /\ auto' = IF v.in.feeder_running THEN NoStartStep ELSE auto
  /\ UNCHANGED <<fault_reason, purge, cmd>>

ScanStarting(v) ==
  /\ ScanState(v) = "STARTING"
  /\ dev' = v.dev
  /\ Report(v, << >>)
  /\ UNCHANGED <<active_bin, manual, batch>>
  /\ \/ StartingTrip(v)
     \/ /\ Untripped(StartingTrips(v))
        /\ \/ StartingStop(v)
           \/ "stop" \notin req /\ (ConveyorStep(v) \/ GateStep(v) \/ FeederStep(v))

-----------------------------------------------------------------------------
(* RUNNING: the feeder follows the level, the outlet the downstream.       *)

RunningTrip(v) ==
  /\ \E why \in Reason(RunningTrips(v)) : EnterFaulted(why, purge)
  /\ auto' = NoStartStep

RunningStop(v) == "stop" \in req /\ BeginStopSequence(v) /\ UNCHANGED auto

(* Mutant: the outlet does not ask the downstream.                         *)
DischargeAnyway(v, wanted) == HasOutlet /\ wanted

Discharge(v, wanted) == HasOutlet /\ wanted /\ v.in.downstream_ready

RunningFeed(v) ==
  /\ "stop" \notin req
  /\ auto' = [auto EXCEPT !.feed_demand = Demand(v)]
  /\ cmd' = [cmd EXCEPT !.feeder = Demand(v), !.outlet = Discharge(v, TRUE)]
  /\ UNCHANGED <<state, fault_reason, purge>>

ScanRunning(v) ==
  /\ ScanState(v) = "RUNNING"
  /\ dev' = v.dev
  /\ Report(v, << >>)
  /\ UNCHANGED <<active_bin, manual, batch>>
  /\ \/ RunningTrip(v)
     \/ Untripped(RunningTrips(v)) /\ (RunningStop(v) \/ RunningFeed(v))

-----------------------------------------------------------------------------
(* STOPPING: the belt runs on for the purge time with nothing fed.         *)

StopBeltProven(v) == purge.proven \/ Confirmed(v.in)

StoppingTrip(v) ==
  /\ \E why \in Reason(StoppingTrips(v, StopBeltProven(v))) :
       EnterFaulted(why, [purge EXCEPT !.proven = StopBeltProven(v)])
  /\ auto' = NoStartStep
  /\ UNCHANGED active_bin
  /\ Report(v, << >>)

Purging(v) ==
  /\ purge.elapsed + 1 < PurgeTime
  /\ purge' = [purge EXCEPT !.elapsed = @ + 1, !.proven = StopBeltProven(v)]
  /\ UNCHANGED <<state, fault_reason, cmd, auto, active_bin>>
  /\ Report(v, << >>)

Purged(v) ==
  /\ purge.elapsed + 1 >= PurgeTime
  /\ state' = "IDLE"
  /\ cmd' = [cmd EXCEPT !.conveyor = FALSE]
  /\ purge' = [purge EXCEPT !.elapsed = 0, !.proven = StopBeltProven(v)]
  /\ active_bin' = NoBin
  /\ UNCHANGED <<fault_reason, auto>>
  /\ ReportAtRest(v, << >>)

ScanStopping(v) ==
  /\ ScanState(v) = "STOPPING"
  /\ dev' = v.dev
  /\ UNCHANGED <<manual, batch>>
  /\ \/ StoppingTrip(v)
     \/ /\ Untripped(StoppingTrips(v, StopBeltProven(v)))
        /\ Purging(v) \/ Purged(v)

-----------------------------------------------------------------------------
(* FAULTED: the belt may still be clearing; only a reset leaves.           *)

ClearingGoesOn(v) ==
  /\ purge.clearing
  /\ purge.elapsed + 1 < PurgeTime
  /\ ~v.in.conveyor_faulted /\ ~Overcurrent(v) /\ Confirmed(v.in)
  /\ ~HighHigh(v) /\ ~v.in.weight_failed

(* Mutant: the clearing's clock is started and never advanced.             *)
ClearingElapsedStill == purge.elapsed

ClearingElapsed == IF purge.clearing THEN purge.elapsed + 1 ELSE purge.elapsed

HoldFaulted(v) ==
  /\ \/ "reset" \notin req
     \/ ResetRefusal(v, "FAULTED") # {}
  /\ cmd' = [Off EXCEPT !.conveyor = ClearingGoesOn(v)]
  /\ purge' = [purge EXCEPT !.elapsed = ClearingElapsed, !.clearing = ClearingGoesOn(v)]
  /\ dev' = v.dev
  /\ Report(v, ReportIf("reset" \in req, ResetRefusal(v, "FAULTED")))
  /\ UNCHANGED <<state, fault_reason, active_bin, manual, batch>>

ResetFaulted(v) ==
  /\ "reset" \in req /\ ResetRefusal(v, "FAULTED") = {}
  /\ cmd' = Off
  /\ purge' = [purge EXCEPT !.elapsed = ClearingElapsed, !.clearing = FALSE]
  /\ ClearAllDeviceFaults(v)
  /\ batch' = [batch EXCEPT !.step = None, !.timed_out = FALSE]
  /\ EnterRest(v, << {} >>)

ScanFaulted(v) ==
  /\ ScanState(v) = "FAULTED"
  /\ UNCHANGED auto
  /\ HoldFaulted(v) \/ ResetFaulted(v)

-----------------------------------------------------------------------------
(* ESTOPPED: entered by the scan that reads ES-001 open, whatever the      *)
(* state; left by a reset once it reads closed.                            *)

HoldEstopped(v) ==
  /\ ~v.in.estop_healthy \/ "reset" \notin req
  /\ state' = "ESTOPPED"
  /\ fault_reason' = IF state = "ESTOPPED" THEN fault_reason ELSE "e-stop"
  /\ auto' = IF state = "ESTOPPED" THEN auto ELSE NoStartStep
  /\ purge' = [purge EXCEPT !.clearing = state = "ESTOPPED" /\ @]
  /\ dev' = v.dev
  /\ Report(v, ReportIf("reset" \in req, ResetRefusal(v, "ESTOPPED")))
  /\ UNCHANGED <<active_bin, manual, batch>>

(* Mutant: the E-stop reset resets everything.                             *)
ResetEstoppedAll(v) ==
  /\ v.in.estop_healthy /\ "reset" \in req
  /\ ClearAllDeviceFaults(v)
  /\ UNCHANGED <<auto, purge>>
  /\ batch' = [batch EXCEPT !.timed_out = FALSE, !.step = None]
  /\ EnterRest(v, << {} >>)

(* The reset clears the E-stop, not whatever else is still wrong.          *)
ResetEstopped(v) ==
  /\ v.in.estop_healthy /\ "reset" \in req
  /\ ClearAllDeviceFaults(v)
  /\ UNCHANGED <<auto, purge>>
  /\ \/ /\ state' = "FAULTED"
        /\ \E why \in Reason(StandingCauses(v)) : fault_reason' = why
        /\ batch' = [batch EXCEPT !.timed_out = FALSE]
        /\ Report(v, << {} >>)
        /\ UNCHANGED <<active_bin, manual>>
     \/ /\ Untripped(StandingCauses(v))
        /\ batch' = [batch EXCEPT !.timed_out = FALSE, !.step = None]
        /\ EnterRest(v, << {} >>)

(* Mutant: the commands are left to the E-stop circuit.                    *)
ScanEstoppedCommanding(v) ==
  /\ ScanState(v) = "ESTOPPED"
  /\ UNCHANGED cmd
  /\ HoldEstopped(v) \/ ResetEstopped(v)

ScanEstopped(v) ==
  /\ ScanState(v) = "ESTOPPED"
  /\ cmd' = Off
  /\ HoldEstopped(v) \/ ResetEstopped(v)

-----------------------------------------------------------------------------
(* MANUAL: the operator's devices, every protection still enforced.        *)

(* The belt's own proof, advanced before the trips are judged.             *)
ManualSupervised(v) ==
  CASE ~cmd.conveyor -> ManualAtRest
    [] cmd.conveyor /\ Confirmed(v.in) -> [manual EXCEPT !.proven = TRUE]
    [] OTHER -> [manual EXCEPT !.elapsed = IF manual.proven THEN @ ELSE @ + 1]

(* This scan's requests meet a line that has just tripped.                 *)
ManualTrip(v) ==
  /\ \E why \in Reason(ManualTrips(v, ManualSupervised(v))) : EnterFaulted(why, purge)
  /\ manual' = ManualSupervised(v)
  /\ auto' = NoStartStep
  /\ Report(v, ReportIf(req \cap ({"start"} \cup DeviceStarts) # {}, {"LINE_FAULTED"}))

(* The line Stop stops every device; a device's own stop wins over its     *)
(* start.                                                                  *)
Stopping(device_stop) == device_stop \in req \/ "stop" \in req
Starting(device_start, device_stop) == device_start \in req /\ ~Stopping(device_stop)

StartsConveyor(v) ==
  /\ Starting("start_conveyor", "stop_conveyor")
  /\ ManualConveyorRefusal(v) = {} /\ ~cmd.conveyor

(* The belt proof after this scan's conveyor pushbuttons.                  *)
ManualAfter(v) ==
  IF Stopping("stop_conveyor") \/ StartsConveyor(v)
  THEN ManualAtRest ELSE ManualSupervised(v)

(* Mutant: opening a gate shuts no other.                                  *)
ManualGatesAll ==
  CASE Starting("open_gate", "close_gate") -> [cmd.gate EXCEPT ![setpoint.source_bin] = TRUE]
    [] Stopping("close_gate") -> AllClosed
    [] OTHER -> cmd.gate

ManualGates ==
  CASE Starting("open_gate", "close_gate") -> Only(setpoint.source_bin)
    [] Stopping("close_gate") -> AllClosed
    [] OTHER -> cmd.gate

FeederRefusal(v) == ManualFeederRefusal(v, ManualAfter(v).proven, ManualGates)

(* Mutant: only the start of the feeder asks the belt.                     *)
ManualFeederKept(v) ==
  /\ \/ cmd.feeder /\ ~Stopping("stop_feeder")
     \/ Starting("start_feeder", "stop_feeder") /\ FeederRefusal(v) = {}
  /\ ~v.in.hopper_high

ManualFeeder(v) ==
  /\ \/ cmd.feeder /\ ~Stopping("stop_feeder")
     \/ Starting("start_feeder", "stop_feeder") /\ FeederRefusal(v) = {}
  /\ ManualAfter(v).proven /\ ~v.in.hopper_high

ManualOutlet(v) ==
  /\ \/ cmd.outlet /\ ~Stopping("close_outlet")
     \/ HasOutlet /\ Starting("open_outlet", "close_outlet")
  /\ v.in.downstream_ready

(* What this scan's requests are refused for, all of them in one report.   *)
ManualRefusals(v) ==
  (IF "start" \in req THEN {"WRONG_MODE"} ELSE {})
    \cup (IF Starting("start_conveyor", "stop_conveyor")
          THEN ManualConveyorRefusal(v) ELSE {})
    \cup (IF HasOutlet /\ Starting("open_outlet", "close_outlet")
               /\ ~v.in.downstream_ready
          THEN {"DOWNSTREAM_NOT_READY"} ELSE {})
    \cup (IF Starting("start_feeder", "stop_feeder") THEN FeederRefusal(v) ELSE {})

ManualCommands(v) ==
  /\ state' = "MANUAL"
  /\ fault_reason' = AfterModeChange(v, None, fault_reason)
  /\ manual' = ManualAfter(v)
  /\ cmd' = [feeder   |-> ManualFeeder(v),
             conveyor |-> (cmd.conveyor /\ ~Stopping("stop_conveyor")) \/ StartsConveyor(v),
             gate     |-> ManualGates,
             outlet   |-> ManualOutlet(v)]
  /\ UNCHANGED <<auto, purge>>
  /\ Report(v, ReportIf(req \cap ({"start"} \cup DeviceStarts) # {}, ManualRefusals(v)))

ScanManual(v) ==
  /\ ScanState(v) = "MANUAL"
  /\ dev' = v.dev
  /\ active_bin' = AfterModeChange(v, NoBin, active_bin)
  /\ batch' = [batch EXCEPT !.step = AfterModeChange(v, None, batch.step)]
  /\ \/ ManualTrip(v)
     \/ Untripped(ManualTrips(v, ManualSupervised(v))) /\ ManualCommands(v)

-----------------------------------------------------------------------------
(* BATCH: LOADING, PROCESSING, DISCHARGING, CLEANING.                      *)

BatchTrip(v) == \E why \in Reason(BatchTrips(v)) : EnterFaulted(why, purge)

(* Trips and Stop come first in every batch state; go is the rest of it.   *)
BatchScan(v, s, go) ==
  /\ ScanState(v) = s
  /\ dev' = v.dev
  /\ \/ /\ BatchTrip(v) /\ auto' = NoStartStep
        /\ Report(v, << >>)
        /\ UNCHANGED <<active_bin, manual, batch>>
     \/ /\ Untripped(BatchTrips(v)) /\ "stop" \in req
        /\ BeginStopSequence(v)
        /\ Report(v, << >>)
        /\ UNCHANGED <<active_bin, auto, manual, batch>>
     \/ Untripped(BatchTrips(v)) /\ "stop" \notin req /\ go

(* The belt proof of LOADING and CLEANING: three outcomes.                 *)
BeltProven(v) == batch.proven \/ Confirmed(v.in)
BeltProving(v) == ~BeltProven(v) /\ batch.elapsed + 1 < ConveyorProof
BeltUnproven(v) == ~BeltProven(v) /\ batch.elapsed + 1 >= ConveyorProof

Loaded(v) == IF v.in.weight > batch.start_kg THEN v.in.weight - batch.start_kg ELSE 0

Keep == UNCHANGED <<state, fault_reason, purge, auto>>

(* Mutant: the proof is not remembered, so a belt lost later does not trip. *)
LoadingConveyorForgets(v) ==
  /\ batch.step = "CONVEYOR"
  /\ UNCHANGED active_bin
  /\ \/ /\ BeltUnproven(v)
        /\ EnterFaulted("conveyor failed to prove running", purge)
        /\ auto' = NoStartStep
        /\ batch' = [batch EXCEPT !.loaded_kg = Loaded(v), !.elapsed = @ + 1]
     \/ /\ BeltProving(v)
        /\ batch' = [batch EXCEPT !.loaded_kg = Loaded(v), !.elapsed = @ + 1]
        /\ Keep /\ UNCHANGED cmd
     \/ /\ BeltProven(v)
        /\ batch' = [batch EXCEPT !.loaded_kg = Loaded(v), !.step = "GATE"]
        /\ cmd' = [cmd EXCEPT !.gate[active_bin] = TRUE]
        /\ Keep

LoadingConveyor(v) ==
  /\ batch.step = "CONVEYOR"
  /\ UNCHANGED active_bin
  /\ \/ /\ BeltUnproven(v)
        /\ EnterFaulted("conveyor failed to prove running", purge)
        /\ auto' = NoStartStep
        /\ batch' = [batch EXCEPT !.loaded_kg = Loaded(v), !.elapsed = @ + 1]
     \/ /\ BeltProving(v)
        /\ batch' = [batch EXCEPT !.loaded_kg = Loaded(v), !.elapsed = @ + 1]
        /\ Keep /\ UNCHANGED cmd
     \/ /\ BeltProven(v)
        /\ batch' = [batch EXCEPT !.loaded_kg = Loaded(v), !.proven = TRUE,
                                  !.step = "GATE"]
        /\ cmd' = [cmd EXCEPT !.gate[active_bin] = TRUE]
        /\ Keep

LoadingGate(v) ==
  /\ batch.step = "GATE"
  /\ batch' = [batch EXCEPT !.loaded_kg = Loaded(v),
                            !.step = IF v.in.gate_open[active_bin] THEN "FEED" ELSE @]
  /\ cmd' = IF v.in.gate_open[active_bin] THEN [cmd EXCEPT !.feeder = TRUE] ELSE cmd
  /\ Keep /\ UNCHANGED active_bin

(* Stop early by the preact: what is on the belt makes up the rest.        *)
DoseReached(v) ==
  v.in.weight + BatchPreact >= batch.start_kg + LoadedTo(batch.plan, active_bin)

LoadingFeed(v) ==
  /\ batch.step = "FEED"
  /\ Keep /\ UNCHANGED active_bin
  /\ \/ /\ DoseReached(v)
        /\ cmd' = [cmd EXCEPT !.feeder = FALSE, !.gate = AllClosed]
        /\ batch' = [batch EXCEPT !.loaded_kg = Loaded(v), !.step = "SETTLE",
                                  !.elapsed = 0]
     \/ /\ ~DoseReached(v)
        /\ batch' = [batch EXCEPT !.loaded_kg = Loaded(v)]
        /\ UNCHANGED cmd

LaterBins == {b \in PlannedBins(batch.plan) : b > active_bin}

OutOfTolerance(v) ==
  \/ Loaded(v) > PlanTotal(batch.plan) + BatchTolerance
  \/ PlanTotal(batch.plan) > Loaded(v) + BatchTolerance

LoadingSettle(v) ==
  /\ batch.step = "SETTLE"
  /\ UNCHANGED <<fault_reason, purge, auto>>
  /\ \/ /\ batch.elapsed + 1 < PurgeTime
        /\ batch' = [batch EXCEPT !.loaded_kg = Loaded(v), !.elapsed = @ + 1]
        /\ UNCHANGED <<state, cmd, active_bin>>
     \/ /\ batch.elapsed + 1 >= PurgeTime
        /\ \E b \in LaterBins :
             /\ \A c \in LaterBins : b <= c
             /\ active_bin' = b
             /\ cmd' = [cmd EXCEPT !.gate[b] = TRUE]
        /\ batch' = [batch EXCEPT !.loaded_kg = Loaded(v), !.elapsed = @ + 1,
                                  !.step = "GATE"]
        /\ UNCHANGED state
     \/ /\ batch.elapsed + 1 >= PurgeTime /\ LaterBins = {}
        /\ state' = "PROCESSING"
        /\ active_bin' = NoBin
        /\ cmd' = [cmd EXCEPT !.conveyor = FALSE]
        /\ batch' = [batch EXCEPT !.loaded_kg = Loaded(v), !.elapsed = 0,
                                  !.proven = FALSE, !.step = None,
                                  !.out_of_tolerance = OutOfTolerance(v)]

ScanLoading(v) ==
  BatchScan(v, "LOADING",
    /\ LoadingConveyor(v) \/ LoadingGate(v) \/ LoadingFeed(v) \/ LoadingSettle(v)
    /\ Report(v, << >>)
    /\ UNCHANGED manual)

(* The hold setpoint is read live.                                         *)
ScanProcessing(v) ==
  BatchScan(v, "PROCESSING",
    /\ UNCHANGED <<fault_reason, purge, auto, active_bin, manual>>
    /\ Report(v, << >>)
    /\ \/ /\ batch.elapsed + 1 < setpoint.hold
          /\ batch' = [batch EXCEPT !.elapsed = @ + 1]
          /\ UNCHANGED <<state, cmd>>
       \/ /\ batch.elapsed + 1 >= setpoint.hold
          /\ batch' = [batch EXCEPT !.elapsed = 0]
          /\ state' = "DISCHARGING"
          /\ cmd' = [cmd EXCEPT !.outlet = Discharge(v, TRUE)])

(* Mutant: a wait for the downstream restarts the timeout.                 *)
DischargeElapsedAnew(v) == IF v.in.downstream_ready THEN batch.elapsed + 1 ELSE 0

(* The timeout counts only while the downstream takes material.            *)
DischargeElapsed(v) ==
  IF v.in.downstream_ready THEN batch.elapsed + 1 ELSE batch.elapsed

HopperEmpty(v) == v.in.outlet_open /\ v.in.weight <= BatchEmpty

ScanDischarging(v) ==
  BatchScan(v, "DISCHARGING",
    /\ UNCHANGED <<active_bin, manual>>
    /\ Report(v, << >>)
    /\ \/ /\ HopperEmpty(v)
          /\ state' = "CLEANING"
          /\ cmd' = [cmd EXCEPT !.conveyor = TRUE, !.outlet = Discharge(v, TRUE)]
          /\ batch' = [batch EXCEPT !.elapsed = 0, !.proven = FALSE]
          /\ UNCHANGED <<fault_reason, purge, auto>>
       \/ /\ ~HopperEmpty(v) /\ DischargeElapsed(v) >= DischargeTime
          /\ EnterFaulted("discharge timeout", purge)
          /\ batch' = [batch EXCEPT !.elapsed = DischargeElapsed(v), !.timed_out = TRUE]
          /\ auto' = NoStartStep
       \/ /\ ~HopperEmpty(v) /\ DischargeElapsed(v) < DischargeTime
          /\ cmd' = [cmd EXCEPT !.outlet = Discharge(v, TRUE)]
          /\ batch' = [batch EXCEPT !.elapsed = DischargeElapsed(v)]
          /\ Keep)
(* Mutant: the clock restarts on every proven scan.                        *)
CleanElapsedAnew(v) == 1

(* The first proven scan restarts the clock: the purge counts belt motion. *)
CleanElapsed(v) == (IF batch.proven THEN batch.elapsed ELSE 0) + 1

CleaningBelt(v) ==
  /\ cmd.conveyor
  /\ UNCHANGED <<active_bin, manual>>
  /\ Report(v, << >>)
  /\ \/ /\ BeltUnproven(v)
        /\ EnterFaulted("conveyor failed to prove running", purge)
        /\ batch' = [batch EXCEPT !.elapsed = @ + 1]
        /\ auto' = NoStartStep
     \/ /\ BeltProving(v)
        /\ cmd' = [cmd EXCEPT !.outlet = Discharge(v, TRUE)]
        /\ batch' = [batch EXCEPT !.elapsed = @ + 1]
        /\ Keep
     \/ /\ BeltProven(v) /\ CleanElapsed(v) < PurgeTime
        /\ cmd' = [cmd EXCEPT !.outlet = Discharge(v, TRUE)]
        /\ batch' = [batch EXCEPT !.elapsed = CleanElapsed(v), !.proven = TRUE]
        /\ Keep
     \/ /\ BeltProven(v) /\ CleanElapsed(v) >= PurgeTime
        /\ cmd' = [cmd EXCEPT !.conveyor = FALSE, !.outlet = FALSE]
        /\ batch' = [batch EXCEPT !.elapsed = CleanElapsed(v), !.proven = FALSE]
        /\ Keep

(* Mutant: the batch counts before the outlet is closed.                   *)
CleaningOutletAtOnce(v) ==
  /\ ~cmd.conveyor
  /\ batch' = [batch EXCEPT !.completed = @ + 1, !.step = None]
  /\ cmd' = cmd /\ purge' = purge /\ auto' = auto
  /\ EnterRest(v, << >>)

(* Clean: the batch is complete once the outlet proves closed.             *)
CleaningOutlet(v) ==
  /\ ~cmd.conveyor
  /\ \/ /\ v.in.outlet_closed
        /\ batch' = [batch EXCEPT !.completed = @ + 1, !.step = None]
        /\ cmd' = cmd /\ purge' = purge /\ auto' = auto
        /\ EnterRest(v, << >>)
     \/ /\ ~v.in.outlet_closed
        /\ UNCHANGED <<active_bin, manual, batch, cmd>> /\ Keep
        /\ Report(v, << >>)

ScanCleaning(v) == BatchScan(v, "CLEANING", CleaningBelt(v) \/ CleaningOutlet(v))

-----------------------------------------------------------------------------
(* One call of scan() on one view; every request is consumed.              *)
ScanOf(v) ==
  /\ in' = v.in
  /\ held' = v.held
  /\ alarms' = AlarmsScanned(v)
  /\ mode' = ScanMode(v)
  /\ req' = {} /\ mode_request' = None
  /\ UNCHANGED setpoint
  /\ \/ ScanIdle(v) \/ ScanStarting(v) \/ ScanRunning(v) \/ ScanStopping(v)
     \/ ScanFaulted(v) \/ ScanEstopped(v) \/ ScanManual(v)
     \/ ScanLoading(v) \/ ScanProcessing(v) \/ ScanDischarging(v)
     \/ ScanCleaning(v)

(* One call of scan(), in a fresh input image.                             *)
Scan == \E v \in Views : ScanOf(v)

-----------------------------------------------------------------------------
(* The operator, between scans.                                            *)

(* Bounds: MaxPresses requests per scan, and no Start once MaxBatches      *)
(* batches are counted.                                                    *)
Press(c) ==
  /\ c \notin req /\ Cardinality(req) < MaxPresses
  /\ c = "start" => batch.completed < MaxBatches
  /\ req' = req \cup {c}
  /\ UNCHANGED <<in, cmd, dev, held, alarms, mode_request, mode, state,
                 fault_reason, active_bin, auto, purge, manual, batch, setpoint,
                 start_inhibit>>

SelectMode(m) ==
  /\ m # mode_request
  /\ mode_request' = m
  /\ UNCHANGED <<in, cmd, dev, held, alarms, req, mode, state, fault_reason,
                 active_bin, auto, purge, manual, batch, setpoint, start_inhibit>>

(* Setpoints: read at the next start (the hold: live).                     *)
Set(changed) ==
  /\ setpoint' = changed
  /\ changed # setpoint
  /\ UNCHANGED <<in, cmd, dev, held, alarms, req, mode_request, mode, state,
                 fault_reason, active_bin, auto, purge, manual, batch,
                 start_inhibit>>

SelectSource(b) == Set([setpoint EXCEPT !.source_bin = b])
SetRecipe(b, kg) == Set([setpoint EXCEPT !.recipe[b] = kg])
SetHold(h) == Set([setpoint EXCEPT !.hold = h])

Operator ==
  \/ \E c \in Commands : Press(c)
  \/ \E m \in Modes : SelectMode(m)
  \/ \E b \in Sources : SelectSource(b)
  \/ \E b \in Bins, kg \in Recipes : SetRecipe(b, kg)
  \/ \E h \in Holds : SetHold(h)

Next == Scan \/ Operator

Spec == Init /\ [][Next]_vars

(* The rig calls scan() every tick, whatever the operator does.            *)
FairSpec == Spec /\ WF_vars(Scan)

-----------------------------------------------------------------------------
=============================================================================
