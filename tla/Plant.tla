------------------------------- MODULE Plant -------------------------------
(***************************************************************************)
(* The virtual bulk-material line: bins behind gates, feeder, belt, hopper *)
(* and outlet, with the faults that can be injected into them, and the     *)
(* instruments through which a controller sees them.  One Scan is          *)
(* plant_io.scan(): commands applied, plant stepped, inputs published.     *)
(*                                                                         *)
(* Mass is counted in units of what moves in a tick, times in ticks.  The  *)
(* belt is a shift register: belt[k] is what has k ticks of travel to go,  *)
(* which is the code's queue of (arrival, mass) on a clock that runs only  *)
(* while the belt moves.                                                   *)
(***************************************************************************)
EXTENDS PlantDevices, Functions, FiniteSets

CONSTANTS
  Bins, BinLevels,       \* the bins, and the levels they may start with
  BinLow,                \* kg at bin_low_pct
  GateTravel, FeederStart, ConveyorStart, MotorStop,   \* the devices' delays
  PlugTime,              \* feeder_plug_detect_s
  JamTime,               \* conveyor_jam_overload_s
  Transit,               \* the belt's transit time
  FeedRate, DrawRate,    \* what feeder and outlet move in a tick
  Capacity, HighPoint, HighHighPoint   \* the hopper and its switches

VARIABLES
  feeder,      \* M-103: its motor, and how long it has pushed against a jam
  conveyor,    \* M-104: its motor, and how long it has turned against a jam
  gate,        \* XV-102, 112, 122
  outlet,      \* XV-106
  level,       \* what each bin holds
  belt,        \* what the belt carries
  hopper, discharged, spilled,
  injected,    \* the faults standing in the plant, the E-stop among them
  sensor,      \* what is wrong with each instrument
  io           \* the inputs published last

devices  == <<feeder, conveyor, gate, outlet>>
material == <<level, belt, hopper, discharged, spilled>>
vars     == <<devices, material, injected, sensor, io>>

Faults ==
  {"estop", "feeder_trip", "conveyor_trip", "feeder_fail_to_start",
   "conveyor_fail_to_start", "gate_stuck", "belt_slip", "conveyor_jam",
   "bin_bridged", "feeder_jam", "outlet_stuck", "outlet_plugged",
   "downstream_stopped"}

(* The instruments that can go wrong here, the analog ones without a       *)
(* diagnostic apart: those can stick, and not be told to have failed.      *)
Undiagnosed == {"current_high", "flow_low"}
Signals ==
  Undiagnosed \cup
  {"estop_healthy", "feeder_running", "feeder_faulted", "plugged", "conveyor_running",
   "conveyor_faulted", "motion", "outlet_open", "outlet_closed", "hopper_high",
   "high_high_switch", "weight", "downstream_ready"}

Delay == 1 + FeederStart + ConveyorStart + MotorStop

TypeOK ==
  /\ feeder \in [motor : Motor(Delay), pushing : 0 .. PlugTime, plugged : BOOLEAN]
  /\ conveyor \in [motor : Motor(Delay), jam : 0 .. JamTime]
  /\ gate \in [Bins -> Gate(GateTravel)] /\ outlet \in Gate(GateTravel)
  /\ level \in [Bins -> Nat] /\ belt \in [1 .. Transit -> Nat]
  /\ hopper \in 0 .. Capacity /\ discharged \in Nat /\ spilled \in Nat
  /\ injected \subseteq Faults
  /\ sensor \in [Signals -> {"healthy", "stuck", "failed"}]

-----------------------------------------------------------------------------
(* Material.                                                               *)

Least(a, b) == IF a < b THEN a ELSE b

OnBelt == SumFunction(belt)

(* accounted_mass_kg(): what is in the system, and what has left it.       *)
Accounted == SumFunction(level) + OnBelt + hopper + discharged + spilled

-----------------------------------------------------------------------------
(* One step of each device under the commands c.                           *)

(* A tripped E-stop takes the motors' power whatever is commanded; its     *)
(* release makes them available again.                                     *)
Energised(m) == IF "estop" \in injected THEN PowerOff(m) ELSE PowerOn(m)

FeederMotor(c) ==
  MotorStep(Energised(Commanded(feeder.motor, c.feeder)), FeederStart, MotorStop,
            "feeder_fail_to_start" \in injected, "feeder_trip" \in injected)

(* The plug switch makes after pushing against a jam, and stays made,      *)
(* running or not, until the jam is cleared.                               *)
FeederStepped(c) ==
  LET m == FeederMotor(c)
      jammed  == "feeder_jam" \in injected
      pushing == IF Running(m) /\ ~feeder.plugged THEN Least(feeder.pushing + 1, PlugTime)
                 ELSE feeder.pushing
  IN  [motor   |-> m,
       pushing |-> IF jammed THEN pushing ELSE 0,
       plugged |-> jammed /\ (feeder.plugged \/ (Running(m) /\ pushing >= PlugTime))]

GateStepped(c) ==
  [b \in Bins |-> GateStep([gate[b] EXCEPT !.open = c.gate[b] /\ "estop" \notin injected],
                           GateTravel, b = 1 /\ "gate_stuck" \in injected)]

OutletStepped(c) ==
  GateStep([outlet EXCEPT !.open = c.outlet /\ "estop" \notin injected],
           GateTravel, "outlet_stuck" \in injected)

(* ZSS-104: material can move.                                             *)
Moving(m) == Running(m) /\ injected \cap {"belt_slip", "conveyor_jam"} = {}

ConveyorBefore(c) == Energised(Commanded(conveyor.motor, c.conveyor))

(* Against a jam the motor turns until its overload relay trips.           *)
ConveyorStepped(c) ==
  LET m   == MotorStep(ConveyorBefore(c), ConveyorStart, MotorStop,
                       "conveyor_fail_to_start" \in injected, "conveyor_trip" \in injected)
      jam == IF "conveyor_jam" \in injected /\ Running(m)
             THEN Least(conveyor.jam + 1, JamTime) ELSE 0
  IN  [motor |-> IF jam >= JamTime THEN Overload(m) ELSE m, jam |-> jam]

(* The devices after the step.                                             *)
Stepped(c) ==
  [feeder |-> FeederStepped(c), conveyor |-> ConveyorStepped(c),
   gate |-> GateStepped(c), outlet |-> OutletStepped(c)]

-----------------------------------------------------------------------------
(* What moves in the step, n being the devices after it.                   *)

OpenBins == {b \in Bins : IsOpen(gate[b])}

(* The feeder draws an equal share through every gate open at the start of *)
(* the step, as far as the bin has it and lets it go.                      *)
Drawn(n) ==
  LET feeding == Running(n.feeder.motor) /\ "feeder_jam" \notin injected
      share   == IF OpenBins = {} THEN 0 ELSE FeedRate \div Cardinality(OpenBins)
  IN  [b \in Bins |-> IF feeding /\ b \in OpenBins /\ ~(b = 1 /\ "bin_bridged" \in injected)
                      THEN Least(share, level[b]) ELSE 0]

(* load(): a belt that is not moving spills what is fed onto it.           *)
Loaded(c, offered) == IF Moving(ConveyorBefore(c)) THEN offered ELSE 0

BeltLoaded(loaded) == [belt EXCEPT ![Transit] = @ + loaded]

Delivered(n, loaded) == IF Moving(n.conveyor.motor) THEN BeltLoaded(loaded)[1] ELSE 0

BeltStepped(n, loaded) ==
  IF Moving(n.conveyor.motor)
  THEN [k \in 1 .. Transit |-> IF k = Transit THEN 0 ELSE BeltLoaded(loaded)[k + 1]]
  ELSE BeltLoaded(loaded)

Accepted(delivered) == Least(delivered, Capacity - hopper)

Discharge(held) ==
  IF IsOpen(outlet) /\ injected \cap {"outlet_plugged", "downstream_stopped"} = {}
  THEN Least(DrawRate, held) ELSE 0

Moved(c, n) ==
  LET drawn     == Drawn(n)
      offered   == SumFunction(drawn)
      loaded    == Loaded(c, offered)
      delivered == Delivered(n, loaded)
      accepted  == Accepted(delivered)
  IN  [drawn |-> drawn, offered |-> offered, loaded |-> loaded, delivered |-> delivered,
       accepted |-> accepted, out |-> Discharge(hopper + accepted)]

(* Mutant: only what runs over the rim is a spill.                         *)
SpiltOverRim(m) == m.delivered - m.accepted

(* Fed onto a belt that does not move, or delivered into a full hopper.    *)
Spilt(m) == (m.offered - m.loaded) + (m.delivered - m.accepted)

-----------------------------------------------------------------------------
(* What the instruments report.                                            *)

(* publish_plant_inputs(), before the instruments: the truth, over the     *)
(* values the step leaves behind.                                          *)
Truth(n, m) ==
  LET f == n.feeder k == n.conveyor held == hopper + m.accepted - m.out
  IN  [estop_healthy    |-> "estop" \notin injected,
       feeder_running   |-> Running(f.motor), feeder_faulted |-> f.motor.fault,
       plugged          |-> f.plugged,
       conveyor_running |-> Running(k.motor), conveyor_faulted |-> k.motor.fault,
       motion           |-> Moving(k.motor),
       current_high     |-> k.motor.state = "STARTING"
                              \/ (Running(k.motor) /\ "conveyor_jam" \in injected),
       flow_low         |-> m.delivered = 0,
       gate_open        |-> [b \in Bins |-> IsOpen(n.gate[b])],
       gate_closed      |-> [b \in Bins |-> IsClosed(n.gate[b])],
       outlet_open      |-> IsOpen(n.outlet), outlet_closed |-> IsClosed(n.outlet),
       bin_low          |-> [b \in Bins |-> level[b] - m.drawn[b] <= BinLow],
       hopper_high      |-> held >= HighPoint,
       high_high_switch |-> held >= HighHighPoint,
       weight           |-> held, weight_failed |-> FALSE,
       downstream_ready |-> "downstream_stopped" \notin injected]

(* A lost signal reads 0, which a fail-safe contact means as the tripped   *)
(* state: above the point, E-stop open, not ready.                         *)
Lost(tag) ==
  IF tag = "weight" THEN 0 ELSE tag \in {"hopper_high", "high_high_switch"}

(* report(): a stuck instrument repeats what it published last, a failed   *)
(* one its lost signal; only the weight's card has a diagnostic.           *)
Published(truth) ==
  [tag \in DOMAIN io |->
     CASE tag = "weight_failed" -> sensor["weight"] = "failed"
       [] tag \in Signals /\ sensor[tag] = "stuck"  -> io[tag]
       [] tag \in Signals /\ sensor[tag] = "failed" -> Lost(tag)
       [] OTHER -> truth[tag]]

-----------------------------------------------------------------------------
(* The plant at rest, its hopper empty, published once.                    *)

Nothing == [feeder |-> FALSE, conveyor |-> FALSE, gate |-> [b \in Bins |-> FALSE],
            outlet |-> FALSE]

AtRest(levels) ==
  [estop_healthy |-> TRUE, feeder_running |-> FALSE, feeder_faulted |-> FALSE,
   plugged |-> FALSE, conveyor_running |-> FALSE, conveyor_faulted |-> FALSE,
   motion |-> FALSE, current_high |-> FALSE, flow_low |-> TRUE,
   gate_open |-> [b \in Bins |-> FALSE], gate_closed |-> [b \in Bins |-> TRUE],
   outlet_open |-> FALSE, outlet_closed |-> TRUE,
   bin_low |-> [b \in Bins |-> levels[b] <= BinLow],
   hopper_high |-> 0 >= HighPoint, high_high_switch |-> 0 >= HighHighPoint,
   weight |-> 0, weight_failed |-> FALSE, downstream_ready |-> TRUE]

Init ==
  /\ feeder = [motor |-> MotorAtRest, pushing |-> 0, plugged |-> FALSE]
  /\ conveyor = [motor |-> MotorAtRest, jam |-> 0]
  /\ gate = [b \in Bins |-> GateAtRest] /\ outlet = GateAtRest
  /\ level \in [Bins -> BinLevels] /\ belt = [k \in 1 .. Transit |-> 0]
  /\ hopper = 0 /\ discharged = 0 /\ spilled = 0
  /\ injected = {} /\ io = AtRest(level)
  /\ sensor = [tag \in Signals |-> "healthy"]

(* plant_io.scan() under the commands c.                                   *)
Scan(c) ==
  \E n \in {Stepped(c)} : \E m \in {Moved(c, n)} :
    /\ feeder' = n.feeder /\ conveyor' = n.conveyor
    /\ gate' = n.gate /\ outlet' = n.outlet
    /\ level' = [b \in Bins |-> level[b] - m.drawn[b]]
    /\ belt' = BeltStepped(n, m.loaded)
    /\ hopper' = hopper + m.accepted - m.out
    /\ discharged' = discharged + m.out
    /\ spilled' = spilled + Spilt(m)
    /\ \E truth \in {Truth(n, m)} : io' = Published(truth)
    /\ UNCHANGED <<injected, sensor>>

-----------------------------------------------------------------------------
(* What a scenario or the page does to the plant, between two ticks.       *)

Inject(f) ==
  /\ f \notin injected
  /\ injected' = injected \cup {f}
  /\ UNCHANGED <<devices, material, sensor, io>>

(* The cause goes; what it latched in a device stays.                      *)
Remove(f) ==
  /\ f \in injected
  /\ injected' = injected \ {f}
  /\ UNCHANGED <<devices, material, sensor, io>>

(* sensor_stuck, sensor_failed; restored is back to healthy.               *)
SetSensor(tag, condition) ==
  /\ sensor[tag] # condition /\ ~(condition = "failed" /\ tag \in Undiagnosed)
  /\ sensor' = [sensor EXCEPT ![tag] = condition]
  /\ UNCHANGED <<devices, material, injected, io>>

(* Resets at the equipment: the drive's fault, the overload relay, a gate. *)
ResetFeeder ==
  /\ feeder.motor.state = "FAULT"
  /\ feeder' = [feeder EXCEPT !.motor = ClearMotorFault(@)]
  /\ UNCHANGED <<conveyor, gate, outlet, material, injected, sensor, io>>

ResetConveyor ==
  /\ conveyor.motor.state = "FAULT"
  /\ conveyor' = [conveyor EXCEPT !.motor = ClearMotorFault(@)]
  /\ UNCHANGED <<feeder, gate, outlet, material, injected, sensor, io>>

ResetGate(b) ==
  /\ gate[b].state = "FAULT"
  /\ gate' = [gate EXCEPT ![b] = ClearGateFault(@)]
  /\ UNCHANGED <<feeder, conveyor, outlet, material, injected, sensor, io>>

ResetOutlet ==
  /\ outlet.state = "FAULT"
  /\ outlet' = ClearGateFault(outlet)
  /\ UNCHANGED <<feeder, conveyor, gate, material, injected, sensor, io>>
=============================================================================
