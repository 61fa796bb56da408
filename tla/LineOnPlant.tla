---------------------------- MODULE LineOnPlant ----------------------------
(***************************************************************************)
(* The built-in controller on the virtual plant, as rig.tick() runs them:  *)
(* one scan of the line on the inputs published last, then one of the      *)
(* plant under the outputs the line has just written.  Operator requests   *)
(* and injected faults fall between two ticks.                             *)
(***************************************************************************)
EXTENDS LineProtection

CONSTANTS
  BinLevels, BinLow, GateTravel, FeederStart, ConveyorStart, MotorStop, PlugTime,
  JamTime, Transit, FeedRate, DrawRate, Capacity,
  PlantFaults,   \* the faults injected in this instance
  StickingSensors, FailingSensors,   \* the instruments that do so in it
  MaxFaults,     \* bound: faults and sick instruments at once
  MaxEvents      \* bound: how often something breaks in a behaviour

(* The plant's delays and masses, in whole ticks and units.                *)
ASSUME PlantAssumption ==
  /\ Transit \in Nat \ {0} /\ BinLevels \subseteq Nat
  /\ {BinLow, FeedRate, DrawRate, Capacity, HighPoint, HighHighPoint} \subseteq Nat
  /\ {GateTravel, FeederStart, ConveyorStart, MotorStop, PlugTime, JamTime}
       \subseteq Nat \ {0}

VARIABLES
  feeder, conveyor, gate, outlet, level, belt, hopper, discharged, spilled,
  injected, sensor, io,
  start_kg,      \* Invariants.starting_mass_kg
  stop_moved,    \* whether the belt moved when the last stop began
  events         \* how often something has broken, no part of the program

P == INSTANCE Plant

line    == <<in, cmd, dev, held, alarms, req, mode_request, mode, state, fault_reason,
             active_bin, auto, purge, manual, batch, setpoint, start_inhibit>>
plant   == <<feeder, conveyor, gate, outlet, level, belt, hopper, discharged, spilled,
             injected, sensor, io>>
checker == <<start_kg, stop_moved, events>>
all     == <<line, plant, checker>>

RestImages(c) == {P!AtRest(l) : l \in [Bins -> BinLevels]}

RigInit ==
  /\ Init /\ P!Init
  /\ in = io
  /\ start_kg = P!Accounted /\ stop_moved = FALSE /\ events = 0

-----------------------------------------------------------------------------
Tick ==
  /\ \E v \in {View(io)} : ScanOf(v)
  /\ \E c \in {cmd'} : P!Scan(c)
  /\ stop_moved' = IF state' = "STOPPING" /\ state # "STOPPING" THEN Confirmed(io)
                   ELSE stop_moved
  /\ UNCHANGED <<start_kg, events>>

Sick == Cardinality(injected) + Cardinality({t \in P!Signals : sensor[t] # "healthy"})

(* Something breaks: the plant, or an instrument.                          *)
Break ==
  /\ Sick < MaxFaults /\ events < MaxEvents
  /\ events' = events + 1
  /\ \/ \E f \in PlantFaults : P!Inject(f)
     \/ \E tag \in StickingSensors : P!SetSensor(tag, "stuck")
     \/ \E tag \in FailingSensors : P!SetSensor(tag, "failed")

(* What broke is mended, or a device's own fault reset at the equipment.   *)
Mend ==
  /\ UNCHANGED events
  /\ \/ \E f \in PlantFaults : P!Remove(f)
     \/ \E tag \in StickingSensors \cup FailingSensors : P!SetSensor(tag, "healthy")
     \/ P!ResetFeeder \/ P!ResetConveyor \/ P!ResetOutlet
     \/ \E b \in Bins : P!ResetGate(b)

RigNext ==
  \/ Tick
  \/ Operator /\ UNCHANGED <<plant, checker>>
  \/ (Break \/ Mend) /\ UNCHANGED <<line, start_kg, stop_moved>>

RigSpec == RigInit /\ [][RigNext]_all

(* The rig ticks on, whatever the operator and the field do.               *)
FairRig == RigSpec /\ WF_all(Tick)

-----------------------------------------------------------------------------
(* services/testing/invariants.py: everything in the system and everything *)
(* that has left it add up to what there was, through spills, a full       *)
(* hopper, bins run empty and a belt that stops and moves on.              *)
MaterialConserved == P!Accounted = start_kg

(* Material is spilled only in the tick in which a belt is lost under a    *)
(* running feeder: once an image says that the belt does not move, nothing *)
(* more is fed onto it, and nothing ever runs over the hopper's rim, with  *)
(* any one instrument or device faulted (6.3; the start sequence apart,    *)
(* which does not look: FeederStopsWithBelt).                              *)
OnlyALossSpills ==
  [][spilled' # spilled /\ state # "STARTING" =>
       ~P!Moving(conveyor.motor) /\ Confirmed(io)]_all

(* A stop that begins over a moving belt and comes to rest leaves it empty:*)
(* a belt lost on the way trips instead, and the purge is long enough.     *)
(* (One that begins before the belt has proved may not.)                   *)
StopEmptiesTheBelt ==
  [][state = "STOPPING" /\ state' = "IDLE" /\ stop_moved => P!OnBelt' = 0]_all

(* No motor starts by itself when the E-stop is released: the line holds   *)
(* every command off, so that a stale one cannot use the power coming back.*)
NoRestartAfterEstop ==
  [][\A m \in {"feeder", "conveyor"} :
       LET before == IF m = "feeder" THEN feeder.motor ELSE conveyor.motor
           after  == IF m = "feeder" THEN feeder.motor' ELSE conveyor.motor'
       IN  before.state = "ESTOP" => after.state \in {"ESTOP", "STOPPED"}]_all

(* A fault is latched exactly while the motor is in FAULT, through any     *)
(* order of trips, E-stops and resets: so it can always be reset.          *)
FaultsCanBeReset ==
  \A m \in {feeder.motor, conveyor.motor} : m.fault <=> m.state = "FAULT"

(* A weigh-in ends, weighed, stalled or tripped, whatever single failure   *)
(* the plant has: a stuck weight with material flowing meets the high-high *)
(* switch, or the bin's end.                                               *)
LoadingConcludes == state = "LOADING" ~> state # "LOADING"
=============================================================================
