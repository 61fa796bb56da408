---------------------------- MODULE PlantDevices ----------------------------
(***************************************************************************)
(* The devices of the virtual plant that have a state machine: a motor     *)
(* (feeder and conveyor) and a slide gate (one per bin, and the outlet).   *)
(* A device is a record and a step of it a function of that record, its    *)
(* times in ticks and the faults injected into it.                         *)
(*                                                                         *)
(* A timer saturates where the code only asks whether it has been reached. *)
(***************************************************************************)
EXTENDS Naturals

-----------------------------------------------------------------------------
(* Motors.                                                                 *)

MotorState == {"STOPPED", "STARTING", "RUNNING", "STOPPING", "FAULT", "ESTOP"}

Motor(limit) ==
  [state : MotorState, run : BOOLEAN, fault : BOOLEAN, elapsed : 0 .. limit]

MotorAtRest == [state |-> "STOPPED", run |-> FALSE, fault |-> FALSE, elapsed |-> 0]

Running(m) == m.state = "RUNNING"

Commanded(m, run) == [m EXCEPT !.run = run]

Enter(m, s) == [m EXCEPT !.state = s, !.elapsed = 0]

(* A trip, of its own or by the overload relay: latched, and the run       *)
(* command with it.                                                        *)
Trip(m) == [Enter(m, "FAULT") EXCEPT !.fault = TRUE, !.run = FALSE]

Overload(m) == IF Running(m) THEN Trip(m) ELSE m

(* Mutant: the E-stop takes a tripped motor too, as the code once did.     *)
PowerOffTakesAll(m) == [Enter(m, "ESTOP") EXCEPT !.run = FALSE]

(* estop(): power removed.  It resets no fault: a tripped motor stays so.  *)
PowerOff(m) ==
  IF m.state = "FAULT" THEN Commanded(m, FALSE)
  ELSE [Enter(m, "ESTOP") EXCEPT !.run = FALSE]

(* estop_reset(): available again, and not running.                        *)
PowerOn(m) == IF m.state = "ESTOP" THEN [m EXCEPT !.state = "STOPPED"] ELSE m

ClearMotorFault(m) ==
  IF m.state = "FAULT" THEN [m EXCEPT !.state = "STOPPED", !.fault = FALSE] ELSE m

(* One tick further towards the end of a delay; a delay of zero or one     *)
(* tick ends in the tick it begins.                                        *)
Delayed(m, delay, blocked, done) ==
  LET elapsed == m.elapsed + 1
  IN  IF ~blocked /\ elapsed >= delay THEN Enter(m, done)
      ELSE [m EXCEPT !.elapsed = IF elapsed > delay THEN delay ELSE elapsed]

MotorStep(m, start_delay, stop_delay, fails_to_start, trips) ==
  CASE m.state = "RUNNING" /\ trips -> Trip(m)
    [] m.state = "STOPPED" /\ m.run ->
         Delayed(Enter(m, "STARTING"), start_delay, fails_to_start, "RUNNING")
    [] m.state = "STARTING" /\ ~m.run -> Enter(m, "STOPPED")
    [] m.state = "STARTING" /\ m.run -> Delayed(m, start_delay, fails_to_start, "RUNNING")
    [] m.state = "RUNNING" /\ ~trips /\ ~m.run ->
         Delayed(Enter(m, "STOPPING"), stop_delay, FALSE, "STOPPED")
    [] m.state = "STOPPING" -> Delayed(m, stop_delay, FALSE, "STOPPED")
    [] OTHER -> m

-----------------------------------------------------------------------------
(* Gates.                                                                  *)

GateState == {"CLOSED", "OPENING", "OPEN", "CLOSING", "FAULT"}

(* The travel timeout is three times the nominal travel.                   *)
Timeout(travel) == 3 * travel

Gate(travel) == [state : GateState, open : BOOLEAN, elapsed : 0 .. Timeout(travel)]

GateAtRest == [state |-> "CLOSED", open |-> FALSE, elapsed |-> 0]

IsOpen(g) == g.state = "OPEN"
IsClosed(g) == g.state = "CLOSED"

ClearGateFault(g) == IF g.state = "FAULT" THEN [g EXCEPT !.state = "CLOSED", !.elapsed = 0] ELSE g

(* A gate that has not arrived by the timeout faults, arriving or not.     *)
Travelled(g, travel, stuck, arrived) ==
  LET elapsed == g.elapsed + 1
  IN  IF elapsed >= Timeout(travel) THEN [g EXCEPT !.state = "FAULT", !.elapsed = elapsed]
      ELSE IF ~stuck /\ elapsed >= travel THEN [g EXCEPT !.state = arrived, !.elapsed = 0]
      ELSE [g EXCEPT !.elapsed = elapsed]

(* A gate at its limit stays there; a reversal takes the full travel time. *)
GateStep(g, travel, stuck) ==
  LET moving  == IF g.open THEN "OPENING" ELSE "CLOSING"
      arrived == IF g.open THEN "OPEN" ELSE "CLOSED"
      begun   == IF g.state = moving THEN g ELSE [g EXCEPT !.state = moving, !.elapsed = 0]
  IN  IF g.state \in {"FAULT", arrived} THEN g ELSE Travelled(begun, travel, stuck, arrived)
=============================================================================
