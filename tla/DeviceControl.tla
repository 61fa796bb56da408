---------------------------- MODULE DeviceControl ----------------------------
(***************************************************************************)
(* The timing supervision Control adds to what a device reports about      *)
(* itself: MotorControl's start proof, GateControl's travel proof, and the *)
(* on-delays of Interlocks and LevelSwitchCheck.  All four are pure        *)
(* functions of the readings of one scan, so they are operators here and   *)
(* LineController applies them once per scan.                              *)
(*                                                                         *)
(* Time is counted in scans (the code adds dt, a constant, and rounds).    *)
(* A count saturates at its timeout: the code only ever asks whether the   *)
(* timeout has been reached.                                               *)
(***************************************************************************)
EXTENDS Naturals

(* A device's supervision: time since it last was where it is commanded to *)
(* be, the command seen by the previous scan, and the latched diagnosis    *)
(* (start_proof_fault of a motor, travel_fault of a gate).                 *)
Supervision(timeout) ==
  [elapsed : 0 .. timeout, last : BOOLEAN, fault : BOOLEAN]

Unsupervised == [elapsed |-> 0, last |-> FALSE, fault |-> FALSE]

Advance(elapsed, timeout) == IF elapsed < timeout THEN elapsed + 1 ELSE timeout

(* One scan of a device: a changed command restarts the window and forgets *)
(* the diagnosis; a device that is where it should be holds the window at  *)
(* zero, but keeps a diagnosis already made.                               *)
Supervise(d, commanded, proven, timeout) ==
  LET kept    == d.fault /\ commanded = d.last
      window  == IF commanded = d.last THEN d.elapsed ELSE 0
      elapsed == IF proven THEN 0 ELSE Advance(window, timeout)
  IN  [elapsed |-> elapsed,
       last    |-> commanded,
       fault   |-> kept \/ (~proven /\ elapsed >= timeout)]

MotorScan(d, commanded_run, running, timeout) ==
  Supervise(d, commanded_run, ~commanded_run \/ running, timeout)

(* Mutant: only closing is supervised.                                     *)
GateScanClosing(d, commanded_open, is_open, is_closed, timeout) ==
  Supervise(d, commanded_open, commanded_open \/ is_closed, timeout)

(* A gate is supervised in both directions, whatever the line is doing.    *)
GateScan(d, commanded_open, is_open, is_closed, timeout) ==
  Supervise(d, commanded_open,
            IF commanded_open THEN is_open ELSE is_closed, timeout)

(* clear_fault: one more window, starting on the next scan.                *)
ClearFault(d) == [d EXCEPT !.elapsed = 0, !.fault = FALSE]

(* An on-delay: how long a condition has held without a break.             *)
OnDelay(held, on, timeout) == IF on THEN Advance(held, timeout) ELSE 0

(* LevelSwitchCheck's comparison: a switch disagrees with the weight when  *)
(* it is open well below its point or closed well above it, and is not     *)
(* judged while the weight channel has failed.                             *)
SwitchMismatch(switch_open, weight, weight_failed, point, deadband) ==
  /\ ~weight_failed
  /\ IF switch_open THEN weight + deadband < point ELSE weight >= point + deadband

(* HopperHysteresis.evaluate: stop at the high switch, restart below the   *)
(* restart point, otherwise keep the demand there was.                     *)
FeedDemand(demand, hopper_high, weight, restart_below) ==
  ~hopper_high /\ (demand \/ weight < restart_below)
==============================================================================
