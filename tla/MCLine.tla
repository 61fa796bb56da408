------------------------------- MODULE MCLine -------------------------------
(***************************************************************************)
(* LineController on small instances.  The plant answers every command     *)
(* within a scan, except for at most MaxFaults deviations at a time, which *)
(* come and go freely from scan to scan: a drive that does not run, a belt *)
(* that slips, a gate between its switches, a plugged chute, an instrument *)
(* that fails.  A delay is a deviation that lasts a few scans.             *)
(***************************************************************************)
EXTENDS LineProtection, FiniteSetsExt

CONSTANTS
  Faults,     \* the deviations of this instance
  MaxFaults,  \* bound: deviations present at once
  Weights     \* the hopper weights of this instance

Image(c, F, w) ==
  LET energised  == "estop" \notin F
      belt_runs  == c.conveyor /\ energised /\ F \cap {"belt_off", "belt_fault"} = {}
      feeder_runs == c.feeder /\ energised /\ F \cap {"feeder_off", "feeder_fault"} = {}
      travelling(b) == (IF b = 1 THEN "gate" ELSE "other_gate") \in F
  IN [estop_healthy    |-> energised,
      feeder_running   |-> feeder_runs,
      feeder_faulted   |-> "feeder_fault" \in F,
      plugged          |-> "plug" \in F,
      conveyor_running |-> belt_runs,
      conveyor_faulted |-> "belt_fault" \in F,
      motion           |-> belt_runs /\ "slip" \notin F,
      current_high     |-> belt_runs /\ "current" \in F,
      flow_low         |-> "bridged" \in F \/ ~feeder_runs,
      gate_open        |-> [b \in Bins |-> c.gate[b] /\ ~travelling(b)],
      gate_closed      |-> [b \in Bins |-> ~c.gate[b] /\ ~travelling(b)],
      outlet_open      |-> HasOutlet /\ c.outlet /\ "outlet" \notin F,
      outlet_closed    |-> HasOutlet /\ ~c.outlet /\ "outlet" \notin F,
      bin_low          |-> [b \in Bins |-> "bin_low" \in F],
      hopper_high      |-> (w >= HighPoint) # ("high" \in F),
      high_high_switch |-> (w >= HighHighPoint) # ("high_high" \in F),
      weight           |-> IF "weight" \in F THEN 0 ELSE w,
      weight_failed    |-> "weight" \in F,
      downstream_ready |-> HasOutlet /\ "not_ready" \notin F]

Deviations == UNION {kSubset(k, Faults) : k \in 0 .. MaxFaults}

ImagesUnder ==
  [c \in OutputImage |-> {Image(c, F, w) : F \in Deviations, w \in Weights}]

LineInputs(c) == ImagesUnder[c]
=============================================================================
