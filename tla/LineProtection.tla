--------------------------- MODULE LineProtection ---------------------------
(***************************************************************************)
(* What the line promises, whatever the plant and the operator do.  in and *)
(* held are the image and the on-delays of the latest scan, so a formula   *)
(* over them and cmd relates what a scan commanded to what it had read.    *)
(***************************************************************************)
EXTENDS LineController

Latest == [in |-> in, dev |-> dev, held |-> held]

-----------------------------------------------------------------------------
(* Invariants.                                                             *)

(* What a sequence commands: the belt, and once it is proven the active    *)
(* bin's gate and the feeder.                                              *)
Drawing(open, feeding) ==
  /\ active_bin \in Bins
  /\ cmd.conveyor
  /\ cmd.gate = IF open THEN Only(active_bin) ELSE AllClosed
  /\ cmd.feeder <=> feeding

(* Each state commands exactly what belongs to it: nothing at rest, under  *)
(* an E-stop or while a batch is held; at most the clearing belt when      *)
(* faulted (and the belt clears only then); no feed and no gate while      *)
(* stopping or once a batch is loaded; while material is drawn, one bin's  *)
(* gate over a commanded belt, and of the sequence no more than its step   *)
(* has come to.  Every way into a state has to leave its commands so, from *)
(* whatever was running (_enter_faulted, _enter_rest, _enter_estopped,     *)
(* _begin_stop_sequence, the mode change).                                 *)
CommandsFitState ==
  /\ state \in {"IDLE", "ESTOPPED", "PROCESSING"} => cmd = Off
  /\ state = "FAULTED" => cmd = [Off EXCEPT !.conveyor = purge.clearing]
  /\ purge.clearing => state = "FAULTED"
  /\ state = "STARTING" =>
       auto.step # None /\ Drawing(auto.step # "CONVEYOR", auto.step = "FEEDER")
  /\ state = "RUNNING" => Drawing(TRUE, cmd.feeder)
  /\ state = "STOPPING" => cmd = [Off EXCEPT !.conveyor = cmd.conveyor]
  /\ state = "LOADING" =>
       Drawing(batch.step \in {"GATE", "FEED"}, batch.step = "FEED")
  /\ state \in {"STARTING", "LOADING"} => ~cmd.outlet
  /\ state = "DISCHARGING" => cmd = [Off EXCEPT !.outlet = cmd.outlet]
  /\ state = "CLEANING" =>
       cmd \in {Off} \cup {[Off EXCEPT !.conveyor = TRUE, !.outlet = o] : o \in BOOLEAN}
  /\ state = "MANUAL" =>
       /\ cmd.feeder => cmd.conveyor
       /\ cmd.gate \in {AllClosed} \cup {Only(b) : b \in Bins}
  /\ cmd.outlet => HasOutlet

(* A state is only ever reached in its own mode: a mode selected at any    *)
(* moment, and kept through trips, E-stops and resets, never leaves the    *)
(* line running one mode's sequence under another's name.                  *)
ModeFitsState ==
  /\ state \in {"STARTING", "RUNNING"} => mode = "AUTO"
  /\ state \in BatchStates => mode = "BATCH"
  /\ state = "MANUAL" => mode = "MANUAL"
  /\ state \in {"IDLE", "STOPPING"} => mode # "MANUAL"

(* Material has a path, from one bin: the feeder runs only with the belt   *)
(* commanded, no two bin gates are open at once, and outside Manual the    *)
(* only gate open is the active bin's, whatever source bin or recipe the   *)
(* operator has entered since the start, and the feeder draws from it.     *)
OneBinFeedsABelt ==
  /\ cmd.feeder => cmd.conveyor
  /\ \A a, b \in Bins : cmd.gate[a] /\ cmd.gate[b] => a = b
  /\ mode # "MANUAL" => \A b \in Bins : cmd.gate[b] => b = active_bin
  /\ mode # "MANUAL" /\ cmd.feeder => active_bin \in Bins /\ cmd.gate[active_bin]

(* What a scan left commanded agrees with what it read: nothing under an   *)
(* open E-stop; no feeding at high-high, into a plugged chute, without a   *)
(* weight, or past the high switch in Manual; no open outlet without a     *)
(* ready downstream (docs/CONTROL-LAB.md 6.1, 6.3).                        *)
OutputsHeedInputs ==
  /\ ~in.estop_healthy => cmd = Off
  /\ cmd.feeder => ~HighHigh(Latest) /\ ~in.plugged /\ ~in.weight_failed
  /\ cmd.feeder /\ state = "MANUAL" => ~in.hopper_high
  /\ cmd.outlet => in.downstream_ready

(* In Manual and in a batch's loading the feeder runs only while the scan  *)
(* read the belt both running and moving: a proof once given does not      *)
(* outlive the belt, an operator's stop, or the start of another run.      *)
FedBeltIsConfirmed ==
  cmd.feeder /\ state \in {"MANUAL", "LOADING"} => Confirmed(in)

(* A loading batch always has a bin of its plan to draw from and a plan    *)
(* that fits under the high switch, whatever the recipe has become since,  *)
(* and past its first step a belt that proved in this batch, not an earlier*)
(* one.                                                                    *)
LoadingHasAPlan ==
  state = "LOADING" =>
    /\ active_bin \in PlannedBins(batch.plan)
    /\ ~(PlanTotal(batch.plan) > HighPoint)
    /\ batch.step # None
    /\ batch.step # "CONVEYOR" => batch.proven

-----------------------------------------------------------------------------
(* Action properties.                                                      *)

Tripped == {"FAULTED", "ESTOPPED"}

(* No way out of a trip but a reset, in a scan that reads the E-stop       *)
(* healthy and no standing cause; an E-stop cycle is no way around it.     *)
(* The line comes out commanding nothing.                                  *)
ResetNeverSkipsACause ==
  [][state' \notin Tripped /\ state \in Tripped =>
       /\ "reset" \in req
       /\ in'.estop_healthy
       /\ Untripped(StandingCauses(Latest'))
       /\ cmd' = Off]_vars

(* The mode changes only with everything off and the E-stop healthy.       *)
ModeChangesAtRest ==
  [][mode' # mode => cmd = Off /\ state \in {"IDLE", "MANUAL"} /\ in'.estop_healthy]_vars

(* A Start is begun exactly when nothing refuses it in the state and the   *)
(* mode its scan acts in, and otherwise every reason against it is in the  *)
(* report the scan leaves standing, whatever else was pressed or selected  *)
(* with it and whether the scan trips the line or brings it to rest.  Two  *)
(* reports take its place: Manual tripping in this scan, and away from     *)
(* rest a Reset, which scan() and its handlers evaluate after the Start.   *)
StartIsAnswered ==
  [][LET v       == View(in')
         s       == ScanState(v)
         refused == StartRefusal(v, s, ScanMode(v))
     IN  "start" \in req /\ req' = {} =>
           \/ refused = {} /\ state' \in {"STARTING", "LOADING"} /\ start_inhibit' = {}
           \/ /\ refused # {} /\ refused \subseteq start_inhibit'
              /\ s = "IDLE" => state' = "IDLE"
           \/ s = "MANUAL" /\ state' = "FAULTED" /\ start_inhibit' = {"LINE_FAULTED"}
           \/ /\ "reset" \in req /\ s \notin {"IDLE", "MANUAL"}
              /\ start_inhibit' = ResetRefusal(v, s)]_vars

(* A batch is counted once, with everything off and the outlet proven      *)
(* closed, and only a line in Batch mode counts one.                       *)
BatchCountedAtRest ==
  [][batch'.completed # batch.completed =>
       /\ batch'.completed = batch.completed + 1
       /\ mode = "BATCH" /\ state' = "IDLE"
       /\ cmd = Off /\ cmd' = Off
       /\ in'.outlet_closed]_vars

-----------------------------------------------------------------------------
(* Liveness, with the scan called again and again.                         *)

(* A start sequence ends, running, tripped or stopped.                     *)
StartConcludes == state = "STARTING" ~> state # "STARTING"

(* A stop ends, at rest or tripped, and a faulted line's belt stops.       *)
StopConcludes == state = "STOPPING" \/ purge.clearing ~> state # "STOPPING" /\ ~purge.clearing

(* A batch's hold and cleanout end.                                        *)
BatchMovesOn ==
  state \in {"PROCESSING", "CLEANING"} ~> state \notin {"PROCESSING", "CLEANING"}

(* A discharge ends, empty or timed out, if the downstream is ready again  *)
(* and again: the timeout pauses while it is not, and is never restarted.  *)
DischargeConcludes ==
  []<>(in.downstream_ready) => (state = "DISCHARGING" ~> state # "DISCHARGING")

-----------------------------------------------------------------------------
(* What the documents say and the code does not do.                        *)

(* docs/CONTROL-LAB.md 6.3, "Conveyor proven running": conveyor loss stops *)
(* the feeder immediately.  In STARTING it does not.                       *)
FeederStopsWithBelt ==
  [][cmd.feeder /\ cmd'.feeder /\ ~Confirmed(in') => Operator]_vars
=============================================================================
