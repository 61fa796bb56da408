------------------------------ MODULE LineProofs ------------------------------
(***************************************************************************)
(* The proofs about the line controller, for every choice of its constants,*)
(* every plant and every operator: first that TypeOK is an invariant, then *)
(* the safety invariants, at last what a scan counts and what it answers.  *)
(***************************************************************************)
EXTENDS LineProtection, TLAPS

USE LineAssumption, TimingAssumption, LevelAssumption, InputsAssumption

-----------------------------------------------------------------------------
(* Device supervision.                                                     *)

(* Supervise keeps a supervision record within its timeout.                *)
LEMMA SuperviseType ==
  ASSUME NEW T \in Nat, NEW d \in Supervision(T), NEW c \in BOOLEAN, NEW p \in BOOLEAN
  PROVE  Supervise(d, c, p, T) \in Supervision(T)
  BY DEF Supervise, Supervision, Advance

(* clear_fault does too.                                                   *)
LEMMA ClearFaultType ==
  ASSUME NEW T \in Nat, NEW d \in Supervision(T)
  PROVE  ClearFault(d) \in Supervision(T)
<1>1. ASSUME NEW W, d \in [elapsed : W, last : BOOLEAN, fault : BOOLEAN], 0 \in W
      PROVE  ClearFault(d) \in [elapsed : W, last : BOOLEAN, fault : BOOLEAN]
  BY <1>1 DEF ClearFault
<1>2. 0 \in 0 .. T
  OBVIOUS
<1> DEFINE W == 0 .. T
<1>3. d \in [elapsed : W, last : BOOLEAN, fault : BOOLEAN] /\ 0 \in W
  BY <1>2 DEF Supervision
<1>4. ClearFault(d) \in [elapsed : W, last : BOOLEAN, fault : BOOLEAN]
  <2> HIDE DEF W
  <2> QED BY <1>1, <1>3
<1> QED BY <1>4 DEF Supervision

(* An on-delay stays within its limit.                                     *)
LEMMA OnDelayType ==
  ASSUME NEW T \in Nat, NEW h \in 0 .. T, NEW c
  PROVE  OnDelay(h, c, T) \in 0 .. T
  BY DEF OnDelay, Advance

ViewType == [in : InputImage, dev : Devices, held : OnDelays]

(* The view of any image is well typed.                                    *)
LEMMA ViewIsTyped ==
  ASSUME TypeOK, NEW i \in InputImage
  PROVE  View(i) \in ViewType
<1>1. i \in InputImage /\ cmd \in OutputImage
  BY DEF TypeOK
<1>2. DevicesScanned(i).feeder \in Supervision(StartProof)
  BY <1>1, SuperviseType DEF TypeOK, Devices, DevicesScanned, MotorScan, InputImage, OutputImage
<1>3. DevicesScanned(i).conveyor \in Supervision(StartProof)
  BY <1>1, SuperviseType DEF TypeOK, Devices, DevicesScanned, MotorScan, InputImage, OutputImage
<1>4. DevicesScanned(i).gate \in [Bins -> Supervision(TravelTime)]
  <2> SUFFICES ASSUME NEW b \in Bins
               PROVE  GateScan(dev.gate[b], cmd.gate[b], i.gate_open[b],
                               i.gate_closed[b], TravelTime) \in Supervision(TravelTime)
    BY DEF DevicesScanned
  <2>1. /\ dev.gate[b] \in Supervision(TravelTime)
        /\ cmd.gate[b] \in BOOLEAN /\ i.gate_open[b] \in BOOLEAN
        /\ i.gate_closed[b] \in BOOLEAN
    BY <1>1 DEF TypeOK, Devices, InputImage, OutputImage
  <2> QED
    BY <2>1, SuperviseType DEF GateScan
<1>5. DevicesScanned(i).outlet \in Supervision(TravelTime)
  BY <1>1, SuperviseType DEF TypeOK, Devices, DevicesScanned, GateScan, InputImage, OutputImage
<1>6. DevicesScanned(i) \in Devices
  BY <1>2, <1>3, <1>4, <1>5 DEF DevicesScanned, Devices
<1>7. DelaysScanned(i) \in OnDelays
  BY OnDelayType DEF TypeOK, OnDelays, DelaysScanned
<1> QED BY <1>1, <1>6, <1>7 DEF View, ViewType

LEMMA ViewsType == TypeOK => Views \subseteq ViewType
  BY ViewIsTyped, InputsAssumption DEF TypeOK, Views

(* clear_fault on every device keeps them well typed.                      *)
LEMMA ClearedType ==
  ASSUME NEW v \in ViewType, ClearAllDeviceFaults(v)
  PROVE  dev' \in Devices
<1>1. \A b \in Bins : ClearFault(v.dev.gate[b]) \in Supervision(TravelTime)
  BY ClearFaultType DEF ViewType, Devices
<1> QED BY <1>1, ClearFaultType DEF ClearAllDeviceFaults, ViewType, Devices

-----------------------------------------------------------------------------
(* Trips and reports.                                                      *)

(* A trip's reason is always one of the published ones.                    *)
LEMMA ReasonType == \A trips : Reason(trips) \subseteq FaultReasons
  BY DEF Reason

(* Conditions raise nothing but their own names.                           *)
LEMMA RaisedType == \A c : Raised(c) \subseteq DOMAIN c
  BY DEF Raised

Reports == Seq(SUBSET StartInhibit)

(* A report made or not made.                                              *)
LEMMA ReportIfType ==
  ASSUME NEW S, NEW made, NEW refused \in S
  PROVE  ReportIf(made, refused) \in Seq(S)
  BY DEF ReportIf

(* What the request evaluators refuse with is in the published enumeration.*)
LEMMA AtRestRefusals ==
  ASSUME NEW v
  PROVE  /\ AutoInhibits(v) \subseteq StartInhibit
         /\ BatchInhibits(v) \subseteq StartInhibit
         /\ ModeRefusal(v) \subseteq StartInhibit
<1>1. AutoInhibits(v) \subseteq StartInhibit
  BY DEF AutoInhibits, StartInhibit, Raised
<1>2. BatchInhibits(v) \subseteq StartInhibit
  BY DEF BatchInhibits, StartInhibit, Raised
<1>3. ModeRefusal(v) \subseteq StartInhibit
  BY DEF ModeRefusal, StartInhibit
<1> QED BY <1>1, <1>2, <1>3

(* A start, a reset or a device start is refused for known reasons.        *)
LEMMA RequestRefusals ==
  ASSUME NEW v, NEW s, NEW m
  PROVE  /\ StartRefusal(v, s, m) \subseteq StartInhibit
         /\ ResetRefusal(v, s) \subseteq StartInhibit
         /\ DeviceRefusal(s, m) \subseteq StartInhibit
<1>1. StartRefusal(v, s, m) \subseteq StartInhibit
  BY AtRestRefusals DEF StartRefusal, StartInhibit
<1>2. ResetRefusal(v, s) \subseteq StartInhibit
  BY DEF ResetRefusal, StartInhibit
<1>3. DeviceRefusal(s, m) \subseteq StartInhibit
  BY DEF DeviceRefusal, StartInhibit
<1> QED BY <1>1, <1>2, <1>3

(* So are Manual's pushbuttons, all of them in one report.                 *)
LEMMA ManualRefusalsType ==
  ASSUME NEW v
  PROVE  ManualRefusals(v) \subseteq StartInhibit
<1>1. ManualConveyorRefusal(v) \subseteq StartInhibit
  BY DEF ManualConveyorRefusal, StartInhibit, Raised
<1>2. FeederRefusal(v) \subseteq StartInhibit
  BY DEF FeederRefusal, ManualFeederRefusal, StartInhibit, Raised
<1> QED BY <1>1, <1>2 DEF ManualRefusals, StartInhibit

(* So is whatever is reported before the state's own handler.              *)
LEMMA EarlyReportsType ==
  ASSUME NEW v
  PROVE  EarlyReports(v) \in Reports
<1>1. {} \in SUBSET StartInhibit
  OBVIOUS
<1> QED BY <1>1, AtRestRefusals, RequestRefusals, ReportIfType DEF EarlyReports, Reports

(* Whatever a scan reports, the published outcome is well typed.           *)
LEMMA ReportType ==
  ASSUME NEW v, NEW own \in Reports, TypeOK,
         Report(v, own) \/ ReportAtRest(v, own)
  PROVE  start_inhibit' \subseteq StartInhibit
<1>1. EarlyReports(v) \o own \in Reports
  BY EarlyReportsType DEF Reports
<1>2. ASSUME NEW otherwise \in SUBSET StartInhibit
      PROVE  Standing(EarlyReports(v) \o own, otherwise) \subseteq StartInhibit
  BY <1>1 DEF Standing, Reports
<1> QED BY <1>2 DEF Report, ReportAtRest, TypeOK

-----------------------------------------------------------------------------
(* The handlers, state by state.                                           *)

(* The variables a handler decides.                                        *)
ControlType ==
  /\ cmd \in OutputImage
  /\ dev \in Devices
  /\ state \in LineStates
  /\ fault_reason \in FaultReasons
  /\ active_bin \in Bins \cup {NoBin}
  /\ auto \in [step : StartSteps, elapsed : Nat, feed_demand : BOOLEAN]
  /\ purge \in [elapsed : Nat, proven : BOOLEAN, clearing : BOOLEAN]
  /\ manual \in [proven : BOOLEAN, elapsed : Nat]
  /\ batch \in BatchRecord
  /\ start_inhibit \subseteq StartInhibit

(* Everything off is an output image, so is the belt alone, and so is a    *)
(* gate more.                                                              *)
LEMMA OutputType ==
  /\ Off \in OutputImage
  /\ \A c \in BOOLEAN : [Off EXCEPT !.conveyor = c] \in OutputImage
  /\ \A c \in OutputImage : \A b : [c EXCEPT !.gate[b] = TRUE] \in OutputImage
<1>1. AllClosed \in [Bins -> BOOLEAN]
  BY DEF AllClosed
<1>2. Off \in OutputImage
  BY <1>1 DEF Off, OutputImage
<1>3. \A c \in BOOLEAN : [Off EXCEPT !.conveyor = c] \in OutputImage
  BY <1>1 DEF Off, OutputImage
<1>4. ASSUME NEW c \in OutputImage, NEW b
      PROVE  [c EXCEPT !.gate[b] = TRUE] \in OutputImage
  BY DEF OutputImage
<1> QED BY <1>2, <1>3, <1>4

(* _enter_faulted leaves a well typed state.                               *)
LEMMA EnterFaultedType ==
  ASSUME NEW why \in FaultReasons,
         NEW p \in [elapsed : Nat, proven : BOOLEAN, clearing : BOOLEAN],
         TypeOK, EnterFaulted(why, p)
  PROVE  /\ cmd' \in OutputImage
         /\ state' \in LineStates
         /\ fault_reason' \in FaultReasons
         /\ purge' \in [elapsed : Nat, proven : BOOLEAN, clearing : BOOLEAN]
<1> DEFINE clearing == why \in ClearBeltOn /\ cmd.conveyor
<1>1. clearing \in BOOLEAN
  BY DEF TypeOK, OutputImage
<1>2. cmd' = [Off EXCEPT !.conveyor = clearing]
  BY DEF EnterFaulted
<1>3. purge' = [p EXCEPT !.elapsed = 0, !.clearing = clearing]
  BY DEF EnterFaulted
<1>4. state' \in LineStates /\ fault_reason' \in FaultReasons
  BY DEF EnterFaulted, LineStates
<1> HIDE DEF clearing
<1>5. cmd' \in OutputImage
  BY <1>1, <1>2, OutputType
<1>6. purge' \in [elapsed : Nat, proven : BOOLEAN, clearing : BOOLEAN]
  BY <1>1, <1>3
<1> QED BY <1>4, <1>5, <1>6

(* _begin_stop_sequence does.                                              *)
LEMMA BeginStopType ==
  ASSUME NEW v \in ViewType, TypeOK, BeginStopSequence(v)
  PROVE  /\ cmd' \in OutputImage
         /\ state' \in LineStates
         /\ fault_reason' \in FaultReasons
         /\ purge' \in [elapsed : Nat, proven : BOOLEAN, clearing : BOOLEAN]
<1>1. cmd' \in OutputImage
  BY OutputType DEF BeginStopSequence, TypeOK, OutputImage
<1>2. Confirmed(v.in) \in BOOLEAN
  BY DEF Confirmed
<1>3. purge' = [purge EXCEPT !.elapsed = 0, !.proven = Confirmed(v.in)]
  BY DEF BeginStopSequence
<1>4. purge' \in [elapsed : Nat, proven : BOOLEAN, clearing : BOOLEAN]
  BY <1>2, <1>3 DEF TypeOK
<1> QED BY <1>1, <1>4 DEF BeginStopSequence, LineStates, TypeOK

(* _enter_rest does.                                                       *)
LEMMA EnterRestType ==
  ASSUME NEW v \in ViewType, NEW own \in Reports, TypeOK, EnterRest(v, own)
  PROVE  /\ state' \in LineStates
         /\ fault_reason' \in FaultReasons
         /\ active_bin' \in Bins \cup {NoBin}
         /\ manual' \in [proven : BOOLEAN, elapsed : Nat]
         /\ start_inhibit' \subseteq StartInhibit
<1>1. start_inhibit' \subseteq StartInhibit
  BY ReportType DEF EnterRest
<1> QED BY <1>1 DEF EnterRest, RestState, LineStates, FaultReasons, ManualAtRest

(* The reports a handler may make itself: none, one of its own, an accepted*)
(* request.                                                                *)
LEMMA OwnReports ==
  /\ << >> \in Reports
  /\ << {} >> \in Reports
  /\ \A made : \A refused \in SUBSET StartInhibit : ReportIf(made, refused) \in Reports
<1>1. << >> \in Reports /\ << {} >> \in Reports
  BY DEF Reports
<1>2. ASSUME NEW made, NEW refused \in SUBSET StartInhibit
      PROVE  ReportIf(made, refused) \in Reports
  BY ReportIfType DEF Reports
<1> QED BY <1>1, <1>2

(* IDLE, and the two ways out of it, keep the types.                       *)
LEMMA IdleType ==
  ASSUME NEW v \in ViewType, TypeOK, ScanIdle(v)
  PROVE  ControlType'
<1>1. dev' \in Devices
  BY DEF ScanIdle, ViewType
<1>2. /\ fault_reason' \in FaultReasons
      /\ manual' \in [proven : BOOLEAN, elapsed : Nat]
      /\ purge' \in [elapsed : Nat, proven : BOOLEAN, clearing : BOOLEAN]
  BY DEF ScanIdle, AfterModeChange, TypeOK, ManualAtRest, FaultReasons
<1>3. [batch EXCEPT !.step = AfterModeChange(v, None, batch.step)] \in BatchRecord
  <2>1. AfterModeChange(v, None, batch.step) \in BatchSteps
    BY DEF AfterModeChange, TypeOK, BatchRecord, BatchSteps
  <2> QED BY <2>1 DEF TypeOK, BatchRecord
<1>4. CASE IdleOff(v)
  <2>1. start_inhibit' \subseteq StartInhibit
    BY <1>4, ReportType, OwnReports, RequestRefusals DEF IdleOff
  <2> QED BY <1>1, <1>2, <1>3, <1>4, <2>1, OutputType
       DEF IdleOff, ControlType, TypeOK, LineStates, AfterModeChange
<1>5. CASE BeginStartSequence(v)
  <2>1. start_inhibit' \subseteq StartInhibit
    BY <1>5, ReportType, OwnReports DEF BeginStartSequence
  <2> QED BY <1>1, <1>2, <1>3, <1>5, <2>1, OutputType
       DEF BeginStartSequence, ControlType, TypeOK, LineStates, StartSteps
<1>6. CASE RequestBatch(v)
  <2>1. start_inhibit' \subseteq StartInhibit
    <3>1. Report(v, << {} >>)
      BY <1>6 DEF RequestBatch
    <3>2. << {} >> \in Reports
      BY OwnReports
    <3> QED BY <3>1, <3>2, ReportType
  <2>2. batch' \in BatchRecord
    <3>1. v.in.weight \in Nat
      BY DEF ViewType, InputImage
    <3>2. setpoint.recipe \in [Bins -> Nat] /\ batch \in BatchRecord
      BY DEF TypeOK
    <3>3. batch' = [batch EXCEPT !.step = "CONVEYOR", !.plan = setpoint.recipe,
                                 !.start_kg = v.in.weight, !.loaded_kg = 0,
                                 !.elapsed = 0, !.proven = FALSE,
                                 !.out_of_tolerance = FALSE]
      BY <1>6 DEF RequestBatch
    <3> QED BY <3>1, <3>2, <3>3 DEF BatchRecord, BatchSteps
  <2>3. active_bin' \in Bins
    BY <1>6 DEF RequestBatch, PlannedBins
  <2> QED BY <1>1, <1>2, <1>6, <2>1, <2>2, <2>3, OutputType
       DEF RequestBatch, ControlType, TypeOK, LineStates, BatchStates
<1> QED BY <1>4, <1>5, <1>6 DEF ScanIdle

(* A trip from any handler.                                                *)
LEMMA NoStartStepType ==
  TypeOK => NoStartStep \in [step : StartSteps, elapsed : Nat, feed_demand : BOOLEAN]
  BY DEF TypeOK, NoStartStep, StartSteps

(* The gate and feeder commands a sequence adds to an output image.        *)
LEMMA CommandType ==
  ASSUME NEW c \in OutputImage, NEW f \in BOOLEAN, NEW o \in BOOLEAN, NEW b \in BOOLEAN
  PROVE  /\ [c EXCEPT !.feeder = f] \in OutputImage
         /\ [c EXCEPT !.outlet = o] \in OutputImage
         /\ [c EXCEPT !.conveyor = b] \in OutputImage
         /\ [c EXCEPT !.feeder = f, !.outlet = o] \in OutputImage
         /\ [c EXCEPT !.conveyor = b, !.outlet = o] \in OutputImage
         /\ [c EXCEPT !.feeder = f, !.gate = AllClosed] \in OutputImage
<1>1. AllClosed \in [Bins -> BOOLEAN]
  BY DEF AllClosed
<1> QED BY <1>1 DEF OutputImage

(* STARTING keeps the types: its trips, its stop and its three steps.      *)
LEMMA StartingType ==
  ASSUME NEW v \in ViewType, TypeOK, ScanStarting(v)
  PROVE  ControlType'
<1>1. start_inhibit' \subseteq StartInhibit
  BY ReportType, OwnReports DEF ScanStarting
<1>2. /\ dev' \in Devices
      /\ active_bin' \in Bins \cup {NoBin}
      /\ manual' \in [proven : BOOLEAN, elapsed : Nat]
      /\ batch' \in BatchRecord
  BY DEF ScanStarting, ViewType, TypeOK
<1> SUFFICES /\ cmd' \in OutputImage
             /\ state' \in LineStates
             /\ fault_reason' \in FaultReasons
             /\ auto' \in [step : StartSteps, elapsed : Nat, feed_demand : BOOLEAN]
             /\ purge' \in [elapsed : Nat, proven : BOOLEAN, clearing : BOOLEAN]
  BY <1>1, <1>2 DEF ControlType
<1>3. CASE StartingTrip(v)
  BY <1>3, ReasonType, EnterFaultedType, NoStartStepType DEF StartingTrip, TypeOK
<1>4. CASE StartingStop(v)
  BY <1>4, BeginStopType DEF StartingStop, TypeOK
<1>5. CASE ConveyorStep(v)
  <2>1. auto' \in [step : StartSteps, elapsed : Nat, feed_demand : BOOLEAN]
    <3>1. ASSUME NEW n \in Nat, NEW s \in StartSteps
          PROVE  /\ [auto EXCEPT !.step = s, !.elapsed = n]
                      \in [step : StartSteps, elapsed : Nat, feed_demand : BOOLEAN]
                 /\ [auto EXCEPT !.elapsed = n]
                      \in [step : StartSteps, elapsed : Nat, feed_demand : BOOLEAN]
                 /\ [auto EXCEPT !.elapsed = n, !.step = s]
                      \in [step : StartSteps, elapsed : Nat, feed_demand : BOOLEAN]
      BY DEF TypeOK
    <3>2. auto.elapsed + 1 \in Nat /\ "GATE" \in StartSteps /\ None \in StartSteps
      BY DEF TypeOK, StartSteps
    <3> QED BY <1>5, <3>1, <3>2 DEF ConveyorStep
  <2>2. CASE Confirmed(v.in)
    <3>1. /\ cmd' = [cmd EXCEPT !.gate[active_bin] = TRUE]
          /\ UNCHANGED <<state, fault_reason, purge>>
      BY <1>5, <2>2 DEF ConveyorStep
    <3>2. cmd \in OutputImage
      BY DEF TypeOK
    <3>3. cmd' \in OutputImage
      BY <3>1, <3>2, OutputType
    <3> QED BY <2>1, <3>1, <3>3 DEF TypeOK
  <2>3. CASE UNCHANGED <<state, fault_reason, purge, cmd>>
    BY <2>1, <2>3 DEF TypeOK
  <2>4. CASE EnterFaulted("conveyor failed to prove running", purge)
    <3>1. "conveyor failed to prove running" \in FaultReasons
      BY DEF FaultReasons
    <3> QED BY <2>1, <2>4, <3>1, EnterFaultedType DEF TypeOK
  <2> QED BY <1>5, <2>2, <2>3, <2>4 DEF ConveyorStep
<1>6. CASE GateStep(v)
  <2>1. cmd' \in OutputImage
    BY <1>6, CommandType DEF GateStep, TypeOK
  <2>2. /\ [step |-> "FEEDER", elapsed |-> 0, feed_demand |-> TRUE]
             \in [step : StartSteps, elapsed : Nat, feed_demand : BOOLEAN]
        /\ [auto EXCEPT !.step = None, !.feed_demand = FALSE]
             \in [step : StartSteps, elapsed : Nat, feed_demand : BOOLEAN]
    BY DEF TypeOK, StartSteps
  <2>3. auto' \in [step : StartSteps, elapsed : Nat, feed_demand : BOOLEAN]
    BY <1>6, <2>2 DEF GateStep, TypeOK
  <2> QED BY <1>6, <2>1, <2>3 DEF GateStep, TypeOK, LineStates
<1>7. CASE FeederStep(v)
  BY <1>7, NoStartStepType DEF FeederStep, TypeOK, LineStates
<1> QED BY <1>3, <1>4, <1>5, <1>6, <1>7 DEF ScanStarting

(* RUNNING keeps the types.                                                *)
LEMMA RunningType ==
  ASSUME NEW v \in ViewType, TypeOK, ScanRunning(v)
  PROVE  ControlType'
<1>1. start_inhibit' \subseteq StartInhibit
  BY ReportType, OwnReports DEF ScanRunning
<1>2. /\ dev' \in Devices
      /\ active_bin' \in Bins \cup {NoBin}
      /\ manual' \in [proven : BOOLEAN, elapsed : Nat]
      /\ batch' \in BatchRecord
  BY DEF ScanRunning, ViewType, TypeOK
<1> SUFFICES /\ cmd' \in OutputImage
             /\ state' \in LineStates
             /\ fault_reason' \in FaultReasons
             /\ auto' \in [step : StartSteps, elapsed : Nat, feed_demand : BOOLEAN]
             /\ purge' \in [elapsed : Nat, proven : BOOLEAN, clearing : BOOLEAN]
  BY <1>1, <1>2 DEF ControlType
<1>3. CASE RunningTrip(v)
  BY <1>3, ReasonType, EnterFaultedType, NoStartStepType DEF RunningTrip, TypeOK
<1>4. CASE RunningStop(v)
  BY <1>4, BeginStopType DEF RunningStop, TypeOK
<1>5. CASE RunningFeed(v)
  <2>1. Demand(v) \in BOOLEAN /\ Discharge(v, TRUE) \in BOOLEAN
    BY DEF Demand, FeedDemand, Discharge
  <2> QED BY <1>5, <2>1, CommandType DEF RunningFeed, TypeOK
<1> QED BY <1>3, <1>4, <1>5 DEF ScanRunning

(* STOPPING keeps the types: tripping, purging, purged.                    *)
LEMMA StoppingType ==
  ASSUME NEW v \in ViewType, TypeOK, ScanStopping(v)
  PROVE  ControlType'
<1>1. StopBeltProven(v) \in BOOLEAN
  BY DEF StopBeltProven, TypeOK, Confirmed
<1>2. /\ [purge EXCEPT !.proven = StopBeltProven(v)]
           \in [elapsed : Nat, proven : BOOLEAN, clearing : BOOLEAN]
      /\ \A n \in Nat : [purge EXCEPT !.elapsed = n, !.proven = StopBeltProven(v)]
           \in [elapsed : Nat, proven : BOOLEAN, clearing : BOOLEAN]
  <2>1. ASSUME NEW b \in BOOLEAN, NEW n \in Nat
        PROVE  /\ [purge EXCEPT !.proven = b]
                    \in [elapsed : Nat, proven : BOOLEAN, clearing : BOOLEAN]
               /\ [purge EXCEPT !.elapsed = n, !.proven = b]
                    \in [elapsed : Nat, proven : BOOLEAN, clearing : BOOLEAN]
    BY DEF TypeOK
  <2> QED BY <1>1, <2>1
<1>3. dev' \in Devices /\ manual' \in [proven : BOOLEAN, elapsed : Nat] /\ batch' \in BatchRecord
  BY DEF ScanStopping, ViewType, TypeOK
<1>4. CASE StoppingTrip(v)
  BY <1>2, <1>3, <1>4, ReasonType, EnterFaultedType, NoStartStepType, ReportType, OwnReports
  DEF StoppingTrip, ControlType, TypeOK
<1>5. CASE Purging(v)
  <2>1. purge' \in [elapsed : Nat, proven : BOOLEAN, clearing : BOOLEAN]
    <3>1. purge.elapsed + 1 \in Nat
      BY DEF TypeOK
    <3> QED BY <1>2, <1>5, <3>1 DEF Purging
  <2> QED BY <1>3, <1>5, <2>1, ReportType, OwnReports DEF Purging, ControlType, TypeOK
<1>6. CASE Purged(v)
  BY <1>2, <1>3, <1>6, ReportType, OwnReports, CommandType
  DEF Purged, ControlType, TypeOK, LineStates
<1> QED BY <1>4, <1>5, <1>6 DEF ScanStopping

(* FAULTED keeps the types: holding (and clearing) or reset.               *)
LEMMA FaultedType ==
  ASSUME NEW v \in ViewType, TypeOK, ScanFaulted(v)
  PROVE  ControlType'
<1>1. ClearingElapsed \in Nat /\ ClearingGoesOn(v) \in BOOLEAN
  BY DEF ClearingElapsed, ClearingGoesOn, TypeOK
<1>2. /\ [purge EXCEPT !.elapsed = ClearingElapsed, !.clearing = ClearingGoesOn(v)]
           \in [elapsed : Nat, proven : BOOLEAN, clearing : BOOLEAN]
      /\ [purge EXCEPT !.elapsed = ClearingElapsed, !.clearing = FALSE]
           \in [elapsed : Nat, proven : BOOLEAN, clearing : BOOLEAN]
  BY <1>1 DEF TypeOK
<1>3. CASE HoldFaulted(v)
  <2>1. start_inhibit' \subseteq StartInhibit
    <3>1. ReportIf("reset" \in req, ResetRefusal(v, "FAULTED")) \in Reports
      BY RequestRefusals, OwnReports
    <3> QED BY <1>3, <3>1, ReportType DEF HoldFaulted
  <2> QED BY <1>1, <1>2, <1>3, <2>1, OutputType
       DEF ScanFaulted, HoldFaulted, ControlType, TypeOK, ViewType
<1>4. CASE ResetFaulted(v)
  <2>1. EnterRest(v, << {} >>) /\ ClearAllDeviceFaults(v)
    BY <1>4 DEF ResetFaulted
  <2>2. batch' \in BatchRecord
    BY <1>4 DEF ResetFaulted, TypeOK, BatchRecord, BatchSteps
  <2> QED BY <1>2, <1>4, <2>1, <2>2, ClearedType, EnterRestType, OwnReports, OutputType
       DEF ScanFaulted, ResetFaulted, ControlType, TypeOK
<1> QED BY <1>3, <1>4 DEF ScanFaulted

(* ESTOPPED keeps the types: holding, or reset to a fault or to rest.      *)
LEMMA EstoppedType ==
  ASSUME NEW v \in ViewType, TypeOK, ScanEstopped(v)
  PROVE  ControlType'
<1>1. cmd' \in OutputImage
  BY OutputType DEF ScanEstopped
<1>2. CASE HoldEstopped(v)
  <2>1. start_inhibit' \subseteq StartInhibit
    <3>1. ReportIf("reset" \in req, ResetRefusal(v, "ESTOPPED")) \in Reports
      BY RequestRefusals, OwnReports
    <3> QED BY <1>2, <3>1, ReportType DEF HoldEstopped
  <2>2. fault_reason' \in FaultReasons
    BY <1>2 DEF HoldEstopped, TypeOK, FaultReasons
  <2>3. purge' \in [elapsed : Nat, proven : BOOLEAN, clearing : BOOLEAN]
    BY <1>2 DEF HoldEstopped, TypeOK
  <2> QED BY <1>1, <1>2, <2>1, <2>2, <2>3, NoStartStepType
       DEF HoldEstopped, ControlType, TypeOK, ViewType, LineStates
<1>3. CASE ResetEstopped(v)
  <2>1. dev' \in Devices
    BY <1>3, ClearedType DEF ResetEstopped
  <2>2. batch' \in BatchRecord
    <3>1. /\ [batch EXCEPT !.timed_out = FALSE] \in BatchRecord
          /\ [batch EXCEPT !.timed_out = FALSE, !.step = None] \in BatchRecord
      BY DEF TypeOK, BatchRecord, BatchSteps
    <3> QED BY <1>3, <3>1 DEF ResetEstopped
  <2>3. CASE EnterRest(v, << {} >>)
    BY <1>1, <1>3, <2>1, <2>2, <2>3, EnterRestType, OwnReports
    DEF ResetEstopped, ControlType, TypeOK
  <2>4. CASE /\ state' = "FAULTED"
             /\ \E why \in Reason(StandingCauses(v)) : fault_reason' = why
             /\ Report(v, << {} >>)
             /\ UNCHANGED <<active_bin, manual>>
    BY <1>1, <1>3, <2>1, <2>2, <2>4, ReasonType, ReportType, OwnReports
    DEF ResetEstopped, ControlType, TypeOK, LineStates
  <2> QED BY <1>3, <2>3, <2>4 DEF ResetEstopped
<1> QED BY <1>2, <1>3 DEF ScanEstopped

(* MANUAL keeps the types.                                                 *)
LEMMA ManualType ==
  ASSUME NEW v \in ViewType, TypeOK, ScanManual(v)
  PROVE  ControlType'
<1>1. dev' \in Devices
  BY DEF ScanManual, ViewType
<1>2. /\ active_bin' \in Bins \cup {NoBin}
      /\ batch' \in BatchRecord
  <2>1. AfterModeChange(v, None, batch.step) \in BatchSteps
    BY DEF AfterModeChange, TypeOK, BatchRecord, BatchSteps
  <2>2. [batch EXCEPT !.step = AfterModeChange(v, None, batch.step)] \in BatchRecord
    BY <2>1 DEF TypeOK, BatchRecord
  <2> QED BY <2>2 DEF ScanManual, AfterModeChange, TypeOK
<1>3. /\ ManualSupervised(v) \in [proven : BOOLEAN, elapsed : Nat]
      /\ ManualAtRest \in [proven : BOOLEAN, elapsed : Nat]
  <2>1. ManualAtRest \in [proven : BOOLEAN, elapsed : Nat]
    BY DEF ManualAtRest
  <2>2. ASSUME NEW n \in Nat
        PROVE  /\ [manual EXCEPT !.proven = TRUE] \in [proven : BOOLEAN, elapsed : Nat]
               /\ [manual EXCEPT !.elapsed = n] \in [proven : BOOLEAN, elapsed : Nat]
    BY DEF TypeOK
  <2>3. (IF manual.proven THEN manual.elapsed ELSE manual.elapsed + 1) \in Nat
    BY DEF TypeOK
  <2> QED BY <2>1, <2>2, <2>3 DEF ManualSupervised
<1>4. CASE ManualTrip(v)
  <2>1. start_inhibit' \subseteq StartInhibit
    <3>1. {"LINE_FAULTED"} \in SUBSET StartInhibit
      BY DEF StartInhibit
    <3>2. ReportIf(req \cap ({"start"} \cup DeviceStarts) # {}, {"LINE_FAULTED"}) \in Reports
      BY <3>1, OwnReports
    <3> QED BY <1>4, <3>2, ReportType DEF ManualTrip
  <2>2. PICK why \in FaultReasons : EnterFaulted(why, purge)
    BY <1>4, ReasonType DEF ManualTrip
  <2>3. /\ cmd' \in OutputImage
        /\ state' \in LineStates
        /\ fault_reason' \in FaultReasons
        /\ purge' \in [elapsed : Nat, proven : BOOLEAN, clearing : BOOLEAN]
    BY <2>2, EnterFaultedType DEF TypeOK
  <2> QED BY <1>1, <1>2, <1>3, <1>4, <2>1, <2>3, NoStartStepType DEF ManualTrip, ControlType
<1>5. CASE ManualCommands(v)
  <2>1. start_inhibit' \subseteq StartInhibit
    <3>1. ReportIf(req \cap ({"start"} \cup DeviceStarts) # {}, ManualRefusals(v)) \in Reports
      BY ManualRefusalsType, OwnReports
    <3> QED BY <1>5, <3>1, ReportType DEF ManualCommands
  <2>2. cmd' \in OutputImage
    <3>1. ManualGates \in [Bins -> BOOLEAN]
      BY DEF ManualGates, Only, AllClosed, TypeOK, OutputImage
    <3>2. ManualFeeder(v) \in BOOLEAN /\ ManualOutlet(v) \in BOOLEAN
      BY DEF ManualFeeder, ManualOutlet
    <3>3. ((cmd.conveyor /\ ~Stopping("stop_conveyor")) \/ StartsConveyor(v)) \in BOOLEAN
      OBVIOUS
    <3> QED BY <1>5, <3>1, <3>2, <3>3 DEF ManualCommands, OutputImage
  <2>3. manual' \in [proven : BOOLEAN, elapsed : Nat]
    BY <1>3, <1>5 DEF ManualCommands, ManualAfter
  <2>4. fault_reason' \in FaultReasons /\ state' \in LineStates
    BY <1>5 DEF ManualCommands, AfterModeChange, TypeOK, FaultReasons, LineStates
  <2> QED BY <1>1, <1>2, <1>5, <2>1, <2>2, <2>3, <2>4 DEF ManualCommands, ControlType, TypeOK
<1> QED BY <1>4, <1>5 DEF ScanManual

(* The trip and the Stop every batch state shares.                         *)
LEMMA BatchCommonType ==
  ASSUME NEW v \in ViewType, TypeOK, Report(v, << >>), UNCHANGED <<active_bin, manual, batch>>,
         dev' = v.dev,
         \/ BatchTrip(v) /\ auto' = NoStartStep
         \/ BeginStopSequence(v) /\ UNCHANGED auto
  PROVE  ControlType'
<1>1. start_inhibit' \subseteq StartInhibit
  BY ReportType, OwnReports
<1>2. CASE BatchTrip(v) /\ auto' = NoStartStep
  <2>1. PICK why \in FaultReasons : EnterFaulted(why, purge)
    BY <1>2, ReasonType DEF BatchTrip
  <2>2. /\ cmd' \in OutputImage
        /\ state' \in LineStates
        /\ fault_reason' \in FaultReasons
        /\ purge' \in [elapsed : Nat, proven : BOOLEAN, clearing : BOOLEAN]
    BY <2>1, EnterFaultedType DEF TypeOK
  <2> QED BY <1>1, <1>2, <2>2, NoStartStepType DEF ControlType, TypeOK, ViewType
<1>3. CASE BeginStopSequence(v) /\ UNCHANGED auto
  BY <1>1, <1>3, BeginStopType DEF ControlType, TypeOK, ViewType
<1> QED BY <1>2, <1>3

(* The values the batch handlers store.                                    *)
LEMMA BatchValues ==
  ASSUME NEW v \in ViewType, TypeOK
  PROVE  /\ Loaded(v) \in Nat /\ batch.elapsed + 1 \in Nat /\ batch.completed + 1 \in Nat
         /\ DischargeElapsed(v) \in Nat /\ CleanElapsed(v) \in Nat
         /\ {"CONVEYOR", "GATE", "FEED", "SETTLE", None} \subseteq BatchSteps
         /\ OutOfTolerance(v) \in BOOLEAN /\ Discharge(v, TRUE) \in BOOLEAN
         /\ batch \in BatchRecord
<1>1. batch.elapsed \in Nat /\ batch.completed \in Nat /\ batch.start_kg \in Nat
  BY DEF TypeOK, BatchRecord
<1>2. v.in.weight \in Nat
  BY DEF ViewType, InputImage
<1>3. Loaded(v) \in Nat
  BY <1>1, <1>2 DEF Loaded
<1>4. DischargeElapsed(v) \in Nat /\ CleanElapsed(v) \in Nat
  BY <1>1 DEF DischargeElapsed, CleanElapsed
<1> QED BY <1>1, <1>3, <1>4 DEF BatchSteps, OutOfTolerance, Discharge, TypeOK

(* A belt that does not prove faults the line.                             *)
LEMMA UnprovenType ==
  ASSUME TypeOK, EnterFaulted("conveyor failed to prove running", purge)
  PROVE  /\ cmd' \in OutputImage
         /\ state' \in LineStates
         /\ fault_reason' \in FaultReasons
         /\ purge' \in [elapsed : Nat, proven : BOOLEAN, clearing : BOOLEAN]
<1>1. "conveyor failed to prove running" \in FaultReasons
  BY DEF FaultReasons
<1> QED BY <1>1, EnterFaultedType DEF TypeOK

(* LOADING keeps the types: the belt, the gate, the feed, the settling.    *)
LEMMA LoadingType ==
  ASSUME NEW v \in ViewType, TypeOK, ScanLoading(v)
  PROVE  ControlType'
<1>1. CASE UNCHANGED <<active_bin, manual, batch>>
             /\ (\/ BatchTrip(v) /\ auto' = NoStartStep
                 \/ BeginStopSequence(v) /\ UNCHANGED auto)
  BY <1>1, BatchCommonType DEF ScanLoading, BatchScan
<1>2. CASE /\ LoadingConveyor(v) \/ LoadingGate(v) \/ LoadingFeed(v) \/ LoadingSettle(v)
           /\ UNCHANGED manual
  <2>1. start_inhibit' \subseteq StartInhibit
    BY ReportType, OwnReports DEF ScanLoading, BatchScan
  <2>2. dev' \in Devices /\ manual' \in [proven : BOOLEAN, elapsed : Nat]
    BY <1>2 DEF ScanLoading, BatchScan, ViewType, TypeOK
  <2>3. CASE LoadingConveyor(v)
    <3>1. batch' \in BatchRecord
      <4>1. \/ batch' = [batch EXCEPT !.loaded_kg = Loaded(v), !.elapsed = batch.elapsed + 1]
            \/ batch' = [batch EXCEPT !.loaded_kg = Loaded(v), !.proven = TRUE, !.step = "GATE"]
        BY <2>3 DEF LoadingConveyor
      <4> QED BY <4>1, BatchValues DEF BatchRecord
    <3>2. CASE EnterFaulted("conveyor failed to prove running", purge) /\ auto' = NoStartStep
      BY <2>1, <2>2, <2>3, <3>1, <3>2, UnprovenType, NoStartStepType
      DEF LoadingConveyor, ControlType, TypeOK
    <3>3. CASE Keep /\ UNCHANGED cmd
      BY <2>1, <2>2, <2>3, <3>1, <3>3 DEF LoadingConveyor, Keep, ControlType, TypeOK
    <3>4. CASE Keep /\ cmd' = [cmd EXCEPT !.gate[active_bin] = TRUE]
      BY <2>1, <2>2, <2>3, <3>1, <3>4, OutputType DEF LoadingConveyor, Keep, ControlType, TypeOK
    <3> QED BY <2>3, <3>2, <3>3, <3>4 DEF LoadingConveyor
  <2>4. CASE LoadingGate(v)
    <3>1. batch' \in BatchRecord
      <4>1. (IF v.in.gate_open[active_bin] THEN "FEED" ELSE batch.step) \in BatchSteps
        BY DEF TypeOK, BatchRecord, BatchSteps
      <4> QED BY <2>4, <4>1, BatchValues DEF LoadingGate, BatchRecord
    <3> QED BY <2>1, <2>2, <2>4, <3>1, CommandType DEF LoadingGate, Keep, ControlType, TypeOK
  <2>5. CASE LoadingFeed(v)
    <3>1. batch' \in BatchRecord
      <4>1. \/ \E m \in Nat : batch' = [batch EXCEPT !.loaded_kg = Loaded(v), !.step = "SETTLE",
                                                     !.elapsed = m]
            \/ batch' = [batch EXCEPT !.loaded_kg = Loaded(v)]
        BY <2>5 DEF LoadingFeed
      <4> QED BY <4>1, BatchValues DEF BatchRecord
    <3> QED BY <2>1, <2>2, <2>5, <3>1, CommandType DEF LoadingFeed, Keep, ControlType, TypeOK
  <2>6. CASE LoadingSettle(v)
    <3>1. batch' \in BatchRecord
      <4>1. \/ batch' = [batch EXCEPT !.loaded_kg = Loaded(v), !.elapsed = batch.elapsed + 1]
            \/ batch' = [batch EXCEPT !.loaded_kg = Loaded(v), !.elapsed = batch.elapsed + 1,
                                      !.step = "GATE"]
            \/ \E m \in Nat, q \in BOOLEAN :
                 batch' = [batch EXCEPT !.loaded_kg = Loaded(v), !.elapsed = m, !.proven = FALSE,
                                        !.step = None, !.out_of_tolerance = q]
        BY <2>6, BatchValues DEF LoadingSettle
      <4> QED BY <4>1, BatchValues DEF BatchRecord
    <3>2. active_bin' \in Bins \cup {NoBin}
      BY <2>6 DEF LoadingSettle, LaterBins, PlannedBins, TypeOK
    <3>3. cmd' \in OutputImage
      <4>1. \/ UNCHANGED cmd
            \/ \E b : cmd' = [cmd EXCEPT !.gate[b] = TRUE]
            \/ cmd' = [cmd EXCEPT !.conveyor = FALSE]
        BY <2>6 DEF LoadingSettle
      <4>2. CASE \E b : cmd' = [cmd EXCEPT !.gate[b] = TRUE]
        <5>1. PICK b : cmd' = [cmd EXCEPT !.gate[b] = TRUE]
          BY <4>2
        <5> QED BY <5>1, OutputType DEF TypeOK
      <4>3. CASE cmd' = [cmd EXCEPT !.conveyor = FALSE]
        BY <4>3, CommandType DEF TypeOK
      <4> QED BY <4>1, <4>2, <4>3 DEF TypeOK
    <3>4. state' \in LineStates
      BY <2>6 DEF LoadingSettle, LineStates, BatchStates, TypeOK
    <3> QED BY <2>1, <2>2, <2>6, <3>1, <3>2, <3>3, <3>4 DEF LoadingSettle, ControlType, TypeOK
  <2> QED BY <1>2, <2>3, <2>4, <2>5, <2>6
<1> QED BY <1>1, <1>2 DEF ScanLoading, BatchScan

(* PROCESSING keeps the types.                                             *)
LEMMA ProcessingType ==
  ASSUME NEW v \in ViewType, TypeOK, ScanProcessing(v)
  PROVE  ControlType'
<1>1. CASE UNCHANGED <<active_bin, manual, batch>>
             /\ (\/ BatchTrip(v) /\ auto' = NoStartStep
                 \/ BeginStopSequence(v) /\ UNCHANGED auto)
  BY <1>1, BatchCommonType DEF ScanProcessing, BatchScan
<1>2. CASE /\ UNCHANGED <<fault_reason, purge, auto, active_bin, manual>>
           /\ \/ /\ batch' = [batch EXCEPT !.elapsed = @ + 1]
                 /\ UNCHANGED <<state, cmd>>
              \/ /\ batch' = [batch EXCEPT !.elapsed = 0]
                 /\ state' = "DISCHARGING"
                 /\ cmd' = [cmd EXCEPT !.outlet = Discharge(v, TRUE)]
  <2>1. start_inhibit' \subseteq StartInhibit
    BY ReportType, OwnReports DEF ScanProcessing, BatchScan
  <2>2. dev' \in Devices
    BY DEF ScanProcessing, BatchScan, ViewType
  <2>3. batch' \in BatchRecord
    <3>1. \E m \in Nat : batch' = [batch EXCEPT !.elapsed = m]
      BY <1>2, BatchValues
    <3> QED BY <3>1, BatchValues DEF BatchRecord
  <2> QED BY <1>2, <2>1, <2>2, <2>3, BatchValues, CommandType
       DEF ControlType, TypeOK, LineStates, BatchStates
<1> QED BY <1>1, <1>2 DEF ScanProcessing, BatchScan

(* DISCHARGING keeps the types.                                            *)
LEMMA DischargingType ==
  ASSUME NEW v \in ViewType, TypeOK, ScanDischarging(v)
  PROVE  ControlType'
<1>1. CASE UNCHANGED <<active_bin, manual, batch>>
             /\ (\/ BatchTrip(v) /\ auto' = NoStartStep
                 \/ BeginStopSequence(v) /\ UNCHANGED auto)
  BY <1>1, BatchCommonType DEF ScanDischarging, BatchScan
<1>2. start_inhibit' \subseteq StartInhibit
  BY ReportType, OwnReports DEF ScanDischarging, BatchScan
<1>3. dev' \in Devices
  BY DEF ScanDischarging, BatchScan, ViewType
<1>4. CASE /\ UNCHANGED <<active_bin, manual>>
           /\ state' = "CLEANING"
           /\ cmd' = [cmd EXCEPT !.conveyor = TRUE, !.outlet = Discharge(v, TRUE)]
           /\ batch' = [batch EXCEPT !.elapsed = 0, !.proven = FALSE]
           /\ UNCHANGED <<fault_reason, purge, auto>>
  <2>1. batch' \in BatchRecord
    BY <1>4, BatchValues DEF BatchRecord
  <2> QED BY <1>2, <1>3, <1>4, <2>1, BatchValues, CommandType
       DEF ControlType, TypeOK, LineStates, BatchStates
<1>5. CASE /\ UNCHANGED <<active_bin, manual>>
           /\ EnterFaulted("discharge timeout", purge)
           /\ batch' = [batch EXCEPT !.elapsed = DischargeElapsed(v), !.timed_out = TRUE]
           /\ auto' = NoStartStep
  <2>1. batch' \in BatchRecord
    BY <1>5, BatchValues DEF BatchRecord
  <2>2. "discharge timeout" \in FaultReasons
    BY DEF FaultReasons
  <2>3. /\ cmd' \in OutputImage
        /\ state' \in LineStates
        /\ fault_reason' \in FaultReasons
        /\ purge' \in [elapsed : Nat, proven : BOOLEAN, clearing : BOOLEAN]
    BY <1>5, <2>2, EnterFaultedType DEF TypeOK
  <2> QED BY <1>2, <1>3, <1>5, <2>1, <2>3, NoStartStepType DEF ControlType, TypeOK
<1>6. CASE /\ UNCHANGED <<active_bin, manual>>
           /\ cmd' = [cmd EXCEPT !.outlet = Discharge(v, TRUE)]
           /\ batch' = [batch EXCEPT !.elapsed = DischargeElapsed(v)]
           /\ Keep
  <2>1. batch' \in BatchRecord
    BY <1>6, BatchValues DEF BatchRecord
  <2> QED BY <1>2, <1>3, <1>6, <2>1, BatchValues, CommandType DEF Keep, ControlType, TypeOK
<1> QED BY <1>1, <1>4, <1>5, <1>6 DEF ScanDischarging, BatchScan

(* CLEANING keeps the types: the belt, then the outlet.                    *)
LEMMA CleaningType ==
  ASSUME NEW v \in ViewType, TypeOK, ScanCleaning(v)
  PROVE  ControlType'
<1>1. CASE UNCHANGED <<active_bin, manual, batch>> /\ Report(v, << >>)
             /\ (\/ BatchTrip(v) /\ auto' = NoStartStep
                 \/ BeginStopSequence(v) /\ UNCHANGED auto)
  BY <1>1, BatchCommonType DEF ScanCleaning, BatchScan
<1>2. dev' \in Devices
  BY DEF ScanCleaning, BatchScan, ViewType
<1>3. CASE CleaningBelt(v)
  <2>1. start_inhibit' \subseteq StartInhibit
    BY <1>3, ReportType, OwnReports DEF CleaningBelt
  <2>2. batch' \in BatchRecord
    <3>1. \/ batch' = [batch EXCEPT !.elapsed = batch.elapsed + 1]
          \/ \E p \in BOOLEAN : batch' = [batch EXCEPT !.elapsed = CleanElapsed(v), !.proven = p]
      BY <1>3 DEF CleaningBelt
    <3> QED BY <3>1, BatchValues DEF BatchRecord
  <2>3. CASE EnterFaulted("conveyor failed to prove running", purge) /\ auto' = NoStartStep
    BY <1>2, <1>3, <2>1, <2>2, <2>3, UnprovenType, NoStartStepType
    DEF CleaningBelt, ControlType, TypeOK
  <2>4. CASE Keep /\ (\/ cmd' = [cmd EXCEPT !.outlet = Discharge(v, TRUE)]
                      \/ cmd' = [cmd EXCEPT !.conveyor = FALSE, !.outlet = FALSE])
    BY <1>2, <1>3, <2>1, <2>2, <2>4, CommandType, BatchValues
    DEF CleaningBelt, Keep, ControlType, TypeOK
  <2> QED BY <1>3, <2>3, <2>4 DEF CleaningBelt
<1>4. CASE CleaningOutlet(v)
  <2>1. CASE /\ EnterRest(v, << >>)
             /\ batch' = [batch EXCEPT !.completed = @ + 1, !.step = None]
             /\ cmd' = cmd /\ purge' = purge /\ auto' = auto
    <3>1. batch' \in BatchRecord
      BY <2>1, BatchValues DEF BatchRecord
    <3> QED BY <1>2, <2>1, <3>1, EnterRestType, OwnReports DEF ControlType, TypeOK
  <2>2. CASE UNCHANGED <<active_bin, manual, batch, cmd>> /\ Keep /\ Report(v, << >>)
    <3>1. start_inhibit' \subseteq StartInhibit
      BY <2>2, ReportType, OwnReports
    <3> QED BY <1>2, <2>2, <3>1 DEF Keep, ControlType, TypeOK
  <2> QED BY <1>4, <2>1, <2>2 DEF CleaningOutlet
<1> QED BY <1>1, <1>3, <1>4 DEF ScanCleaning, BatchScan

-----------------------------------------------------------------------------
(* The type invariant.                                                     *)

(* The alarm scan keeps the board a board of trip-class alarms.            *)
LEMMA AlarmsType ==
  ASSUME NEW v, TypeOK
  PROVE  AlarmsScanned(v) \in [active : SUBSET TripAlarms, unacked : SUBSET TripAlarms]
<1>1. ActiveAlarms(v) \subseteq TripAlarms
  BY DEF ActiveAlarms
<1>2. /\ alarms.active \subseteq TripAlarms /\ alarms.unacked \subseteq TripAlarms
  BY DEF TypeOK
<1> DEFINE A == ActiveAlarms(v)
<1>3. AlarmScan(alarms, A)
        \in [active : SUBSET TripAlarms, unacked : SUBSET TripAlarms]
  <2> HIDE DEF A
  <2>1. A \subseteq TripAlarms
    BY <1>1 DEF A
  <2> QED BY <1>2, <2>1 DEF AlarmScan
<1> QED BY <1>3 DEF AlarmsScanned

(* A mode request is a mode, so the mode stays one.                        *)
LEMMA ModeType ==
  ASSUME NEW v, TypeOK
  PROVE  ScanMode(v) \in LineModes
<1>1. Modes \subseteq LineModes
  OBVIOUS
<1> QED BY <1>1 DEF ScanMode, ModeChanges, TypeOK

(* A whole scan keeps the types, in whatever image it reads.               *)
LEMMA ScanOfType ==
  ASSUME TypeOK, NEW v \in ViewType, ScanOf(v)
  PROVE  TypeOK'
<1>1. /\ in' = v.in
      /\ held' = v.held
      /\ alarms' = AlarmsScanned(v)
      /\ mode' = ScanMode(v)
      /\ req' = {} /\ mode_request' = None
      /\ UNCHANGED setpoint
  BY DEF ScanOf
<1>2. ControlType'
  <2>1. \/ ScanIdle(v) \/ ScanStarting(v) \/ ScanRunning(v) \/ ScanStopping(v)
        \/ ScanFaulted(v) \/ ScanEstopped(v) \/ ScanManual(v)
        \/ ScanLoading(v) \/ ScanProcessing(v) \/ ScanDischarging(v)
        \/ ScanCleaning(v)
    BY DEF ScanOf
  <2> QED
    BY <1>1, <2>1, IdleType, StartingType, RunningType, StoppingType, FaultedType, EstoppedType,
       ManualType, LoadingType, ProcessingType, DischargingType, CleaningType
<1>3. in' \in InputImage /\ held' \in OnDelays
  BY <1>1 DEF ViewType
<1> QED BY <1>1, <1>2, <1>3, AlarmsType, ModeType DEF ControlType, TypeOK

LEMMA ScanType == TypeOK /\ Scan => TypeOK'
  BY ScanOfType, ViewsType DEF Scan

(* The operator's actions keep the types: they only raise requests.        *)
LEMMA OperatorType == TypeOK /\ Operator => TypeOK'
<1> SUFFICES ASSUME TypeOK, Operator PROVE TypeOK'
  OBVIOUS
<1>1. CASE \E c \in Commands : Press(c)
  BY <1>1 DEF Press, TypeOK
<1>2. CASE \E m \in Modes : SelectMode(m)
  BY <1>2 DEF SelectMode, TypeOK
<1>3. ASSUME NEW new \in [source_bin : Bins, recipe : [Bins -> Nat], hold : Nat], Set(new)
      PROVE  TypeOK'
  BY <1>3 DEF Set, TypeOK
<1>4. CASE \E b \in Sources : SelectSource(b)
  BY <1>3, <1>4 DEF SelectSource, TypeOK
<1>5. CASE \E b \in Bins, kg \in Recipes : SetRecipe(b, kg)
  BY <1>3, <1>5 DEF SetRecipe, TypeOK
<1>6. CASE \E h \in Holds : SetHold(h)
  BY <1>3, <1>6 DEF SetHold, TypeOK
<1> QED BY <1>1, <1>2, <1>4, <1>5, <1>6 DEF Operator

(* The rig is built well typed.                                            *)
LEMMA InitType == Init => TypeOK
<1> SUFFICES ASSUME Init PROVE TypeOK
  OBVIOUS
<1>1. in \in InputImage /\ cmd \in OutputImage
  BY OutputType DEF Init
<1>2. Unsupervised \in Supervision(StartProof) /\ Unsupervised \in Supervision(TravelTime)
  BY DEF Unsupervised, Supervision
<1>3. dev \in Devices
  BY <1>2 DEF Init, Devices
<1>4. held \in OnDelays
  BY DEF Init, OnDelays
<1>5. batch \in BatchRecord
  BY DEF Init, BatchRecord, BatchSteps
<1>6. setpoint \in [source_bin : Bins, recipe : [Bins -> Nat], hold : Nat]
  BY DEF Init
<1>7. /\ alarms \in [active : SUBSET TripAlarms, unacked : SUBSET TripAlarms]
      /\ auto \in [step : StartSteps, elapsed : Nat, feed_demand : BOOLEAN]
      /\ purge \in [elapsed : Nat, proven : BOOLEAN, clearing : BOOLEAN]
      /\ manual \in [proven : BOOLEAN, elapsed : Nat]
  BY DEF Init, StartSteps, ManualAtRest
<1>8. /\ mode \in LineModes /\ state \in LineStates /\ fault_reason \in FaultReasons
      /\ active_bin \in Bins \cup {NoBin} /\ start_inhibit \subseteq StartInhibit
      /\ req \subseteq Commands /\ mode_request \in Modes \cup {None}
  BY DEF Init, LineModes, LineStates, FaultReasons
<1> QED BY <1>1, <1>3, <1>4, <1>5, <1>6, <1>7, <1>8 DEF TypeOK

(* TypeOK: whatever the plant reads and the operator presses, every        *)
(* handler leaves every variable in its type, and no scan reports a reason *)
(* outside the published enumerations.                                     *)
THEOREM TypeCorrect == Spec => []TypeOK
<1>1. Init => TypeOK
  BY InitType
<1>2. TypeOK /\ [Next]_vars => TypeOK'
  <2>1. TypeOK /\ UNCHANGED vars => TypeOK'
    BY DEF TypeOK, vars
  <2> QED BY <2>1, ScanType, OperatorType DEF Next
<1> QED BY <1>1, <1>2, PTL DEF Spec

-----------------------------------------------------------------------------
(* Safety.                                                                 *)

(* What every scan starts from and leaves.                                 *)
LineInv ==
  /\ TypeOK
  /\ CommandsFitState
  /\ ModeFitsState
  /\ LoadingHasAPlan

Fits == CommandsFitState /\ ModeFitsState /\ LoadingHasAPlan

-----------------------------------------------------------------------------
(* The three ways a scan begins: under an open E-stop, in the state the    *)
(* line was in, or at rest in the mode just selected.                      *)

(* How a scan begins: in an E-stop, where it left off, or at rest in the   *)
(* mode just selected.                                                     *)
LEMMA ScanBegins ==
  ASSUME NEW v, LineInv
  PROVE  \/ /\ ~v.in.estop_healthy /\ ScanState(v) = "ESTOPPED"
            /\ ~ModeChanges(v) /\ ScanMode(v) = mode
         \/ /\ v.in.estop_healthy /\ ScanState(v) = state
            /\ ~ModeChanges(v) /\ ScanMode(v) = mode
         \/ /\ v.in.estop_healthy /\ ScanState(v) = RestState(ScanMode(v))
            /\ ModeChanges(v)
            /\ state \in {"IDLE", "MANUAL"} /\ cmd = Off
<1>1. CASE ModeChanges(v)
  <2>1. v.in.estop_healthy /\ state \in {"IDLE", "MANUAL"} /\ cmd = Off
    BY <1>1 DEF ModeChanges, ModeRefusal, LineInv, CommandsFitState
  <2> QED BY <1>1, <2>1 DEF ScanState, ScanMode
<1>2. CASE ~ModeChanges(v)
  BY <1>2 DEF ScanState, ScanMode
<1> QED BY <1>1, <1>2

(* No sequence state is reached by a mode change.                          *)
LEMMA InSequence ==
  ASSUME NEW v, LineInv, ScanState(v) \notin {"IDLE", "MANUAL", "ESTOPPED"}
  PROVE  state = ScanState(v) /\ ScanMode(v) = mode /\ ~ModeChanges(v)
  BY ScanBegins DEF RestState

(* At rest or in Manual the belt is not clearing.                          *)
LEMMA AtRest ==
  ASSUME NEW v, LineInv, ScanState(v) \in {"IDLE", "MANUAL"}
  PROVE  /\ state \in {"IDLE", "MANUAL"} /\ ~purge.clearing
         /\ v.in.estop_healthy
         /\ ScanState(v) = "MANUAL" <=> ScanMode(v) = "MANUAL"
<1>1. mode \in LineModes
  BY DEF LineInv, TypeOK
<1> QED BY <1>1, ScanBegins DEF LineInv, CommandsFitState, ModeFitsState, RestState

-----------------------------------------------------------------------------
(* What it takes to fit a state with no sequence in it.                    *)

(* At rest, under an E-stop or holding a batch: everything off.            *)
LEMMA QuietFits ==
  ASSUME state' \in {"IDLE", "ESTOPPED", "PROCESSING", "MANUAL"},
         cmd' = Off, ~purge'.clearing, ModeFitsState'
  PROVE  Fits'
  BY DEF Fits, CommandsFitState, LoadingHasAPlan, Off

(* FAULTED: at most the clearing belt.                                     *)
LEMMA FaultedFits ==
  ASSUME state' = "FAULTED", cmd' = [Off EXCEPT !.conveyor = purge'.clearing]
  PROVE  Fits'
  BY DEF Fits, CommandsFitState, LoadingHasAPlan, ModeFitsState, BatchStates, Off

(* What it takes to fit a sequence's states.                               *)
LEMMA StartingFits ==
  ASSUME state' = "STARTING", auto'.step # None, ~cmd'.outlet, ~purge'.clearing,
         Drawing(auto.step # "CONVEYOR", auto.step = "FEEDER")', mode' = "AUTO"
  PROVE  Fits'
<1>1. CommandsFitState'
  BY DEF CommandsFitState
<1> QED BY <1>1 DEF Fits, ModeFitsState, LoadingHasAPlan, BatchStates

(* RUNNING: the active bin over a commanded belt.                          *)
LEMMA RunningFits ==
  ASSUME state' = "RUNNING", Drawing(TRUE, cmd.feeder)', cmd'.outlet => HasOutlet,
         ~purge'.clearing, mode' = "AUTO"
  PROVE  Fits'
<1>1. CommandsFitState'
  BY DEF CommandsFitState
<1> QED BY <1>1 DEF Fits, ModeFitsState, LoadingHasAPlan, BatchStates

(* LOADING: what the step has come to, from a plan that fits.              *)
LEMMA LoadingFits ==
  ASSUME state' = "LOADING", LoadingHasAPlan', ~cmd'.outlet, ~purge'.clearing,
         Drawing(batch.step \in {"GATE", "FEED"}, batch.step = "FEED")', mode' = "BATCH"
  PROVE  Fits'
<1>1. CommandsFitState'
  BY DEF CommandsFitState
<1> QED BY <1>1 DEF Fits, ModeFitsState, BatchStates

(* ... and those of a batch that is loaded.                                *)
LEMMA DischargingFits ==
  ASSUME state' = "DISCHARGING", cmd' = [Off EXCEPT !.outlet = cmd'.outlet],
         cmd'.outlet => HasOutlet, ~purge'.clearing, mode' = "BATCH"
  PROVE  Fits'
<1>1. CommandsFitState'
  BY DEF CommandsFitState
<1> QED BY <1>1 DEF Fits, ModeFitsState, LoadingHasAPlan, BatchStates

(* CLEANING: the belt and the outlet, or nothing.                          *)
LEMMA CleaningFits ==
  ASSUME state' = "CLEANING", cmd'.outlet \in BOOLEAN, cmd'.outlet => HasOutlet,
         cmd' = Off \/ cmd' = [Off EXCEPT !.conveyor = TRUE, !.outlet = cmd'.outlet],
         ~purge'.clearing, mode' = "BATCH"
  PROVE  Fits'
<1>1. CommandsFitState'
  BY DEF CommandsFitState
<1> QED BY <1>1 DEF Fits, ModeFitsState, LoadingHasAPlan, BatchStates

(* _enter_faulted fits FAULTED, from any state.                            *)
LEMMA EnterFaultedFits ==
  ASSUME NEW why, NEW p \in [elapsed : Nat, proven : BOOLEAN, clearing : BOOLEAN],
         EnterFaulted(why, p)
  PROVE  Fits'
<1> DEFINE clearing == why \in ClearBeltOn /\ cmd.conveyor
<1>1. /\ state' = "FAULTED"
      /\ cmd' = [Off EXCEPT !.conveyor = clearing]
      /\ purge' = [p EXCEPT !.elapsed = 0, !.clearing = clearing]
  BY DEF EnterFaulted
<1> HIDE DEF clearing
<1>2. purge'.clearing = clearing
  BY <1>1
<1> QED BY <1>1, <1>2, FaultedFits

(* _begin_stop_sequence fits STOPPING, from a sequence.                    *)
LEMMA BeginStopFits ==
  ASSUME NEW v, LineInv, BeginStopSequence(v), mode' = mode, mode # "MANUAL",
         ~purge.clearing
  PROVE  Fits'
<1>1. /\ state' = "STOPPING"
      /\ cmd' = [Off EXCEPT !.conveyor = cmd.conveyor]
  BY DEF BeginStopSequence
<1>2. purge'.clearing = purge.clearing
  BY DEF BeginStopSequence, LineInv, TypeOK
<1> QED BY <1>1, <1>2 DEF Fits, CommandsFitState, ModeFitsState, LoadingHasAPlan, BatchStates, Off

(* _enter_rest with everything off fits the mode's rest state.             *)
LEMMA EnterRestFits ==
  ASSUME NEW v, NEW own, EnterRest(v, own), cmd' = Off, ~purge'.clearing, mode' = mode
  PROVE  Fits'
<1>1. ModeFitsState'
  BY DEF EnterRest, RestState, ModeFitsState, BatchStates
<1>2. state' \in {"IDLE", "MANUAL"}
  BY DEF EnterRest, RestState
<1> QED BY <1>1, <1>2, QuietFits

-----------------------------------------------------------------------------
(* The handlers.                                                           *)

(* A batch let in fits under the high switch.                              *)
LEMMA BatchAdmits ==
  ASSUME NEW v, BatchInhibits(v) = {}
  PROVE  ~(PlanTotal(setpoint.recipe) > HighPoint)
<1> DEFINE too_large == PlanTotal(setpoint.recipe) > HighPoint
<1>1. too_large => "RECIPE_TOO_LARGE" \in BatchInhibits(v)
  <2> HIDE DEF too_large
  <2> QED BY DEF BatchInhibits, Raised, too_large
<1> QED BY <1>1

(* A scan in IDLE leaves the line at rest, starting or loading.            *)
LEMMA IdleFits ==
  ASSUME NEW v \in ViewType, LineInv, ScanIdle(v), mode' = ScanMode(v)
  PROVE  Fits'
<1>1. /\ mode' \in LineModes \ {"MANUAL"}
      /\ ~purge'.clearing
  BY AtRest, ModeType DEF ScanIdle, LineInv
<1>2. CASE IdleOff(v)
  BY <1>1, <1>2, QuietFits DEF IdleOff, ModeFitsState, BatchStates
<1>3. CASE BeginStartSequence(v)
  <2>1. /\ state' = "STARTING" /\ mode' = "AUTO"
        /\ cmd' = [Off EXCEPT !.conveyor = TRUE]
        /\ auto'.step = "CONVEYOR"
        /\ active_bin' \in Bins
    BY <1>1, <1>3 DEF BeginStartSequence, LineModes, LineInv, TypeOK
  <2>2. Drawing(auto.step # "CONVEYOR", auto.step = "FEEDER")'
    BY <2>1 DEF Drawing, Off
  <2>3. auto'.step # None /\ ~cmd'.outlet
    BY <2>1 DEF Off, None
  <2> QED BY <1>1, <2>1, <2>2, <2>3, StartingFits
<1>4. CASE RequestBatch(v)
  <2>1. /\ state' = "LOADING" /\ mode' = "BATCH"
        /\ cmd' = [Off EXCEPT !.conveyor = TRUE]
        /\ active_bin' \in PlannedBins(setpoint.recipe)
        /\ ~(PlanTotal(setpoint.recipe) > HighPoint)
    BY <1>4, BatchAdmits DEF RequestBatch
  <2>2. batch'.step = "CONVEYOR" /\ batch'.plan = setpoint.recipe
    BY <1>4 DEF RequestBatch, LineInv, TypeOK, BatchRecord
  <2>3. LoadingHasAPlan'
    BY <2>1, <2>2 DEF LoadingHasAPlan, None
  <2>4. Drawing(batch.step \in {"GATE", "FEED"}, batch.step = "FEED")'
    BY <2>1, <2>2 DEF Drawing, Off, PlannedBins
  <2>5. ~cmd'.outlet
    BY <2>1 DEF Off
  <2> QED BY <1>1, <2>1, <2>3, <2>4, <2>5, LoadingFits
<1> QED BY <1>2, <1>3, <1>4 DEF ScanIdle

(* The purge record is one, so that a trip may be written on it.           *)
LEMMA PurgeType ==
  LineInv => purge \in [elapsed : Nat, proven : BOOLEAN, clearing : BOOLEAN]
  BY DEF LineInv, TypeOK

(* A scan in STARTING leaves commands and state in agreement.              *)
LEMMA StartingScanFits ==
  ASSUME NEW v \in ViewType, LineInv, ScanStarting(v), mode' = ScanMode(v)
  PROVE  Fits'
<1>1. /\ state = "STARTING" /\ mode = "AUTO" /\ mode' = "AUTO"
      /\ ~purge.clearing /\ ~cmd.outlet
      /\ auto.step # None
      /\ Drawing(auto.step # "CONVEYOR", auto.step = "FEEDER")
      /\ active_bin' = active_bin
  BY InSequence DEF ScanStarting, LineInv, CommandsFitState, ModeFitsState
<1>2. cmd \in OutputImage
  BY DEF LineInv, TypeOK
<1>3. CASE StartingTrip(v)
  BY <1>3, EnterFaultedFits, PurgeType DEF StartingTrip
<1>4. CASE StartingStop(v)
  BY <1>1, <1>4, BeginStopFits DEF StartingStop
<1>5. CASE ConveyorStep(v)
  <2>1. CASE EnterFaulted("conveyor failed to prove running", purge)
    BY <2>1, EnterFaultedFits, PurgeType
  <2>2. CASE /\ auto' = [auto EXCEPT !.step = "GATE", !.elapsed = 0]
             /\ cmd' = [cmd EXCEPT !.gate[active_bin] = TRUE]
             /\ UNCHANGED <<state, fault_reason, purge>>
    <3>1. auto'.step = "GATE"
      BY <2>2 DEF LineInv, TypeOK
    <3>2. cmd.gate = AllClosed /\ ~cmd.feeder /\ cmd.conveyor /\ active_bin \in Bins
      BY <1>1, <1>5 DEF Drawing, ConveyorStep
    <3>3. cmd'.gate = [cmd.gate EXCEPT ![active_bin] = TRUE]
      BY <1>2, <2>2 DEF OutputImage
    <3>4. cmd'.gate = Only(active_bin)
      BY <3>2, <3>3 DEF Only, AllClosed
    <3>5. cmd'.feeder = cmd.feeder /\ cmd'.conveyor = cmd.conveyor /\ cmd'.outlet = cmd.outlet
      BY <1>2, <2>2 DEF OutputImage
    <3>6. Drawing(auto.step # "CONVEYOR", auto.step = "FEEDER")'
      BY <1>1, <3>1, <3>2, <3>4, <3>5 DEF Drawing, Only
    <3> QED BY <1>1, <2>2, <3>1, <3>5, <3>6, StartingFits DEF None
  <2>3. CASE /\ auto' = [auto EXCEPT !.elapsed = @ + 1]
             /\ UNCHANGED <<state, fault_reason, purge, cmd>>
    <3>1. auto'.step = auto.step
      BY <2>3 DEF LineInv, TypeOK
    <3>2. Drawing(auto.step # "CONVEYOR", auto.step = "FEEDER")'
      BY <1>1, <2>3, <3>1 DEF Drawing, Only
    <3> QED BY <1>1, <2>3, <3>1, <3>2, StartingFits
  <2> QED BY <1>5, <2>1, <2>2, <2>3 DEF ConveyorStep
<1>6. CASE GateStep(v)
  <2>1. cmd.gate = Only(active_bin) /\ ~cmd.feeder /\ cmd.conveyor /\ active_bin \in Bins
    BY <1>1, <1>6 DEF Drawing, GateStep
  <2>2. CASE /\ auto' = [step |-> "FEEDER", elapsed |-> 0, feed_demand |-> TRUE]
             /\ cmd' = [cmd EXCEPT !.feeder = TRUE]
             /\ UNCHANGED <<state, purge>>
    <3>1. auto'.step = "FEEDER"
      BY <2>2
    <3>2. /\ cmd'.feeder = TRUE /\ cmd'.conveyor = cmd.conveyor
          /\ cmd'.gate = cmd.gate /\ cmd'.outlet = cmd.outlet
      BY <1>2, <2>2 DEF OutputImage
    <3>3. Drawing(auto.step # "CONVEYOR", auto.step = "FEEDER")'
      BY <1>1, <2>1, <3>1, <3>2 DEF Drawing, Only
    <3> QED BY <1>1, <2>2, <3>1, <3>2, <3>3, StartingFits DEF None
  <2>3. CASE state' = "RUNNING" /\ UNCHANGED <<cmd, purge>>
    <3>1. Drawing(TRUE, cmd.feeder)'
      BY <1>1, <2>1, <2>3 DEF Drawing, Only
    <3> QED BY <1>1, <2>3, <3>1, RunningFits
  <2>4. CASE UNCHANGED <<state, auto, cmd, purge>>
    <3>1. Drawing(auto.step # "CONVEYOR", auto.step = "FEEDER")'
      BY <1>1, <2>4 DEF Drawing, Only
    <3> QED BY <1>1, <2>4, <3>1, StartingFits
  <2> QED BY <1>6, <2>2, <2>3, <2>4 DEF GateStep
<1>7. CASE FeederStep(v)
  <2>1. CASE state' = "RUNNING" /\ UNCHANGED <<cmd, purge>>
    <3>1. Drawing(TRUE, cmd.feeder)'
      BY <1>1, <1>7, <2>1 DEF Drawing, Only, FeederStep
    <3> QED BY <1>1, <2>1, <3>1, RunningFits
  <2>2. CASE UNCHANGED <<state, auto, cmd, purge>>
    <3>1. Drawing(auto.step # "CONVEYOR", auto.step = "FEEDER")'
      BY <1>1, <2>2 DEF Drawing, Only
    <3> QED BY <1>1, <2>2, <3>1, StartingFits
  <2> QED BY <1>7, <2>1, <2>2 DEF FeederStep
<1> QED BY <1>3, <1>4, <1>5, <1>6, <1>7 DEF ScanStarting

(* So does one in RUNNING.                                                 *)
LEMMA RunningScanFits ==
  ASSUME NEW v \in ViewType, LineInv, ScanRunning(v), mode' = ScanMode(v)
  PROVE  Fits'
<1>1. /\ state = "RUNNING" /\ mode = "AUTO" /\ mode' = "AUTO"
      /\ ~purge.clearing
      /\ Drawing(TRUE, cmd.feeder)
      /\ active_bin' = active_bin
  BY InSequence DEF ScanRunning, LineInv, CommandsFitState, ModeFitsState
<1>2. CASE RunningTrip(v)
  BY <1>2, EnterFaultedFits, PurgeType DEF RunningTrip
<1>3. CASE RunningStop(v)
  BY <1>1, <1>3, BeginStopFits DEF RunningStop
<1>4. CASE RunningFeed(v)
  <2>1. /\ cmd' = [cmd EXCEPT !.feeder = Demand(v), !.outlet = Discharge(v, TRUE)]
        /\ UNCHANGED <<state, purge>>
    BY <1>4 DEF RunningFeed
  <2>2. cmd \in OutputImage
    BY DEF LineInv, TypeOK
  <2>3. cmd'.conveyor = cmd.conveyor /\ cmd'.gate = cmd.gate /\ cmd'.outlet = Discharge(v, TRUE)
    BY <2>1, <2>2 DEF OutputImage
  <2>4. Drawing(TRUE, cmd.feeder)'
    BY <1>1, <2>3 DEF Drawing, Only
  <2> QED BY <1>1, <2>1, <2>3, <2>4, RunningFits DEF Discharge
<1> QED BY <1>2, <1>3, <1>4 DEF ScanRunning

(* So does one in STOPPING.                                                *)
LEMMA StoppingScanFits ==
  ASSUME NEW v \in ViewType, LineInv, ScanStopping(v), mode' = ScanMode(v)
  PROVE  Fits'
<1>1. /\ state = "STOPPING" /\ mode # "MANUAL" /\ mode' = mode
      /\ ~purge.clearing
      /\ cmd = [Off EXCEPT !.conveyor = cmd.conveyor]
  BY InSequence DEF ScanStopping, LineInv, CommandsFitState, ModeFitsState
<1>2. StopBeltProven(v) \in BOOLEAN
  BY PurgeType DEF StopBeltProven, Confirmed
<1>3. CASE StoppingTrip(v)
  <2>1. [purge EXCEPT !.proven = StopBeltProven(v)]
          \in [elapsed : Nat, proven : BOOLEAN, clearing : BOOLEAN]
    BY <1>2, PurgeType
  <2> QED BY <1>3, <2>1, EnterFaultedFits DEF StoppingTrip
<1>4. CASE Purging(v)
  <2>1. UNCHANGED <<state, cmd>> /\ purge'.clearing = purge.clearing
    BY <1>4, PurgeType DEF Purging
  <2> QED BY <1>1, <2>1
       DEF Fits, CommandsFitState, ModeFitsState, LoadingHasAPlan, BatchStates, Off
<1>5. CASE Purged(v)
  <2>1. state' = "IDLE" /\ cmd' = Off
    BY <1>1, <1>5 DEF Purged, Off
  <2>2. purge'.clearing = purge.clearing
    BY <1>5, PurgeType DEF Purged
  <2> QED BY <1>1, <2>1, <2>2, QuietFits DEF ModeFitsState, BatchStates
<1> QED BY <1>3, <1>4, <1>5 DEF ScanStopping

(* So does one in FAULTED.                                                 *)
LEMMA FaultedScanFits ==
  ASSUME NEW v \in ViewType, LineInv, ScanFaulted(v), mode' = ScanMode(v)
  PROVE  Fits'
<1>1. state = "FAULTED" /\ mode' = mode
  BY InSequence DEF ScanFaulted
<1>2. CASE HoldFaulted(v)
  <2>1. /\ state' = "FAULTED"
        /\ cmd' = [Off EXCEPT !.conveyor = ClearingGoesOn(v)]
    BY <1>1, <1>2 DEF HoldFaulted
  <2>2. purge'.clearing = ClearingGoesOn(v)
    BY <1>2, PurgeType DEF HoldFaulted
  <2> QED BY <2>1, <2>2, FaultedFits
<1>3. CASE ResetFaulted(v)
  <2>1. cmd' = Off /\ EnterRest(v, << {} >>)
    BY <1>3 DEF ResetFaulted
  <2>2. ~purge'.clearing
    BY <1>3, PurgeType DEF ResetFaulted
  <2> QED BY <1>1, <2>1, <2>2, EnterRestFits
<1> QED BY <1>2, <1>3 DEF ScanFaulted

(* So does one in ESTOPPED, a reset to a standing cause included.          *)
LEMMA EstoppedScanFits ==
  ASSUME NEW v \in ViewType, LineInv, ScanEstopped(v), mode' = ScanMode(v)
  PROVE  Fits'
<1>1. cmd' = Off /\ mode' = mode
  BY ScanBegins DEF ScanEstopped, RestState
<1>2. state = "ESTOPPED" => ~purge.clearing
  BY DEF LineInv, CommandsFitState
<1>3. CASE HoldEstopped(v)
  <2>1. state' = "ESTOPPED" /\ ~purge'.clearing
    BY <1>2, <1>3, PurgeType DEF HoldEstopped
  <2> QED BY <1>1, <2>1, QuietFits DEF ModeFitsState, BatchStates
<1>4. CASE ResetEstopped(v)
  <2>1. purge' = purge /\ ~purge.clearing
    BY <1>2, <1>4, ScanBegins DEF ResetEstopped, ScanEstopped, RestState
  <2>2. CASE state' = "FAULTED"
    <3>1. cmd' = [Off EXCEPT !.conveyor = purge'.clearing]
      <4>1. purge'.clearing = FALSE
        BY <2>1, PurgeType
      <4>2. Off.conveyor = FALSE
        BY DEF Off
      <4>3. [Off EXCEPT !.conveyor = Off.conveyor] = Off
        BY OutputType DEF OutputImage
      <4> QED BY <1>1, <4>1, <4>2, <4>3
    <3> QED BY <2>2, <3>1, FaultedFits
  <2>3. CASE EnterRest(v, << {} >>)
    BY <1>1, <2>1, <2>3, EnterRestFits
  <2> QED BY <1>4, <2>2, <2>3 DEF ResetEstopped
<1> QED BY <1>3, <1>4 DEF ScanEstopped

(* So does one in MANUAL, whatever buttons are pressed together.           *)
LEMMA ManualScanFits ==
  ASSUME NEW v \in ViewType, LineInv, ScanManual(v), mode' = ScanMode(v)
  PROVE  Fits'
<1>1. /\ mode' = "MANUAL" /\ ~purge.clearing
      /\ state \in {"IDLE", "MANUAL"}
  BY AtRest DEF ScanManual
<1>2. CASE ManualTrip(v)
  BY <1>2, EnterFaultedFits, PurgeType DEF ManualTrip
<1>3. CASE ManualCommands(v)
  <2>1. state' = "MANUAL" /\ purge' = purge
    BY <1>3 DEF ManualCommands
  <2>2. cmd.gate \in {AllClosed} \cup {Only(b) : b \in Bins}
    <3>1. CASE state = "MANUAL"
      BY <3>1 DEF LineInv, CommandsFitState
    <3>2. CASE state = "IDLE"
      <4>1. cmd = Off
        BY <3>2 DEF LineInv, CommandsFitState
      <4>2. cmd.gate = AllClosed
        BY <4>1 DEF Off
      <4> QED BY <4>2
    <3> QED BY <1>1, <3>1, <3>2
  <2>3. cmd'.gate \in {AllClosed} \cup {Only(b) : b \in Bins}
    <3>1. setpoint.source_bin \in Bins
      BY DEF LineInv, TypeOK
    <3> QED BY <1>3, <2>2, <3>1 DEF ManualCommands, ManualGates
  <2>4. cmd'.feeder => cmd'.conveyor
    <3>1. SUFFICES ASSUME ManualFeeder(v)
                   PROVE  (cmd.conveyor /\ ~Stopping("stop_conveyor")) \/ StartsConveyor(v)
      BY <1>3 DEF ManualCommands
    <3>2. ManualAfter(v).proven
      BY <3>1 DEF ManualFeeder
    <3>3. ~Stopping("stop_conveyor") /\ ManualSupervised(v).proven
      BY <3>2 DEF ManualAfter, ManualAtRest
    <3>4. cmd.conveyor
      BY <3>3 DEF ManualSupervised, ManualAtRest
    <3> QED BY <3>3, <3>4
  <2>5. cmd'.outlet => HasOutlet
    <3>1. cmd.outlet => HasOutlet
      BY DEF LineInv, CommandsFitState
    <3> QED BY <1>3, <3>1 DEF ManualCommands, ManualOutlet
  <2>6. CommandsFitState'
    BY <1>1, <2>1, <2>3, <2>4, <2>5 DEF CommandsFitState, Only
  <2> QED BY <1>1, <2>1, <2>6 DEF Fits, ModeFitsState, LoadingHasAPlan, BatchStates
<1> QED BY <1>2, <1>3 DEF ScanManual

(* The trip and the Stop every batch state shares.                         *)
LEMMA BatchCommonFits ==
  ASSUME NEW v, LineInv, state \in BatchStates, mode' = mode,
         BatchTrip(v) \/ BeginStopSequence(v)
  PROVE  Fits'
<1>1. CASE BatchTrip(v)
  BY <1>1, EnterFaultedFits, PurgeType DEF BatchTrip
<1>2. CASE BeginStopSequence(v)
  BY <1>2, BeginStopFits DEF LineInv, CommandsFitState, ModeFitsState, BatchStates
<1> QED BY <1>1, <1>2

(* So does one in LOADING, which also keeps the active bin in the plan.    *)
LEMMA LoadingScanFits ==
  ASSUME NEW v \in ViewType, LineInv, ScanLoading(v), mode' = ScanMode(v)
  PROVE  Fits'
<1>1. /\ state = "LOADING" /\ mode = "BATCH" /\ mode' = "BATCH"
      /\ ~purge.clearing /\ ~cmd.outlet
      /\ Drawing(batch.step \in {"GATE", "FEED"}, batch.step = "FEED")
      /\ active_bin \in PlannedBins(batch.plan)
      /\ ~(PlanTotal(batch.plan) > HighPoint)
      /\ batch.step # "CONVEYOR" => batch.proven
  BY InSequence
  DEF ScanLoading, BatchScan, LineInv, CommandsFitState, ModeFitsState, LoadingHasAPlan, BatchStates
<1>2. cmd \in OutputImage /\ batch \in BatchRecord
  BY DEF LineInv, TypeOK
<1>3. CASE BatchTrip(v) \/ BeginStopSequence(v)
  BY <1>1, <1>3, BatchCommonFits DEF BatchStates
<1>4. CASE LoadingConveyor(v)
  <2>1. CASE EnterFaulted("conveyor failed to prove running", purge)
    BY <2>1, EnterFaultedFits, PurgeType
  <2>2. CASE /\ batch' = [batch EXCEPT !.loaded_kg = Loaded(v), !.elapsed = @ + 1]
             /\ Keep /\ UNCHANGED <<cmd, active_bin>>
    <3>1. batch'.step = batch.step /\ batch'.plan = batch.plan /\ batch.step = "CONVEYOR"
      BY <1>2, <1>4, <2>2 DEF BatchRecord, LoadingConveyor
    <3>2. LoadingHasAPlan'
      BY <1>1, <2>2, <3>1 DEF LoadingHasAPlan, None
    <3>3. Drawing(batch.step \in {"GATE", "FEED"}, batch.step = "FEED")'
      BY <1>1, <2>2, <3>1 DEF Drawing, Only
    <3> QED BY <1>1, <2>2, <3>2, <3>3, LoadingFits DEF Keep
  <2>3. CASE /\ batch' = [batch EXCEPT !.loaded_kg = Loaded(v), !.proven = TRUE, !.step = "GATE"]
             /\ cmd' = [cmd EXCEPT !.gate[active_bin] = TRUE]
             /\ Keep /\ UNCHANGED active_bin
    <3>1. batch'.step = "GATE" /\ batch'.plan = batch.plan /\ batch'.proven = TRUE
      BY <1>2, <2>3 DEF BatchRecord
    <3>2. LoadingHasAPlan'
      BY <1>1, <2>3, <3>1 DEF LoadingHasAPlan, None
    <3>3. cmd.gate = AllClosed /\ ~cmd.feeder /\ cmd.conveyor /\ active_bin \in Bins
      BY <1>1, <1>4 DEF Drawing, LoadingConveyor
    <3>4. /\ cmd'.gate = [cmd.gate EXCEPT ![active_bin] = TRUE]
          /\ cmd'.feeder = cmd.feeder /\ cmd'.conveyor = cmd.conveyor /\ cmd'.outlet = cmd.outlet
      BY <1>2, <2>3 DEF OutputImage
    <3>5. cmd'.gate = Only(active_bin)
      BY <3>3, <3>4 DEF Only, AllClosed
    <3>6. Drawing(batch.step \in {"GATE", "FEED"}, batch.step = "FEED")'
      BY <2>3, <3>1, <3>3, <3>4, <3>5 DEF Drawing, Only
    <3> QED BY <1>1, <2>3, <3>2, <3>4, <3>6, LoadingFits DEF Keep
  <2> QED BY <1>4, <2>1, <2>2, <2>3 DEF LoadingConveyor
<1>5. CASE LoadingGate(v)
  <2>1. cmd.gate = Only(active_bin) /\ ~cmd.feeder /\ cmd.conveyor /\ active_bin \in Bins
    BY <1>1, <1>5 DEF Drawing, LoadingGate
  <2>2. /\ batch'.step = IF v.in.gate_open[active_bin] THEN "FEED" ELSE "GATE"
        /\ batch'.plan = batch.plan /\ batch'.proven = batch.proven
    BY <1>2, <1>5 DEF BatchRecord, LoadingGate
  <2>3. UNCHANGED <<state, purge, active_bin>>
    BY <1>5 DEF LoadingGate, Keep
  <2>4. LoadingHasAPlan'
    BY <1>1, <1>5, <2>2, <2>3 DEF LoadingHasAPlan, None, LoadingGate
  <2>5. /\ cmd'.feeder = IF v.in.gate_open[active_bin] THEN TRUE ELSE cmd.feeder
        /\ cmd'.gate = cmd.gate /\ cmd'.conveyor = cmd.conveyor /\ cmd'.outlet = cmd.outlet
    BY <1>2, <1>5 DEF OutputImage, LoadingGate
  <2>6. Drawing(batch.step \in {"GATE", "FEED"}, batch.step = "FEED")'
    BY <2>1, <2>2, <2>3, <2>5 DEF Drawing, Only
  <2> QED BY <1>1, <2>3, <2>4, <2>5, <2>6, LoadingFits
<1>6. CASE LoadingFeed(v)
  <2>1. UNCHANGED <<state, purge, active_bin>> /\ batch.step = "FEED"
    BY <1>6 DEF LoadingFeed, Keep
  <2>2. cmd.gate = Only(active_bin) /\ cmd.feeder /\ cmd.conveyor /\ active_bin \in Bins
    BY <1>1, <2>1 DEF Drawing
  <2>3. CASE /\ cmd' = [cmd EXCEPT !.feeder = FALSE, !.gate = AllClosed]
             /\ batch' = [batch EXCEPT !.loaded_kg = Loaded(v), !.step = "SETTLE", !.elapsed = 0]
    <3>1. batch'.step = "SETTLE" /\ batch'.plan = batch.plan /\ batch'.proven = batch.proven
      BY <1>2, <2>3 DEF BatchRecord
    <3>2. LoadingHasAPlan'
      BY <1>1, <2>1, <3>1 DEF LoadingHasAPlan, None
    <3>3. /\ cmd'.feeder = FALSE /\ cmd'.gate = AllClosed
          /\ cmd'.conveyor = cmd.conveyor /\ cmd'.outlet = cmd.outlet
      BY <1>2, <2>3 DEF OutputImage
    <3>4. Drawing(batch.step \in {"GATE", "FEED"}, batch.step = "FEED")'
      BY <2>1, <2>2, <3>1, <3>3 DEF Drawing, AllClosed
    <3> QED BY <1>1, <2>1, <3>2, <3>3, <3>4, LoadingFits
  <2>4. CASE /\ batch' = [batch EXCEPT !.loaded_kg = Loaded(v)]
             /\ UNCHANGED cmd
    <3>1. batch'.step = batch.step /\ batch'.plan = batch.plan /\ batch'.proven = batch.proven
      BY <1>2, <2>4 DEF BatchRecord
    <3>2. LoadingHasAPlan'
      BY <1>1, <2>1, <3>1 DEF LoadingHasAPlan, None
    <3>3. Drawing(batch.step \in {"GATE", "FEED"}, batch.step = "FEED")'
      BY <2>1, <2>2, <2>4, <3>1 DEF Drawing, Only
    <3> QED BY <1>1, <2>1, <2>4, <3>2, <3>3, LoadingFits
  <2> QED BY <1>6, <2>3, <2>4 DEF LoadingFeed
<1>7. CASE LoadingSettle(v)
  <2>1. purge' = purge /\ batch.step = "SETTLE" /\ batch.proven
    BY <1>1, <1>7 DEF LoadingSettle
  <2>2. cmd.gate = AllClosed /\ ~cmd.feeder /\ cmd.conveyor /\ active_bin \in Bins
    BY <1>1, <2>1 DEF Drawing
  <2>3. CASE /\ batch' = [batch EXCEPT !.loaded_kg = Loaded(v), !.elapsed = @ + 1]
             /\ UNCHANGED <<state, cmd, active_bin>>
    <3>1. batch'.step = batch.step /\ batch'.plan = batch.plan /\ batch'.proven = batch.proven
      BY <1>2, <2>3 DEF BatchRecord
    <3>2. LoadingHasAPlan'
      BY <1>1, <2>1, <2>3, <3>1 DEF LoadingHasAPlan, None
    <3>3. Drawing(batch.step \in {"GATE", "FEED"}, batch.step = "FEED")'
      BY <2>1, <2>2, <2>3, <3>1 DEF Drawing, AllClosed
    <3> QED BY <1>1, <2>1, <2>3, <3>2, <3>3, LoadingFits
  <2>4. CASE /\ \E b \in LaterBins : active_bin' = b /\ cmd' = [cmd EXCEPT !.gate[b] = TRUE]
             /\ batch' = [batch EXCEPT !.loaded_kg = Loaded(v), !.elapsed = @ + 1,
                                       !.step = "GATE"]
             /\ UNCHANGED state
    <3>1. PICK b \in LaterBins : active_bin' = b /\ cmd' = [cmd EXCEPT !.gate[b] = TRUE]
      BY <2>4
    <3>2. batch'.step = "GATE" /\ batch'.plan = batch.plan /\ batch'.proven = batch.proven
      BY <1>2, <2>4 DEF BatchRecord
    <3>3. b \in PlannedBins(batch.plan) /\ b \in Bins
      BY DEF LaterBins, PlannedBins
    <3>4. LoadingHasAPlan'
      BY <1>1, <2>1, <3>1, <3>2, <3>3 DEF LoadingHasAPlan, None
    <3>5. /\ cmd'.gate = [cmd.gate EXCEPT ![b] = TRUE]
          /\ cmd'.feeder = cmd.feeder /\ cmd'.conveyor = cmd.conveyor /\ cmd'.outlet = cmd.outlet
      BY <1>2, <3>1 DEF OutputImage
    <3>6. cmd'.gate = Only(b)
      BY <2>2, <3>3, <3>5 DEF Only, AllClosed
    <3>7. Drawing(batch.step \in {"GATE", "FEED"}, batch.step = "FEED")'
      BY <2>2, <3>1, <3>2, <3>3, <3>5, <3>6 DEF Drawing, Only
    <3> QED BY <1>1, <2>1, <2>4, <3>4, <3>5, <3>7, LoadingFits
  <2>5. CASE state' = "PROCESSING" /\ cmd' = [cmd EXCEPT !.conveyor = FALSE]
    <3>1. cmd' = Off
      <4>1. /\ cmd'.feeder = FALSE /\ cmd'.conveyor = FALSE
            /\ cmd'.gate = AllClosed /\ cmd'.outlet = FALSE
            /\ cmd' = [feeder |-> cmd'.feeder, conveyor |-> cmd'.conveyor,
                       gate |-> cmd'.gate, outlet |-> cmd'.outlet]
        BY <1>1, <1>2, <2>2, <2>5 DEF OutputImage
      <4> QED BY <4>1 DEF Off
    <3> QED BY <1>1, <2>1, <2>5, <3>1, QuietFits DEF ModeFitsState, BatchStates
  <2> QED BY <1>7, <2>3, <2>4, <2>5 DEF LoadingSettle
<1> QED BY <1>3, <1>4, <1>5, <1>6, <1>7 DEF ScanLoading, BatchScan

(* So does one in PROCESSING.                                              *)
LEMMA ProcessingScanFits ==
  ASSUME NEW v \in ViewType, LineInv, ScanProcessing(v), mode' = ScanMode(v)
  PROVE  Fits'
<1>1. /\ state = "PROCESSING" /\ mode = "BATCH" /\ mode' = "BATCH"
      /\ ~purge.clearing /\ cmd = Off
  BY InSequence
  DEF ScanProcessing, BatchScan, LineInv, CommandsFitState, ModeFitsState, BatchStates
<1>2. CASE BatchTrip(v) \/ BeginStopSequence(v)
  BY <1>1, <1>2, BatchCommonFits DEF BatchStates
<1>3. CASE UNCHANGED <<state, cmd, purge>>
  BY <1>1, <1>3, QuietFits DEF ModeFitsState, BatchStates
<1>4. CASE /\ state' = "DISCHARGING" /\ purge' = purge
           /\ cmd' = [cmd EXCEPT !.outlet = Discharge(v, TRUE)]
  <2>1. cmd'.outlet = Discharge(v, TRUE)
    BY <1>1, <1>4 DEF Off
  <2> QED BY <1>1, <1>4, <2>1, DischargingFits DEF Discharge
<1> QED BY <1>2, <1>3, <1>4 DEF ScanProcessing, BatchScan

(* So does one in DISCHARGING.                                             *)
LEMMA DischargingScanFits ==
  ASSUME NEW v \in ViewType, LineInv, ScanDischarging(v), mode' = ScanMode(v)
  PROVE  Fits'
<1>1. /\ state = "DISCHARGING" /\ mode = "BATCH" /\ mode' = "BATCH"
      /\ ~purge.clearing
      /\ cmd = [Off EXCEPT !.outlet = cmd.outlet]
  BY InSequence
  DEF ScanDischarging, BatchScan, LineInv, CommandsFitState, ModeFitsState, BatchStates
<1>2. CASE BatchTrip(v) \/ BeginStopSequence(v)
  BY <1>1, <1>2, BatchCommonFits DEF BatchStates
<1>3. CASE EnterFaulted("discharge timeout", purge)
  BY <1>3, EnterFaultedFits, PurgeType
<1> DEFINE out == Discharge(v, TRUE)
<1>4. out \in BOOLEAN /\ (out => HasOutlet)
  BY DEF Discharge
<1> HIDE DEF out
<1>5. CASE /\ state' = "CLEANING" /\ purge' = purge
           /\ cmd' = [cmd EXCEPT !.conveyor = TRUE, !.outlet = out]
  <2>1. cmd' = [Off EXCEPT !.conveyor = TRUE, !.outlet = out]
    BY <1>1, <1>5 DEF Off
  <2>2. cmd'.outlet = out
    BY <2>1 DEF Off
  <2> QED BY <1>1, <1>4, <1>5, <2>1, <2>2, CleaningFits
<1>6. CASE Keep /\ cmd' = [cmd EXCEPT !.outlet = out]
  <2>1. cmd' = [Off EXCEPT !.outlet = out]
    BY <1>1, <1>6 DEF Off
  <2>2. cmd'.outlet = out
    BY <2>1 DEF Off
  <2> QED BY <1>1, <1>4, <1>6, <2>1, <2>2, DischargingFits DEF Keep
<1> QED BY <1>2, <1>3, <1>5, <1>6 DEF ScanDischarging, BatchScan, out

(* So does one in CLEANING.                                                *)
LEMMA CleaningScanFits ==
  ASSUME NEW v \in ViewType, LineInv, ScanCleaning(v), mode' = ScanMode(v)
  PROVE  Fits'
<1>1. /\ state = "CLEANING" /\ mode = "BATCH" /\ mode' = "BATCH"
      /\ ~purge.clearing
      /\ cmd = Off \/ \E o \in BOOLEAN : cmd = [Off EXCEPT !.conveyor = TRUE, !.outlet = o]
  BY InSequence
  DEF ScanCleaning, BatchScan, LineInv, CommandsFitState, ModeFitsState, BatchStates
<1>2. CASE BatchTrip(v) \/ BeginStopSequence(v)
  BY <1>1, <1>2, BatchCommonFits DEF BatchStates
<1> DEFINE out == Discharge(v, TRUE)
<1>3. out \in BOOLEAN /\ (out => HasOutlet)
  BY DEF Discharge
<1> HIDE DEF out
<1>4. CASE CleaningBelt(v)
  <2>1. CASE EnterFaulted("conveyor failed to prove running", purge)
    BY <2>1, EnterFaultedFits, PurgeType
  <2>2. PICK o \in BOOLEAN : cmd = [Off EXCEPT !.conveyor = TRUE, !.outlet = o]
    <3>1. cmd.conveyor
      BY <1>4 DEF CleaningBelt
    <3>2. ~Off.conveyor
      BY DEF Off
    <3> QED BY <1>1, <3>1, <3>2
  <2>3. CASE Keep /\ cmd' = [cmd EXCEPT !.outlet = out]
    <3>1. cmd' = [Off EXCEPT !.conveyor = TRUE, !.outlet = out]
      BY <2>2, <2>3 DEF Off
    <3>2. cmd'.outlet = out
      BY <3>1 DEF Off
    <3> QED BY <1>1, <1>3, <2>3, <3>1, <3>2, CleaningFits DEF Keep
  <2>4. CASE Keep /\ cmd' = [cmd EXCEPT !.conveyor = FALSE, !.outlet = FALSE]
    <3>1. cmd' = Off /\ cmd'.outlet = FALSE
      BY <2>2, <2>4 DEF Off
    <3> QED BY <1>1, <2>4, <3>1, CleaningFits DEF Keep
  <2> QED BY <1>4, <2>1, <2>3, <2>4 DEF CleaningBelt, out
<1>5. CASE CleaningOutlet(v)
  <2>1. cmd = Off
    BY <1>1, <1>5 DEF CleaningOutlet, Off
  <2>2. CASE EnterRest(v, << >>) /\ cmd' = cmd /\ purge' = purge
    BY <1>1, <2>1, <2>2, EnterRestFits
  <2>3. CASE UNCHANGED cmd /\ Keep
    <3>1. cmd' = Off /\ cmd'.outlet = FALSE
      BY <2>1, <2>3 DEF Off
    <3> QED BY <1>1, <2>3, <3>1, CleaningFits DEF Keep
  <2> QED BY <1>5, <2>2, <2>3 DEF CleaningOutlet
<1> QED BY <1>2, <1>4, <1>5 DEF ScanCleaning, BatchScan

-----------------------------------------------------------------------------
(* The inductive invariant.                                                *)

(* A whole scan leaves commands, mode, state and plan in agreement.        *)
LEMMA ScanOfFits ==
  ASSUME LineInv, NEW v \in ViewType, ScanOf(v)
  PROVE  Fits'
<1>1. /\ mode' = ScanMode(v)
      /\ \/ ScanIdle(v) \/ ScanStarting(v) \/ ScanRunning(v) \/ ScanStopping(v)
         \/ ScanFaulted(v) \/ ScanEstopped(v) \/ ScanManual(v)
         \/ ScanLoading(v) \/ ScanProcessing(v) \/ ScanDischarging(v)
         \/ ScanCleaning(v)
  BY DEF ScanOf
<1> QED
  BY <1>1, IdleFits, StartingScanFits, RunningScanFits, StoppingScanFits,
     FaultedScanFits, EstoppedScanFits, ManualScanFits, LoadingScanFits,
     ProcessingScanFits, DischargingScanFits, CleaningScanFits

LEMMA ScanOfKeeps ==
  ASSUME LineInv, NEW v \in ViewType, ScanOf(v)
  PROVE  LineInv'
  BY ScanOfFits, ScanOfType DEF LineInv, Fits

(* So do the operator and the plant between scans.                         *)
LEMMA ControlKept ==
  ASSUME LineInv, TypeOK',
         UNCHANGED <<in, cmd, dev, held, alarms, mode, state, fault_reason, active_bin,
                     auto, purge, manual, batch, start_inhibit>>
  PROVE  LineInv'
<1>1. CommandsFitState'
  BY DEF LineInv, CommandsFitState, Drawing, Only
<1>2. ModeFitsState' /\ LoadingHasAPlan'
  BY DEF LineInv, ModeFitsState, LoadingHasAPlan
<1> QED BY <1>1, <1>2 DEF LineInv

(* The operator's methods only raise requests and change setpoints.        *)
LEMMA OperatorKeeps ==
  ASSUME Operator
  PROVE  UNCHANGED <<in, cmd, dev, held, alarms, mode, state, fault_reason, active_bin,
                     auto, purge, manual, batch, start_inhibit>>
  BY DEF Operator, Press, SelectMode, SelectSource, SetRecipe, SetHold, Set

(* The invariant is inductive: it holds at first and every step keeps it.  *)
LEMMA LineInvInductive ==
  /\ Init => LineInv
  /\ LineInv /\ [Next]_vars => LineInv'
<1>1. ASSUME Init PROVE LineInv
  <2>1. TypeOK
    BY <1>1, InitType
  <2>2. state = "IDLE" /\ mode = "AUTO" /\ cmd = Off /\ ~purge.clearing
    BY <1>1 DEF Init
  <2> QED BY <2>1, <2>2
       DEF LineInv, CommandsFitState, ModeFitsState, LoadingHasAPlan, BatchStates, Off
<1>2. ASSUME LineInv, [Next]_vars PROVE LineInv'
  <2>1. CASE Scan
    BY <1>2, <2>1, ScanOfKeeps, ViewsType DEF Scan, LineInv
  <2>2. CASE Operator
    BY <1>2, <2>2, ControlKept, OperatorKeeps, OperatorType DEF LineInv
  <2>3. CASE UNCHANGED vars
    <3>1. TypeOK'
      BY <1>2, <2>3 DEF LineInv, TypeOK, vars
    <3> QED BY <1>2, <2>3, <3>1, ControlKept DEF vars
  <2> QED BY <1>2, <2>1, <2>2, <2>3 DEF Next
<1> QED BY <1>1, <1>2

(* Commands, mode, state and plan agree in every reachable state, for      *)
(* every plant, timing and set of requests.                                *)
THEOREM LineInvariant == Spec => []LineInv
  BY LineInvInductive, PTL DEF Spec

-----------------------------------------------------------------------------
(* The safety invariants.                                                  *)

(* CommandsFitState: every way into a state, from whatever was running,    *)
(* leaves exactly the commands that belong to it.                          *)
THEOREM CommandsAreStates == Spec => []CommandsFitState
<1>1. LineInv => CommandsFitState
  BY DEF LineInv
<1> QED BY <1>1, LineInvariant, PTL

(* ModeFitsState: no mode selection, trip, E-stop or reset leaves one      *)
(* mode's sequence running under another mode.                             *)
THEOREM ModesAreKept == Spec => []ModeFitsState
<1>1. LineInv => ModeFitsState
  BY DEF LineInv
<1> QED BY <1>1, LineInvariant, PTL

(* LoadingHasAPlan: a loading batch draws from a bin of its own plan.      *)
THEOREM BatchesHavePlans == Spec => []LoadingHasAPlan
<1>1. LineInv => LoadingHasAPlan
  BY DEF LineInv
<1> QED BY <1>1, LineInvariant, PTL

(* A line that draws has one gate open, its active bin's, or none.         *)
LEMMA OneGate ==
  ASSUME LineInv
  PROVE  OneBinFeedsABelt
<1>1. state \in LineStates
  BY DEF LineInv, TypeOK
<1>2. CASE state \in {"STARTING", "RUNNING", "LOADING"}
  <2>1. /\ active_bin \in Bins /\ cmd.conveyor
        /\ cmd.gate = AllClosed \/ cmd.gate = Only(active_bin)
        /\ cmd.feeder => cmd.gate = Only(active_bin)
    BY <1>2 DEF LineInv, CommandsFitState, Drawing
  <2> QED BY <2>1 DEF OneBinFeedsABelt, Only, AllClosed
<1>3. CASE state = "MANUAL"
  <2>1. /\ mode = "MANUAL" /\ (cmd.feeder => cmd.conveyor)
        /\ cmd.gate = AllClosed \/ \E b \in Bins : cmd.gate = Only(b)
    BY <1>3 DEF LineInv, CommandsFitState, ModeFitsState
  <2> QED BY <2>1 DEF OneBinFeedsABelt, Only, AllClosed
<1>4. CASE state \notin {"STARTING", "RUNNING", "LOADING", "MANUAL"}
  <2>1. \/ cmd = Off
        \/ cmd = [Off EXCEPT !.conveyor = purge.clearing]
        \/ cmd = [Off EXCEPT !.conveyor = cmd.conveyor]
        \/ cmd = [Off EXCEPT !.outlet = cmd.outlet]
        \/ \E o \in BOOLEAN : cmd = [Off EXCEPT !.conveyor = TRUE, !.outlet = o]
    BY <1>1, <1>4 DEF LineInv, CommandsFitState, LineStates, BatchStates
  <2>2. ASSUME NEW c, NEW o,
               \/ cmd = Off
               \/ cmd = [Off EXCEPT !.conveyor = c]
               \/ cmd = [Off EXCEPT !.outlet = o]
               \/ cmd = [Off EXCEPT !.conveyor = TRUE, !.outlet = o]
        PROVE  cmd.feeder = FALSE /\ cmd.gate = AllClosed
    <3>1. CASE cmd = Off
      BY <3>1 DEF Off
    <3>2. CASE cmd = [Off EXCEPT !.conveyor = c]
      BY <3>2 DEF Off
    <3>3. CASE cmd = [Off EXCEPT !.outlet = o]
      BY <3>3 DEF Off
    <3>4. CASE cmd = [Off EXCEPT !.conveyor = TRUE, !.outlet = o]
      BY <3>4 DEF Off
    <3> QED BY <2>2, <3>1, <3>2, <3>3, <3>4
  <2>3. ~cmd.feeder /\ cmd.gate = AllClosed
    BY <2>1, <2>2
  <2> QED BY <2>3 DEF OneBinFeedsABelt, AllClosed
<1> QED BY <1>2, <1>3, <1>4

(* OneBinFeedsABelt: the feeder never runs without a belt commanded and,   *)
(* outside Manual, the active bin's gate, the only one open.               *)
THEOREM MaterialHasAPath == Spec => []OneBinFeedsABelt
  BY OneGate, LineInvariant, PTL

-----------------------------------------------------------------------------
(* Commands against inputs.                                                *)

(* The rows of the trip tables, and what an untripped table rules out.     *)
LEMMA TripRows ==
  ASSUME NEW v, NEW m
  PROVE  /\ DOMAIN StartingTrips(v) = 1 .. 10
         /\ DOMAIN RunningTrips(v) = 1 .. 10
         /\ DOMAIN BatchTrips(v) = 1 .. 12
         /\ DOMAIN ManualTrips(v, m) = 1 .. 11
<1>1. DOMAIN StartingTrips(v) = 1 .. 10
  BY DEF StartingTrips
<1>2. DOMAIN RunningTrips(v) = 1 .. 10
  BY DEF RunningTrips
<1>3. DOMAIN BatchTrips(v) = 1 .. 12
  BY DEF BatchTrips
<1>4. DOMAIN ManualTrips(v, m) = 1 .. 11
  BY DEF ManualTrips
<1> QED BY <1>1, <1>2, <1>3, <1>4

MayFeed(v) == ~HighHigh(v) /\ ~v.in.plugged /\ ~v.in.weight_failed

(* With no starting trip the inputs let the feeder run.                    *)
LEMMA StartingUntripped ==
  ASSUME NEW v, Untripped(StartingTrips(v))
  PROVE  MayFeed(v)
<1> DEFINE T == StartingTrips(v)
<1>1. T[1][1] <=> HighHigh(v)
  BY DEF StartingTrips
<1>2. T[5][1] <=> v.in.plugged
  BY DEF StartingTrips
<1>3. T[6][1] <=> v.in.weight_failed
  BY DEF StartingTrips
<1>4. ~T[1][1] /\ ~T[5][1] /\ ~T[6][1]
  BY TripRows DEF Untripped
<1> QED BY <1>1, <1>2, <1>3, <1>4, Zenon DEF MayFeed

(* With no running trip the inputs let the feeder run.                     *)
LEMMA RunningUntripped ==
  ASSUME NEW v, Untripped(RunningTrips(v))
  PROVE  MayFeed(v)
<1> DEFINE T == RunningTrips(v)
<1>1. T[1][1] <=> HighHigh(v)
  BY DEF RunningTrips
<1>2. T[3][1] <=> v.in.plugged
  BY DEF RunningTrips
<1>3. T[5][1] <=> v.in.weight_failed
  BY DEF RunningTrips
<1>4. ~T[1][1] /\ ~T[3][1] /\ ~T[5][1]
  BY TripRows DEF Untripped
<1> QED BY <1>1, <1>2, <1>3, <1>4, Zenon DEF MayFeed

(* With no batch trip they do, and a belt that proved is still confirmed.  *)
LEMMA BatchUntripped ==
  ASSUME NEW v, Untripped(BatchTrips(v))
  PROVE  MayFeed(v) /\ (cmd.conveyor /\ batch.proven => Confirmed(v.in))
<1> DEFINE T == BatchTrips(v)
<1>1. T[1][1] <=> HighHigh(v)
  BY DEF BatchTrips
<1>2. T[5][1] <=> v.in.plugged
  BY DEF BatchTrips
<1>3. T[7][1] <=> v.in.weight_failed
  BY DEF BatchTrips
<1>4. T[9][1] <=> cmd.conveyor /\ batch.proven /\ ~Confirmed(v.in)
  BY DEF BatchTrips
<1>5. ~T[1][1] /\ ~T[5][1] /\ ~T[7][1] /\ ~T[9][1]
  BY TripRows DEF Untripped
<1> QED BY <1>1, <1>2, <1>3, <1>4, <1>5, Zenon DEF MayFeed

(* With no Manual trip they do while the belt is commanded, and a belt     *)
(* that proved is still confirmed.                                         *)
LEMMA ManualUntripped ==
  ASSUME NEW v, NEW m, Untripped(ManualTrips(v, m))
  PROVE  /\ cmd.conveyor => MayFeed(v)
         /\ cmd.conveyor /\ m.proven => Confirmed(v.in)
<1> DEFINE T == ManualTrips(v, m)
<1>1. T[1][1] <=> (cmd.feeder \/ cmd.conveyor) /\ HighHigh(v)
  BY DEF ManualTrips
<1>2. T[5][1] <=> (cmd.feeder \/ cmd.conveyor) /\ v.in.plugged
  BY DEF ManualTrips
<1>3. T[6][1] <=> (cmd.feeder \/ cmd.conveyor) /\ v.in.weight_failed
  BY DEF ManualTrips
<1>4. T[8][1] <=> cmd.conveyor /\ m.proven /\ ~Confirmed(v.in)
  BY DEF ManualTrips
<1>5. ~T[1][1] /\ ~T[5][1] /\ ~T[6][1] /\ ~T[8][1]
  BY TripRows DEF Untripped
<1> QED BY <1>1, <1>2, <1>3, <1>4, <1>5, Zenon DEF MayFeed

(* What a scan owes the image it read.                                     *)
Heeds(v) ==
  /\ cmd'.feeder => MayFeed(v)
  /\ cmd'.feeder /\ state' = "MANUAL" => ~v.in.hopper_high
  /\ cmd'.feeder /\ state' \in {"MANUAL", "LOADING"} => Confirmed(v.in)
  /\ cmd'.outlet => v.in.downstream_ready

(* Nothing fed and nothing let out heeds anything.                         *)
LEMMA BeltAloneHeeds ==
  ASSUME NEW v, NEW c, cmd' = Off \/ cmd' = [Off EXCEPT !.conveyor = c]
  PROVE  Heeds(v)
<1>1. ~cmd'.feeder /\ ~cmd'.outlet
  <2>1. CASE cmd' = Off
    BY <2>1 DEF Off
  <2>2. CASE cmd' = [Off EXCEPT !.conveyor = c]
    BY <2>2 DEF Off
  <2> QED BY <2>1, <2>2
<1> QED BY <1>1 DEF Heeds

(* A trip commands at most the belt.                                       *)
LEMMA EnterFaultedHeeds ==
  ASSUME NEW v, NEW why, NEW p, EnterFaulted(why, p)
  PROVE  Heeds(v)
<1>1. PICK c : cmd' = [Off EXCEPT !.conveyor = c]
  BY DEF EnterFaulted
<1> QED BY <1>1, BeltAloneHeeds

(* So does a stop.                                                         *)
LEMMA BeginStopHeeds ==
  ASSUME NEW v, BeginStopSequence(v)
  PROVE  Heeds(v)
<1>1. PICK c : cmd' = [Off EXCEPT !.conveyor = c]
  BY DEF BeginStopSequence
<1> QED BY <1>1, BeltAloneHeeds

(* So does a scan in IDLE, which starts no more than the belt.             *)
LEMMA IdleHeeds ==
  ASSUME NEW v, ScanIdle(v)
  PROVE  Heeds(v)
  BY BeltAloneHeeds DEF ScanIdle, IdleOff, BeginStartSequence, RequestBatch

(* STARTING feeds only on inputs that let it.                              *)
LEMMA StartingHeeds ==
  ASSUME NEW v, LineInv, ScanStarting(v)
  PROVE  Heeds(v)
<1>1. state = "STARTING" /\ ~cmd.outlet
  BY InSequence DEF ScanStarting, LineInv, CommandsFitState
<1>2. CASE StartingTrip(v)
  BY <1>2, EnterFaultedHeeds DEF StartingTrip
<1>3. CASE StartingStop(v)
  BY <1>3, BeginStopHeeds DEF StartingStop
<1>4. CASE Untripped(StartingTrips(v)) /\ (ConveyorStep(v) \/ GateStep(v) \/ FeederStep(v))
  <2>1. MayFeed(v)
    BY <1>4, StartingUntripped
  <2>2. CASE EnterFaulted("conveyor failed to prove running", purge)
    BY <2>2, EnterFaultedHeeds
  <2>3. CASE /\ \/ cmd' = cmd
                \/ cmd' = [cmd EXCEPT !.feeder = TRUE]
                \/ cmd' = [cmd EXCEPT !.gate[active_bin] = TRUE]
             /\ state' \in {"STARTING", "RUNNING"}
    <3>1. cmd'.outlet = cmd.outlet
      BY <2>3 DEF LineInv, TypeOK, OutputImage
    <3> QED BY <1>1, <2>1, <2>3, <3>1 DEF Heeds
  <2> QED BY <1>1, <1>4, <2>2, <2>3 DEF ConveyorStep, GateStep, FeederStep
<1> QED BY <1>2, <1>3, <1>4 DEF ScanStarting

(* So does RUNNING, and it opens the outlet onto a ready downstream only.  *)
LEMMA RunningHeeds ==
  ASSUME NEW v, LineInv, ScanRunning(v)
  PROVE  Heeds(v)
<1>1. CASE RunningTrip(v)
  BY <1>1, EnterFaultedHeeds DEF RunningTrip
<1>2. CASE RunningStop(v)
  BY <1>2, BeginStopHeeds DEF RunningStop
<1>3. CASE Untripped(RunningTrips(v)) /\ RunningFeed(v)
  <2>1. MayFeed(v)
    BY <1>3, RunningUntripped
  <2>2. state' = "RUNNING"
    BY <1>3, InSequence DEF ScanRunning, RunningFeed
  <2>3. cmd'.outlet = Discharge(v, TRUE)
    BY <1>3 DEF RunningFeed, LineInv, TypeOK, OutputImage
  <2> QED BY <2>1, <2>2, <2>3 DEF Heeds, Discharge
<1> QED BY <1>1, <1>2, <1>3 DEF ScanRunning

(* STOPPING, FAULTED and ESTOPPED feed nothing and open nothing.           *)
LEMMA QuietHeeds ==
  ASSUME NEW v, LineInv, ScanStopping(v) \/ ScanFaulted(v) \/ ScanEstopped(v)
  PROVE  Heeds(v)
<1>1. CASE ScanStopping(v)
  <2>1. cmd = [Off EXCEPT !.conveyor = cmd.conveyor]
    BY <1>1, InSequence DEF ScanStopping, LineInv, CommandsFitState
  <2>2. CASE StoppingTrip(v)
    BY <2>2, EnterFaultedHeeds DEF StoppingTrip
  <2>3. CASE Purging(v)
    BY <2>1, <2>3, BeltAloneHeeds DEF Purging
  <2>4. CASE Purged(v)
    <3>1. cmd' = [Off EXCEPT !.conveyor = FALSE]
      BY <2>1, <2>4 DEF Purged, Off
    <3> QED BY <3>1, BeltAloneHeeds
  <2> QED BY <1>1, <2>2, <2>3, <2>4 DEF ScanStopping
<1>2. CASE ScanFaulted(v)
  BY <1>2, BeltAloneHeeds DEF ScanFaulted, HoldFaulted, ResetFaulted
<1>3. CASE ScanEstopped(v)
  BY <1>3, BeltAloneHeeds DEF ScanEstopped
<1> QED BY <1>1, <1>2, <1>3

(* MANUAL feeds only below the high switch, onto a confirmed belt.         *)
LEMMA ManualHeeds ==
  ASSUME NEW v, LineInv, ScanManual(v)
  PROVE  Heeds(v)
<1>1. CASE ManualTrip(v)
  BY <1>1, EnterFaultedHeeds DEF ManualTrip
<1>2. CASE Untripped(ManualTrips(v, ManualSupervised(v))) /\ ManualCommands(v)
  <2>1. cmd'.feeder = ManualFeeder(v) /\ cmd'.outlet = ManualOutlet(v)
    BY <1>2 DEF ManualCommands
  <2>2. ASSUME ManualFeeder(v)
        PROVE  MayFeed(v) /\ ~v.in.hopper_high /\ Confirmed(v.in)
    <3>1. ManualAfter(v).proven /\ ~v.in.hopper_high
      BY <2>2 DEF ManualFeeder
    <3>2. ManualSupervised(v).proven
      BY <3>1 DEF ManualAfter, ManualAtRest
    <3>3. cmd.conveyor
      BY <3>2 DEF ManualSupervised, ManualAtRest
    <3> QED BY <1>2, <3>1, <3>2, <3>3, ManualUntripped
  <2>3. ManualOutlet(v) => v.in.downstream_ready
    BY DEF ManualOutlet
  <2> QED BY <2>1, <2>2, <2>3 DEF Heeds
<1> QED BY <1>1, <1>2 DEF ScanManual

(* LOADING feeds only onto a confirmed belt.                               *)
LEMMA LoadingHeeds ==
  ASSUME NEW v, LineInv, ScanLoading(v)
  PROVE  Heeds(v)
<1>1. /\ state = "LOADING" /\ ~cmd.outlet /\ cmd.conveyor
      /\ batch.step # "CONVEYOR" => batch.proven
      /\ cmd.feeder <=> batch.step = "FEED"
  BY InSequence
  DEF ScanLoading, BatchScan, LineInv, CommandsFitState, LoadingHasAPlan, Drawing
<1>2. cmd \in OutputImage
  BY DEF LineInv, TypeOK
<1>3. CASE BatchTrip(v)
  BY <1>3, EnterFaultedHeeds DEF BatchTrip
<1>4. CASE BeginStopSequence(v)
  BY <1>4, BeginStopHeeds
<1>5. CASE /\ Untripped(BatchTrips(v))
           /\ LoadingConveyor(v) \/ LoadingGate(v) \/ LoadingFeed(v) \/ LoadingSettle(v)
  <2>1. MayFeed(v) /\ (batch.proven => Confirmed(v.in))
    BY <1>1, <1>5, BatchUntripped
  <2>2. CASE EnterFaulted("conveyor failed to prove running", purge)
    BY <2>2, EnterFaultedHeeds
  <2>3. CASE batch.step = "CONVEYOR" /\ (cmd' = cmd \/ cmd' = [cmd EXCEPT !.gate[active_bin] = TRUE])
    <3>1. cmd'.feeder = cmd.feeder /\ cmd'.outlet = cmd.outlet
      BY <1>2, <2>3 DEF OutputImage
    <3> QED BY <1>1, <2>3, <3>1 DEF Heeds
  <2>4. CASE LoadingGate(v) \/ LoadingFeed(v) \/ LoadingSettle(v)
    <3>1. batch.proven
      BY <1>1, <2>4 DEF LoadingGate, LoadingFeed, LoadingSettle
    <3>2. cmd'.outlet = cmd.outlet
      <4>1. CASE LoadingGate(v)
        BY <1>2, <4>1 DEF LoadingGate, OutputImage
      <4>2. CASE LoadingFeed(v)
        BY <1>2, <4>2 DEF LoadingFeed, OutputImage
      <4>3. CASE LoadingSettle(v)
        <5>1. \/ cmd' = cmd
              \/ \E b : cmd' = [cmd EXCEPT !.gate[b] = TRUE]
              \/ cmd' = [cmd EXCEPT !.conveyor = FALSE]
          BY <4>3 DEF LoadingSettle
        <5> QED BY <1>2, <5>1 DEF OutputImage
      <4> QED BY <2>4, <4>1, <4>2, <4>3
    <3>3. state' # "MANUAL"
      BY <1>1, <2>4 DEF LoadingGate, LoadingFeed, LoadingSettle, Keep
    <3> QED BY <1>1, <2>1, <3>1, <3>2, <3>3 DEF Heeds
  <2> QED BY <1>5, <2>2, <2>3, <2>4 DEF LoadingConveyor
<1> QED BY <1>3, <1>4, <1>5 DEF ScanLoading, BatchScan

(* The rest of a batch feeds nothing and discharges onto a ready           *)
(* downstream only.                                                        *)
LEMMA EmptyingHeeds ==
  ASSUME NEW v, LineInv, ScanProcessing(v) \/ ScanDischarging(v) \/ ScanCleaning(v)
  PROVE  Heeds(v)
<1>1. CASE BatchTrip(v)
  BY <1>1, EnterFaultedHeeds DEF BatchTrip
<1>2. CASE BeginStopSequence(v)
  BY <1>2, BeginStopHeeds
<1>3. CASE \E why : EnterFaulted(why, purge)
  BY <1>3, EnterFaultedHeeds
<1>4. cmd \in OutputImage /\ ~cmd.feeder
  <2>1. state \in {"PROCESSING", "DISCHARGING", "CLEANING"}
    BY InSequence DEF ScanProcessing, ScanDischarging, ScanCleaning, BatchScan
  <2>2. \/ cmd = Off
        \/ \E o : cmd = [Off EXCEPT !.outlet = o]
        \/ \E o : cmd = [Off EXCEPT !.conveyor = TRUE, !.outlet = o]
    BY <2>1 DEF LineInv, CommandsFitState
  <2>3. CASE cmd = Off
    BY <2>3 DEF Off, LineInv, TypeOK
  <2>4. ASSUME NEW o, cmd = [Off EXCEPT !.outlet = o]
        PROVE  ~cmd.feeder
    BY <2>4 DEF Off
  <2>5. ASSUME NEW o, cmd = [Off EXCEPT !.conveyor = TRUE, !.outlet = o]
        PROVE  ~cmd.feeder
    BY <2>5 DEF Off
  <2> QED BY <2>2, <2>3, <2>4, <2>5 DEF LineInv, TypeOK
<1> DEFINE out == Discharge(v, TRUE)
<1>5. CASE \/ cmd' = [cmd EXCEPT !.outlet = out]
           \/ cmd' = [cmd EXCEPT !.conveyor = TRUE, !.outlet = out]
           \/ cmd' = [cmd EXCEPT !.conveyor = FALSE, !.outlet = FALSE]
  <2>1. cmd'.feeder = cmd.feeder /\ (cmd'.outlet = out \/ cmd'.outlet = FALSE)
    <3> HIDE DEF out
    <3> QED BY <1>4, <1>5 DEF OutputImage
  <2> QED BY <1>4, <2>1 DEF Heeds, Discharge
<1>6. CASE cmd' = cmd /\ cmd = Off
  BY <1>6, BeltAloneHeeds
<1>7. CASE ScanProcessing(v)
  <2>1. cmd = Off
    BY <1>7, InSequence DEF ScanProcessing, BatchScan, LineInv, CommandsFitState
  <2> QED BY <1>1, <1>2, <1>5, <1>6, <1>7, <2>1 DEF ScanProcessing, BatchScan
<1>8. CASE ScanDischarging(v)
  BY <1>1, <1>2, <1>3, <1>5, <1>8 DEF ScanDischarging, BatchScan
<1>9. CASE ScanCleaning(v)
  <2>1. CASE CleaningBelt(v)
    BY <1>3, <1>5, <2>1 DEF CleaningBelt
  <2>2. CASE CleaningOutlet(v)
    <3>1. state = "CLEANING" /\ ~cmd.conveyor
      BY <1>9, <2>2, InSequence DEF ScanCleaning, BatchScan, CleaningOutlet
    <3>2. \/ cmd = Off
          \/ \E o : cmd = [Off EXCEPT !.conveyor = TRUE, !.outlet = o]
      BY <3>1 DEF LineInv, CommandsFitState
    <3>3. cmd = Off
      BY <3>1, <3>2 DEF Off
    <3> QED BY <1>6, <2>2, <3>3 DEF CleaningOutlet
  <2> QED BY <1>1, <1>2, <1>9, <2>1, <2>2 DEF ScanCleaning, BatchScan
<1> QED BY <1>7, <1>8, <1>9

(* A whole scan commands nothing at odds with what it read.                *)
LEMMA ScanOfHeeds ==
  ASSUME LineInv, NEW v \in ViewType, ScanOf(v)
  PROVE  /\ OutputsHeedInputs'
         /\ FedBeltIsConfirmed'
<1>1. /\ in' = v.in /\ held' = v.held
      /\ \/ ScanIdle(v) \/ ScanStarting(v) \/ ScanRunning(v) \/ ScanStopping(v)
         \/ ScanFaulted(v) \/ ScanEstopped(v) \/ ScanManual(v)
         \/ ScanLoading(v) \/ ScanProcessing(v) \/ ScanDischarging(v)
         \/ ScanCleaning(v)
  BY DEF ScanOf
<1>2. Heeds(v)
  BY <1>1, IdleHeeds, StartingHeeds, RunningHeeds, QuietHeeds, ManualHeeds, LoadingHeeds,
     EmptyingHeeds
<1>3. ~v.in.estop_healthy => cmd' = Off
  <2>1. ~v.in.estop_healthy => ScanState(v) = "ESTOPPED"
    BY ScanBegins
  <2> QED BY <1>1, <2>1
       DEF ScanIdle, ScanStarting, ScanRunning, ScanStopping, ScanFaulted, ScanEstopped,
           ScanManual, ScanLoading, ScanProcessing, ScanDischarging, ScanCleaning, BatchScan
<1>4. HighHigh(Latest)' <=> HighHigh(v)
  BY <1>1 DEF HighHigh, HighHighWeight, Latest
<1>5. OutputsHeedInputs'
  BY <1>1, <1>2, <1>3, <1>4 DEF OutputsHeedInputs, Heeds, MayFeed
<1>6. FedBeltIsConfirmed'
  BY <1>1, <1>2 DEF FedBeltIsConfirmed, Heeds, Confirmed
<1> QED BY <1>5, <1>6

(* OutputsHeedInputs and FedBeltIsConfirmed: what a scan leaves commanded  *)
(* is never at odds with the image it read, in any state, by any request.  *)
THEOREM InputsAreHeeded == Spec => [](OutputsHeedInputs /\ FedBeltIsConfirmed)
<1> DEFINE Heeded == OutputsHeedInputs /\ FedBeltIsConfirmed
<1>1. Init => Heeded
  BY DEF Init, OutputsHeedInputs, FedBeltIsConfirmed, Off
<1>2. LineInv /\ Heeded /\ [Next]_vars => Heeded'
  <2> SUFFICES ASSUME LineInv, Heeded, [Next]_vars PROVE Heeded'
    OBVIOUS
  <2>1. CASE Scan
    BY <2>1, ScanOfHeeds, ViewsType DEF Scan, LineInv
  <2>2. CASE UNCHANGED <<in, cmd, held, state>>
    BY <2>2 DEF OutputsHeedInputs, FedBeltIsConfirmed, HighHigh, HighHighWeight, Latest, Confirmed
  <2> QED BY <2>1, <2>2, OperatorKeeps DEF Next, vars
<1> QED BY <1>1, <1>2, LineInvariant, PTL DEF Spec

-----------------------------------------------------------------------------
(* Action properties.                                                      *)

(* ModeChangesAtRest: the mode changes only from rest, everything off.     *)
THEOREM ModeChangesOnlyAtRest == Spec => ModeChangesAtRest
<1>1. ASSUME LineInv, [Next]_vars, mode' # mode
      PROVE  cmd = Off /\ state \in {"IDLE", "MANUAL"} /\ in'.estop_healthy
  <2>1. Scan
    BY <1>1, OperatorKeeps DEF Next, vars
  <2>2. PICK v \in Views : mode' = ScanMode(v) /\ in' = v.in
    BY <2>1 DEF Scan, ScanOf
  <2> QED BY <1>1, <2>2, ScanBegins
<1> QED BY <1>1, LineInvariant, PTL DEF Spec, ModeChangesAtRest

(* What it is for no cause to stand.                                       *)
LEMMA CausesUntripped ==
  ASSUME NEW v
  PROVE  Untripped(StandingCauses(v)) <=>
           /\ ~HighHigh(v) /\ ~v.in.conveyor_faulted /\ ~v.in.feeder_faulted
           /\ ~v.in.plugged /\ ~v.in.weight_failed
<1> DEFINE T == StandingCauses(v)
<1>1. T[1][1] <=> HighHigh(v)
  BY DEF StandingCauses
<1>2. T[2][1] <=> v.in.conveyor_faulted
  BY DEF StandingCauses
<1>3. T[3][1] <=> v.in.feeder_faulted
  BY DEF StandingCauses
<1>4. T[4][1] <=> v.in.plugged
  BY DEF StandingCauses
<1>5. T[5][1] <=> v.in.weight_failed
  BY DEF StandingCauses
<1>6. DOMAIN T = 1 .. 5
  BY DEF StandingCauses
<1> HIDE DEF T
<1>7. (\A k \in DOMAIN T : ~T[k][1]) <=>
        ~T[1][1] /\ ~T[2][1] /\ ~T[3][1] /\ ~T[4][1] /\ ~T[5][1]
  BY <1>6
<1>8. Untripped(T) <=> \A k \in DOMAIN T : ~T[k][1]
  BY DEF Untripped
<1> QED BY <1>1, <1>2, <1>3, <1>4, <1>5, <1>7, <1>8, Zenon DEF T

(* A scan leaves the image and the delays it judged the causes by.         *)
LEMMA CausesAsRead ==
  ASSUME NEW v \in ViewType, in' = v.in, held' = v.held,
         Untripped(StandingCauses(v))
  PROVE  Untripped(StandingCauses(Latest'))
<1>1. HighHigh(Latest') <=> HighHigh(v)
  BY DEF HighHigh, HighHighWeight, Latest
<1>2. Latest'.in = v.in
  BY DEF Latest
<1> QED BY <1>1, <1>2, CausesUntripped

(* ResetNeverSkipsACause: a tripped line comes back only by a reset that   *)
(* finds the E-stop healthy and no cause standing, and comes back off.     *)
THEOREM OnlyAResetLeavesATrip == Spec => ResetNeverSkipsACause
<1>1. ASSUME LineInv, [Next]_vars, state' \notin Tripped /\ state \in Tripped
      PROVE  /\ "reset" \in req
             /\ in'.estop_healthy
             /\ Untripped(StandingCauses(Latest'))
             /\ cmd' = Off
  <2>1. Scan
    BY <1>1, OperatorKeeps DEF Next, vars
  <2>2. PICK v \in Views :
          /\ in' = v.in /\ held' = v.held
          /\ \/ ScanIdle(v) \/ ScanStarting(v) \/ ScanRunning(v) \/ ScanStopping(v)
             \/ ScanFaulted(v) \/ ScanEstopped(v) \/ ScanManual(v)
             \/ ScanLoading(v) \/ ScanProcessing(v) \/ ScanDischarging(v)
             \/ ScanCleaning(v)
    BY <2>1 DEF Scan, ScanOf
  <2>3. ScanState(v) \in Tripped /\ (ScanState(v) = "FAULTED" => v.in.estop_healthy)
    BY <1>1, ScanBegins DEF Tripped
  <2>4. ScanFaulted(v) \/ ScanEstopped(v)
    BY <2>2, <2>3
    DEF Tripped, ScanIdle, ScanStarting, ScanRunning, ScanStopping,
        ScanManual, ScanLoading, ScanProcessing, ScanDischarging, ScanCleaning, BatchScan
  <2>5. "reset" \in req /\ v.in.estop_healthy /\ Untripped(StandingCauses(v)) /\ cmd' = Off
    <3>1. CASE ScanFaulted(v)
      <4>1. ~HoldFaulted(v)
        BY <1>1, <3>1, InSequence DEF ScanFaulted, HoldFaulted, Tripped
      <4>2. ResetFaulted(v) /\ ScanState(v) = "FAULTED"
        BY <3>1, <4>1 DEF ScanFaulted
      <4> QED BY <2>3, <4>2 DEF ResetFaulted, ResetRefusal
    <3>2. CASE ScanEstopped(v)
      <4>1. ~HoldEstopped(v)
        BY <1>1 DEF HoldEstopped, Tripped
      <4>2. ResetEstopped(v) /\ cmd' = Off
        BY <3>2, <4>1 DEF ScanEstopped
      <4>3. state' # "FAULTED"
        BY <1>1 DEF Tripped
      <4> QED BY <4>2, <4>3 DEF ResetEstopped
    <3> QED BY <2>4, <3>1, <3>2
  <2>6. v \in ViewType
    BY <1>1, ViewsType DEF LineInv
  <2> QED BY <2>2, <2>5, <2>6, CausesAsRead
<1> QED BY <1>1, LineInvariant, PTL DEF Spec, ResetNeverSkipsACause

-----------------------------------------------------------------------------
(* Counts and answers.                                                     *)

(* Every handler but the end of a batch leaves the count alone.            *)
SameCount == batch'.completed = batch.completed

LEMMA BatchIsRecord == ASSUME LineInv PROVE batch \in BatchRecord
  BY DEF LineInv, TypeOK

(* IDLE, MANUAL and the start, run and stop of Auto count no batch.        *)
LEMMA AutoCountsNone ==
  ASSUME NEW v, LineInv,
         \/ ScanIdle(v) \/ ScanStarting(v) \/ ScanRunning(v) \/ ScanStopping(v)
         \/ ScanManual(v)
  PROVE  SameCount
<1>1. \/ batch' = batch
      \/ \E s : batch' = [batch EXCEPT !.step = s]
      \/ RequestBatch(v)
  BY DEF ScanIdle, IdleOff, BeginStartSequence, ScanStarting, ScanRunning, ScanStopping,
         ScanManual
<1>2. ASSUME RequestBatch(v) PROVE SameCount
  BY <1>2, BatchIsRecord DEF RequestBatch, BatchRecord, SameCount
<1>3. ASSUME NEW s, batch' = [batch EXCEPT !.step = s] PROVE SameCount
  BY <1>3, BatchIsRecord DEF BatchRecord, SameCount
<1> QED BY <1>1, <1>2, <1>3 DEF SameCount

(* Nor does a trip, an E-stop or the reset of one.                         *)
LEMMA TripCountsNone ==
  ASSUME NEW v, LineInv, ScanFaulted(v) \/ ScanEstopped(v)
  PROVE  SameCount
<1>1. \/ batch' = batch
      \/ batch' = [batch EXCEPT !.timed_out = FALSE]
      \/ batch' = [batch EXCEPT !.timed_out = FALSE, !.step = None]
      \/ batch' = [batch EXCEPT !.step = None, !.timed_out = FALSE]
  BY DEF ScanFaulted, HoldFaulted, ResetFaulted, ScanEstopped, HoldEstopped, ResetEstopped
<1> QED BY <1>1, BatchIsRecord DEF BatchRecord, SameCount

(* Nor do loading, holding and discharging.                                *)
LEMMA UnfinishedCountsNone ==
  ASSUME NEW v, LineInv, ScanLoading(v) \/ ScanProcessing(v) \/ ScanDischarging(v)
  PROVE  SameCount
<1>1. CASE batch' = batch
  BY <1>1 DEF SameCount
<1>2. ASSUME LoadingConveyor(v) PROVE SameCount
  BY <1>2, BatchIsRecord DEF LoadingConveyor, BatchRecord, SameCount
<1>3. ASSUME LoadingGate(v) PROVE SameCount
  BY <1>3, BatchIsRecord DEF LoadingGate, BatchRecord, SameCount
<1>4. ASSUME LoadingFeed(v) PROVE SameCount
  BY <1>4, BatchIsRecord DEF LoadingFeed, BatchRecord, SameCount
<1>5. ASSUME LoadingSettle(v) PROVE SameCount
  BY <1>5, BatchIsRecord DEF LoadingSettle, BatchRecord, SameCount
<1>6. CASE ScanLoading(v)
  BY <1>1, <1>2, <1>3, <1>4, <1>5, <1>6 DEF ScanLoading, BatchScan
<1>7. CASE ScanProcessing(v)
  BY <1>1, <1>7, BatchIsRecord DEF ScanProcessing, BatchScan, BatchRecord, SameCount
<1>8. CASE ScanDischarging(v)
  BY <1>1, <1>8, BatchIsRecord DEF ScanDischarging, BatchScan, BatchRecord, SameCount
<1> QED BY <1>6, <1>7, <1>8

(* A cleanout counts the batch when it ends, and only then.                *)
LEMMA CleaningCountsOne ==
  ASSUME NEW v, LineInv, ScanCleaning(v), ~SameCount
  PROVE  /\ batch'.completed = batch.completed + 1
         /\ mode = "BATCH" /\ state' = "IDLE"
         /\ cmd = Off /\ cmd' = Off
         /\ v.in.outlet_closed
<1>1. CleaningOutlet(v) /\ batch' # batch
  <2>1. ASSUME CleaningBelt(v) PROVE SameCount
    BY <2>1, BatchIsRecord DEF CleaningBelt, BatchRecord, SameCount
  <2> QED BY <2>1 DEF ScanCleaning, BatchScan, SameCount
<1>2. state = "CLEANING" /\ mode = "BATCH" /\ cmd = Off
  <2>1. state = "CLEANING"
    BY InSequence DEF ScanCleaning, BatchScan
  <2>2. cmd = Off \/ \E o : cmd = [Off EXCEPT !.conveyor = TRUE, !.outlet = o]
    BY <2>1 DEF LineInv, CommandsFitState
  <2>3. cmd = Off
    BY <1>1, <2>2 DEF CleaningOutlet, Off
  <2> QED BY <2>1, <2>3 DEF LineInv, ModeFitsState, BatchStates
<1>3. v.in.outlet_closed /\ cmd' = cmd /\ EnterRest(v, << >>)
      /\ batch' = [batch EXCEPT !.completed = @ + 1, !.step = None]
  BY <1>1 DEF CleaningOutlet
<1>4. batch'.completed = batch.completed + 1
  BY <1>3, BatchIsRecord DEF BatchRecord
<1> QED BY <1>2, <1>3, <1>4 DEF EnterRest, RestState

(* BatchCountedAtRest: a batch is counted once, with everything off and    *)
(* the outlet proven closed.                                               *)
THEOREM BatchesCountedAtRest == Spec => BatchCountedAtRest
<1>1. ASSUME LineInv, [Next]_vars, ~SameCount
      PROVE  /\ batch'.completed = batch.completed + 1
             /\ mode = "BATCH" /\ state' = "IDLE"
             /\ cmd = Off /\ cmd' = Off
             /\ in'.outlet_closed
  <2>1. Scan
    BY <1>1, OperatorKeeps DEF Next, vars, SameCount
  <2>2. PICK v \in Views :
          /\ in' = v.in
          /\ \/ ScanIdle(v) \/ ScanStarting(v) \/ ScanRunning(v) \/ ScanStopping(v)
             \/ ScanFaulted(v) \/ ScanEstopped(v) \/ ScanManual(v)
             \/ ScanLoading(v) \/ ScanProcessing(v) \/ ScanDischarging(v)
             \/ ScanCleaning(v)
    BY <2>1 DEF Scan, ScanOf
  <2>3. ScanCleaning(v)
    BY <1>1, <2>2, AutoCountsNone, TripCountsNone, UnfinishedCountsNone
  <2> QED BY <1>1, <2>2, <2>3, CleaningCountsOne
<1>2. LineInv /\ [Next]_vars =>
        (batch'.completed # batch.completed =>
           /\ batch'.completed = batch.completed + 1
           /\ mode = "BATCH" /\ state' = "IDLE"
           /\ cmd = Off /\ cmd' = Off
           /\ in'.outlet_closed)
  BY <1>1 DEF SameCount
<1> QED BY <1>2, LineInvariant, PTL DEF Spec, BatchCountedAtRest

-----------------------------------------------------------------------------
(* FedBeltIsConfirmed: no scan of Manual or of a loading batch leaves the  *)
(* feeder commanded onto a belt that it read as not confirmed.             *)
THEOREM FedBeltsAreConfirmed == Spec => []FedBeltIsConfirmed
<1>1. OutputsHeedInputs /\ FedBeltIsConfirmed => FedBeltIsConfirmed
  OBVIOUS
<1> QED BY <1>1, InputsAreHeeded, PTL

-----------------------------------------------------------------------------
(* Answers.  The last report of a scan is the one left standing.           *)
LEMMA LastStands ==
  ASSUME NEW T, NEW e \in Seq(T), NEW x \in T, NEW other
  PROVE  Standing(e \o <<x>>, other) = x
<1>1. e \o <<x>> # << >> /\ Len(e \o <<x>>) = Len(e) + 1 /\ (e \o <<x>>)[Len(e) + 1] = x
  OBVIOUS
<1> QED BY <1>1 DEF Standing

LEMMA ReportsAreOf ==
  ASSUME NEW T, NEW made \in BOOLEAN, NEW x \in T
  PROVE  ReportIf(made, x) \in Seq(T)
BY DEF ReportIf

(* The handler's own report comes last.                                    *)
LEMMA OwnStands ==
  ASSUME NEW v, NEW x, Report(v, <<x>>) \/ ReportAtRest(v, <<x>>)
  PROVE  start_inhibit' = x
<1> DEFINE s == ScanState(v)
           m == ScanMode(v)
           T == {x, {}, ModeRefusal(v), DeviceRefusal(s, m), StartRefusal(v, s, m)}
<1>1. EarlyReports(v) \in Seq(T)
  <2> DEFINE a == ReportIf(mode_request # None, ModeRefusal(v))
             b == ReportIf(s # "MANUAL" /\ req \cap DeviceStarts # {}, DeviceRefusal(s, m))
             c == ReportIf("start" \in req /\ s \notin {"IDLE", "MANUAL"}, StartRefusal(v, s, m))
             d == ReportIf("reset" \in req /\ s \notin {"FAULTED", "ESTOPPED"}, {})
  <2>1. a \in Seq(T) /\ b \in Seq(T) /\ c \in Seq(T) /\ d \in Seq(T)
    BY ReportsAreOf
  <2>2. EarlyReports(v) = a \o b \o c \o d
    BY DEF EarlyReports
  <2> HIDE DEF a, b, c, d, T
  <2> QED BY <2>1, <2>2
<1>2. x \in T
  OBVIOUS
<1> HIDE DEF T
<1>3. \A other : Standing(EarlyReports(v) \o <<x>>, other) = x
  BY <1>1, <1>2, LastStands
<1> QED BY <1>3, Zenon DEF Report, ReportAtRest

(* Away from rest a handler that reports nothing leaves the Start's        *)
(* outcome standing, or that of a Reset that finds nothing tripped.        *)
LEMMA EarlyStands ==
  ASSUME NEW v, "start" \in req, ScanState(v) \notin {"IDLE", "MANUAL"},
         Report(v, << >>) \/ ReportAtRest(v, << >>)
  PROVE  start_inhibit' =
           IF "reset" \in req /\ ScanState(v) \notin {"FAULTED", "ESTOPPED"}
           THEN {} ELSE StartRefusal(v, ScanState(v), ScanMode(v))
<1> DEFINE s == ScanState(v)
           m == ScanMode(v)
           r == StartRefusal(v, s, m)
           a == ReportIf(mode_request # None, ModeRefusal(v))
           b == ReportIf(s # "MANUAL" /\ req \cap DeviceStarts # {}, DeviceRefusal(s, m))
           d == ReportIf("reset" \in req /\ s \notin {"FAULTED", "ESTOPPED"}, {})
           T == {r, {}, ModeRefusal(v), DeviceRefusal(s, m)}
<1>1. a \in Seq(T) /\ b \in Seq(T) /\ r \in T /\ {} \in T
  BY ReportsAreOf
<1>2. EarlyReports(v) = a \o b \o <<r>> \o d
  BY DEF EarlyReports, ReportIf
<1>3. d = IF "reset" \in req /\ s \notin {"FAULTED", "ESTOPPED"} THEN << {} >> ELSE << >>
  BY DEF ReportIf
<1> HIDE DEF a, b, d, r, T
<1>4. a \o b \in Seq(T) /\ a \o b \o <<r>> \in Seq(T)
  BY <1>1
<1>5. \A other : Standing(a \o b \o <<r>>, other) = r
  <2>1. PICK e \in Seq(T) : e = a \o b
    BY <1>4
  <2>2. ASSUME NEW other
        PROVE  Standing(e \o <<r>>, other) = r
    BY <1>1, LastStands
  <2> QED BY <2>1, <2>2
<1>6. \A other : Standing(a \o b \o <<r>> \o << {} >>, other) = {}
  <2>1. PICK e \in Seq(T) : e = a \o b \o <<r>>
    BY <1>4
  <2>2. PICK none \in T : none = {}
    BY <1>1
  <2>3. ASSUME NEW other
        PROVE  Standing(e \o <<none>>, other) = none
    BY LastStands
  <2> QED BY <2>1, <2>2, <2>3
<1>7. EarlyReports(v) \in Seq(T) /\ EarlyReports(v) \o << >> = EarlyReports(v)
  BY <1>1, <1>2, <1>3, <1>4
<1>8. start_inhibit' = Standing(EarlyReports(v), start_inhibit)
        \/ start_inhibit' = Standing(EarlyReports(v), {})
  BY <1>7, Zenon DEF Report, ReportAtRest
<1>9. CASE "reset" \in req /\ s \notin {"FAULTED", "ESTOPPED"}
  BY <1>2, <1>3, <1>6, <1>8, <1>9
<1>10. CASE ~("reset" \in req /\ s \notin {"FAULTED", "ESTOPPED"})
  <2>1. EarlyReports(v) = a \o b \o <<r>>
    BY <1>2, <1>3, <1>4, <1>10
  <2> QED BY <1>5, <1>8, <1>10, <2>1 DEF r
<1> QED BY <1>9, <1>10

(* What StartIsAnswered asks of a scan on the view v.                      *)
Answered(v) ==
  LET s       == ScanState(v)
      refused == StartRefusal(v, s, ScanMode(v))
  IN  \/ refused = {} /\ state' \in {"STARTING", "LOADING"} /\ start_inhibit' = {}
      \/ /\ refused # {} /\ refused \subseteq start_inhibit'
         /\ s = "IDLE" => state' = "IDLE"
      \/ s = "MANUAL" /\ state' = "FAULTED" /\ start_inhibit' = {"LINE_FAULTED"}
      \/ /\ "reset" \in req /\ s \notin {"IDLE", "MANUAL"}
         /\ start_inhibit' = ResetRefusal(v, s)

(* In IDLE a Start is begun or refused.                                    *)
LEMMA IdleAnswers ==
  ASSUME NEW v, "start" \in req, ScanIdle(v)
  PROVE  Answered(v)
<1>1. ScanState(v) = "IDLE"
  BY DEF ScanIdle
<1> DEFINE r == StartRefusal(v, "IDLE", ScanMode(v))
<1>2. CASE IdleOff(v)
  <2>1. r # {} /\ Report(v, <<r>>) /\ state' = "IDLE"
    BY <1>2 DEF IdleOff, ReportIf
  <2> HIDE DEF r
  <2>2. start_inhibit' = r
    BY <2>1, OwnStands
  <2> QED BY <1>1, <2>1, <2>2 DEF Answered, r
<1>3. CASE BeginStartSequence(v) \/ RequestBatch(v)
  <2>1. r = {}
    BY <1>3 DEF BeginStartSequence, RequestBatch, StartRefusal
  <2>2. state' \in {"STARTING", "LOADING"} /\ Report(v, << {} >>)
    BY <1>3 DEF BeginStartSequence, RequestBatch
  <2>3. start_inhibit' = {}
    BY <2>2, OwnStands
  <2> QED BY <1>1, <2>1, <2>2, <2>3 DEF Answered
<1> QED BY <1>2, <1>3 DEF ScanIdle

(* In Manual it is refused, by a line that trips in this scan too.         *)
LEMMA ManualAnswers ==
  ASSUME NEW v, "start" \in req, ScanManual(v)
  PROVE  Answered(v)
<1>1. ScanState(v) = "MANUAL"
  BY DEF ScanManual
<1>2. req \cap ({"start"} \cup DeviceStarts) # {}
  OBVIOUS
<1>3. CASE ManualTrip(v)
  <2>1. Report(v, <<{"LINE_FAULTED"}>>) /\ state' = "FAULTED"
    BY <1>2, <1>3 DEF ManualTrip, ReportIf, EnterFaulted
  <2>2. start_inhibit' = {"LINE_FAULTED"}
    BY <2>1, OwnStands
  <2> QED BY <1>1, <2>1, <2>2 DEF Answered
<1>4. CASE ManualCommands(v)
  <2>1. Report(v, <<ManualRefusals(v)>>)
    BY <1>2, <1>4 DEF ManualCommands, ReportIf
  <2>2. start_inhibit' = ManualRefusals(v)
    BY <2>1, OwnStands
  <2>3. {"WRONG_MODE"} \subseteq ManualRefusals(v)
    BY DEF ManualRefusals
  <2>4. StartRefusal(v, "MANUAL", ScanMode(v)) = {"WRONG_MODE"}
    BY DEF StartRefusal
  <2> QED BY <1>1, <2>2, <2>3, <2>4 DEF Answered
<1> QED BY <1>3, <1>4 DEF ScanManual

(* In a sequence the early reports are the only ones.                      *)
LEMMA SequencesAnswer ==
  ASSUME NEW v, "start" \in req,
         \/ ScanStarting(v) \/ ScanRunning(v) \/ ScanStopping(v)
         \/ ScanLoading(v) \/ ScanProcessing(v) \/ ScanDischarging(v)
         \/ ScanCleaning(v)
  PROVE  Answered(v)
<1>1. ScanState(v) \in {"STARTING", "RUNNING", "STOPPING", "LOADING", "PROCESSING",
                        "DISCHARGING", "CLEANING"}
  BY DEF ScanStarting, ScanRunning, ScanStopping, ScanLoading, ScanProcessing,
         ScanDischarging, ScanCleaning, BatchScan
<1>2. Report(v, << >>) \/ ReportAtRest(v, << >>)
  <2>1. CASE ScanStarting(v) \/ ScanRunning(v) \/ ScanStopping(v)
    BY <2>1 DEF ScanStarting, ScanRunning, ScanStopping, StoppingTrip, Purging, Purged
  <2>2. CASE ScanLoading(v) \/ ScanProcessing(v) \/ ScanDischarging(v)
    BY <2>2 DEF ScanLoading, ScanProcessing, ScanDischarging, BatchScan
  <2>3. CASE ScanCleaning(v)
    BY <2>3 DEF ScanCleaning, BatchScan, CleaningBelt, CleaningOutlet, EnterRest
  <2> QED BY <2>1, <2>2, <2>3
<1>3. StartRefusal(v, ScanState(v), ScanMode(v)) = {"LINE_NOT_IDLE"}
  BY <1>1 DEF StartRefusal
<1>4. ResetRefusal(v, ScanState(v)) = {}
  BY <1>1 DEF ResetRefusal
<1>5. start_inhibit' = IF "reset" \in req THEN {} ELSE {"LINE_NOT_IDLE"}
  BY <1>1, <1>2, <1>3, EarlyStands
<1> QED BY <1>1, <1>3, <1>4, <1>5 DEF Answered

(* Tripped, a Reset reports after it, and only a Reset does.               *)
LEMMA TripsAnswer ==
  ASSUME NEW v, "start" \in req, ScanFaulted(v) \/ ScanEstopped(v)
  PROVE  Answered(v)
<1>1. ScanState(v) \in {"FAULTED", "ESTOPPED"}
  BY DEF ScanFaulted, ScanEstopped
<1>2. StartRefusal(v, ScanState(v), ScanMode(v)) # {}
  BY <1>1 DEF StartRefusal
<1>3. CASE "reset" \notin req
  <2>1. Report(v, << >>)
    BY <1>3 DEF ScanFaulted, HoldFaulted, ResetFaulted, ScanEstopped, HoldEstopped,
                ResetEstopped, ReportIf
  <2>2. start_inhibit' = StartRefusal(v, ScanState(v), ScanMode(v))
    BY <1>1, <1>3, <2>1, EarlyStands
  <2> QED BY <1>1, <1>2, <2>2 DEF Answered
<1>4. CASE "reset" \in req
  <2> DEFINE refused == ResetRefusal(v, ScanState(v))
  <2>1. Report(v, <<refused>>) \/ ReportAtRest(v, <<refused>>)
    <3>1. CASE ScanFaulted(v)
      BY <1>4, <3>1 DEF ScanFaulted, HoldFaulted, ResetFaulted, EnterRest, ReportIf
    <3>2. CASE ScanEstopped(v)
      <4>1. v.in.estop_healthy => refused = {}
        BY <3>2 DEF ScanEstopped, ResetRefusal
      <4> QED BY <1>4, <3>2, <4>1 DEF ScanEstopped, HoldEstopped, ResetEstopped, EnterRest,
                                      ReportIf
    <3> QED BY <3>1, <3>2
  <2> HIDE DEF refused
  <2>2. start_inhibit' = refused
    BY <2>1, OwnStands
  <2> QED BY <1>1, <1>4, <2>2 DEF Answered, refused
<1> QED BY <1>3, <1>4

(* StartIsAnswered: whatever is pressed or selected with it, a Start is    *)
(* begun exactly when nothing refuses it, and otherwise its reasons stand, *)
(* unless Manual trips in the scan or a Reset reports after it.            *)
THEOREM EveryStartIsAnswered == Spec => StartIsAnswered
<1>1. ASSUME [Next]_vars, "start" \in req, req' = {}
      PROVE  Answered(View(in'))
  <2>1. Scan
    <3>1. ~Operator
      BY <1>1 DEF Operator, Press, SelectMode, SelectSource, SetRecipe, SetHold, Set
    <3> QED BY <1>1, <3>1 DEF Next, vars
  <2>2. PICK v \in Views : ScanOf(v)
    BY <2>1 DEF Scan
  <2>3. v = View(in')
    <3>1. PICK i \in Inputs(cmd) : v = View(i)
      BY DEF Views
    <3>2. in' = i
      BY <2>2, <3>1 DEF ScanOf, View
    <3> QED BY <3>1, <3>2
  <2>4. \/ ScanIdle(v) \/ ScanStarting(v) \/ ScanRunning(v) \/ ScanStopping(v)
        \/ ScanFaulted(v) \/ ScanEstopped(v) \/ ScanManual(v)
        \/ ScanLoading(v) \/ ScanProcessing(v) \/ ScanDischarging(v)
        \/ ScanCleaning(v)
    BY <2>2 DEF ScanOf
  <2>5. Answered(v)
    BY <1>1, <2>4, IdleAnswers, ManualAnswers, SequencesAnswer, TripsAnswer
  <2> QED BY <2>3, <2>5
<1>2. [Next]_vars =>
        LET v       == View(in')
            s       == ScanState(v)
            refused == StartRefusal(v, s, ScanMode(v))
        IN  "start" \in req /\ req' = {} =>
              \/ refused = {} /\ state' \in {"STARTING", "LOADING"} /\ start_inhibit' = {}
              \/ /\ refused # {} /\ refused \subseteq start_inhibit'
                 /\ s = "IDLE" => state' = "IDLE"
              \/ s = "MANUAL" /\ state' = "FAULTED" /\ start_inhibit' = {"LINE_FAULTED"}
              \/ /\ "reset" \in req /\ s \notin {"IDLE", "MANUAL"}
                 /\ start_inhibit' = ResetRefusal(v, s)
  BY <1>1 DEF Answered
<1> QED BY <1>2, PTL DEF Spec, StartIsAnswered

-----------------------------------------------------------------------------
(* What a scan does to the belt's users, for the composition with a plant. *)

(* RUNNING is entered by the start sequence, STARTING by a Start at rest,  *)
(* STOPPING by the stop sequence.                                          *)
LEMMA SequenceEntered ==
  ASSUME LineInv, NEW v, ScanOf(v)
  PROVE  /\ state' = "STARTING" => ScanStarting(v) \/ BeginStartSequence(v)
         /\ state' = "RUNNING" => ScanStarting(v) \/ ScanRunning(v)
         /\ state' = "STOPPING" => ScanStopping(v) \/ BeginStopSequence(v)
<1>0. /\ \A why, p : EnterFaulted(why, p) => state' = "FAULTED"
      /\ BeginStopSequence(v) => state' = "STOPPING"
      /\ BatchTrip(v) => state' = "FAULTED"
  BY DEF EnterFaulted, BeginStopSequence, BatchTrip
<1>1. CASE ScanIdle(v)
  BY <1>1 DEF ScanIdle, IdleOff, BeginStartSequence, RequestBatch
<1>2. CASE ScanStarting(v)
  BY <1>2, InSequence
     DEF ScanStarting, StartingTrip, StartingStop, ConveyorStep, GateStep, FeederStep,
         EnterFaulted
<1>3. CASE ScanRunning(v)
  <2>1. state = "RUNNING"
    BY <1>3, InSequence DEF ScanRunning
  <2> QED BY <1>0, <1>3, <2>1 DEF ScanRunning, RunningTrip, RunningStop, RunningFeed
<1>4. CASE ScanStopping(v)
  BY <1>4, InSequence DEF ScanStopping, StoppingTrip, Purging, Purged, EnterFaulted
<1>5. RestState(mode) \in {"IDLE", "MANUAL"}
  BY DEF RestState
<1>6. CASE ScanFaulted(v)
  BY <1>5, <1>6, InSequence DEF ScanFaulted, HoldFaulted, ResetFaulted, EnterRest
<1>7. CASE ScanEstopped(v)
  BY <1>5, <1>7 DEF ScanEstopped, HoldEstopped, ResetEstopped, EnterRest
<1>8. CASE ScanManual(v)
  BY <1>8 DEF ScanManual, ManualTrip, ManualCommands, EnterFaulted
<1>10. CASE ScanLoading(v)
  <2>1. state = "LOADING"
    BY <1>10, InSequence DEF ScanLoading, BatchScan
  <2>2. LoadingConveyor(v) \/ LoadingGate(v) \/ LoadingFeed(v) \/ LoadingSettle(v)
          => state' \in {state, "FAULTED", "PROCESSING"}
    BY <1>0 DEF LoadingConveyor, LoadingGate, LoadingFeed, LoadingSettle, Keep
  <2> QED BY <1>0, <1>10, <2>1, <2>2 DEF ScanLoading, BatchScan
<1>11. CASE ScanProcessing(v)
  <2>1. state = "PROCESSING"
    BY <1>11, InSequence, Zenon DEF ScanProcessing, BatchScan
  <2> QED BY <1>0, <1>11, <2>1 DEF ScanProcessing, BatchScan
<1>12. CASE ScanDischarging(v)
  <2>1. state = "DISCHARGING"
    BY <1>12, InSequence, Zenon DEF ScanDischarging, BatchScan
  <2> QED BY <1>0, <1>12, <2>1 DEF ScanDischarging, BatchScan, Keep
<1>13. CASE ScanCleaning(v)
  <2>1. state = "CLEANING"
    BY <1>13, InSequence, Zenon DEF ScanCleaning, BatchScan
  <2>2. CleaningBelt(v) \/ CleaningOutlet(v) => state' \in {state, "FAULTED", "IDLE", "MANUAL"}
    BY <1>0, <1>5 DEF CleaningBelt, CleaningOutlet, EnterRest, Keep
  <2> QED BY <1>0, <1>13, <2>1, <2>2 DEF ScanCleaning, BatchScan
<1> QED
  BY <1>1, <1>2, <1>3, <1>4, <1>6, <1>7, <1>8, <1>10, <1>11, <1>12, <1>13 DEF ScanOf

(* The feeder is left commanded, the start sequence apart, only by a scan  *)
(* that read the belt running and moving.                                  *)
LEMMA FeederFollowsTheBelt ==
  ASSUME LineInv, NEW v \in ViewType, ScanOf(v), cmd'.feeder, state # "STARTING"
  PROVE  Confirmed(v.in)
<1>1. LineInv' /\ FedBeltIsConfirmed' /\ in' = v.in
  BY ScanOfKeeps, ScanOfHeeds DEF ScanOf
<1>2. state' \in {"STARTING", "RUNNING", "MANUAL", "LOADING"}
  <2>1. state' \in LineStates
    BY <1>1 DEF LineInv, TypeOK
  <2>2. ASSUME NEW c, NEW o,
               \/ cmd' = Off
               \/ cmd' = [Off EXCEPT !.conveyor = c]
               \/ cmd' = [Off EXCEPT !.outlet = o]
               \/ cmd' = [Off EXCEPT !.conveyor = TRUE, !.outlet = o]
        PROVE  FALSE
    <3>1. cmd'.feeder = FALSE
      <4>1. CASE cmd' = Off
        BY <4>1 DEF Off
      <4>2. CASE cmd' = [Off EXCEPT !.conveyor = c]
        BY <4>2 DEF Off
      <4>3. CASE cmd' = [Off EXCEPT !.outlet = o]
        BY <4>3 DEF Off
      <4>4. CASE cmd' = [Off EXCEPT !.conveyor = TRUE, !.outlet = o]
        BY <4>4 DEF Off
      <4> QED BY <2>2, <4>1, <4>2, <4>3, <4>4
    <3> QED BY <3>1
  <2>3. state' \in LineStates \ {"STARTING", "RUNNING", "MANUAL", "LOADING"}
          => \/ cmd' = Off
             \/ cmd' = [Off EXCEPT !.conveyor = purge'.clearing]
             \/ cmd' = [Off EXCEPT !.conveyor = cmd'.conveyor]
             \/ cmd' = [Off EXCEPT !.outlet = cmd'.outlet]
             \/ \E o \in BOOLEAN : cmd' = [Off EXCEPT !.conveyor = TRUE, !.outlet = o]
    BY <1>1 DEF LineInv, CommandsFitState, LineStates, BatchStates
  <2> QED BY <2>1, <2>2, <2>3
<1>3. CASE state' \in {"MANUAL", "LOADING"}
  BY <1>1, <1>3 DEF FedBeltIsConfirmed, Confirmed
<1>4. ~ScanStarting(v)
  BY InSequence DEF ScanStarting
<1>5. state' # "STARTING"
  <2>1. BeginStartSequence(v) => ~cmd'.feeder
    BY DEF BeginStartSequence, Off
  <2> QED BY <1>4, <2>1, SequenceEntered
<1>6. CASE state' = "RUNNING"
  <2>1. ScanRunning(v)
    BY <1>4, <1>6, SequenceEntered
  <2>2. Untripped(RunningTrips(v))
    BY <1>6, <2>1 DEF ScanRunning, RunningTrip, EnterFaulted
  <2>3. RunningTrips(v)[8][1] <=> ~Confirmed(v.in)
    BY DEF RunningTrips
  <2> QED BY <2>2, <2>3, TripRows DEF Untripped
<1> QED BY <1>2, <1>3, <1>5, <1>6

(* A stop keeps the belt as it was, and goes on only while a belt that has *)
(* proved is still confirmed.                                              *)
LEMMA StopKeepsTheBelt ==
  ASSUME LineInv, NEW v, ScanOf(v), state = "STOPPING", state' \in {"STOPPING", "IDLE"}
  PROVE  /\ cmd.conveyor /\ StopBeltProven(v) => Confirmed(v.in)
         /\ purge'.proven = StopBeltProven(v)
         /\ state' = "STOPPING" => Purging(v)
         /\ state' = "IDLE" => Purged(v)
<1>1. ScanStopping(v)
  <2>1. ScanState(v) \in {"STOPPING", "ESTOPPED"}
    BY ScanBegins
  <2>2. ~ScanEstopped(v)
    <3>1. CASE v.in.estop_healthy
      BY <3>1, ScanBegins DEF ScanEstopped
    <3>2. CASE ~v.in.estop_healthy
      BY <3>2 DEF ScanEstopped, HoldEstopped, ResetEstopped
    <3> QED BY <3>1, <3>2
  <2> QED
    BY <2>1, <2>2 DEF ScanOf, ScanIdle, ScanStarting, ScanRunning, ScanFaulted, ScanManual,
       ScanLoading, ScanProcessing, ScanDischarging, ScanCleaning, BatchScan
<1>2. /\ Untripped(StoppingTrips(v, StopBeltProven(v)))
      /\ Purging(v) \/ Purged(v)
  BY <1>1 DEF ScanStopping, StoppingTrip, EnterFaulted
<1>3. cmd.conveyor /\ StopBeltProven(v) => Confirmed(v.in)
  <2>1. StoppingTrips(v, StopBeltProven(v))[5][1]
          <=> cmd.conveyor /\ StopBeltProven(v) /\ ~Confirmed(v.in)
    BY DEF StoppingTrips
  <2>2. DOMAIN StoppingTrips(v, StopBeltProven(v)) = 1 .. 9
    BY DEF StoppingTrips
  <2>3. ~StoppingTrips(v, StopBeltProven(v))[5][1]
    BY <1>2, <2>2 DEF Untripped
  <2> QED BY <2>1, <2>3, Zenon
<1>4. purge'.proven = StopBeltProven(v)
  BY <1>2 DEF Purging, Purged, LineInv, TypeOK
<1>5. (state' = "STOPPING" => Purging(v)) /\ (state' = "IDLE" => Purged(v))
  BY <1>2 DEF Purging, Purged
<1> QED BY <1>3, <1>4, <1>5

(* The first trip that stands gives the reason.                            *)
LEMMA FirstTripIsTheReason ==
  ASSUME NEW trips, 1 \in DOMAIN trips, trips[1][1], DOMAIN trips \subseteq Nat \ {0},
         NEW why \in Reason(trips)
  PROVE  why = trips[1][2]
<1>1. PICK k \in DOMAIN trips : trips[k] = <<TRUE, why>> /\ \A m \in 1 .. k - 1 : ~trips[m][1]
  BY DEF Reason
<1>2. k = 1
  BY <1>1
<1> QED BY <1>1, <1>2

(* High-high is asked first.                                               *)
HighHighFirst(v, trips) ==
  /\ 1 \in DOMAIN trips /\ DOMAIN trips \subseteq Nat \ {0}
  /\ trips[1][1] <=> HighHigh(v)
  /\ trips[1][2] = "hopper high-high"

LEMMA HighHighRows ==
  ASSUME NEW v, NEW b
  PROVE  /\ HighHighFirst(v, StartingTrips(v))
         /\ HighHighFirst(v, RunningTrips(v))
         /\ HighHighFirst(v, StoppingTrips(v, b))
         /\ HighHighFirst(v, BatchTrips(v))
<1>1. \A d \in {9, 10, 12} : 1 \in 1 .. d /\ 1 .. d \subseteq Nat \ {0}
  OBVIOUS
<1>2. DOMAIN StoppingTrips(v, b) = 1 .. 9
  BY DEF StoppingTrips
<1>3. ASSUME NEW T, NEW d \in {9, 10, 12}, DOMAIN T = 1 .. d
      PROVE  1 \in DOMAIN T /\ DOMAIN T \subseteq Nat \ {0}
  BY <1>1, <1>3, Zenon
<1>4. /\ StartingTrips(v)[1][1] <=> HighHigh(v)
      /\ StartingTrips(v)[1][2] = "hopper high-high"
  BY DEF StartingTrips
<1>5. /\ RunningTrips(v)[1][1] <=> HighHigh(v)
      /\ RunningTrips(v)[1][2] = "hopper high-high"
  BY DEF RunningTrips
<1>6. /\ StoppingTrips(v, b)[1][1] <=> HighHigh(v)
      /\ StoppingTrips(v, b)[1][2] = "hopper high-high"
  BY DEF StoppingTrips
<1>7. /\ BatchTrips(v)[1][1] <=> HighHigh(v)
      /\ BatchTrips(v)[1][2] = "hopper high-high"
  BY DEF BatchTrips
<1> QED BY <1>2, <1>3, <1>4, <1>5, <1>6, <1>7, TripRows DEF HighHighFirst

(* So a high-high scan trips, and leaves no belt clearing.                 *)
LEMMA HighHighTrips ==
  ASSUME NEW v, NEW trips, HighHighFirst(v, trips), HighHigh(v)
  PROVE  /\ ~Untripped(trips)
         /\ \A why \in Reason(trips) : \A p : EnterFaulted(why, p) => ~cmd'.conveyor
<1>1. ~Untripped(trips)
  BY DEF Untripped, HighHighFirst
<1>2. \A why \in Reason(trips) : why = "hopper high-high"
  BY FirstTripIsTheReason DEF HighHighFirst
<1>3. \A p : EnterFaulted("hopper high-high", p) => ~cmd'.conveyor
  BY DEF EnterFaulted, ClearBeltOn, Off
<1> QED BY <1>1, <1>2, <1>3

(* A scan that reads the hopper high-high leaves no belt running, in any   *)
(* state: it trips without clearing, or refuses to start.                  *)
LEMMA HighHighStopsTheBelt ==
  ASSUME LineInv, NEW v, ScanOf(v), HighHigh(v)
  PROVE  ~cmd'.conveyor
<1>1. ~Off.conveyor
  BY DEF Off
<1>2. CASE ScanIdle(v)
  <2>1. AutoInhibits(v) # {}
    BY DEF AutoInhibits, Raised
  <2>2. BatchInhibits(v) # {}
    <3> DEFINE too_large == PlanTotal(setpoint.recipe) > HighPoint
    <3>1. "HOPPER_HIGH_HIGH" \in BatchInhibits(v)
      <4> HIDE DEF too_large
      <4> QED BY DEF BatchInhibits, Raised, too_large
    <3> QED BY <3>1
  <2> QED BY <1>1, <1>2, <2>1, <2>2 DEF ScanIdle, IdleOff, BeginStartSequence, RequestBatch
<1>3. CASE ScanStarting(v)
  BY <1>3, HighHighRows, HighHighTrips DEF ScanStarting, StartingTrip
<1>4. CASE ScanRunning(v)
  BY <1>4, HighHighRows, HighHighTrips DEF ScanRunning, RunningTrip
<1>5. CASE ScanStopping(v)
  BY <1>5, HighHighRows, HighHighTrips DEF ScanStopping, StoppingTrip
<1>6. CASE ScanFaulted(v)
  BY <1>1, <1>6 DEF ScanFaulted, HoldFaulted, ResetFaulted, ClearingGoesOn, Off
<1>7. CASE ScanEstopped(v)
  BY <1>1, <1>7 DEF ScanEstopped
<1>8. CASE ScanManual(v)
  <2>1. PICK T : T = ManualTrips(v, ManualSupervised(v))
    OBVIOUS
  <2>2. ASSUME cmd.conveyor
        PROVE  ~Untripped(T) /\ \A why \in Reason(T) : why = "hopper high-high"
    <3>1. DOMAIN T = 1 .. 11
      BY <2>1, TripRows
    <3>2. T[1][1]
      <4>1. T[1][1] = ((cmd.feeder \/ cmd.conveyor) /\ HighHigh(v))
        BY <2>1 DEF ManualTrips
      <4> QED BY <2>2, <4>1
    <3>3. T[1][2] = "hopper high-high"
      BY <2>1 DEF ManualTrips
    <3>4. 1 \in DOMAIN T /\ DOMAIN T \subseteq Nat \ {0}
      BY <3>1
    <3> QED BY <3>2, <3>3, <3>4, FirstTripIsTheReason DEF Untripped
  <2>3. \A why, p : EnterFaulted(why, p) /\ (why = "hopper high-high" \/ ~cmd.conveyor)
                    => ~cmd'.conveyor
    BY DEF EnterFaulted, ClearBeltOn, Off
  <2>4. ~StartsConveyor(v)
    <3>1. ManualConveyorRefusal(v) # {}
      BY DEF ManualConveyorRefusal, Raised
    <3> QED BY <3>1 DEF StartsConveyor
  <2>5. CASE ManualTrip(v)
    BY <2>1, <2>2, <2>3, <2>5 DEF ManualTrip
  <2>6. CASE Untripped(T) /\ ManualCommands(v)
    <3>1. ~cmd.conveyor
      BY <2>2, <2>6
    <3>2. cmd'.conveyor = ((cmd.conveyor /\ ~Stopping("stop_conveyor")) \/ StartsConveyor(v))
      BY <2>6 DEF ManualCommands
    <3> QED BY <2>4, <3>1, <3>2
  <2> QED BY <1>8, <2>1, <2>5, <2>6 DEF ScanManual
<1>9. CASE ScanLoading(v) \/ ScanProcessing(v) \/ ScanDischarging(v) \/ ScanCleaning(v)
  <2>1. ~Untripped(BatchTrips(v))
    BY HighHighRows, HighHighTrips
  <2>2. BatchTrip(v)
    BY <1>9, <2>1
       DEF ScanLoading, ScanProcessing, ScanDischarging, ScanCleaning, BatchScan
  <2> QED BY <2>2, HighHighRows, HighHighTrips DEF BatchTrip
<1> QED BY <1>2, <1>3, <1>4, <1>5, <1>6, <1>7, <1>8, <1>9 DEF ScanOf

(* The start sequence goes past its first step only over a belt that is    *)
(* confirmed, and no further, nor feeds, once the conveyor's fault is read.*)
LEMMA StartNeedsABelt ==
  ASSUME LineInv, NEW v, ScanOf(v),
         \/ state' = "STARTING" /\ auto'.step \in {"GATE", "FEEDER"}
         \/ state = "STARTING" /\ cmd'.feeder
  PROVE  /\ state = "STARTING"
         /\ auto.step \in {"GATE", "FEEDER"} \/ Confirmed(v.in)
         /\ ~v.in.conveyor_faulted
<1>1. BeginStartSequence(v) => auto'.step = "CONVEYOR"
  BY DEF BeginStartSequence
<1>2. ScanEstopped(v) => ~cmd'.feeder /\ state' # "STARTING"
  BY DEF ScanEstopped, HoldEstopped, ResetEstopped, EnterRest, RestState, Off
<1>3. ScanStarting(v)
  <2>1. CASE state' = "STARTING" /\ auto'.step \in {"GATE", "FEEDER"}
    BY <1>1, <2>1, SequenceEntered
  <2>2. CASE state = "STARTING" /\ cmd'.feeder
    <3>1. ScanState(v) \in {"STARTING", "ESTOPPED"}
      BY <2>2, ScanBegins
    <3> QED
      BY <1>2, <2>2, <3>1 DEF ScanOf, ScanIdle, ScanRunning, ScanStopping, ScanFaulted,
         ScanManual, ScanLoading, ScanProcessing, ScanDischarging, ScanCleaning, BatchScan
  <2> QED BY <2>1, <2>2
<1>4. state = "STARTING"
  BY <1>3, InSequence DEF ScanStarting
<1>5. /\ Untripped(StartingTrips(v))
      /\ ConveyorStep(v) \/ GateStep(v) \/ FeederStep(v)
  <2>1. \A why, p : EnterFaulted(why, p) => state' = "FAULTED" /\ ~cmd'.feeder
    BY DEF EnterFaulted, Off
  <2>2. BeginStopSequence(v) => state' = "STOPPING" /\ ~cmd'.feeder
    BY DEF BeginStopSequence, Off
  <2> QED BY <1>3, <2>1, <2>2 DEF ScanStarting, StartingTrip, StartingStop
<1>6. ~v.in.conveyor_faulted
  <2>1. StartingTrips(v)[2][1] <=> v.in.conveyor_faulted
    BY DEF StartingTrips
  <2>2. ~StartingTrips(v)[2][1]
    BY <1>5, TripRows DEF Untripped
  <2> QED BY <2>1, <2>2, Zenon
<1>7. ASSUME ConveyorStep(v) PROVE Confirmed(v.in)
  <2>1. auto.step = "CONVEYOR" /\ ~cmd.feeder
    BY <1>4, <1>7 DEF ConveyorStep, LineInv, CommandsFitState, Drawing
  <2>2. CASE auto' = [auto EXCEPT !.elapsed = @ + 1] /\ UNCHANGED <<state, cmd>>
    <3>1. auto'.step = "CONVEYOR"
      BY <2>1, <2>2 DEF LineInv, TypeOK
    <3> QED BY <2>1, <2>2, <3>1
  <2>3. CASE EnterFaulted("conveyor failed to prove running", purge)
    BY <2>3 DEF EnterFaulted, Off
  <2> QED BY <1>7, <2>2, <2>3 DEF ConveyorStep
<1> QED BY <1>4, <1>5, <1>6, <1>7 DEF GateStep, FeederStep

-----------------------------------------------------------------------------
(* No wait is for ever.                                                    *)

(* A scan that leaves the line waiting has counted one more, and has not   *)
(* come to the limit.                                                      *)
Counted(clock, counted, limit) == counted = clock + 1 /\ counted < limit

(* A supervisor's count, which a changed command restarts.                 *)
Window(d, commanded) == IF d.last = commanded THEN d.elapsed ELSE 0

StartIsCounted ==
  state = "STARTING" /\ state' = "STARTING" /\ auto'.step = auto.step =>
    /\ auto.step = "CONVEYOR" => Counted(auto.elapsed, auto'.elapsed, ConveyorProof)
    /\ auto.step = "GATE" =>
         Counted(Window(dev.gate[active_bin], TRUE), dev'.gate[active_bin].elapsed, TravelTime)
    /\ auto.step = "FEEDER" =>
         Counted(Window(dev.feeder, TRUE), dev'.feeder.elapsed, StartProof)

(* The purge of a stop and the clearing after a trip have one clock.       *)
PurgeIsCounted ==
  (state = "STOPPING" /\ state' = "STOPPING") \/ (purge.clearing /\ purge'.clearing) =>
    Counted(purge.elapsed, purge'.elapsed, PurgeTime)

ManualIsCounted ==
  /\ state = "MANUAL" /\ cmd.conveyor /\ ~manual.proven
  /\ state' = "MANUAL" /\ cmd'.conveyor /\ ~manual'.proven
  => Counted(manual.elapsed, manual'.elapsed, ConveyorProof)

LoadingIsCounted ==
  state = "LOADING" /\ state' = "LOADING" /\ batch'.step = batch.step =>
    /\ batch.step = "CONVEYOR" => Counted(batch.elapsed, batch'.elapsed, ConveyorProof)
    /\ batch.step = "GATE" =>
         Counted(Window(dev.gate[active_bin], TRUE), dev'.gate[active_bin].elapsed, TravelTime)
    /\ batch.step = "SETTLE" => Counted(batch.elapsed, batch'.elapsed, PurgeTime)

(* The downstream may hold the discharge, and then the clock stands still. *)
BatchIsCounted ==
  /\ state = "PROCESSING" /\ state' = "PROCESSING" =>
       Counted(batch.elapsed, batch'.elapsed, setpoint.hold)
  /\ state = "DISCHARGING" /\ state' = "DISCHARGING" =>
       /\ in'.downstream_ready => batch'.elapsed = batch.elapsed + 1
       /\ ~in'.downstream_ready => batch'.elapsed = batch.elapsed
       /\ batch'.elapsed < DischargeTime

CleaningIsCounted ==
  state = "CLEANING" /\ state' = "CLEANING" =>
    /\ cmd.conveyor /\ cmd'.conveyor /\ batch'.proven = batch.proven =>
         Counted(batch.elapsed, batch'.elapsed,
                 IF batch.proven THEN PurgeTime ELSE ConveyorProof)
    /\ ~cmd.conveyor =>
         Counted(Window(dev.outlet, FALSE), dev'.outlet.elapsed, TravelTime)

WaitCounted ==
  /\ StartIsCounted /\ PurgeIsCounted /\ ManualIsCounted
  /\ LoadingIsCounted /\ BatchIsCounted /\ CleaningIsCounted

(* A supervised device that is not where it should be, and not yet at      *)
(* fault.                                                                  *)
LEMMA SupervisionCounts ==
  ASSUME NEW timeout \in Nat, NEW d \in Supervision(timeout), NEW commanded \in BOOLEAN,
         NEW n, n = Supervise(d, commanded, FALSE, timeout), ~n.fault
  PROVE  Counted(Window(d, commanded), n.elapsed, timeout)
<1>1. /\ n.elapsed = Advance(Window(d, commanded), timeout)
      /\ ~(n.elapsed >= timeout)
  BY DEF Supervise, Window
<1>2. Window(d, commanded) \in 0 .. timeout
  <2>1. d.elapsed \in 0 .. timeout /\ 0 \in 0 .. timeout
    BY DEF Supervision
  <2> QED BY <2>1 DEF Window
<1>3. PICK w \in 0 .. timeout : w = Window(d, commanded)
  BY <1>2
<1>4. PICK e \in Nat : e = Advance(w, timeout) /\ e = IF w < timeout THEN w + 1 ELSE timeout
  BY DEF Advance
<1>5. n.elapsed = e /\ ~(e >= timeout)
  BY <1>1, <1>3, <1>4, Zenon
<1>6. e = w + 1 /\ e < timeout
  BY <1>4, <1>5
<1> QED BY <1>3, <1>5, <1>6 DEF Counted

(* A scan that stays in a state is a scan of that state.                   *)
LEMMA Staying ==
  ASSUME LineInv, NEW v, ScanOf(v), state' = state
  PROVE  /\ state = "STARTING" => ScanStarting(v)
         /\ state = "STOPPING" => ScanStopping(v)
         /\ state = "FAULTED" => ScanFaulted(v)
         /\ state = "MANUAL" => ScanManual(v)
         /\ state = "LOADING" => ScanLoading(v)
         /\ state = "PROCESSING" => ScanProcessing(v)
         /\ state = "DISCHARGING" => ScanDischarging(v)
         /\ state = "CLEANING" => ScanCleaning(v)
<1>1. ~v.in.estop_healthy => state' = "ESTOPPED"
  <2>1. ASSUME ~v.in.estop_healthy PROVE ScanEstopped(v)
    <3>1. ScanState(v) = "ESTOPPED"
      BY <2>1, ScanBegins
    <3> QED
      BY <3>1 DEF ScanOf, ScanIdle, ScanStarting, ScanRunning, ScanStopping, ScanFaulted,
         ScanManual, ScanLoading, ScanProcessing, ScanDischarging, ScanCleaning, BatchScan
  <2> QED BY <2>1 DEF ScanEstopped, HoldEstopped, ResetEstopped
<1>2. ScanIdle(v) => state' # "MANUAL"
  BY DEF ScanIdle, IdleOff, BeginStartSequence, RequestBatch
<1>3. state \notin {"ESTOPPED", "IDLE"} => ScanState(v) = state
  <2>1. CASE state \notin {"ESTOPPED", "IDLE", "MANUAL"}
    BY <1>1, <2>1, ScanBegins
  <2>2. CASE state = "MANUAL"
    <3>1. ScanState(v) \in {"IDLE", "MANUAL"}
      BY <1>1, <2>2, ScanBegins DEF RestState
    <3>2. ScanState(v) = "IDLE" => ScanIdle(v)
      BY DEF ScanOf, ScanEstopped, ScanStarting, ScanRunning, ScanStopping, ScanFaulted,
         ScanManual, ScanLoading, ScanProcessing, ScanDischarging, ScanCleaning, BatchScan
    <3> QED BY <1>2, <2>2, <3>1, <3>2
  <2> QED BY <2>1, <2>2
<1> QED
  BY <1>3 DEF ScanOf, ScanIdle, ScanEstopped, ScanStarting, ScanRunning, ScanStopping,
     ScanFaulted, ScanManual, ScanLoading, ScanProcessing, ScanDischarging, ScanCleaning,
     BatchScan

(* The three waits on a supervised device.                                 *)
LEMMA DevicesAreCounted ==
  ASSUME LineInv, NEW i \in InputImage, NEW v, v = View(i), dev' = v.dev
  PROVE  /\ \A b \in Bins : cmd.gate[b] /\ ~i.gate_open[b] /\ ~v.dev.gate[b].fault =>
              Counted(Window(dev.gate[b], TRUE), dev'.gate[b].elapsed, TravelTime)
         /\ cmd.feeder /\ ~i.feeder_running /\ ~v.dev.feeder.fault =>
              Counted(Window(dev.feeder, TRUE), dev'.feeder.elapsed, StartProof)
         /\ HasOutlet /\ ~cmd.outlet /\ ~i.outlet_closed /\ ~v.dev.outlet.fault =>
              Counted(Window(dev.outlet, FALSE), dev'.outlet.elapsed, TravelTime)
<1>1. /\ dev \in Devices /\ cmd \in OutputImage /\ dev' = DevicesScanned(i)
      /\ v.dev = DevicesScanned(i)
  BY DEF LineInv, TypeOK, View
<1>2. ASSUME NEW b \in Bins, cmd.gate[b], ~i.gate_open[b], ~v.dev.gate[b].fault
      PROVE  Counted(Window(dev.gate[b], TRUE), dev'.gate[b].elapsed, TravelTime)
  <2>1. v.dev.gate[b] = Supervise(dev.gate[b], TRUE, FALSE, TravelTime)
    <3>1. cmd.gate[b] \in BOOLEAN /\ i.gate_open[b] \in BOOLEAN
      BY <1>1 DEF OutputImage, InputImage
    <3>2. cmd.gate[b] = TRUE /\ i.gate_open[b] = FALSE
      BY <1>2, <3>1
    <3>3. v.dev.gate[b] = GateScan(dev.gate[b], cmd.gate[b], i.gate_open[b],
                                   i.gate_closed[b], TravelTime)
      BY <1>1 DEF DevicesScanned
    <3> QED BY <3>2, <3>3 DEF GateScan
  <2>2. dev.gate[b] \in Supervision(TravelTime)
    BY <1>1 DEF Devices
  <2> QED BY <1>2, <2>1, <2>2, SupervisionCounts
<1>3. ASSUME cmd.feeder, ~i.feeder_running, ~v.dev.feeder.fault
      PROVE  Counted(Window(dev.feeder, TRUE), dev'.feeder.elapsed, StartProof)
  <2>1. v.dev.feeder = Supervise(dev.feeder, TRUE, FALSE, StartProof)
    <3>1. cmd.feeder \in BOOLEAN /\ i.feeder_running \in BOOLEAN
      BY <1>1 DEF OutputImage, InputImage
    <3>2. cmd.feeder = TRUE /\ (~cmd.feeder \/ i.feeder_running) = FALSE
      BY <1>3, <3>1
    <3>3. v.dev.feeder = MotorScan(dev.feeder, cmd.feeder, i.feeder_running, StartProof)
      BY <1>1 DEF DevicesScanned
    <3> QED BY <3>2, <3>3 DEF MotorScan
  <2>2. dev.feeder \in Supervision(StartProof)
    BY <1>1 DEF Devices
  <2> QED BY <1>3, <2>1, <2>2, SupervisionCounts
<1>4. ASSUME HasOutlet, ~cmd.outlet, ~i.outlet_closed, ~v.dev.outlet.fault
      PROVE  Counted(Window(dev.outlet, FALSE), dev'.outlet.elapsed, TravelTime)
  <2>1. v.dev.outlet = Supervise(dev.outlet, FALSE, FALSE, TravelTime)
    <3>1. cmd.outlet \in BOOLEAN /\ i.outlet_closed \in BOOLEAN
      BY <1>1 DEF OutputImage, InputImage
    <3>2. cmd.outlet = FALSE /\ i.outlet_closed = FALSE
      BY <1>4, <3>1
    <3>3. v.dev.outlet = GateScan(dev.outlet, cmd.outlet, i.outlet_open, i.outlet_closed,
                                  TravelTime)
      BY <1>1, <1>4 DEF DevicesScanned
    <3> QED BY <3>2, <3>3 DEF GateScan
  <2>2. dev.outlet \in Supervision(TravelTime)
    BY <1>1 DEF Devices
  <2> QED BY <1>4, <2>1, <2>2, SupervisionCounts
<1> QED BY <1>2, <1>3, <1>4

(* With no trip, no supervised device of a sequence is at fault.           *)
LEMMA NoDeviceFault ==
  ASSUME NEW v
  PROVE  /\ Untripped(StartingTrips(v)) =>
              ~v.dev.feeder.fault /\ \A b \in Bins : ~v.dev.gate[b].fault
         /\ Untripped(BatchTrips(v)) =>
              ~v.dev.outlet.fault /\ \A b \in Bins : ~v.dev.gate[b].fault
         /\ \A m : Untripped(ManualTrips(v, m)) /\ cmd.conveyor /\ ~m.proven =>
              ~(m.elapsed >= ConveyorProof)
<1>1. ASSUME Untripped(StartingTrips(v))
      PROVE  ~v.dev.feeder.fault /\ \A b \in Bins : ~v.dev.gate[b].fault
  <2> DEFINE T == StartingTrips(v)
  <2>1. ~T[8][1] /\ ~T[9][1]
    BY <1>1, TripRows DEF Untripped
  <2>2. (T[8][1] <=> v.dev.feeder.fault) /\ (T[9][1] <=> GateTravelFault(v))
    BY DEF StartingTrips
  <2> QED BY <2>1, <2>2, Zenon DEF GateTravelFault
<1>2. ASSUME Untripped(BatchTrips(v))
      PROVE  ~v.dev.outlet.fault /\ \A b \in Bins : ~v.dev.gate[b].fault
  <2> DEFINE T == BatchTrips(v)
  <2>1. ~T[12][1] /\ ~T[11][1]
    BY <1>2, TripRows DEF Untripped
  <2>2. (T[12][1] <=> v.dev.outlet.fault) /\ (T[11][1] <=> GateTravelFault(v))
    BY DEF BatchTrips
  <2> QED BY <2>1, <2>2, Zenon DEF GateTravelFault
<1>3. ASSUME NEW m, Untripped(ManualTrips(v, m)), cmd.conveyor, ~m.proven
      PROVE  ~(m.elapsed >= ConveyorProof)
  <2> DEFINE T == ManualTrips(v, m)
  <2>1. ~T[7][1]
    BY <1>3, TripRows DEF Untripped
  <2>2. T[7][1] <=> cmd.conveyor /\ (v.dev.conveyor.fault
                                       \/ (~m.proven /\ m.elapsed >= ConveyorProof))
    BY DEF ManualTrips
  <2> QED BY <1>3, <2>1, <2>2, Zenon
<1> QED BY <1>1, <1>2, <1>3

LEMMA StartCounts ==
  ASSUME LineInv, NEW i \in InputImage, NEW v, v = View(i), ScanOf(v)
  PROVE  StartIsCounted
<1> SUFFICES ASSUME state = "STARTING", state' = "STARTING", auto'.step = auto.step
             PROVE  /\ auto.step = "CONVEYOR" =>
                         Counted(auto.elapsed, auto'.elapsed, ConveyorProof)
                    /\ auto.step = "GATE" =>
                         Counted(Window(dev.gate[active_bin], TRUE),
                                 dev'.gate[active_bin].elapsed, TravelTime)
                    /\ auto.step = "FEEDER" =>
                         Counted(Window(dev.feeder, TRUE), dev'.feeder.elapsed, StartProof)
  BY DEF StartIsCounted
<1>1. ScanStarting(v) /\ v.in = i
  BY Staying DEF View
<1>2. /\ dev' = v.dev /\ Untripped(StartingTrips(v))
      /\ ConveyorStep(v) \/ GateStep(v) \/ FeederStep(v)
  BY <1>1 DEF ScanStarting, StartingTrip, StartingStop, BeginStopSequence, EnterFaulted
<1>3. /\ active_bin \in Bins /\ auto.elapsed \in Nat
      /\ auto.step # "CONVEYOR" => cmd.gate = Only(active_bin)
      /\ auto.step = "FEEDER" => cmd.feeder
      /\ auto \in [step : StartSteps, elapsed : Nat, feed_demand : BOOLEAN]
  BY DEF LineInv, TypeOK, CommandsFitState, Drawing
<1>4. ASSUME auto.step = "CONVEYOR" PROVE Counted(auto.elapsed, auto'.elapsed, ConveyorProof)
  <2>1. ConveyorStep(v)
    BY <1>2, <1>4 DEF GateStep, FeederStep
  <2>2. auto' = [auto EXCEPT !.elapsed = @ + 1] /\ auto.elapsed + 1 < ConveyorProof
    BY <1>3, <1>4, <2>1 DEF ConveyorStep, EnterFaulted
  <2> QED BY <1>3, <2>2 DEF Counted
<1>5. ASSUME auto.step = "GATE"
      PROVE  Counted(Window(dev.gate[active_bin], TRUE), dev'.gate[active_bin].elapsed, TravelTime)
  <2>1. GateStep(v)
    BY <1>2, <1>5 DEF ConveyorStep, FeederStep
  <2>2. ~i.gate_open[active_bin]
    BY <1>1, <1>3, <1>5, <2>1 DEF GateStep
  <2>3. cmd.gate[active_bin]
    BY <1>3, <1>5 DEF Only
  <2> QED BY <1>2, <1>3, <2>2, <2>3, NoDeviceFault, DevicesAreCounted
<1>6. ASSUME auto.step = "FEEDER"
      PROVE  Counted(Window(dev.feeder, TRUE), dev'.feeder.elapsed, StartProof)
  <2>1. FeederStep(v)
    BY <1>2, <1>6 DEF ConveyorStep, GateStep
  <2>2. ~i.feeder_running
    BY <1>1, <2>1 DEF FeederStep
  <2> QED BY <1>2, <1>3, <1>6, <2>2, NoDeviceFault, DevicesAreCounted
<1> QED BY <1>4, <1>5, <1>6

LEMMA PurgeCounts ==
  ASSUME LineInv, NEW v, ScanOf(v)
  PROVE  PurgeIsCounted
<1>0. purge \in [elapsed : Nat, proven : BOOLEAN, clearing : BOOLEAN]
  BY DEF LineInv, TypeOK
<1>1. ASSUME state = "STOPPING", state' = "STOPPING"
      PROVE  Counted(purge.elapsed, purge'.elapsed, PurgeTime)
  <2>1. Purging(v)
    BY <1>1, StopKeepsTheBelt
  <2> QED BY <1>0, <2>1 DEF Purging, Counted
<1>2. ASSUME purge.clearing, purge'.clearing
      PROVE  Counted(purge.elapsed, purge'.elapsed, PurgeTime)
  <2>1. state = "FAULTED"
    BY <1>2 DEF LineInv, CommandsFitState
  <2>2. ~ScanEstopped(v)
    <3>1. ScanEstopped(v) => ~v.in.estop_healthy
      BY <2>1, ScanBegins DEF ScanEstopped
    <3>2. ASSUME ~v.in.estop_healthy, ScanEstopped(v) PROVE FALSE
      <4>1. purge' = [purge EXCEPT !.clearing = state = "ESTOPPED" /\ @]
        BY <3>2 DEF ScanEstopped, HoldEstopped, ResetEstopped
      <4>2. (state = "ESTOPPED" /\ purge.clearing) = FALSE
        BY <2>1
      <4> QED BY <1>0, <1>2, <4>1, <4>2
    <3> QED BY <3>1, <3>2
  <2>3. ScanFaulted(v)
    <3>1. ScanState(v) \in {"FAULTED", "ESTOPPED"}
      BY <2>1, ScanBegins
    <3> QED
      BY <2>2, <3>1 DEF ScanOf, ScanIdle, ScanStarting, ScanRunning, ScanStopping, ScanManual,
         ScanLoading, ScanProcessing, ScanDischarging, ScanCleaning, BatchScan
  <2>4. purge' = [purge EXCEPT !.elapsed = ClearingElapsed, !.clearing = ClearingGoesOn(v)]
    BY <1>0, <1>2, <2>3 DEF ScanFaulted, HoldFaulted, ResetFaulted
  <2>5. ClearingGoesOn(v) /\ ClearingElapsed = purge.elapsed + 1
    <3>1. purge'.clearing = ClearingGoesOn(v)
      BY <1>0, <2>4
    <3> QED BY <1>2, <3>1 DEF ClearingElapsed
  <2> QED BY <1>0, <2>4, <2>5 DEF ClearingGoesOn, Counted
<1> QED BY <1>1, <1>2 DEF PurgeIsCounted

LEMMA ManualCounts ==
  ASSUME LineInv, NEW v, ScanOf(v)
  PROVE  ManualIsCounted
<1> SUFFICES ASSUME state = "MANUAL", cmd.conveyor, ~manual.proven,
                    state' = "MANUAL", cmd'.conveyor, ~manual'.proven
             PROVE  Counted(manual.elapsed, manual'.elapsed, ConveyorProof)
  BY DEF ManualIsCounted
<1>0. manual \in [proven : BOOLEAN, elapsed : Nat]
  BY DEF LineInv, TypeOK
<1>1. Untripped(ManualTrips(v, ManualSupervised(v))) /\ ManualCommands(v)
  <2>1. ScanManual(v)
    BY Staying
  <2>2. ~ManualTrip(v)
    BY DEF ManualTrip, EnterFaulted
  <2> QED BY <2>1, <2>2 DEF ScanManual
<1>2. cmd'.conveyor = ((cmd.conveyor /\ ~Stopping("stop_conveyor")) \/ StartsConveyor(v))
  BY <1>1 DEF ManualCommands
<1>3. ~Stopping("stop_conveyor") /\ ~StartsConveyor(v)
  BY <1>2 DEF StartsConveyor
<1>4. manual' = ManualSupervised(v)
  BY <1>1, <1>3 DEF ManualCommands, ManualAfter
<1>5. manual' = [manual EXCEPT !.elapsed = @ + 1]
  <2>1. ~Confirmed(v.in)
    BY <1>0, <1>4 DEF ManualSupervised
  <2> QED BY <1>4, <2>1 DEF ManualSupervised
<1>6. ~(manual'.elapsed >= ConveyorProof)
  BY <1>1, <1>4, NoDeviceFault
<1>7. manual'.elapsed = manual.elapsed + 1
  BY <1>0, <1>5
<1>8. PICK n \in Nat : n = manual.elapsed + 1
  BY <1>0
<1>9. ~(n >= ConveyorProof)
  BY <1>6, <1>7, <1>8, Zenon
<1> QED BY <1>7, <1>8, <1>9 DEF Counted

(* A batch's scan with neither a trip nor a Stop is its state's own.       *)
LEMMA BatchStays ==
  ASSUME LineInv, NEW v, ScanOf(v), state' = state
  PROVE  /\ state \in BatchStates => Untripped(BatchTrips(v)) /\ dev' = v.dev
         /\ state = "LOADING" =>
              LoadingConveyor(v) \/ LoadingGate(v) \/ LoadingFeed(v) \/ LoadingSettle(v)
         /\ state = "CLEANING" => CleaningBelt(v) \/ CleaningOutlet(v)
<1>1. (BatchTrip(v) => state' = "FAULTED") /\ (BeginStopSequence(v) => state' = "STOPPING")
  BY DEF BatchTrip, EnterFaulted, BeginStopSequence
<1>2. CASE state = "LOADING"
  BY <1>1, <1>2, Staying DEF ScanLoading, BatchScan
<1>3. CASE state = "PROCESSING"
  BY <1>1, <1>3, Staying DEF ScanProcessing, BatchScan
<1>4. CASE state = "DISCHARGING"
  BY <1>1, <1>4, Staying DEF ScanDischarging, BatchScan
<1>5. CASE state = "CLEANING"
  BY <1>1, <1>5, Staying DEF ScanCleaning, BatchScan
<1> QED BY <1>2, <1>3, <1>4, <1>5 DEF BatchStates

LEMMA LoadingCounts ==
  ASSUME LineInv, NEW i \in InputImage, NEW v, v = View(i), ScanOf(v)
  PROVE  LoadingIsCounted
<1> SUFFICES ASSUME state = "LOADING", state' = "LOADING", batch'.step = batch.step
             PROVE  /\ batch.step = "CONVEYOR" =>
                         Counted(batch.elapsed, batch'.elapsed, ConveyorProof)
                    /\ batch.step = "GATE" =>
                         Counted(Window(dev.gate[active_bin], TRUE),
                                 dev'.gate[active_bin].elapsed, TravelTime)
                    /\ batch.step = "SETTLE" =>
                         Counted(batch.elapsed, batch'.elapsed, PurgeTime)
  BY DEF LoadingIsCounted
<1>1. /\ batch \in BatchRecord /\ batch.elapsed \in Nat
      /\ active_bin \in Bins /\ v.in = i
      /\ batch.step = "GATE" => cmd.gate = Only(active_bin)
  BY DEF LineInv, TypeOK, CommandsFitState, Drawing, View, BatchRecord
<1>2. /\ Untripped(BatchTrips(v)) /\ dev' = v.dev
      /\ LoadingConveyor(v) \/ LoadingGate(v) \/ LoadingFeed(v) \/ LoadingSettle(v)
  BY BatchStays DEF BatchStates
<1>3. ASSUME batch.step = "CONVEYOR"
      PROVE  Counted(batch.elapsed, batch'.elapsed, ConveyorProof)
  <2>1. LoadingConveyor(v)
    BY <1>2, <1>3 DEF LoadingGate, LoadingFeed, LoadingSettle
  <2>2. BeltProving(v) /\ batch' = [batch EXCEPT !.loaded_kg = Loaded(v), !.elapsed = @ + 1]
    <3>1. ~BeltProven(v) \/ batch' # [batch EXCEPT !.loaded_kg = Loaded(v), !.proven = TRUE,
                                                   !.step = "GATE"]
      BY <1>1, <1>3 DEF BatchRecord
    <3> QED BY <2>1, <3>1 DEF LoadingConveyor, EnterFaulted
  <2> QED BY <1>1, <2>2 DEF BeltProving, Counted, BatchRecord
<1>4. ASSUME batch.step = "GATE"
      PROVE  Counted(Window(dev.gate[active_bin], TRUE), dev'.gate[active_bin].elapsed, TravelTime)
  <2>1. LoadingGate(v)
    BY <1>2, <1>4 DEF LoadingConveyor, LoadingFeed, LoadingSettle
  <2>2. ~i.gate_open[active_bin]
    BY <1>1, <1>4, <2>1 DEF LoadingGate, BatchRecord
  <2>3. cmd.gate[active_bin]
    BY <1>1, <1>4 DEF Only
  <2> QED BY <1>1, <1>2, <2>2, <2>3, NoDeviceFault, DevicesAreCounted
<1>5. ASSUME batch.step = "SETTLE"
      PROVE  Counted(batch.elapsed, batch'.elapsed, PurgeTime)
  <2>1. LoadingSettle(v)
    BY <1>2, <1>5 DEF LoadingConveyor, LoadingFeed, LoadingGate
  <2>2. batch.elapsed + 1 < PurgeTime
        /\ batch' = [batch EXCEPT !.loaded_kg = Loaded(v), !.elapsed = @ + 1]
    <3>1. batch' # [batch EXCEPT !.loaded_kg = Loaded(v), !.elapsed = @ + 1, !.step = "GATE"]
      BY <1>1, <1>5 DEF BatchRecord
    <3> QED BY <2>1, <3>1 DEF LoadingSettle
  <2> QED BY <1>1, <2>2 DEF Counted, BatchRecord
<1> QED BY <1>3, <1>4, <1>5

LEMMA BatchCounts ==
  ASSUME LineInv, NEW v \in ViewType, ScanOf(v)
  PROVE  BatchIsCounted
<1>1. /\ batch \in BatchRecord /\ batch.elapsed \in Nat
      /\ in' = v.in /\ v.in.downstream_ready \in BOOLEAN
  BY DEF LineInv, TypeOK, BatchRecord, ScanOf, ViewType, InputImage
<1>2. (BatchTrip(v) => state' = "FAULTED") /\ (BeginStopSequence(v) => state' = "STOPPING")
  BY DEF BatchTrip, EnterFaulted, BeginStopSequence
<1>3. ASSUME state = "PROCESSING", state' = "PROCESSING"
      PROVE  Counted(batch.elapsed, batch'.elapsed, setpoint.hold)
  <2>1. ScanProcessing(v)
    BY <1>3, Staying
  <2>2. batch.elapsed + 1 < setpoint.hold /\ batch' = [batch EXCEPT !.elapsed = @ + 1]
    BY <1>2, <1>3, <2>1 DEF ScanProcessing, BatchScan
  <2> QED BY <1>1, <2>2 DEF Counted, BatchRecord
<1>4. ASSUME state = "DISCHARGING", state' = "DISCHARGING"
      PROVE  /\ in'.downstream_ready => batch'.elapsed = batch.elapsed + 1
             /\ ~in'.downstream_ready => batch'.elapsed = batch.elapsed
             /\ batch'.elapsed < DischargeTime
  <2>1. ScanDischarging(v)
    BY <1>4, Staying
  <2>2. DischargeElapsed(v) < DischargeTime
        /\ batch' = [batch EXCEPT !.elapsed = DischargeElapsed(v)]
    BY <1>2, <1>4, <2>1 DEF ScanDischarging, BatchScan, EnterFaulted
  <2>3. batch'.elapsed = DischargeElapsed(v)
    BY <1>1, <2>2 DEF BatchRecord
  <2> QED BY <1>1, <2>2, <2>3 DEF DischargeElapsed
<1> QED BY <1>3, <1>4 DEF BatchIsCounted

(* The mode was selected, and Batch only on a line with an outlet.         *)
ModeSelected == mode \in Modes \cup {"AUTO"}

LEMMA CleaningCounts ==
  ASSUME LineInv, ModeSelected, NEW i \in InputImage, NEW v, v = View(i), ScanOf(v)
  PROVE  CleaningIsCounted
<1> SUFFICES ASSUME state = "CLEANING", state' = "CLEANING"
             PROVE  /\ cmd.conveyor /\ cmd'.conveyor /\ batch'.proven = batch.proven =>
                         Counted(batch.elapsed, batch'.elapsed,
                                 IF batch.proven THEN PurgeTime ELSE ConveyorProof)
                    /\ ~cmd.conveyor =>
                         Counted(Window(dev.outlet, FALSE), dev'.outlet.elapsed, TravelTime)
  BY DEF CleaningIsCounted
<1>1. /\ batch \in BatchRecord /\ batch.elapsed \in Nat /\ batch.proven \in BOOLEAN
      /\ cmd \in OutputImage /\ v.in = i
  BY DEF LineInv, TypeOK, BatchRecord, View
<1>2. /\ Untripped(BatchTrips(v)) /\ dev' = v.dev
      /\ CleaningBelt(v) \/ CleaningOutlet(v)
  BY BatchStays DEF BatchStates
<1>3. ASSUME cmd.conveyor, cmd'.conveyor, batch'.proven = batch.proven
      PROVE  Counted(batch.elapsed, batch'.elapsed,
                     IF batch.proven THEN PurgeTime ELSE ConveyorProof)
  <2>1. CleaningBelt(v)
    BY <1>2, <1>3 DEF CleaningOutlet
  <2>2. CASE BeltProving(v) /\ batch' = [batch EXCEPT !.elapsed = @ + 1]
    <3>1. ~batch.proven /\ batch.elapsed + 1 < ConveyorProof
      BY <2>2 DEF BeltProving, BeltProven
    <3>2. batch'.elapsed = batch.elapsed + 1
      BY <1>1, <2>2 DEF BatchRecord
    <3> QED BY <3>1, <3>2 DEF Counted
  <2>3. CASE CleanElapsed(v) < PurgeTime
             /\ batch' = [batch EXCEPT !.elapsed = CleanElapsed(v), !.proven = TRUE]
    <3>1. batch'.proven = TRUE /\ batch'.elapsed = CleanElapsed(v)
      BY <1>1, <2>3 DEF BatchRecord
    <3>2. batch.proven /\ CleanElapsed(v) = batch.elapsed + 1
      BY <1>3, <3>1 DEF CleanElapsed
    <3> QED BY <2>3, <3>1, <3>2 DEF Counted
  <2>4. BeltUnproven(v) /\ EnterFaulted("conveyor failed to prove running", purge) => FALSE
    BY DEF EnterFaulted
  <2>5. cmd' # [cmd EXCEPT !.conveyor = FALSE, !.outlet = FALSE]
    BY <1>1, <1>3 DEF OutputImage
  <2> QED BY <2>1, <2>2, <2>3, <2>4, <2>5 DEF CleaningBelt
<1>4. ASSUME ~cmd.conveyor
      PROVE  Counted(Window(dev.outlet, FALSE), dev'.outlet.elapsed, TravelTime)
  <2>1. CleaningOutlet(v)
    BY <1>2, <1>4 DEF CleaningBelt
  <2>2. ~i.outlet_closed
    BY <1>1, <2>1 DEF CleaningOutlet, EnterRest, RestState
  <2>3. HasOutlet
    BY DEF LineInv, ModeFitsState, BatchStates, ModeSelected
  <2>4. ~cmd.outlet
    <3>1. \A o \in BOOLEAN : cmd # [Off EXCEPT !.conveyor = TRUE, !.outlet = o]
      BY <1>4 DEF Off
    <3>2. cmd = Off
      BY <3>1 DEF LineInv, CommandsFitState
    <3> QED BY <3>2 DEF Off
  <2> QED BY <1>2, <2>2, <2>3, <2>4, NoDeviceFault, DevicesAreCounted
<1> QED BY <1>3, <1>4

LEMMA ModeIsSelected == Spec => []ModeSelected
<1>1. Init => ModeSelected
  BY DEF Init, ModeSelected
<1>2. ASSUME LineInv, ModeSelected, [Next]_vars PROVE ModeSelected'
  <2>1. CASE UNCHANGED vars
    BY <1>2, <2>1 DEF ModeSelected, vars
  <2>2. CASE Operator
    BY <1>2, <2>2, OperatorKeeps DEF ModeSelected
  <2>3. CASE Scan
    <3>1. mode' \in {mode, mode_request} \ {None}
      BY <1>2, <2>3 DEF Scan, ScanOf, ScanMode, ModeChanges, LineInv, TypeOK, LineModes, None
    <3>2. mode_request \in Modes \cup {None}
      BY <1>2 DEF LineInv, TypeOK
    <3> QED BY <1>2, <3>1, <3>2 DEF ModeSelected
  <2> QED BY <1>2, <2>1, <2>2, <2>3 DEF Next
<1> QED BY <1>1, <1>2, LineInvariant, PTL DEF Spec

(* Every wait of a sequence has a clock that counts each scan of it, and a *)
(* limit the scan has not come to: the belt's proof (in every mode), the   *)
(* gate's travel and the feeder's start, the purge and the clearing, the   *)
(* settling, the hold, the discharge while the downstream takes material,  *)
(* the cleanout and the outlet's closing.  Between two scans nothing       *)
(* counts.  What has no clock is what the operator or the process ends:    *)
(* rest, RUNNING, and LOADING's FEED.                                      *)
THEOREM WaitsAreCounted == Spec => [][Scan => WaitCounted]_vars
<1>1. ASSUME LineInv, ModeSelected, Scan PROVE WaitCounted
  <2>1. PICK i \in Inputs(cmd) : ScanOf(View(i))
    BY <1>1 DEF Scan, Views
  <2>2. i \in InputImage
    BY <1>1, <2>1 DEF LineInv, TypeOK
  <2>3. View(i) \in ViewType
    BY <1>1, <2>2, ViewIsTyped DEF LineInv
  <2> QED
    BY <1>1, <2>1, <2>2, <2>3, StartCounts, PurgeCounts, ManualCounts, LoadingCounts,
       BatchCounts, CleaningCounts DEF WaitCounted
<1>2. LineInv /\ ModeSelected /\ [Next]_vars => (Scan => WaitCounted)
  BY <1>1
<1> QED BY <1>2, LineInvariant, ModeIsSelected, PTL DEF Spec
=============================================================================
