------------------------------ MODULE PlantProofs ------------------------------
(***************************************************************************)
(* The motors of the plant under the line, and its material, for every set *)
(* of faults, every timing and every operator.                             *)
(***************************************************************************)
EXTENDS LineOnPlant, LineProofs, Recursion

(* A motor's record, whatever its run command and its clock.               *)
IsMotor(m) ==
  /\ DOMAIN m = {"state", "run", "fault", "elapsed"}
  /\ m.state \in P!MotorState /\ m.fault \in BOOLEAN

Latched(m) == IsMotor(m) /\ (m.fault <=> m.state = "FAULT")

(* Stopped, and not asked to run.                                          *)
Quiet(m) == m.state = "STOPPED" /\ m.run = FALSE

-----------------------------------------------------------------------------
(* What each step of a motor does to its latch and to its power.           *)

LEMMA CommandedKeeps ==
  ASSUME NEW m, NEW run, Latched(m)
  PROVE  /\ Latched(P!Commanded(m, run))
         /\ P!Commanded(m, run).state = m.state
         /\ P!Commanded(m, run).run = run
  BY DEF Latched, IsMotor, P!Commanded

LEMMA EnterKeeps ==
  ASSUME NEW m, Latched(m), m.state # "FAULT", NEW s \in P!MotorState \ {"FAULT"}
  PROVE  Latched(P!Enter(m, s)) /\ P!Enter(m, s).state = s
  BY DEF Latched, IsMotor, P!Enter

LEMMA TripLatches ==
  ASSUME NEW m, Latched(m)
  PROVE  /\ Latched(P!Trip(m)) /\ P!Trip(m).state = "FAULT"
         /\ Latched(P!Overload(m))
         /\ P!Overload(m).state \in {m.state, "FAULT"}
<1>1. Latched(P!Trip(m)) /\ P!Trip(m).state = "FAULT"
  BY DEF Latched, IsMotor, P!Trip, P!Enter, P!MotorState
<1> QED BY <1>1 DEF P!Overload

(* The E-stop keeps the latch, and takes every motor that is not tripped.  *)
LEMMA PowerKeeps ==
  ASSUME NEW m, Latched(m)
  PROVE  /\ Latched(P!PowerOff(m)) /\ P!PowerOff(m).state \in {"FAULT", "ESTOP"}
         /\ (m.state = "ESTOP" => P!PowerOff(m).state = "ESTOP")
         /\ Latched(P!PowerOn(m)) /\ P!PowerOn(m).state # "ESTOP"
         /\ P!PowerOn(m).run = m.run
         /\ P!PowerOn(m).state \in {m.state, "STOPPED"}
         /\ (m.state = "ESTOP" => P!PowerOn(m).state = "STOPPED")
<1>1. /\ Latched(P!PowerOff(m)) /\ P!PowerOff(m).state \in {"FAULT", "ESTOP"}
      /\ (m.state = "ESTOP" => P!PowerOff(m).state = "ESTOP")
  BY DEF Latched, IsMotor, P!PowerOff, P!Commanded, P!Enter, P!MotorState
<1>2. /\ Latched(P!PowerOn(m)) /\ P!PowerOn(m).state # "ESTOP"
      /\ P!PowerOn(m).run = m.run
      /\ P!PowerOn(m).state \in {m.state, "STOPPED"}
      /\ (m.state = "ESTOP" => P!PowerOn(m).state = "STOPPED")
  BY DEF Latched, IsMotor, P!PowerOn, P!MotorState
<1> QED BY <1>1, <1>2

LEMMA ClearKeeps ==
  ASSUME NEW m, Latched(m)
  PROVE  /\ Latched(P!ClearMotorFault(m))
         /\ P!ClearMotorFault(m).state \in {m.state, "STOPPED"}
  BY DEF Latched, IsMotor, P!ClearMotorFault, P!MotorState

LEMMA DelayedKeeps ==
  ASSUME NEW m, Latched(m), m.state # "FAULT", NEW delay, NEW blocked,
         NEW s \in P!MotorState \ {"FAULT"}
  PROVE  /\ Latched(P!Delayed(m, delay, blocked, s))
         /\ P!Delayed(m, delay, blocked, s).state \in {m.state, s}
<1>1. \A x : Latched([m EXCEPT !.elapsed = x]) /\ [m EXCEPT !.elapsed = x].state = m.state
  BY DEF Latched, IsMotor
<1>2. Latched(P!Enter(m, s)) /\ P!Enter(m, s).state = s
  BY EnterKeeps
<1>3. \/ P!Delayed(m, delay, blocked, s) = P!Enter(m, s)
      \/ \E x : P!Delayed(m, delay, blocked, s) = [m EXCEPT !.elapsed = x]
  BY DEF P!Delayed
<1> QED BY <1>1, <1>2, <1>3

(* One step of a motor: only a trip leaves it faulted, and a motor without *)
(* power, or stopped with no run command, stays as it is.                  *)
LEMMA MotorStepKeeps ==
  ASSUME NEW m, Latched(m), NEW start, NEW stop, NEW fails, NEW trips
  PROVE  /\ Latched(P!MotorStep(m, start, stop, fails, trips))
         /\ (P!MotorStep(m, start, stop, fails, trips).state = "ESTOP" <=> m.state = "ESTOP")
         /\ (Quiet(m) => P!MotorStep(m, start, stop, fails, trips) = m)
<1> DEFINE stepped == P!MotorStep(m, start, stop, fails, trips)
<1>1. {"STOPPED", "STARTING", "RUNNING", "STOPPING"} \subseteq P!MotorState \ {"FAULT"}
  BY DEF P!MotorState
<1>2. CASE m.state = "RUNNING" /\ stepped = P!Trip(m)
  BY <1>2, TripLatches DEF Quiet
<1>3. CASE m.state = "STOPPED" /\ m.run
           /\ stepped = P!Delayed(P!Enter(m, "STARTING"), start, fails, "RUNNING")
  <2>1. Latched(P!Enter(m, "STARTING")) /\ P!Enter(m, "STARTING").state = "STARTING"
    BY <1>1, <1>3, EnterKeeps
  <2>2. Latched(stepped) /\ stepped.state \in {"STARTING", "RUNNING"}
    BY <1>1, <1>3, <2>1, DelayedKeeps
  <2> QED BY <1>3, <2>2 DEF Quiet
<1>4. CASE m.state = "STARTING" /\ stepped = P!Enter(m, "STOPPED")
  BY <1>1, <1>4, EnterKeeps DEF Quiet
<1>5. CASE m.state = "STARTING" /\ stepped = P!Delayed(m, start, fails, "RUNNING")
  <2>1. Latched(stepped) /\ stepped.state \in {"STARTING", "RUNNING"}
    BY <1>1, <1>5, DelayedKeeps
  <2> QED BY <1>5, <2>1 DEF Quiet
<1>6. CASE m.state = "RUNNING"
           /\ stepped = P!Delayed(P!Enter(m, "STOPPING"), stop, FALSE, "STOPPED")
  <2>1. Latched(P!Enter(m, "STOPPING")) /\ P!Enter(m, "STOPPING").state = "STOPPING"
    BY <1>1, <1>6, EnterKeeps
  <2> DEFINE begun == P!Enter(m, "STOPPING")
  <2>2. \A blocked : LET done == P!Delayed(begun, stop, blocked, "STOPPED")
                     IN  Latched(done) /\ done.state \in {"STOPPING", "STOPPED"}
    BY <1>1, <2>1, DelayedKeeps
  <2>3. Latched(stepped) /\ stepped.state \in {"STOPPING", "STOPPED"}
    BY <1>6, <2>2, Zenon
  <2> QED BY <1>6, <2>3 DEF Quiet
<1>7. CASE m.state = "STOPPING" /\ stepped = P!Delayed(m, stop, FALSE, "STOPPED")
  <2>1. \A blocked : LET done == P!Delayed(m, stop, blocked, "STOPPED")
                     IN  Latched(done) /\ done.state \in {"STOPPING", "STOPPED"}
    BY <1>1, <1>7, DelayedKeeps
  <2>2. Latched(stepped) /\ stepped.state \in {"STOPPING", "STOPPED"}
    BY <1>7, <2>1, Zenon
  <2> QED BY <1>7, <2>2 DEF Quiet
<1>8. CASE stepped = m
  BY <1>8
<1>9. \/ m.state = "RUNNING" /\ stepped = P!Trip(m)
      \/ m.state = "STOPPED" /\ m.run
           /\ stepped = P!Delayed(P!Enter(m, "STARTING"), start, fails, "RUNNING")
      \/ m.state = "STARTING" /\ stepped = P!Enter(m, "STOPPED")
      \/ m.state = "STARTING" /\ stepped = P!Delayed(m, start, fails, "RUNNING")
      \/ m.state = "RUNNING"
           /\ stepped = P!Delayed(P!Enter(m, "STOPPING"), stop, FALSE, "STOPPED")
      \/ m.state = "STOPPING" /\ stepped = P!Delayed(m, stop, FALSE, "STOPPED")
      \/ stepped = m
  BY DEF P!MotorStep
<1> QED BY <1>2, <1>3, <1>4, <1>5, <1>6, <1>7, <1>8, <1>9, Zenon

-----------------------------------------------------------------------------
(* The invariant.                                                          *)

Motors == Latched(feeder.motor) /\ Latched(conveyor.motor)

(* A motor is without power only while the E-stop was read open last: the  *)
(* line, which scans before the plant, then holds every command off.       *)
PowerInv ==
  /\ DOMAIN sensor = P!Signals /\ sensor["estop_healthy"] # "stuck"
  /\ "estop_healthy" \in DOMAIN io
  /\ \A m \in {feeder.motor, conveyor.motor} : m.state = "ESTOP" => io.estop_healthy = FALSE

(* What one plant step makes of a motor.                                   *)
LEMMA EnergisedSteps ==
  ASSUME NEW m, Latched(m), NEW run, NEW start, NEW stop, NEW fails, NEW trips
  PROVE  LET n == P!MotorStep(P!Energised(P!Commanded(m, run)), start, stop, fails, trips)
         IN  /\ Latched(n)
             /\ (n.state = "ESTOP" => "estop" \in injected)
             /\ (m.state = "ESTOP" /\ run = FALSE => n.state \in {"ESTOP", "STOPPED"})
<1> DEFINE c == P!Commanded(m, run)
           e == P!Energised(c)
           n == P!MotorStep(e, start, stop, fails, trips)
<1>1. Latched(c) /\ c.state = m.state /\ c.run = run
  BY CommandedKeeps
<1> HIDE DEF c
<1>2. /\ Latched(e)
      /\ (e.state = "ESTOP" => "estop" \in injected)
      /\ (c.state = "ESTOP" => \/ e.state = "ESTOP"
                               \/ e.state = "STOPPED" /\ e.run = c.run)
  <2>1. CASE "estop" \in injected
    <3>1. e = P!PowerOff(c)
      BY <2>1 DEF P!Energised
    <3> QED BY <1>1, <2>1, <3>1, PowerKeeps
  <2>2. CASE "estop" \notin injected
    <3>1. e = P!PowerOn(c)
      BY <2>2 DEF P!Energised
    <3> QED BY <1>1, <2>2, <3>1, PowerKeeps
  <2> QED BY <2>1, <2>2
<1> HIDE DEF e
<1>3. /\ Latched(n)
      /\ (n.state = "ESTOP" <=> e.state = "ESTOP")
      /\ (Quiet(e) => n = e)
  <2>1. Latched(e)
    BY <1>2
  <2>2. /\ Latched(P!MotorStep(e, start, stop, fails, trips))
        /\ (P!MotorStep(e, start, stop, fails, trips).state = "ESTOP" <=> e.state = "ESTOP")
        /\ (Quiet(e) => P!MotorStep(e, start, stop, fails, trips) = e)
    BY <2>1, MotorStepKeeps, Zenon
  <2> QED BY <2>2
<1> HIDE DEF n
<1>4. /\ Latched(n)
      /\ (n.state = "ESTOP" => "estop" \in injected)
      /\ (m.state = "ESTOP" /\ run = FALSE => n.state \in {"ESTOP", "STOPPED"})
  BY <1>1, <1>2, <1>3 DEF Quiet
<1> QED BY <1>4 DEF n, e, c

(* An overload taken by the relay is one more trip.                        *)
LEMMA TickMotors ==
  ASSUME Motors, NEW c, P!Scan(c)
  PROVE  /\ Motors'
         /\ \A s \in {feeder'.motor.state, conveyor'.motor.state} :
              s = "ESTOP" => "estop" \in injected
         /\ (feeder.motor.state = "ESTOP" /\ c.feeder = FALSE
               => feeder'.motor.state \in {"ESTOP", "STOPPED"})
         /\ (conveyor.motor.state = "ESTOP" /\ c.conveyor = FALSE
               => conveyor'.motor.state \in {"ESTOP", "STOPPED"})
<1>1. feeder' = P!FeederStepped(c) /\ conveyor' = P!ConveyorStepped(c)
  BY DEF P!Scan, P!Stepped
<1> DEFINE f == P!FeederMotor(c)
           k == P!MotorStep(P!ConveyorBefore(c), ConveyorStart, MotorStop,
                            "conveyor_fail_to_start" \in injected, "conveyor_trip" \in injected)
<1>2. /\ Latched(f) /\ (f.state = "ESTOP" => "estop" \in injected)
      /\ (feeder.motor.state = "ESTOP" /\ c.feeder = FALSE => f.state \in {"ESTOP", "STOPPED"})
  BY EnergisedSteps, Zenon DEF Motors, P!FeederMotor
<1>3. /\ Latched(k) /\ (k.state = "ESTOP" => "estop" \in injected)
      /\ (conveyor.motor.state = "ESTOP" /\ c.conveyor = FALSE
            => k.state \in {"ESTOP", "STOPPED"})
  BY EnergisedSteps, Zenon DEF Motors, P!ConveyorBefore
<1>4. feeder'.motor = f
  BY <1>1 DEF P!FeederStepped
<1>5. conveyor'.motor = k \/ (conveyor'.motor = P!Overload(k))
  BY <1>1 DEF P!ConveyorStepped
<1>6. P!Overload(k) = IF k.state = "RUNNING" THEN P!Trip(k) ELSE k
  BY DEF P!Overload, P!Running
<1> HIDE DEF f, k
<1>7. Latched(P!Trip(k)) /\ P!Trip(k).state = "FAULT"
  BY <1>3, TripLatches
<1> QED BY <1>2, <1>3, <1>4, <1>5, <1>6, <1>7 DEF Motors

(* A line that reads the E-stop open commands nothing.                     *)
LEMMA EstopHoldsOff ==
  ASSUME io.estop_healthy = FALSE, ScanOf(View(io))
  PROVE  cmd' = Off
<1> DEFINE v == View(io)
<1>1. v.in = io
  BY DEF View
<1>2. ScanState(v) = "ESTOPPED"
  BY <1>1 DEF ScanState
<1> HIDE DEF v
<1>3. ScanOf(v)
  BY DEF v
<1> QED BY <1>2, <1>3
     DEF ScanOf, ScanIdle, ScanStarting, ScanRunning, ScanStopping, ScanFaulted, ScanEstopped,
         ScanManual, ScanLoading, ScanProcessing, ScanDischarging, ScanCleaning, BatchScan

(* What the E-stop circuit publishes is what stands in the plant.          *)
LEMMA EstopPublished ==
  ASSUME PowerInv, NEW c, P!Scan(c)
  PROVE  /\ "estop_healthy" \in DOMAIN io'
         /\ ("estop" \in injected => io'.estop_healthy = FALSE)
<1>1. PICK n, m : io' = P!Published(P!Truth(n, m))
  BY DEF P!Scan
<1>2. DOMAIN io' = DOMAIN io
  BY <1>1 DEF P!Published
<1>3. P!Truth(n, m).estop_healthy = ("estop" \notin injected)
  BY DEF P!Truth
<1>4. P!Lost("estop_healthy") = FALSE
  <2>1. "estop_healthy" # "weight" /\ "estop_healthy" \notin {"hopper_high", "high_high_switch"}
    OBVIOUS
  <2>2. P!Lost("estop_healthy") = ("estop_healthy" \in {"hopper_high", "high_high_switch"})
    BY <2>1, Zenon DEF P!Lost
  <2>3. ("estop_healthy" \in {"hopper_high", "high_high_switch"}) = FALSE
    BY <2>1
  <2> QED BY <2>2, <2>3, Zenon
<1>5. io'["estop_healthy"] \in {P!Lost("estop_healthy"), P!Truth(n, m)["estop_healthy"]}
  BY <1>1 DEF P!Published, PowerInv
<1> QED BY <1>2, <1>3, <1>4, <1>5 DEF PowerInv

(* What breaks or is mended starts no motor.                               *)
LEMMA FieldKeeps ==
  ASSUME Motors, Break \/ Mend
  PROVE  /\ Motors'
         /\ (feeder'.motor.state = "ESTOP" <=> feeder.motor.state = "ESTOP")
         /\ (conveyor'.motor.state = "ESTOP" <=> conveyor.motor.state = "ESTOP")
         /\ UNCHANGED io
<1>1. CASE UNCHANGED <<feeder, conveyor, io>>
  BY <1>1 DEF Motors, Latched, IsMotor
<1>2. CASE P!ResetFeeder
  BY <1>2, ClearKeeps DEF Motors, P!ResetFeeder
<1>3. CASE P!ResetConveyor
  BY <1>3, ClearKeeps DEF Motors, P!ResetConveyor
<1> QED
  BY <1>1, <1>2, <1>3
  DEF Break, Mend, P!Inject, P!Remove, P!SetSensor, P!ResetGate, P!ResetOutlet, P!devices

LEMMA MotorsInductive == (RigInit => Motors) /\ (Motors /\ [RigNext]_all => Motors')
<1>1. RigInit => Motors
  <2>1. RigInit => feeder.motor = P!MotorAtRest /\ conveyor.motor = P!MotorAtRest
    BY DEF RigInit, P!Init
  <2>2. Latched(P!MotorAtRest)
    BY DEF P!MotorAtRest, P!MotorState, Latched, IsMotor
  <2> QED BY <2>1, <2>2, Zenon DEF Motors
<1>2. ASSUME Motors, [RigNext]_all PROVE Motors'
  <2>1. CASE Tick
    BY <1>2, <2>1, TickMotors DEF Tick
  <2>2. CASE Break \/ Mend
    BY <1>2, <2>2, FieldKeeps
  <2>3. CASE UNCHANGED plant
    BY <1>2, <2>3 DEF plant, Motors, Latched, IsMotor
  <2> QED BY <1>2, <2>1, <2>2, <2>3 DEF RigNext, all
<1> QED BY <1>1, <1>2

(* FaultsCanBeReset: a motor's fault is latched exactly while the motor is *)
(* in FAULT, so the reset at the equipment, and it alone, clears it.       *)
THEOREM FaultsStayResettable == RigSpec => []FaultsCanBeReset
<1>1. Motors => FaultsCanBeReset
  BY DEF Motors, Latched, FaultsCanBeReset
<1> QED BY <1>1, MotorsInductive, PTL DEF RigSpec

(* The E-stop's contact may fail, and then reads open; stuck closed it     *)
(* would hide the E-stop from the line, and NoRestartAfterEstop with it.   *)
LEMMA PowerInductive ==
  ASSUME "estop_healthy" \notin StickingSensors
  PROVE  /\ RigInit => PowerInv
         /\ Motors /\ PowerInv /\ [RigNext]_all => PowerInv'
<1>1. RigInit => PowerInv
  BY DEF RigInit, P!Init, P!MotorAtRest, P!AtRest, P!Signals, PowerInv
<1>2. ASSUME Motors, PowerInv, [RigNext]_all PROVE PowerInv'
  <2>1. CASE Tick
    <3>1. PICK c : P!Scan(c)
      BY <2>1 DEF Tick
    <3>2. sensor' = sensor
      BY <3>1 DEF P!Scan
    <3> QED BY <1>2, <3>1, <3>2, TickMotors, EstopPublished DEF PowerInv
  <2>2. CASE Break \/ Mend
    <3>1. \/ sensor' = sensor
          \/ \E tag : /\ tag \in StickingSensors /\ P!SetSensor(tag, "stuck")
          \/ \E tag : P!SetSensor(tag, "failed") \/ P!SetSensor(tag, "healthy")
      BY <2>2 DEF Break, Mend, P!Inject, P!Remove, P!ResetFeeder, P!ResetConveyor,
                  P!ResetGate, P!ResetOutlet
    <3>2. DOMAIN sensor' = DOMAIN sensor /\ sensor'["estop_healthy"] # "stuck"
      BY <1>2, <3>1 DEF PowerInv, P!SetSensor, P!Signals
    <3> QED BY <1>2, <2>2, <3>2, FieldKeeps DEF PowerInv
  <2>3. CASE UNCHANGED plant
    BY <1>2, <2>3 DEF plant, PowerInv
  <2> QED BY <1>2, <2>1, <2>2, <2>3 DEF RigNext, all
<1> QED BY <1>1, <1>2

(* NoRestartAfterEstop: no motor starts by itself when the E-stop is       *)
(* released, whatever was commanded when it tripped.                       *)
THEOREM PowerBackStartsNothing ==
  ASSUME "estop_healthy" \notin StickingSensors
  PROVE  RigSpec => NoRestartAfterEstop
<1> DEFINE Stays(before, after) == before.state = "ESTOP" => after.state \in {"ESTOP", "STOPPED"}
<1>1. ASSUME Motors, PowerInv, [RigNext]_all
      PROVE  Stays(feeder.motor, feeder'.motor) /\ Stays(conveyor.motor, conveyor'.motor)
  <2>1. CASE Tick
    <3>1. ScanOf(View(io)) /\ P!Scan(cmd')
      BY <2>1 DEF Tick
    <3>2. ASSUME io.estop_healthy = FALSE
          PROVE  cmd'.feeder = FALSE /\ cmd'.conveyor = FALSE
      <4>1. cmd' = Off
        BY <3>1, <3>2, EstopHoldsOff
      <4> QED BY <4>1 DEF Off
    <3> QED BY <1>1, <3>1, <3>2, TickMotors DEF PowerInv
  <2>2. CASE Break \/ Mend
    BY <1>1, <2>2, FieldKeeps
  <2>3. CASE UNCHANGED plant
    BY <2>3 DEF plant
  <2> QED BY <1>1, <2>1, <2>2, <2>3 DEF RigNext, all
<1>2. Motors /\ PowerInv /\ [RigNext]_all =>
        \A m \in {"feeder", "conveyor"} :
          LET before == IF m = "feeder" THEN feeder.motor ELSE conveyor.motor
              after  == IF m = "feeder" THEN feeder.motor' ELSE conveyor.motor'
          IN  before.state = "ESTOP" => after.state \in {"ESTOP", "STOPPED"}
  BY <1>1
<1>3. RigInit => PowerInv
  BY PowerInductive
<1>4. Motors /\ PowerInv /\ [RigNext]_all => PowerInv'
  BY PowerInductive
<1> QED BY <1>2, <1>3, <1>4, MotorsInductive, PTL DEF RigSpec, NoRestartAfterEstop

-----------------------------------------------------------------------------
(* The material.                                                           *)

(* Plant's sums and cardinalities are the library's.                       *)
LEMMA PlantSums ==
  ASSUME NEW f
  PROVE  P!SumFunction(f) = Sum(f, DOMAIN f)
  BY SumIsFold
  DEF Sum, Fold, Pick, P!SumFunction, P!SumFunctionOnSet, P!FoldFunctionOnSet, P!MapThenFoldSet

LEMMA PlantCardinality ==
  ASSUME NEW S
  PROVE  P!Cardinality(S) = Cardinality(S)
  BY Zenon DEF P!Cardinality, P!IsFiniteSet, Cardinality, IsFiniteSet

LEMMA BinsAreFinite == IsFiniteSet(Bins)
<1>1. IsFiniteSet(1 .. 3)
  <2>1. \A a, b \in Int : IsFiniteSet(a .. b)
    BY FS_Interval
  <2>2. 1 \in Int /\ 3 \in Int
    OBVIOUS
  <2> QED BY <2>1, <2>2, Zenon
<1> QED BY <1>1, FS_Subset, LineAssumption

(* Each place holds a natural quantity, and what there was is accounted    *)
(* for.                                                                    *)
MaterialType ==
  /\ level \in [Bins -> Nat] /\ belt \in [1 .. Transit -> Nat]
  /\ hopper \in 0 .. Capacity /\ discharged \in Nat /\ spilled \in Nat

MaterialInv == MaterialType /\ MaterialConserved

LEMMA AccountedIsASum ==
  ASSUME MaterialType
  PROVE  P!Accounted = Sum(level, Bins) + Sum(belt, 1 .. Transit) + hopper + discharged + spilled
  BY PlantSums DEF MaterialType, P!Accounted, P!OnBelt

(* No bin gives more than it holds.                                        *)
LEMMA DrawnWithinLevels ==
  ASSUME MaterialType, NEW n
  PROVE  /\ P!Drawn(n) \in [Bins -> Nat]
         /\ \A b \in Bins : P!Drawn(n)[b] <= level[b]
<1> DEFINE share == IF P!OpenBins = {} THEN 0 ELSE FeedRate \div Cardinality(P!OpenBins)
<1>1. share \in Nat
  <2>1. CASE P!OpenBins # {}
    <3>1. IsFiniteSet(P!OpenBins)
      BY BinsAreFinite, FS_Subset DEF P!OpenBins
    <3>2. Cardinality(P!OpenBins) \in Nat /\ Cardinality(P!OpenBins) # 0
      BY <2>1, <3>1, FS_CardinalityType, FS_EmptySet
    <3>3. \A q \in Nat \ {0} : FeedRate \div q \in Nat
      BY PlantAssumption
    <3> QED BY <2>1, <3>2, <3>3
  <2> QED BY <2>1
<1> HIDE DEF share
<1>2. \A b \in Bins : P!Least(share, level[b]) \in Nat /\ P!Least(share, level[b]) <= level[b]
  BY <1>1 DEF MaterialType, P!Least
<1>3. \A b \in Bins : P!Drawn(n)[b] \in {0, P!Least(share, level[b])}
  <2>1. P!Cardinality(P!OpenBins) = Cardinality(P!OpenBins)
    BY PlantCardinality
  <2> QED BY <2>1 DEF share, P!Drawn
<1>4. \A b \in Bins : P!Drawn(n)[b] \in Nat /\ P!Drawn(n)[b] <= level[b]
  BY <1>2, <1>3 DEF MaterialType
<1>5. P!Drawn(n) = [b \in Bins |-> P!Drawn(n)[b]]
  BY DEF P!Drawn
<1> QED BY <1>4, <1>5

(* What is loaded comes to lie on the belt; a belt that moves hands on     *)
(* what lay at its head.                                                   *)
LEMMA BeltBalance ==
  ASSUME MaterialType, NEW n, NEW loaded \in Nat
  PROVE  /\ P!BeltStepped(n, loaded) \in [1 .. Transit -> Nat]
         /\ P!Delivered(n, loaded) \in Nat
         /\ Sum(P!BeltStepped(n, loaded), 1 .. Transit) + P!Delivered(n, loaded)
              = Sum(belt, 1 .. Transit) + loaded
<1>1. PICK K : K = 1 .. Transit
  OBVIOUS
<1>2. PICK new : new = P!BeltLoaded(loaded)
  OBVIOUS
<1>3. Transit \in K /\ 1 \in K /\ IsFiniteSet(K) /\ belt \in [K -> Nat]
  <2>1. Transit \in Int /\ 1 <= Transit
    BY PlantAssumption
  <2>2. IsFiniteSet(1 .. Transit)
    BY <2>1, FS_Interval
  <2> QED BY <1>1, <2>1, <2>2 DEF MaterialType
<1>4. /\ new \in [K -> Nat] /\ new[Transit] = belt[Transit] + loaded
      /\ \A k \in K \ {Transit} : new[k] = belt[k]
  BY <1>2, <1>3 DEF P!BeltLoaded
<1>5. Sum(new, K) = Sum(belt, K) + loaded /\ Sum(new, K) \in Nat /\ Sum(belt, K) \in Nat
  <2>1. PICK R : R = K \ {Transit}
    OBVIOUS
  <2>2. IsFiniteSet(R)
    BY <1>3, <2>1, FS_Subset
  <2>3. Sum(new, K) = new[Transit] + Sum(new, R)
    BY <1>3, <1>4, <2>1, SumTake
  <2>4. Sum(belt, K) = belt[Transit] + Sum(belt, R)
    BY <1>3, <2>1, SumTake
  <2>5. Sum(new, R) = Sum(belt, R)
    BY <1>4, <2>1, <2>2, SumAgree
  <2>6. Sum(belt, R) \in Nat
    <3>1. \A k \in R : belt[k] \in Nat
      BY <1>3, <2>1
    <3> QED BY <2>2, <3>1, SumNat
  <2> QED BY <1>3, <1>4, <2>3, <2>4, <2>5, <2>6
<1>6. CASE ~P!Moving(n.conveyor.motor)
  BY <1>1, <1>2, <1>4, <1>5, <1>6 DEF P!BeltStepped, P!Delivered
<1>7. CASE P!Moving(n.conveyor.motor)
  <2>1. PICK on : on = [k \in 1 .. Transit |-> IF k = Transit THEN 0 ELSE new[k + 1]]
    OBVIOUS
  <2>2. P!BeltStepped(n, loaded) = on /\ P!Delivered(n, loaded) = new[1]
    BY <1>2, <1>7, <2>1 DEF P!BeltStepped, P!Delivered
  <2>3. PICK t \in Nat : t = Transit - 1
    BY PlantAssumption
  <2>4. \A k \in 1 .. t : k \in K /\ k # Transit /\ k + 1 \in K
    BY <1>1, <2>3, PlantAssumption
  <2>5. \A k \in K : k # Transit => k + 1 \in K
    BY <1>1, PlantAssumption
  <2>6. on \in [K -> Nat] /\ on[Transit] = 0 /\ \A k \in 1 .. t : on[k] = new[k + 1]
    BY <1>1, <1>3, <1>4, <2>1, <2>4, <2>5
  <2>7. K \ {Transit} = 1 .. t /\ K \ {1} = 2 .. t + 1
    BY <1>1, <2>3, PlantAssumption
  <2>8. Sum(on, 1 .. t) = Sum(new, 2 .. t + 1)
    <3>1. \A k \in 1 .. t : new[k + 1] \in Int /\ on[k] = new[k + 1]
      BY <1>4, <2>4, <2>6
    <3> QED BY <3>1, SumShift
  <2>9. Sum(on, K) = on[Transit] + Sum(on, 1 .. t)
    <3>1. \A k \in K : on[k] \in Int
      BY <2>6
    <3>2. Sum(on, K) = on[Transit] + Sum(on, K \ {Transit})
      BY <1>3, <3>1, SumTake
    <3> QED BY <2>7, <3>2
  <2>10. Sum(new, K) = new[1] + Sum(new, 2 .. t + 1)
    <3>1. \A k \in K : new[k] \in Int
      BY <1>4
    <3>2. Sum(new, K) = new[1] + Sum(new, K \ {1})
      BY <1>3, <3>1, SumTake
    <3> QED BY <2>7, <3>2
  <2>11. Sum(on, 1 .. t) \in Nat
    <3>1. IsFiniteSet(1 .. t)
      BY FS_Interval
    <3>2. \A k \in 1 .. t : on[k] \in Nat
      BY <2>4, <2>6
    <3> QED BY <3>1, <3>2, SumNat
  <2>12. new[1] \in Nat
    BY <1>3, <1>4
  <2> QED BY <1>1, <1>5, <2>2, <2>6, <2>8, <2>9, <2>10, <2>11, <2>12
<1> QED BY <1>6, <1>7

(* One step of the plant.                                                  *)
LEMMA ScanKeepsMaterial ==
  ASSUME MaterialInv, start_kg' = start_kg, NEW c, P!Scan(c)
  PROVE  MaterialInv'
<1>1. PICK n, m : /\ m = P!Moved(c, n)
                  /\ level' = [b \in Bins |-> level[b] - m.drawn[b]]
                  /\ belt' = P!BeltStepped(n, m.loaded)
                  /\ hopper' = hopper + m.accepted - m.out
                  /\ discharged' = discharged + m.out
                  /\ spilled' = spilled + P!Spilt(m)
  BY DEF P!Scan
<1>2. PICK drawn : drawn = P!Drawn(n)
  OBVIOUS
<1>3. drawn \in [Bins -> Nat] /\ \A b \in Bins : drawn[b] <= level[b]
  BY <1>2, DrawnWithinLevels DEF MaterialInv
<1>4. /\ m.drawn = drawn /\ m.offered = Sum(drawn, Bins)
      /\ m.loaded = P!Loaded(c, m.offered)
      /\ m.delivered = P!Delivered(n, m.loaded)
      /\ m.accepted = P!Accepted(m.delivered)
      /\ m.out = P!Discharge(hopper + m.accepted)
  <2>1. P!SumFunction(drawn) = Sum(drawn, Bins)
    BY <1>3, PlantSums
  <2> QED BY <1>1, <1>2, <2>1 DEF P!Moved
<1>5. Sum(drawn, Bins) \in Nat /\ Sum(level, Bins) \in Nat
  BY <1>3, BinsAreFinite, SumNat DEF MaterialInv, MaterialType
<1>6. /\ level' \in [Bins -> Nat]
      /\ Sum(level', Bins) = Sum(level, Bins) - Sum(drawn, Bins)
  <2>1. \A b \in Bins : /\ level[b] \in Int /\ drawn[b] \in Int
                        /\ level'[b] = level[b] - drawn[b]
    BY <1>1, <1>3, <1>4 DEF MaterialInv, MaterialType
  <2>2. level' \in [Bins -> Nat]
    BY <1>1, <1>3, <1>4 DEF MaterialInv, MaterialType
  <2> QED BY <2>1, <2>2, BinsAreFinite, SumMinus
<1>7. m.loaded \in Nat /\ m.loaded <= m.offered
  BY <1>4, <1>5 DEF P!Loaded
<1>8. /\ belt' \in [1 .. Transit -> Nat] /\ m.delivered \in Nat
      /\ Sum(belt', 1 .. Transit) + m.delivered = Sum(belt, 1 .. Transit) + m.loaded
  BY <1>1, <1>4, <1>7, BeltBalance DEF MaterialInv
<1>9. /\ m.accepted \in Nat /\ m.accepted <= m.delivered /\ hopper + m.accepted <= Capacity
  <2>1. Capacity - hopper \in Nat /\ hopper \in Nat
    BY PlantAssumption DEF MaterialInv, MaterialType
  <2>2. m.accepted = IF m.delivered < Capacity - hopper THEN m.delivered ELSE Capacity - hopper
    BY <1>4 DEF P!Accepted, P!Least
  <2> HIDE DEF MaterialInv
  <2>3. m.delivered \in Nat /\ Capacity \in Nat
    BY <1>8, PlantAssumption
  <2> QED BY <2>1, <2>2, <2>3
<1>10. m.out \in Nat /\ m.out <= hopper + m.accepted
  BY <1>4, <1>9, PlantAssumption DEF P!Discharge, P!Least, MaterialInv, MaterialType
<1>11. P!Spilt(m) = (m.offered - m.loaded) + (m.delivered - m.accepted)
  BY DEF P!Spilt
<1>12. MaterialType'
  <2>1. hopper \in Nat /\ discharged \in Nat /\ spilled \in Nat /\ Capacity \in Nat
    BY PlantAssumption DEF MaterialInv, MaterialType
  <2>2. hopper' \in 0 .. Capacity
    BY <1>1, <1>9, <1>10, <2>1
  <2>3. discharged' \in Nat
    BY <1>1, <1>10, <2>1
  <2>4. spilled' \in Nat
    BY <1>1, <1>4, <1>5, <1>7, <1>8, <1>9, <1>11, <2>1
  <2> QED BY <1>6, <1>8, <2>2, <2>3, <2>4 DEF MaterialType
<1>13. Sum(belt, 1 .. Transit) \in Nat /\ Sum(belt', 1 .. Transit) \in Nat
  <2>1. IsFiniteSet(1 .. Transit)
    <3>1. Transit \in Int
      BY PlantAssumption
    <3> QED BY <3>1, FS_Interval
  <2>2. \A k \in 1 .. Transit : belt[k] \in Nat /\ belt'[k] \in Nat
    BY <1>8 DEF MaterialInv, MaterialType
  <2> QED BY <2>1, <2>2, SumNat
<1>14. P!Accounted'
         = Sum(level', Bins) + Sum(belt', 1 .. Transit) + hopper' + discharged' + spilled'
  BY <1>12, PlantSums DEF MaterialType, P!Accounted, P!OnBelt
<1>15. P!Accounted
         = Sum(level, Bins) + Sum(belt, 1 .. Transit) + hopper + discharged + spilled
  BY AccountedIsASum DEF MaterialInv
<1>16. P!Accounted' = P!Accounted
  <2>1. PICK l, b, drew \in Nat :
          l = Sum(level, Bins) /\ b = Sum(belt, 1 .. Transit) /\ drew = Sum(drawn, Bins)
    BY <1>5, <1>13
  <2>2. PICK loaded, delivered, accepted, out \in Nat :
          loaded = m.loaded /\ delivered = m.delivered /\ accepted = m.accepted /\ out = m.out
    BY <1>7, <1>8, <1>9, <1>10
  <2>3. hopper \in Nat /\ discharged \in Nat /\ spilled \in Nat
    BY PlantAssumption DEF MaterialInv, MaterialType
  <2>4. hopper' = hopper + accepted - out /\ discharged' = discharged + out
    BY <1>1, <2>2
  <2>5. spilled' = spilled + ((drew - loaded) + (delivered - accepted))
    BY <1>1, <1>4, <1>11, <2>1, <2>2
  <2>6. Sum(level', Bins) = l - drew
    BY <1>6, <2>1
  <2>7. PICK t \in Nat : t = Sum(belt', 1 .. Transit)
    BY <1>13
  <2>8. t + delivered = b + loaded
    BY <1>8, <2>1, <2>2, <2>7
  <2>9. (l - drew) + t + hopper' + discharged' + spilled'
          = l + b + hopper + discharged + spilled
    BY <2>3, <2>4, <2>5, <2>8
  <2> QED BY <1>14, <1>15, <2>1, <2>6, <2>7, <2>9
<1> QED BY <1>12, <1>16 DEF MaterialInv, MaterialConserved

LEMMA MaterialInductive ==
  /\ RigInit => MaterialInv
  /\ MaterialInv /\ [RigNext]_all => MaterialInv'
<1>1. ASSUME RigInit PROVE MaterialInv
  <2>1. hopper = 0 /\ discharged = 0 /\ spilled = 0 /\ start_kg = P!Accounted
    BY <1>1 DEF RigInit, P!Init
  <2>2. level \in [Bins -> Nat] /\ belt \in [1 .. Transit -> Nat]
    BY <1>1, PlantAssumption DEF RigInit, P!Init
  <2> QED BY <2>1, <2>2, PlantAssumption DEF MaterialInv, MaterialType, MaterialConserved
<1>2. ASSUME MaterialInv, [RigNext]_all PROVE MaterialInv'
  <2>1. CASE Tick
    BY <1>2, <2>1, ScanKeepsMaterial DEF Tick
  <2>2. CASE UNCHANGED <<level, belt, hopper, discharged, spilled, start_kg>>
    <3>1. P!Accounted' = P!Accounted
      BY <2>2 DEF P!Accounted, P!OnBelt
    <3> QED BY <1>2, <2>2, <3>1 DEF MaterialInv, MaterialType, MaterialConserved
  <2>3. Break \/ Mend => UNCHANGED <<level, belt, hopper, discharged, spilled>>
    BY DEF Break, Mend, P!Inject, P!Remove, P!SetSensor, P!ResetFeeder, P!ResetConveyor,
           P!ResetGate, P!ResetOutlet, P!material
  <2> QED BY <1>2, <2>1, <2>2, <2>3 DEF RigNext, all, plant, checker
<1> QED BY <1>1, <1>2

(* MaterialConserved: through every order of faults, requests and timings, *)
(* what is in the bins, on the belt and in the hopper, and what has been   *)
(* discharged and spilled, add up to what there was at the start.          *)
THEOREM NoMaterialIsLost == RigSpec => []MaterialConserved
<1>1. MaterialInv => MaterialConserved
  BY DEF MaterialInv
<1> QED BY <1>1, MaterialInductive, PTL DEF RigSpec

-----------------------------------------------------------------------------
(* The line on its plant.                                                  *)

(* What the plant publishes is an image, through whatever instruments.     *)
LEMMA ImageIsPublished ==
  ASSUME io \in InputImage, NEW truth \in InputImage
  PROVE  P!Published(truth) \in InputImage
<1>1. PICK p : p = P!Published(truth)
  OBVIOUS
<1> DEFINE Tags == DOMAIN io
<1>2. /\ p = [tag \in Tags |-> p[tag]]
      /\ \A tag \in Tags :
           p[tag] \in IF tag = "weight_failed" THEN {TRUE, FALSE}
                     ELSE IF tag \in P!Signals THEN {io[tag], truth[tag], P!Lost(tag)}
                     ELSE {truth[tag]}
  <2>1. p = [tag \in Tags |->
               CASE tag = "weight_failed" -> sensor["weight"] = "failed"
                 [] tag \in P!Signals /\ sensor[tag] = "stuck"  -> io[tag]
                 [] tag \in P!Signals /\ sensor[tag] = "failed" -> P!Lost(tag)
                 [] OTHER -> truth[tag]]
    BY <1>1 DEF P!Published
  <2>2. ASSUME NEW tag \in Tags
        PROVE  p[tag] \in IF tag = "weight_failed" THEN {TRUE, FALSE}
                     ELSE IF tag \in P!Signals THEN {io[tag], truth[tag], P!Lost(tag)}
                     ELSE {truth[tag]}
    <3>1. "weight_failed" \notin P!Signals
      BY DEF P!Signals, P!Undiagnosed
    <3> QED BY <2>1, <3>1
  <2> QED BY <2>1, <2>2
<1>3. Tags = {"estop_healthy", "feeder_running", "feeder_faulted", "plugged",
              "conveyor_running", "conveyor_faulted", "motion", "current_high", "flow_low",
              "gate_open", "gate_closed", "outlet_open", "outlet_closed", "bin_low",
              "hopper_high", "high_high_switch", "weight", "weight_failed", "downstream_ready"}
  BY DEF InputImage
<1>4. \A tag \in {"gate_open", "gate_closed", "bin_low"} : p[tag] \in [Bins -> BOOLEAN]
  BY <1>2, <1>3 DEF InputImage, P!Signals, P!Undiagnosed
<1>5. p["weight"] \in Nat
  BY <1>2, <1>3 DEF InputImage, P!Lost, P!Signals, P!Undiagnosed
<1>6. \A tag \in Tags \ {"gate_open", "gate_closed", "bin_low", "weight"} : p[tag] \in BOOLEAN
  <2>1. SUFFICES ASSUME NEW tag \in Tags \ {"gate_open", "gate_closed", "bin_low", "weight"}
                 PROVE  p[tag] \in BOOLEAN
    OBVIOUS
  <2>2. io[tag] \in BOOLEAN /\ truth[tag] \in BOOLEAN
    BY <1>3, <2>1 DEF InputImage
  <2>3. P!Lost(tag) \in BOOLEAN
    <3>1. tag # "weight"
      BY <2>1
    <3>2. P!Lost(tag) = (tag \in {"hopper_high", "high_high_switch"})
      BY <3>1, Zenon DEF P!Lost
    <3>3. (tag \in {"hopper_high", "high_high_switch"}) \in BOOLEAN
      OBVIOUS
    <3> QED BY <3>2, <3>3, Zenon
  <2> QED BY <1>2, <2>1, <2>2, <2>3
<1>7. p \in InputImage
  BY <1>2, <1>3, <1>4, <1>5, <1>6 DEF InputImage
<1> QED BY <1>1, <1>7

LEMMA TruthIsAnImage ==
  ASSUME MaterialInv, Motors, start_kg' = start_kg, NEW c, P!Scan(c)
  PROVE  \E truth \in InputImage : io' = P!Published(truth)
<1>1. PICK n, m : /\ n = P!Stepped(c) /\ feeder' = n.feeder /\ conveyor' = n.conveyor
                  /\ hopper' = hopper + m.accepted - m.out
                  /\ io' = P!Published(P!Truth(n, m))
  BY DEF P!Scan
<1>2. n.feeder.motor.fault \in BOOLEAN /\ n.conveyor.motor.fault \in BOOLEAN
  BY <1>1, TickMotors DEF Motors, Latched, IsMotor
<1>3. n.feeder.plugged \in BOOLEAN
  BY <1>1 DEF P!Stepped, P!FeederStepped
<1>4. hopper + m.accepted - m.out \in Nat
  BY <1>1, ScanKeepsMaterial, PlantAssumption DEF MaterialInv, MaterialType
<1>5. P!Truth(n, m) \in InputImage
  BY <1>2, <1>3, <1>4 DEF P!Truth, P!Running, P!Moving, P!IsOpen, P!IsClosed, InputImage
<1> QED BY <1>1, <1>5

(* What holds of the line and of what it reads, on this plant.             *)
RigInv == LineInv /\ MaterialInv /\ Motors /\ io \in InputImage

LEMMA LineScans ==
  ASSUME RigInv, Tick
  PROVE  View(io) \in ViewType /\ ScanOf(View(io))
  BY ViewIsTyped DEF RigInv, LineInv, Tick

LEMMA RigInductive ==
  /\ RigInit => RigInv
  /\ RigInv /\ [RigNext]_all => RigInv'
<1>1. ASSUME RigInit PROVE RigInv
  <2>1. LineInv
    BY <1>1, LineInvInductive DEF RigInit
  <2>2. io \in InputImage
    BY <1>1, <2>1 DEF RigInit, LineInv, TypeOK
  <2> QED BY <1>1, <2>1, <2>2, MaterialInductive, MotorsInductive DEF RigInv
<1>2. ASSUME RigInv, [RigNext]_all PROVE RigInv'
  <2>1. MaterialInv' /\ Motors'
    BY <1>2, MaterialInductive, MotorsInductive DEF RigInv
  <2>2. CASE Tick
    <3>1. LineInv'
      BY <1>2, <2>2, LineScans, ScanOfKeeps DEF RigInv
    <3>2. PICK c : P!Scan(c)
      BY <2>2 DEF Tick
    <3>3. start_kg' = start_kg
      BY <2>2 DEF Tick
    <3>4. io' \in InputImage
      BY <1>2, <3>2, <3>3, TruthIsAnImage, ImageIsPublished DEF RigInv
    <3> QED BY <2>1, <3>1, <3>4 DEF RigInv
  <2>3. CASE Operator /\ UNCHANGED plant
    <3>1. LineInv'
      BY <1>2, <2>3, ControlKept, OperatorKeeps, OperatorType DEF RigInv, LineInv
    <3> QED BY <1>2, <2>1, <2>3, <3>1 DEF RigInv, plant
  <2>4. CASE UNCHANGED line /\ UNCHANGED io
    <3>1. TypeOK'
      BY <1>2, <2>4 DEF line, TypeOK, RigInv, LineInv
    <3>2. LineInv'
      BY <1>2, <2>4, <3>1, ControlKept DEF line, RigInv
    <3> QED BY <1>2, <2>1, <2>4, <3>2 DEF RigInv
  <2>5. Break \/ Mend => UNCHANGED io
    BY <1>2, FieldKeeps DEF RigInv
  <2> QED BY <1>2, <2>2, <2>3, <2>4, <2>5 DEF RigNext, all, plant
<1> QED BY <1>1, <1>2

(* The whole line holds its invariant on its own plant, whatever breaks.   *)
THEOREM TheLineOnItsPlant == RigSpec => []LineInv
<1>1. RigInv => LineInv
  BY DEF RigInv
<1> QED BY <1>1, RigInductive, PTL DEF RigSpec

(* A line that may be handed any image at all is what the rig implements:  *)
(* each of its ticks is a scan, and what the plant and the field do is no  *)
(* step of it.  So all that is proved of the line holds on the plant.      *)
THEOREM TheRigIsALine ==
  ASSUME \A c \in OutputImage : InputImage \subseteq Inputs(c)
  PROVE  RigSpec => Spec
<1>1. RigInit => Init
  BY DEF RigInit
<1>2. RigInv /\ [RigNext]_all => [Next]_vars
  <2> SUFFICES ASSUME RigInv, [RigNext]_all PROVE [Next]_vars
    OBVIOUS
  <2>1. CASE Tick
    <3>1. cmd \in OutputImage /\ io \in InputImage
      BY DEF RigInv, LineInv, TypeOK
    <3>2. View(io) \in Views
      BY <3>1 DEF Views
    <3> QED BY <2>1, <3>2, LineScans DEF Next, Scan
  <2>2. CASE UNCHANGED line
    BY <2>2 DEF line, vars
  <2> QED BY <2>1, <2>2 DEF RigNext, all, Next
<1> QED BY <1>1, <1>2, RigInductive, PTL DEF RigSpec, Spec

-----------------------------------------------------------------------------
(* What spills.                                                            *)

(* A motor runs after a step only under a run command and with power.      *)
LEMMA OnlyACommandRuns ==
  ASSUME NEW m, Latched(m), NEW run \in BOOLEAN, NEW start, NEW stop, NEW fails,
         NEW trips \in BOOLEAN,
         P!MotorStep(P!Energised(P!Commanded(m, run)), start, stop, fails, trips).state
           = "RUNNING"
  PROVE  run /\ "estop" \notin injected
<1>1. PICK c : c = P!Commanded(m, run)
  OBVIOUS
<1>2. PICK e : e = P!Energised(c)
  OBVIOUS
<1>3. Latched(c) /\ c.run = run
  BY <1>1, CommandedKeeps
<1>4. Latched(e) /\ e.run \in BOOLEAN
      /\ (e.run => run)
      /\ ("estop" \in injected => e.state \in {"FAULT", "ESTOP"} /\ ~e.run)
  <2>1. CASE "estop" \in injected
    <3>1. e = P!PowerOff(c)
      BY <1>2, <2>1 DEF P!Energised
    <3>2. e.run = FALSE
      BY <1>3, <3>1 DEF Latched, IsMotor, P!PowerOff, P!Commanded, P!Enter
    <3> QED BY <1>3, <3>1, <3>2, PowerKeeps
  <2>2. CASE "estop" \notin injected
    <3>1. e = P!PowerOn(c)
      BY <1>2, <2>2 DEF P!Energised
    <3> QED BY <1>3, <2>2, <3>1, PowerKeeps
  <2> QED BY <2>1, <2>2
<1>5. ASSUME ~e.run
      PROVE  P!MotorStep(e, start, stop, fails, trips).state # "RUNNING"
  <2> DEFINE n == P!MotorStep(e, start, stop, fails, trips)
  <2>1. CASE e.state = "RUNNING" /\ trips
    <3>1. n = P!Trip(e)
      BY <2>1 DEF P!MotorStep
    <3> QED BY <1>4, <3>1, TripLatches
  <2>2. CASE e.state = "RUNNING" /\ ~trips
    <3>1. PICK b : b = P!Enter(e, "STOPPING")
      OBVIOUS
    <3>2. Latched(b) /\ b.state = "STOPPING"
      BY <1>4, <2>2, <3>1, EnterKeeps DEF P!MotorState
    <3>3. n = P!Delayed(b, stop, FALSE, "STOPPED")
      BY <1>5, <2>2, <3>1 DEF P!MotorStep
    <3>4. \A blocked : P!Delayed(b, stop, blocked, "STOPPED").state \in {"STOPPING", "STOPPED"}
      BY <3>2, DelayedKeeps DEF P!MotorState
    <3> QED BY <3>3, <3>4
  <2>3. CASE e.state = "STARTING"
    <3>1. n = P!Enter(e, "STOPPED")
      BY <1>5, <2>3 DEF P!MotorStep
    <3> QED BY <1>4, <2>3, <3>1, EnterKeeps DEF P!MotorState
  <2>4. CASE e.state = "STOPPING"
    <3>1. n = P!Delayed(e, stop, FALSE, "STOPPED")
      BY <1>5, <2>4 DEF P!MotorStep
    <3>2. \A blocked : P!Delayed(e, stop, blocked, "STOPPED").state \in {"STOPPING", "STOPPED"}
      BY <1>4, <2>4, DelayedKeeps DEF P!MotorState
    <3> QED BY <3>1, <3>2
  <2>5. CASE e.state \notin {"RUNNING", "STARTING", "STOPPING"}
    BY <1>5, <2>5 DEF P!MotorStep
  <2> QED BY <2>1, <2>2, <2>3, <2>4, <2>5
<1>6. e.run
  BY <1>1, <1>2, <1>4, <1>5
<1> QED BY <1>4, <1>6

(* So material is drawn only under a feeder command, and the belt moves    *)
(* only under its own.                                                     *)
LEMMA NothingMovesUncommanded ==
  ASSUME RigInv, NEW c, c.feeder \in BOOLEAN, c.conveyor \in BOOLEAN, NEW n, n = P!Stepped(c)
  PROVE  /\ n.feeder.motor.state = "RUNNING" => c.feeder /\ "estop" \notin injected
         /\ n.conveyor.motor.state = "RUNNING" => c.conveyor /\ "estop" \notin injected
<1>1. Latched(feeder.motor) /\ Latched(conveyor.motor)
  BY DEF RigInv, Motors
<1>2. n.feeder.motor = P!FeederMotor(c)
  BY DEF P!Stepped, P!FeederStepped
<1>3. n.feeder.motor.state = "RUNNING" => c.feeder /\ "estop" \notin injected
  <2>1. ("feeder_trip" \in injected) \in BOOLEAN
    OBVIOUS
  <2> QED BY <1>1, <1>2, <2>1, OnlyACommandRuns, Zenon DEF P!FeederMotor
<1>4. PICK k : k = P!MotorStep(P!ConveyorBefore(c), ConveyorStart, MotorStop,
                               "conveyor_fail_to_start" \in injected,
                               "conveyor_trip" \in injected)
  OBVIOUS
<1>5. k.state = "RUNNING" => c.conveyor /\ "estop" \notin injected
  <2>1. ("conveyor_trip" \in injected) \in BOOLEAN
    OBVIOUS
  <2> QED BY <1>1, <1>4, <2>1, OnlyACommandRuns, Zenon DEF P!ConveyorBefore
<1>6. n.conveyor.motor \in {k, P!Overload(k)}
  BY <1>4 DEF P!Stepped, P!ConveyorStepped
<1>7. P!Overload(k).state = "RUNNING" => k.state = "RUNNING"
  BY DEF P!Overload, P!Running
<1> QED BY <1>3, <1>5, <1>6, <1>7

(* The belt that the feeder feeds is the one that moved before the step:   *)
(* without an E-stop a command alone neither starts nor stops it.          *)
LEMMA BeltBeforeTheStep ==
  ASSUME RigInv, "estop" \notin injected, NEW c
  PROVE  P!Moving(P!ConveyorBefore(c)) <=> P!Moving(conveyor.motor)
<1>1. PICK e : e = P!Commanded(conveyor.motor, c.conveyor)
  OBVIOUS
<1>2. Latched(e) /\ e.state = conveyor.motor.state
  BY <1>1, CommandedKeeps DEF RigInv, Motors
<1>3. P!ConveyorBefore(c) = P!PowerOn(e)
  BY <1>1 DEF P!ConveyorBefore, P!Energised
<1>4. P!PowerOn(e).state = "RUNNING" <=> e.state = "RUNNING"
  BY <1>2, PowerKeeps DEF P!PowerOn
<1> QED BY <1>2, <1>3, <1>4 DEF P!Moving, P!Running

(* With the feeder not running nothing is offered to the belt.             *)
LEMMA NothingDrawn ==
  ASSUME RigInv, NEW n, n.feeder.motor.state # "RUNNING"
  PROVE  P!SumFunction(P!Drawn(n)) = 0
<1>1. PICK d : d = P!Drawn(n)
  OBVIOUS
<1>2. DOMAIN d = Bins /\ \A b \in Bins : d[b] = 0
  BY <1>1 DEF P!Drawn, P!Running
<1>3. Sum(d, Bins) = 0
  BY <1>2, BinsAreFinite, SumZero
<1> QED BY <1>1, <1>2, <1>3, PlantSums

(* In the tick the hopper was filled to its rim, before anything left it,  *)
(* and what the belt delivered did not fit.                                *)
AtTheRim == hopper' + (discharged' - discharged) = Capacity
DoesNotFit == Capacity - hopper < P!Moved(cmd', P!Stepped(cmd')).delivered

(* One tick: what spills was fed onto a belt that the image still showed   *)
(* moving and that has just been lost, or came to a hopper that was full.  *)
LEMMA TickSpills ==
  ASSUME RigInv, Tick, spilled' # spilled, state # "STARTING"
  PROVE  (~P!Moving(conveyor.motor) /\ Confirmed(io)) \/ (AtTheRim /\ DoesNotFit)
<1>1. View(io) \in ViewType /\ ScanOf(View(io)) /\ View(io).in = io
  BY LineScans DEF View
<1>2. cmd'.feeder \in BOOLEAN /\ cmd'.conveyor \in BOOLEAN
  BY <1>1, ScanOfKeeps DEF RigInv, LineInv, TypeOK, OutputImage
<1>3. PICK n, m : /\ n = P!Stepped(cmd') /\ m = P!Moved(cmd', n)
                  /\ hopper' = hopper + m.accepted - m.out
                  /\ discharged' = discharged + m.out
                  /\ spilled' = spilled + P!Spilt(m)
  BY DEF Tick, P!Scan
<1>4. /\ m.offered = P!SumFunction(P!Drawn(n))
      /\ m.loaded = P!Loaded(cmd', m.offered)
      /\ m.delivered = P!Delivered(n, m.loaded)
      /\ m.accepted = P!Accepted(m.delivered)
      /\ m.out = P!Discharge(hopper + m.accepted)
  BY <1>3 DEF P!Moved
<1>5. P!Spilt(m) = (m.offered - m.loaded) + (m.delivered - m.accepted)
  BY DEF P!Spilt
<1>6. m.offered \in Nat
  <2>1. P!Drawn(n) \in [Bins -> Nat]
    BY DrawnWithinLevels DEF RigInv, MaterialInv
  <2>2. P!SumFunction(P!Drawn(n)) = Sum(P!Drawn(n), Bins)
    BY <2>1, PlantSums
  <2> QED BY <1>4, <2>1, <2>2, BinsAreFinite, SumNat
<1>7. m.loaded \in Nat
  BY <1>4, <1>6 DEF P!Loaded
<1>8. m.delivered \in Nat
  BY <1>4, <1>7, BeltBalance DEF RigInv, MaterialInv
<1>9. hopper \in Nat /\ Capacity - hopper \in Nat /\ discharged \in Nat /\ spilled \in Nat
  BY PlantAssumption DEF RigInv, MaterialInv, MaterialType
<1>10. m.accepted = IF m.delivered < Capacity - hopper THEN m.delivered ELSE Capacity - hopper
  BY <1>4 DEF P!Accepted, P!Least
<1>11. CASE m.accepted # m.delivered
  <2>1. m.accepted = Capacity - hopper
    BY <1>10, <1>11
  <2>2. m.out \in Int
    BY <1>4, <1>9, <2>1, PlantAssumption DEF P!Discharge, P!Least
  <2>3. Capacity \in Nat
    BY PlantAssumption
  <2>4. AtTheRim
    BY <1>3, <1>9, <2>1, <2>2, <2>3 DEF AtTheRim
  <2>5. DoesNotFit
    BY <1>3, <1>8, <1>9, <1>10, <1>11 DEF DoesNotFit
  <2> QED BY <2>4, <2>5
<1>12. CASE m.loaded # m.offered
  <2>1. ~P!Moving(P!ConveyorBefore(cmd')) /\ m.offered # 0
    BY <1>4, <1>12 DEF P!Loaded
  <2>2. n.feeder.motor.state = "RUNNING"
    BY <1>4, <2>1, NothingDrawn
  <2>3. cmd'.feeder /\ "estop" \notin injected
    BY <1>2, <1>3, <2>2, NothingMovesUncommanded
  <2>4. ~P!Moving(conveyor.motor)
    BY <2>1, <2>3, BeltBeforeTheStep
  <2>5. Confirmed(io)
    BY <1>1, <2>3, FeederFollowsTheBelt DEF RigInv
  <2> QED BY <2>4, <2>5
<1>13. m.loaded # m.offered \/ m.accepted # m.delivered
  BY <1>3, <1>5, <1>6, <1>8, <1>9
<1> QED BY <1>11, <1>12, <1>13

(* Only a tick spills.                                                     *)
LEMMA OnlyATickSpills ==
  ASSUME [RigNext]_all, spilled' # spilled
  PROVE  Tick
  BY DEF RigNext, all, plant, Break, Mend, P!Inject, P!Remove, P!SetSensor, P!ResetFeeder,
         P!ResetConveyor, P!ResetGate, P!ResetOutlet, P!material

(* Whatever fails, and however much the bins hold: outside the start       *)
(* sequence nothing is spilled but in the tick that loses a belt the image *)
(* still showed moving, or over the rim of a full hopper.                  *)
THEOREM SpillsAreLossesOrOverflow ==
  RigSpec => [][spilled' # spilled /\ state # "STARTING" =>
                  (~P!Moving(conveyor.motor) /\ Confirmed(io)) \/ AtTheRim]_all
<1>1. RigInv /\ [RigNext]_all =>
        (spilled' # spilled /\ state # "STARTING" =>
           (~P!Moving(conveyor.motor) /\ Confirmed(io)) \/ AtTheRim)
  BY TickSpills, OnlyATickSpills
<1> QED BY <1>1, RigInductive, PTL DEF RigSpec

-----------------------------------------------------------------------------
(* Why the hopper is never filled to its rim.                              *)

(* Only the instruments that may stick are ever stuck, or failed.          *)
SensorInv ==
  /\ DOMAIN sensor = P!Signals
  /\ \A tag \in P!Signals : sensor[tag] = "stuck" => tag \in StickingSensors
  /\ \A tag \in P!Signals : sensor[tag] = "failed" => tag \in FailingSensors

LEMMA SensorsInductive ==
  /\ RigInit => SensorInv
  /\ SensorInv /\ [RigNext]_all => SensorInv'
<1>1. RigInit => SensorInv
  BY DEF RigInit, P!Init, SensorInv
<1>2. ASSUME SensorInv, [RigNext]_all PROVE SensorInv'
  <2>1. CASE sensor' = sensor
    BY <1>2, <2>1 DEF SensorInv
  <2>2. ASSUME NEW tag, NEW what,
               \/ what = "stuck" /\ tag \in StickingSensors
               \/ what = "failed" /\ tag \in FailingSensors
               \/ what = "healthy",
               P!SetSensor(tag, what)
        PROVE  SensorInv'
    BY <1>2, <2>2 DEF SensorInv, P!SetSensor
  <2>3. CASE Break
    <3>1. \/ sensor' = sensor
          \/ \E tag \in StickingSensors : P!SetSensor(tag, "stuck")
          \/ \E tag \in FailingSensors : P!SetSensor(tag, "failed")
      BY <2>3 DEF Break, P!Inject
    <3> QED BY <2>1, <2>2, <3>1
  <2>4. CASE Mend
    <3>1. \/ sensor' = sensor
          \/ \E tag : P!SetSensor(tag, "healthy")
      BY <2>4 DEF Mend, P!Remove, P!ResetFeeder, P!ResetConveyor, P!ResetGate, P!ResetOutlet
    <3> QED BY <2>1, <2>2, <3>1
  <2>5. Tick => sensor' = sensor
    BY DEF Tick, P!Scan
  <2> QED BY <1>2, <2>1, <2>3, <2>4, <2>5 DEF RigNext, all, plant
<1> QED BY <1>1, <1>2

(* The motion switch, failed, reads no motion: only stuck it would lie.    *)
LEMMA MotionIsTrue ==
  ASSUME "motion" \notin StickingSensors, SensorInv, RigInv, NEW n, NEW m,
         io' = P!Published(P!Truth(n, m))
  PROVE  io'.motion => P!Moving(n.conveyor.motor)
<1>1. PICK truth : truth = P!Truth(n, m)
  OBVIOUS
<1>2. truth.motion = P!Moving(n.conveyor.motor)
  BY <1>1 DEF P!Truth
<1>3. "motion" \in DOMAIN io /\ "motion" \in P!Signals
  BY DEF RigInv, InputImage, P!Signals
<1>4. io'["motion"] \in {truth["motion"], P!Lost("motion")}
  BY <1>1, <1>3 DEF P!Published, SensorInv
<1>5. ~P!Lost("motion")
  BY DEF P!Lost
<1> QED BY <1>2, <1>4, <1>5

(* The instruments that the argument trusts: the motion switch and the     *)
(* high-high switch not to stick (failed, they read as lost), and the      *)
(* drive's fault signal to say what it is.                                 *)
Trusted ==
  /\ {"motion", "conveyor_faulted", "high_high_switch"} \cap StickingSensors = {}
  /\ "conveyor_faulted" \notin FailingSensors

LEMMA TrustedSignals ==
  ASSUME Trusted, SensorInv, RigInv, NEW n, NEW m, io' = P!Published(P!Truth(n, m))
  PROVE  /\ io'.motion => P!Moving(n.conveyor.motor)
         /\ n.conveyor.motor.fault => io'.conveyor_faulted
         /\ hopper + m.accepted - m.out >= HighHighPoint => io'.high_high_switch
<1>1. PICK truth : truth = P!Truth(n, m)
  OBVIOUS
<1>2. /\ truth.conveyor_faulted = n.conveyor.motor.fault
      /\ truth.high_high_switch = (hopper + m.accepted - m.out >= HighHighPoint)
  BY <1>1 DEF P!Truth
<1>3. {"conveyor_faulted", "high_high_switch"} \subseteq DOMAIN io \cap P!Signals
  BY DEF RigInv, InputImage, P!Signals
<1>4. io'.motion => P!Moving(n.conveyor.motor)
  BY MotionIsTrue DEF Trusted
<1>5. io'["conveyor_faulted"] = truth["conveyor_faulted"]
  BY <1>1, <1>3 DEF P!Published, Trusted, SensorInv
<1>6. io'["high_high_switch"] \in {truth["high_high_switch"], P!Lost("high_high_switch")}
  BY <1>1, <1>3 DEF P!Published, Trusted, SensorInv
<1>7. P!Lost("high_high_switch")
  BY DEF P!Lost
<1> QED BY <1>2, <1>4, <1>5, <1>6, <1>7

(* The feeder draws no more than its rate, through however many gates.     *)
LEMMA DrawnWithinRate ==
  ASSUME MaterialType, NEW n
  PROVE  P!SumFunction(P!Drawn(n)) \in Nat /\ P!SumFunction(P!Drawn(n)) <= FeedRate
<1>1. PICK d : d = P!Drawn(n)
  OBVIOUS
<1>2. PICK open : open = P!OpenBins
  OBVIOUS
<1>3. d \in [Bins -> Nat] /\ P!SumFunction(d) = Sum(d, Bins)
  BY <1>1, DrawnWithinLevels, PlantSums
<1>4. open \subseteq Bins /\ IsFiniteSet(open)
  BY <1>2, BinsAreFinite, FS_Subset DEF P!OpenBins
<1>5. Sum(d, Bins) \in Nat
  BY <1>3, BinsAreFinite, SumNat
<1>6. ZeroOutside(d, Bins, open)
  BY <1>1, <1>2 DEF P!Drawn, ZeroOutside
<1>7. Sum(d, Bins) = Sum(d, open)
  <2>1. IntOn(d, Bins)
    BY <1>3 DEF IntOn
  <2> QED BY <1>4, <1>6, <2>1, BinsAreFinite, SumSupport
<1>8. Sum(d, open) <= FeedRate
  <2>1. CASE open = {}
    BY <2>1, SumEmpty, PlantAssumption
  <2>2. CASE open # {}
    <3>1. PICK k : k = Cardinality(open)
      OBVIOUS
    <3>2. k \in Nat \ {0}
      BY <1>4, <2>2, <3>1, FS_CardinalityType, FS_EmptySet
    <3>3. PICK share \in Nat : share = FeedRate \div k
      BY <3>2, PlantAssumption
    <3>4. share * k <= FeedRate
      BY <3>2, <3>3, PlantAssumption
    <3>5. \A b \in open : d[b] \in Nat /\ d[b] <= share
      <4>1. P!Cardinality(P!OpenBins) = k
        BY <1>2, <3>1, PlantCardinality
      <4>2. \A b \in open : d[b] = 0 \/ d[b] = P!Least(share, level[b])
        BY <1>1, <1>2, <1>4, <2>2, <3>3, <4>1 DEF P!Drawn
      <4>3. \A b \in open : level[b] \in Nat
        BY <1>4 DEF MaterialType
      <4> QED BY <4>2, <4>3 DEF P!Least
    <3>6. Sum(d, open) <= share * k
      BY <1>4, <3>1, <3>5, SumAtMost
    <3>7. Sum(d, open) \in Nat /\ share * k \in Nat
      BY <1>3, <1>4, <3>2, SumNat
    <3> QED BY <3>4, <3>6, <3>7, PlantAssumption
  <2> QED BY <2>1, <2>2
<1> QED BY <1>1, <1>3, <1>5, <1>7, <1>8

(* A running motor that is to run on stops only in a trip.                 *)
LEMMA OnlyATripStops ==
  ASSUME NEW m, Latched(m), m.state = "RUNNING", m.run, NEW start, NEW stop, NEW fails,
         NEW trips \in BOOLEAN,
         P!MotorStep(m, start, stop, fails, trips).state # "RUNNING"
  PROVE  P!MotorStep(m, start, stop, fails, trips).fault
<1>1. trips
  BY DEF P!MotorStep
<1>2. P!MotorStep(m, start, stop, fails, trips) = P!Trip(m)
  BY <1>1 DEF P!MotorStep
<1>3. Latched(P!Trip(m)) /\ P!Trip(m).state = "FAULT"
  BY TripLatches
<1> QED BY <1>2, <1>3 DEF Latched

(* So a belt that moves under a command, and is not slipping, moves on or  *)
(* has tripped.                                                            *)
LEMMA BeltMovesOrTrips ==
  ASSUME RigInv, NEW c, c.conveyor = TRUE, NEW n, n = P!Stepped(c),
         P!Moving(P!ConveyorBefore(c)), ~P!Moving(n.conveyor.motor)
  PROVE  n.conveyor.motor.fault
<1>1. PICK e : e = P!ConveyorBefore(c)
  OBVIOUS
<1>2. PICK w : w = P!Commanded(conveyor.motor, c.conveyor)
  OBVIOUS
<1>3. Latched(w) /\ w.run = TRUE
  BY <1>2, CommandedKeeps DEF RigInv, Motors
<1>4. e.state = "RUNNING" /\ injected \cap {"belt_slip", "conveyor_jam"} = {}
  BY <1>1 DEF P!Moving, P!Running
<1>5. Latched(e) /\ e.run
  <2>1. e = P!PowerOn(w)
    <3>1. "estop" \notin injected
      <4>1. "estop" \in injected => e = P!PowerOff(w)
        BY <1>1, <1>2 DEF P!ConveyorBefore, P!Energised
      <4> QED BY <1>3, <1>4, <4>1, PowerKeeps
    <3> QED BY <1>1, <1>2, <3>1 DEF P!ConveyorBefore, P!Energised
  <2> QED BY <1>3, <2>1, PowerKeeps
<1>6. PICK k : k = P!MotorStep(e, ConveyorStart, MotorStop,
                               "conveyor_fail_to_start" \in injected,
                               "conveyor_trip" \in injected)
  OBVIOUS
<1>7. n.conveyor.motor \in {k, P!Overload(k)}
  BY <1>1, <1>6 DEF P!Stepped, P!ConveyorStepped
<1>8. CASE k.state # "RUNNING"
  <2>1. ("conveyor_trip" \in injected) \in BOOLEAN
    OBVIOUS
  <2>2. k.fault
    BY <1>4, <1>5, <1>6, <1>8, <2>1, OnlyATripStops, Zenon
  <2>3. P!Overload(k) = k
    BY <1>8 DEF P!Overload, P!Running
  <2> QED BY <1>7, <2>2, <2>3
<1>9. CASE k.state = "RUNNING"
  <2>1. P!Moving(k)
    BY <1>4, <1>9 DEF P!Moving, P!Running
  <2>2. n.conveyor.motor = P!Trip(k)
    BY <1>7, <1>9, <2>1 DEF P!Overload
  <2>3. Latched(k)
    <3>1. \A start, stop, fails, trips : Latched(P!MotorStep(e, start, stop, fails, trips))
      BY <1>5, MotorStepKeeps, Zenon
    <3> QED BY <1>6, <3>1
  <2> QED BY <2>2, <2>3, TripLatches DEF Latched
<1> QED BY <1>8, <1>9

(* The belt carries no more than a tick's feed at a time; the place where  *)
(* it is fed is empty as long as the image shows it moving, and when it is *)
(* not the start sequence has already read why; and a hopper filled to its *)
(* high-high switch is reported so.                                        *)
BeltInv ==
  /\ \A k \in 1 .. Transit : belt[k] <= FeedRate
  /\ belt[Transit] # 0 => ~io.motion
  /\ belt[Transit] # 0 /\ state = "STARTING" /\ auto.step \in {"GATE", "FEEDER"}
       => io.conveyor_faulted
  /\ hopper >= HighHighPoint => io.high_high_switch

(* In a scan that commands the feeder, or leaves the start sequence in its *)
(* last steps, the belt is free where it is fed.                           *)
LEMMA FedPlaceIsFree ==
  ASSUME RigInv, BeltInv, Tick,
         cmd'.feeder \/ (state' = "STARTING" /\ auto'.step \in {"GATE", "FEEDER"})
  PROVE  belt[Transit] = 0
<1>1. View(io) \in ViewType /\ ScanOf(View(io)) /\ View(io).in = io
  BY LineScans DEF View
<1>2. CASE cmd'.feeder /\ state # "STARTING"
  <2>1. Confirmed(io)
    BY <1>1, <1>2, FeederFollowsTheBelt DEF RigInv
  <2> QED BY <2>1 DEF Confirmed, BeltInv
<1>3. CASE state = "STARTING" \/ ~cmd'.feeder
  <2>1. /\ state = "STARTING" /\ ~io.conveyor_faulted
        /\ auto.step \in {"GATE", "FEEDER"} \/ Confirmed(io)
    BY <1>1, <1>3, StartNeedsABelt DEF RigInv
  <2> QED BY <2>1 DEF Confirmed, BeltInv
<1> QED BY <1>2, <1>3

(* A line that feeds commands its belt, after a step as before it.         *)
LEMMA FedBeltIsCommanded ==
  /\ LineInv => OneBinFeedsABelt
  /\ LineInv' => OneBinFeedsABelt'
<1>1. LineInv => OneBinFeedsABelt
  BY OneGate
<1> QED BY <1>1, PTL

(* What a tick loads, and what that leaves on the belt.                    *)
LEMMA TickLoads ==
  ASSUME Trusted, RigInv, SensorInv, BeltInv, Tick, NEW n, n = P!Stepped(cmd'),
         NEW m, m = P!Moved(cmd', n)
  PROVE  /\ m.loaded \in Nat /\ m.loaded <= FeedRate
         /\ m.loaded # 0 => /\ cmd'.feeder /\ belt[Transit] = 0
                            /\ P!Moving(n.conveyor.motor) \/ n.conveyor.motor.fault
         /\ P!BeltLoaded(m.loaded) \in [1 .. Transit -> Nat]
         /\ \A k \in 1 .. Transit : P!BeltLoaded(m.loaded)[k] <= FeedRate
<1>1. View(io) \in ViewType /\ ScanOf(View(io)) /\ View(io).in = io
  BY LineScans DEF View
<1>2. /\ cmd'.feeder \in BOOLEAN /\ cmd'.conveyor \in BOOLEAN
      /\ cmd'.feeder => cmd'.conveyor
  <2>1. LineInv'
    BY <1>1, ScanOfKeeps DEF RigInv
  <2>2. cmd'.feeder \in BOOLEAN /\ cmd'.conveyor \in BOOLEAN
    BY <2>1 DEF LineInv, TypeOK, OutputImage
  <2>3. cmd'.feeder => cmd'.conveyor
    BY <2>1, FedBeltIsCommanded DEF OneBinFeedsABelt
  <2> QED BY <2>2, <2>3
<1>3. m.offered = P!SumFunction(P!Drawn(n)) /\ m.loaded = P!Loaded(cmd', m.offered)
  BY DEF P!Moved
<1>4. m.offered \in Nat /\ m.offered <= FeedRate
  BY <1>3, DrawnWithinRate DEF RigInv, MaterialInv
<1>5. m.loaded \in Nat /\ m.loaded <= FeedRate
  BY <1>3, <1>4, PlantAssumption DEF P!Loaded
<1>6. ASSUME m.loaded # 0
      PROVE  /\ cmd'.feeder /\ belt[Transit] = 0
             /\ P!Moving(n.conveyor.motor) \/ n.conveyor.motor.fault
  <2>1. P!Moving(P!ConveyorBefore(cmd')) /\ m.offered # 0
    BY <1>3, <1>6 DEF P!Loaded
  <2>2. n.feeder.motor.state = "RUNNING"
    BY <1>3, <2>1, NothingDrawn
  <2>3. cmd'.feeder /\ cmd'.conveyor = TRUE
    BY <1>2, <2>2, NothingMovesUncommanded
  <2>4. belt[Transit] = 0
    BY <2>3, FedPlaceIsFree
  <2> QED BY <2>1, <2>3, <2>4, BeltMovesOrTrips
<1>7. /\ P!BeltLoaded(m.loaded) \in [1 .. Transit -> Nat]
      /\ \A k \in 1 .. Transit : P!BeltLoaded(m.loaded)[k] <= FeedRate
  <2>1. PICK loaded \in Nat : loaded = m.loaded /\ loaded <= FeedRate
    BY <1>5
  <2>2. belt \in [1 .. Transit -> Nat] /\ \A k \in 1 .. Transit : belt[k] <= FeedRate
    BY DEF RigInv, MaterialInv, MaterialType, BeltInv
  <2>3. loaded = 0 \/ belt[Transit] = 0
    BY <1>6, <2>1
  <2>4. P!BeltLoaded(loaded) = [belt EXCEPT ![Transit] = belt[Transit] + loaded]
    BY DEF P!BeltLoaded
  <2>5. Transit \in 1 .. Transit /\ FeedRate \in Nat
    BY PlantAssumption
  <2>6. belt[Transit] + loaded \in Nat /\ belt[Transit] + loaded <= FeedRate
    BY <2>1, <2>2, <2>3, <2>5
  <2> QED BY <2>1, <2>2, <2>4, <2>6
<1> QED BY <1>5, <1>6, <1>7

LEMMA TickKeepsBelt ==
  ASSUME Trusted, RigInv, SensorInv, BeltInv, Tick
  PROVE  BeltInv'
<1>1. View(io) \in ViewType /\ ScanOf(View(io)) /\ View(io).in = io
  BY LineScans DEF View
<1>2. PICK n, m : /\ n = P!Stepped(cmd') /\ m = P!Moved(cmd', n)
                  /\ hopper' = hopper + m.accepted - m.out
                  /\ belt' = P!BeltStepped(n, m.loaded)
                  /\ io' = P!Published(P!Truth(n, m))
  BY DEF Tick, P!Scan
<1>3. PICK carried : carried = P!BeltLoaded(m.loaded)
  OBVIOUS
<1>4. /\ m.loaded \in Nat
      /\ m.loaded # 0 => /\ cmd'.feeder /\ belt[Transit] = 0
                         /\ P!Moving(n.conveyor.motor) \/ n.conveyor.motor.fault
      /\ carried \in [1 .. Transit -> Nat]
      /\ \A k \in 1 .. Transit : carried[k] <= FeedRate
  BY <1>2, <1>3, TickLoads
<1>5. Transit \in Nat \ {0} /\ FeedRate \in Nat
  BY PlantAssumption
<1>6. /\ io'.motion => P!Moving(n.conveyor.motor)
      /\ n.conveyor.motor.fault => io'.conveyor_faulted
      /\ hopper' >= HighHighPoint => io'.high_high_switch
  BY <1>2, TrustedSignals
<1>7. CASE P!Moving(n.conveyor.motor)
  <2>1. belt' = [k \in 1 .. Transit |-> IF k = Transit THEN 0 ELSE carried[k + 1]]
    BY <1>2, <1>3, <1>7 DEF P!BeltStepped
  <2>2. belt'[Transit] = 0
    BY <1>5, <2>1
  <2>3. \A k \in 1 .. Transit : belt'[k] <= FeedRate
    <3>1. ASSUME NEW k \in 1 .. Transit, k # Transit
          PROVE  carried[k + 1] <= FeedRate
      <4>1. k + 1 \in 1 .. Transit
        BY <1>5, <3>1
      <4> QED BY <1>4, <4>1
    <3> QED BY <1>5, <2>1, <3>1
  <2> QED BY <1>6, <2>2, <2>3 DEF BeltInv
<1>8. CASE ~P!Moving(n.conveyor.motor)
  <2>1. belt' = carried
    BY <1>2, <1>3, <1>8 DEF P!BeltStepped
  <2>2. ASSUME belt'[Transit] # 0, state' = "STARTING", auto'.step \in {"GATE", "FEEDER"}
        PROVE  io'.conveyor_faulted
    <3>1. belt[Transit] = 0
      BY <2>2, FedPlaceIsFree
    <3>2. carried[Transit] = belt[Transit] + m.loaded
      BY <1>3, <1>5 DEF RigInv, MaterialInv, MaterialType, P!BeltLoaded
    <3>3. m.loaded # 0
      BY <2>1, <2>2, <3>1, <3>2
    <3> QED BY <1>4, <1>6, <1>8, <3>3
  <2> QED BY <1>4, <1>6, <1>8, <2>1, <2>2 DEF BeltInv
<1> QED BY <1>7, <1>8

LEMMA BeltInductive ==
  ASSUME Trusted
  PROVE  /\ RigInit => BeltInv
         /\ RigInv /\ SensorInv /\ BeltInv /\ [RigNext]_all => BeltInv'
<1>1. ASSUME RigInit PROVE BeltInv
  <2>1. hopper = 0 /\ belt = [k \in 1 .. Transit |-> 0] /\ io = P!AtRest(level)
    BY <1>1 DEF RigInit, P!Init
  <2>2. io.high_high_switch = (0 >= HighHighPoint)
    BY <2>1 DEF P!AtRest
  <2>3. Transit \in 1 .. Transit /\ FeedRate \in Nat
    BY PlantAssumption
  <2>4. belt[Transit] = 0 /\ \A k \in 1 .. Transit : belt[k] <= FeedRate
    BY <2>1, <2>3
  <2>5. hopper >= HighHighPoint => io.high_high_switch
    BY <2>1, <2>2
  <2> QED BY <2>4, <2>5 DEF BeltInv
<1>2. ASSUME RigInv, SensorInv, BeltInv, [RigNext]_all PROVE BeltInv'
  <2>1. CASE Tick
    BY <1>2, <2>1, TickKeepsBelt
  <2>2. CASE UNCHANGED <<belt, io, hopper, state, auto>>
    BY <1>2, <2>2 DEF BeltInv
  <2>3. Operator => UNCHANGED <<state, auto>>
    BY DEF Operator, Press, SelectMode, SelectSource, SetRecipe, SetHold, Set
  <2>4. Break \/ Mend => UNCHANGED <<belt, io, hopper>>
    BY DEF Break, Mend, P!Inject, P!Remove, P!SetSensor, P!ResetFeeder, P!ResetConveyor,
           P!ResetGate, P!ResetOutlet, P!material
  <2> QED BY <1>2, <2>1, <2>2, <2>3, <2>4 DEF RigNext, all, plant, line
<1> QED BY <1>1, <1>2

(* Between its high-high switch and its rim the hopper has room for what   *)
(* the belt still brings: the scan that reads the switch stops the belt.   *)
LEMMA AlwaysFits ==
  ASSUME Trusted, HighHighPoint + FeedRate <= Capacity + 1, RigInv, SensorInv, BeltInv, Tick
  PROVE  ~DoesNotFit
<1>1. View(io) \in ViewType /\ ScanOf(View(io)) /\ View(io).in = io
  BY LineScans DEF View
<1>2. PICK n, m : n = P!Stepped(cmd') /\ m = P!Moved(cmd', n)
  OBVIOUS
<1>3. m.delivered = P!Delivered(n, m.loaded)
  BY <1>2 DEF P!Moved
<1>4. hopper \in Nat /\ Capacity - hopper \in Nat /\ FeedRate \in Nat
      /\ HighHighPoint \in Nat /\ Capacity \in Nat
  BY PlantAssumption DEF RigInv, MaterialInv, MaterialType
<1>5. m.delivered \in Nat /\ m.delivered <= FeedRate
  <2>1. 1 \in 1 .. Transit
    BY PlantAssumption
  <2>2. PICK carried : carried = P!BeltLoaded(m.loaded)
    OBVIOUS
  <2>3. carried[1] \in Nat /\ carried[1] <= FeedRate
    BY <1>2, <2>1, <2>2, TickLoads
  <2> QED BY <1>3, <1>4, <2>2, <2>3 DEF P!Delivered
<1>6. CASE hopper >= HighHighPoint
  <2>1. HighHigh(View(io))
    BY <1>1, <1>6 DEF BeltInv, HighHigh
  <2>2. ~cmd'.conveyor
    BY <1>1, <2>1, HighHighStopsTheBelt DEF RigInv
  <2>3. cmd'.feeder \in BOOLEAN /\ cmd'.conveyor \in BOOLEAN
    BY <1>1, ScanOfKeeps DEF RigInv, LineInv, TypeOK, OutputImage
  <2>4. n.conveyor.motor.state # "RUNNING"
    BY <1>2, <2>2, <2>3, NothingMovesUncommanded
  <2>5. m.delivered = 0
    BY <1>3, <2>4 DEF P!Delivered, P!Moving, P!Running
  <2> QED BY <1>2, <1>4, <2>5 DEF DoesNotFit
<1>7. CASE ~(hopper >= HighHighPoint)
  <2>1. PICK d \in Nat : d = m.delivered /\ d <= FeedRate
    BY <1>5
  <2>2. d <= Capacity - hopper
    BY <1>4, <1>7, <2>1
  <2> QED BY <1>2, <1>4, <2>1, <2>2 DEF DoesNotFit
<1> QED BY <1>6, <1>7

(* OnlyALossSpills: with the instruments it reads trusted, and the hopper  *)
(* with a tick's feed of room above its high-high point, nothing is        *)
(* spilled outside the start sequence but in the tick that loses a belt    *)
(* the image still showed moving, whatever else fails, and however much    *)
(* more than the hopper holds is in the bins.                              *)
THEOREM NothingElseSpills ==
  ASSUME Trusted, HighHighPoint + FeedRate <= Capacity + 1
  PROVE  RigSpec => OnlyALossSpills
<1>1. RigInv /\ SensorInv /\ BeltInv /\ [RigNext]_all =>
        (spilled' # spilled /\ state # "STARTING" =>
           ~P!Moving(conveyor.motor) /\ Confirmed(io))
  BY TickSpills, OnlyATickSpills, AlwaysFits
<1>2. RigInit => SensorInv /\ BeltInv
  BY SensorsInductive, BeltInductive
<1>3. RigInv /\ SensorInv /\ BeltInv /\ [RigNext]_all => SensorInv' /\ BeltInv'
  BY SensorsInductive, BeltInductive
<1> QED BY <1>1, <1>2, <1>3, RigInductive, PTL DEF RigSpec, OnlyALossSpills

-----------------------------------------------------------------------------
(* Why a stop leaves the belt empty.                                       *)

(* The belt from place k on carries nothing.                               *)
EmptyFrom(k) == \A j \in 1 .. Transit : j >= k => belt[j] = 0

(* A belt that the image shows moving is commanded; and the stop of a belt *)
(* that was moving knows it as proven, and has cleared as much of it as    *)
(* the purge has lasted, for as long as it is shown moving.                *)
StopInv ==
  /\ io.motion => cmd.conveyor
  /\ state = "STOPPING" /\ stop_moved =>
       /\ purge.proven /\ cmd.conveyor
       /\ io.motion => EmptyFrom(Transit - purge.elapsed)

(* Under no feeder command nothing is loaded: the belt stays as it was, or *)
(* moves one place on.                                                     *)
LEMMA StopOnlyClears ==
  ASSUME RigInv, Tick, ~cmd'.feeder, NEW n, n = P!Stepped(cmd'), NEW m, m = P!Moved(cmd', n)
  PROVE  P!BeltStepped(n, m.loaded)
           = IF P!Moving(n.conveyor.motor)
             THEN [k \in 1 .. Transit |-> IF k = Transit THEN 0 ELSE belt[k + 1]]
             ELSE belt
<1>1. View(io) \in ViewType /\ ScanOf(View(io))
  BY LineScans
<1>2. cmd'.feeder \in BOOLEAN /\ cmd'.conveyor \in BOOLEAN
  BY <1>1, ScanOfKeeps DEF RigInv, LineInv, TypeOK, OutputImage
<1>3. n.feeder.motor.state # "RUNNING"
  BY <1>2, NothingMovesUncommanded
<1>4. m.offered = 0
  BY <1>3, NothingDrawn DEF P!Moved
<1>5. m.loaded = 0
  BY <1>4 DEF P!Moved, P!Loaded
<1>6. belt \in [1 .. Transit -> Nat]
  BY DEF RigInv, MaterialInv, MaterialType
<1>7. P!BeltLoaded(0) = belt
  <2>1. belt[Transit] + 0 = belt[Transit]
    BY <1>6, PlantAssumption
  <2> QED BY <1>6, <2>1 DEF P!BeltLoaded
<1> QED BY <1>5, <1>7 DEF P!BeltStepped

(* So one tick more of a belt that moves empties one place more.           *)
LEMMA TickClears ==
  ASSUME RigInv, Tick, ~cmd'.feeder, NEW k \in Int,
         NEW n, n = P!Stepped(cmd'), belt' = P!BeltStepped(n, P!Moved(cmd', n).loaded),
         P!Moving(n.conveyor.motor), EmptyFrom(k + 1) \/ k >= Transit
  PROVE  EmptyFrom(k)'
<1>1. belt' = [j \in 1 .. Transit |-> IF j = Transit THEN 0 ELSE belt[j + 1]]
  BY StopOnlyClears
<1>2. Transit \in Nat \ {0}
  BY PlantAssumption
<1>3. ASSUME NEW j \in 1 .. Transit, j >= k PROVE belt'[j] = 0
  <2>1. CASE j = Transit
    BY <1>1, <2>1
  <2>2. CASE j # Transit
    <3>1. j + 1 \in 1 .. Transit /\ j + 1 >= k + 1 /\ ~(k >= Transit)
      BY <1>2, <1>3, <2>2
    <3>2. belt[j + 1] = 0
      BY <3>1 DEF EmptyFrom
    <3> QED BY <1>1, <2>2, <3>2
  <2> QED BY <2>1, <2>2
<1> QED BY <1>3 DEF EmptyFrom

(* What the stop's own steps do.                                           *)
LEMMA StopSteps ==
  ASSUME LineInv, NEW v, ScanOf(v), state' = "STOPPING" \/ (state = "STOPPING" /\ state' = "IDLE")
  PROVE  /\ ~cmd'.feeder
         /\ state # "STOPPING" =>
              /\ purge'.elapsed = 0 /\ purge'.proven = Confirmed(v.in)
              /\ cmd'.conveyor = cmd.conveyor
         /\ state = "STOPPING" =>
              /\ cmd.conveyor /\ purge.proven => Confirmed(v.in)
              /\ purge.proven => purge'.proven
              /\ state' = "STOPPING" => /\ cmd'.conveyor = cmd.conveyor
                                        /\ purge'.elapsed = purge.elapsed + 1
              /\ state' = "IDLE" => purge.elapsed + 1 >= PurgeTime
<1>1. /\ cmd.conveyor \in BOOLEAN
      /\ {"elapsed", "proven"} \subseteq DOMAIN purge
  BY DEF LineInv, TypeOK, OutputImage
<1>2. CASE state # "STOPPING"
  <2>1. BeginStopSequence(v)
    BY <1>2, SequenceEntered, InSequence DEF ScanStopping
  <2>2. cmd' = [Off EXCEPT !.conveyor = cmd.conveyor]
    BY <2>1 DEF BeginStopSequence
  <2>3. ~cmd'.feeder /\ cmd'.conveyor = cmd.conveyor
    BY <2>2 DEF Off
  <2>4. purge'.elapsed = 0 /\ purge'.proven = Confirmed(v.in)
    BY <1>1, <2>1 DEF BeginStopSequence
  <2> QED BY <1>2, <2>3, <2>4
<1>3. CASE state = "STOPPING"
  <2>1. cmd = [Off EXCEPT !.conveyor = cmd.conveyor]
    BY <1>3 DEF LineInv, CommandsFitState
  <2>2. ~cmd.feeder
    BY <2>1 DEF Off
  <2>3. /\ cmd.conveyor /\ StopBeltProven(v) => Confirmed(v.in)
        /\ purge'.proven = StopBeltProven(v)
        /\ state' = "STOPPING" => Purging(v)
        /\ state' = "IDLE" => Purged(v)
    BY <1>3, StopKeepsTheBelt
  <2>4. Purging(v) => cmd' = cmd /\ purge'.elapsed = purge.elapsed + 1
    BY <1>1 DEF Purging
  <2>5. Purged(v) => ~cmd'.feeder /\ purge.elapsed + 1 >= PurgeTime
    <3>1. Purged(v) => cmd' = [cmd EXCEPT !.conveyor = FALSE]
      BY DEF Purged
    <3>2. "feeder" \in DOMAIN cmd
      BY DEF LineInv, TypeOK, OutputImage
    <3>3. [cmd EXCEPT !.conveyor = FALSE].feeder = cmd.feeder
      BY <3>2
    <3> QED BY <2>2, <3>1, <3>3 DEF Purged
  <2> QED BY <1>3, <2>2, <2>3, <2>4, <2>5 DEF StopBeltProven
<1> QED BY <1>2, <1>3

LEMMA TickKeepsStop ==
  ASSUME "motion" \notin StickingSensors, RigInv, SensorInv, StopInv, Tick
  PROVE  StopInv'
<1>1. View(io) \in ViewType /\ ScanOf(View(io)) /\ View(io).in = io /\ LineInv
  BY LineScans DEF View, RigInv
<1>2. PICK n, m : /\ n = P!Stepped(cmd') /\ m = P!Moved(cmd', n)
                  /\ belt' = P!BeltStepped(n, m.loaded)
                  /\ io' = P!Published(P!Truth(n, m))
  BY DEF Tick, P!Scan
<1>3. io'.motion => P!Moving(n.conveyor.motor)
  BY <1>2, MotionIsTrue
<1>4. io'.motion => cmd'.conveyor
  <2>1. cmd'.feeder \in BOOLEAN /\ cmd'.conveyor \in BOOLEAN
    BY <1>1, ScanOfKeeps DEF LineInv, TypeOK, OutputImage
  <2> QED BY <1>2, <1>3, <2>1, NothingMovesUncommanded DEF P!Moving, P!Running
<1>5. Transit \in Nat \ {0} /\ purge.elapsed \in Nat
  BY <1>1, PlantAssumption, PurgeType DEF LineInv, TypeOK
<1>6. CASE state' = "STOPPING" /\ stop_moved' /\ state # "STOPPING"
  <2>1. stop_moved' = Confirmed(io)
    BY <1>6 DEF Tick
  <2>2. Confirmed(io) /\ cmd.conveyor
    BY <1>6, <2>1 DEF StopInv, Confirmed
  <2>3. ~cmd'.feeder /\ purge'.elapsed = 0 /\ purge'.proven /\ cmd'.conveyor
    BY <1>1, <1>6, <2>2, StopSteps
  <2>4. P!Moving(n.conveyor.motor) => EmptyFrom(Transit)'
    BY <1>2, <1>5, <2>3, TickClears
  <2>5. Transit - purge'.elapsed = Transit
    BY <1>5, <2>3
  <2> QED BY <1>3, <1>4, <2>3, <2>4, <2>5 DEF StopInv
<1>7. CASE state' = "STOPPING" /\ stop_moved' /\ state = "STOPPING"
  <2>1. stop_moved
    BY <1>7 DEF Tick
  <2>2. purge.proven /\ cmd.conveyor /\ (io.motion => EmptyFrom(Transit - purge.elapsed))
    BY <1>7, <2>1 DEF StopInv
  <2>3. /\ ~cmd'.feeder /\ purge'.elapsed = purge.elapsed + 1
        /\ purge'.proven /\ cmd'.conveyor /\ Confirmed(io)
    BY <1>1, <1>7, <2>2, StopSteps
  <2>4. PICK k \in Int : k = Transit - purge'.elapsed /\ k + 1 = Transit - purge.elapsed
    BY <1>5, <2>3
  <2>5. P!Moving(n.conveyor.motor) => EmptyFrom(k)'
    BY <1>2, <2>2, <2>3, <2>4, TickClears DEF Confirmed
  <2> QED BY <1>3, <1>4, <2>3, <2>4, <2>5 DEF StopInv
<1> QED BY <1>4, <1>6, <1>7 DEF StopInv

LEMMA StopInductive ==
  ASSUME "motion" \notin StickingSensors
  PROVE  /\ RigInit => StopInv
         /\ RigInv /\ SensorInv /\ StopInv /\ [RigNext]_all => StopInv'
<1>1. ASSUME RigInit PROVE StopInv
  <2>1. io = P!AtRest(level) /\ stop_moved = FALSE
    BY <1>1 DEF RigInit, P!Init
  <2>2. ~io.motion
    BY <2>1 DEF P!AtRest
  <2> QED BY <2>1, <2>2 DEF StopInv
<1>2. ASSUME RigInv, SensorInv, StopInv, [RigNext]_all PROVE StopInv'
  <2>1. CASE Tick
    BY <1>2, <2>1, TickKeepsStop
  <2>2. CASE UNCHANGED <<belt, io, cmd, state, purge, stop_moved>>
    BY <1>2, <2>2 DEF StopInv, EmptyFrom
  <2>3. Operator => UNCHANGED <<cmd, state, purge>>
    BY DEF Operator, Press, SelectMode, SelectSource, SetRecipe, SetHold, Set
  <2>4. Break \/ Mend => UNCHANGED <<belt, io>>
    BY DEF Break, Mend, P!Inject, P!Remove, P!SetSensor, P!ResetFeeder, P!ResetConveyor,
           P!ResetGate, P!ResetOutlet, P!material
  <2> QED BY <1>2, <2>1, <2>2, <2>3, <2>4 DEF RigNext, all, plant, line, checker
<1> QED BY <1>1, <1>2

(* The tick that ends the purge finds the belt empty, and loads nothing.   *)
LEMMA PurgedIsEmpty ==
  ASSUME Transit <= PurgeTime, RigInv, StopInv, Tick,
         state = "STOPPING", state' = "IDLE", stop_moved
  PROVE  P!OnBelt' = 0
<1>1. View(io) \in ViewType /\ ScanOf(View(io)) /\ View(io).in = io /\ LineInv
  BY LineScans DEF View, RigInv
<1>2. /\ ~cmd'.feeder /\ io.motion /\ EmptyFrom(Transit - purge.elapsed)
      /\ purge.elapsed + 1 >= PurgeTime
  BY <1>1, StopSteps DEF StopInv, Confirmed
<1>3. Transit \in Nat \ {0} /\ PurgeTime \in Nat /\ purge.elapsed \in Nat
  BY <1>1, PlantAssumption, TimingAssumption, PurgeType
<1>4. \A j \in 1 .. Transit : belt[j] = 0
  <2>1. \A j \in 1 .. Transit : j >= Transit - purge.elapsed
    BY <1>2, <1>3
  <2> QED BY <1>2, <2>1 DEF EmptyFrom
<1>5. PICK n : /\ n = P!Stepped(cmd')
               /\ belt' = P!BeltStepped(n, P!Moved(cmd', n).loaded)
  BY DEF Tick, P!Scan
<1>6. belt' = IF P!Moving(n.conveyor.motor)
              THEN [k \in 1 .. Transit |-> IF k = Transit THEN 0 ELSE belt[k + 1]]
              ELSE belt
  BY <1>2, <1>5, StopOnlyClears
<1>7. DOMAIN belt' = 1 .. Transit /\ \A k \in 1 .. Transit : belt'[k] = 0
  <2>1. DOMAIN belt = 1 .. Transit
    BY DEF RigInv, MaterialInv, MaterialType
  <2>2. \A k \in 1 .. Transit : k # Transit => k + 1 \in 1 .. Transit
    BY <1>3
  <2> QED BY <1>4, <1>6, <2>1, <2>2
<1>8. IsFiniteSet(1 .. Transit)
  BY <1>3, FS_Interval
<1>9. Sum(belt', 1 .. Transit) = 0
  BY <1>7, <1>8, SumZero
<1> QED BY <1>7, <1>9, PlantSums DEF P!OnBelt

(* StopEmptiesTheBelt: whatever breaks on the way, and wherever the stop   *)
(* is interrupted, a belt that moved when the stop began has nothing on it *)
(* when the line comes to rest.                                            *)
THEOREM AStopLeavesNothing ==
  ASSUME "motion" \notin StickingSensors, Transit <= PurgeTime
  PROVE  RigSpec => StopEmptiesTheBelt
<1>1. RigInv /\ StopInv /\ [RigNext]_all =>
        (state = "STOPPING" /\ state' = "IDLE" /\ stop_moved => P!OnBelt' = 0)
  <2>1. [RigNext]_all /\ state' # state => Tick
    BY DEF RigNext, all, line, Operator, Press, SelectMode, SelectSource, SetRecipe, SetHold,
           Set
  <2> QED BY <2>1, PurgedIsEmpty
<1>2. RigInit => SensorInv /\ StopInv
  BY SensorsInductive, StopInductive
<1>3. RigInv /\ SensorInv /\ StopInv /\ [RigNext]_all => SensorInv' /\ StopInv'
  BY SensorsInductive, StopInductive
<1> QED BY <1>1, <1>2, <1>3, RigInductive, PTL DEF RigSpec, StopEmptiesTheBelt
=============================================================================
