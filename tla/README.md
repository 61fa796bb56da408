# Verification of ControlLab

ControlLab is a virtual commissioning bench for one bulk-material line: bins A, B
and C drop through gates XV-102/112/122 into a screw feeder (M-103), which feeds a
belt conveyor (M-104) into a weighed hopper (WT-105) with an outlet gate (XV-106)
to a downstream consumer (DS-107). A line controller, built in or external over
Modbus, runs it; scenarios check what it does. This directory holds TLA+
models of the program, the TLC runs that check them, and TLAPS proofs.

## Inventory

| Component | State | Operations | Interacts with |
| --- | --- | --- | --- |
| Line controller (`services/control/line_controller.py`) | mode, state, step, timers, active bin, batch record, one-shot request flags, setpoints | `scan(dt)` once per tick; the operator's methods, which only raise flags or set setpoints | reads and writes the I/O image; owns the supervisors, interlocks and alarms; calls `command_sink` |
| Device supervision (`motor_control.py`, `gate_control.py`, `level_check.py`, `hopper_hysteresis.py`) | elapsed time, last command, latched fault, feed demand | `scan`, `clear_fault`, `evaluate` | the I/O image |
| Interlocks (`interlocks.py`) | three on-delays | `scan`, then pure queries | the I/O image, the supervisors |
| Alarm manager (`alarms.py`) | active, acknowledged, first-out of each alarm; the first-out holder | `scan`, `acknowledge` | conditions owned by interlocks, supervisors and the line |
| I/O image and plant binding (`simulation/engine`) | one value per tag | publish inputs, apply commands | line on one side, plant on the other |
| Plant (`simulation/equipment`) | motors, gates, belt contents, vessel levels, instrument faults | `step(dt)`, fault injection | the I/O image |
| Scenario runner, verdict (`testing`) | stages, deadlines, observations | step the rig, poll expectations | rig, event log, invariants |
| Real-time and external rigs (`testing/realtime.py`, `external.py`) | pacer, watchdog | paced stepping | Modbus server, a free-running controller |
| Modbus server, register map, HMI handshake, status block (`protocols`) | register image, request and acknowledge words, setpoints | read/write registers, press | the I/O image, external controllers, the HMI |
| MQTT, OPC UA (`protocols`) | sessions, cursors | publish, write setpoints | snapshots of the line |
| Telemetry (`telemetry`) | event list, tag history, previous states | observe once per tick | the line, the alarms |
| Live session and views (`visualization`) | a thread, locks, a scenario in progress | start, stop, verify, command | everything above |
| AI assistance, reports | none that outlives a call | text from text | run results |

What is hard in it:

* every operator request is a one-shot flag consumed by the next scan, so any
  combination of requests, inputs and elapsed timers can meet in one scan, and a
  scan is a sequence of early returns in which order decides;
* latched diagnoses (travel faults, start-proof faults, proven-belt flags, level
  demand, step variables) outlive the situation they are about unless every way
  out of it clears them;
* trips, stops, E-stops and mode changes leave a sequence from any of its steps;
* timers are kept, paused, restarted or cut short depending on other inputs;
* outside the control scan: an external controller that restarts between two
  words of a handshake, threads that check and then act, cursors into lists that
  are replaced.

What makes the components correct: the line commands in each state exactly what
belongs to it and never what the inputs of the scan forbid, leaves a trip only by a
reset that finds no cause, draws from one bin with a path to the hopper, counts
a batch once, answers requests, and ends every sequence; the alarm manager loses no
alarm and marks one first-out; the plant conserves material; a handshake delivers
a command once; a runner's verdict is what it observed. `PROJECT.json` lists each
hazard with its line and with the properties that cover it.

## Modules

| Module | What it is |
| --- | --- |
| `DeviceControl` | operators: `Supervise` (a motor's start proof and a gate's travel proof are the same supervision with different notions of "proven"), `ClearFault`, `OnDelay`, `SwitchMismatch`, `FeedDemand` |
| `LineController` | the state machine. One `Scan` per call of `scan()`, one action per operator method |
| `LineProtection` | the properties of the line |
| `MCLine` | small instances: a plant that answers within a scan except for at most `MaxFaults` deviations at a time |
| `LineProofs` | the proofs about the line |
| `PlantDevices` | operators: one step of a motor and of a slide gate |
| `Plant` | the virtual plant: devices, belt, vessels, injected faults, instruments. One `Scan` per `plant_io.scan()` |
| `LineOnPlant` | `LineController` and `Plant` in one tick, as `rig.tick()` runs them, with faults that come and are mended |
| `PlantProofs` | the proofs about its motors, its material and belt, and about the line on it |
| `Recursion` | lemmas for all proofs: least elements, recursive functions, finite sums, powers of two |
| `AlarmManager` | the alarm latches and first-out, with the order of the loop |
| `Annunciator` | the abstract panel `AlarmManager` implements |
| `StatusBlock` | operators: the alarm board in registers, and out of them again |
| `EventLog` | `AlarmManager` seen through `StatusBlock` by the event log, and the replay's board rebuilt from the log |
| `AlarmProofs` | the proofs about the manager, the status words and the replay |
| `HmiHandshake` | operators: `request()`, `write_ack()` and `reset()` on words that are sets of commands |
| `ExternalSession` | `LiveSession(external=True)` and `ExternalController` on the two sides of Modbus: queue, handshake, setpoints, comm-loss watchdog, a controller that may die and a session that may be restarted |
| `ExternalProofs` | its proofs |
| `RegisterMap` | a register map, `validate()`, the data store behind it, the ranges a controller polls |
| `ModbusPlant` | the server with that store, one client on a slow connection, and the plant's own side |
| `MCModbus` | its instance: two maps on which calls are made |
| `ModbusProofs` | its proofs |
| `LiveSession` | the dashboard's threads: handlers, pacer, verifier |
| `LiveTelemetry` | `LiveSession` and the MQTT publisher that reads it |
| `LiveProofs` | the proofs about both |
| `ScenarioRun` | `execute()`: a scenario's given, its stages, their windows, the verdict |
| `RealtimeRun` | `run_realtime()`: a `ScenarioRun` against a controller on its own clock, with the power-up before it and the judgement after it |
| `RunProofs` | the proofs about both |

A `Mutant` in a module is a plausible error of the code, written next to the
definition it would replace and used by nothing else. `PROJECT.json` has one for every
property of every passing run; TLC finds the property violated under it.

### How LineController corresponds to the code

`Scan` picks an input image from `Inputs(cmd)`, the images readable while the
outputs are `cmd`. From it `View` computes what `scan()` computes first: the
supervisors and the interlocks' on-delays after this scan. Everything below takes
that view as `v`. `ScanState` and `ScanMode` are the state and mode after the E-stop
and the mode request have been dealt with (line_controller.py:342-346), and exactly
one of `ScanIdle` ... `ScanCleaning` applies. Each of them is one handler, its
disjuncts the handler's early returns in their order. The trip tables
(`StartingTrips` and so on) are the `_..._trip_reason` methods: a sequence of
condition and reason, of which `Reason` takes the first that holds. Reports are
sequences too, because a later `_report` of a scan replaces an earlier one.

Variables group the fields by who uses them: `dev` (the supervisors), `held` (the
on-delays), `auto` (start step, its clock, the hysteresis), `purge` (the purge clock,
`_stop_belt_proven`, `clearing_belt`), `manual` and `batch` (the proven-belt flags and
clocks), `req` and `mode_request` (the one-shot flags), `setpoint`.

Abstractions, and why they lose nothing the properties ask about:

* Time is counted in scans (`dt` is a constant of the rig). Supervision and
  on-delay counts saturate at their timeouts, which is all the code compares.
* Weights are kg in `Nat`; percentages are thresholds in kg.
* The image a scan reads stays in `in` until the next scan, so a property can
  compare outputs with the inputs they were decided from. The plant's step and the
  publication between two scans are the choice of the next image.
* `alarms` carries the trip-class alarms' active and unacknowledged sets, which is what
  gates a start. Warnings and first-out are in `AlarmManager`.
* `batch.plan` is the recipe with zeros left in; the position in it is `active_bin`.
* `preview()`, texts (`last_start_refusal`), and `command_sink` are left out. They
  change nothing the line reads. Selecting Batch on a line without an outlet raises
  in the code: `LineAssumption` excludes it.

### How Plant and LineOnPlant correspond to the code

`Plant!Scan(c)` is `plant_io.scan()` under the commands `c`: the E-stop and the commands
applied, `BulkPlant.step` and the inputs published. `Stepped(c)` is the devices
after it, each the `step` of its class, and `Moved(c, n)` what goes from bin to belt to
hopper to downstream, in the code's order: what the feeder draws goes through
the gates open *before* the step, is loaded on the belt by its motor of *before*
the step, and what arrives is delivered by the motor *after* it. `Truth` is
`publish_plant_inputs()` and `Published` puts the instruments in between: a stuck one
repeats its last value, a failed one its fail-safe value.

Mass is in units of what moves in a tick. The belt is a shift register where the
code has a queue of (arrival, mass) on the belt's own clock: both advance only
while the belt moves, so the position is the remaining travel. Motor current is high or
not, flow is low or not; drift and noise of the analog instruments are left out, with
the rules of the code for thresholds they cross. `Truth` says current is high while the
motor starts or turns against a jam, which is what the overcurrent interlock compares.

A tick of `LineOnPlant` is `rig.tick()`: the line scans the image published last, the
plant steps under the outputs just written. Operator requests, `Break` (a fault or a
sick instrument) and `Mend` (its removal, or a reset at the equipment) come between ticks.
`events` bounds how often something breaks in a behaviour, `Sick` how much is broken at
once. `start_kg` is `Invariants.starting_mass_kg`; `stop_moved` is a history variable.

### How EventLog corresponds to the code

A tick has three parts in the order of the code: `alarms.scan()`, the acknowledgement
`LineController.scan()` passes on (so that an alarm may rise and be acknowledged in
one scan), and `EventLog.sample()`. The log reads the alarms through
`StatusBlock`'s encode and decode, as it does from an external controller. `Applied` is
`replay._apply()` over one sample's events, `Swept` what `build_frames()` takes off the
board. The state and command events of the log are differences of the same kind on
values without a life of their own, and are left out.

### How ExternalSession corresponds to the code

The Modbus server serves each request under the session's lock, and so does the
session its own calls: each is one action. A controller's scan is three of them, `Read`
(the inputs, the request word and the setpoints, then the line's scan), `WriteCoils` and
`WriteRegisters` (which carries the ack word), told apart by `pc`; `Die` may come
between any two and loses what `ModbusIOSync` and the line held. `Tick` is
`LiveSession.step()`: the queue, the watchdog, the plant. What the line decides is any
choice of energised or not, so what is shown holds whatever its logic. The queue
is kept as the set of the commands in it and the last setpoint: requests of different
commands touch different bits, two of the same one merge, and a later setpoint replaces
an earlier one.

Three history variables are written and never read by the guards: `owed`, the presses
handed over that the controller has not acted on (a press whose request is still up
merges, as the docstring says; a death puts back what was taken and not acknowledged,
because the words cannot tell whether it was done, so a command whose coils were written
and whose ack was not is done a second time by the next controller); `stale`, the acks a
session restart leaves behind in the controller; and `since`, the setpoints an operator may have meant since the first
press not yet acted on.

The scenario rigs (`ObservedLine`, `RealtimePlant`) press without the queue; that is
the same `Requested`, and their `fresh()` is `Restart`, followed by the controller's
restart where there is a hook for it.

### How RegisterMap and ModbusPlant correspond to the code

A layout gives every coil, input and holding-register name an address or none.
`Validated` is `RegisterMap.validate()` check by check; `Polls` the requests of
`ModbusIOSync` and of an observer of the status block; `Outcome` is `_dispatch()` into
`PlantDataStore`: the quantity, then holes in the range, then the rules of who may
write what. One output stands for the discrete outputs, one input for the inputs (the
tables that cannot be written), and every command has the same bit of a word. Scaling
and byte order are left out: a register holds a value or one that is not accepted.

`Serve` is one request under the lock. The transaction identifier of an answer is
counted back from the client's last call (`age` 0 is the call it is in), so that
identifiers need no bound of their own. The code counts them modulo 65536; an answer
would have to be that many calls late to be taken for another. A client that gets
a wrong answer or none raises, and its caller may drop the connection or keep it.

### How LiveSession and LiveTelemetry correspond to the code

Everything the code does between taking `LiveSession._lock` and releasing it is one
action. What it does before is another: `Ask` is a handler that has passed
`_refuse_while_verifying()` and has not yet taken the lock, which is where threads
meet. `tour_do` asks under the lock, hence one action. The verifier's thread is
`Start` (`Verifier.start()`), `Begin` (what `run_live()` does under the lock),
`TakeRecorders` and `TakeRig` (lines 337 and 346: it reads the session's recorders and
rig after the lock is released, so that a restart in between hands `execute()` those
of another session, or the recorders of one and the rig of another), `Given`
(`execute()` up to its first sample and given), `VerifyTick`, `Finish` and `Report`
(their `finally` clauses). `RunAside` is a job that never takes the line: one whose scenario
does not load or plan (verify.py:143-144), or that runs on a rig of its own (the Modbus
and OpenPLC runtimes, 183-193). In a comparison such runs follow the one on the line, and
are the time between `Finish` and `Report`. Since the code asks about a rig only whether
it is the one it was given, a rig is the number of its session. `drift` is whether the plant's
mass is not what `self.invariants` expects.

The publisher reads the session by `snapshot(since)` only, one or two per round: `Look`
is the first, `LookAgain` the second, taken when the session turns out to be a new one.
`Send` hands over one event, `Lose` is an `OSError` at any point of it. `sent` is
history; `snap` carries the number of its session so that `sent` can be told by session.

### How ScenarioRun and RealtimeRun correspond to the code

`ScenarioRun` is `execute()` with what the line does left open: each `Poll` is a tick
that ends with any set of the stage's expectations met, and possibly a law of the
plant broken. The four ways a run fails, the run-up of the given, settling, and
the window with its tolerance are the code's. `RealtimeRun` is the runner's thread
(`PowerUp`, then `PacedSetup` and `PacedStep`, then `JudgeTiming`) and the Modbus threads
beside it (`ScanOutputs`, `ScanStatus`, `Intrude`). A controller's scan is two writes with
the runner free to look between them. `Paced` is `_Pacer.step()`; a stall lengthens a
step after its lag was measured. `bring` is where `_bring_to_clean_idle()` is.
Wall-clock counters saturate one above what they are compared with.

## Runs

| Run | Instance | Checks |
| --- | --- | --- |
| `LineManual` | two bins, Auto and Manual, two pushbuttons per scan, Reset among them; slip, E-stop | `CommandsFitState`, `ModeFitsState`, `OneBinFeedsABelt`, `FedBeltIsConfirmed`, `StartIsAnswered` |
| `LineBatchLive` | Batch, the hold changed at any time; outlet stuck, downstream not ready | `LoadingHasAPlan`, `BatchMovesOn`, `DischargeConcludes`, `BatchCountedAtRest` |
| `PlantAuto` | the line on the plant in Auto; slip, E-stop, feeder trip, downstream stopped, a stuck weight: one at a time, two in a behaviour | `MaterialConserved`, `FaultsCanBeReset`, `OutputsHeedInputs`, `OnlyALossSpills`, `StopEmptiesTheBelt`, `NoRestartAfterEstop`, `ResetNeverSkipsACause` |
| `PlantLive` | a batch on the plant; gate and outlet stuck, belt and feeder jammed, a weight stuck or failed: one of them | `LoadingConcludes`, `StartConcludes`, `StopConcludes` |
| `EventLog` | four alarms over words of three bits, any of them true at any scan | `WireTellsTheBoard`, `ReplayMissesNothing`, `IsAnAnnunciator` |
| `ExternalSession` | presses, setpoints, session restarts, a controller that dies and boots | `ExactlyOnce`, `CommandsSeeSetpoints`, `PressesAreTaken`, `OrphansStop` |
| `ModbusServed` | every valid map of seven words and two coils, both modes; calls on two of them | `PollsAreServed`, `ReturnedWasServed`, `OutputsNeverHalfWritten`, `EveryWordHasItsWriter` |
| `LiveTelemetry` | one handler, three sessions, a walkthrough, verifications, a broker lost once | `NothingOutlivesItsSession`, `NoFalseViolation`, `NobodyElseMovesIt`, `NoEventIsSkipped`, `VerificationConcludes`, `EventsArrive` |
| `RealtimeRun` | two stages, a tick of window and one of tolerance, stalls; a controller that answers or not, a second one or not, with a status block or not | `VerdictIsEarned`, `VerdictIsTrusted`, `StartsClean`, `RunEnds` |
| `LineBeltLostInStart` | Auto, slip | `FeederStopsWithBelt`, which fails |
| `FirstOutFreed` | two alarms | `FirstOutSticks`, which fails |
| `VerificationRace` | one handler, three sessions | `VerificationOwnsTheLine`, which fails |

### Bounds, and why they are enough

* The line's runs: every timeout is 2 scans (debounce, overcurrent, no-flow and
  disagreement 1), so each has a scan before it expires and the scan at which it does.
  One or two requests between scans; one deviation at a time, present for any number of
  scans, which gives every single failure at every moment, and successive ones. Weights
  are the two or three values on either side of the thresholds the run uses.
  `MaxBatches = 1` stops the operator after the first batch counted; a second batch
  starts from the same rest state.
* The plant's runs: a belt of two ticks, so that material is on it and not yet over
  it; a bin that runs empty; a purge as long as the belt. In `PlantAuto` the bin holds
  more than the hopper, so that the rim can be reached, and the rim is one tick's feed
  above the high-high switch: less room would not do, and the configured 100 kg
  against 5 kg/s is far more.
  `TravelTime` and `NoFlowTime` exceed what the healthy devices need, as the
  configured ones do. Two breakages in `PlantAuto` let a second one meet the trip, the
  clearing or the reset of the first. Liveness in `PlantLive` needs one only, because a
  fault may stay for ever.
* `EventLog`: four alarms over three-bit words put one alarm in the second register;
  four is enough for two that hold and drop the mark while a third and a fourth rise.
* `ExternalSession`: two commands, so that one can be held while another is taken, two
  setpoint values and a watchdog of two ticks. Nothing in it is counted, so presses,
  deaths and restarts are unlimited.
* `ModbusServed`: seven words are one more than the line's kinds of words need, so a
  map may leave a gap or fill it. Validity and polls are checked on every valid map, the
  calls on two (`MCModbus`), because what a call does depends on the map only through
  what is in the range. Two late answers let one be older than the call before last.
* `LiveTelemetry`: three sessions, so that a session is both a successor and a
  predecessor; two events in each, so that a cursor can point into the middle.
* `RealtimeRun`: `Stalls = {0, 2}` are a step on time and one beyond what the limit
  forgives; the time-out of the power-up admits every order of its phases.

Deadlock is checked except in `RealtimeRun`, whose run ends.

Types: `TypeOK` of the line, of `ExternalSession` and of `AlarmManager` is proved (below),
and with `RigInv` the types of the plant's motors, material and images. In the other
modules it documents the variables; no run lists it.

### Fairness

* `FairSpec` of the line adds `WF_vars(Scan)`, `FairRig` `WF_all(Tick)`: the rig calls
  `scan()` every tick whatever the operator does (`testing/rig.py:148`). Nothing is
  assumed of the operator, and of the plant only that it steps. `DischargeConcludes` is
  conditional on the downstream being ready again and again, because the code pauses the
  timeout while it is not. `LoadingConcludes` is checked on the plant, not on free
  inputs: LOADING has no clock of its own, and with a weight that sticks it is the
  high-high switch, no-flow or the end of the bin that ends it.
* `ExternalSession`: the session's pacer keeps ticking and a controller that is up
  keeps scanning (`external_controller.run`). Nothing makes one boot or keeps it from
  dying, so `PressesAreTaken` holds up to a death, and `OrphansStop` is about a
  controller that stays dead.
* `LiveTelemetry`: the verifier's thread is scheduled and the publisher loops, with a
  broker that comes back. `VerificationConcludes` is conditional on the line being
  left running, because a paused one holds the verification (`Pacer.running`).
  `EventsArrive` excepts a session replaced first and a publisher that has died.
* `RealtimeRun`: the runner's thread runs. Nothing is promised of a controller, which
  is the point of `RunEnds`.

### Disagreements between the code and its documents

| Run | What it shows |
| --- | --- |
| `LineBeltLostInStart` | past its first step, STARTING does not look at the belt: the feeder starts onto, or stays on over, a belt that slips (docs 6.3, "conveyor loss stops feeder immediately") |
| `FirstOutFreed` | the first-out mark is freed as soon as its own alarm is clear and acknowledged (alarms.py:211-215), and a later alarm takes it, with others still up; the docstring (44-47) has it stick until the whole board is quiet |
| `VerificationRace` | restart and start_tour ask whether a verification runs before they take the lock: one that begins in between loses its line, and goes on to judge a rig that nothing ticks ("A scenario verification owns the line while it runs") |

Further ones, met while modelling and kept in the models as the code has them, with no
run of their own:

* line_controller.py:800. A Stop mid-startup over a belt whose motor runs but which
  never moves ends in IDLE, no trip, where docs/CONTROL-LAB.md:243 has it trip as a
  fail-to-start. `StopEmptiesTheBelt` is about stops that begin over a moving belt.
* line_controller.py:590 and 676. A travel fault latched while the line rests lets Start
  through and trips it at once with "gate failed to prove open", the wrong words
  `_gates_not_closed` is there to prevent.
* live.py:193. A session restart resets the handshake but not the controller's own ack:
  the next press of that command is acknowledged and never acted on. `owed` counts such
  a press until its request is taken down, and `ExactlyOnce` names it as the one that
  nothing will take; `PressesAreTaken` is of the others.
* line_controller.py:355-357. Away from rest, a Reset pressed in the same scan as a Start
  reports after it, so that the Start's refusal is not left standing in
  `start_inhibit`, and in a sequence the report reads as if both had been accepted.
  docs/CONTROL-LAB.md:247 says both that every request is answered and that
  `start_inhibit` holds the outcome of the most recent one. `StartIsAnswered` is exact
  about it: which of the two outcomes stands, and when.
* register_map.py:457-464. With the built-in controller, one write of several setpoints
  of which a later one is out of range enters the earlier ones and answers
  SERVER_DEVICE_FAILURE, where the comment above (434-435) says that the whole request
  is validated before any of it is applied. `OutputsNeverHalfWritten` excepts setpoints.
* events.py:171. An alarm that rises and is acknowledged in the same scan leaves
  `alarm_activated` and nothing else, and the replay shows it unacknowledged for ever,
  where replay.py:54-55 has an alarm on the board as the alarm manager does. `ReplayMissesNothing` is one-sided.
* realtime.py, `_Pacer.step()`. A step measures how late it begins: a stall inside the
  scenario's last step is never measured. `VerdictIsTrusted` leaves that tick out.
* mqtt.py. Between `run_live()`'s new recorders and `execute()`'s first sample a
  snapshot raises IndexError, which is none of the exceptions `run_publisher` catches: its
  thread ends (`publisher = "dead"`). Events may be sent twice after a lost broker,
  none is left out.
* controller_status.py:137. `batches_completed` wraps and `batch_loaded_kg` clamps at
  16 bits.
* A Modbus client whose caller keeps the connection after a time-out stays one answer
  behind and fails every later call; no call succeeds on the wrong answer.

## Proofs

Every theorem is about the module's specification for all values of its constants under
the module's named assumptions. A few have a hypothesis besides, which the table names.

| Theorem | States |
| --- | --- |
| `LineProofs!TypeCorrect` | `Spec => []TypeOK` |
| `LineProofs!LineInvariant` | the inductive invariant `LineInv` |
| `CommandsAreStates`, `ModesAreKept`, `BatchesHavePlans`, `MaterialHasAPath` | `CommandsFitState`, `ModeFitsState`, `LoadingHasAPlan`, `OneBinFeedsABelt` always hold |
| `InputsAreHeeded`, `FedBeltsAreConfirmed` | `OutputsHeedInputs` and `FedBeltIsConfirmed` always hold |
| `ModeChangesOnlyAtRest`, `OnlyAResetLeavesATrip` | the action properties `ModeChangesAtRest` and `ResetNeverSkipsACause` |
| `BatchesCountedAtRest` | the action property `BatchCountedAtRest` |
| `EveryStartIsAnswered` | the action property `StartIsAnswered`: a Start, with whatever else is pressed, is begun exactly when nothing refuses it, and otherwise its reasons stand, unless Manual trips in the scan or a Reset reports after it |
| `WaitsAreCounted` | every wait of a sequence has a clock that each scan of it counts, and a limit the clock has not come to |
| `PlantProofs!FaultsStayResettable` | `FaultsCanBeReset` always holds |
| `PowerBackStartsNothing` | the action property `NoRestartAfterEstop`, if the E-stop's contact does not stick |
| `NoMaterialIsLost` | `MaterialConserved` always holds |
| `TheLineOnItsPlant` | `LineInv` always holds of the line that reads this plant |
| `TheRigIsALine` | `LineOnPlant` implements `LineController`, if the line admits all images |
| `SpillsAreLossesOrOverflow` | past the start sequence, every spill is a belt lost in that very tick, or goes over the rim; whatever instruments are sick |
| `NothingElseSpills` | the action property `OnlyALossSpills`, if the instruments are `Trusted` and the hopper has a tick's feed of room above its high-high point |
| `AStopLeavesNothing` | the action property `StopEmptiesTheBelt`, if the motion switch does not stick and the purge is as long as the belt |
| `AlarmProofs!FirstOutIsUp` | at most one alarm has the first-out mark, the holder, and it is up |
| `ManagerIsAPanel` | `IsAnAnnunciator`: `AlarmManager` implements `Annunciator`, which holds the mark to its lamp while that is lit and no longer |
| `TheWireTellsTheBoard`, `TheReplayMissesNothing` | `WireTellsTheBoard`, `ReplayMissesNothing` always hold |
| `ExternalProofs!OwedIsRaisedOrHeld` | `ExactlyOnce` always holds: a press not acted on can still be taken and nothing else can, except presses raised under an ack that a session restart left behind |
| `ExternalProofs!NoCommandOnAnOldSetpoint` | the action property `CommandsSeeSetpoints` |
| `LiveProofs!SessionsAreKeptApart`, `ViolationsAreReal`, `VerificationIsLeftAlone` | `NothingOutlivesItsSession`, `NoFalseViolation`, `NobodyElseMovesIt` always hold |
| `LiveProofs!EveryEventInOrder` | `NoEventIsSkipped` always holds |
| `ModbusProofs!NothingHalfWritten`, `WordsHaveWriters`, `NoAnswerToAnotherCall` | the action properties `OutputsNeverHalfWritten`, `EveryWordHasItsWriter`, `ReturnedWasServed` |
| `EveryPollIsServed` | `PollsAreServed` always holds |
| `RunProofs!VerdictsAreEarned`, `VerdictsAreTrusted`, `ScenariosStartClean` | `VerdictIsEarned`, `VerdictIsTrusted`, `StartsClean` always hold |

The hypotheses, and why the code justifies them. `Trusted` has the motion switch, the
high-high switch and the drive's fault signal not stick, and the last not fail:
each is what the line reads to know of the loss, and of a switch seized in the
healthy position the code says that fail-safe polarity cannot catch it. With
`SpillsAreLossesOrOverflow` goes what remains if one of them lies. The hopper has 100 kg
above its high-high switch, the feeder moves 5 kg in a second. The belt takes 2 s in the
test rig and 10 s in the plant's defaults, the purge 2 s and 15 s. `PollAssumption` is the
protocol's limits (modbus.py:62-65), `MapAssumption` what a layout is.

**The line.** `LineInv` is `TypeOK /\ CommandsFitState /\ ModeFitsState /\
LoadingHasAPlan`. None of the last three is inductive without the others. What a handler
does to the commands depends on what they were (`CommandsFitState`); a mode change is
harmless only because rest commands nothing; a reset goes to the rest state of the mode,
which is why a state has to be known to be in its mode; and in LOADING the gate
opened next is a bin of the plan only if the present one is. The proof is by
handler: one lemma for each of the eleven `Scan...` actions, built on a lemma for each
shared way into a state (`EnterFaulted`, `BeginStopSequence`, `EnterRest`), then
`LineInvInductive` puts them together. `OneBinFeedsABelt` follows from `LineInv`.
`OutputsHeedInputs` and `FedBeltIsConfirmed` do not: they relate commands to the image just
read, so they need a second pass over the handlers, in which the
trip tables' being untripped is what lets the feeder run. For `StartingTrips`,
`RunningTrips`, `BatchTrips` and `ManualTrips` a lemma states what that says of the
inputs. The assumptions say nothing about the plant. `BatchCountedAtRest` needs one more
pass, for the count: the end of a cleanout alone touches it, and `LineInv` says what a
line with a stopped belt there commands. `StartIsAnswered` needs one for the reports, of which the last stands
(`LastStands`): away from rest the refusal is reported before the handler runs, so each
handler is shown to report nothing over it but a Reset's outcome; at rest and in Manual
the handler reports last (`OwnStands`). It needs no invariant.

`WaitsAreCounted` is the safety half of the line's liveness. A scan that leaves a sequence
where it was has counted a clock, or the line waits in one of the few places where nothing
bounds the wait: for its operator (at rest, tripped, in Manual with a proven belt), in
RUNNING, in LOADING while it feeds, and in a discharge while the downstream is not ready. `WaitCounted` has one conjunct for each kind of
wait. In each the wait is shown to go on only while its clock, or the supervision of the
device waited for, is short of its limit, because the handler trips or moves on at the
limit. With `WF(Scan)` this is why sequences end; the step from one to the other
needs fairness and stays with TLC.

**The plant's motors.** `Latched` is kept by every step of a motor, one lemma for each.
`NoRestartAfterEstop` is about both sides: the plant alone would start a motor whose run
command still stood. `PowerInv` says that a motor is without power only while the contact
was published open; the line, which scans before the plant, then commands nothing.

**Material.** `MaterialConserved` is a sum over bins and belt, of any number and length.
`SumFunction` is a fold, so its laws (one place changed, two functions added, all shifted
by one) are proved in `Recursion` by least counterexample: of the sets on which a law
fails a smallest one is taken, and an element removed. That a finite set has an
enumeration to fold along is proved there too (`LoopExists`). `MaterialInv`
adds the types, which subtraction needs: no bin gives more than it holds, and
the hopper takes no more than its rim.

**The line on its plant.** `RigInv` is `LineInv`, `MaterialInv`, the motors and that what is
published is an image. Each tick is then a scan of the line on an image it may read and
leaves the line's invariant; every other step is an operator's request or no step of the
line. That is the refinement `TheRigIsALine`, and carries to the rig all that is proved
of the line.

A spill past the start sequence is material fed on a belt that did not move, or
delivered above the rim. In the first case the scan before it read a confirmed belt
(`OutputsHeedInputs`), so that the tick is that of the loss: `SpillsAreLossesOrOverflow`,
which needs nothing of the instruments. The second is excluded by `BeltInv`: each place on
the belt carries a tick's feed at most, because the place fed is free as long as the image
shows a moving belt, and a full hopper is published as such, whereupon the scan stops
the belt. `StopEmptiesTheBelt` rests on `StopInv`: the stop has emptied as many places as the
purge has counted, since both go on only with a belt that moves.

**The alarms.** `AlarmInv` says where the first-out mark is. A scan of the code is a loop over
the alarms in the order of their identifiers, with the holder passed from turn to turn;
`AfterTurn` says what the first turns leave, and that the loop has such a holder at its
end is again by least counterexample. With it each step is a step of
the panel. `WireTellsTheBoard` is arithmetic: a mask is a sum of powers of two, it is cut in
words of `WordBits` bits by division and each bit read back by another, so the
lemmas are about such sums and hold for any width and number of words. `ReplayInv` says what
the log's last sample must have for no alarm to be missed later: what the true board has
beyond it has risen since.

**The handshake.** `ExactlyOnce` says that what the controller owes is what it would
take at its next read, what is held, and what was raised under an ack that a restart of the
session left behind: those last presses nothing will take, and the write that clears the
ack drops them (see the disagreements). It is not inductive alone: that a held press is
raised when its ack falls needs it to be under that ack (`WordsAreApart`), that a press
the tick raises will be taken needs every ack of the controller to be in one of the
words or known to be stale (`AcksAreKnown`), and that a booting controller takes
everything anew needs its predecessor's acks to be gone (`AckDiesToo`).
`NoCommandOnAnOldSetpoint` rests on it: `SinceInv` says that while anything is pressed or
owed the setpoint meant and the one in force are among those meant since, and
`ExactlyOnce` that whatever the controller takes is owed.

**The session and the publisher.** `SessionInv` is three parts. `QueueInv`: what
is pending was queued in this session. `TourInv`: the mark is no later than the log.
`VerifierInv`: a verification that runs has said so, the mass is off the baseline only
while one does, and no one has touched the line of one that does. The pacer's tick is
harmless because it sets the baseline anew after a level stimulus and because it finds
the line free. `NoEventIsSkipped` needs what is known of the publisher. `CursorInv`:
everything up to the cursor has been sent of the session it knows, unless that has been
replaced. `SnapInv`: a snapshot under way is of that session or a later one, and what
comes before its next event has been sent.

**Modbus.** `StoreInv` is the store's type, which every outcome keeps. The refusals of
`WriteCoils` and `WriteWords` are decided before anything is applied, one lemma for
each. `AnswersInv` says that among the answers under way none has the transaction of a
call the server has not handled. `EveryPollIsServed` is about the maps, not the steps: on
a valid one the range of a poll, from the least address of its names to the greatest,
has no hole (`Contiguous`), is within what one request may ask for, and has in it only
words that are the asker's.

**The runs.** `RunInv` goes by the runner's phase: a verdict ends the run, the stages
passed have their times and those to come none, and while a stage is polled no tick of
its window has met it. `PaceInv` bounds how late any step was by the lag measured at the
next, or at that step. `TrustInv` says that the judgement knew every writer there was.
`CleanInv` is about the start: two writes of one controller complete a scan, so what is
published then is its own; a clean idle lasts until somebody starts the line; and no
request is left when the power-up waits for quiet.

Induction. The library's induction theorems take an operator, which the provers here
cannot instantiate. Where a proof needs induction it takes the set of counterexamples
and its least element (`LeastNatural`, `MinimalSubset` in `Recursion`), which is a
statement about sets.

Only model-checked is liveness, which needs fairness and ENABLED: `BatchMovesOn`,
`DischargeConcludes`, `LoadingConcludes`, `StartConcludes`, `StopConcludes`,
`PressesAreTaken`, `OrphansStop`, `VerificationConcludes`, `EventsArrive` and `RunEnds`. Every
invariant and every safety property of steps that a run checks is also proved.

## Plan

Done, in this order: the line with its proofs; the alarm manager against its panel; the
handshake and the external session; the plant and the line on it; the event log and the
status block; the session's threads and the publisher; the scenario and real-time
runners; the register map and the Modbus server; then proofs of every safety property
the runs check, and of two refinements.

Left:

1. Combining the verdicts of repeated real-time runs; the OPC UA server's writes, a
   polling mirror of the session, and its setpoint, which a restart wipes.
2. The analog instruments' drift, with thresholds crossed slowly.

## Not modelled

* Page rendering, narration, the walkthroughs' texts, reports, regression files, AI
  prompts and the provider call: text from values, no state that outlives a call.
* Bytes: the framing of Modbus and MQTT, scaling of analog words, the map file's and
  the scenarios' format, `render_markdown`.
* OPC UA: the protocol is a third-party library's, and what the repository adds mirrors
  the snapshot the MQTT publisher reads.
* Telemetry's tag history, a list that grows, and the log's state and command events.
* Drift and noise of the analog instruments, the current and flow curves.
* The Structured Text port under `examples/openplc`, which is meant to be the same
  program.
