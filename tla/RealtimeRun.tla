---------------------------- MODULE RealtimeRun ----------------------------
(***************************************************************************)
(* run_realtime(): ScenarioRun against a controller that runs on its own   *)
(* clock.  The runner's thread paces the plant; the Modbus server's        *)
(* threads take the writes of the controller under test, and of another    *)
(* one if it was left polling the port.                                    *)
(*                                                                         *)
(* A tick is DT / speed of wall time.  `behind` is how late the pacer is   *)
(* when it has done a tick.                                                *)
(***************************************************************************)
EXTENDS ScenarioRun

CONSTANTS
  Stalls,            \* wall ticks a step may take more than it should
  MaxLag, Silence,   \* MAX_LAG_S, CONTROLLER_SILENCE_S
  ReadyTimeout,      \* READY_TIMEOUT_S
  PressEvery,        \* ticks the power-up waits for a command
  QuietTicks         \* POWER_UP_QUIET_S

ASSUME RealtimeAssumption ==
  /\ Stalls \subseteq Nat /\ MaxLag \in Nat /\ Silence \in Nat
  /\ ReadyTimeout \in Nat /\ PressEvery \in Nat \ {0} /\ QuietTicks \in Nat \ {0}

VARIABLES
  \* the controller under test, and the plant's image:
  ctl,        \* its state, and whether an alarm is latched
  intruder,   \* there is another controller
  taken,      \* mid-scan: the requests it read; else NotScanning
  asked,      \* HMI requests outstanding
  block,      \* the published status
  on,         \* a discrete output is on
  writes,     \* writes since the restart, counted up to what is asked of them
  writers,    \* who wrote, since watch_writers()
  \* the runner's thread:
  bring,      \* where _bring_to_clean_idle is
  press,      \* the command the power-up sends next
  count,      \* its loops' counter
  spent,      \* wall ticks since the restart
  seen,       \* ObservedLine._status
  watching, quiet, behind, lag,     \* _Pacer; wall ticks since the last write
  final,      \* the result returned
  \* history, read by no action:
  published,  \* the block is of a scan since the restart
  started,    \* what the scenario began on
  worst,      \* how late a tick of the scenario was, the last one apart
  drove       \* who wrote, since the scenario began

image == <<ctl, taken, asked, block, on, writes, writers, published, drove>>
power == <<bring, press, count, spent>>
pace  == <<watching, quiet, behind, lag, worst>>
vars  == <<runner, image, intruder, power, seen, pace, final, started>>

Commands == {"acknowledge", "reset"}
Status == [state : {"idle", "running", "estopped"}, latched : BOOLEAN]
CleanIdle == [state |-> "idle", latched |-> FALSE]
NotScanning == {"not scanning"}
\* bounds of the wall counters: one more than makes a difference
SpentMax == ReadyTimeout + 1
BehindMax == MaxLag + 2
AtMost(n, max) == IF n < max THEN n ELSE max
Less(n, m) == IF n > m THEN n - m ELSE 0

TypeOK ==
  /\ RunTypeOK
  /\ ctl \in Status /\ block \in Status /\ seen \in Status
  /\ intruder \in BOOLEAN /\ on \in BOOLEAN
  /\ taken \in (SUBSET Commands) \cup {NotScanning} /\ asked \subseteq Commands
  /\ writes \in 0 .. 2 /\ writers \subseteq {"ctl", "other"} /\ drove \subseteq {"ctl", "other"}
  /\ bring \in {"wait", "cycle", "blind", "quiet", "up"} /\ press \in Commands
  /\ count \in 0 .. PressEvery + QuietTicks + 1 /\ spent \in 0 .. SpentMax
  /\ watching \in BOOLEAN /\ quiet \in 0 .. Silence + 1
  /\ behind \in 0 .. BehindMax /\ lag \in 0 .. BehindMax /\ worst \in 0 .. BehindMax
  /\ final \in Verdicts \cup {"none", "not_ready", "invalid"}
  /\ published \in BOOLEAN
  /\ started \in [ctl : Status, published : BOOLEAN, asked : SUBSET Commands]

(* fresh() and restart().  The image is a new one, whose status block      *)
(* reads IDLE, unless the old controller wrote to it before it went down.  *)
(* The new one may start ESTOPPED; an ExternalController with no restart   *)
(* command is as it was, perhaps in the middle of a scan.                  *)
Init ==
  /\ RunInit("waiting")
  /\ ctl \in Status /\ intruder \in BOOLEAN
  /\ block \in {CleanIdle} \cup (IF status THEN {ctl} ELSE {}) /\ seen = block
  /\ taken \in {NotScanning, {}} /\ asked = {}
  /\ on \in BOOLEAN /\ writes = 0 /\ writers = {}
  /\ bring = "wait" /\ press = "acknowledge" /\ count = 0 /\ spent = 0
  /\ watching = FALSE /\ quiet = 0 /\ behind = 0 /\ lag = 0
  /\ final = "none" /\ published = FALSE /\ worst = 0 /\ drove = {}
  /\ started = [ctl |-> CleanIdle, published |-> TRUE, asked |-> {}]

-----------------------------------------------------------------------------

(* _note_write(), under the server's lock.                                 *)
WrittenBy(who) ==
  /\ writes' = AtMost(writes + 1, 2) /\ quiet' = 0
  /\ writers' = writers \cup {who} /\ drove' = drove \cup {who}

rest == <<runner, intruder, power, seen, watching, behind, lag, worst, final, started>>

(* A scan: the requests are read, and the coils are written.               *)
ScanOutputs ==
  /\ final = "none" /\ taken = NotScanning
  /\ taken' = asked
  /\ \E clears \in BOOLEAN :
       LET latched == ctl.latched /\ ~("acknowledge" \in asked /\ clears)
       IN  ctl' = [latched |-> latched,
                   state |-> IF "reset" \in asked /\ ~latched THEN "idle" ELSE ctl.state]
  /\ on' = (ctl'.state = "running")
  /\ WrittenBy("ctl")
  /\ UNCHANGED <<rest, asked, block, published>>

(* Its second write, the holding registers: the answers, and the status of *)
(* a controller that publishes one.                                        *)
ScanStatus ==
  /\ final = "none" /\ taken # NotScanning
  /\ taken' = NotScanning /\ asked' = asked \ taken
  /\ block' = (IF status THEN ctl ELSE block) /\ published' = TRUE
  /\ WrittenBy("ctl")
  /\ UNCHANGED <<rest, ctl, on>>

(* Another controller writes its outputs or its status.  What a scenario   *)
(* reads of them is in `met`.                                              *)
Intrude ==
  /\ final = "none" /\ intruder
  /\ IF bring = "up" THEN UNCHANGED <<block, on>>
     ELSE block' \in {CleanIdle, block} /\ on' \in BOOLEAN
  /\ WrittenBy("other")
  /\ UNCHANGED <<rest, ctl, taken, asked, published>>

-----------------------------------------------------------------------------
(* Mutant: only the last step's lag is kept.                               *)
LagLast(now) == now

MaxLagOf(now) == IF now > lag THEN now ELSE lag

(* _Pacer.step(): the lag is measured, the status is read, the plant       *)
(* ticks; the step may take its time after the lag was measured.           *)
Paced ==
  \E s \in Stalls :
    /\ lag' = MaxLagOf(Less(behind, 1))
    /\ behind' = AtMost(Less(behind, 1) + s, BehindMax)
    /\ quiet' = AtMost(quiet + 1 + s, Silence + 1)
    /\ spent' = IF watching THEN spent ELSE AtMost(spent + 1 + s, SpentMax)
    /\ seen' = block

WatchingNow == TRUE

(* _Pacer.ready() and watch_writers(): the scenario begins.                *)
Ready ==
  /\ bring' = "up" /\ phase' = "given"
  /\ watching' = WatchingNow /\ lag' = 0 /\ behind' = 0 /\ spent' = 0
  /\ writers' = {} /\ drove' = {}
  /\ started' = [ctl |-> ctl, published |-> published, asked |-> asked]

powering == <<status, ticks, stage, expect, off, verdict, late, elapsed, broke, everMet,
              intruder, ctl, taken, block, on, writes, published, worst>>

(* Nothing but the pacer's clock moves.                                    *)
PowerTick == Paced /\ UNCHANGED <<phase, watching, writers, drove, started, final>>
GiveUp ==
  /\ final' = "not_ready"
  /\ UNCHANGED <<phase, bring, seen, watching, quiet, behind, lag, spent, writers, drove, started>>
TimedOut == spent > ReadyTimeout

(* Mutant: the first write is taken for a scan.                            *)
EnoughWritesOne == writes > 0

EnoughWrites == writes > 1

(* The first loop of _bring_to_clean_idle.                                 *)
AwaitWrites ==
  /\ bring = "wait"
  /\ \/ /\ EnoughWrites
        /\ bring' = IF status THEN "cycle" ELSE "blind"
        /\ seen' = block
        /\ asked' = IF status THEN asked ELSE asked \cup {press}
        /\ UNCHANGED <<phase, spent, watching, quiet, behind, lag, writers, drove, started, final>>
     \/ ~EnoughWrites /\ TimedOut /\ GiveUp /\ UNCHANGED asked
     \/ ~EnoughWrites /\ ~TimedOut /\ PowerTick /\ UNCHANGED <<bring, asked>>
  /\ UNCHANGED <<powering, press, count>>

Next_(command) == IF command = "reset" THEN "acknowledge" ELSE "reset"

LooksClean == seen = CleanIdle /\ asked = {}

(* The second: acknowledge and reset in turn.                              *)
AwaitIdle ==
  /\ bring = "cycle" /\ count < PressEvery
  /\ \/ /\ LooksClean /\ Ready
        /\ UNCHANGED <<count, seen, quiet, final>>
     \/ ~LooksClean /\ TimedOut /\ GiveUp /\ UNCHANGED count
     \/ ~LooksClean /\ ~TimedOut /\ PowerTick /\ count' = count + 1 /\ UNCHANGED bring
  /\ UNCHANGED <<powering, press, asked>>

Press ==
  /\ bring = "cycle" /\ count = PressEvery
  /\ asked' = asked \cup {press} /\ press' = Next_(press) /\ count' = 0
  /\ UNCHANGED <<powering, phase, bring, spent, seen, watching, quiet, behind, lag, writers,
                 drove, started, final>>

(* Mutant: a request that is never taken is waited for.                    *)
BlindTimesOutNever == FALSE

BlindTimesOut == TimedOut

(* _blind_power_up(): each request is waited for, then the outputs are.    *)
AwaitTaken ==
  /\ bring = "blind"
  /\ \/ /\ asked = {}
        /\ IF press = "acknowledge" THEN press' = "reset" /\ asked' = {"reset"} /\ UNCHANGED bring
           ELSE bring' = "quiet" /\ UNCHANGED <<press, asked>>
        /\ UNCHANGED <<phase, spent, seen, watching, quiet, behind, lag, writers, drove, started, final>>
     \/ asked # {} /\ BlindTimesOut /\ GiveUp /\ UNCHANGED <<press, asked>>
     \/ asked # {} /\ ~BlindTimesOut /\ PowerTick /\ UNCHANGED <<bring, press, asked>>
  /\ UNCHANGED <<powering, count>>

AwaitQuiet ==
  /\ bring = "quiet"
  /\ \/ count = QuietTicks /\ Ready /\ UNCHANGED <<count, seen, quiet, final>>
     \/ count < QuietTicks /\ TimedOut /\ GiveUp /\ UNCHANGED count
     \/ /\ count < QuietTicks /\ ~TimedOut /\ PowerTick
        /\ count' = IF on THEN 0 ELSE count + 1
        /\ UNCHANGED bring
  /\ UNCHANGED <<powering, press, asked>>

PowerUp == final = "none" /\ (AwaitWrites \/ AwaitIdle \/ Press \/ AwaitTaken \/ AwaitQuiet)

-----------------------------------------------------------------------------
Scenario == UNCHANGED <<image, intruder, bring, press, count, watching, final, started>>

(* The step of a scenario.  A controller that has stopped writing ends it  *)
(* before anything is checked.                                             *)
PacedStep ==
  /\ final = "none" /\ phase \in {"running", "mode", "settle", "poll"}
  /\ Paced
  /\ worst' = IF behind > worst THEN behind ELSE worst
  /\ IF watching /\ quiet' > Silence
     THEN /\ Over("silent")
          /\ UNCHANGED <<status, ticks, stage, expect, off, late, elapsed, broke, everMet>>
     ELSE Step
  /\ Scenario

PacedSetup ==
  /\ final = "none"
  /\ Setup
  /\ Scenario /\ UNCHANGED <<spent, seen, quiet, behind, lag, worst>>

(* _judge_timing(), after whatever result; a broken file raises instead.   *)
JudgeTiming ==
  /\ final = "none" /\ phase = "over"
  /\ final' = IF verdict # "load_error" /\ (Cardinality(writers) > 1 \/ lag > MaxLag)
              THEN "invalid" ELSE verdict
  /\ UNCHANGED <<runner, image, intruder, power, seen, pace, started>>

Runner == PowerUp \/ PacedSetup \/ PacedStep \/ JudgeTiming

Next == Runner \/ ScanOutputs \/ ScanStatus \/ Intrude

(* The runner's thread runs; of the controllers nothing is promised.       *)
Spec == Init /\ [][Next]_vars /\ WF_vars(Runner)

-----------------------------------------------------------------------------
OnTheLogic == {"passed", "timed_out", "unreachable", "violated", "not_observable"}

(* realtime.py: a run that can't be trusted says so instead of passing or  *)
(* failing on the logic.  A verdict on it is of one controller, which was  *)
(* still writing, and of a plant that kept up with it: no tick was late by *)
(* more than the limit and a step's own length.  (A step measures how late *)
(* it starts, so that of the last tick nothing is known.)                  *)
VerdictIsTrusted ==
  final \in OnTheLogic =>
    Cardinality(drove) <= 1 /\ quiet <= Silence /\ worst <= MaxLag + 1

(* The scenario begins on a controller at a clean IDLE: one it has         *)
(* published itself since the restart, not the zeros of a block nobody     *)
(* wrote nor what the last controller left there; and no request of the    *)
(* power-up is still on its way into the scenario.  Without a status block *)
(* only the last can be known.  Another controller can fake all of it.     *)
StartsClean ==
  ~intruder =>
    /\ status => started.published /\ started.ctl = CleanIdle
    /\ started.asked = {}

(* Every run ends, whatever the controller does: each wait has a deadline. *)
RunEnds == <>(final # "none")
=============================================================================
