------------------------------ MODULE RunProofs ------------------------------
(***************************************************************************)
(* The verdict of a real-time run, for every scenario, every controller,   *)
(* window, tolerance, stall and limit.                                     *)
(***************************************************************************)
EXTENDS RealtimeRun, FiniteSetTheorems, TLAPS

USE RunAssumption, RealtimeAssumption

(* The runner.  Where it stands, what it has of its verdict already.       *)

(* A verdict ends the run, and nothing else does.                          *)
PhaseInv ==
  /\ phase \in {"waiting", "given", "running", "mode", "settle", "when", "poll", "over"}
  /\ verdict \in Verdicts \cup {"none"}
  /\ phase = "over" <=> verdict # "none"

(* A broken law ends the run with the tick that broke it.                  *)
LawInv ==
  /\ broke \in BOOLEAN
  /\ verdict = "none" => ~off /\ ~broke
  /\ verdict # "none" => (verdict = "violated" <=> broke)

(* The stages passed so far have their times, those to come have none.     *)
StageInv ==
  /\ stage \in 1 .. Stages /\ ticks \in Nat /\ late \in BOOLEAN
  /\ elapsed \in [1 .. Stages -> 0 .. MaxTicks]
  /\ phase = "poll" => ticks < MaxTicks
  /\ \A s \in 1 .. Stages : s < stage => elapsed[s] > 0
  /\ \A s \in 1 .. Stages : s > stage \/ (s = stage /\ verdict # "passed") => elapsed[s] = 0
  /\ verdict = "passed" => stage = Stages /\ elapsed[stage] > 0
  /\ late <=> \E s \in 1 .. Stages : elapsed[s] > Within

(* As long as a stage is polled, no tick of its window has met it.         *)
MetInv ==
  /\ everMet \in BOOLEAN
  /\ phase = "poll" \/ verdict = "timed_out" => ~everMet
  /\ verdict = "passed" => everMet

RunInv == PhaseInv /\ LawInv /\ StageInv /\ MetInv

LEMMA RunInvInit == ASSUME NEW first \in {"waiting", "given"}, RunInit(first) PROVE RunInv
<1>1. PhaseInv /\ LawInv /\ MetInv
  BY DEF RunInit, PhaseInv, LawInv, MetInv, Verdicts
<1>2. StageInv
  <2>1. Stages \in Nat \ {0} /\ Within \in Nat \ {0} /\ MaxTicks \in Nat
    BY DEF MaxTicks
  <2>2. stage = 1 /\ ticks = 0 /\ late = FALSE /\ phase # "poll" /\ verdict = "none"
        /\ elapsed = [s \in 1 .. Stages |-> 0]
    BY DEF RunInit
  <2>3. elapsed \in [1 .. Stages -> 0 .. MaxTicks] /\ \A s \in 1 .. Stages : elapsed[s] = 0
    BY <2>1, <2>2
  <2>4. stage \in 1 .. Stages /\ ~(verdict = "passed") /\ ~(1 < 1)
    BY <2>1, <2>2
  <2>5. ~ \E s \in 1 .. Stages : elapsed[s] > Within
    BY <2>1, <2>3
  <2>6. \A s \in 1 .. Stages : ~(s < stage)
    BY <2>2
  <2> QED
    BY <2>2, <2>3, <2>4, <2>5, <2>6 DEF StageInv
<1> QED
  BY <1>1, <1>2 DEF RunInv

(* Setting up moves on to the next phase or gives the file up.             *)
LEMMA SetupKeeps == RunInv /\ Setup => RunInv'
<1> SUFFICES ASSUME RunInv, Setup PROVE RunInv'
  OBVIOUS
<1> USE DEF RunInv, PhaseInv, LawInv, StageInv, MetInv, Verdicts, GoTo, Over
<1>1. CASE Given
  BY <1>1 DEF Given, OffAfterSetup, MaxTicks
<1>2. CASE When
  <2>1. ticks' = 0 /\ phase' = "poll" /\ verdict = "none" /\ verdict' = "none" /\ off' = FALSE
        /\ everMet' = FALSE /\ UNCHANGED <<stage, late, elapsed, broke>>
    BY <1>2 DEF When, OffAfterSetup
  <2>2. 0 < MaxTicks
    BY DEF MaxTicks
  <2> QED
    BY <2>1, <2>2
<1>3. CASE BadField
  BY <1>3 DEF BadField, MaxTicks
<1> QED
  BY <1>1, <1>2, <1>3 DEF Setup

(* The run-up and the settling touch no stage.                             *)
LEMMA RunUpKeeps == RunInv /\ (Reach \/ Settle) => RunInv'
<1> SUFFICES ASSUME RunInv, Reach \/ Settle PROVE RunInv'
  OBVIOUS
<1> USE DEF RunInv, PhaseInv, LawInv, Verdicts, GoTo, Over, Stay, Tick
<1>1. (PhaseInv /\ LawInv)'
  BY DEF Reach, Settle
<1>2. ticks' \in Nat /\ phase' # "poll" /\ verdict' \notin {"passed", "timed_out"} /\ verdict # "passed"
  BY DEF Reach, Settle, StageInv
<1>3. UNCHANGED <<stage, late, elapsed, everMet>>
  BY DEF Reach, Settle
<1>4. StageInv'
  BY <1>2, <1>3 DEF StageInv, MaxTicks
<1>5. MetInv'
  BY <1>2, <1>3 DEF MetInv
<1> QED
  BY <1>1, <1>4, <1>5

(* A stage that responds gets the tick's number, which is within its       *)
(* window; one that does not has met nothing in that tick either.          *)
LEMMA PollKeeps == RunInv /\ Poll => RunInv'
<1> SUFFICES ASSUME RunInv, Poll PROVE RunInv'
  OBVIOUS
<1>1. PICK met \in SUBSET expect :
        LET now == ticks + 1
        IN  /\ phase = "poll" /\ Tick
            /\ everMet' = (everMet \/ (Observable # {} /\ Observable \subseteq met))
            /\ \/ off' /\ Over("violated") /\ UNCHANGED <<ticks, stage, late, elapsed>>
               \/ /\ ~off' /\ Observable = {}
                  /\ Over("not_observable") /\ UNCHANGED <<ticks, stage, late, elapsed>>
               \/ /\ ~off' /\ Observable # {} /\ Unmet(met) = {}
                  /\ elapsed' = [elapsed EXCEPT ![stage] = now]
                  /\ late' = (late \/ now > OnTime)
                  /\ IF stage < Stages THEN GoTo("when") /\ stage' = stage + 1
                     ELSE Over("passed") /\ UNCHANGED <<ticks, stage>>
               \/ /\ ~off' /\ Observable # {} /\ Unmet(met) # {}
                  /\ IF now < MaxTicks THEN Stay ELSE Over("timed_out") /\ UNCHANGED ticks
                  /\ UNCHANGED <<stage, late, elapsed>>
            /\ UNCHANGED <<status, expect>>
  BY DEF Poll
<1> DEFINE hit == Observable # {} /\ Observable \subseteq met
<1>8. everMet' = (everMet \/ hit) /\ Tick
  BY <1>1
<1>2. verdict = "none" /\ ~off /\ ~broke /\ ~everMet /\ ticks \in Nat /\ ticks + 1 \in 1 .. MaxTicks
  BY <1>1 DEF RunInv, PhaseInv, LawInv, MetInv, StageInv, MaxTicks
<1>3. Unmet(met) = {} <=> Observable \subseteq met
  BY DEF Unmet
<1>4. CASE off'
  <2>1. verdict' = "violated" /\ phase' = "over" /\ broke' = TRUE
        /\ UNCHANGED <<ticks, stage, late, elapsed>> /\ everMet' \in BOOLEAN
    BY <1>1, <1>2, <1>4 DEF Over, Tick
  <2> QED
    BY <2>1, <1>2 DEF RunInv, PhaseInv, LawInv, MetInv, StageInv, Verdicts, MaxTicks
<1>5. CASE ~off' /\ Observable = {}
  <2>1. verdict' = "not_observable" /\ phase' = "over" /\ broke' = FALSE
        /\ UNCHANGED <<ticks, stage, late, elapsed>> /\ everMet' \in BOOLEAN
    BY <1>1, <1>2, <1>5 DEF Over, Tick
  <2> QED
    BY <2>1, <1>2 DEF RunInv, PhaseInv, LawInv, MetInv, StageInv, Verdicts, MaxTicks
<1>6. CASE ~off' /\ Observable # {} /\ Unmet(met) # {}
  <2>2. ~hit
    BY <1>3, <1>6
  <2>3. everMet' = FALSE /\ broke' = FALSE
    BY <2>2, <1>2, <1>6, <1>8 DEF Tick
  <2>1. /\ UNCHANGED <<stage, late, elapsed>>
        /\ ticks' \in Nat
        /\ \/ phase' = "poll" /\ verdict' = "none" /\ ticks' < MaxTicks
           \/ phase' = "over" /\ verdict' = "timed_out"
    BY <1>1, <1>2, <1>6 DEF Over, Stay, MaxTicks
  <2> QED
    BY <2>1, <2>3, <1>2, <1>6 DEF RunInv, PhaseInv, LawInv, MetInv, StageInv, Verdicts, MaxTicks
<1>7. CASE ~off' /\ Observable # {} /\ Unmet(met) = {}
  <2>1. /\ elapsed' = [elapsed EXCEPT ![stage] = ticks + 1]
        /\ late' = (late \/ ticks + 1 > Within)
    BY <1>1, <1>7 DEF OnTime
  <2>7. hit
    BY <1>3, <1>7
  <2>8. everMet' = TRUE /\ broke' = FALSE
    BY <2>7, <1>2, <1>7, <1>8 DEF Tick
  <2>2. stage \in 1 .. Stages /\ elapsed \in [1 .. Stages -> 0 .. MaxTicks] /\ elapsed[stage] = 0
    BY <1>2 DEF RunInv, StageInv
  <2>3. /\ elapsed' \in [1 .. Stages -> 0 .. MaxTicks] /\ elapsed'[stage] = ticks + 1
        /\ \A s \in 1 .. Stages : s # stage => elapsed'[s] = elapsed[s]
    BY <2>1, <2>2, <1>2 DEF MaxTicks
  <2>4. late' <=> \E s \in 1 .. Stages : elapsed'[s] > Within
    <3>1. ~(elapsed[stage] > Within)
      BY <2>2
    <3>2. late <=> \E s \in 1 .. Stages : elapsed[s] > Within
      BY DEF RunInv, StageInv
    <3>3. (\E s \in 1 .. Stages : elapsed'[s] > Within)
            <=> elapsed'[stage] > Within \/ \E s \in 1 .. Stages : elapsed[s] > Within
      BY <3>1, <2>2, <2>3
    <3> QED
      BY <3>2, <3>3, <2>1, <2>3
  <2>5. CASE stage < Stages
    <3>1. phase' = "when" /\ ticks' = 0 /\ verdict' = "none" /\ stage' = stage + 1
      BY <1>1, <1>2, <1>7, <2>5 DEF GoTo
    <3>2. StageInv'
      BY <3>1, <2>1, <2>2, <2>3, <2>4, <2>5, <1>2 DEF RunInv, StageInv, MaxTicks
    <3> QED
      BY <3>1, <3>2, <2>8, <1>7 DEF RunInv, PhaseInv, LawInv, MetInv, Verdicts
  <2>6. CASE ~(stage < Stages)
    <3>1. phase' = "over" /\ verdict' = "passed" /\ UNCHANGED <<ticks, stage>>
      BY <1>1, <1>2, <1>7, <2>6 DEF Over
    <3>2. StageInv'
      BY <3>1, <2>1, <2>2, <2>3, <2>4, <2>6, <1>2 DEF RunInv, StageInv, MaxTicks
    <3> QED
      BY <3>1, <3>2, <2>8, <1>7 DEF RunInv, PhaseInv, LawInv, MetInv, Verdicts
  <2> QED
    BY <2>5, <2>6
<1> QED
  BY <1>1, <1>4, <1>5, <1>6, <1>7

-----------------------------------------------------------------------------
(* The real-time run around it.                                            *)

(* The power-up comes before the scenario, which is watched throughout;    *)
(* what is measured of the pacer covers every tick of it.                  *)
PaceInv ==
  /\ phase = "waiting" <=> bring # "up"
  /\ bring # "up" => worst = 0 /\ verdict = "none"
  /\ bring = "up" => watching
  /\ behind \in Nat /\ lag \in Nat /\ worst \in Nat /\ quiet \in Nat
  /\ worst <= lag + 1

(* A verdict on the logic is of a tick before which somebody wrote, and    *)
(* the run's result repeats it only of one writer and a pacer in time.     *)
TrustInv ==
  /\ writers \subseteq {"ctl", "other"} /\ drove = writers
  /\ verdict \in OnTheLogic => quiet <= Silence
  /\ final \in OnTheLogic => Cardinality(writers) <= 1 /\ lag <= MaxLag /\ verdict = final
  /\ final \in Verdicts => final = verdict

(* Two writes of one controller end a scan, whose status is then its own;  *)
(* and a controller at a clean idle stays there until somebody starts it.  *)
CleanInv ==
  /\ status \in BOOLEAN
  /\ bring \in {"wait", "cycle", "blind", "quiet", "up"}
  /\ bring = "cycle" => status
  /\ bring \in {"blind", "quiet"} => ~status
  /\ asked \subseteq Commands /\ press \in Commands
  /\ bring = "quiet" => asked = {}
  /\ writes \in Nat
  /\ ~intruder =>
       /\ writes > 1 => published
       /\ writes = 1 /\ ~published => taken # NotScanning
       /\ published /\ status /\ block = CleanIdle => ctl = CleanIdle
       /\ bring = "cycle" => published
       /\ bring = "cycle" /\ seen = CleanIdle => ctl = CleanIdle
  /\ StartsClean

IInv == RunInv /\ PaceInv /\ TrustInv /\ CleanInv

LEMMA IInvInit == Init => IInv
<1> SUFFICES ASSUME Init PROVE IInv
  OBVIOUS
<1>1. RunInv
  BY RunInvInit DEF Init
<1>2. PaceInv
  BY DEF Init, RunInit, PaceInv
<1>3. TrustInv
  BY DEF Init, RunInit, TrustInv, OnTheLogic, Verdicts
<1>4. CleanInv
  BY DEF Init, RunInit, CleanInv, StartsClean, CleanIdle, Commands
<1> QED
  BY <1>1, <1>2, <1>3, <1>4 DEF IInv

(* The bounds of the clocks keep them natural numbers.                     *)
LEMMA PacedKeeps ==
  ASSUME Paced, behind \in Nat, lag \in Nat, quiet \in Nat
  PROVE  /\ behind' \in Nat /\ lag' \in Nat /\ quiet' \in Nat
         /\ lag <= lag' /\ behind <= lag' + 1
<1> PICK s \in Stalls :
      /\ lag' = MaxLagOf(Less(behind, 1))
      /\ behind' = AtMost(Less(behind, 1) + s, BehindMax)
      /\ quiet' = AtMost(quiet + 1 + s, Silence + 1)
  BY DEF Paced
<1>1. s \in Nat /\ Silence + 1 \in Nat /\ BehindMax \in Nat
  BY DEF BehindMax
<1>2. Less(behind, 1) \in Nat /\ behind <= Less(behind, 1) + 1
  BY DEF Less
<1> QED
  BY <1>1, <1>2 DEF MaxLagOf, AtMost

-----------------------------------------------------------------------------
(* What a controller writes is no verdict.                                 *)

LEMMA ControllersKeep == IInv /\ (ScanOutputs \/ ScanStatus \/ Intrude) => IInv'
<1> SUFFICES ASSUME IInv, ScanOutputs \/ ScanStatus \/ Intrude PROVE IInv'
  OBVIOUS
<1>1. /\ UNCHANGED <<runner, power, seen, watching, behind, lag, worst, final, started, intruder>>
      /\ final = "none" /\ quiet' = 0 /\ writes' = AtMost(writes + 1, 2)
  BY DEF ScanOutputs, ScanStatus, Intrude, rest, WrittenBy
<1>2. \E who \in {"ctl", "other"} : writers' = writers \cup {who} /\ drove' = drove \cup {who}
  BY DEF ScanOutputs, ScanStatus, Intrude, WrittenBy
<1>3. RunInv'
  BY <1>1 DEF IInv, runner, RunInv, PhaseInv, LawInv, StageInv, MetInv, MaxTicks
<1>4. PaceInv'
  BY <1>1 DEF IInv, PaceInv, runner, power
<1>5. TrustInv'
  BY <1>1, <1>2 DEF IInv, TrustInv, runner, OnTheLogic, Verdicts
<1>6. /\ UNCHANGED <<status, bring, seen, intruder, started>>
      /\ writes' \in Nat /\ (writes' = 1 => writes = 0) /\ (writes' > 1 => writes >= 1)
  BY <1>1 DEF runner, power, AtMost, IInv, CleanInv
<1>7. CASE ScanOutputs
  <2>1. ASSUME ctl = CleanIdle PROVE ctl' = CleanIdle
    <3>1. PICK clears \in BOOLEAN :
            LET latched == ctl.latched /\ ~("acknowledge" \in asked /\ clears)
            IN  ctl' = [latched |-> latched,
                        state |-> IF "reset" \in asked /\ ~latched THEN "idle" ELSE ctl.state]
      BY <1>7 DEF ScanOutputs
    <3>2. ctl.latched = FALSE /\ ctl.state = "idle"
      BY <2>1 DEF CleanIdle
    <3>3. (ctl.latched /\ ~("acknowledge" \in asked /\ clears)) = FALSE
      BY <3>2
    <3> QED
      BY <3>1, <3>2, <3>3 DEF CleanIdle
  <2>2. taken = NotScanning /\ taken' = asked /\ UNCHANGED <<asked, block, published>>
    BY <1>7 DEF ScanOutputs
  <2>3. asked # NotScanning
    BY DEF IInv, CleanInv, Commands, NotScanning
  <2>4. ~intruder =>
          /\ writes' > 1 => published'
          /\ published' /\ status' /\ block' = CleanIdle => ctl' = CleanIdle
          /\ bring' = "cycle" /\ seen' = CleanIdle => ctl' = CleanIdle
    <3>1. writes' > 1 => writes >= 1
      BY <1>6
    <3>2. writes >= 1 => writes = 1 \/ writes > 1
      BY DEF IInv, CleanInv
    <3>3. ~intruder => (writes >= 1 => published)
      BY <3>2, <2>2 DEF IInv, CleanInv
    <3>4. ~intruder /\ published /\ status /\ block = CleanIdle => ctl = CleanIdle
      BY DEF IInv, CleanInv
    <3>5. ~intruder /\ bring = "cycle" /\ seen = CleanIdle => ctl = CleanIdle
      BY DEF IInv, CleanInv
    <3> QED
      BY <3>1, <3>3, <3>4, <3>5, <1>6, <2>1, <2>2
  <2>5. StartsClean'
    BY <1>6 DEF IInv, CleanInv, StartsClean
  <2>6. CleanInv'
    BY <1>1, <1>6, <2>2, <2>3, <2>4, <2>5 DEF IInv, CleanInv, power
  <2> QED
    BY <1>3, <1>4, <1>5, <2>6 DEF IInv
<1>8. CASE ScanStatus
  <2>1. asked' \subseteq asked /\ published' = TRUE /\ UNCHANGED ctl
    BY <1>8 DEF ScanStatus
  <2>2. status => block' = ctl'
    BY <1>8 DEF ScanStatus
  <2> QED
    BY <1>1, <1>6, <2>1, <2>2, <1>3, <1>4, <1>5 DEF IInv, CleanInv, StartsClean, power
<1>9. CASE Intrude
  <2>1. intruder /\ UNCHANGED asked
    BY <1>9 DEF Intrude
  <2> QED
    BY <1>6, <2>1, <1>3, <1>4, <1>5, <1>1 DEF IInv, CleanInv, StartsClean, power
<1> QED
  BY <1>7, <1>8, <1>9

-----------------------------------------------------------------------------
(* The power-up: nobody's verdict, and the way to a clean idle.            *)

LEMMA PowerUpKeeps == IInv /\ PowerUp => IInv'
<1> SUFFICES ASSUME IInv, PowerUp PROVE IInv'
  OBVIOUS
<1>1. AwaitWrites \/ AwaitIdle \/ Press \/ AwaitTaken \/ AwaitQuiet
  BY DEF PowerUp
<1>2. /\ final = "none" /\ bring # "up" /\ UNCHANGED powering
      /\ phase = "waiting" /\ verdict = "none" /\ worst = 0
  BY <1>1 DEF PowerUp, AwaitWrites, AwaitIdle, Press, AwaitTaken, AwaitQuiet, IInv, PaceInv
<1>3. \/ /\ bring' # "up" /\ phase' = "waiting" /\ UNCHANGED <<writers, drove, started>>
         /\ final' = "none" \/ final' = "not_ready"
         /\ \/ UNCHANGED <<behind, lag, quiet>>
            \/ Paced
      \/ Ready /\ UNCHANGED <<quiet, final>>
  BY <1>1, <1>2 DEF AwaitWrites, AwaitIdle, Press, AwaitTaken, AwaitQuiet, PowerTick, GiveUp
<1>4. RunInv'
  <2>1. phase' \in {"waiting", "given"}
    BY <1>3 DEF Ready
  <2>2. UNCHANGED <<stage, ticks, late, elapsed, verdict, off, broke, everMet>>
    BY <1>2 DEF powering
  <2> QED
    BY <2>1, <2>2, <1>2 DEF IInv, RunInv, PhaseInv, LawInv, StageInv, MetInv, MaxTicks
<1>5. PaceInv'
  BY <1>2, <1>3, PacedKeeps DEF IInv, PaceInv, Ready, powering, WatchingNow
<1>6. TrustInv'
  BY <1>2, <1>3 DEF IInv, TrustInv, Ready, powering, OnTheLogic, Verdicts
<1>7. CleanInv'
  <2>1. UNCHANGED <<status, intruder, ctl, taken, block, writes, published>>
    BY <1>2 DEF powering
  <2>2. CASE AwaitWrites
    <3>1. /\ \/ bring' = "cycle" /\ status /\ EnoughWrites /\ seen' = block /\ UNCHANGED asked
             \/ bring' = "blind" /\ ~status /\ asked' = asked \cup {press}
             \/ bring' = "wait" /\ UNCHANGED asked
          /\ UNCHANGED <<press, started>>
      BY <2>2 DEF AwaitWrites, PowerTick, GiveUp
    <3> QED
      BY <3>1, <2>1 DEF IInv, CleanInv, StartsClean, EnoughWrites
  <2>3. CASE AwaitIdle
    <3>1. UNCHANGED <<press, asked>> /\ bring = "cycle"
      BY <2>3 DEF AwaitIdle
    <3>2. \/ Ready /\ LooksClean
          \/ UNCHANGED <<bring, started>> /\ (seen' = seen \/ seen' = block)
      BY <2>3 DEF AwaitIdle, PowerTick, GiveUp, Paced
    <3>3. CASE Ready /\ LooksClean
      BY <3>1, <3>3, <2>1 DEF IInv, CleanInv, StartsClean, Ready, LooksClean
    <3>4. CASE UNCHANGED <<bring, started>> /\ (seen' = seen \/ seen' = block)
      BY <3>1, <3>4, <2>1 DEF IInv, CleanInv, StartsClean
    <3> QED
      BY <3>2, <3>3, <3>4
  <2>4. CASE Press
    BY <2>4, <2>1 DEF Press, Next_, IInv, CleanInv, StartsClean, Commands
  <2>5. CASE AwaitTaken
    <3>1. /\ bring = "blind" /\ UNCHANGED started
          /\ \/ bring' = "blind" /\ press' = "reset" /\ asked' = {"reset"}
             \/ bring' = "quiet" /\ asked = {} /\ UNCHANGED <<press, asked>>
             \/ bring' = "blind" /\ UNCHANGED <<press, asked>>
      BY <2>5 DEF AwaitTaken, PowerTick, GiveUp
    <3> QED
      BY <3>1, <2>1 DEF IInv, CleanInv, StartsClean, Commands
  <2>6. CASE AwaitQuiet
    <3>1. UNCHANGED <<press, asked>> /\ bring = "quiet" /\ (Ready \/ UNCHANGED <<bring, started>>)
      BY <2>6 DEF AwaitQuiet, PowerTick, GiveUp
    <3>2. CASE Ready
      BY <3>1, <3>2, <2>1 DEF IInv, CleanInv, StartsClean, Ready
    <3>3. CASE UNCHANGED <<bring, started>>
      BY <3>1, <3>3, <2>1 DEF IInv, CleanInv, StartsClean
    <3> QED
      BY <3>1, <3>2, <3>3
  <2> QED
    BY <1>1, <2>2, <2>3, <2>4, <2>5, <2>6
<1> QED
  BY <1>4, <1>5, <1>6, <1>7 DEF IInv

-----------------------------------------------------------------------------
(* The scenario and the judgement.                                         *)

LEMMA ScenarioKeeps == IInv /\ (PacedSetup \/ PacedStep) => IInv'
<1> SUFFICES ASSUME IInv, PacedSetup \/ PacedStep PROVE IInv'
  OBVIOUS
<1>1. /\ final = "none" /\ UNCHANGED <<image, intruder, bring, press, count, watching, final, started>>
  BY DEF PacedSetup, PacedStep, Scenario
<1>2. /\ phase \notin {"waiting", "over"} /\ phase' # "waiting" /\ UNCHANGED status
      /\ verdict = "none" /\ bring = "up" /\ watching
  BY DEF PacedSetup, PacedStep, Setup, Given, When, BadField, Step, Reach, Settle, Poll,
         Over, GoTo, Stay, IInv, RunInv, PhaseInv, PaceInv
<1>3. RunInv'
  <2>1. CASE PacedSetup
    BY <2>1, SetupKeeps DEF PacedSetup, IInv
  <2>2. CASE PacedStep /\ Step
    BY <2>2, RunUpKeeps, PollKeeps DEF Step, IInv
  <2>3. CASE PacedStep /\ ~Step
    <3>1. /\ Over("silent")
          /\ UNCHANGED <<status, ticks, stage, expect, off, late, elapsed, broke, everMet>>
      BY <2>3 DEF PacedStep
    <3> QED
      BY <3>1, <1>2 DEF IInv, RunInv, PhaseInv, LawInv, StageInv, MetInv, MaxTicks, Verdicts, Over
  <2> QED
    BY <2>1, <2>2, <2>3
<1>4. PaceInv'
  <2>1. CASE PacedSetup
    BY <2>1, <1>1, <1>2 DEF PacedSetup, IInv, PaceInv
  <2>2. CASE PacedStep
    <3>1. Paced /\ worst' = IF behind > worst THEN behind ELSE worst
      BY <2>2 DEF PacedStep
    <3>2. behind' \in Nat /\ lag' \in Nat /\ quiet' \in Nat /\ lag <= lag' /\ behind <= lag' + 1
      BY <3>1, PacedKeeps DEF IInv, PaceInv
    <3>3. worst' = worst \/ worst' = behind
      BY <3>1
    <3>5. worst \in Nat /\ behind \in Nat /\ lag \in Nat /\ worst <= lag + 1
      BY DEF IInv, PaceInv
    <3>6. worst <= lag' + 1
      <4>1. \A w, l, m \in Nat : w <= l + 1 /\ l <= m => w <= m + 1
        OBVIOUS
      <4> QED
        BY <4>1, <3>2, <3>5
    <3>4. worst' \in Nat /\ worst' <= lag' + 1
      BY <3>2, <3>3, <3>5, <3>6
    <3> QED
      BY <3>2, <3>4, <1>1, <1>2 DEF IInv, PaceInv
  <2> QED
    BY <2>1, <2>2
<1>5. TrustInv'
  <2>1. verdict' \in OnTheLogic => quiet' <= Silence
    <3>1. CASE PacedSetup
      BY <3>1, <1>2 DEF PacedSetup, Setup, Given, When, BadField, GoTo, Over, OnTheLogic
    <3>2. CASE PacedStep
      BY <3>2, <1>2, <1>4 DEF PacedStep, Over, OnTheLogic, PaceInv
    <3> QED
      BY <3>1, <3>2
  <2> QED
    BY <2>1, <1>1 DEF IInv, TrustInv, image, OnTheLogic, Verdicts
<1>6. CleanInv'
  <2>1. UNCHANGED <<status, bring, press, asked, writes, intruder, published, taken, block, ctl, started>>
    BY <1>1, <1>2 DEF image
  <2> QED
    BY <2>1, <1>2 DEF IInv, CleanInv, StartsClean
<1> QED
  BY <1>3, <1>4, <1>5, <1>6 DEF IInv

LEMMA JudgementKeeps == IInv /\ JudgeTiming => IInv'
<1> SUFFICES ASSUME IInv, JudgeTiming PROVE IInv'
  OBVIOUS
<1>1. /\ UNCHANGED <<runner, image, intruder, power, seen, pace, started>>
      /\ final' = IF verdict # "load_error" /\ (Cardinality(writers) > 1 \/ lag > MaxLag)
                  THEN "invalid" ELSE verdict
  BY DEF JudgeTiming
<1>2. RunInv'
  BY <1>1 DEF IInv, runner, RunInv, PhaseInv, LawInv, StageInv, MetInv, MaxTicks
<1>3. PaceInv'
  BY <1>1 DEF IInv, runner, power, pace, PaceInv
<1>4. TrustInv'
  <2>1. Cardinality(writers) \in Nat
    <3>1. IsFiniteSet({"ctl", "other"})
      <4>1. IsFiniteSet({} \cup {"ctl"})
        BY FS_EmptySet, FS_AddElement
      <4>2. IsFiniteSet(({} \cup {"ctl"}) \cup {"other"})
        BY <4>1, FS_AddElement
      <4> QED
        BY <4>2
    <3> QED
      BY <3>1, FS_Subset, FS_CardinalityType DEF IInv, TrustInv
  <2>2. lag \in Nat /\ verdict \in Verdicts \cup {"none"}
    BY DEF IInv, PaceInv, RunInv, PhaseInv
  <2>3. UNCHANGED <<writers, drove, verdict, quiet, lag>>
    BY <1>1 DEF image, runner, pace
  <2> QED
    BY <1>1, <2>1, <2>2, <2>3 DEF IInv, TrustInv, OnTheLogic, Verdicts
<1>5. CleanInv'
  BY <1>1 DEF IInv, CleanInv, StartsClean, runner, image, power
<1> QED
  BY <1>2, <1>3, <1>4, <1>5 DEF IInv

(* Nothing of the invariant is about a run that is over.                   *)
LEMMA IInvStep == IInv /\ [Next]_vars => IInv'
<1> SUFFICES ASSUME IInv, [Next]_vars PROVE IInv'
  OBVIOUS
<1>1. CASE UNCHANGED vars
  <2>1. UNCHANGED <<runner, image, intruder, power, seen, pace, final, started>>
    BY <1>1 DEF vars
  <2>2. RunInv'
    BY <2>1 DEF IInv, RunInv, PhaseInv, LawInv, StageInv, MetInv, MaxTicks, runner
  <2>3. PaceInv' /\ TrustInv'
    BY <2>1 DEF IInv, PaceInv, TrustInv, runner, image, power, pace
  <2>4. CleanInv'
    BY <2>1 DEF IInv, CleanInv, StartsClean, runner, image, power
  <2> QED
    BY <2>2, <2>3, <2>4 DEF IInv
<1> QED
  BY <1>1, PowerUpKeeps, ScenarioKeeps, JudgementKeeps, ControllersKeep DEF Next, Runner

(* What holds throughout a run, its power-up and its judgement included.   *)
THEOREM RunInvariant == Spec => []IInv
<1> QED
  BY IInvInit, IInvStep, PTL DEF Spec

(* A pass is of every stage inside its window and says when one was late;  *)
(* a time-out is of a window no tick of which met the stage; a violation   *)
(* is of a law that a tick broke (execute(), _poll_stage()).               *)
THEOREM VerdictsAreEarned == Spec => []VerdictIsEarned
<1>1. IInv => VerdictIsEarned
  <2> SUFFICES ASSUME IInv PROVE VerdictIsEarned
    OBVIOUS
  <2>1. ASSUME verdict = "passed"
        PROVE  /\ \A s \in 1 .. Stages : elapsed[s] \in 1 .. Within + Tolerance
               /\ late <=> \E s \in 1 .. Stages : elapsed[s] > Within
    <3>1. /\ stage = Stages /\ elapsed \in [1 .. Stages -> 0 .. MaxTicks]
          /\ \A s \in 1 .. Stages : s < stage => elapsed[s] > 0
          /\ elapsed[stage] > 0
          /\ late <=> \E s \in 1 .. Stages : elapsed[s] > Within
      BY <2>1 DEF IInv, RunInv, StageInv
    <3>2. \A s \in 1 .. Stages : elapsed[s] > 0
      BY <3>1
    <3> QED
      BY <3>1, <3>2 DEF MaxTicks
  <2> QED
    BY <2>1 DEF IInv, RunInv, LawInv, MetInv, VerdictIsEarned
<1> QED
  BY <1>1, RunInvariant, PTL

(* A verdict on the logic is of one controller, still writing, and of a    *)
(* plant that kept up with it (_judge_timing(), _Pacer.step()).            *)
THEOREM VerdictsAreTrusted == Spec => []VerdictIsTrusted
<1>1. IInv => VerdictIsTrusted
  <2> SUFFICES ASSUME IInv, final \in OnTheLogic PROVE VerdictIsTrusted
    BY DEF VerdictIsTrusted
  <2>1. verdict \in OnTheLogic /\ Cardinality(drove) <= 1 /\ lag <= MaxLag
    BY DEF IInv, TrustInv
  <2>2. quiet <= Silence
    BY <2>1 DEF IInv, TrustInv
  <2>3. \A w, l, m \in Nat : w <= l + 1 /\ l <= m => w <= m + 1
    OBVIOUS
  <2>4. worst <= MaxLag + 1
    BY <2>1, <2>3 DEF IInv, PaceInv
  <2> QED
    BY <2>1, <2>2, <2>4 DEF VerdictIsTrusted
<1> QED
  BY <1>1, RunInvariant, PTL

(* Whoever was there before the restart, and whatever the power-up has     *)
(* still to press, a scenario begins on a clean IDLE of this controller's  *)
(* own (_bring_to_clean_idle(), _blind_power_up()).                        *)
THEOREM ScenariosStartClean == Spec => []StartsClean
<1>1. IInv => StartsClean
  BY DEF IInv, CleanInv
<1> QED
  BY <1>1, RunInvariant, PTL
=============================================================================
