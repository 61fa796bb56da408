---------------------------- MODULE ScenarioRun ----------------------------
(***************************************************************************)
(* runner.execute(): a scenario on a rig.  The given is reached and        *)
(* settles; then each stage applies its when and polls its expectations    *)
(* after every tick, until they hold, its window is over or an invariant   *)
(* trips.  What the line does in a tick is LineController's and Plant's;   *)
(* here a tick ends with some of the stage's expectations met, the given   *)
(* reached or not, and a law of the plant broken or not.                   *)
(***************************************************************************)
EXTENDS Naturals, FiniteSets

CONSTANTS
  Expectations,      \* the keys a stage expects
  ControllerFields,  \* those of them the controller's status block answers
  Stages,
  Within, Tolerance, \* ticks of a stage's limit, and of latency beyond it
  SettleTicks, RunUp \* settle_ticks; MAX_GIVEN_RUNUP_S in ticks

ASSUME RunAssumption ==
  /\ IsFiniteSet(Expectations) /\ ControllerFields \subseteq Expectations
  /\ Stages \in Nat \ {0} /\ Within \in Nat \ {0} /\ Tolerance \in Nat
  /\ SettleTicks \in Nat \ {0} /\ RunUp \in Nat \ {0}

VARIABLES
  status,     \* the controller publishes its status block
  phase, ticks, stage,
  expect,     \* what the stage expects
  off,        \* an invariant would trip: a law broken, or mass off the baseline
  verdict,    \* ScenarioResult, once the runner is over
  late,       \* within_tolerance
  elapsed,    \* stage_elapsed; 0 where the stage has not passed
  \* history, read by no action:
  broke,      \* a tick broke a law
  everMet     \* some tick of this stage's window met all that can be observed

runner == <<status, phase, ticks, stage, expect, off, verdict, late, elapsed,
            broke, everMet>>

Verdicts == {"passed", "violated", "timed_out", "not_observable", "unreachable",
             "load_error", "silent"}

RunTypeOK ==
  /\ status \in BOOLEAN
  /\ phase \in {"waiting", "given", "running", "mode", "settle", "when", "poll", "over"}
  /\ ticks \in 0 .. Within + Tolerance + SettleTicks + RunUp
  /\ stage \in 1 .. Stages
  /\ expect \subseteq Expectations /\ off \in BOOLEAN
  /\ verdict \in Verdicts \cup {"none"} /\ late \in BOOLEAN
  /\ elapsed \in [1 .. Stages -> 0 .. Within + Tolerance]
  /\ broke \in BOOLEAN /\ everMet \in BOOLEAN

RunInit(first) ==
  /\ status \in BOOLEAN
  /\ phase = first /\ ticks = 0 /\ stage = 1
  /\ expect = {} /\ off = FALSE
  /\ verdict = "none" /\ late = FALSE /\ elapsed = [s \in 1 .. Stages |-> 0]
  /\ broke = FALSE /\ everMet = FALSE

(* A controller that publishes nothing raises NotObservable.               *)
Observable == IF status THEN expect ELSE expect \ ControllerFields

Over(with) == phase' = "over" /\ verdict' = with
GoTo(next) == phase' = next /\ ticks' = 0 /\ UNCHANGED verdict
Stay == ticks' = ticks + 1 /\ UNCHANGED <<phase, verdict>>

-----------------------------------------------------------------------------

(* apply_field() of every field, which may preset a level, and only then   *)
(* invariants.rebaseline().                                                *)
OffAfterSetup == {FALSE}

(* _apply_given(), up to its run-up: given.line_state is idle, or one of   *)
(* the modes, or running.  A field that is not in the vocabulary is the    *)
(* file's fault, and no result.                                            *)
Given ==
  /\ phase = "given"
  /\ off' \in OffAfterSetup
  /\ \E next \in {"settle", "mode", "running"} : GoTo(next)
  /\ UNCHANGED <<status, stage, expect, late, elapsed, broke, everMet>>

BadField ==
  /\ phase \in {"given", "when"}
  /\ Over("load_error")
  /\ UNCHANGED <<status, ticks, stage, expect, off, late, elapsed, broke, everMet>>

(* step(), and invariants.check() after it.                                *)
Tick == \E breach \in BOOLEAN : off' = (off \/ breach) /\ broke' = (broke \/ breach)

(* The line is running, which the field shows too, or its mode is          *)
(* selected, which only the controller can tell.                           *)
Reach ==
  /\ phase \in {"running", "mode"} /\ Tick
  /\ \/ off' /\ Over("violated") /\ UNCHANGED ticks
     \/ ~off' /\ phase = "mode" /\ ~status /\ Over("not_observable") /\ UNCHANGED ticks
     \/ /\ ~off' /\ (phase = "mode" => status)
        /\ \/ GoTo("settle")
           \/ ticks + 1 < RunUp /\ Stay
           \/ ticks + 1 = RunUp /\ Over("unreachable") /\ UNCHANGED ticks
  /\ UNCHANGED <<status, stage, expect, late, elapsed, everMet>>

Settle ==
  /\ phase = "settle" /\ Tick
  /\ \/ off' /\ Over("violated") /\ UNCHANGED ticks
     \/ ~off' /\ ticks + 1 < SettleTicks /\ Stay
     \/ ~off' /\ ticks + 1 = SettleTicks /\ GoTo("when")
  /\ UNCHANGED <<status, stage, expect, late, elapsed, everMet>>

(* A stage's when; from here its window counts.                            *)
When ==
  /\ phase = "when"
  /\ off' \in OffAfterSetup
  /\ GoTo("poll")
  /\ expect' \in SUBSET Expectations \ {{}}
  /\ everMet' = FALSE
  /\ UNCHANGED <<status, stage, late, elapsed, broke>>

(* Mutant: what cannot be observed is not met.                             *)
UnmetHidden(met) == expect \ met

(* _unmet_expectations(), where some of the stage's hold.                  *)
Unmet(met) == Observable \ met

OnTime == Within

MaxTicks == Within + Tolerance

(* _poll_stage(): a tick that ends with some of the expectations met.      *)
Poll ==
  \E met \in SUBSET expect :
    LET now == ticks + 1
    IN  /\ phase = "poll" /\ Tick
        /\ everMet' = (everMet \/ (Observable # {} /\ Observable \subseteq met))
        /\ \/ off' /\ Over("violated") /\ UNCHANGED <<ticks, stage, late, elapsed>>
           \/ /\ ~off' /\ Observable = {}
              /\ Over("not_observable") /\ UNCHANGED <<ticks, stage, late, elapsed>>
           \/ /\ ~off' /\ Observable # {} /\ Unmet(met) = {}
              /\ elapsed' = [elapsed EXCEPT ![stage] = now]
              /\ late' = (late \/ now > OnTime)
              /\ IF stage < Stages THEN GoTo("when") /\ stage' = stage + 1
                 ELSE Over("passed") /\ UNCHANGED <<ticks, stage>>
           \/ /\ ~off' /\ Observable # {} /\ Unmet(met) # {}
              /\ IF now < MaxTicks THEN Stay ELSE Over("timed_out") /\ UNCHANGED ticks
              /\ UNCHANGED <<stage, late, elapsed>>
        /\ UNCHANGED <<status, expect>>

(* What the runner does without a tick, and with one.                      *)
Setup == Given \/ When \/ BadField
Step == Reach \/ Settle \/ Poll

-----------------------------------------------------------------------------
(* A verdict is earned.  A pass is a response of every stage, each inside  *)
(* its window, and says so if one of them was in the tolerance only        *)
(* (runner.py: never silently as if on time).  A time-out is the line's:   *)
(* at no tick of the window, its last included, did all that could be      *)
(* observed hold.  An invariant is reported violated where a tick broke    *)
(* it, and never for what the given or a when did to the plant.            *)
VerdictIsEarned ==
  /\ verdict = "passed" =>
       /\ \A s \in 1 .. Stages : elapsed[s] \in 1 .. Within + Tolerance
       /\ late <=> \E s \in 1 .. Stages : elapsed[s] > Within
  /\ verdict = "passed" => everMet
  /\ verdict = "timed_out" => ~everMet
  /\ verdict # "none" => (verdict = "violated" <=> broke)
=============================================================================
