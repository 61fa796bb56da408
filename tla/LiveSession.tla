---------------------------- MODULE LiveSession ----------------------------
(***************************************************************************)
(* The dashboard's session and the threads that share it: the HTTP         *)
(* handlers, the pacer, and the verifier, which runs a scenario on the     *)
(* session's own line.  An action is what one thread does between taking   *)
(* the session's lock and releasing it, or before it takes the lock.       *)
(*                                                                         *)
(* A rig is known by the number of the session it was built for.  What the *)
(* line does in a tick is LineController's and Plant's; here it records an *)
(* event or none, and conserves mass.                                      *)
(***************************************************************************)
EXTENDS Naturals, FiniteSets

CONSTANTS
  Handlers,        \* HTTP handler threads
  Inputs,          \* keys a handler can queue
  Levels,          \* those of them in LEVEL_STIMULI, which move mass
  TourSteps,       \* steps of the guided walkthrough
  ScenarioTicks,   \* ticks until the scenario's last deadline
  MaxSessions, MaxLog   \* bounds: sessions begun, events of one session

ASSUME LiveAssumption ==
  /\ Levels \subseteq Inputs
  /\ TourSteps \in Nat /\ ScenarioTicks \in Nat
  /\ MaxSessions \in Nat \ {0} /\ MaxLog \in Nat

NoTour == [index |-> TourSteps + 1, mark |-> 0]
Nothing == "nothing"
Renewals == {"restart", "start_tour"}
Requests == Inputs \cup Renewals

VARIABLES
  \* LiveSession, under its lock:
  session,     \* session_number; the rig is the one built for it
  log,         \* len(events.events)
  sampled,     \* tags.samples is not empty
  pending,     \* _pending: the keys, each with the rig it was queued on
  drift,       \* the plant's mass is not what self.invariants expects
  violation,   \* a check failed; shown until the next session
  tour,        \* the walkthrough's step and the log's length when it began
  verifying,
  \* threads:
  handler,     \* what each handler has found allowed and not yet done
  running,     \* Pacer.running
  busy,        \* Verifier.busy
  job,         \* where the verifier's thread is
  recorders,   \* the session whose recorders execute() was given
  judged,      \* the rig it was given
  left,        \* ticks the scenario may still take
  \* history, read by no action but for the bound on sessions:
  asked,       \* sessions asked for
  touched      \* an input or a pacer's tick has reached the current rig

store   == <<session, log, sampled, pending, drift, violation, tour, touched>>
verifier == <<busy, job, recorders, judged, left>>
livevars == <<store, verifying, handler, running, verifier, asked>>

TypeOK ==
  /\ session \in 1 .. MaxSessions /\ log \in 0 .. MaxLog
  /\ sampled \in BOOLEAN /\ drift \in BOOLEAN /\ violation \in BOOLEAN
  /\ verifying \in BOOLEAN /\ running \in BOOLEAN /\ busy \in BOOLEAN
  /\ touched \in BOOLEAN
  /\ pending \subseteq [key : Inputs, rig : 1 .. MaxSessions]
  /\ tour \in [index : 0 .. TourSteps, mark : 0 .. MaxLog] \cup {NoTour}
  /\ handler \in [Handlers -> Requests \cup {Nothing}]
  /\ job \in {"idle", "waiting", "owning", "recording", "applying", "running",
              "passed", "failed"}
  /\ recorders \in 0 .. MaxSessions /\ judged \in 0 .. MaxSessions
  /\ left \in 0 .. ScenarioTicks
  /\ asked \in 1 .. MaxSessions

LiveInit ==
  /\ session = 1 /\ log = 0 /\ sampled = TRUE /\ pending = {}
  /\ drift = FALSE /\ violation = FALSE /\ tour = NoTour
  /\ verifying = FALSE /\ handler = [h \in Handlers |-> Nothing] /\ running = TRUE
  /\ busy = FALSE /\ job = "idle" /\ recorders = 0 /\ judged = 0 /\ left = 0
  /\ asked = 1 /\ touched = FALSE

-----------------------------------------------------------------------------
(* Mutant: the queue outlives the session it was filled in.                *)
FreshKeepsQueue(with) ==
  /\ session' = session + 1
  /\ log' = 0 /\ sampled' = TRUE
  /\ drift' = FALSE /\ violation' = FALSE
  /\ tour' = with /\ touched' = FALSE
  /\ UNCHANGED pending

(* _fresh(): a rig, recorders with their first sample, an empty queue.     *)
Fresh(with) ==
  /\ session' = session + 1
  /\ log' = 0 /\ sampled' = TRUE /\ pending' = {}
  /\ drift' = FALSE /\ violation' = FALSE
  /\ tour' = with /\ touched' = FALSE

(* The handlers.  _refuse_while_verifying() comes first and is not under   *)
(* the lock; a request refused is gone.                                    *)
Ask(h) ==
  /\ handler[h] = Nothing /\ ~verifying
  /\ \E what \in Requests :
       /\ what \in Renewals => asked < MaxSessions
       /\ asked' = IF what \in Renewals THEN asked + 1 ELSE asked
       /\ handler' = [handler EXCEPT ![h] = what]
  /\ UNCHANGED <<store, verifying, running, verifier>>

(* command(), setpoint(), stimulus(), under the lock: queued.  A command   *)
(* is bound to the line of that moment.                                    *)
Queue(h) ==
  /\ handler[h] \in Inputs
  /\ pending' = pending \cup {[key |-> handler[h], rig |-> session]}
  /\ handler' = [handler EXCEPT ![h] = Nothing]
  /\ UNCHANGED <<session, log, sampled, drift, violation, tour, touched,
                 verifying, running, verifier, asked>>

(* restart(), and start_tour(), which also sets the line going.            *)
Renew(h) ==
  /\ handler[h] \in Renewals
  /\ Fresh(IF handler[h] = "start_tour" THEN [index |-> 0, mark |-> 0] ELSE NoTour)
  /\ running' = (running \/ handler[h] = "start_tour")
  /\ handler' = [handler EXCEPT ![h] = Nothing]
  /\ UNCHANGED <<verifying, verifier, asked>>

(* tour_do(): its step's actions, queued under the lock or refused.        *)
TourDo ==
  /\ tour.index < TourSteps /\ ~verifying
  /\ \E keys \in SUBSET Inputs :
       pending' = pending \cup {[key |-> k, rig |-> session] : k \in keys}
  /\ UNCHANGED <<session, log, sampled, drift, violation, tour, touched,
                 verifying, handler, running, verifier, asked>>

TourExit ==
  /\ tour # NoTour
  /\ tour' = NoTour
  /\ UNCHANGED <<session, log, sampled, pending, drift, violation, touched,
                 verifying, handler, running, verifier, asked>>

(* /api/run: Run and Pause.                                                *)
RunOrPause ==
  /\ running' = ~running
  /\ UNCHANGED <<store, verifying, handler, verifier, asked>>

-----------------------------------------------------------------------------

(* A level stimulus moves mass; the baseline is set anew after the queue   *)
(* of a tick that holds one.                                               *)
Drifts(keys) == drift /\ keys \cap Levels = {}

Recorded == {n \in {log, log + 1} : n <= MaxLog}

(* Mutant: the pacer goes on while a verification has the line.            *)
PacerFreeAlways == TRUE

PacerFree == ~verifying

(* step(), by the pacer: the queue, the tick, the recorders, the           *)
(* walkthrough, whose step may be done, and the invariants.                *)
Step ==
  /\ running /\ PacerFree
  /\ pending' = {} /\ touched' = TRUE
  /\ log' \in Recorded /\ sampled' = TRUE
  /\ \/ tour' = tour
     \/ tour.index < TourSteps /\ tour' = [index |-> tour.index + 1, mark |-> log']
  /\ drift' = Drifts({p.key : p \in pending})
  /\ violation' = (violation \/ drift')
  /\ UNCHANGED <<session, verifying, handler, running, verifier, asked>>

-----------------------------------------------------------------------------
(* The verifier.                                                           *)

(* Verifier.start(): one job at a time, on a thread of its own.            *)
Start ==
  /\ ~busy /\ asked < MaxSessions
  /\ busy' = TRUE /\ job' = "waiting" /\ asked' = asked + 1
  /\ UNCHANGED <<store, verifying, handler, running, recorders, judged, left>>

(* A job that never takes the line: its scenario does not load, or it runs *)
(* beside the session, on a rig of its own.                                *)
RunAside ==
  /\ job = "waiting"
  /\ job' \in {"passed", "failed"} /\ asked' = asked - 1
  /\ UNCHANGED <<store, verifying, handler, running, busy, recorders, judged, left>>

(* run_live() under the lock: a new rig, and recorders with no sample yet. *)
Begin ==
  /\ job = "waiting"
  /\ session' = session + 1
  /\ log' = 0 /\ sampled' = FALSE /\ pending' = {}
  /\ drift' = FALSE /\ violation' = FALSE /\ tour' = NoTour /\ touched' = FALSE
  /\ verifying' = TRUE
  /\ job' = "owning" /\ left' = ScenarioTicks
  /\ UNCHANGED <<handler, running, busy, recorders, judged, asked>>

(* The lock is free again when the arguments of execute() are read, first  *)
(* self.events and self.tags, then self.rig.                               *)
TakeRecorders ==
  /\ job = "owning"
  /\ job' = "recording" /\ recorders' = session
  /\ UNCHANGED <<store, verifying, handler, running, busy, judged, left, asked>>

TakeRig ==
  /\ job = "recording"
  /\ job' = "applying" /\ judged' = session
  /\ UNCHANGED <<store, verifying, handler, running, busy, recorders, left, asked>>

(* execute() takes the first sample, of its recorders, and applies the     *)
(* given, which may preset a level, to its rig.                            *)
Given ==
  /\ job = "applying"
  /\ job' = "running"
  /\ sampled' = (sampled \/ recorders = session)
  /\ drift' \in IF judged = session THEN {drift, TRUE} ELSE {drift}
  /\ UNCHANGED <<session, log, pending, violation, tour, touched, verifying,
                 handler, running, busy, recorders, judged, left, asked>>

(* run_live's step(), at the pacer's pace: it ticks the session's rig and  *)
(* samples its own recorders, which also take down the commands given.  A  *)
(* stage's when may preset a level too.                                    *)
VerifyTick ==
  /\ job = "running" /\ left > 0 /\ running
  /\ left' = left - 1
  /\ log' \in IF recorders = session THEN Recorded ELSE {log}
  /\ drift' \in IF judged = session THEN {drift, TRUE} ELSE {drift}
  /\ UNCHANGED <<session, sampled, pending, violation, tour, touched, verifying,
                 handler, running, busy, job, recorders, judged, asked>>

(* Mutant: the session keeps the checker it had.                           *)
DriftAfterKept == drift

(* self.invariants = Invariants(self.rig): the baseline is what is there.  *)
DriftAfter == FALSE

(* run_live's finally: a verdict, at the latest when the scenario's time   *)
(* is up, or an exception of a broken scenario.                            *)
Finish ==
  /\ job = "running"
  /\ drift' = DriftAfter
  /\ verifying' = FALSE
  /\ job' \in {"passed", "failed"}
  /\ UNCHANGED <<session, log, sampled, pending, violation, tour, touched,
                 handler, running, busy, recorders, judged, left, asked>>

(* Mutant: only a verdict ends the job.                                    *)
ConcludedPassed == job = "passed"

Concluded == job \in {"passed", "failed"}

(* _job()'s finally.                                                       *)
Report ==
  /\ Concluded
  /\ busy' = FALSE /\ job' = "idle"
  /\ UNCHANGED <<store, verifying, handler, running, recorders, judged, left, asked>>

SessionNext ==
  \/ \E h \in Handlers : Ask(h) \/ Queue(h) \/ Renew(h)
  \/ TourDo \/ TourExit \/ RunOrPause \/ Step
  \/ Start \/ RunAside \/ Begin \/ TakeRecorders \/ TakeRig
  \/ Given \/ VerifyTick \/ Finish \/ Report

SessionSpec == LiveInit /\ [][SessionNext]_livevars

(* The verifier's thread runs; its ticks wait for the pacer to.            *)
Scheduled ==
  /\ WF_livevars(RunAside \/ Begin) /\ WF_livevars(TakeRecorders \/ TakeRig)
  /\ WF_livevars(Given) /\ WF_livevars(VerifyTick)
  /\ WF_livevars(left = 0 /\ Finish) /\ WF_livevars(Report)

-----------------------------------------------------------------------------
(* Nothing outlives its session, whatever restarts, walkthroughs and       *)
(* verifications come between: an input meets the line it was meant for,   *)
(* and the walkthrough reads on in the log its mark points into.           *)
NothingOutlivesItsSession ==
  /\ \A p \in pending : p.rig = session
  /\ tour = NoTour \/ tour.mark <= log

(* A verification may move mass and a level stimulus does, and neither is  *)
(* ever shown to the operator as material that was not conserved.          *)
NoFalseViolation == ~violation

(* run_live: the verification runs on a line that no operator's input and  *)
(* no tick of the pacer has reached since it was built.                    *)
NobodyElseMovesIt == verifying => ~touched

(* live.py: a scenario verification owns the line while it runs.  restart  *)
(* and start_tour ask before they take the lock, so that a verification    *)
(* may begin in between and then lose its line: it goes on to judge one    *)
(* that nothing ticks.                                                     *)
VerificationOwnsTheLine == job \in {"applying", "running"} => judged = session

(* verify.py: a job, even one whose scenario is broken before or after it  *)
(* has the line, does not leave the page on "running", unless the line is  *)
(* paused.                                                                 *)
VerificationConcludes == <>[]running => (busy ~> ~busy)
=============================================================================
