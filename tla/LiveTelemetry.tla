--------------------------- MODULE LiveTelemetry ---------------------------
(***************************************************************************)
(* TelemetryPublisher on a LiveSession: the MQTT thread, which reads the   *)
(* session by its snapshot alone and keeps a cursor into the event list of *)
(* the session it believes it follows.                                     *)
(***************************************************************************)
EXTENDS LiveSession

CONSTANT MaxLosses   \* bound: how often the broker goes away

ASSUME LossesAssumption == MaxLosses \in Nat

VARIABLES
  publisher,   \* where run_publisher is
  since,       \* _since
  known,       \* _session; 0 before the first
  snap,        \* the snapshot's events still to send: of whom, which
  losses,
  sent         \* history: the events handed to the broker, by session

pubvars == <<publisher, since, known, snap, losses, sent>>
vars == <<livevars, pubvars>>

NoSnap == [of |-> 0, next |-> 1, to |-> 0]

Init ==
  /\ LiveInit
  /\ publisher = "down" /\ since = 0 /\ known = 0 /\ snap = NoSnap /\ losses = 0
  /\ sent = [s \in 1 .. MaxSessions |-> {}]

(* connect(): tags and state are sent again, the cursor stays.             *)
Connect ==
  /\ publisher = "down"
  /\ publisher' = "up"
  /\ UNCHANGED <<livevars, since, known, snap, losses, sent>>

(* snapshot(from), under the session's lock.  Before execute() has taken   *)
(* the first sample there is no tags.samples[-1]: the IndexError is none   *)
(* of those run_publisher catches, and ends its thread.                    *)
Snapshot(from) ==
  IF sampled
  THEN /\ publisher' = "sending"
       /\ snap' = [of |-> session, next |-> from + 1, to |-> log]
  ELSE publisher' = "dead" /\ UNCHANGED snap

(* Mutant: a new session is not told from the old one.                     *)
NewSessionNever == FALSE

NewSession == session # known

(* publish_changes() up to its first snapshot, and the one that it takes   *)
(* again when the session is a new one and its cursor is not at 0.         *)
Look ==
  /\ publisher = "up"
  /\ IF NewSession /\ since # 0 /\ sampled
     THEN /\ publisher' = "again"
          /\ since' = 0 /\ known' = session
          /\ UNCHANGED snap
     ELSE /\ Snapshot(since)
          /\ known' = IF sampled /\ NewSession THEN session ELSE known
          /\ UNCHANGED since
  /\ UNCHANGED <<livevars, losses, sent>>

LookAgain ==
  /\ publisher = "again"
  /\ Snapshot(0)
  /\ UNCHANGED <<livevars, since, known, losses, sent>>

Send ==
  /\ publisher = "sending" /\ snap.next <= snap.to
  /\ sent' = [sent EXCEPT ![snap.of] = @ \cup {snap.next}]
  /\ snap' = [snap EXCEPT !.next = @ + 1]
  /\ UNCHANGED <<livevars, publisher, since, known, losses>>

Cursor == snap.to

Done ==
  /\ publisher = "sending" /\ snap.next > snap.to
  /\ publisher' = "up" /\ since' = Cursor /\ snap' = NoSnap
  /\ UNCHANGED <<livevars, known, losses, sent>>

(* Mutant: the cursor moves on though the broker was lost.                 *)
SinceAfterLossMoved == snap.to

SinceAfterLoss == since

(* The broker goes away while something is being sent to it, a ping at     *)
(* least; publish_changes() ends there and starts again when it is back.   *)
Lose ==
  /\ publisher = "sending" /\ losses < MaxLosses
  /\ losses' = losses + 1
  /\ publisher' = "down" /\ snap' = NoSnap
  /\ since' = SinceAfterLoss
  /\ UNCHANGED <<livevars, known, sent>>

Publisher == Connect \/ Look \/ LookAgain \/ Send \/ Done

Next == (SessionNext /\ UNCHANGED pubvars) \/ Publisher \/ Lose

Spec == Init /\ [][Next]_vars

(* run_publisher loops until it is halted, and the broker comes back.      *)
FairSpec == Spec /\ Scheduled /\ WF_vars(Publisher)

-----------------------------------------------------------------------------
(* mqtt.py: every event.  Whatever restarts and lost brokers come between, *)
(* what has been sent of a session is its log from the first event on,     *)
(* with none left out.                                                     *)
NoEventIsSkipped ==
  \A s \in 1 .. MaxSessions : \E n \in 0 .. MaxLog : sent[s] = 1 .. n

(* Every event is published in the end, unless its session is replaced     *)
(* first or the publisher's thread has died: whatever the cursor has been  *)
(* through, the publisher catches up with the session's log.               *)
Behind == sent[session] # 1 .. log

EventsArrive == Behind ~> (~Behind \/ publisher = "dead")
=============================================================================
