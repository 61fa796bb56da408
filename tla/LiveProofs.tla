----------------------------- MODULE LiveProofs -----------------------------
(***************************************************************************)
(* LiveSession and its publisher, for any number of handlers, sessions and *)
(* events.                                                                 *)
(***************************************************************************)
EXTENDS LiveTelemetry, TLAPS

-----------------------------------------------------------------------------
(* The session.                                                            *)

(* What the lock's holders may count on.  Mass that the checker does not   *)
(* expect is the verification's; the verifier's thread and the flag agree. *)
TourInv ==
  /\ log \in Nat
  /\ tour # NoTour => tour.mark \in Nat /\ tour.mark <= log

QueueInv ==
  /\ session \in Nat
  /\ \A p \in pending : p.rig = session

VerifierInv ==
  /\ verifying \in BOOLEAN /\ drift \in BOOLEAN /\ violation = FALSE
  /\ job \in {"owning", "recording", "applying", "running"} => verifying
  /\ drift => verifying
  /\ verifying => ~touched

SessionInv == TourInv /\ QueueInv /\ VerifierInv

LEMMA SessionInit == LiveInit => SessionInv
<1>1. LiveInit => TourInv
  BY DEF LiveInit, TourInv
<1>2. LiveInit => QueueInv
  BY DEF LiveInit, QueueInv
<1>3. LiveInit => VerifierInv
  BY DEF LiveInit, VerifierInv
<1> QED
  BY <1>1, <1>2, <1>3 DEF SessionInv

(* A fresh session is in order whatever the one before it was.             *)
LEMMA FreshKeeps ==
  ASSUME SessionInv, ~touched' /\ UNCHANGED <<verifying, job>>,
         NEW with, with = NoTour \/ with = [index |-> 0, mark |-> 0],
         Fresh(with)
  PROVE  SessionInv'
<1>1. TourInv'
  <2>1. log' = 0 /\ tour' = with
    BY DEF Fresh
  <2> QED
    BY <2>1 DEF TourInv
<1>2. QueueInv'
  BY DEF Fresh, QueueInv, SessionInv
<1>3. VerifierInv'
  BY DEF Fresh, VerifierInv, SessionInv
<1> QED
  BY <1>1, <1>2, <1>3 DEF SessionInv

LEMMA RecordedGrows ==
  ASSUME log \in Nat, log' \in Recorded
  PROVE  log' \in Nat /\ log <= log'
  BY DEF Recorded

LEMMA StepKeeps ==
  ASSUME SessionInv, Step
  PROVE  SessionInv'
<1>1. log' \in Nat /\ log <= log' /\ session' = session
  BY RecordedGrows DEF SessionInv, TourInv, Step
<1>2. ~verifying /\ verifying' = verifying /\ job' = job /\ pending' = {}
  BY DEF Step, PacerFree, verifier
<1>3. drift' = FALSE /\ violation' = FALSE
  <2>1. drift = FALSE /\ violation = FALSE
    BY <1>2 DEF SessionInv, VerifierInv
  <2>2. drift' = Drifts({p.key : p \in pending}) /\ violation' = (violation \/ drift')
    BY DEF Step
  <2> QED
    BY <2>1, <2>2 DEF Drifts
<1>4. TourInv'
  <2>1. CASE tour' = tour
    BY <2>1, <1>1 DEF SessionInv, TourInv
  <2>2. CASE tour' = [index |-> tour.index + 1, mark |-> log']
    BY <2>2, <1>1 DEF TourInv
  <2> QED
    BY <2>1, <2>2 DEF Step
<1>5. QueueInv'
  BY <1>1, <1>2 DEF SessionInv, QueueInv
<1>6. VerifierInv'
  BY <1>2, <1>3 DEF SessionInv, VerifierInv
<1> QED
  BY <1>4, <1>5, <1>6 DEF SessionInv

LEMMA BeginKeeps ==
  ASSUME SessionInv, Begin
  PROVE  SessionInv'
<1>1. TourInv'
  BY DEF Begin, TourInv
<1>2. QueueInv'
  BY DEF Begin, QueueInv, SessionInv
<1>3. VerifierInv'
  BY DEF Begin, VerifierInv
<1> QED
  BY <1>1, <1>2, <1>3 DEF SessionInv

LEMMA VerifyTickKeeps ==
  ASSUME SessionInv, VerifyTick
  PROVE  SessionInv'
<1>1. log' \in Nat /\ log <= log' /\ tour' = tour
  <2>1. log \in Nat
    BY DEF SessionInv, TourInv
  <2>2. tour' = tour /\ (log' = log \/ log' \in Recorded)
    BY DEF VerifyTick
  <2> QED
    BY <2>1, <2>2, RecordedGrows
<1>2. TourInv'
  BY <1>1 DEF SessionInv, TourInv
<1>3. QueueInv'
  BY DEF SessionInv, QueueInv, VerifyTick
<1>4. VerifierInv'
  BY DEF SessionInv, VerifierInv, VerifyTick
<1> QED
  BY <1>2, <1>3, <1>4 DEF SessionInv

LEMMA SessionStep ==
  ASSUME SessionInv, [SessionNext]_livevars
  PROVE  SessionInv'
<1> USE DEF SessionInv, TourInv, QueueInv, VerifierInv
<1>1. ASSUME NEW h \in Handlers, Ask(h)
      PROVE  SessionInv'
  BY <1>1 DEF Ask, store, verifier
<1>2. ASSUME NEW h \in Handlers, Queue(h)
      PROVE  SessionInv'
  BY <1>2 DEF Queue, verifier
<1>3. ASSUME NEW h \in Handlers, Renew(h)
      PROVE  SessionInv'
  <2> DEFINE with == IF handler[h] = "start_tour" THEN [index |-> 0, mark |-> 0] ELSE NoTour
  <2>1. Fresh(with) /\ UNCHANGED <<verifying, job>>
    BY <1>3 DEF Renew, verifier
  <2>2. with = NoTour \/ with = [index |-> 0, mark |-> 0]
    OBVIOUS
  <2>3. ~touched'
    BY <2>1 DEF Fresh
  <2> HIDE DEF with, SessionInv, TourInv, QueueInv, VerifierInv
  <2> QED
    BY <2>1, <2>2, <2>3, FreshKeeps
<1>4. CASE TourDo
  BY <1>4 DEF TourDo, verifier
<1>5. CASE TourExit
  BY <1>5 DEF TourExit, verifier
<1>6. CASE RunOrPause
  BY <1>6 DEF RunOrPause, store, verifier
<1>7. CASE Start \/ RunAside
  BY <1>7 DEF Start, RunAside, store
<1>8. CASE TakeRecorders \/ TakeRig
  BY <1>8 DEF TakeRecorders, TakeRig, store
<1>9. CASE Finish
  BY <1>9 DEF Finish, DriftAfter
<1>10. CASE Report
  BY <1>10 DEF Report, Concluded, store
<1>11. CASE UNCHANGED livevars
  BY <1>11 DEF livevars, store, verifier
<1>12. CASE Given
  <2>1. verifying /\ drift' \in BOOLEAN
    BY <1>12 DEF Given
  <2> QED
    BY <1>12, <2>1 DEF Given
<1> HIDE DEF SessionInv, TourInv, QueueInv, VerifierInv
<1> QED
  BY <1>1, <1>2, <1>3, <1>4, <1>5, <1>6, <1>7, <1>8, <1>9, <1>10, <1>11, <1>12,
     StepKeeps, BeginKeeps, VerifyTickKeeps DEF SessionNext

(* The publisher reads the session and changes nothing of it.              *)
LEMMA PublisherOnlyReads ==
  ASSUME [Next]_vars
  PROVE  [SessionNext]_livevars
  BY DEF Next, vars, Publisher, Connect, Look, LookAgain, Send, Done, Lose

LEMMA SessionAlways == Spec => []SessionInv
<1>1. Init => SessionInv
  BY SessionInit DEF Init
<1>2. SessionInv /\ [Next]_vars => SessionInv'
  BY SessionStep, PublisherOnlyReads
<1> QED
  BY <1>1, <1>2, PTL DEF Spec

(* An input is applied to the line it was queued on, and the walkthrough's *)
(* mark is a place in the session's own log.                               *)
THEOREM SessionsAreKeptApart == Spec => []NothingOutlivesItsSession
<1>1. SessionInv => NothingOutlivesItsSession
  BY DEF SessionInv, QueueInv, TourInv, NothingOutlivesItsSession
<1> QED
  BY <1>1, SessionAlways, PTL

(* What a verification or a level stimulus does is never shown as a        *)
(* violation.                                                              *)
THEOREM ViolationsAreReal == Spec => []NoFalseViolation
<1>1. SessionInv => NoFalseViolation
  BY DEF SessionInv, VerifierInv, NoFalseViolation
<1> QED
  BY <1>1, SessionAlways, PTL

(* No operator's input and no tick of the pacer reaches the line under a   *)
(* verification.                                                           *)
THEOREM VerificationIsLeftAlone == Spec => []NobodyElseMovesIt
<1>1. SessionInv => NobodyElseMovesIt
  BY DEF SessionInv, VerifierInv, NobodyElseMovesIt
<1> QED
  BY <1>1, SessionAlways, PTL

-----------------------------------------------------------------------------
(* The publisher.                                                          *)

SnapType == [of : Nat, next : Nat \ {0}, to : 0 .. MaxLog]

(* The session known is the one followed or an older one.  What lies       *)
(* before the cursor has been sent, of the session known, or else that     *)
(* session is over and the cursor will not be used.                        *)
CursorInv ==
  /\ log \in 0 .. MaxLog /\ session \in Nat
  /\ known \in Nat /\ known <= session
  /\ since \in 0 .. MaxLog
  /\ \/ known < session
     \/ known \in 1 .. MaxSessions => 1 .. since \subseteq sent[known]
  /\ sent \in [1 .. MaxSessions -> SUBSET (1 .. MaxLog)]
  /\ NoEventIsSkipped

(* A snapshot being sent is of the session known or a later one, and what  *)
(* comes before its next event has been sent.                              *)
SnapInv ==
  /\ snap \in SnapType
  /\ publisher = "again" => since = 0
  /\ publisher = "sending" =>
       /\ known <= snap.of /\ snap.of <= session
       /\ snap.of \in 1 .. MaxSessions => 1 .. (snap.next - 1) \subseteq sent[snap.of]

PubInv == CursorInv /\ SnapInv

LEMMA PubInit == Init => PubInv
<1> SUFFICES ASSUME Init
             PROVE  PubInv
  OBVIOUS
<1>1. NoEventIsSkipped
  <2>1. \A s \in 1 .. MaxSessions : sent[s] = 1 .. 0
    BY DEF Init
  <2>2. 0 \in 0 .. MaxLog
    BY LiveAssumption
  <2> QED
    BY <2>1, <2>2 DEF NoEventIsSkipped
<1>2. CursorInv
  BY <1>1, LiveAssumption DEF Init, LiveInit, CursorInv
<1>3. SnapInv
  BY LiveAssumption DEF Init, SnapInv, SnapType, NoSnap
<1> QED
  BY <1>2, <1>3 DEF PubInv

(* What the publisher may meet: the log within its bound, and the session  *)
(* it knows or the next.                                                   *)
LEMMA SessionMoves ==
  ASSUME log \in 0 .. MaxLog, session \in Nat, SessionNext
  PROVE  log' \in 0 .. MaxLog /\ session' \in {session, session + 1}
<1> USE LiveAssumption
<1>1. ASSUME NEW h \in Handlers, Ask(h) \/ Queue(h) \/ Renew(h)
      PROVE  log' \in 0 .. MaxLog /\ session' \in {session, session + 1}
  BY <1>1 DEF Ask, Queue, Renew, Fresh, store
<1>2. CASE TourDo \/ TourExit \/ RunOrPause
  BY <1>2 DEF TourDo, TourExit, RunOrPause, store
<1>3. CASE Step
  BY <1>3 DEF Step, Recorded
<1>4. CASE Start \/ RunAside \/ Begin \/ TakeRecorders \/ TakeRig
  BY <1>4 DEF Start, RunAside, Begin, TakeRecorders, TakeRig, store
<1>5. CASE Given \/ VerifyTick
  <2>1. session' = session /\ (log' = log \/ log' \in Recorded)
    BY <1>5 DEF Given, VerifyTick
  <2> QED
    BY <2>1 DEF Recorded
<1>6. CASE Finish \/ Report
  BY <1>6 DEF Finish, Report, store
<1> QED
  BY <1>1, <1>2, <1>3, <1>4, <1>5, <1>6 DEF SessionNext

LEMMA SessionKeepsPub ==
  ASSUME PubInv, SessionNext, UNCHANGED pubvars
  PROVE  PubInv'
<1>1. log' \in 0 .. MaxLog /\ session' \in {session, session + 1}
  BY SessionMoves DEF PubInv, CursorInv
<1>2. UNCHANGED <<publisher, since, known, snap, sent>>
  BY DEF pubvars
<1>3. CursorInv'
  <2>1. NoEventIsSkipped'
    BY <1>2 DEF PubInv, CursorInv, NoEventIsSkipped
  <2> QED
    BY <1>1, <1>2, <2>1 DEF PubInv, CursorInv
<1>4. SnapInv'
  BY <1>1, <1>2 DEF PubInv, CursorInv, SnapInv, SnapType
<1> QED
  BY <1>3, <1>4 DEF PubInv

(* A snapshot from an event on, all before which have been sent.           *)
LEMMA SnapshotKeeps ==
  ASSUME PubInv, NEW from \in 0 .. MaxLog, Snapshot(from), since' \in Nat,
         known' \in Nat, known' <= session, session' = session, sent' = sent,
         session \in 1 .. MaxSessions => 1 .. from \subseteq sent[session]
  PROVE  SnapInv'
<1> USE LiveAssumption
<1>1. CASE sampled
  <2>1. snap' = [of |-> session, next |-> from + 1, to |-> log] /\ publisher' = "sending"
    BY <1>1 DEF Snapshot
  <2>2. snap' \in SnapType
    BY <2>1 DEF PubInv, CursorInv, SnapType
  <2>3. snap'.of = session /\ snap'.next - 1 = from
    BY <2>1
  <2> QED
    BY <2>1, <2>2, <2>3 DEF PubInv, CursorInv, SnapInv
<1>2. CASE ~sampled
  BY <1>2 DEF Snapshot, PubInv, SnapInv, SnapType
<1> QED
  BY <1>1, <1>2

LEMMA LookKeeps ==
  ASSUME PubInv, Look
  PROVE  PubInv'
<1> USE LiveAssumption
<1>1. UNCHANGED <<log, session, sent, sampled>>
  BY DEF Look, livevars, store
<1>2. NoEventIsSkipped'
  BY <1>1 DEF PubInv, CursorInv, NoEventIsSkipped
<1>3. CASE NewSession /\ since # 0 /\ sampled
  <2>1. since' = 0 /\ known' = session /\ publisher' = "again" /\ snap' = snap
    BY <1>3 DEF Look
  <2>2. CursorInv'
    BY <1>1, <1>2, <2>1 DEF PubInv, CursorInv
  <2>3. SnapInv'
    BY <2>1 DEF PubInv, SnapInv, SnapType
  <2> QED
    BY <2>2, <2>3 DEF PubInv
<1>4. CASE ~(NewSession /\ since # 0 /\ sampled)
  <2>1. Snapshot(since) /\ since' = since
    BY <1>4 DEF Look
  <2>2. known' = IF sampled /\ NewSession THEN session ELSE known
    BY <1>4 DEF Look
  <2>3. CASE sampled
    <3>1. known' = session
      BY <2>2, <2>3 DEF NewSession
    <3>2. session \in 1 .. MaxSessions => 1 .. since \subseteq sent[session]
      <4>1. CASE since = 0
        BY <4>1
      <4>2. CASE since # 0
        <5>1. known = session
          BY <4>2, <1>4, <2>3 DEF NewSession
        <5> QED
          BY <5>1 DEF PubInv, CursorInv
      <4> QED
        BY <4>1, <4>2
    <3>3. CursorInv'
      BY <1>1, <1>2, <2>1, <3>1, <3>2 DEF PubInv, CursorInv
    <3>4. SnapInv'
      BY <1>1, <2>1, <3>1, <3>2, SnapshotKeeps DEF PubInv, CursorInv
    <3> QED
      BY <3>3, <3>4 DEF PubInv
  <2>4. CASE ~sampled
    <3>1. known' = known /\ publisher' = "dead" /\ snap' = snap
      BY <2>1, <2>2, <2>4 DEF Snapshot
    <3>2. CursorInv'
      BY <1>1, <1>2, <2>1, <3>1 DEF PubInv, CursorInv
    <3>3. SnapInv'
      BY <3>1 DEF PubInv, SnapInv, SnapType
    <3> QED
      BY <3>2, <3>3 DEF PubInv
  <2> QED
    BY <2>3, <2>4
<1> QED
  BY <1>3, <1>4

LEMMA LookAgainKeeps ==
  ASSUME PubInv, LookAgain
  PROVE  PubInv'
<1> USE LiveAssumption
<1>1. UNCHANGED <<log, session, sent, since, known>>
  BY DEF LookAgain, livevars, store
<1>2. NoEventIsSkipped'
  BY <1>1 DEF PubInv, CursorInv, NoEventIsSkipped
<1>3. CursorInv'
  BY <1>1, <1>2 DEF PubInv, CursorInv
<1>4. 0 \in 0 .. MaxLog /\ 1 .. 0 = {}
  OBVIOUS
<1>5. SnapInv'
  BY <1>1, <1>4, SnapshotKeeps DEF LookAgain, PubInv, CursorInv
<1> QED
  BY <1>3, <1>5 DEF PubInv

(* The next event, and none is left out.                                   *)
LEMMA SendKeeps ==
  ASSUME PubInv, Send
  PROVE  PubInv'
<1> USE LiveAssumption
<1> DEFINE o == snap.of  k == snap.next
<1>1. UNCHANGED <<log, session, since, known, publisher>>
  BY DEF Send, livevars, store
<1>2. o \in Nat /\ k \in 1 .. MaxLog /\ snap \in SnapType
  BY DEF Send, PubInv, SnapInv, SnapType
<1>3. snap' = [snap EXCEPT !.next = k + 1]
  BY DEF Send
<1>4. sent' = [sent EXCEPT ![o] = sent[o] \cup {k}]
  BY DEF Send
<1>5. o \in 1 .. MaxSessions => 1 .. (k - 1) \subseteq sent[o]
  BY DEF Send, PubInv, SnapInv
<1>6. known <= o /\ o <= session
  BY DEF Send, PubInv, SnapInv
<1>7. \A s \in 1 .. MaxSessions :
        sent'[s] = IF s = o THEN sent[s] \cup {k} ELSE sent[s]
  BY <1>4 DEF PubInv, CursorInv
<1>8. sent' \in [1 .. MaxSessions -> SUBSET (1 .. MaxLog)]
  BY <1>2, <1>4 DEF PubInv, CursorInv
<1>9. snap' \in SnapType /\ snap'.of = o /\ snap'.next = k + 1
  BY <1>2, <1>3 DEF SnapType
<1> HIDE DEF o, k
<1>10. NoEventIsSkipped'
  <2> SUFFICES ASSUME NEW s \in 1 .. MaxSessions
               PROVE  \E n \in 0 .. MaxLog : sent'[s] = 1 .. n
    BY DEF NoEventIsSkipped
  <2>1. PICK n \in 0 .. MaxLog : sent[s] = 1 .. n
    BY DEF PubInv, CursorInv, NoEventIsSkipped
  <2>2. CASE s # o
    BY <1>7, <2>1, <2>2
  <2>3. CASE s = o /\ k <= n
    <3>1. sent'[s] = (1 .. n) \cup {k}
      BY <1>7, <2>1, <2>3
    <3>2. k \in 1 .. n
      BY <1>2, <2>3
    <3> QED
      BY <3>1, <3>2
  <2>4. CASE s = o /\ k > n
    <3>1. 1 .. (k - 1) \subseteq 1 .. n
      BY <1>5, <2>1, <2>4
    <3>2. n = k - 1
      <4>1. CASE k = 1
        BY <4>1, <2>4
      <4>2. CASE k > 1
        <5>1. k - 1 \in 1 .. (k - 1)
          BY <1>2, <4>2
        <5> QED
          BY <5>1, <3>1, <2>4, <1>2
      <4> QED
        BY <4>1, <4>2, <1>2
    <3>3. sent'[s] = 1 .. k
      <4>1. sent'[s] = (1 .. (k - 1)) \cup {k}
        BY <1>7, <2>1, <2>4, <3>2
      <4> QED
        BY <1>2, <4>1
    <3> QED
      BY <3>3, <1>2
  <2> QED
    BY <2>2, <2>3, <2>4, <1>2
<1>11. \A s \in 1 .. MaxSessions : sent[s] \subseteq sent'[s]
  BY <1>7
<1>12. CursorInv'
  BY <1>1, <1>8, <1>10, <1>11 DEF PubInv, CursorInv
<1>13. o \in 1 .. MaxSessions => 1 .. k \subseteq sent'[o]
  <2>1. 1 .. k = (1 .. (k - 1)) \cup {k}
    BY <1>2
  <2> QED
    BY <2>1, <1>5, <1>7
<1>14. SnapInv'
  <2>1. snap'.next - 1 = k
    BY <1>2, <1>9
  <2>2. publisher' = "sending"
    BY <1>1 DEF Send
  <2>3. known' <= snap'.of /\ snap'.of <= session'
    BY <1>1, <1>6, <1>9
  <2>4. snap'.of \in 1 .. MaxSessions => 1 .. (snap'.next - 1) \subseteq sent'[snap'.of]
    BY <1>9, <1>13, <2>1
  <2> QED
    BY <1>9, <2>2, <2>3, <2>4 DEF SnapInv
<1> QED
  BY <1>12, <1>14 DEF PubInv

LEMMA DoneKeeps ==
  ASSUME PubInv, Done
  PROVE  PubInv'
<1> USE LiveAssumption
<1>1. UNCHANGED <<log, session, sent, known>>
  BY DEF Done, livevars, store
<1>2. since' = snap.to /\ publisher' = "up" /\ snap' = NoSnap
  BY DEF Done, Cursor
<1>3. snap \in SnapType
  BY DEF PubInv, SnapInv
<1>4. known < session \/ (known \in 1 .. MaxSessions => 1 .. snap.to \subseteq sent[known])
  <2>1. known <= snap.of /\ snap.of <= session
    BY DEF Done, PubInv, SnapInv
  <2>2. snap.of \in 1 .. MaxSessions => 1 .. (snap.next - 1) \subseteq sent[snap.of]
    BY DEF Done, PubInv, SnapInv
  <2>3. snap.to <= snap.next - 1
    BY <1>3 DEF Done, SnapType
  <2>4. CASE known = session
    <3>1. snap.of = known
      BY <2>1, <2>4, <1>3 DEF SnapType, PubInv, CursorInv
    <3>2. 1 .. snap.to \subseteq 1 .. (snap.next - 1)
      BY <2>3, <1>3 DEF SnapType
    <3> QED
      BY <3>1, <3>2, <2>2
  <2> QED
    BY <2>4 DEF PubInv, CursorInv
<1>5. NoEventIsSkipped'
  BY <1>1 DEF PubInv, CursorInv, NoEventIsSkipped
<1>6. snap.to \in 0 .. MaxLog
  BY <1>3 DEF SnapType
<1>7. CursorInv'
  BY <1>1, <1>2, <1>4, <1>5, <1>6 DEF PubInv, CursorInv
<1>8. SnapInv'
  BY <1>2 DEF SnapInv, SnapType, NoSnap
<1> QED
  BY <1>7, <1>8 DEF PubInv

LEMMA OthersKeep ==
  ASSUME PubInv, Connect \/ Lose
  PROVE  PubInv'
<1> USE LiveAssumption
<1>1. UNCHANGED <<log, session, sent, known, since>>
  BY DEF Connect, Lose, SinceAfterLoss, livevars, store
<1>2. publisher' \in {"up", "down"} /\ snap' \in {snap, NoSnap}
  BY DEF Connect, Lose
<1>3. NoEventIsSkipped'
  BY <1>1 DEF PubInv, CursorInv, NoEventIsSkipped
<1>4. CursorInv'
  BY <1>1, <1>3 DEF PubInv, CursorInv
<1>5. SnapInv'
  BY <1>2 DEF PubInv, SnapInv, SnapType, NoSnap
<1> QED
  BY <1>4, <1>5 DEF PubInv

LEMMA StutterKeeps ==
  ASSUME PubInv, UNCHANGED vars
  PROVE  PubInv'
BY DEF PubInv, CursorInv, SnapInv, SnapType, NoEventIsSkipped, vars, livevars, store, pubvars

(* mqtt.py, every event: what has been sent of a session is its log from   *)
(* the first event on, with none left out, whatever restarts, lost brokers *)
(* and verifications come between.                                         *)
THEOREM EveryEventInOrder == Spec => []NoEventIsSkipped
<1>1. Init => PubInv
  BY PubInit
<1>2. PubInv /\ [Next]_vars => PubInv'
  BY SessionKeepsPub, LookKeeps, LookAgainKeeps, SendKeeps, DoneKeeps, OthersKeep,
     StutterKeeps DEF Next, Publisher
<1>3. PubInv => NoEventIsSkipped
  BY DEF PubInv, CursorInv
<1> QED
  BY <1>1, <1>2, <1>3, PTL DEF Spec
=============================================================================
