--------------------------- MODULE ExternalProofs ---------------------------
(***************************************************************************)
(* The external session keeps its types, a press not acted on can still be *)
(* taken unless a session restart stands in its way, and none is judged on *)
(* a setpoint older than itself, whatever the commands, the setpoints and  *)
(* the watchdog.                                                           *)
(***************************************************************************)
EXTENDS ExternalSession, TLAPS

(* The four fields of the handshake are words of commands after each of    *)
(* its operations.                                                         *)
LEMMA HandshakeTypes ==
  ASSUME NEW h \in Handshake, NEW P \in SUBSET Commands
  PROVE  Requested(h, P) \in Handshake /\ Acked(h, P) \in Handshake
  BY DEF Handshake, Requested, Acked

(* Every step of the session and of the controller keeps the types.        *)
LEMMA TypeStep == TypeOK /\ [Next]_vars => TypeOK'
<1> SUFFICES ASSUME TypeOK, [Next]_vars PROVE TypeOK'
  OBVIOUS
<1> USE SessionAssumption DEF TypeOK
<1>0. Meant \in Setpoints
  BY DEF Meant
<1>1. ASSUME NEW c \in Commands, Press(c) PROVE TypeOK'
  BY <1>0, <1>1 DEF Press, controller
<1>2. ASSUME NEW v \in Setpoints, Enter(v) PROVE TypeOK'
  BY <1>2 DEF Enter, controller
<1>3. ASSUME NEW v \in Setpoints, WriteSetpoint(v) PROVE TypeOK'
  BY <1>3 DEF WriteSetpoint, controller
<1>4. CASE Tick
  <2>1. hmi' \in Handshake
    BY <1>4, HandshakeTypes DEF Tick
  <2>2. quiet' \in 0 .. Watchdog + 1
    BY <1>4 DEF Tick
  <2> QED
    BY <1>0, <1>4, <2>1, <2>2 DEF Tick, controller
<1>5. CASE Restart
  BY <1>5 DEF Restart, Fresh, Idle, Handshake, controller
<1>6. CASE Boot
  BY <1>6 DEF Boot, session
<1>7. CASE Read
  BY <1>7 DEF Read, Taken, JudgedOn, Handshake, session
<1>8. CASE WriteCoils
  BY <1>8 DEF WriteCoils
<1>9. CASE WriteRegisters
  BY <1>9, HandshakeTypes DEF WriteRegisters
<1>10. CASE Die
  BY <1>10 DEF Die, Handshake, session
<1>11. CASE UNCHANGED vars
  BY <1>11 DEF vars, session, controller
<1> QED
  BY <1>1, <1>2, <1>3, <1>4, <1>5, <1>6, <1>7, <1>8, <1>9, <1>10, <1>11 DEF Next

(* The session and the controller only ever hold values of their types.    *)
THEOREM TypeCorrect == Spec => []TypeOK
<1>1. Init => TypeOK
  <2>1. Idle \in Handshake
    BY DEF Idle, Handshake
  <2>2. Fresh.hmi = Idle /\ Fresh.setpoint = Default /\ Fresh.energised = FALSE /\ Fresh.quiet = 0
    BY DEF Fresh
  <2>3. Default \in Setpoints /\ 0 \in 0 .. Watchdog + 1
    BY SessionAssumption
  <2> QED
    BY <2>1, <2>2, <2>3 DEF Init, TypeOK
<1> QED
  BY <1>1, TypeStep, PTL DEF Spec

-----------------------------------------------------------------------------
(* No bit is up in both words, and a press is held only under its own ack. *)
WordsAreApart ==
  /\ hmi.request \cap hmi.ack = {}
  /\ hmi.pending \subseteq hmi.ack

(* The controller's acks that are in neither word are those a session      *)
(* restart left behind; and it left none that the HMI has seen since.      *)
AcksAreKnown ==
  /\ ack \subseteq hmi.request \cup hmi.ack \cup stale
  /\ stale \subseteq ack \ hmi.ack

(* The ack dies with its controller: the next one boots with none.         *)
AckDiesToo == pc = "down" => ack = {}

IInv == WordsAreApart /\ AcksAreKnown /\ AckDiesToo /\ ExactlyOnce

(* The operator's tick: each press is raised, merged or held.              *)
LEMMA TickStep == TypeOK /\ IInv /\ Tick => IInv'
<1> SUFFICES ASSUME TypeOK, IInv, Tick PROVE IInv'
  OBVIOUS
<1>1. /\ hmi'.request = hmi.request \cup (presses \ hmi.ack)
      /\ hmi'.ack = hmi.ack
      /\ hmi'.pending = hmi.pending \cup (presses \cap hmi.ack)
  BY DEF Tick, Requested, TypeOK, Handshake
<1>2. pc' = pc /\ ack' = ack /\ stale' = stale /\ owed' = owed \cup (presses \ hmi.request)
  BY DEF Tick, controller
<1>3. WordsAreApart' /\ AcksAreKnown' /\ AckDiesToo'
  BY <1>1, <1>2 DEF IInv, WordsAreApart, AcksAreKnown, AckDiesToo
<1>4. ExactlyOnce'
  BY <1>1, <1>2 DEF IInv, WordsAreApart, AcksAreKnown, ExactlyOnce, Taken
<1> QED
  BY <1>3, <1>4 DEF IInv

(* The controller's read: what it takes it no longer owes, and its acks    *)
(* become the requests that are up.                                        *)
LEMMA ReadStep == TypeOK /\ IInv /\ Read => IInv'
<1> SUFFICES ASSUME TypeOK, IInv, Read PROVE IInv'
  OBVIOUS
<1>1. hmi' = hmi /\ ack' = hmi.request /\ pc' = "coils"
  BY DEF Read, session, Taken
<1>2. stale' = stale \cap hmi.request /\ owed' = owed \ (hmi.request \ ack)
  BY DEF Read, Taken
<1>3. WordsAreApart' /\ AcksAreKnown' /\ AckDiesToo'
  BY <1>1, <1>2 DEF IInv, WordsAreApart, AcksAreKnown, AckDiesToo
<1>4. ExactlyOnce'
  BY <1>1, <1>2 DEF IInv, WordsAreApart, AcksAreKnown, ExactlyOnce, Taken
<1> QED
  BY <1>3, <1>4 DEF IInv

(* The ack word arrives: what it takes down was taken, what it lets go up  *)
(* was held.                                                               *)
LEMMA WriteStep == TypeOK /\ IInv /\ WriteRegisters => IInv'
<1> SUFFICES ASSUME TypeOK, IInv, WriteRegisters PROVE IInv'
  OBVIOUS
<1>1. /\ hmi'.request = (hmi.request \ (ack \ hmi.ack)) \cup (hmi.pending \cap (hmi.ack \ ack))
      /\ hmi'.ack = ack
      /\ hmi'.pending = hmi.pending \ (hmi.ack \ ack)
  BY DEF WriteRegisters, Acked
<1>2. pc' = "read" /\ ack' = ack /\ stale' = {} /\ owed' = owed \ stale
  BY DEF WriteRegisters
<1>3. WordsAreApart' /\ AcksAreKnown' /\ AckDiesToo'
  BY <1>1, <1>2 DEF IInv, WordsAreApart, AcksAreKnown, AckDiesToo
<1>4. ExactlyOnce'
  BY <1>1, <1>2 DEF IInv, WordsAreApart, AcksAreKnown, ExactlyOnce, Taken
<1> QED
  BY <1>3, <1>4 DEF IInv

(* Every step keeps the inductive invariant.                               *)
LEMMA OnceStep == TypeOK /\ IInv /\ [Next]_vars => IInv'
<1> SUFFICES ASSUME TypeOK, IInv, [Next]_vars PROVE IInv'
  OBVIOUS
<1>1. ASSUME UNCHANGED <<hmi, ack, owed, stale>>, pc' = "down" => pc = "down" PROVE IInv'
  BY <1>1 DEF AckDiesToo, IInv, WordsAreApart, AcksAreKnown, ExactlyOnce, Taken
<1>2. ASSUME NEW c \in Commands, Press(c) PROVE IInv'
  BY <1>1, <1>2 DEF Press, controller
<1>3. ASSUME NEW v \in Setpoints, Enter(v) \/ WriteSetpoint(v) PROVE IInv'
  BY <1>1, <1>3 DEF Enter, WriteSetpoint, controller
<1>4. CASE Tick
  BY <1>4, TickStep
<1>5. CASE Restart
  <2>1. hmi'.request = {} /\ hmi'.ack = {} /\ hmi'.pending = {}
    BY <1>5 DEF Restart, Fresh, Idle
  <2>2. owed' = {} /\ stale' = ack /\ ack' = ack /\ pc' = pc
    BY <1>5 DEF Restart, controller
  <2> QED
    BY <2>1, <2>2 DEF IInv, WordsAreApart, AcksAreKnown, AckDiesToo, ExactlyOnce, Taken
<1>6. CASE Boot
  BY <1>6 DEF Boot, session, AckDiesToo, IInv, WordsAreApart, AcksAreKnown, ExactlyOnce, Taken
<1>7. CASE Read
  BY <1>7, ReadStep
<1>8. CASE WriteCoils
  BY <1>1, <1>8 DEF WriteCoils
<1>9. CASE WriteRegisters
  BY <1>9, WriteStep
<1>10. CASE Die
  BY <1>10 DEF Die, session, AckDiesToo, IInv, WordsAreApart, AcksAreKnown, ExactlyOnce, Taken
<1>11. CASE UNCHANGED vars
  BY <1>1, <1>11 DEF vars, session, controller
<1> QED
  BY <1>2, <1>3, <1>4, <1>5, <1>6, <1>7, <1>8, <1>9, <1>10, <1>11 DEF Next

(* HmiHandshake's promise, with what it leaves out: through merges, held   *)
(* presses, restarts and deaths, a press that has not been acted on can    *)
(* still be taken, and no other can, except the presses raised under an    *)
(* ack that a session restart left behind, which will be lost.  A death    *)
(* before the ack makes a press that was taken one that has not been.      *)
THEOREM OwedIsRaisedOrHeld == Spec => []ExactlyOnce
<1>1. Init => IInv
  BY DEF Init, Fresh, Idle, AckDiesToo, IInv, WordsAreApart, AcksAreKnown, ExactlyOnce, Taken
<1>2. IInv => ExactlyOnce
  BY DEF IInv
<1> QED
  BY <1>1, <1>2, OnceStep, TypeCorrect, PTL DEF Spec

-----------------------------------------------------------------------------
(* What is queued was entered after the press or is what it was made on;   *)
(* what is in force was so when the oldest command owed was pressed, or    *)
(* entered later.                                                          *)
SinceInv ==
  /\ entry # NoEntry => entry \in since
  /\ presses \cup owed # {} => Meant \in since
  /\ owed # {} => setpoint \in since

(* Every step keeps it: a death that leaves a command to be taken anew     *)
(* starts from the setpoint in force.                                      *)
LEMMA SinceStep == TypeOK /\ SinceInv /\ [Next]_vars => SinceInv'
<1> SUFFICES ASSUME TypeOK, SinceInv, [Next]_vars PROVE SinceInv'
  OBVIOUS
<1> USE SessionAssumption DEF SinceInv, Meant, TypeOK
<1>1. ASSUME UNCHANGED <<presses, entry, setpoint, since>>, owed' \subseteq owed PROVE SinceInv'
  BY <1>1
<1>2. ASSUME NEW c \in Commands, Press(c) PROVE SinceInv'
  BY <1>2 DEF Press
<1>3. ASSUME NEW v \in Setpoints, Enter(v) \/ WriteSetpoint(v) PROVE SinceInv'
  BY <1>3 DEF Enter, WriteSetpoint
<1>4. CASE Tick
  BY <1>4 DEF Tick
<1>5. CASE Restart
  BY <1>5 DEF Restart
<1>6. CASE Boot
  BY <1>1, <1>6 DEF Boot, session
<1>7. CASE Read
  BY <1>1, <1>7 DEF Read, session
<1>8. CASE WriteCoils
  BY <1>1, <1>8 DEF WriteCoils
<1>9. CASE WriteRegisters
  BY <1>1, <1>9 DEF WriteRegisters
<1>10. CASE Die
  BY <1>10 DEF Die, session
<1>11. CASE UNCHANGED vars
  BY <1>1, <1>11 DEF vars, session
<1> QED
  BY <1>2, <1>3, <1>4, <1>5, <1>6, <1>7, <1>8, <1>9, <1>10, <1>11 DEF Next

(* A command is judged on no setpoint older than its press, however long   *)
(* it was held and however often the controller died over it: what the     *)
(* controller takes it owed (ExactlyOnce), and what it owes it judges on   *)
(* the setpoint in force.                                                  *)
THEOREM NoCommandOnAnOldSetpoint == Spec => CommandsSeeSetpoints
<1>1. Init => SinceInv
  BY DEF Init, SinceInv
<1>2. ExactlyOnce /\ SinceInv /\ [Next]_vars
        => [pc = "read" /\ pc' = "coils" /\ Taken # {} => judged' \in since]_vars
  <2> SUFFICES ASSUME ExactlyOnce, SinceInv, [Next]_vars, pc = "read", pc' = "coils", Taken # {}
               PROVE  judged' \in since \/ UNCHANGED vars
    OBVIOUS
  <2>1. setpoint \in since
    BY DEF SinceInv, ExactlyOnce
  <2>2. Read \/ UNCHANGED vars
    BY DEF Next, Press, Enter, WriteSetpoint, Tick, Restart, Boot, WriteCoils, WriteRegisters, Die,
           controller
  <2> QED
    BY <2>1, <2>2 DEF Read, JudgedOn
<1>3. Spec => []SinceInv
  BY <1>1, SinceStep, TypeCorrect, PTL DEF Spec
<1> QED
  BY <1>2, <1>3, OwedIsRaisedOrHeld, PTL DEF Spec, CommandsSeeSetpoints
=============================================================================
