-------------------------- MODULE ExternalSession --------------------------
(***************************************************************************)
(* LiveSession(external=True) and the controller that drives its plant     *)
(* over Modbus: the operator's queue, the handshake, the comm-loss         *)
(* watchdog, and a controller whose scan is one read and two writes with   *)
(* anything in between, its death included.  Every request is served under *)
(* the session's lock, so each is one step here.                           *)
(*                                                                         *)
(* The line's own logic is LineController's; here a scan decides to        *)
(* energise the outputs or not.  One setpoint register stands for five.    *)
(***************************************************************************)
EXTENDS HmiHandshake, Naturals

CONSTANTS
  Setpoints,   \* values of the setpoint register
  Default,     \* its default
  NoEntry,     \* nothing queued for it
  Watchdog     \* WATCHDOG_S in ticks

ASSUME SessionAssumption ==
  /\ Default \in Setpoints
  /\ NoEntry \notin Setpoints
  /\ Watchdog \in Nat

VARIABLES
  presses,     \* commands in LiveSession._pending
  entry,       \* the last setpoint in LiveSession._pending
  hmi,         \* LiveSession.handshake
  setpoint,    \* HmiHandshake.setpoints
  energised,   \* a discrete output of the plant's image is on
  quiet,       \* ticks since the controller last wrote, up to Watchdog + 1
  pc,          \* what the controller does next; "down" when there is none
  ack,         \* ModbusIOSync._ack
  drive,       \* the outputs the line has decided on
  judged,      \* the setpoint the line held when it got the last scan's commands
  \* history, written by no code and read by no guard:
  owed,        \* presses handed over that the controller has not acted on
  stale,       \* acks of the controller that a session restart knows nothing of
  since        \* setpoints meant from the first press still to be acted on till now

session    == <<presses, entry, hmi, setpoint, energised, quiet>>
controller == <<pc, ack, drive, judged>>
vars       == <<session, controller, owed, stale, since>>

TypeOK ==
  /\ presses \subseteq Commands /\ entry \in Setpoints \cup {NoEntry}
  /\ hmi \in Handshake /\ setpoint \in Setpoints
  /\ energised \in BOOLEAN /\ quiet \in 0 .. Watchdog + 1
  /\ pc \in {"down", "read", "coils", "registers"}
  /\ ack \subseteq Commands /\ drive \in BOOLEAN /\ judged \in Setpoints
  /\ owed \subseteq Commands /\ stale \subseteq Commands /\ since \subseteq Setpoints

(* _fresh(), and the reset() of the handshake that goes with it.           *)
Fresh == [hmi |-> Idle, setpoint |-> Default, energised |-> FALSE, quiet |-> 0]

Init ==
  /\ presses = {} /\ entry = NoEntry
  /\ hmi = Fresh.hmi /\ setpoint = Fresh.setpoint
  /\ energised = Fresh.energised /\ quiet = Fresh.quiet
  /\ pc = "down" /\ ack = {} /\ drive = FALSE /\ judged = Default
  /\ owed = {} /\ stale = {} /\ since = {}

-----------------------------------------------------------------------------
(* The session.                                                            *)

(* The setpoint the operator goes by: the one still queued, if any.        *)
Meant == IF entry = NoEntry THEN setpoint ELSE entry

(* command(), from the page or from an HMI coil: queued for the next tick. *)
Press(c) ==
  /\ presses' = presses \cup {c}
  /\ since' = IF presses \cup owed = {} THEN {Meant} ELSE since \cup {Meant}
  /\ UNCHANGED <<entry, hmi, setpoint, energised, quiet, controller, owed, stale>>

(* setpoint(): queued too; of several, the last one applied stands.        *)
Enter(v) ==
  /\ entry' = v /\ since' = since \cup {v}
  /\ UNCHANGED <<presses, hmi, setpoint, energised, quiet, controller, owed, stale>>

(* A setpoint register written over Modbus takes effect at once.           *)
WriteSetpoint(v) ==
  /\ setpoint' = v /\ since' = since \cup {v}
  /\ UNCHANGED <<presses, entry, hmi, energised, quiet, controller, owed, stale>>

(* Mutant: silence is measured, and never acted on.                        *)
CutOffNever == FALSE

(* _watchdog(): the controller has been silent for too long.               *)
CutOff == energised /\ quiet > Watchdog

(* step(): the queue, then the watchdog, then the plant's tick.  A press   *)
(* merges with one whose request is still up.                              *)
Tick ==
  /\ hmi' = Requested(hmi, presses)
  /\ owed' = owed \cup (presses \ hmi.request)
  /\ setpoint' = Meant
  /\ presses' = {} /\ entry' = NoEntry
  /\ energised' = (energised /\ ~CutOff)
  /\ quiet' = IF quiet > Watchdog THEN quiet ELSE quiet + 1
  /\ UNCHANGED <<controller, stale, since>>

(* restart(): everything of the session is new, the controller is not.     *)
Restart ==
  /\ presses' = {} /\ entry' = NoEntry
  /\ hmi' = Fresh.hmi /\ setpoint' = Fresh.setpoint
  /\ energised' = Fresh.energised /\ quiet' = Fresh.quiet
  /\ owed' = {} /\ stale' = ack /\ since' = {}
  /\ UNCHANGED controller

-----------------------------------------------------------------------------
(* The controller.                                                         *)

Boot ==
  /\ pc = "down"
  /\ pc' = "read" /\ ack' = {} /\ drive' = FALSE /\ judged' = Default
  /\ UNCHANGED <<session, owed, stale, since>>

(* take_commands(): up and not yet acknowledged.                           *)
Taken == hmi.request \ ack

(* Mutant: the setpoints are applied after the commands.                   *)
JudgedOnTheOld == judged

(* scan_once() applies the setpoints before it hands over the commands.    *)
JudgedOn == setpoint

(* scan_once() up to the line's scan.  The ack follows the request bit for *)
(* bit; the line may decide on anything.                                   *)
Read ==
  /\ pc = "read"
  /\ pc' = "coils"
  /\ ack' = (ack \cup Taken) \cap hmi.request
  /\ judged' = JudgedOn
  /\ drive' \in BOOLEAN
  /\ owed' = owed \ Taken
  /\ stale' = stale \cap hmi.request
  /\ UNCHANGED <<session, since>>

(* push_outputs(), its first request: the discrete outputs.                *)
WriteCoils ==
  /\ pc = "coils"
  /\ pc' = "registers"
  /\ energised' = drive /\ quiet' = 0
  /\ UNCHANGED <<presses, entry, hmi, setpoint, ack, drive, judged, owed, stale, since>>

(* Its second: analog outputs, status, and the ack word.  A press raised   *)
(* under a stale ack is taken down by it, and lost: nobody acted on it.    *)
WriteRegisters ==
  /\ pc = "registers"
  /\ pc' = "read"
  /\ hmi' = Acked(hmi, ack) /\ quiet' = 0
  /\ owed' = owed \ stale /\ stale' = {}
  /\ UNCHANGED <<presses, entry, setpoint, energised, ack, drive, judged, since>>

(* The connection drops or the process dies.  What the controller took and *)
(* never acknowledged is owed again, because the words cannot tell whether *)
(* it was done: the next controller takes it anew, on the setpoint that    *)
(* stands, and so does it a second time if the coils had been written.     *)
Die ==
  /\ pc # "down"
  /\ pc' = "down" /\ ack' = {}
  /\ owed' = owed \cup (hmi.request \cap ack) /\ stale' = {}
  /\ since' = since \cup {setpoint}
  /\ UNCHANGED <<session, drive, judged>>

Next ==
  \/ \E c \in Commands : Press(c)
  \/ \E v \in Setpoints : Enter(v) \/ WriteSetpoint(v)
  \/ Tick \/ Restart
  \/ Boot \/ Read \/ WriteCoils \/ WriteRegisters \/ Die

Spec == Init /\ [][Next]_vars

(* The session's pacer ticks and a controller that is up keeps scanning.   *)
(* Nothing makes it boot, or keeps it from dying.                          *)
FairSpec == Spec /\ WF_vars(Tick) /\ WF_vars(Read) /\ WF_vars(WriteCoils) /\ WF_vars(WriteRegisters)

-----------------------------------------------------------------------------
(* The properties.                                                         *)

(* HmiHandshake: each press takes effect once.  What has not been acted on *)
(* is raised and untaken, or held, so it can still be taken, and nothing   *)
(* else can be; with one exception, the presses raised under an ack that a *)
(* session restart left in the controller, which are neither (Restart).    *)
(* And once per controller: what one did and did not live to acknowledge,  *)
(* the next does again (Die).                                              *)
ExactlyOnce == owed = Taken \cup hmi.pending \cup (hmi.request \cap stale)

(* scan_once: an HMI enters a recipe and then presses Start, and the start *)
(* must see the recipe.  Through the queue, the handshake, held presses    *)
(* and the controller's death, a command is judged on a setpoint that was  *)
(* in force when it was pressed or entered later, never on an older one.   *)
CommandsSeeSetpoints ==
  [][pc = "read" /\ pc' = "coils" /\ Taken # {} => judged' \in since]_vars

(* Every press is acted on, unless it was made under a stale ack, or the   *)
(* session is restarted or the controller dies over it.                    *)
PressesAreTaken ==
  \A c \in Commands : c \in owed \ stale ~> (c \notin owed \/ pc = "down")

(* The comm-loss watchdog: a controller that dies and stays dead leaves no *)
(* output energised.                                                       *)
OrphansStop == <>[](pc = "down") => <>[]~energised
=============================================================================
