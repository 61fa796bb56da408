------------------------------ MODULE EventLog ------------------------------
(***************************************************************************)
(* EventLog: the alarms' history as the differences between two samples,   *)
(* and the replay's board, rebuilt from those events alone.  A tick is     *)
(* LineController.scan(), which scans the alarms and then acknowledges     *)
(* what was asked for, then the sample.  The log reads the alarms as the   *)
(* status block carries them, as it does from an external controller; a    *)
(* built-in one's are the same alarms.                                     *)
(***************************************************************************)
EXTENDS AlarmManager

CONSTANT WordBits   \* the width of a status register

ASSUME WordAssumption == WordBits \in Nat \ {0}

VARIABLES
  asked,      \* LineController._acknowledge_requested
  phase,      \* where in the tick: what was done last
  last,       \* EventLog._last_alarm
  board       \* build_frames' board, its alarms by their three flags

Status == INSTANCE StatusBlock

alarms  == <<active, unacked, first_out, holder>>
logvars == <<alarms, asked, phase, last, board>>

Quiet == [active |-> {}, unacked |-> {}, first_out |-> {}]

(* The alarms of the controller, and what of them crosses the wire.        *)
Alarm == [active |-> active, unacked |-> unacked, first_out |-> first_out]
Seen == Status!Decode(Status!Encode(Alarm))

(* LiveSession._fresh and runner.execute both take the first sample, which *)
(* only sets the baseline, of a line that was just built.                  *)
LogInit ==
  /\ Init
  /\ asked = FALSE /\ phase = "sampled"
  /\ last = Quiet /\ board = Quiet

(* acknowledge(): the pushbutton, taken by the next scan.                  *)
Ask ==
  /\ phase = "sampled" /\ ~asked
  /\ asked' = TRUE
  /\ UNCHANGED <<alarms, phase, last, board>>

ScanAlarms ==
  /\ phase = "sampled"
  /\ \E now \in SUBSET Alarms : Scan(now)
  /\ phase' = "scanned"
  /\ UNCHANGED <<asked, last, board>>

(* The same scan: what it has just raised is acknowledged along.           *)
AcknowledgeAll ==
  /\ phase = "scanned"
  /\ IF asked THEN Acknowledge(Alarms) ELSE UNCHANGED alarms
  /\ asked' = FALSE
  /\ phase' = "settled"
  /\ UNCHANGED <<last, board>>

(* AlarmManager.acknowledge(id), between two scans.                        *)
AcknowledgeOne ==
  /\ phase = "sampled"
  /\ \E a \in Alarms : Acknowledge({a})
  /\ UNCHANGED <<asked, phase, last, board>>

(* Mutant: an alarm that clears counts as acknowledged.                    *)
AcknowledgedSinceBlind(seen) == (last.unacked \ seen.unacked) \cup (last.active \ seen.active)

(* The three events of an alarm, in the order sample() emits them.         *)
ActivatedSince(seen) == seen.active \ last.active
ClearedSince(seen) == last.active \ seen.active
AcknowledgedSince(seen) == last.unacked \ seen.unacked

(* _apply(), for the events of one sample: activated puts an alarm up anew *)
(* with the mark it has, the other two change one flag each.               *)
Applied(seen) ==
  LET on == ActivatedSince(seen)
  IN  [active    |-> (board.active \cup on) \ ClearedSince(seen),
       unacked   |-> (board.unacked \cup on) \ AcknowledgedSince(seen),
       first_out |-> (board.first_out \ on) \cup (on \cap seen.first_out)]

(* build_frames(): what is neither active nor unacknowledged comes down.   *)
Swept(b) == [b EXCEPT !.first_out = @ \cap (b.active \cup b.unacked)]

Sample ==
  /\ phase = "settled"
  /\ board' = Swept(Applied(Seen))
  /\ last' = Seen
  /\ phase' = "sampled"
  /\ UNCHANGED <<alarms, asked>>

LogNext == Ask \/ ScanAlarms \/ AcknowledgeAll \/ AcknowledgeOne \/ Sample

LogSpec == LogInit /\ [][LogNext]_logvars

-----------------------------------------------------------------------------
(* controller_status: active and unacknowledged, and one first-out number, *)
(* are enough to rebuild the whole board on the far side, at any point of  *)
(* the alarms' lives.                                                      *)
WireTellsTheBoard == Seen = Alarm

Behind == phase # "sampled" \/ last # Alarm

(* replay.py rebuilds the board from the events alone.  It misses no alarm *)
(* of the controller: those active are shown active, those still to be     *)
(* acknowledged are shown so, and the first-out is shown on the one alarm  *)
(* that has it.  (It may show more: an alarm that comes up in the scan     *)
(* that takes an acknowledgement leaves no event of being acknowledged.)   *)
ReplayMissesNothing ==
  Behind \/ /\ board.active = active
            /\ unacked \subseteq board.unacked
            /\ first_out \subseteq board.first_out
=============================================================================
