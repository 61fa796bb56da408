---------------------------- MODULE AlarmManager ----------------------------
(***************************************************************************)
(* AlarmManager: the alarms' latches and the first-out mark.  The alarms   *)
(* are numbered in registration order, the order scan() visits them in.    *)
(* Their conditions belong to others, so a scan reads any of them true;    *)
(* acknowledge() comes between scans (LineController calls it after one).  *)
(***************************************************************************)
EXTENDS Naturals, FiniteSets

CONSTANT NumAlarms   \* how many alarms are registered

ASSUME AlarmsAssumption == NumAlarms \in Nat

Alarms == 1 .. NumAlarms
NoAlarm == 0

VARIABLES
  active,      \* Alarm.active
  unacked,     \* ~Alarm.acknowledged
  first_out,   \* Alarm.first_out, a flag of each alarm
  holder       \* _first_out_holder

vars == <<active, unacked, first_out, holder>>

TypeOK ==
  /\ active \subseteq Alarms /\ unacked \subseteq Alarms /\ first_out \subseteq Alarms
  /\ holder \in Alarms \cup {NoAlarm}

Latched == active \cup unacked

Init == active = {} /\ unacked = {} /\ first_out = {} /\ holder = NoAlarm

(* Mutant: the latest alarm takes the mark over.                           *)
HolderLatest(rising, latched) ==
  LET h[k \in 0 .. NumAlarms] ==
        IF k = 0 THEN holder
        ELSE CASE k \in rising -> k
               [] h[k - 1] = k /\ k \notin latched -> NoAlarm
               [] OTHER -> h[k - 1]
  IN  h

(* The holder after each turn of the loop: alarm k's rising edge claims a  *)
(* free mark, its going out releases its own, and the next alarm of the    *)
(* same loop finds the mark as that left it.                               *)
HolderAfter(rising, latched) ==
  LET h[k \in 0 .. NumAlarms] ==
        IF k = 0 THEN holder
        ELSE CASE k \in rising /\ h[k - 1] = NoAlarm -> k
               [] h[k - 1] = k /\ k \notin latched -> NoAlarm
               [] OTHER -> h[k - 1]
  IN  h

Scan(now) ==
  LET rising  == now \ active
      latched == now \cup unacked
      h       == HolderAfter(rising, latched)
  IN  /\ active' = now
      /\ unacked' = unacked \cup rising
      /\ holder' = h[NumAlarms]
      /\ first_out' = (first_out \cap latched)
                        \cup {a \in rising : h[a - 1] = NoAlarm}

Acknowledge(these) ==
  /\ unacked' = unacked \ these
  /\ UNCHANGED active
  /\ first_out' = first_out \ (these \ active)
  /\ holder' = IF holder \in these \ active THEN NoAlarm ELSE holder

-----------------------------------------------------------------------------
Lamp(a) ==
  CASE a \in unacked -> "FLASHING"
    [] a \in active \ unacked -> "STEADY"
    [] OTHER -> "OUT"

Panel ==
  INSTANCE Annunciator WITH lamp <- [a \in Alarms |-> Lamp(a)], first <- holder

(* The manager is an annunciator panel: an alarm once up is lost by        *)
(* nothing but an acknowledgement, the first-out mark of a lit lamp is     *)
(* taken over by nobody, and a free one goes to the earliest of the alarms *)
(* that come up together, whatever else clears in the same loop.           *)
IsAnAnnunciator == Panel!Spec

(* alarms.py: the claim sticks, even once that alarm's own condition       *)
(* clears, until the whole board is quiet again, so that the cause of a    *)
(* trip cascade stays identifiable.  While an alarm stays up the board is  *)
(* not quiet.  But _release_if_reset() asks one alarm alone: the mark is   *)
(* free, for a later alarm to take, once the cause has cleared and been    *)
(* acknowledged.                                                           *)
FirstOutSticks ==
  [][holder # NoAlarm /\ Latched \cap Latched' # {} => holder' = holder]_vars
=============================================================================
