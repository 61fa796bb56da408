----------------------------- MODULE Annunciator -----------------------------
(***************************************************************************)
(* What an alarm panel promises: one lamp for each alarm, out, flashing    *)
(* until somebody acknowledges it, steady until its condition clears; and  *)
(* the mark of the alarm that came first.  Alarms are numbered in the      *)
(* order that breaks a tie.                                                *)
(***************************************************************************)
EXTENDS Naturals

CONSTANT Alarms

VARIABLES
  lamp,   \* OUT, FLASHING or STEADY, for each alarm
  first   \* the first-out alarm, 0 when there is none

NoAlarm == 0

LampStates == {"OUT", "FLASHING", "STEADY"}

Init == lamp = [a \in Alarms |-> "OUT"] /\ first = NoAlarm

(* A flashing lamp is put out by nothing but an acknowledgement, and a     *)
(* steady one flashes again only after it has been out.                    *)
ByItself == {<<"OUT", "FLASHING">>, <<"STEADY", "OUT">>} \cup {<<s, s>> : s \in LampStates}
ByHand == {<<"FLASHING", "STEADY">>, <<"FLASHING", "OUT">>}

Turned(changes, on) ==
  lamp' \in {l \in [Alarms -> LampStates] : \A a \in on : <<lamp[a], l[a]>> \in changes}

Lit == {a \in Alarms : lamp[a] # "OUT"}
Flashing == {a \in Alarms : lamp[a] = "FLASHING"}

(* The mark stays with its alarm while that lamp is lit; a dark board has  *)
(* none.  Between the two, with its own lamp out and another lit, it may   *)
(* stay, become free or, in a scan, be passed on: what it does then is no  *)
(* promise of the panel's.                                                 *)
Outlived(next) ==
  /\ first \in Alarms \ Lit' /\ first' \in next
  /\ Lit' = {} => first' = NoAlarm

(* A free mark goes to the earliest of the alarms that come up together.   *)
Scan ==
  /\ Turned(ByItself, Alarms)
  /\ \/ first \in Lit' /\ first' = first
     \/ /\ first = NoAlarm
        /\ first' \in Flashing' \cup {NoAlarm}
        /\ \A a \in Lit' \ Lit : first' # NoAlarm /\ first' <= a
     \/ Outlived({first, NoAlarm} \cup Flashing')

(* Acknowledging puts no lamp on and gives the mark to nobody.             *)
Acknowledge(these) ==
  /\ Turned(ByHand \cup {<<"OUT", "OUT">>, <<"STEADY", "STEADY">>}, these)
  /\ \A a \in Alarms \ these : lamp'[a] = lamp[a]
  /\ \/ first \in Lit' \cup {NoAlarm} /\ first' = first
     \/ Outlived({first, NoAlarm})

Next == Scan \/ Acknowledge(Alarms) \/ \E a \in Alarms : Acknowledge({a})

Spec == Init /\ [][Next]_<<lamp, first>>
=============================================================================
