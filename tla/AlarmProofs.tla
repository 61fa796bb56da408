----------------------------- MODULE AlarmProofs -----------------------------
(***************************************************************************)
(* The alarms, for any number of them: the manager is an annunciator, its  *)
(* board crosses the wire whole, and the replay of its events misses       *)
(* nothing.                                                                *)
(***************************************************************************)
EXTENDS EventLog, Recursion, TLAPS

USE AlarmsAssumption, WordAssumption

-----------------------------------------------------------------------------
(* One loop over the alarms.                                               *)

(* What the loop makes of the mark at alarm k.                             *)
Turn(rising, latched, k, mark) ==
  CASE k \in rising /\ mark = NoAlarm -> k
    [] mark = k /\ k \notin latched -> NoAlarm
    [] OTHER -> mark

LEMMA HolderTurns ==
  ASSUME TypeOK, NEW rising, NEW latched, NEW h, h = HolderAfter(rising, latched)
  PROVE  /\ h \in [0 .. NumAlarms -> Alarms \cup {NoAlarm}] /\ h[0] = holder
         /\ \A k \in Alarms : h[k] = Turn(rising, latched, k, h[k - 1])
<1> DEFINE Body(g) == [k \in 0 .. NumAlarms |->
                         IF k = 0 THEN holder
                         ELSE CASE k \in rising /\ g[k - 1] = NoAlarm -> k
                                [] g[k - 1] = k /\ k \notin latched -> NoAlarm
                                [] OTHER -> g[k - 1]]
<1>0. PICK Marks : Marks = Alarms \cup {NoAlarm}
  OBVIOUS
<1>1. PICK step : step = [k \in 1 .. NumAlarms |-> [v \in Marks |-> Turn(rising, latched, k, v)]]
  OBVIOUS
<1>2. step \in [1 .. NumAlarms -> [Marks -> Marks]]
  BY <1>0, <1>1 DEF Turn, Alarms, NoAlarm
<1>3. holder \in Marks
  BY <1>0 DEF TypeOK
<1>4. PICK g \in [0 .. NumAlarms -> Marks] :
        g[0] = holder /\ \A k \in 1 .. NumAlarms : g[k] = step[k][g[k - 1]]
  <2>1. NumAlarms \in Nat /\ Turns(step, NumAlarms, Marks)
    BY <1>2, AlarmsAssumption DEF Turns
  <2>2. \E g : Carried(g, step, NumAlarms, Marks, holder)
    BY <1>3, <2>1, LoopExists
  <2> QED BY <2>2 DEF Carried
<1>5. \A k \in 1 .. NumAlarms : g[k] = Turn(rising, latched, k, g[k - 1])
  <2>1. \A k \in 1 .. NumAlarms : g[k - 1] \in Marks
    BY <1>4
  <2> QED BY <1>1, <1>4, <2>1
<1>6. g = Body(g)
  BY <1>4, <1>5 DEF Turn
<1>7. h = (CHOOSE x : x = Body(x))
  BY DEF HolderAfter
<1>8. h = Body(h)
  <2> HIDE DEF Body
  <2> QED BY <1>6, <1>7
<1>9. h[0] = holder /\ \A k \in 1 .. NumAlarms : h[k] = Turn(rising, latched, k, h[k - 1])
  BY <1>8 DEF Turn
<1>10. h = [k \in 0 .. NumAlarms |-> h[k]]
  BY <1>8
<1>11. \A k \in 0 .. NumAlarms : h[k] \in Marks
  <2>1. PICK T : T = {k \in 0 .. NumAlarms : h[k] \notin Marks}
    OBVIOUS
  <2>2. SUFFICES ASSUME T # {} PROVE FALSE
    BY <2>1
  <2>3. PICK k \in T : \A i \in T : k <= i
    <3>1. T \in SUBSET Nat
      BY <2>1
    <3> QED BY <2>2, <3>1, LeastNatural
  <2>4. k \in 1 .. NumAlarms /\ h[k] \notin Marks
    BY <2>1, <1>3, <1>9
  <2>5. h[k - 1] \in Marks
    BY <2>1, <2>3, <2>4
  <2> QED BY <1>0, <1>9, <2>4, <2>5 DEF Turn, Alarms
<1> QED BY <1>0, <1>9, <1>10, <1>11 DEF Alarms

(* The mark's way through the loop: a mark that is kept stays put; one that *)
(* is given up, or free, is with nobody until the first alarm to rise after *)
(* its old place, and stays there.                                         *)
Kept(latched) == holder # NoAlarm /\ holder \in latched

AfterTurn(rising, latched, k, mark) ==
  IF Kept(latched) \/ k < holder THEN mark = holder
  ELSE \/ /\ mark = NoAlarm
          /\ \A a \in rising : a <= k => a <= holder
       \/ /\ mark \in rising /\ mark \in (holder + 1) .. k
          /\ \A a \in rising : a > holder => mark <= a

LEMMA MarkThroughLoop ==
  ASSUME TypeOK, NEW rising \in SUBSET Alarms, NEW latched \in SUBSET Alarms,
         rising \subseteq latched,
         NEW h, h = HolderAfter(rising, latched), NEW k \in 0 .. NumAlarms
  PROVE  AfterTurn(rising, latched, k, h[k])
<1>1. PICK T : T = {i \in 0 .. NumAlarms : ~AfterTurn(rising, latched, i, h[i])}
  OBVIOUS
<1>2. SUFFICES ASSUME T # {} PROVE FALSE
  BY <1>1
<1>3. PICK i \in T : \A j \in T : i <= j
  <2>1. T \in SUBSET Nat
    BY <1>1
  <2> QED BY <1>2, <2>1, LeastNatural
<1>4. /\ h[0] = holder
      /\ \A j \in Alarms : h[j] = Turn(rising, latched, j, h[j - 1])
      /\ \A j \in 0 .. NumAlarms : h[j] \in Alarms \cup {NoAlarm}
  BY HolderTurns
<1>5. holder \in Nat /\ rising \subseteq Nat /\ 0 \notin rising
  BY DEF TypeOK, Alarms, NoAlarm
<1>6. AfterTurn(rising, latched, 0, h[0])
  BY <1>4, <1>5 DEF AfterTurn, NoAlarm
<1>7. i \in Alarms /\ i - 1 \in 0 .. NumAlarms /\ i - 1 \in Nat
  BY <1>1, <1>6 DEF Alarms
<1>8. AfterTurn(rising, latched, i - 1, h[i - 1])
  BY <1>1, <1>3, <1>7
<1>9. PICK before, after : before = h[i - 1] /\ after = h[i]
  OBVIOUS
<1>10. after = Turn(rising, latched, i, before) /\ before \in Alarms \cup {NoAlarm}
  BY <1>4, <1>7, <1>9
<1>11. ~AfterTurn(rising, latched, i, after)
  BY <1>1, <1>9
<1>12. i \in Nat /\ before \in Nat /\ i # 0
  BY <1>7, <1>10 DEF Alarms, NoAlarm
<1>13. CASE Kept(latched) \/ i < holder
  <2>1. before = holder /\ holder # NoAlarm
    BY <1>5, <1>7, <1>8, <1>9, <1>12, <1>13 DEF AfterTurn, Kept, NoAlarm
  <2> QED BY <1>5, <1>10, <1>11, <1>12, <1>13, <2>1 DEF AfterTurn, Turn, Kept, NoAlarm
<1>14. CASE ~Kept(latched) /\ i = holder
  <2>1. before = holder /\ holder \notin latched
    BY <1>5, <1>7, <1>8, <1>9, <1>12, <1>14 DEF AfterTurn, Kept, NoAlarm
  <2>2. after = NoAlarm
    BY <1>10, <1>12, <1>14, <2>1 DEF Turn, NoAlarm
  <2> QED BY <1>5, <1>11, <1>12, <1>14, <2>2 DEF AfterTurn
<1>15. CASE ~Kept(latched) /\ holder < i
  <2>1. \/ /\ before = NoAlarm
           /\ \A a \in rising : a <= i - 1 => a <= holder
        \/ /\ before \in rising /\ before \in (holder + 1) .. (i - 1)
           /\ \A a \in rising : a > holder => before <= a
    BY <1>5, <1>7, <1>8, <1>9, <1>12, <1>15 DEF AfterTurn
  <2>2. CASE before # NoAlarm
    <3>1. before \in rising /\ before \in latched /\ before < i
      BY <1>5, <1>12, <2>1, <2>2
    <3>2. after = before
      BY <1>10, <1>12, <2>2, <3>1 DEF Turn
    <3> QED BY <1>5, <1>11, <1>12, <1>15, <2>1, <2>2, <3>2 DEF AfterTurn
  <2>3. CASE before = NoAlarm /\ i \in rising
    <3>1. after = i
      BY <1>10, <2>3 DEF Turn
    <3>2. \A a \in rising : a > holder => i <= a
      BY <1>5, <1>12, <2>1, <2>3 DEF NoAlarm
    <3> QED BY <1>5, <1>11, <1>12, <1>15, <2>3, <3>1, <3>2 DEF AfterTurn
  <2>4. CASE before = NoAlarm /\ i \notin rising
    <3>1. after = NoAlarm
      BY <1>10, <1>12, <2>4 DEF Turn, NoAlarm
    <3>2. \A a \in rising : a <= i => a <= holder
      BY <1>5, <1>12, <2>1, <2>4 DEF NoAlarm
    <3> QED BY <1>5, <1>11, <1>12, <1>15, <3>1, <3>2 DEF AfterTurn
  <2> QED BY <2>2, <2>3, <2>4
<1> QED BY <1>5, <1>12, <1>13, <1>14, <1>15

-----------------------------------------------------------------------------
(* The manager's invariant.                                                *)

(* One alarm at most has the mark, the holder, and it is up.               *)
AlarmInv ==
  /\ TypeOK
  /\ first_out = IF holder = NoAlarm THEN {} ELSE {holder}
  /\ holder # NoAlarm => holder \in Latched

(* What a scan does with the mark.                                         *)
LEMMA ScanMarks ==
  ASSUME AlarmInv, NEW now \in SUBSET Alarms, Scan(now)
  PROVE  LET rising  == now \ active
             latched == now \cup unacked
         IN  /\ AfterTurn(rising, latched, NumAlarms, holder')
             /\ first_out' = IF holder' = NoAlarm THEN {} ELSE {holder'}
             /\ holder' # NoAlarm => holder' \in latched
             /\ holder' \in Alarms \cup {NoAlarm}
<1>1. PICK rising, latched : rising = now \ active /\ latched = now \cup unacked
  OBVIOUS
<1>2. PICK h : h = HolderAfter(rising, latched)
  OBVIOUS
<1>3. /\ rising \in SUBSET Alarms /\ latched \in SUBSET Alarms /\ rising \subseteq latched
      /\ TypeOK
  BY <1>1 DEF AlarmInv, TypeOK
<1>4. /\ holder' = h[NumAlarms]
      /\ first_out' = (first_out \cap latched) \cup {a \in rising : h[a - 1] = NoAlarm}
  BY <1>1, <1>2 DEF Scan
<1>5. \A k \in 0 .. NumAlarms : AfterTurn(rising, latched, k, h[k])
  BY <1>2, <1>3, MarkThroughLoop
<1>6. AfterTurn(rising, latched, NumAlarms, holder')
  BY <1>4, <1>5, AlarmsAssumption
<1>7. holder' \in Alarms \cup {NoAlarm}
  BY <1>2, <1>3, <1>4, HolderTurns, AlarmsAssumption
<1>8. holder \in 0 .. NumAlarms /\ rising \subseteq 1 .. NumAlarms
  BY <1>3, AlarmsAssumption DEF TypeOK, Alarms, NoAlarm
<1>9. CASE Kept(latched)
  <2>1. holder' = holder /\ holder \in latched /\ holder # NoAlarm
    BY <1>6, <1>9 DEF AfterTurn, Kept
  <2>2. first_out \cap latched = {holder}
    BY <2>1 DEF AlarmInv
  <2>3. \A a \in rising : h[a - 1] # NoAlarm
    <3>1. \A a \in rising : a - 1 \in 0 .. NumAlarms
      BY <1>8
    <3> QED BY <1>5, <1>9, <2>1, <3>1 DEF AfterTurn
  <2> QED BY <1>1, <1>4, <1>6, <1>7, <2>1, <2>2, <2>3
<1>10. CASE ~Kept(latched)
  <2>1. first_out \cap latched = {}
    BY <1>10 DEF AlarmInv, Kept
  <2>2. \/ /\ holder' = NoAlarm
           /\ \A a \in rising : a <= holder
        \/ /\ holder' \in rising /\ holder' > holder
           /\ \A a \in rising : a > holder => holder' <= a
    BY <1>6, <1>8, <1>10 DEF AfterTurn
  <2>3. ASSUME NEW a \in rising, h[a - 1] = NoAlarm PROVE a = holder'
    <3>1. a - 1 \in 0 .. NumAlarms /\ AfterTurn(rising, latched, a - 1, NoAlarm)
      BY <1>5, <1>8, <2>3
    <3>2. a > holder
      BY <1>8, <1>10, <3>1 DEF AfterTurn, NoAlarm
    <3>3. \A b \in rising : b <= a - 1 => b <= holder
      BY <1>8, <1>10, <3>1, <3>2 DEF AfterTurn, NoAlarm
    <3>4. PICK c : c = holder'
      OBVIOUS
    <3>5. c \in rising /\ c > holder /\ c <= a
      BY <1>8, <2>2, <3>2, <3>4
    <3>6. ~(c <= a - 1)
      BY <1>8, <3>3, <3>5
    <3> QED BY <1>8, <3>4, <3>5, <3>6
  <2>4. ASSUME holder' # NoAlarm PROVE holder' \in rising /\ h[holder' - 1] = NoAlarm
    <3>1. PICK c : c = holder'
      OBVIOUS
    <3>2. c \in rising /\ c > holder /\ \A a \in rising : a > holder => c <= a
      BY <2>2, <2>4, <3>1
    <3>3. c - 1 \in 0 .. NumAlarms /\ AfterTurn(rising, latched, c - 1, h[c - 1])
      BY <1>5, <1>8, <3>2
    <3>4. h[c - 1] = NoAlarm
      BY <1>8, <1>10, <3>2, <3>3 DEF AfterTurn
    <3> QED BY <3>1, <3>2, <3>4
  <2>5. first_out' = IF holder' = NoAlarm THEN {} ELSE {holder'}
    <3>1. NoAlarm \notin rising
      BY <1>8 DEF NoAlarm
    <3> QED BY <1>4, <2>1, <2>3, <2>4, <3>1
  <2> QED BY <1>1, <1>3, <1>6, <1>7, <2>4, <2>5
<1> QED BY <1>9, <1>10

LEMMA AcknowledgeMarks ==
  ASSUME AlarmInv, NEW these \in SUBSET Alarms, Acknowledge(these)
  PROVE  AlarmInv'
  BY DEF AlarmInv, TypeOK, Acknowledge, Latched, Alarms, NoAlarm

LEMMA ScanKeepsAlarmInv ==
  ASSUME AlarmInv, NEW now \in SUBSET Alarms, Scan(now)
  PROVE  AlarmInv'
<1>1. /\ active' = now /\ unacked' = unacked \cup (now \ active)
  BY DEF Scan
<1>2. /\ first_out' = IF holder' = NoAlarm THEN {} ELSE {holder'}
      /\ holder' # NoAlarm => holder' \in now \cup unacked
      /\ holder' \in Alarms \cup {NoAlarm}
  BY ScanMarks
<1>3. now \cup unacked \subseteq active' \cup unacked'
  BY <1>1
<1>4. active' \subseteq Alarms /\ unacked' \subseteq Alarms /\ first_out' \subseteq Alarms
  BY <1>1, <1>2 DEF AlarmInv, TypeOK
<1> QED BY <1>2, <1>3, <1>4 DEF AlarmInv, TypeOK, Latched

-----------------------------------------------------------------------------
(* The panel.                                                              *)

LEMMA LitIsLatched ==
  ASSUME AlarmInv
  PROVE  Panel!Lit = Latched /\ Panel!Flashing = unacked
  BY DEF Panel!Lit, Panel!Flashing, Lamp, Latched, AlarmInv, TypeOK

LEMMA ScanIsPanelScan ==
  ASSUME AlarmInv, NEW now \in SUBSET Alarms, Scan(now)
  PROVE  Panel!Scan
<1>1. /\ active' = now /\ unacked' = unacked \cup (now \ active)
  BY DEF Scan
<1>2. AlarmInv'
  BY ScanKeepsAlarmInv
<1>3. /\ Panel!Lit = active \cup unacked
      /\ Panel!Lit' = now \cup unacked
      /\ Panel!Flashing' = unacked \cup (now \ active)
  <2>1. Panel!Lit = Latched
    BY LitIsLatched
  <2>2. (Panel!Lit = Latched /\ Panel!Flashing = unacked)'
    BY <1>2, LitIsLatched, PTL
  <2> QED BY <1>1, <2>1, <2>2 DEF Latched
<1>4. \A a \in Alarms : <<Lamp(a), Lamp(a)'>> \in Panel!ByItself
  BY <1>1 DEF Lamp, Panel!ByItself, Panel!LampStates
<1>5. Panel!Turned(Panel!ByItself, Alarms)
  <2>1. [a \in Alarms |-> Lamp(a)'] \in [Alarms -> Panel!LampStates]
    BY <1>2 DEF Lamp, Panel!LampStates
  <2> QED BY <1>4, <2>1 DEF Panel!Turned
<1>6. AfterTurn(now \ active, now \cup unacked, NumAlarms, holder')
  BY ScanMarks
<1>7. holder \in 0 .. NumAlarms /\ now \subseteq 1 .. NumAlarms
  BY AlarmsAssumption DEF AlarmInv, TypeOK, Alarms, NoAlarm
<1>8. CASE Kept(now \cup unacked)
  BY <1>3, <1>5, <1>6, <1>8 DEF AfterTurn, Kept, Panel!Scan
<1>9. CASE ~Kept(now \cup unacked)
  <2>1. holder' \in Panel!Flashing' \cup {NoAlarm}
    BY <1>3, <1>6, <1>7, <1>9 DEF AfterTurn
  <2>2. CASE holder = NoAlarm
    <3>1. Panel!Lit' \ Panel!Lit \subseteq now \ active
      BY <1>3
    <3>2. \A a \in now \ active : holder' # NoAlarm /\ holder' <= a
      BY <1>6, <1>7, <1>9, <2>2 DEF AfterTurn, NoAlarm
    <3> QED BY <1>5, <2>1, <2>2, <3>1, <3>2 DEF Panel!Scan, Panel!NoAlarm, NoAlarm
  <2>3. CASE holder # NoAlarm
    <3>1. holder \in Alarms \ Panel!Lit'
      BY <1>3, <1>9, <2>3 DEF Kept, AlarmInv, TypeOK
    <3>2. Panel!Lit' = {} => holder' = NoAlarm
      BY <1>3, <2>1
    <3>3. Panel!Outlived({holder, Panel!NoAlarm} \cup Panel!Flashing')
      BY <2>1, <3>1, <3>2 DEF Panel!Outlived, Panel!NoAlarm, NoAlarm
    <3> QED BY <1>5, <3>3 DEF Panel!Scan
  <2> QED BY <2>2, <2>3
<1> QED BY <1>8, <1>9

LEMMA AcknowledgeIsPanelAcknowledge ==
  ASSUME AlarmInv, NEW these \in SUBSET Alarms, Acknowledge(these)
  PROVE  Panel!Acknowledge(these)
<1>1. active' = active /\ unacked' = unacked \ these
  BY DEF Acknowledge
<1>2. AlarmInv'
  BY AcknowledgeMarks
<1>3. Panel!Lit' = active \cup (unacked \ these)
  <2>1. (Panel!Lit = Latched)'
    BY <1>2, LitIsLatched, PTL
  <2> QED BY <1>1, <2>1 DEF Latched
<1>4. Panel!Turned(Panel!ByHand \cup {<<"OUT", "OUT">>, <<"STEADY", "STEADY">>}, these)
  <2>1. \A a \in these : <<Lamp(a), Lamp(a)'>>
                             \in Panel!ByHand \cup {<<"OUT", "OUT">>, <<"STEADY", "STEADY">>}
    BY <1>1 DEF Lamp, Panel!ByHand
  <2>2. [a \in Alarms |-> Lamp(a)'] \in [Alarms -> Panel!LampStates]
    BY <1>2 DEF Lamp, Panel!LampStates
  <2> QED BY <2>1, <2>2 DEF Panel!Turned
<1>5. \A a \in Alarms \ these : Lamp(a)' = Lamp(a)
  BY <1>1 DEF Lamp
<1>6. \/ holder \in Panel!Lit' \cup {NoAlarm} /\ holder' = holder
      \/ holder \in Alarms \ Panel!Lit' /\ holder' = NoAlarm
  BY <1>3 DEF Acknowledge, AlarmInv, TypeOK, Latched, Alarms, NoAlarm
<1> QED
  BY <1>4, <1>5, <1>6 DEF Panel!Acknowledge, Panel!Outlived, Panel!NoAlarm, NoAlarm

(* Each step of the log is one of the manager's, or leaves the alarms be.  *)
LEMMA LogStepsAlarms ==
  ASSUME [LogNext]_logvars
  PROVE  \/ \E now \in SUBSET Alarms : Scan(now)
         \/ Acknowledge(Alarms)
         \/ \E a \in Alarms : Acknowledge({a})
         \/ UNCHANGED alarms
  BY DEF LogNext, Ask, ScanAlarms, AcknowledgeAll, AcknowledgeOne, Sample, logvars, alarms

LEMMA AlarmInductive ==
  /\ LogInit => AlarmInv
  /\ AlarmInv /\ [LogNext]_logvars => AlarmInv'
<1>1. LogInit => AlarmInv
  BY DEF LogInit, Init, AlarmInv, TypeOK, Latched, NoAlarm
<1>2. ASSUME AlarmInv, [LogNext]_logvars PROVE AlarmInv'
  <2>1. CASE UNCHANGED alarms
    BY <1>2, <2>1 DEF AlarmInv, TypeOK, Latched, alarms
  <2>2. \A a \in Alarms : {a} \in SUBSET Alarms
    OBVIOUS
  <2> QED BY <1>2, <2>1, <2>2, LogStepsAlarms, ScanKeepsAlarmInv, AcknowledgeMarks
<1> QED BY <1>1, <1>2

(* One alarm at most is first-out, the one the manager takes for it, and   *)
(* only while it is active or unacknowledged.                              *)
THEOREM FirstOutIsUp == LogSpec => []AlarmInv
  BY AlarmInductive, PTL DEF LogSpec

(* IsAnAnnunciator: through every order of scans, clearances and           *)
(* acknowledgements the manager does what a panel does.                    *)
THEOREM ManagerIsAPanel == LogSpec => IsAnAnnunciator
<1>1. LogInit => Panel!Init
  BY DEF LogInit, Init, Panel!Init, Lamp, Panel!NoAlarm, NoAlarm
<1>2. ASSUME AlarmInv, [LogNext]_logvars
      PROVE  [Panel!Next]_<<[a \in Alarms |-> Lamp(a)], holder>>
  <2>1. CASE UNCHANGED alarms
    BY <2>1 DEF alarms, Lamp
  <2>2. CASE \E now \in SUBSET Alarms : Scan(now)
    BY <1>2, <2>2, ScanIsPanelScan DEF Panel!Next
  <2>3. CASE Acknowledge(Alarms)
    BY <1>2, <2>3, AcknowledgeIsPanelAcknowledge DEF Panel!Next
  <2>4. CASE \E a \in Alarms : Acknowledge({a})
    <3>1. PICK a \in Alarms : Acknowledge({a})
      BY <2>4
    <3>2. Panel!Acknowledge({a})
      BY <1>2, <3>1, AcknowledgeIsPanelAcknowledge
    <3> QED BY <3>2 DEF Panel!Next
  <2> QED BY <1>2, <2>1, <2>2, <2>3, <2>4, LogStepsAlarms
<1> QED BY <1>1, <1>2, AlarmInductive, PTL DEF LogSpec, IsAnAnnunciator, Panel!Spec

-----------------------------------------------------------------------------
(* The wire.                                                               *)

LEMMA MaskIsRead ==
  ASSUME NEW set \in SUBSET Alarms, NEW on, on = Status!Mask(set)
  PROVE  Status!Unmask(on % 2 ^ WordBits, on \div 2 ^ WordBits) = set
<1>1. PICK f : f = [a \in 1 .. NumAlarms |-> 2 ^ (a - 1)]
  OBVIOUS
<1>2. Places(f, NumAlarms) /\ Within(set, 1, NumAlarms)
  BY <1>1 DEF Places, Within, Alarms
<1>3. on = Sum(f, set)
  <2>1. on = Status!SumFunctionOnSet(f, set)
    BY <1>1 DEF Status!Mask, Status!Bit
  <2>2. Status!SumFunctionOnSet(f, set) = Sum(f, set)
    BY SumIsFold
    DEF Sum, Fold, Pick, Status!SumFunctionOnSet, Status!FoldFunctionOnSet,
        Status!MapThenFoldSet
  <2> QED BY <2>1, <2>2
<1>4. on \in Nat
  <2>1. NumAlarms \in Nat
    BY AlarmsAssumption
  <2> QED BY <1>2, <1>3, <2>1, PlacesAreNaturals
<1>5. PICK w \in Nat \ {0} : w = 2 ^ WordBits
  BY WordAssumption, PowersArePositive
<1>6. (on % w) + (on \div w) * w = on
  BY <1>4
<1>7. Status!Unmask(on % w, on \div w) = {a \in 1 .. NumAlarms : (on \div 2 ^ (a - 1)) % 2 = 1}
  BY <1>5, <1>6 DEF Status!Unmask, Status!Bit
<1>8. ASSUME NEW a \in 1 .. NumAlarms
      PROVE  (on \div 2 ^ (a - 1)) % 2 = 1 <=> a \in set
  <2>1. NumAlarms \in Nat
    BY AlarmsAssumption
  <2> QED BY <1>2, <1>3, <2>1, PlaceIsRead
<1> QED BY <1>5, <1>7, <1>8 DEF Alarms

LEMMA WireIsFaithful == AlarmInv => WireTellsTheBoard
<1> SUFFICES ASSUME AlarmInv PROVE Seen = Alarm
  BY DEF WireTellsTheBoard
<1>1. PICK w : w = Status!Encode(Alarm)
  OBVIOUS
<1>2. PICK on, un : on = Status!Mask(active) /\ un = Status!Mask(unacked)
  OBVIOUS
<1>3. active \in SUBSET Alarms /\ unacked \in SUBSET Alarms
  BY DEF AlarmInv, TypeOK
<1>4. /\ w.active = on % 2 ^ WordBits /\ w.active_2 = on \div 2 ^ WordBits
      /\ w.unacked = un % 2 ^ WordBits /\ w.unacked_2 = un \div 2 ^ WordBits
      /\ w.first_out = IF first_out = {} THEN 0 ELSE Status!Max(first_out)
  BY <1>1, <1>2 DEF Status!Encode, Alarm
<1>5. Status!Unmask(w.active, w.active_2) = active
  BY <1>2, <1>3, <1>4, MaskIsRead
<1>6. Status!Unmask(w.unacked, w.unacked_2) = unacked
  BY <1>2, <1>3, <1>4, MaskIsRead
<1>7. {a \in 1 .. NumAlarms : w.first_out = a} = first_out
  <2>1. CASE holder = NoAlarm
    BY <1>4, <2>1 DEF AlarmInv
  <2>2. CASE holder # NoAlarm
    <3>1. first_out = {holder} /\ holder \in 1 .. NumAlarms
      BY <2>2 DEF AlarmInv, TypeOK, Alarms
    <3>2. Status!Max({holder}) = holder
      BY <3>1 DEF Status!Max
    <3> QED BY <1>4, <3>1, <3>2
  <2> QED BY <2>1, <2>2
<1> QED BY <1>1, <1>5, <1>6, <1>7 DEF Seen, Status!Decode, Alarm

(* WireTellsTheBoard: the masks, cut in two words of any width, and one    *)
(* number for the mark give the board back, at any point of the alarms'    *)
(* lives.                                                                  *)
THEOREM TheWireTellsTheBoard == LogSpec => []WireTellsTheBoard
  BY FirstOutIsUp, WireIsFaithful, PTL

-----------------------------------------------------------------------------
(* The replay.                                                             *)

(* What the replay has to have for it to miss nothing later: the log's last *)
(* sample is of what is active and of no fewer than are unacknowledged or   *)
(* marked now, what a scan has put up since aside; the replay's board shows *)
(* no less than that sample.                                                *)
BoardType == [active : SUBSET Alarms, unacked : SUBSET Alarms, first_out : SUBSET Alarms]

Covers(since) ==
  /\ unacked \subseteq last.unacked \cup since
  /\ first_out \subseteq last.first_out \cup since

ReplayInv ==
  /\ AlarmInv
  /\ phase \in {"sampled", "scanned", "settled"}
  /\ last \in BoardType /\ board \in BoardType
  /\ board.active = last.active
  /\ last.unacked \subseteq board.unacked
  /\ last.first_out \subseteq board.first_out
  /\ Covers(active \ last.active)
  /\ phase = "sampled" => active = last.active

LEMMA SampleKeepsReplay == ReplayInv /\ Sample => ReplayInv'
<1> SUFFICES ASSUME ReplayInv, Sample PROVE ReplayInv'
  OBVIOUS
<1>1. Seen = Alarm /\ AlarmInv'
  BY WireIsFaithful, AlarmInductive DEF ReplayInv, WireTellsTheBoard, Sample, LogNext
<1>2. PICK on : on = active \ last.active
  OBVIOUS
<1>3. /\ last' = Alarm /\ phase' = "sampled" /\ UNCHANGED alarms
      /\ board' = Swept(Applied(Alarm))
  BY <1>1 DEF Sample
<1>4. /\ active \in SUBSET Alarms /\ unacked \in SUBSET Alarms /\ first_out \in SUBSET Alarms
      /\ first_out \subseteq active \cup unacked
  BY DEF ReplayInv, AlarmInv, TypeOK, Latched
<1>5. /\ last \in BoardType /\ board \in BoardType
      /\ board.active = last.active
      /\ last.unacked \subseteq board.unacked
      /\ last.first_out \subseteq board.first_out
      /\ unacked \subseteq last.unacked \cup on
      /\ first_out \subseteq last.first_out \cup on
  BY <1>2 DEF ReplayInv, Covers
<1>6. PICK b : b = Applied(Alarm)
  OBVIOUS
<1>7. b = [active    |-> (board.active \cup on) \ (last.active \ active),
           unacked   |-> (board.unacked \cup on) \ (last.unacked \ unacked),
           first_out |-> (board.first_out \ on) \cup (on \cap first_out)]
  BY <1>2, <1>6 DEF Applied, ActivatedSince, ClearedSince, AcknowledgedSince, Alarm
<1>8. b.active = active /\ unacked \subseteq b.unacked /\ first_out \subseteq b.first_out
  BY <1>2, <1>5, <1>7 DEF BoardType
<1>9. b \in BoardType
  BY <1>2, <1>4, <1>5, <1>7 DEF BoardType
<1>10. board' = [active    |-> b.active, unacked   |-> b.unacked,
                 first_out |-> b.first_out \cap (b.active \cup b.unacked)]
  <2>1. board' = [b EXCEPT !.first_out = @ \cap (b.active \cup b.unacked)]
    BY <1>3, <1>6 DEF Swept
  <2> QED BY <1>9, <2>1 DEF BoardType
<1>11. /\ board' \in BoardType /\ board'.active = active
       /\ unacked \subseteq board'.unacked /\ first_out \subseteq board'.first_out
  BY <1>4, <1>8, <1>9, <1>10 DEF BoardType
<1>12. /\ last' \in BoardType /\ last'.active = active
       /\ last'.unacked = unacked /\ last'.first_out = first_out
  BY <1>3, <1>4 DEF Alarm, BoardType
<1> QED BY <1>1, <1>3, <1>11, <1>12 DEF ReplayInv, Covers, alarms

LEMMA ReplayInductive ==
  /\ LogInit => ReplayInv
  /\ ReplayInv /\ [LogNext]_logvars => ReplayInv'
<1>1. LogInit => ReplayInv
  <2> SUFFICES ASSUME LogInit PROVE ReplayInv
    OBVIOUS
  <2>1. AlarmInv
    BY AlarmInductive
  <2>2. Quiet \in BoardType /\ Quiet.active = {} /\ Quiet.unacked = {} /\ Quiet.first_out = {}
    BY DEF Quiet, BoardType
  <2> QED BY <2>1, <2>2 DEF LogInit, Init, ReplayInv, Covers
<1>2. ASSUME ReplayInv, [LogNext]_logvars PROVE ReplayInv'
  <2>1. AlarmInv'
    BY <1>2, AlarmInductive DEF ReplayInv
  <2>2. CASE Ask
    BY <1>2, <2>1, <2>2 DEF Ask, alarms, ReplayInv, Covers
  <2>3. CASE ScanAlarms
    <3>1. PICK now \in SUBSET Alarms : Scan(now)
      BY <2>3 DEF ScanAlarms
    <3>2. /\ active' = now /\ unacked' = unacked \cup (now \ active)
          /\ first_out' \subseteq first_out \cup (now \ active)
      BY <3>1 DEF Scan
    <3>3. /\ active = last.active /\ Covers(active \ last.active)
          /\ phase' = "scanned" /\ UNCHANGED <<last, board>>
      BY <1>2, <2>3 DEF ScanAlarms, ReplayInv
    <3>4. Covers(active \ last.active)'
      BY <3>2, <3>3 DEF Covers
    <3> QED BY <1>2, <2>1, <3>3, <3>4 DEF ReplayInv
  <2>4. CASE AcknowledgeAll \/ AcknowledgeOne
    <3>1. /\ UNCHANGED <<active, last, board>>
          /\ unacked' \subseteq unacked /\ first_out' \subseteq first_out
      BY <2>4 DEF AcknowledgeAll, AcknowledgeOne, Acknowledge, alarms
    <3>2. phase' \in {"sampled", "scanned", "settled"} /\ (phase' = "sampled" => phase = "sampled")
      BY <1>2, <2>4 DEF AcknowledgeAll, AcknowledgeOne, ReplayInv
    <3>3. Covers(active \ last.active)'
      BY <1>2, <3>1 DEF ReplayInv, Covers
    <3> QED BY <1>2, <2>1, <3>1, <3>2, <3>3 DEF ReplayInv
  <2>5. CASE Sample
    BY <1>2, <2>5, SampleKeepsReplay
  <2>6. CASE UNCHANGED logvars
    BY <1>2, <2>1, <2>6 DEF logvars, alarms, ReplayInv, Covers
  <2> QED BY <1>2, <2>2, <2>3, <2>4, <2>5, <2>6 DEF LogNext
<1> QED BY <1>1, <1>2

(* ReplayMissesNothing: the events of the samples, and nothing but those,  *)
(* rebuild every alarm that is active, to be acknowledged or first-out,    *)
(* whatever was asked for between two scans.                               *)
THEOREM TheReplayMissesNothing == LogSpec => []ReplayMissesNothing
<1>1. ReplayInv => ReplayMissesNothing
  BY DEF ReplayInv, ReplayMissesNothing, Behind, Alarm
<1> QED BY <1>1, ReplayInductive, PTL DEF LogSpec
=============================================================================
