------------------------------ MODULE MCModbus ------------------------------
(***************************************************************************)
(* ModbusPlant with two maps: the line's own, with the request word and    *)
(* the setpoints apart from what the controller writes, and one from a map *)
(* file that puts them before it, without a gap, and the pushbuttons       *)
(* before the outputs.                                                     *)
(***************************************************************************)
EXTENDS ModbusPlant, SequencesExt

Placed(names, first) ==
  [n \in Range(names) |-> first + (CHOOSE i \in DOMAIN names : names[i] = n) - 1]

LineMap ==
  [coil  |-> Placed(<<"output">> \o SetToSeq(Commands), 0),
   input |-> Placed(<<"input">>, 0),
   word  |-> Placed(<<"analog", "status", "ack">>, 0)
               @@ Placed(<<"request">> \o SetToSeq(Setpoints), 4)]

FileMap ==
  [coil  |-> Placed(SetToSeq(Commands) \o <<"output">>, 0),
   input |-> Placed(<<"input">>, 1),
   word  |-> Placed(<<"request">> \o SetToSeq(Setpoints) \o <<"ack", "analog", "status">>, 0)]

TwoMaps == {LineMap, FileMap}
=============================================================================
