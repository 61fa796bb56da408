---------------------------- MODULE StatusBlock ----------------------------
(***************************************************************************)
(* controller_status: the alarm board in five of the registers an external *)
(* controller publishes.  The alarms' bits overflow one word, so each mask *)
(* takes two; the first-out mark is one number.  WordBits stands for 16.   *)
(***************************************************************************)
EXTENDS Naturals, FiniteSetsExt, Functions

CONSTANTS NumAlarms, WordBits

Bit(a) == 2 ^ (a - 1)
Mask(set) == SumFunctionOnSet([a \in 1 .. NumAlarms |-> Bit(a)], set)

(* Mutant: the second unacknowledged word is cut from the active mask.     *)
EncodeCrossed(board) ==
  LET on == Mask(board.active)  un == Mask(board.unacked)
  IN  [active |-> on % 2 ^ WordBits, active_2 |-> on \div 2 ^ WordBits,
       unacked |-> un % 2 ^ WordBits, unacked_2 |-> on \div 2 ^ WordBits,
       first_out |-> IF board.first_out = {} THEN 0 ELSE Max(board.first_out)]

(* encode().  The loop over the alarms lets the last one flagged win.      *)
Encode(board) ==
  LET on == Mask(board.active)  un == Mask(board.unacked)
  IN  [active |-> on % 2 ^ WordBits, active_2 |-> on \div 2 ^ WordBits,
       unacked |-> un % 2 ^ WordBits, unacked_2 |-> un \div 2 ^ WordBits,
       first_out |-> IF board.first_out = {} THEN 0 ELSE Max(board.first_out)]

Unmask(low, high) ==
  {a \in 1 .. NumAlarms : ((low + high * 2 ^ WordBits) \div Bit(a)) % 2 = 1}

(* decode(): the board as the far side rebuilds it.                        *)
Decode(w) ==
  [active    |-> Unmask(w.active, w.active_2),
   unacked   |-> Unmask(w.unacked, w.unacked_2),
   first_out |-> {a \in 1 .. NumAlarms : w.first_out = a}]
=============================================================================
