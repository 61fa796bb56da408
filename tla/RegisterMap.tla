----------------------------- MODULE RegisterMap -----------------------------
(***************************************************************************)
(* register_map.py: which tag, command, status word and setpoint is at     *)
(* which address, what a map must be like to be served, what a write does  *)
(* to the plant's store, and the five ranges a PLC master polls.           *)
(*                                                                         *)
(* The two input tables cannot be written and are mapped like the others:  *)
(* one input stands for them.  The bits of a request or acknowledge word   *)
(* are a set of commands, as in HmiHandshake; here a word is a number, and *)
(* every command has the same bit in it.                                   *)
(***************************************************************************)
EXTENDS HmiHandshake, Integers, Sequences, FiniteSets, FiniteSetsExt

CONSTANTS
  Addresses,     \* those of the holding registers
  BitAddresses,  \* those of the coils, and of the inputs
  Unmapped,      \* in no table
  Setpoints,     \* the HMI's, with the values LiveSession.setpoint() takes
  Accepted,      \*   when the built-in controller gets them
  Raw            \* what a register may hold

ASSUME MapAssumption ==
  /\ Addresses \subseteq Nat /\ BitAddresses \subseteq Nat /\ Unmapped \notin Addresses
  /\ IsFiniteSet(Addresses) /\ IsFiniteSet(BitAddresses)
  /\ {0, 1} \subseteq Raw /\ Accepted \subseteq Raw
  /\ Setpoints \cap {"analog", "status", "ack", "request"} = {}

Outputs == {"output"}                      \* DO tags
CoilNames == Outputs \cup Commands         \* and the HMI's pushbuttons
InputNames == {"input"}                    \* DI and AI tags
Controls == {"analog", "status", "ack"}    \* what the controller writes
WordNames == Controls \cup {"request"} \cup Setpoints

Layouts ==
  [coil : [CoilNames -> BitAddresses], input : [InputNames -> BitAddresses],
   word : [WordNames -> Addresses \cup {Unmapped}]]

-----------------------------------------------------------------------------
(* RegisterMap.validate().                                                 *)

MappedWords(l) == {n \in WordNames : l.word[n] # Unmapped}

Used(table, names) == {table[n] : n \in names}

(* claim(): two names at one address are a collision.                      *)
Collides(table, names) == \E m, n \in names : m # n /\ table[m] = table[n]

(* Mutant: an address in the middle may be anybody's.                      *)
ContiguousOrNot(S) == Cardinality(S) >= 0

(* span(): a PLC master polls one range of each table, without a hole.     *)
Contiguous(S) == S = {} \/ Max(S) - Min(S) + 1 = Cardinality(S)

ReadNames(l)  == MappedWords(l) \cap ({"request"} \cup Setpoints)
WriteNames(l) == MappedWords(l) \cap Controls

Validated(l) ==
  /\ ~Collides(l.coil, CoilNames) /\ ~Collides(l.word, MappedWords(l))
  /\ "analog" \in MappedWords(l)
  /\ MappedWords(l) \cap Setpoints # {} => "request" \in MappedWords(l)
  /\ "request" \in MappedWords(l) <=> "ack" \in MappedWords(l)
  /\ Contiguous(Used(l.coil, Outputs)) /\ Contiguous(Used(l.input, InputNames))
  /\ Contiguous(Used(l.word, ReadNames(l))) /\ Contiguous(Used(l.word, WriteNames(l)))

-----------------------------------------------------------------------------
(* The data store: what is behind the addresses.                           *)

NewStore ==
  [output   |-> FALSE,                        \* the DO tag of the I/O image
   analog   |-> 0,                            \* its AO tag
   status   |-> 0,                            \* status_values
   hmi      |-> Idle,
   setpoint |-> [n \in Setpoints |-> 0],
   queued   |-> {}]                           \* on_command: LiveSession._pending

Word(raw) == IF raw % 2 = 1 THEN Commands ELSE {}

Span(address, count) == address .. address + count - 1

(* _points(): a range with a hole in it is refused whole.                  *)
Mapped(table, names, address, count) == Span(address, count) \subseteq Used(table, names)

NameAt(table, names, a) == CHOOSE n \in names : table[n] = a

(* The names written, with the value for each.                             *)
Targets(table, names, address, values) ==
  [n \in {m \in names : table[m] \in Span(address, Len(values))} |->
     values[table[n] - address + 1]]

Done(store) == [code |-> "ok", store |-> store]
Refused(code, store) == [code |-> code, store |-> store]

(* write_coils().  With the built-in controller the outputs are its own.   *)
WriteCoils(l, external, s, address, values) ==
  LET t == Targets(l.coil, CoilNames, address, values)
  IN  IF ~Mapped(l.coil, CoilNames, address, Len(values))
         \/ (DOMAIN t \cap Outputs # {} /\ ~external)
      THEN Refused("illegal_address", s)
      ELSE Done([s EXCEPT !.output = IF "output" \in DOMAIN t THEN t["output"] ELSE @,
                          !.queued = @ \cup {c \in DOMAIN t \cap Commands : t[c]}])

(* The setpoints an HMI enters, one after the other.  The handshake keeps  *)
(* any number; the session queues each for its next tick (they are counted *)
(* as entered here) and checks it first: one it does not take is an error  *)
(* nobody declared, with those before it entered already.                  *)
EnterSetpoints(l, external, s, t) ==
  LET refused == {n \in DOMAIN t : ~external /\ t[n] \notin Accepted}
      entered == {n \in DOMAIN t : \A m \in refused : l.word[n] < l.word[m]}
      after   == [s EXCEPT !.setpoint = [n \in Setpoints |-> IF n \in entered THEN t[n] ELSE @[n]]]
  IN  IF refused = {} THEN Done(after) ELSE Refused("device_failure", after)

(* Mutant: a client may write any word, whoever drives the line.           *)
NotForTheControllerOpen(external, names) ==
  names \cap Setpoints # {} \/ "request" \in names

(* write_holding_registers(): what makes a write of these words refused.   *)
NotForTheController(external, names) ==
  names \cap Setpoints # {} \/ ~external \/ "request" \in names

(* What the controller's write does, word for word.                        *)
Written(s, t) ==
  LET has(n) == n \in DOMAIN t
  IN  [s EXCEPT !.analog = IF has("analog") THEN t["analog"] ELSE @,
                !.status = IF has("status") THEN t["status"] ELSE @,
                !.hmi    = IF has("ack") THEN Acked(@, Word(t["ack"])) ELSE @]

(* Mutant: each word is checked when its turn comes.                       *)
WriteWordsInTurn(l, external, s, address, values) ==
  LET t == Targets(l.word, MappedWords(l), address, values)
      bad == {a \in Span(address, Len(values)) :
                \/ a \notin Used(l.word, MappedWords(l))
                \/ NotForTheController(external, {NameAt(l.word, MappedWords(l), a)})}
      before == {n \in DOMAIN t : \A a \in bad : l.word[n] < a}
  IN  IF bad = {} THEN Done(Written(s, t))
      ELSE Refused("illegal_address", Written(s, [n \in before |-> t[n]]))

(* Validated whole before any of it is applied; setpoints on their own.    *)
WriteWords(l, external, s, address, values) ==
  LET t == Targets(l.word, MappedWords(l), address, values)
  IN  IF ~Mapped(l.word, MappedWords(l), address, Len(values)) THEN Refused("illegal_address", s)
      ELSE IF DOMAIN t \subseteq Setpoints THEN EnterSetpoints(l, external, s, t)
      ELSE IF NotForTheController(external, DOMAIN t) THEN Refused("illegal_address", s)
      ELSE Done(Written(s, t))

(* The four reads change nothing.                                          *)
Read(table, names, s, address, count) ==
  IF Mapped(table, names, address, count) THEN Done(s) ELSE Refused("illegal_address", s)

-----------------------------------------------------------------------------
(* controller_ranges(): the range that a set of names takes up.            *)
RangeOf(table, names) ==
  LET used == Used(table, names)
  IN  [address |-> IF used = {} THEN 0 ELSE Min(used), count |-> Cardinality(used)]
=============================================================================
