----------------------------- MODULE ModbusPlant -----------------------------
(***************************************************************************)
(* The plant as it is served over Modbus TCP: ModbusServer with its store, *)
(* one ModbusClient on a connection that may be slow, and the plant's own  *)
(* side, which answers no one.  A frame is a request or an answer, whole;  *)
(* its transaction is counted back from the client's, 0 being the call it  *)
(* is in.  The server handles a request under the lock, in one step.       *)
(***************************************************************************)
EXTENDS RegisterMap

CONSTANTS
  MaxBits, MaxRegisters,   \* the protocol's limits on one request
  MaxLate,                 \* bound: answers the client has not read
  Maps,                    \* bound: the maps on which a client makes calls
  External                 \* BOOLEAN, or one mode only

ASSUME ModbusAssumption ==
  /\ Maps \subseteq {l \in Layouts : Validated(l)}
  /\ {MaxBits, MaxRegisters, MaxLate} \subseteq Nat /\ External \subseteq BOOLEAN

(* Each of the controller's five ranges is short of the protocol's limits, *)
(* which are over a hundred: an output, an input, three words, a request   *)
(* word with the setpoints.                                                *)
ASSUME PollAssumption ==
  /\ 1 <= MaxBits /\ 3 <= MaxRegisters
  /\ IsFiniteSet(Setpoints) /\ Cardinality(Setpoints) + 1 <= MaxRegisters

VARIABLES
  layout, external,   \* the map, and who drives the line
  store,
  sent,       \* the request the server has not handled, or None
  answers,    \* those on their way to the client
  caller,     \* the client's caller: "free", "waiting", or "failed" by a ConnectionError
  calling,    \* the function it has called
  served      \* history: the server has handled that call

wire   == <<sent, answers>>
client == <<caller, calling>>
vars   == <<layout, external, store, wire, client, served>>

-----------------------------------------------------------------------------
(* The requests.  A read has a count, a write its values.                  *)

Ask(fn, address, count) == [fn |-> fn, address |-> address, count |-> count, values |-> <<>>]
Put(fn, address, values) ==
  [fn |-> fn, address |-> address, count |-> Len(values), values |-> values]
None == Ask("none", 0, 0)

(* ModbusIOSync's polls: its inputs, the request word with the setpoints,  *)
(* all output coils, all the words it writes; and the status block, which  *)
(* an observer reads.                                                      *)
Polls(l) ==
  LET inputs == RangeOf(l.input, InputNames)
      words  == RangeOf(l.word, ReadNames(l))
      coils  == RangeOf(l.coil, Outputs)
      writes == RangeOf(l.word, WriteNames(l))
  IN  {Ask("read_inputs", inputs.address, inputs.count)}
      \cup (IF words.count = 0 THEN {} ELSE {Ask("read_words", words.address, words.count)})
      \cup (IF "status" \in MappedWords(l) THEN {Ask("read_words", l.word["status"], 1)} ELSE {})
      \cup {Put("write_coils", coils.address, v) : v \in [1 .. coils.count -> BOOLEAN]}
      \cup {Put("write_words", writes.address, v) : v \in [1 .. writes.count -> {0, 1}]}

(* What an HMI or a SCADA client may ask: anything of one or two words or  *)
(* coils, mapped or not, and one word too many.                            *)
Asked ==
  {Ask("read_words", a, n) : a \in Addresses, n \in {0, 1, MaxRegisters + 1}}
  \cup {Put("write_coil", a, <<v>>) : a \in BitAddresses, v \in BOOLEAN}
  \cup {Put("write_coils", a, <<v, v>>) : a \in BitAddresses, v \in BOOLEAN}
  \cup {Put("write_word", a, <<v>>) : a \in Addresses, v \in Raw}
  \cup {Put("write_words", a, <<v, w>>) : a \in Addresses, v \in {1}, w \in Raw}
  \cup {Ask("unsupported", 0, 1)}

Quantity(n, limit) == 1 <= n /\ n <= limit

(* _dispatch(): the quantity first, then the store.                        *)
Outcome(l, ext, s, r) ==
  LET limit == IF r.fn \in {"write_coil", "write_coils"} THEN MaxBits ELSE MaxRegisters
  IN  CASE r.fn = "unsupported" -> Refused("illegal_function", s)
        [] ~Quantity(r.count, limit) -> Refused("illegal_value", s)
        [] r.fn = "read_inputs" -> Read(l.input, InputNames, s, r.address, r.count)
        [] r.fn = "read_words" -> Read(l.word, MappedWords(l), s, r.address, r.count)
        [] r.fn \in {"write_coil", "write_coils"} -> WriteCoils(l, ext, s, r.address, r.values)
        [] r.fn \in {"write_word", "write_words"} -> WriteWords(l, ext, s, r.address, r.values)

-----------------------------------------------------------------------------
Init ==
  /\ layout \in {l \in Layouts : Validated(l)} /\ external \in External /\ store = NewStore
  /\ sent = None /\ answers = <<>>
  /\ caller = "free" /\ calling = "none" /\ served = FALSE

Handled == Outcome(layout, external, store, sent)

(* _Handler.handle() and handle_adu(): whatever the store does, a request  *)
(* is answered, with its own transaction.                                  *)
Serve ==
  /\ sent # None
  /\ \E done \in {Handled} :
       /\ store' = done.store
       /\ answers' = Append(answers, [age |-> 0, fn |-> sent.fn])
  /\ sent' = None
  /\ served' = TRUE
  /\ UNCHANGED <<layout, external, client>>

(* _request(): a new transaction; those on their way get older.  Bound:    *)
(* the server has taken up the one before.                                 *)
Call ==
  /\ layout \in Maps
  /\ caller = "free" /\ sent = None /\ Len(answers) < MaxLate
  /\ \E r \in Polls(layout) \cup Asked :
       /\ sent' = r
       /\ calling' = r.fn
  /\ answers' = [i \in DOMAIN answers |-> [answers[i] EXCEPT !.age = @ + 1]]
  /\ caller' = "waiting" /\ served' = FALSE
  /\ UNCHANGED <<layout, external, store>>

(* Mutant: the function is enough to tell an answer by.                    *)
MatchesByFunction(answer) == answer.fn = calling

(* The transaction is echoed, and then the function.                       *)
Matches(answer) == answer.age = 0 /\ answer.fn = calling

(* An answer, an exception response included, or a ConnectionError.        *)
Receive ==
  /\ caller = "waiting" /\ answers # <<>>
  /\ caller' = IF Matches(Head(answers)) THEN "free" ELSE "failed"
  /\ answers' = Tail(answers) /\ calling' = "none"
  /\ UNCHANGED <<layout, external, store, sent, served>>

(* The socket's timeout: the request may have been handled or not.         *)
TimeOut ==
  /\ caller = "waiting" /\ answers = <<>>
  /\ caller' = "failed" /\ calling' = "none"
  /\ UNCHANGED <<layout, external, store, wire, served>>

(* After an error the caller drops the connection, and with it what is on  *)
(* its way to it, or goes on with it.                                      *)
Recover ==
  /\ caller = "failed"
  /\ caller' = "free"
  /\ answers' \in {answers, <<>>} /\ sent' \in {sent, None}
  /\ UNCHANGED <<layout, external, store, calling, served>>

(* The plant's side, under the same lock: a tick hands the queued commands *)
(* to the handshake, or to the built-in controller, which writes its       *)
(* outputs in every scan.                                                  *)
Tick ==
  /\ IF external
     THEN store' = [store EXCEPT !.hmi = Requested(@, store.queued), !.queued = {}]
     ELSE \E on \in BOOLEAN : store' = [store EXCEPT !.output = on, !.queued = {}]
  /\ UNCHANGED <<layout, external, wire, client, served>>

Next == Serve \/ Call \/ Receive \/ TimeOut \/ Recover \/ Tick

Spec == Init /\ [][Next]_vars

-----------------------------------------------------------------------------
(* register_map.py: the controller's view is pollable by a standard PLC    *)
(* master.  Wherever a map that validate() lets through puts its words, no *)
(* poll of the controller is refused by the store that serves the map.     *)
PollsAreServed ==
  external => \A r \in Polls(layout) : Outcome(layout, external, store, r).code = "ok"

Serving == sent # None /\ sent' = None /\ caller' = caller

(* A refused multi-write never leaves the outputs half-changed, nor what   *)
(* else the controller writes.                                             *)
OutputsNeverHalfWritten ==
  [][Serving /\ Handled.code # "ok" =>
       store' = [store EXCEPT !.setpoint = store'.setpoint]]_vars

(* Every word has one writer: on the wire, the built-in controller's       *)
(* outputs by nobody, requests only taken down, by an acknowledgement;     *)
(* and what enters a setpoint writes nothing else.                         *)
EveryWordHasItsWriter ==
  [][Serving =>
       LET Controlled(s) == <<s.output, s.analog, s.status, s.hmi>>
       IN  /\ ~external \/ store'.setpoint # store.setpoint =>
                Controlled(store') = Controlled(store)
           /\ store'.hmi.request \subseteq store.hmi.request \cup store.hmi.pending]_vars

(* ModbusClient: a call that returns was handled by the server after it    *)
(* was made, whatever was given up before and answered late: the master    *)
(* never takes a write for done, or old inputs for new, on another call's  *)
(* answer.                                                                 *)
ReturnedWasServed ==
  [][caller = "waiting" /\ caller' = "free" => served]_vars
=============================================================================
