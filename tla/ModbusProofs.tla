---------------------------- MODULE ModbusProofs ----------------------------
(***************************************************************************)
(* What the Modbus server keeps and the client may rely on, for every map  *)
(* validate() lets through, every set of commands and setpoints and every  *)
(* limit on a request.                                                     *)
(***************************************************************************)
EXTENDS ModbusPlant, Recursion, SequenceTheorems

(* A store has the fields of NewStore; its handshake is one, and what it   *)
(* has queued are commands.                                                *)
Fields(s) ==
  s = [output |-> s.output, analog |-> s.analog, status |-> s.status, hmi |-> s.hmi,
       setpoint |-> s.setpoint, queued |-> s.queued]

IsStore(s) == Fields(s) /\ s.hmi \in Handshake /\ s.queued \subseteq Commands

Reads      == {"read_inputs", "read_words"}
CoilWrites == {"write_coil", "write_coils"}
WordWrites == {"write_word", "write_words"}
Requests   == Reads \cup CoilWrites \cup WordWrites \cup {"unsupported"}

StoreInv == IsStore(store) /\ (sent # None => sent.fn \in Requests)

(* Two stores that differ in a setpoint at most.                           *)
SetpointsApart(s, r) ==
  /\ r.output = s.output /\ r.analog = s.analog /\ r.status = s.status
  /\ r.hmi = s.hmi /\ r.queued = s.queued

(* Storing one field leaves the others alone.                              *)
LEMMA FieldExcept ==
  ASSUME NEW s, Fields(s), NEW x
  PROVE  /\ [s EXCEPT !.output = x]
              = [output |-> x, analog |-> s.analog, status |-> s.status, hmi |-> s.hmi,
                 setpoint |-> s.setpoint, queued |-> s.queued]
         /\ [s EXCEPT !.analog = x]
              = [output |-> s.output, analog |-> x, status |-> s.status, hmi |-> s.hmi,
                 setpoint |-> s.setpoint, queued |-> s.queued]
         /\ [s EXCEPT !.status = x]
              = [output |-> s.output, analog |-> s.analog, status |-> x, hmi |-> s.hmi,
                 setpoint |-> s.setpoint, queued |-> s.queued]
         /\ [s EXCEPT !.hmi = x]
              = [output |-> s.output, analog |-> s.analog, status |-> s.status, hmi |-> x,
                 setpoint |-> s.setpoint, queued |-> s.queued]
         /\ [s EXCEPT !.setpoint = x]
              = [output |-> s.output, analog |-> s.analog, status |-> s.status, hmi |-> s.hmi,
                 setpoint |-> x, queued |-> s.queued]
         /\ [s EXCEPT !.queued = x]
              = [output |-> s.output, analog |-> s.analog, status |-> s.status, hmi |-> s.hmi,
                 setpoint |-> s.setpoint, queued |-> x]
  BY SMT DEF Fields

(* Storing an output and queueing commands leaves the rest alone; so does  *)
(* entering setpoints, and so do the controller's words.                   *)
LEMMA StoreExcept ==
  ASSUME NEW s, Fields(s), NEW x, NEW y, NEW h
  PROVE  /\ [s EXCEPT !.output = x, !.queued = y]
              = [output |-> x, analog |-> s.analog, status |-> s.status, hmi |-> s.hmi,
                 setpoint |-> s.setpoint, queued |-> y]
         /\ [s EXCEPT !.analog = x, !.status = y, !.hmi = h]
              = [output |-> s.output, analog |-> x, status |-> y, hmi |-> h,
                 setpoint |-> s.setpoint, queued |-> s.queued]
<1> DEFINE stored == [s EXCEPT !.output = x]
           first  == [s EXCEPT !.analog = x]
           second == [first EXCEPT !.status = y]
<1>1. [s EXCEPT !.output = x, !.queued = y] = [stored EXCEPT !.queued = y]
  OBVIOUS
<1>2. [s EXCEPT !.analog = x, !.status = y, !.hmi = h] = [second EXCEPT !.hmi = h]
  OBVIOUS
<1>3. /\ Fields(stored) /\ stored.output = x /\ stored.analog = s.analog
      /\ stored.status = s.status /\ stored.hmi = s.hmi /\ stored.setpoint = s.setpoint
  BY FieldExcept DEF Fields
<1>4. /\ Fields(first) /\ first.output = s.output /\ first.analog = x /\ first.hmi = s.hmi
      /\ first.setpoint = s.setpoint /\ first.queued = s.queued
  BY FieldExcept DEF Fields
<1> HIDE DEF stored, first
<1>5. second = [output |-> first.output, analog |-> first.analog, status |-> y, hmi |-> first.hmi,
                setpoint |-> first.setpoint, queued |-> first.queued]
  BY <1>4, FieldExcept
<1>6. /\ Fields(second) /\ second.output = s.output /\ second.analog = x /\ second.status = y
      /\ second.setpoint = s.setpoint /\ second.queued = s.queued
  BY <1>4, <1>5 DEF Fields
<1> HIDE DEF second
<1>7. [stored EXCEPT !.queued = y]
        = [output |-> stored.output, analog |-> stored.analog, status |-> stored.status,
           hmi |-> stored.hmi, setpoint |-> stored.setpoint, queued |-> y]
  BY <1>3, FieldExcept
<1>8. [second EXCEPT !.hmi = h]
        = [output |-> second.output, analog |-> second.analog, status |-> second.status,
           hmi |-> h, setpoint |-> second.setpoint, queued |-> second.queued]
  BY <1>6, FieldExcept
<1>9. [s EXCEPT !.output = x, !.queued = y]
           = [output |-> x, analog |-> s.analog, status |-> s.status, hmi |-> s.hmi,
              setpoint |-> s.setpoint, queued |-> y]
  BY <1>1, <1>3, <1>7, Zenon
<1>10. [s EXCEPT !.analog = x, !.status = y, !.hmi = h]
         = [output |-> s.output, analog |-> x, status |-> y, hmi |-> h,
            setpoint |-> s.setpoint, queued |-> s.queued]
  BY <1>2, <1>6, <1>8, Zenon
<1> QED
  BY <1>9, <1>10, Zenon

(* What a write to the coils does to the store, refused or not.            *)
LEMMA CoilsKeep ==
  ASSUME NEW l, NEW ext \in BOOLEAN, NEW s, IsStore(s), NEW a, NEW v
  PROVE  LET done == WriteCoils(l, ext, s, a, v)
         IN  /\ IsStore(done.store)
             /\ done.code # "ok" => done.store = s
             /\ done.store.setpoint = s.setpoint /\ done.store.hmi = s.hmi
             /\ done.store.analog = s.analog /\ done.store.status = s.status
             /\ ~ext => done.store.output = s.output
<1> DEFINE t == Targets(l.coil, CoilNames, a, v)
           out == IF "output" \in DOMAIN t THEN t["output"] ELSE s.output
           queue == s.queued \cup {c \in DOMAIN t \cap Commands : t[c]}
<1>1. \/ WriteCoils(l, ext, s, a, v) = [code |-> "illegal_address", store |-> s]
      \/ /\ WriteCoils(l, ext, s, a, v)
              = [code |-> "ok", store |-> [s EXCEPT !.output = out, !.queued = queue]]
         /\ DOMAIN t \cap Outputs = {} \/ ext
  BY Zenon DEF WriteCoils, Refused, Done
<1>2. queue \subseteq Commands
  BY DEF IsStore
<1>3. DOMAIN t \cap Outputs = {} => out = s.output
  BY DEF Outputs
<1> HIDE DEF t, out, queue
<1>4. CASE WriteCoils(l, ext, s, a, v) = [code |-> "illegal_address", store |-> s]
  BY <1>4
<1>5. CASE /\ WriteCoils(l, ext, s, a, v)
                = [code |-> "ok", store |-> [s EXCEPT !.output = out, !.queued = queue]]
           /\ DOMAIN t \cap Outputs = {} \/ ext
  <2>1. WriteCoils(l, ext, s, a, v)
          = [code |-> "ok",
             store |-> [output |-> out, analog |-> s.analog, status |-> s.status, hmi |-> s.hmi,
                        setpoint |-> s.setpoint, queued |-> queue]]
    BY <1>5, StoreExcept DEF IsStore
  <2> QED
    BY <1>2, <1>3, <1>5, <2>1 DEF IsStore, Fields
<1> QED
  BY <1>1, <1>4, <1>5

(* The setpoints entered, all of them or those before one refused, change  *)
(* nothing else.                                                           *)
LEMMA SetpointsKeep ==
  ASSUME NEW l, NEW ext \in BOOLEAN, NEW s, IsStore(s), NEW t
  PROVE  LET done == EnterSetpoints(l, ext, s, t)
         IN  IsStore(done.store) /\ SetpointsApart(s, done.store)
<1> PICK p, code : EnterSetpoints(l, ext, s, t) = [code |-> code, store |-> [s EXCEPT !.setpoint = p]]
  BY Zenon DEF EnterSetpoints, Done, Refused
<1>1. EnterSetpoints(l, ext, s, t)
        = [code |-> code,
           store |-> [output |-> s.output, analog |-> s.analog, status |-> s.status, hmi |-> s.hmi,
                      setpoint |-> p, queued |-> s.queued]]
  BY FieldExcept DEF IsStore
<1> QED
  BY <1>1 DEF IsStore, Fields, SetpointsApart

(* A word of the wire is a set of commands, and acknowledging them raises  *)
(* no request but one that was held.                                       *)
LEMMA AckKeeps ==
  ASSUME NEW h \in Handshake, NEW raw
  PROVE  /\ Acked(h, Word(raw)) \in Handshake
         /\ Acked(h, Word(raw)).request \subseteq h.request \cup h.pending
<1>1. Word(raw) \in SUBSET Commands
  BY DEF Word
<1> QED
  BY <1>1 DEF Acked, Handshake

(* The controller's write of its words enters no setpoint and switches no  *)
(* output.                                                                 *)
LEMMA WrittenKeeps ==
  ASSUME NEW s, IsStore(s), NEW t
  PROVE  /\ IsStore(Written(s, t))
         /\ Written(s, t).setpoint = s.setpoint
         /\ Written(s, t).hmi.request \subseteq s.hmi.request \cup s.hmi.pending
<1> DEFINE x == IF "analog" \in DOMAIN t THEN t["analog"] ELSE s.analog
           y == IF "status" \in DOMAIN t THEN t["status"] ELSE s.status
           h == IF "ack" \in DOMAIN t THEN Acked(s.hmi, Word(t["ack"])) ELSE s.hmi
<1>1. Written(s, t) = [s EXCEPT !.analog = x, !.status = y, !.hmi = h]
  BY Zenon DEF Written
<1>2. h \in Handshake /\ h.request \subseteq s.hmi.request \cup s.hmi.pending
  BY AckKeeps DEF IsStore
<1> HIDE DEF x, y, h
<1>3. Written(s, t) = [output |-> s.output, analog |-> x, status |-> y, hmi |-> h,
                       setpoint |-> s.setpoint, queued |-> s.queued]
  BY <1>1, StoreExcept DEF IsStore
<1> QED
  BY <1>2, <1>3 DEF IsStore, Fields

(* What a write to the words does: the setpoints, or what the controller   *)
(* drives the line with, never both, and nothing at all if it is refused.  *)
LEMMA WordsKeep ==
  ASSUME NEW l, NEW ext \in BOOLEAN, NEW s, IsStore(s), NEW a, NEW v
  PROVE  LET done == WriteWords(l, ext, s, a, v)
         IN  /\ IsStore(done.store)
             /\ \/ SetpointsApart(s, done.store)
                \/ done.code = "ok" /\ ext /\ done.store.setpoint = s.setpoint
             /\ done.store.hmi.request \subseteq s.hmi.request \cup s.hmi.pending
<1> DEFINE t == Targets(l.word, MappedWords(l), a, v)
<1>1. \/ WriteWords(l, ext, s, a, v) = [code |-> "illegal_address", store |-> s]
      \/ WriteWords(l, ext, s, a, v) = EnterSetpoints(l, ext, s, t)
      \/ WriteWords(l, ext, s, a, v) = [code |-> "ok", store |-> Written(s, t)] /\ ext
  BY Zenon DEF WriteWords, Refused, Done, NotForTheController
<1> HIDE DEF t
<1>2. CASE WriteWords(l, ext, s, a, v) = [code |-> "illegal_address", store |-> s]
  BY <1>2 DEF SetpointsApart
<1>3. CASE WriteWords(l, ext, s, a, v) = EnterSetpoints(l, ext, s, t)
  BY <1>3, SetpointsKeep DEF SetpointsApart
<1>4. CASE WriteWords(l, ext, s, a, v) = [code |-> "ok", store |-> Written(s, t)] /\ ext
  <2>1. /\ IsStore(Written(s, t)) /\ Written(s, t).setpoint = s.setpoint
        /\ Written(s, t).hmi.request \subseteq s.hmi.request \cup s.hmi.pending
    BY WrittenKeeps
  <2>2. ASSUME NEW d, NEW w, d = [code |-> "ok", store |-> w] PROVE d.store = w /\ d.code = "ok"
    BY <2>2
  <2>3. /\ WriteWords(l, ext, s, a, v).store = Written(s, t)
        /\ WriteWords(l, ext, s, a, v).code = "ok" /\ ext
    BY <1>4, <2>2, Zenon
  <2> QED
    BY <2>1, <2>3, Zenon
<1> QED
  BY <1>1, <1>2, <1>3, <1>4

(* Any request: what the server does with it, whatever it asks.            *)
LEMMA OutcomeKeeps ==
  ASSUME NEW l, NEW ext \in BOOLEAN, NEW s, IsStore(s), NEW r, r.fn \in Requests
  PROVE  LET done == Outcome(l, ext, s, r)
         IN  /\ IsStore(done.store)
             /\ done.code # "ok" => SetpointsApart(s, done.store)
             /\ ~ext \/ done.store.setpoint # s.setpoint =>
                  /\ done.store.output = s.output /\ done.store.hmi = s.hmi
                  /\ done.store.analog = s.analog /\ done.store.status = s.status
             /\ done.store.hmi.request \subseteq s.hmi.request \cup s.hmi.pending
<1> DEFINE Kept == \E code : Outcome(l, ext, s, r) = [code |-> code, store |-> s]
<1>1. CASE Kept
  BY <1>1 DEF SetpointsApart
<1>2. CASE Outcome(l, ext, s, r) = WriteCoils(l, ext, s, r.address, r.values)
  BY <1>2, CoilsKeep DEF SetpointsApart
<1>3. CASE Outcome(l, ext, s, r) = WriteWords(l, ext, s, r.address, r.values)
  BY <1>3, WordsKeep DEF SetpointsApart
<1>4. r.fn \in CoilWrites => Kept \/ Outcome(l, ext, s, r) = WriteCoils(l, ext, s, r.address, r.values)
  BY DEF Outcome, Refused, CoilWrites
<1>5. r.fn \in WordWrites => Kept \/ Outcome(l, ext, s, r) = WriteWords(l, ext, s, r.address, r.values)
  BY DEF Outcome, Refused, WordWrites
<1>6. r.fn \in Reads \cup {"unsupported"} => Kept
  BY DEF Outcome, Refused, Read, Done, Reads
<1> QED
  BY <1>1, <1>2, <1>3, <1>4, <1>5, <1>6 DEF Requests

-----------------------------------------------------------------------------
(* The store stays a store, and every frame under way is a request.        *)
LEMMA StoreStep == external \in BOOLEAN /\ StoreInv /\ [Next]_vars => StoreInv'
<1> SUFFICES ASSUME external \in BOOLEAN, StoreInv, [Next]_vars PROVE StoreInv'
  OBVIOUS
<1>1. CASE Serve
  <2>1. IsStore(Handled.store)
    BY <1>1, OutcomeKeeps DEF Serve, Handled, StoreInv
  <2>2. store' = Handled.store /\ sent' = None
    BY <1>1 DEF Serve
  <2> QED
    BY <2>1, <2>2, Zenon DEF StoreInv
<1>2. CASE Call
  <2>1. PICK r \in Polls(layout) \cup Asked : sent' = r
    BY <1>2 DEF Call
  <2>2. r.fn \in Requests
    BY DEF Polls, Asked, Ask, Put, Requests, Reads, CoilWrites, WordWrites
  <2> QED
    BY <1>2, <2>1, <2>2 DEF Call, StoreInv
<1>3. CASE Receive
  BY <1>3 DEF Receive, StoreInv
<1>4. CASE TimeOut
  BY <1>4 DEF TimeOut, StoreInv, wire
<1>5. CASE Recover
  BY <1>5 DEF Recover, StoreInv
<1>6. CASE Tick
  <2>1. IsStore(store')
    <3>1. Requested(store.hmi, store.queued) \in Handshake
      BY DEF StoreInv, IsStore, Requested, Handshake
    <3>2. ASSUME NEW on PROVE IsStore([store EXCEPT !.output = on, !.queued = {}])
      <4>1. [store EXCEPT !.output = on, !.queued = {}]
              = [output |-> on, analog |-> store.analog, status |-> store.status,
                 hmi |-> store.hmi, setpoint |-> store.setpoint, queued |-> {}]
        BY StoreExcept, Zenon DEF StoreInv, IsStore
      <4> HIDE DEF StoreInv
      <4>2. store.hmi \in Handshake
        BY DEF StoreInv, IsStore
      <4> QED
        BY <4>1, <4>2 DEF IsStore, Fields
    <3>3. ASSUME NEW h \in Handshake PROVE IsStore([store EXCEPT !.hmi = h, !.queued = {}])
      <4> DEFINE raised == [store EXCEPT !.hmi = h]
      <4>1. Fields(raised) /\ raised.hmi = h
        BY FieldExcept DEF StoreInv, IsStore, Fields
      <4>2. [store EXCEPT !.hmi = h, !.queued = {}] = [raised EXCEPT !.queued = {}]
        OBVIOUS
      <4> HIDE DEF raised
      <4>3. IsStore([raised EXCEPT !.queued = {}])
        BY <4>1, FieldExcept DEF IsStore, Fields
      <4> QED
        BY <4>2, <4>3, Zenon
    <3> QED
      BY <1>6, <3>1, <3>2, <3>3, Zenon DEF Tick
  <2> QED
    BY <1>6, <2>1 DEF Tick, StoreInv, wire
<1>7. CASE UNCHANGED vars
  BY <1>7 DEF vars, StoreInv, wire
<1> QED
  BY <1>1, <1>2, <1>3, <1>4, <1>5, <1>6, <1>7 DEF Next

(* The plant is driven from one side for the life of its server.           *)
LEMMA SideStep == external \in BOOLEAN /\ [Next]_vars => (external \in BOOLEAN)'
  BY DEF Next, Serve, Call, Receive, TimeOut, Recover, Tick, vars

LEMMA StoreIsKept == Spec => [](external \in BOOLEAN /\ StoreInv)
<1>1. Init => external \in BOOLEAN /\ StoreInv
  BY ModbusAssumption DEF Init, NewStore, StoreInv, IsStore, Fields, Idle, Handshake
<1> QED
  BY <1>1, SideStep, StoreStep, PTL DEF Spec

(* The only step in which the server has handled a request and nobody has  *)
(* noticed yet.                                                            *)
LEMMA ServingServes == [Next]_vars /\ Serving => Serve
  BY DEF Next, Serving, Serve, Call, Receive, TimeOut, Recover, Tick, vars, wire, client

(* Whatever a write asks and wherever it is refused, nothing of what the   *)
(* controller drives the plant with has changed: the store validates a     *)
(* request whole before it applies any of it.                              *)
THEOREM NothingHalfWritten == Spec => OutputsNeverHalfWritten
<1>1. external \in BOOLEAN /\ StoreInv /\ [Next]_vars
        => [Serving /\ Handled.code # "ok" =>
              store' = [store EXCEPT !.setpoint = store'.setpoint]]_vars
  <2> SUFFICES ASSUME external \in BOOLEAN, StoreInv, [Next]_vars, Serving, Handled.code # "ok"
               PROVE  store' = [store EXCEPT !.setpoint = store'.setpoint]
    OBVIOUS
  <2>1. Serve
    BY ServingServes
  <2>2. store' = Handled.store /\ sent.fn \in Requests
    BY <2>1 DEF Serve, StoreInv
  <2>3. IsStore(Handled.store) /\ SetpointsApart(store, Handled.store)
    BY <2>2, OutcomeKeeps DEF Handled, StoreInv
  <2>4. [store EXCEPT !.setpoint = store'.setpoint]
          = [output |-> store.output, analog |-> store.analog, status |-> store.status,
             hmi |-> store.hmi, setpoint |-> store'.setpoint, queued |-> store.queued]
    BY FieldExcept DEF StoreInv, IsStore
  <2>5. IsStore(store') /\ SetpointsApart(store, store')
    BY <2>2, <2>3, Zenon
  <2> QED
    BY <2>4, <2>5 DEF IsStore, Fields, SetpointsApart
<1> QED
  BY <1>1, StoreIsKept, PTL DEF Spec, OutputsNeverHalfWritten

(* No client's write reaches an output of the built-in controller, none    *)
(* enters a setpoint along with anything else, and none raises a request   *)
(* that no operator pressed.                                               *)
THEOREM WordsHaveWriters == Spec => EveryWordHasItsWriter
<1> DEFINE Controlled(s) == <<s.output, s.analog, s.status, s.hmi>>
           Owned == /\ ~external \/ store'.setpoint # store.setpoint =>
                         Controlled(store') = Controlled(store)
                    /\ store'.hmi.request \subseteq store.hmi.request \cup store.hmi.pending
<1>1. external \in BOOLEAN /\ StoreInv /\ [Next]_vars => [Serving => Owned]_vars
  <2> SUFFICES ASSUME external \in BOOLEAN, StoreInv, [Next]_vars, Serving PROVE Owned
    OBVIOUS
  <2>1. Serve
    BY ServingServes
  <2>2. store' = Handled.store /\ sent.fn \in Requests
    BY <2>1 DEF Serve, StoreInv
  <2>3. /\ ~external \/ Handled.store.setpoint # store.setpoint =>
             /\ Handled.store.output = store.output /\ Handled.store.hmi = store.hmi
             /\ Handled.store.analog = store.analog /\ Handled.store.status = store.status
        /\ Handled.store.hmi.request \subseteq store.hmi.request \cup store.hmi.pending
    BY <2>2, OutcomeKeeps DEF Handled, StoreInv
  <2> QED
    BY <2>2, <2>3
<1> QED
  BY <1>1, StoreIsKept, PTL DEF Spec, EveryWordHasItsWriter

-----------------------------------------------------------------------------
(* An answer with the transaction of the call the client is in is on its   *)
(* way only when the server has handled that call.                         *)
AnswersInv ==
  /\ answers \in Seq([age : Nat, fn : Requests])
  /\ \A i \in DOMAIN answers : answers[i].age = 0 => served

(* Every call makes the answers on their way older, and only the server's  *)
(* handling of it brings one of its own.                                   *)
LEMMA AnswersStep == StoreInv /\ AnswersInv /\ [Next]_vars => AnswersInv'
<1> SUFFICES ASSUME StoreInv, AnswersInv, [Next]_vars PROVE AnswersInv'
  OBVIOUS
<1> USE DEF AnswersInv
<1>1. CASE Serve
  <2>1. [age |-> 0, fn |-> sent.fn] \in [age : Nat, fn : Requests]
    BY <1>1 DEF Serve, StoreInv
  <2>2. answers' = Append(answers, [age |-> 0, fn |-> sent.fn]) /\ served'
    BY <1>1 DEF Serve
  <2> QED
    BY <2>1, <2>2
<1>2. CASE Call
  <2>1. answers' = [i \in DOMAIN answers |-> [answers[i] EXCEPT !.age = @ + 1]]
    BY <1>2 DEF Call
  <2>2. ASSUME NEW r \in [age : Nat, fn : Requests]
        PROVE  /\ [r EXCEPT !.age = @ + 1] \in [age : Nat, fn : Requests]
               /\ [r EXCEPT !.age = @ + 1].age # 0
    OBVIOUS
  <2> DEFINE older == [i \in DOMAIN answers |-> [answers[i] EXCEPT !.age = @ + 1]]
  <2>3. \A i \in DOMAIN answers : answers[i] \in [age : Nat, fn : Requests]
    BY ElementOfSeq, LenProperties
  <2>4. \A i \in DOMAIN answers : older[i] \in [age : Nat, fn : Requests] /\ older[i].age # 0
    BY <2>2, <2>3, Zenon
  <2>5. Len(answers) \in Nat /\ DOMAIN answers = 1 .. Len(answers) /\ DOMAIN older = DOMAIN answers
    OBVIOUS
  <2>6. older \in Seq([age : Nat, fn : Requests])
    <3>1. older \in [1 .. Len(answers) -> [age : Nat, fn : Requests]]
      BY <2>4, <2>5, Zenon
    <3> HIDE DEF older
    <3> QED
      BY <2>5, <3>1, SeqDef
  <2> QED
    BY <2>1, <2>4, <2>5, <2>6
<1>3. CASE Receive
  <2>1. answers' = Tail(answers) /\ answers # <<>> /\ served' = served
    BY <1>3 DEF Receive
  <2>2. Tail(answers) \in Seq([age : Nat, fn : Requests])
    BY <2>1, HeadTailProperties
  <2>3. /\ Len(Tail(answers)) = Len(answers) - 1
        /\ \A i \in 1 .. Len(Tail(answers)) : Tail(answers)[i] = answers[i + 1]
    BY <2>1, HeadTailProperties
  <2>4. \A i \in 1 .. Len(answers) - 1 : i + 1 \in DOMAIN answers
    OBVIOUS
  <2>5. DOMAIN Tail(answers) = 1 .. Len(Tail(answers))
    BY <2>2
  <2> QED
    BY <2>1, <2>2, <2>3, <2>4, <2>5
<1>4. CASE TimeOut
  BY <1>4 DEF TimeOut, wire
<1>5. CASE Recover
  <2>1. answers' = answers \/ answers' = <<>>
    BY <1>5 DEF Recover
  <2>2. served' = served
    BY <1>5 DEF Recover
  <2>3. <<>> \in Seq([age : Nat, fn : Requests]) /\ DOMAIN <<>> = {}
    OBVIOUS
  <2> QED
    BY <2>1, <2>2, <2>3
<1>6. CASE Tick
  BY <1>6 DEF Tick, wire
<1>7. CASE UNCHANGED vars
  BY <1>7 DEF vars, wire
<1> QED
  BY <1>1, <1>2, <1>3, <1>4, <1>5, <1>6, <1>7 DEF Next

(* ModbusClient: whatever was given up before, and however late its answer *)
(* comes, a call that returns was handled after it was made.               *)
THEOREM NoAnswerToAnotherCall == Spec => ReturnedWasServed
<1>1. Init => AnswersInv
  BY DEF Init, AnswersInv
<1>2. AnswersInv /\ [Next]_vars => [caller = "waiting" /\ caller' = "free" => served]_vars
  <2> SUFFICES ASSUME AnswersInv, [Next]_vars, caller = "waiting", caller' = "free" PROVE served
    OBVIOUS
  <2>1. Receive
    BY DEF Next, Serve, Call, TimeOut, Recover, Tick, vars, client
  <2>2. answers # <<>> /\ Matches(Head(answers))
    BY <2>1 DEF Receive
  <2>3. 1 \in DOMAIN answers /\ Head(answers) = answers[1]
    BY <2>2 DEF AnswersInv
  <2> QED
    BY <2>2, <2>3 DEF AnswersInv, Matches
<1>3. Spec => []AnswersInv
  BY <1>1, AnswersStep, StoreIsKept, PTL DEF Spec
<1> QED
  BY <1>2, <1>3, PTL DEF Spec, ReturnedWasServed

-----------------------------------------------------------------------------
(* The controller's view.                                                  *)

Naturals(S) == S \subseteq Nat

(* A finite set of addresses has a first and a last one.                   *)
LEMMA FirstAndLast ==
  ASSUME NEW S, Naturals(S), IsFiniteSet(S), S # {}
  PROVE  \E lo, hi \in S : \A a \in S : lo <= a /\ a <= hi
<1>1. PICK T : T = {u \in SUBSET S : u # {} /\ ~\E hi \in u : \A a \in u : a <= hi}
  OBVIOUS
<1>2. T = {}
  <2> SUFFICES ASSUME T # {} PROVE FALSE
    OBVIOUS
  <2>1. PICK u \in T : \A w \in T : ~(w \subseteq u /\ w # u)
    <3>1. T \in SUBSET (SUBSET S)
      BY <1>1
    <3> QED BY <3>1, MinimalSubset
  <2>2. PICK x \in u : TRUE
    BY <1>1
  <2>3. u \ {x} \notin T /\ u \in SUBSET Nat
    BY <1>1, <2>1, <2>2 DEF Naturals
  <2>4. CASE u \ {x} = {}
    BY <1>1, <2>2, <2>3, <2>4
  <2>5. CASE u \ {x} # {}
    <3>1. PICK y \in u \ {x} : \A a \in u \ {x} : a <= y
      BY <1>1, <2>3, <2>5
    <3>2. PICK z \in u : x <= z /\ y <= z
      BY <2>2, <2>3, <3>1
    <3> QED BY <1>1, <2>3, <3>1, <3>2
  <2> QED BY <2>4, <2>5
<1>3. PICK lo \in S : \A a \in S : lo <= a
  BY LeastNatural DEF Naturals
<1> QED BY <1>1, <1>2, <1>3

(* Without a hole, the range from the first address is the set itself.     *)
LEMMA ContiguousIsARange ==
  ASSUME NEW S \in SUBSET Nat, IsFiniteSet(S), S # {}, Contiguous(S)
  PROVE  /\ Span(Min(S), Cardinality(S)) = S
         /\ Min(S) \in Nat /\ Cardinality(S) \in Nat /\ 1 <= Cardinality(S)
<1>1. PICK lo, hi \in S : \A a \in S : lo <= a /\ a <= hi
  BY FirstAndLast DEF Naturals
<1>2. Min(S) = lo /\ Max(S) = hi
  <2>1. \A x \in S : (\A y \in S : x =< y) <=> x = lo
    BY <1>1
  <2>2. \A x \in S : (\A y \in S : x >= y) <=> x = hi
    BY <1>1
  <2>3. Min(S) = lo
    BY <2>1 DEF Min
  <2>4. Max(S) = hi
    BY <2>2 DEF Max
  <2> QED BY <2>3, <2>4
<1>3. PICK R : R = lo .. hi
  OBVIOUS
<1>4. S \in SUBSET R /\ lo <= hi
  BY <1>1, <1>3
<1>5. IsFiniteSet(R) /\ Cardinality(R) = hi - lo + 1
  <2>1. lo \in Int /\ hi \in Int
    OBVIOUS
  <2> QED BY <1>3, <1>4, <2>1, FS_Interval
<1>6. Cardinality(S) = hi - lo + 1
  BY <1>2 DEF Contiguous
<1>7. R = S
  BY <1>4, <1>5, <1>6, FS_Subset
<1> QED BY <1>2, <1>3, <1>4, <1>6, <1>7 DEF Span

(* A table puts no more addresses to use than it has names.                *)
LEMMA UsedIsFinite ==
  ASSUME NEW table, NEW names, IsFiniteSet(names)
  PROVE  IsFiniteSet(Used(table, names)) /\ Cardinality(Used(table, names)) <= Cardinality(names)
<1>1. PICK f : f = [n \in names |-> table[n]]
  OBVIOUS
<1>2. PICK U : U = Used(table, names)
  OBVIOUS
<1>3. f \in Surjection(names, U)
  BY <1>1, <1>2 DEF Used, Surjection
<1>4. IsFiniteSet(U) /\ Cardinality(U) <= Cardinality(names)
  BY <1>3, FS_Surjection
<1> QED BY <1>2, <1>4

(* The range of any of the four sets of names is what a poll says it is.   *)
LEMMA RangeIsUsed ==
  ASSUME NEW table, NEW names, IsFiniteSet(names), names # {}, Used(table, names) \subseteq Nat,
         Contiguous(Used(table, names))
  PROVE  LET range == RangeOf(table, names)
         IN  /\ Span(range.address, range.count) = Used(table, names)
             /\ range.count \in Nat /\ 1 <= range.count /\ range.count <= Cardinality(names)
<1>1. PICK U : U = Used(table, names)
  OBVIOUS
<1>2. U \in SUBSET Nat /\ IsFiniteSet(U) /\ U # {} /\ Contiguous(U)
  BY <1>1, UsedIsFinite DEF Used
<1>3. RangeOf(table, names) = [address |-> Min(U), count |-> Cardinality(U)]
  BY <1>1, <1>2 DEF RangeOf
<1>4. Cardinality(U) <= Cardinality(names)
  BY <1>1, UsedIsFinite
<1> QED BY <1>1, <1>2, <1>3, <1>4, ContiguousIsARange

(* The map a plant is served from, and its words' addresses.               *)
LEMMA MapIsTyped ==
  ASSUME NEW l \in Layouts, Validated(l)
  PROVE  /\ Used(l.coil, Outputs) \subseteq Nat /\ Used(l.input, InputNames) \subseteq Nat
         /\ Used(l.word, ReadNames(l)) \subseteq Nat /\ Used(l.word, WriteNames(l)) \subseteq Nat
         /\ \A n \in MappedWords(l) : l.word[n] \in Nat
<1>1. /\ l.coil \in [CoilNames -> BitAddresses] /\ l.input \in [InputNames -> BitAddresses]
      /\ l.word \in [WordNames -> Addresses \cup {Unmapped}]
  BY DEF Layouts
<1>2. \A n \in MappedWords(l) : l.word[n] \in Nat
  BY <1>1, MapAssumption DEF MappedWords
<1>3. ReadNames(l) \subseteq MappedWords(l) /\ WriteNames(l) \subseteq MappedWords(l)
  BY DEF ReadNames, WriteNames
<1>4. \A n \in Outputs : l.coil[n] \in Nat
  BY <1>1, MapAssumption DEF CoilNames
<1>5. \A n \in InputNames : l.input[n] \in Nat
  BY <1>1, MapAssumption
<1> QED BY <1>2, <1>3, <1>4, <1>5 DEF Used

LEMMA FewNames ==
  ASSUME NEW l
  PROVE  /\ IsFiniteSet(Outputs) /\ Cardinality(Outputs) = 1 /\ Outputs # {}
         /\ IsFiniteSet(InputNames) /\ Cardinality(InputNames) = 1 /\ InputNames # {}
         /\ IsFiniteSet(WriteNames(l)) /\ Cardinality(WriteNames(l)) <= 3
         /\ IsFiniteSet(ReadNames(l)) /\ Cardinality(ReadNames(l)) <= Cardinality(Setpoints) + 1
<1>1. /\ IsFiniteSet(Outputs) /\ Cardinality(Outputs) = 1
      /\ IsFiniteSet(InputNames) /\ Cardinality(InputNames) = 1
  BY FS_Singleton DEF Outputs, InputNames
<1>2. Outputs # {} /\ InputNames # {}
  BY DEF Outputs, InputNames
<1>3. IsFiniteSet(Controls) /\ Cardinality(Controls) <= 3
  <2>1. IsFiniteSet({"analog"}) /\ Cardinality({"analog"}) = 1
    BY FS_Singleton
  <2>2. PICK two : two = {"analog"} \cup {"status"}
    OBVIOUS
  <2>3. IsFiniteSet(two) /\ Cardinality(two) \in Nat /\ Cardinality(two) <= 2
    BY <2>1, <2>2, FS_AddElement, FS_CardinalityType
  <2>4. PICK three : three = two \cup {"ack"}
    OBVIOUS
  <2>5. IsFiniteSet(three) /\ Cardinality(three) <= 3
    BY <2>3, <2>4, FS_AddElement
  <2>6. three = Controls
    BY <2>2, <2>4 DEF Controls
  <2> QED BY <2>5, <2>6
<1>4. IsFiniteSet(WriteNames(l)) /\ Cardinality(WriteNames(l)) <= 3
  <2>1. PICK W, C : W = WriteNames(l) /\ C = Controls /\ W \in SUBSET C
    BY DEF WriteNames
  <2>2. /\ IsFiniteSet(C) /\ Cardinality(C) <= 3 /\ Cardinality(C) \in Nat
    BY <1>3, <2>1, FS_CardinalityType
  <2>3. IsFiniteSet(W) /\ Cardinality(W) <= Cardinality(C) /\ Cardinality(W) \in Nat
    BY <2>1, <2>2, FS_Subset, FS_CardinalityType
  <2> QED BY <2>1, <2>2, <2>3
<1>5. IsFiniteSet(ReadNames(l)) /\ Cardinality(ReadNames(l)) <= Cardinality(Setpoints) + 1
  <2>1. PICK R, Q : R = ReadNames(l) /\ Q = Setpoints \cup {"request"} /\ R \in SUBSET Q
    BY DEF ReadNames
  <2>2. IsFiniteSet(Setpoints) /\ Cardinality(Setpoints) \in Nat
    BY PollAssumption, FS_CardinalityType
  <2>3. /\ IsFiniteSet(Q) /\ Cardinality(Q) \in Nat
        /\ Cardinality(Q) <= Cardinality(Setpoints) + 1
    BY <2>1, <2>2, FS_AddElement, FS_CardinalityType
  <2>4. IsFiniteSet(R) /\ Cardinality(R) <= Cardinality(Q) /\ Cardinality(R) \in Nat
    BY <2>1, <2>3, FS_Subset, FS_CardinalityType
  <2> QED BY <2>1, <2>2, <2>3, <2>4
<1> QED BY <1>1, <1>2, <1>4, <1>5

(* The names written are those whose addresses are in the range.           *)
LEMMA TargetsAreTheNames ==
  ASSUME NEW table, NEW all, NEW names \in SUBSET all, ~Collides(table, all),
         NEW a, NEW v, Span(a, Len(v)) = Used(table, names)
  PROVE  DOMAIN Targets(table, all, a, v) = names /\ Mapped(table, all, a, Len(v))
<1>1. DOMAIN Targets(table, all, a, v) = {m \in all : table[m] \in Used(table, names)}
  BY Zenon DEF Targets
<1>2. {m \in all : table[m] \in Used(table, names)} = names
  BY DEF Collides, Used
<1>3. Used(table, names) \subseteq Used(table, all)
  BY DEF Used
<1> QED BY <1>1, <1>2, <1>3 DEF Mapped

LEMMA DoneIsOk == ASSUME NEW s PROVE Done(s).code = "ok"
  BY DEF Done

LEMMA PollIsServed ==
  ASSUME NEW l \in Layouts, Validated(l), NEW s, NEW r \in Polls(l)
  PROVE  Outcome(l, TRUE, s, r).code = "ok"
<1>1. PICK inputs, words, coils, writes :
        /\ inputs = RangeOf(l.input, InputNames) /\ words = RangeOf(l.word, ReadNames(l))
        /\ coils = RangeOf(l.coil, Outputs) /\ writes = RangeOf(l.word, WriteNames(l))
  OBVIOUS
<1>2. /\ MaxBits \in Nat /\ MaxRegisters \in Nat /\ 1 <= MaxBits /\ 3 <= MaxRegisters
      /\ Cardinality(Setpoints) + 1 <= MaxRegisters /\ Cardinality(Setpoints) \in Nat
  BY ModbusAssumption, PollAssumption, FS_CardinalityType
<1>3. \/ r = Ask("read_inputs", inputs.address, inputs.count)
      \/ words.count # 0 /\ r = Ask("read_words", words.address, words.count)
      \/ "status" \in MappedWords(l) /\ r = Ask("read_words", l.word["status"], 1)
      \/ \E v \in [1 .. coils.count -> BOOLEAN] : r = Put("write_coils", coils.address, v)
      \/ \E v \in [1 .. writes.count -> {0, 1}] : r = Put("write_words", writes.address, v)
  BY <1>1 DEF Polls
<1>4. CASE r = Ask("read_inputs", inputs.address, inputs.count)
  <2>1. /\ Span(inputs.address, inputs.count) = Used(l.input, InputNames)
        /\ inputs.count \in Nat /\ 1 <= inputs.count /\ inputs.count <= Cardinality(InputNames)
    BY <1>1, RangeIsUsed, FewNames, MapIsTyped DEF Validated
  <2>2. Cardinality(InputNames) = 1
    BY FewNames
  <2>3. Quantity(inputs.count, MaxRegisters)
    BY <1>2, <2>1, <2>2 DEF Quantity
  <2>4. Mapped(l.input, InputNames, inputs.address, inputs.count)
    BY <2>1 DEF Mapped
  <2>5. r.fn = "read_inputs" /\ r.address = inputs.address /\ r.count = inputs.count
    BY <1>4 DEF Ask
  <2>6. Outcome(l, TRUE, s, r) = Done(s)
    BY <2>3, <2>4, <2>5 DEF Outcome, Read
  <2> QED BY <2>6, DoneIsOk
<1>5. CASE words.count # 0 /\ r = Ask("read_words", words.address, words.count)
  <2>1. ReadNames(l) # {}
    <3>1. ASSUME ReadNames(l) = {} PROVE FALSE
      <4>1. Used(l.word, ReadNames(l)) = {}
        BY <3>1 DEF Used
      <4>2. words.count = Cardinality({})
        BY <1>1, <4>1 DEF RangeOf
      <4> QED BY <1>5, <4>2, FS_EmptySet
    <3> QED BY <3>1
  <2>2. /\ Span(words.address, words.count) = Used(l.word, ReadNames(l))
        /\ words.count \in Nat /\ 1 <= words.count /\ words.count <= Cardinality(ReadNames(l))
    BY <1>1, <2>1, RangeIsUsed, FewNames, MapIsTyped DEF Validated
  <2>3. IsFiniteSet(ReadNames(l)) /\ Cardinality(ReadNames(l)) <= Cardinality(Setpoints) + 1
    BY FewNames
  <2>4. Cardinality(ReadNames(l)) \in Nat
    BY <2>3, FS_CardinalityType
  <2>5. Quantity(words.count, MaxRegisters)
    BY <1>2, <2>2, <2>3, <2>4 DEF Quantity
  <2>6. Mapped(l.word, MappedWords(l), words.address, words.count)
    BY <2>2 DEF Mapped, ReadNames, Used
  <2>7. r.fn = "read_words" /\ r.address = words.address /\ r.count = words.count
    BY <1>5 DEF Ask
  <2>8. Outcome(l, TRUE, s, r) = Done(s)
    BY <2>5, <2>6, <2>7 DEF Outcome, Read
  <2> QED BY <2>8, DoneIsOk
<1>6. CASE "status" \in MappedWords(l) /\ r = Ask("read_words", l.word["status"], 1)
  <2>1. l.word["status"] \in Nat
    BY <1>6, MapIsTyped
  <2>2. Span(l.word["status"], 1) = {l.word["status"]}
    BY <2>1 DEF Span
  <2>3. Mapped(l.word, MappedWords(l), l.word["status"], 1)
    BY <1>6, <2>2 DEF Mapped, Used
  <2>4. Quantity(1, MaxRegisters)
    BY <1>2 DEF Quantity
  <2>5. r.fn = "read_words" /\ r.address = l.word["status"] /\ r.count = 1
    BY <1>6 DEF Ask
  <2>6. Outcome(l, TRUE, s, r) = Done(s)
    BY <2>3, <2>4, <2>5 DEF Outcome, Read
  <2> QED BY <2>6, DoneIsOk
<1>7. CASE \E v \in [1 .. coils.count -> BOOLEAN] : r = Put("write_coils", coils.address, v)
  <2>1. PICK v \in [1 .. coils.count -> BOOLEAN] : r = Put("write_coils", coils.address, v)
    BY <1>7
  <2>2. /\ Span(coils.address, coils.count) = Used(l.coil, Outputs)
        /\ coils.count \in Nat /\ 1 <= coils.count /\ coils.count <= Cardinality(Outputs)
    BY <1>1, RangeIsUsed, FewNames, MapIsTyped DEF Validated
  <2>3. Len(v) = coils.count
    BY <2>2
  <2>4. /\ r.fn = "write_coils" /\ r.address = coils.address
        /\ r.count = coils.count /\ r.values = v
    BY <2>1, <2>3 DEF Put
  <2>5. Quantity(coils.count, MaxBits)
    <3>1. Cardinality(Outputs) = 1
      BY FewNames
    <3> QED BY <1>2, <2>2, <3>1 DEF Quantity
  <2>6. Mapped(l.coil, CoilNames, coils.address, Len(v))
    BY <2>2, <2>3 DEF Mapped, Used, CoilNames
  <2>7. Outcome(l, TRUE, s, r) = WriteCoils(l, TRUE, s, coils.address, v)
    BY <2>4, <2>5 DEF Outcome
  <2>8. WriteCoils(l, TRUE, s, coils.address, v).code = "ok"
    BY <2>6 DEF WriteCoils, Done
  <2> QED BY <2>7, <2>8
<1>8. CASE \E v \in [1 .. writes.count -> {0, 1}] : r = Put("write_words", writes.address, v)
  <2>1. PICK v \in [1 .. writes.count -> {0, 1}] : r = Put("write_words", writes.address, v)
    BY <1>8
  <2>2. "analog" \in WriteNames(l)
    BY DEF Validated, WriteNames, Controls
  <2>3. /\ Span(writes.address, writes.count) = Used(l.word, WriteNames(l))
        /\ writes.count \in Nat /\ 1 <= writes.count
        /\ writes.count <= Cardinality(WriteNames(l))
    BY <1>1, <2>2, RangeIsUsed, FewNames, MapIsTyped DEF Validated
  <2>4. Len(v) = writes.count
    BY <2>3
  <2>5. /\ r.fn = "write_words" /\ r.address = writes.address
        /\ r.count = writes.count /\ r.values = v
    BY <2>1, <2>4 DEF Put
  <2>6. Quantity(writes.count, MaxRegisters)
    <3>1. Cardinality(WriteNames(l)) <= 3 /\ IsFiniteSet(WriteNames(l))
      BY FewNames
    <3>2. Cardinality(WriteNames(l)) \in Nat
      BY <3>1, FS_CardinalityType
    <3> QED BY <1>2, <2>3, <3>1, <3>2 DEF Quantity
  <2>7. PICK t : t = Targets(l.word, MappedWords(l), writes.address, v)
    OBVIOUS
  <2>8. DOMAIN t = WriteNames(l) /\ Mapped(l.word, MappedWords(l), writes.address, Len(v))
    <3>1. ~Collides(l.word, MappedWords(l)) /\ WriteNames(l) \in SUBSET MappedWords(l)
      BY DEF Validated, WriteNames
    <3>2. Span(writes.address, Len(v)) = Used(l.word, WriteNames(l))
      BY <2>3, <2>4
    <3> QED BY <2>7, <3>1, <3>2, TargetsAreTheNames
  <2>9. ~(DOMAIN t \subseteq Setpoints) /\ ~NotForTheController(TRUE, DOMAIN t)
    BY <2>2, <2>8, MapAssumption DEF WriteNames, Controls, NotForTheController
  <2>10. WriteWords(l, TRUE, s, writes.address, v) = Done(Written(s, t))
    BY <2>7, <2>8, <2>9 DEF WriteWords
  <2>11. Outcome(l, TRUE, s, r) = WriteWords(l, TRUE, s, writes.address, v)
    BY <2>5, <2>6 DEF Outcome
  <2> QED BY <2>10, <2>11, DoneIsOk
<1> QED BY <1>3, <1>4, <1>5, <1>6, <1>7, <1>8

(* PollsAreServed: whatever map validate() lets through, however large its *)
(* addresses and wherever the words are, the controller's five polls are   *)
(* answered.                                                               *)
THEOREM EveryPollIsServed == Spec => []PollsAreServed
<1> DEFINE Served == layout \in Layouts /\ Validated(layout) /\ external \in BOOLEAN
<1>1. Init => Served
  BY ModbusAssumption DEF Init
<1>2. Served /\ [Next]_vars => Served'
  BY DEF Next, Serve, Call, Receive, TimeOut, Recover, Tick, vars
<1>3. Served => PollsAreServed
  <2> SUFFICES ASSUME Served, external, NEW r \in Polls(layout)
               PROVE  Outcome(layout, external, store, r).code = "ok"
    BY DEF PollsAreServed
  <2>1. external = TRUE
    OBVIOUS
  <2>2. Outcome(layout, TRUE, store, r).code = "ok"
    BY PollIsServed
  <2> QED BY <2>1, <2>2
<1> QED BY <1>1, <1>2, <1>3, PTL DEF Spec
=============================================================================
