---------------------------- MODULE HmiHandshake ----------------------------
(***************************************************************************)
(* HmiHandshake: operator commands to a controller that cannot be called,  *)
(* as a request word, an acknowledge word and a set of held presses.  A    *)
(* word is the set of the commands whose bit is up.                        *)
(***************************************************************************)
CONSTANT Commands

Handshake ==
  [request : SUBSET Commands, ack : SUBSET Commands, pending : SUBSET Commands]

Idle == [request |-> {}, ack |-> {}, pending |-> {}]

(* Mutant: the two-phase version, which raises the bit at once.            *)
RequestedAtOnce(h, P) == [h EXCEPT !.request = @ \cup P]

(* request(), once for each command of P.  A press under a standing ack is *)
(* held; the presses of a tick touch different bits or repeat each other,  *)
(* so their order does not matter.                                         *)
Requested(h, P) ==
  [h EXCEPT !.request = @ \cup (P \ h.ack), !.pending = @ \cup (P \cap h.ack)]

(* Mutant: the request falls with the level of the ack, not with its edge, *)
(* and takes the held press that is just being raised along.               *)
AckedForgets(h, value) ==
  [request |-> h.request \ (value \ h.ack), ack |-> value,
   pending |-> h.pending \ (h.ack \ value)]

(* write_ack(): a rising bit takes its request down, a falling one raises  *)
(* the press held for it.                                                  *)
Acked(h, value) ==
  LET rising  == value \ h.ack
      falling == h.ack \ value
  IN  [request |-> (h.request \ rising) \cup (h.pending \cap falling),
       ack     |-> value,
       pending |-> h.pending \ falling]
=============================================================================
