------------------------------ MODULE MCRelay ------------------------------
(* Instances of Relay for TLC. *)
EXTENDS Relay

CONSTANTS c1, c2, r1, r2, r3, L0, L1, L2, L3, fe80

Iface(l, id, hears, to) == [link |-> l, id |-> id, hears |-> hears, to |-> to]
At(n, l) == [node |-> n, link |-> l]

(* Server - L0 - r1 - L2 - r2 and r3 - L1 with client c1; r1 also serves L3   *)
(* with client c2.  r3 omits its interface-ids and guesses.                  *)
Tree == [r \in {r1, r2, r3} |->
  CASE r = r1 -> <<Iface(L0, NoId, {}, {At(Server, L0)}),
                   Iface(L2, 11, {"unicast"}, {}), Iface(L3, 20, {"multicast"}, {})>>
    [] r = r2 -> <<Iface(L2, NoId, {}, {At(r1, L2)}), Iface(L1, 21, {"multicast"}, {})>>
    [] r = r3 -> <<Iface(L2, NoId, {}, {At(r1, L2)}), Iface(L1, 31, {"multicast"}, {})>>]
TreeKnown == <<<<11>>, <<20>>, <<11, 21>>>>
TreeServed == [s \in {<<>>, <<11>>, <<20>>, <<11, 21>>} |->
  CASE s = <<>> -> L0 [] s = <<11>> -> L2 [] s = <<20>> -> L3 [] s = <<11, 21>> -> L1]
TreeLinkOf == [c \in {c1, c2} |-> IF c = c1 THEN L1 ELSE L3]
SameAddr == [c \in Clients |-> fe80]

(* The tree meets the conditions the proofs about Relay assume. *)
ASSUME TreeIsAnswerable == Relays = {r1, r2, r3} => Answerable /\ ServerKnowsLinks

(* Two relays that send to each other; the server knows the interface of the   *)
(* client by another id than the relay writes, and has to guess.             *)
Loop == [r \in {r1, r2} |->
  IF r = r1 THEN <<Iface(L0, 10, {"unicast"}, {At(r2, L0), At(Server, L0)}),
                   Iface(L1, 11, {"multicast"}, {})>>
  ELSE <<Iface(L0, 20, {"unicast"}, {At(r1, L0), At(Server, L0)})>>]
LoopKnown == <<<<11>>, <<10>>, <<10, 20>>, <<10, 20, 12>>>>
LoopServed == [s \in ToSet(LoopKnown) \cup {<<>>} |->
  IF s # <<>> /\ Last(s) \in {11, 12} THEN L1 ELSE L0]
LoopLinkOf == [c \in {c1} |-> L1]
=============================================================================
