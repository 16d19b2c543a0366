----------------------------- MODULE MCSrvLease -----------------------------
(* Small instances of SrvLease for TLC. *)
EXTENDS SrvLease, TLC

CONSTANTS c1, c2, i1, i2, iX, a1, a2, a3, p1, p2

(* One IA per message, with no hint or one. *)
OneIA == {<<[iaid |-> i, addrs |-> h]>> : i \in IAIDs, h \in {<<>>} \cup {<<a>> : a \in Addrs}}

(* Messages with both IAs and with one, for a class with the reserved address *)
(* and one without.                                                           *)
Short ==
  {<<[iaid |-> i1, addrs |-> <<>>], [iaid |-> i2, addrs |-> <<a2>>]>>, <<[iaid |-> i1, addrs |-> <<a1>>]>>,
   <<[iaid |-> i2, addrs |-> <<a2>>]>>}
ReservedAndOther == [a \in Addrs |-> IF a = a1 THEN p1 ELSE p2]

(* Two classes, an address in none; c1 prefers p2, c2 may only use p1. *)
TwoPools == [a \in Addrs |-> CASE a = a1 -> p1 [] a = a2 -> p2 [] OTHER -> NoPool]
SomePools == [c \in Clients |-> IF c = c1 THEN Pools ELSE {p1}]
PreferP2 == [c \in Clients |-> IF c = c1 THEN p2 ELSE NoPool]

FirstFixed == [c \in Clients |-> IF c = c1 THEN a1 ELSE NoAddr]
OnePool == [a \in Addrs |-> p1]
AllOf1 == [p \in Pools |-> Cardinality({a \in Addrs : PoolOf[a] = p})]
EveryPool == [c \in Clients |-> Pools]
NoPreference == [c \in Clients |-> NoPool]
AddrsAlike == Permutations(Addrs)
NobodyFixed == [c \in Clients |-> NoAddr]
=============================================================================
